---------------------------- MODULE FoldTheorems ----------------------------
(***************************************************************************)
(* What the proofs need of recursion over finite sets and sequences.  The  *)
(* folds of the community modules are recursive functions on the subsets   *)
(* of a set; here is shown that such functions exist, and what follows for *)
(* sums and for folds from left to right.                                  *)
(*                                                                         *)
(* Induction is stated for sets of numbers: a property is the set of the   *)
(* numbers that have it.                                                   *)
(***************************************************************************)
EXTENDS Integers, FiniteSets, Sequences, SequencesExt, Functions, FiniteSetTheorems,
        WellFoundedInduction, TLAPS

\* A set of natural numbers has a least one.
LEMMA NatMin ==
  ASSUME NEW S, S \subseteq Nat, S # {}
  PROVE  \E x \in S : \A y \in S : x <= y
  <1>1. PICK x \in S : \A y \in S : ~ (<<y, x>> \in OpToRel(<, Nat))
    BY WFMin, NatLessThanWellFounded
  <1>2. \A y \in S : ~ (y < x)
    BY <1>1, Zenon DEF OpToRel
  <1>3. \A y \in S : x <= y
    BY <1>2
  <1>4. QED
    BY <1>3

\* Induction: a set that has 0, and with each number the next, has them all.
LEMMA NatInductive ==
  ASSUME NEW P, 0 \in P, \A n \in Nat : n \in P => n + 1 \in P
  PROVE  Nat \subseteq P
  <1>1. SUFFICES ASSUME Nat \ P # {} PROVE FALSE
    OBVIOUS
  <1>2. PICK m \in Nat \ P : \A y \in Nat \ P : m <= y
    BY <1>1, NatMin
  <1>3. m # 0 /\ m - 1 \in Nat /\ m - 1 \in P
    BY <1>2
  <1>4. QED
    BY <1>2, <1>3

\* The same for the subsets of a finite set: a property that the empty set has,
\* and every set has if it has it without any one of its elements, all have.
LEMMA FiniteInductive ==
  ASSUME NEW S, IsFiniteSet(S), NEW P, {} \in P,
         \A s \in SUBSET S : s # {} /\ (\A x \in s : s \ {x} \in P) => s \in P
  PROVE  SUBSET S \subseteq P
  <1> DEFINE Q == {n \in Nat : \A s \in SUBSET S : Cardinality(s) = n => s \in P}
  <1>1. \A s \in SUBSET S : IsFiniteSet(s) /\ Cardinality(s) \in Nat
    BY FS_Subset, FS_CardinalityType
  <1>2. 0 \in Q
    BY <1>1, FS_EmptySet
  <1>3. ASSUME NEW n \in Nat, n \in Q PROVE n + 1 \in Q
    <2>1. ASSUME NEW s \in SUBSET S, Cardinality(s) = n + 1 PROVE s \in P
      <3>1. s # {} /\ IsFiniteSet(s)
        BY <1>1, <2>1, FS_EmptySet
      <3>2. ASSUME NEW x \in s PROVE s \ {x} \in P
        <4>1. Cardinality(s \ {x}) = Cardinality(s) - 1
          BY <3>1, FS_RemoveElement
        <4>2. Cardinality(s \ {x}) = n /\ s \ {x} \in SUBSET S
          BY <2>1, <4>1
        <4>3. QED
          BY <1>3, <4>2
      <3>3. QED
        BY <3>1, <3>2
    <2>2. n + 1 \in Nat
      OBVIOUS
    <2>3. QED
      BY <2>1, <2>2, Zenon
  <1>4. Nat \subseteq Q
    BY <1>2, <1>3, NatInductive
  <1>5. QED
    BY <1>1, <1>4

\* g is built up from base by F, the elements of s taken as c says.
Unfolds(g, s, base, F, c) == g[s] = IF s = {} THEN base ELSE F[<<g[s \ {c[s]}], c[s]>>]

\* A recursion that removes one element at a time defines a function on the
\* subsets of a finite set.
LEMMA SetRecursion ==
  ASSUME NEW S, IsFiniteSet(S), NEW A, NEW base \in A,
         NEW c, \A s \in SUBSET S : s # {} => c[s] \in s,
         NEW F, \A a \in A, x \in S : F[<<a, x>>] \in A
  PROVE  \E g \in [SUBSET S -> A] : \A s \in SUBSET S : Unfolds(g, s, base, F, c)
  <1> DEFINE Small(n) == {s \in SUBSET S : Cardinality(s) <= n}
             P == {n \in Nat : \E g \in [Small(n) -> A] :
                                  \A s \in Small(n) : Unfolds(g, s, base, F, c)}
  <1>1. \A s \in SUBSET S : IsFiniteSet(s) /\ Cardinality(s) \in Nat
    BY FS_Subset, FS_CardinalityType
  <1>2. 0 \in P
    <2>1. \A s \in Small(0) : s = {}
      BY <1>1, FS_EmptySet
    <2> DEFINE g == [s \in Small(0) |-> base]
    <2>2. \A s \in Small(0) : Unfolds(g, s, base, F, c)
      BY <2>1 DEF Unfolds
    <2>3. QED
      BY <2>2
  <1>3. ASSUME NEW n \in Nat, n \in P PROVE n + 1 \in P
    <2>1. PICK g \in [Small(n) -> A] : \A s \in Small(n) : Unfolds(g, s, base, F, c)
      BY <1>3
    <2> DEFINE h == [s \in Small(n + 1) |-> IF s = {} THEN base ELSE F[<<g[s \ {c[s]}], c[s]>>]]
    <2>2. ASSUME NEW s \in Small(n + 1), s # {} PROVE s \ {c[s]} \in Small(n) /\ c[s] \in S
      <3>1. c[s] \in s /\ IsFiniteSet(s) /\ Cardinality(s) \in Nat
        BY <1>1, <2>2
      <3>2. Cardinality(s \ {c[s]}) = Cardinality(s) - 1
        BY <3>1, FS_RemoveElement
      <3>3. QED
        BY <2>2, <3>1, <3>2
    <2>3. \A s \in Small(n) : s \in Small(n + 1) /\ h[s] = g[s]
      <3>1. \A s \in Small(n) : s \in Small(n + 1)
        BY <1>1
      <3>2. QED
        BY <2>1, <3>1 DEF Unfolds
    <2>4. \A s \in Small(n + 1) : h[s] \in A
      BY <2>1, <2>2
    <2>5. \A s \in Small(n + 1) : Unfolds(h, s, base, F, c)
      BY <2>2, <2>3 DEF Unfolds
    <2>6. h \in [Small(n + 1) -> A]
      BY <2>4
    <2>7. \E k \in [Small(n + 1) -> A] : \A s \in Small(n + 1) : Unfolds(k, s, base, F, c)
      <3> HIDE DEF h, Small
      <3> QED
        BY <2>5, <2>6
    <2>8. n + 1 \in Nat
      OBVIOUS
    <2>9. QED
      BY <2>7, <2>8, Zenon
  <1>4. Cardinality(S) \in P
    BY <1>1, <1>2, <1>3, NatInductive
  <1>5. Small(Cardinality(S)) = SUBSET S
    BY <1>1, FS_Subset
  <1>6. QED
    BY <1>4, <1>5

-----------------------------------------------------------------------------
(* Sums: SumFunctionOnSet(f, S) adds up f over S in some order. *)

Pick(s) == CHOOSE x \in s : TRUE
Adds(g, f, s) == g[s] = IF s = {} THEN 0 ELSE f[Pick(s)] + g[s \ {Pick(s)}]

\* The sum is the value of a function that obeys its recursion.
LEMMA SumUnfolds ==
  ASSUME NEW S, IsFiniteSet(S), NEW f, \A x \in S : f[x] \in Int
  PROVE  \E g : SumFunctionOnSet(f, S) = g[S] /\ \A s \in SUBSET S : Adds(g, f, s)
  <1> DEFINE c == [s \in SUBSET S |-> Pick(s)]
             F == [p \in Int \X S |-> f[p[2]] + p[1]]
             body(iter) == [s \in SUBSET S |->
                              IF s = {} THEN 0 ELSE f[Pick(s)] + iter[s \ {Pick(s)}]]
  <1>1. \A s \in SUBSET S : s # {} => c[s] \in s
    BY DEF Pick
  <1>2. \A a \in Int, x \in S : F[<<a, x>>] = f[x] + a /\ F[<<a, x>>] \in Int
    OBVIOUS
  <1>3. \E g \in [SUBSET S -> Int] : \A s \in SUBSET S : Unfolds(g, s, 0, F, c)
    <2>1. 0 \in Int
      OBVIOUS
    <2>2. \A a \in Int, x \in S : F[<<a, x>>] \in Int
      BY <1>2
    <2> HIDE DEF c, F
    <2>3. QED
      BY <1>1, <2>1, <2>2, SetRecursion, Zenon
  <1>4. PICK g \in [SUBSET S -> Int] : \A s \in SUBSET S : Unfolds(g, s, 0, F, c)
    BY <1>3
  <1>5. g = body(g)
    <2>1. ASSUME NEW s \in SUBSET S PROVE g[s] = body(g)[s]
      <3>1. c[s] = Pick(s) /\ g[s \ {Pick(s)}] \in Int
        BY <1>4
      <3>2. s # {} => F[<<g[s \ {c[s]}], c[s]>>] = f[c[s]] + g[s \ {c[s]}]
        BY <1>1, <1>2, <3>1
      <3>3. QED
        BY <1>4, <3>1, <3>2 DEF Unfolds
    <2>2. QED
      BY <2>1
  <1>6. PICK iter : iter = CHOOSE h : h = body(h)
    OBVIOUS
  <1>7. iter = body(iter)
    BY <1>5, <1>6
  <1>8. SumFunctionOnSet(f, S) = iter[S]
    BY <1>6 DEF SumFunctionOnSet, FoldFunctionOnSet, MapThenFoldSet, Pick
  <1>9. \A s \in SUBSET S : Adds(iter, f, s)
    BY <1>7 DEF Adds
  <1>10. QED
    BY <1>8, <1>9

\* The recursion has one solution, and f matters only on the set.
LEMMA SumUnique ==
  ASSUME NEW S, IsFiniteSet(S), NEW f, NEW e, \A x \in S : f[x] = e[x],
         NEW g, NEW h, \A s \in SUBSET S : Adds(g, f, s) /\ Adds(h, e, s)
  PROVE  g[S] = h[S]
  <1> DEFINE P == {s \in SUBSET S : g[s] = h[s]}
  <1>1. {} \in P
    BY DEF Adds
  <1>2. ASSUME NEW s \in SUBSET S, s # {}, \A x \in s : s \ {x} \in P PROVE s \in P
    <2>1. Pick(s) \in s
      BY <1>2 DEF Pick
    <2>2. QED
      BY <1>2, <2>1 DEF Adds
  <1>3. SUBSET S \subseteq P
    <2> HIDE DEF P
    <2> QED
      BY <1>1, <1>2, FiniteInductive
  <1>4. QED
    BY <1>3

\* Equal functions have equal sums.
LEMMA SumExtensional ==
  ASSUME NEW S, IsFiniteSet(S), NEW f, NEW e, \A x \in S : f[x] \in Int /\ f[x] = e[x]
  PROVE  SumFunctionOnSet(f, S) = SumFunctionOnSet(e, S)
  <1>1. PICK g : SumFunctionOnSet(f, S) = g[S] /\ \A s \in SUBSET S : Adds(g, f, s)
    BY SumUnfolds
  <1>2. PICK h : SumFunctionOnSet(e, S) = h[S] /\ \A s \in SUBSET S : Adds(h, e, s)
    BY SumUnfolds
  <1>3. QED
    BY <1>1, <1>2, SumUnique

\* The sum in the order of Pick.
LEMMA SumPick ==
  ASSUME NEW S, IsFiniteSet(S), NEW f, \A x \in S : f[x] \in Int
  PROVE  /\ S = {} => SumFunctionOnSet(f, S) = 0
         /\ S # {} => /\ Pick(S) \in S
                      /\ SumFunctionOnSet(f, S) = f[Pick(S)] + SumFunctionOnSet(f, S \ {Pick(S)})
  <1>1. PICK g : SumFunctionOnSet(f, S) = g[S] /\ \A s \in SUBSET S : Adds(g, f, s)
    BY SumUnfolds
  <1>2. CASE S = {}
    BY <1>1, <1>2 DEF Adds
  <1>3. CASE S # {}
    <2>1. PICK T : T = S \ {Pick(S)}
      OBVIOUS
    <2>2. Pick(S) \in S /\ T \subseteq S /\ IsFiniteSet(T)
      BY <1>3, <2>1, FS_Subset DEF Pick
    <2>3. PICK h : SumFunctionOnSet(f, T) = h[T] /\ \A s \in SUBSET T : Adds(h, f, s)
      BY <2>2, SumUnfolds
    <2>4. g[T] = h[T]
      BY <1>1, <2>2, <2>3, SumUnique
    <2>5. QED
      BY <1>1, <1>3, <2>1, <2>2, <2>3, <2>4 DEF Adds
  <1>4. QED
    BY <1>2, <1>3

\* A sum of integers is one.
LEMMA SumType ==
  ASSUME NEW S, IsFiniteSet(S), NEW f, \A x \in S : f[x] \in Int
  PROVE  SumFunctionOnSet(f, S) \in Int
  <1> DEFINE P == {s \in SUBSET S : SumFunctionOnSet(f, s) \in Int}
  <1>1. \A s \in SUBSET S : IsFiniteSet(s)
    BY FS_Subset
  <1>2. {} \in P
    BY <1>1, SumPick
  <1>3. ASSUME NEW s \in SUBSET S, s # {}, \A x \in s : s \ {x} \in P PROVE s \in P
    <2>1. IsFiniteSet(s) /\ \A x \in s : f[x] \in Int
      BY <1>1
    <2>2. PICK x \in s : SumFunctionOnSet(f, s) = f[x] + SumFunctionOnSet(f, s \ {x})
      BY <1>3, <2>1, SumPick
    <2>3. f[x] \in Int
      BY <2>1
    <2>4. QED
      BY <1>3, <2>2, <2>3
  <1>4. SUBSET S \subseteq P
    <2> HIDE DEF P
    <2> QED
      BY <1>2, <1>3, FiniteInductive
  <1>5. QED
    BY <1>4

\* Any element can be taken out.
LEMMA SumRemove ==
  ASSUME NEW S, IsFiniteSet(S), NEW f, \A x \in S : f[x] \in Int, NEW y \in S
  PROVE  SumFunctionOnSet(f, S) = f[y] + SumFunctionOnSet(f, S \ {y})
  <1> DEFINE Same(s, z) == SumFunctionOnSet(f, s) = f[z] + SumFunctionOnSet(f, s \ {z})
             P == {s \in SUBSET S : \A z \in s : Same(s, z)}
  <1>1. \A s \in SUBSET S : IsFiniteSet(s) /\ SumFunctionOnSet(f, s) \in Int
    BY FS_Subset, SumType
  <1>2. {} \in P
    OBVIOUS
  <1>3. ASSUME NEW s \in SUBSET S, s # {}, \A x \in s : s \ {x} \in P PROVE s \in P
    <2>1. ASSUME NEW z \in s PROVE Same(s, z)
      <3>1. IsFiniteSet(s) /\ \A x \in s : f[x] \in Int
        BY <1>1
      <3>2. PICK x \in s : SumFunctionOnSet(f, s) = f[x] + SumFunctionOnSet(f, s \ {x})
        <4>1. s # {}
          BY <1>3
        <4>2. QED
          BY <3>1, <4>1, SumPick
      <3>3. CASE x = z
        BY <3>2, <3>3
      <3>4. CASE x # z
        <4>1. PICK u, v, w : u = s \ {x} /\ v = s \ {z} /\ w = u \ {z}
          OBVIOUS
        <4>2. u \in P /\ v \in P /\ w \in SUBSET S /\ w = v \ {x} /\ z \in u /\ x \in v
          BY <1>3, <3>4, <4>1
        <4>3. SumFunctionOnSet(f, u) = f[z] + SumFunctionOnSet(f, u \ {z})
          BY <4>2
        <4>4. SumFunctionOnSet(f, v) = f[x] + SumFunctionOnSet(f, v \ {x})
          BY <4>2
        <4>5. PICK a, b : a = f[x] /\ b = f[z] /\ a \in Int /\ b \in Int
          BY <3>1
        <4>6. PICK d : d = SumFunctionOnSet(f, w) /\ d \in Int
          BY <1>1, <4>2
        <4>7. SumFunctionOnSet(f, s) = a + (b + d) /\ SumFunctionOnSet(f, v) = a + d
          BY <3>2, <4>1, <4>2, <4>3, <4>4, <4>5, <4>6
        <4>8. QED
          BY <4>1, <4>5, <4>6, <4>7
      <3>5. QED
        BY <3>3, <3>4
    <2>2. QED
      BY <2>1, Zenon
  <1>4. SUBSET S \subseteq P
    <2> HIDE DEF P
    <2> QED
      BY <1>2, <1>3, FiniteInductive
  <1>5. QED
    BY <1>4

\* A sum that changes in one place.
LEMMA SumUpdate ==
  ASSUME NEW S, IsFiniteSet(S), NEW f, NEW e, NEW y \in S,
         \A x \in S : f[x] \in Int /\ e[x] \in Int /\ (x # y => f[x] = e[x])
  PROVE  SumFunctionOnSet(e, S) = SumFunctionOnSet(f, S) + (e[y] - f[y])
  <1>1. PICK T : T = S \ {y}
    OBVIOUS
  <1>2. IsFiniteSet(T) /\ \A x \in T : f[x] \in Int /\ f[x] = e[x]
    BY <1>1, FS_Subset
  <1>3. SumFunctionOnSet(f, T) = SumFunctionOnSet(e, T) /\ SumFunctionOnSet(f, T) \in Int
    BY <1>2, SumExtensional, SumType
  <1>4. SumFunctionOnSet(f, S) = f[y] + SumFunctionOnSet(f, T)
    BY <1>1, SumRemove
  <1>5. SumFunctionOnSet(e, S) = e[y] + SumFunctionOnSet(e, T)
    BY <1>1, SumRemove
  <1>6. f[y] \in Int /\ e[y] \in Int
    OBVIOUS
  <1>7. QED
    BY <1>3, <1>4, <1>5, <1>6

\* A sum with one more element.
LEMMA SumAdd ==
  ASSUME NEW S, IsFiniteSet(S), NEW f, NEW y, y \notin S, \A x \in S \cup {y} : f[x] \in Int
  PROVE  SumFunctionOnSet(f, S \cup {y}) = SumFunctionOnSet(f, S) + f[y]
  <1>1. PICK T : T = S \cup {y}
    OBVIOUS
  <1>2. IsFiniteSet(T) /\ y \in T /\ T \ {y} = S /\ f[y] \in Int /\ \A x \in T : f[x] \in Int
    BY <1>1, FS_AddElement
  <1>3. SumFunctionOnSet(f, T) = f[y] + SumFunctionOnSet(f, T \ {y})
    BY <1>2, SumRemove
  <1>4. PICK a, b : a = f[y] /\ b = SumFunctionOnSet(f, S) /\ a \in Int /\ b \in Int
    BY <1>2, SumType
  <1>5. SumFunctionOnSet(f, T) = a + b
    BY <1>2, <1>3, <1>4
  <1>6. QED
    BY <1>1, <1>4, <1>5

\* The sum of sums.
LEMMA SumPlus ==
  ASSUME NEW S, IsFiniteSet(S), NEW f, NEW e, NEW h,
         \A x \in S : f[x] \in Int /\ e[x] \in Int /\ h[x] = f[x] + e[x]
  PROVE  SumFunctionOnSet(h, S) = SumFunctionOnSet(f, S) + SumFunctionOnSet(e, S)
  <1> DEFINE P == {s \in SUBSET S : SumFunctionOnSet(h, s)
                                      = SumFunctionOnSet(f, s) + SumFunctionOnSet(e, s)}
  <1>1. \A x \in S : h[x] \in Int
    OBVIOUS
  <1>2. \A s \in SUBSET S :
          /\ IsFiniteSet(s)
          /\ SumFunctionOnSet(f, s) \in Int /\ SumFunctionOnSet(e, s) \in Int
    BY FS_Subset, SumType
  <1>3. {} \in P
    <2>1. IsFiniteSet({})
      BY FS_EmptySet
    <2>2. SumFunctionOnSet(h, {}) = 0 /\ SumFunctionOnSet(f, {}) = 0 /\ SumFunctionOnSet(e, {}) = 0
      BY <2>1, SumPick
    <2>3. QED
      BY <2>2
  <1>4. ASSUME NEW s \in SUBSET S, s # {}, \A x \in s : s \ {x} \in P PROVE s \in P
    <2>1. IsFiniteSet(s) /\ \A x \in s : f[x] \in Int /\ e[x] \in Int /\ h[x] \in Int
      BY <1>1, <1>2
    <2>2. PICK x, t : x \in s /\ t = s \ {x}
      BY <1>4
    <2>3. SumFunctionOnSet(f, s) = f[x] + SumFunctionOnSet(f, t)
      BY <2>1, <2>2, SumRemove
    <2>4. SumFunctionOnSet(e, s) = e[x] + SumFunctionOnSet(e, t)
      BY <2>1, <2>2, SumRemove
    <2>5. SumFunctionOnSet(h, s) = h[x] + SumFunctionOnSet(h, t)
      BY <2>1, <2>2, SumRemove
    <2>6. SumFunctionOnSet(h, t) = SumFunctionOnSet(f, t) + SumFunctionOnSet(e, t)
      BY <1>4, <2>2
    <2>7. PICK a, b, c, d : /\ a = f[x] /\ b = e[x] /\ h[x] = a + b
                           /\ c = SumFunctionOnSet(f, t) /\ d = SumFunctionOnSet(e, t)
                           /\ a \in Int /\ b \in Int /\ c \in Int /\ d \in Int
      BY <1>2, <2>1, <2>2
    <2>8. SumFunctionOnSet(h, s) = (a + b) + (c + d)
      BY <2>5, <2>6, <2>7
    <2>9. SumFunctionOnSet(f, s) + SumFunctionOnSet(e, s) = (a + c) + (b + d)
      BY <2>3, <2>4, <2>7
    <2>10. QED
      BY <2>7, <2>8, <2>9
  <1>5. SUBSET S \subseteq P
    <2> HIDE DEF P
    <2> QED
      BY <1>3, <1>4, FiniteInductive
  <1>6. QED
    BY <1>5

\* Of the elements of U, how many have which key.
Tally(U, key, D) == [d \in D |-> Cardinality({t \in U : key[t] = d})]

\* Counting by keys counts every element once.
LEMMA TallyCounts ==
  ASSUME NEW D, IsFiniteSet(D), NEW T, IsFiniteSet(T), NEW key, \A t \in T : key[t] \in D
  PROVE  SumFunctionOnSet(Tally(T, key, D), D) = Cardinality(T)
  <1> DEFINE P == {U \in SUBSET T : SumFunctionOnSet(Tally(U, key, D), D) = Cardinality(U)}
  <1>1. \A U \in SUBSET T : IsFiniteSet(U) /\ Cardinality(U) \in Nat
    BY FS_Subset, FS_CardinalityType
  <1>2. \A U \in SUBSET T : \A d \in D : Tally(U, key, D)[d] \in Int
    <2>1. ASSUME NEW U \in SUBSET T, NEW d \in D PROVE Tally(U, key, D)[d] \in Int
      <3>1. PICK V : V = {t \in U : key[t] = d}
        OBVIOUS
      <3>2. Cardinality(V) \in Nat
        BY <1>1, <3>1
      <3>3. QED
        BY <3>1, <3>2 DEF Tally
    <2>2. QED
      BY <2>1
  <1>3. {} \in P
    <2>1. PICK z : z = Tally({}, key, D)
      OBVIOUS
    <2>2. \A d \in D : z[d] = 0
      <3>1. ASSUME NEW d \in D PROVE z[d] = 0
        <4>1. {t \in {} : key[t] = d} = {}
          OBVIOUS
        <4>2. QED
          BY <2>1, <4>1, FS_EmptySet DEF Tally
      <3>2. QED
        BY <3>1
    <2>3. SumFunctionOnSet(z, D) = SumFunctionOnSet(z, D) + SumFunctionOnSet(z, D)
      BY <2>2, SumPlus
    <2>4. SumFunctionOnSet(z, D) \in Int
      BY <2>2, SumType
    <2>5. SumFunctionOnSet(z, D) = 0
      <3>1. PICK n \in Int : n = SumFunctionOnSet(z, D)
        BY <2>4
      <3>2. n = n + n
        BY <2>3, <3>1
      <3>3. n = 0
        BY <3>2
      <3>4. QED
        BY <3>1, <3>3
    <2>6. QED
      BY <2>1, <2>5, FS_EmptySet
  <1>4. ASSUME NEW U \in SUBSET T, U # {}, \A x \in U : U \ {x} \in P PROVE U \in P
    <2>1. PICK x, V : x \in U /\ V = U \ {x}
      BY <1>4
    <2>2. /\ V \in SUBSET T /\ IsFiniteSet(U) /\ Cardinality(U) \in Nat
          /\ SumFunctionOnSet(Tally(V, key, D), D) = Cardinality(V)
      BY <1>1, <1>4, <2>1
    <2>3. Cardinality(V) = Cardinality(U) - 1
      BY <2>1, <2>2, FS_RemoveElement
    <2>4. PICK f, e, y : f = Tally(V, key, D) /\ e = Tally(U, key, D) /\ y = key[x]
      OBVIOUS
    <2>5. y \in D
      BY <2>1, <2>4
    <2>6. \A d \in D : f[d] \in Int /\ e[d] \in Int
      BY <1>2, <2>2, <2>4
    <2>7. \A d \in D : d # y => f[d] = e[d]
      <3>1. ASSUME NEW d \in D, d # y PROVE {t \in V : key[t] = d} = {t \in U : key[t] = d}
        BY <2>1, <2>4, <3>1
      <3>2. QED
        BY <2>4, <3>1 DEF Tally
    <2>8. e[y] = f[y] + 1
      <3>1. PICK A, B : A = {t \in U : key[t] = y} /\ B = {t \in V : key[t] = y}
        OBVIOUS
      <3>2. B = A \ {x} /\ x \in A /\ IsFiniteSet(A) /\ Cardinality(A) \in Nat
        BY <1>1, <2>1, <2>4, <3>1
      <3>3. Cardinality(B) = Cardinality(A) - 1
        BY <3>2, FS_RemoveElement
      <3>4. e[y] = Cardinality(A) /\ f[y] = Cardinality(B)
        BY <2>4, <2>5, <3>1, Zenon DEF Tally
      <3>5. QED
        BY <3>2, <3>3, <3>4
    <2>9. SumFunctionOnSet(e, D) = SumFunctionOnSet(f, D) + (e[y] - f[y])
      BY <2>5, <2>6, <2>7, SumUpdate
    <2>10. SumFunctionOnSet(e, D) = Cardinality(U)
      BY <2>2, <2>3, <2>4, <2>5, <2>6, <2>8, <2>9
    <2>11. QED
      BY <2>4, <2>10
  <1>5. SUBSET T \subseteq P
    <2> HIDE DEF P
    <2> QED
      BY <1>3, <1>4, FiniteInductive
  <1>6. QED
    BY <1>5
-----------------------------------------------------------------------------
(* FoldLeft over a sequence. *)

\* The last place of a sequence's first n.
LEMMA MaxOfFirst ==
  ASSUME NEW n \in Nat
  PROVE  Max(1..(n + 1)) = n + 1 /\ (1..(n + 1)) \ {n + 1} = 1..n
  <1>1. n + 1 \in 1..(n + 1) /\ \A y \in 1..(n + 1) : n + 1 >= y
    OBVIOUS
  <1>2. \A x \in 1..(n + 1) : (\A y \in 1..(n + 1) : x >= y) => x = n + 1
    BY <1>1
  <1>3. Max(1..(n + 1)) = n + 1
    BY <1>1, <1>2 DEF Max
  <1>4. QED
    BY <1>3

\* A set of places has a last one.
LEMMA MaxInSet ==
  ASSUME NEW X, NEW s \in Seq(X), NEW t \in SUBSET DOMAIN s, t # {}
  PROVE  Max(t) \in t
  <1>1. DOMAIN s = 1..Len(s) /\ Len(s) \in Nat
    OBVIOUS
  <1> DEFINE R == {Len(s) - x : x \in t}
  <1>2. R \subseteq Nat /\ R # {}
    BY <1>1
  <1>3. PICK m \in R : \A y \in R : m <= y
    <2> HIDE DEF R
    <2> QED
      BY <1>2, NatMin
  <1>4. PICK x \in t : m = Len(s) - x
    BY <1>3
  <1>5. \A y \in t : Len(s) - x <= Len(s) - y /\ y \in Int
    BY <1>1, <1>3, <1>4
  <1>6. \A y \in t : x >= y
    BY <1>1, <1>5
  <1>7. QED
    BY <1>6 DEF Max

FoldsTo(g, t, base, F, s) ==
    g[t] = IF t = {} THEN base ELSE F[<<g[t \ {Max(t)}], s[Max(t)]>>]

\* A recursion that takes the elements of a sequence one by one from its end
\* defines a function on the sets of its places.
LEMMA SeqRecursion ==
  ASSUME NEW X, NEW s \in Seq(X), NEW A, NEW base \in A,
         NEW F, \A a \in A, x \in X : F[<<a, x>>] \in A
  PROVE  \E g \in [SUBSET DOMAIN s -> A] :
            \A t \in SUBSET DOMAIN s : FoldsTo(g, t, base, F, s)
  <1> DEFINE S == DOMAIN s
             c == [t \in SUBSET S |-> Max(t)]
             G == [p \in A \X S |-> F[<<p[1], s[p[2]]>>]]
  <1>1. S = 1..Len(s) /\ Len(s) \in Nat /\ \A i \in S : s[i] \in X
    OBVIOUS
  <1>2. IsFiniteSet(S)
    BY <1>1, FS_Interval
  <1>3. ASSUME NEW t \in SUBSET S, t # {} PROVE c[t] \in t
    BY <1>3, MaxInSet
  <1>4. \A a \in A, i \in S : G[<<a, i>>] = F[<<a, s[i]>>] /\ G[<<a, i>>] \in A
    BY <1>1
  <1>5. PICK g \in [SUBSET S -> A] : \A t \in SUBSET S : Unfolds(g, t, base, G, c)
    <2>1. \A t \in SUBSET S : t # {} => c[t] \in t
      BY <1>3
    <2>2. \A a \in A, i \in S : G[<<a, i>>] \in A
      BY <1>4
    <2> HIDE DEF S, c, G
    <2>3. QED
      BY <1>2, <2>1, <2>2, SetRecursion, Zenon
  <1>6. ASSUME NEW t \in SUBSET S
        PROVE  g[t] = IF t = {} THEN base ELSE F[<<g[t \ {Max(t)}], s[Max(t)]>>]
    <2>1. CASE t = {}
      BY <1>5, <2>1 DEF Unfolds
    <2>2. CASE t # {}
      <3>1. c[t] = Max(t) /\ Max(t) \in S /\ t \ {Max(t)} \in SUBSET S
        BY <1>3, <2>2
      <3>2. g[t] = G[<<g[t \ {Max(t)}], Max(t)>>]
        BY <1>5, <2>2, <3>1 DEF Unfolds
      <3>3. g[t \ {Max(t)}] \in A
        BY <1>5, <3>1
      <3>4. QED
        BY <1>4, <2>2, <3>1, <3>2, <3>3
    <2>3. QED
      BY <2>1, <2>2
  <1>7. QED
    BY <1>5, <1>6 DEF FoldsTo
=============================================================================
