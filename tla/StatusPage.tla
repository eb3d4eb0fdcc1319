----------------------------- MODULE StatusPage -----------------------------
(***************************************************************************)
(* frontend: how a page follows a background job that goes on without it.  *)
(* It polls the job's status() while its timer is set, and any request or  *)
(* answer may be lost.  Three kinds of page:                               *)
(*   attach    ping, mtr, port and IP scan (app.js, port-scanner.js,       *)
(*             ip-scanner.js): an answer sets or clears the timer;         *)
(*   clear     the Modbus scans and polling (modbus.js): an answer only    *)
(*             clears it, start() and the load of the page set it;         *)
(*   capture   (app.js): an answer that is lost counts as not running, and *)
(*             the page asks every five seconds besides.                   *)
(*                                                                         *)
(* Nothing keeps requests in order: the browser has several connections,   *)
(* the backend serves each request in a thread of its own, and an answer   *)
(* may be overtaken by a later one.  The job is abstract: a start() makes  *)
(* it run, and it ends by stop() or by itself (see Job).                   *)
(***************************************************************************)
EXTENDS Naturals
LOCAL INSTANCE Bags
LOCAL INSTANCE BagsExt

CONSTANT MaxNet   \* bound: requests on their way
ASSUME PageAssumption == MaxNet \in Nat \ {0}

VARIABLES
    kind,     \* of page
    active,   \* the job runs: what status() answers
    view,     \* the page shows it as running: Start disabled, Stop enabled
    timer,    \* the poll timer is set
    net       \* the bag of requests on their way, served or not

pageVars == <<kind, active, view, timer, net>>

Fetch(op, by) == [op |-> op, by |-> by, answer |-> "none"]

PageInit ==
    /\ kind \in {"attach", "clear", "capture"}
    /\ active \in BOOLEAN
    /\ view = FALSE /\ timer = FALSE
    /\ net = SetToBag({Fetch("status", "load")})

OnTheWay == BagToSet(net)
Answered(e) == e.answer # "none"
Room == BagCardinality(net) < MaxNet
Without(e) == BagRemove(net, e)
Replaced(e, f) == BagAdd(Without(e), f)

Ask(op, by) ==
    /\ Room
    /\ net' = BagAdd(net, Fetch(op, by))
    /\ UNCHANGED <<kind, active, view, timer>>

Tick == timer /\ Ask("status", "tick")
Refresh == kind = "capture" /\ Ask("status", "refresh")
ClickStart == ~view /\ Ask("start", "click")
ClickStop == view /\ Ask("stop", "click")

\* A start or stop nobody waits for any more.
Gone(e) == [e EXCEPT !.by = "gone"]

\* The page that was left gets no answers; what it asked to do may yet be done.
Reload ==
    LET left == {e \in OnTheWay : e.op # "status" /\ ~Answered(e)}
    IN  /\ view' = FALSE /\ timer' = FALSE
        /\ net' = BagAdd(BagOfAll(Gone, [e \in left |-> net[e]]), Fetch("status", "load"))
        /\ BagCardinality(net') <= MaxNet
        /\ UNCHANGED <<kind, active>>

-----------------------------------------------------------------------------
(* The backend.  A tool whose child is only signalled is not over yet.     *)

Served(e, answer) ==
    net' = IF e.by = "gone" THEN Without(e) ELSE Replaced(e, [e EXCEPT !.answer = answer])
Serve(e) ==
    /\ ~Answered(e)
    /\ \/ e.op = "status" /\ Served(e, IF active THEN "running" ELSE "idle") /\ UNCHANGED active
       \/ e.op = "start" /\ Served(e, "ok") /\ active' = TRUE
       \/ e.op = "start" /\ Served(e, "refused") /\ UNCHANGED active
       \/ e.op = "stop" /\ Served(e, "ok") /\ active' \in {active, FALSE}
    /\ UNCHANGED <<kind, view, timer>>

JobEnds ==
    /\ active
    /\ active' = FALSE
    /\ UNCHANGED <<kind, view, timer, net>>

-----------------------------------------------------------------------------
(* The handlers of the page. *)

\* The timer after an answer to a poll.
TimerAfter(by, running) ==
    CASE kind = "attach"                      -> running
      [] kind = "clear" /\ by = "load"        -> running
      [] kind = "clear" /\ by # "load"        -> timer /\ running
      [] kind = "capture" /\ by = "refresh"   -> timer
      [] kind = "capture" /\ by = "tick"      -> timer /\ running
      [] kind = "capture" /\ by \in {"load", "poll"} -> timer \/ running

FollowUp(op) == Fetch("status", IF kind = "capture" /\ op = "stop" THEN "refresh" ELSE "poll")

\* An answer to a poll, and one to a start or a stop.
DeliverStatus(e) ==
    /\ e.op = "status" /\ Answered(e)
    /\ view' = (e.answer = "running")
    /\ timer' = TimerAfter(e.by, view')
    /\ net' = Without(e)
    /\ UNCHANGED <<kind, active>>

DeliverClick(e) ==
    /\ e.op # "status" /\ Answered(e)
    /\ \/ e.answer = "refused" /\ net' = Without(e) /\ UNCHANGED timer
       \/ /\ e.answer = "ok"
          /\ timer' = (timer \/ (kind = "clear" /\ e.op = "start"))
          /\ net' = Replaced(e, FollowUp(e.op))
    /\ UNCHANGED <<kind, active, view>>

TimerAfterLoss_Cleared(by) == timer /\ by # "tick"
\* The load of a Modbus page looks at its button afterwards.
TimerAfterLoss(by) ==
    CASE kind = "capture" /\ by = "tick" -> FALSE
      [] kind = "clear" /\ by = "load"   -> timer \/ view
      [] OTHER                           -> timer

\* The request or its answer is lost, and fetch() throws (for a poll it is all the
\* same which).  Only a stop of the pages that catch it is followed by a poll.
Lose(e) ==
    LET again == e.op = "stop" /\ kind # "clear"
    IN  /\ e.by # "gone" /\ (e.op = "status" => Answered(e))
        /\ timer' = TimerAfterLoss(e.by)
        /\ net' = IF again THEN Replaced(e, FollowUp("stop")) ELSE Without(e)
        /\ UNCHANGED <<kind, active, view>>

\* The page does not wait any longer, but the request is still to be served.
StopWaiting(e) ==
    /\ e.by # "gone" /\ e.op # "status" /\ ~Answered(e)
    /\ \/ /\ e.op = "stop" /\ kind # "clear" /\ Room
          /\ net' = BagAdd(Replaced(e, Gone(e)), FollowUp("stop"))
       \/ /\ e.op = "start" \/ kind = "clear"
          /\ net' = Replaced(e, Gone(e))
    /\ UNCHANGED <<kind, active, view, timer>>

Arrive(e) == DeliverStatus(e) \/ DeliverClick(e) \/ Lose(e) \/ StopWaiting(e)

ServePolls == \E e \in OnTheWay : e.op = "status" /\ Serve(e)
ServeClicks == \E e \in OnTheWay : e.op # "status" /\ Serve(e)
Arrivals == \E e \in OnTheWay : Arrive(e)
PollsArrive == \E e \in OnTheWay : DeliverStatus(e)

PageNext ==
    \/ Tick \/ Refresh \/ ClickStart \/ ClickStop \/ Reload \/ JobEnds
    \/ ServePolls \/ ServeClicks \/ Arrivals

\* Timers fire even if the page is busy, requests come to an end, and not every
\* answer to a poll is lost.
PageFairness ==
    /\ SF_pageVars(Tick) /\ SF_pageVars(Refresh)
    /\ WF_pageVars(ServePolls) /\ WF_pageVars(ServeClicks) /\ WF_pageVars(Arrivals)
    /\ SF_pageVars(PollsArrive)

PageSpec == PageInit /\ [][PageNext]_pageVars /\ PageFairness

-----------------------------------------------------------------------------
(* "next poll reflects actual state" (app.js:887, 1021): a page that shows  *)
(* a job as running learns of its end, whichever of its polls, stops and    *)
(* answers are lost or overtake each other, and although the clicks go on.  *)
(* A Modbus page does so only while its timer is set: after a start whose   *)
(* answer was lost, and after an answer "running" that comes behind the one *)
(* that cleared the timer, it shows the job without asking again.  The      *)
(* capture page learns of a capture that runs, too, whoever started it.     *)
Mistaken == /\ view # active
            /\ kind = "attach" => view
            /\ kind = "clear" => view /\ timer
PageFollows == Mistaken ~> view = active
=============================================================================
