SPECIFICATION FairSpec
CONSTANTS
  Caller = {t1, t2, t3}
  Consumer = {lldp, traffic}
  None = None
  MaxPackets = 3
INVARIANTS SingleCapture EveryPacketOnce
PROPERTIES ListeningIsRegistered LossHandled
CHECK_DEADLOCK FALSE
