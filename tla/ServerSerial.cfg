SPECIFICATION Spec
CONSTANTS
  c1 = c1
  c2 = c2
  Conns = {c1, c2}
  Threads = {t1}
  Setups <- SerialSetups
  Results <- MCResults
  MaxWrites = 1
INVARIANTS TypeOK ListenersLive DeliveredAsSubscribed WatchdogArmed
PROPERTIES FailedConnectionsEnd RequestsHandled
CHECK_DEADLOCK FALSE
