SPECIFICATION Spec
CONSTANTS
  TimeNow = 7
  Scripts <- MCScripts
  Chunks = {13, 33, 80}
INVARIANTS TypeOK EncodingFits ReceivedAsSent GPUFormAgrees OrderingGraph AllReceived
CHECK_DEADLOCK FALSE
