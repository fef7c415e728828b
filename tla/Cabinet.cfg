SPECIFICATION FairSpec
CONSTANTS
  RETRY = 1
  TASK_CAN_NUM = 2
  Signals = {"run", "stop"}
  Cmds = {}
  PortCmds = {}
  PtcAlarms = {}
INVARIANTS TypeOK NoSpontaneousStart
PROPERTIES NoStaleStart StopWins HeldStopWins StateConverges StateStays
