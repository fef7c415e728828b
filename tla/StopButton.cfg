SPECIFICATION FairSpec
CONSTANTS
  RETRY = 1
  TASK_CAN_NUM = 1
  Signals = {"stop"}
  Cmds = {"ON", "SEEK"}
  PortCmds = {}
  PtcAlarms = {}
PROPERTIES StopButtonStops
