SPECIFICATION FairSpec
CONSTANTS
  RETRY = 1
  TASK_CAN_NUM = 1
  Signals = {"th60", "mc1"}
  Cmds = {}
  PortCmds = {}
  PtcAlarms = {"pfc", "inv"}
PROPERTIES StateConverges StateStays
