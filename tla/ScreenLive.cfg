SPECIFICATION TaskSpec
CONSTANTS
  RETRY = 2
  TASK_CAN_NUM = 1
  Signals = {}
  Cmds = {"OFF", "CONFIG", "SEEK"}
  PortCmds = {}
  PtcAlarms = {}
PROPERTIES CanTaskReturns ScreenTaskReturns CallsEnd
