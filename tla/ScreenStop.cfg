SPECIFICATION FairSpec
CONSTANTS
  RETRY = 1
  TASK_CAN_NUM = 1
  Signals = {}
  Cmds = {"ON", "OFF", "OTHER"}
  PortCmds = {"OFF"}
  PtcAlarms = {}
INVARIANTS NoSpontaneousStart NoUnwrittenMessage
PROPERTIES StopWins StopHolds
