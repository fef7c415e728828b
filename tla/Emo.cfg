SPECIFICATION FairSpec
CONSTANTS
  RETRY = 1
  TASK_CAN_NUM = 1
  Signals = {"emo", "run", "stop"}
  Cmds = {}
  PortCmds = {}
  PtcAlarms = {}
PROPERTIES EmoReachesPtc EmoStays
