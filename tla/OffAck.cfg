SPECIFICATION Spec
CONSTANTS
  RETRY = 1
  TASK_CAN_NUM = 1
  Signals = {"run", "stop"}
  Cmds = {}
  PortCmds = {}
  PtcAlarms = {}
PROPERTIES OffAckMeansStopped
