SPECIFICATION Spec
CONSTANTS
  CanCmds <- MCCanCmds
  ScreenCmds <- MCScreenCmds
  MaxLoss = 1
INVARIANTS TypeOK
PROPERTIES RefinesLink StartIsMeant AloneArrives
