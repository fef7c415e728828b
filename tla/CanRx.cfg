SPECIFICATION Spec
CONSTANTS
  s1 = s1
  s2 = s2
  v1 = v1
  c1 = c1
  l1 = l1
  Reply = {s1, s2, v1, c1, l1}
  Func <- MCFunc
  Frames <- MCFrames
  BurstLoss = FALSE
INVARIANTS
  TypeOK
  RxInBounds
PROPERTIES
  OneReply
  CleanReplyApplied
