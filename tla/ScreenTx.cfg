SPECIFICATION Spec
CONSTANTS
  CanCalls = {"report", "config", "on"}
  ScreenCalls = {"ack_on", "off", "test"}
  LongDelay = 50
  Slack = 5
  MaxLate = 6
INVARIANTS TypeOK IdleListens
PROPERTIES AckOnWhole ListensAgain SectionEnds
