SPECIFICATION LaunchSpec
CONSTANTS
  NoConn = NoConn
  Conn = {c1, c2}
CHECK_DEADLOCK FALSE
PROPERTIES
  FailedLaunchEndsChild
  UpMeansAnswered
  LaunchReturns
  StdinStopsExtension
