SPECIFICATION Spec
CONSTANTS
  c1 = c1
  c2 = c2
  Frac = 1
  Conns = {c1, c2}
  Scenes <- MCScenes
  KeepAlive = 1
  NetTimeout = 1
  TimerPeriod = 1
  MaxConn = 2
  Works <- MCWorks
INVARIANTS
  WatchedRightly
  EventsHaveConnections
  AnswersInOrder
  EventsOnTime
PROPERTIES
  ConnectionsEnd
