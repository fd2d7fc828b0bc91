\* Three queries, one of them with a callback: the database thread does not always end.
SPECIFICATION FairSpec
CONSTANTS
  Queries = {q1, q2, q3}
  WithCallback = {q1}
  Dispatcher = dispatcher
  Main = main
  DbThread = db
  NoQuery = none
PROPERTY ShutdownEnds
CHECK_DEADLOCK FALSE
