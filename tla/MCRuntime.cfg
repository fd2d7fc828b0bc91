\* Two outside threads for the dispatcher, two events, two queries, a packet
\* and a message of a connection; two clients, one item, two creatures, one walker.
SPECIFICATION SuiteSpec
CONSTANTS
  io = io
  scheduler = scheduler
  t1 = t1
  t2 = t2
  game = game
  main = main
  Self = self
  Callers <- MCCallers
  Tasks <- MCTasks
  Expiring <- MCExpiring
  GameShutdown = game
  StartupFailure = main
  e1 = e1
  e2 = e2
  e3 = e3
  e4 = e4
  e5 = e5
  e6 = e6
  q1 = q1
  q2 = q2
  c1 = c1
  c2 = c2
  i1 = i1
  p1 = p1
  m1 = m1
  None = None
\* A server that was shut down, a destroyed connection, a session whose clients are gone
\* and a walk whose commands are all given may stop.
CHECK_DEADLOCK FALSE
INVARIANTS FifoDelivery NoLostWakeup CleanShutdown
PROPERTIES EverythingEnds ImplementsSerialExecutor RequestsAreServed LoginIsAnswered GameGoesOn
