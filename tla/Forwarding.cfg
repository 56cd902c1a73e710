SPECIFICATION FairSpec
CONSTANTS
  Conns = {c1, c2}
  Main = c1
  NoConn = NoConn
  Vias = {"channel", "stream"}
  MaxIn = 2
  MaxOut = 1
  Buf = 1
  Compress = TRUE
  DialTimeout = 2
  ServerTimeout = 4
  Latency = 1
CHECK_DEADLOCK FALSE
INVARIANTS TimeoutIsNotDial NoSocketLeak
PROPERTIES ImplementsPipe EndsPropagate CancelEndsCopies OpenersEnd
