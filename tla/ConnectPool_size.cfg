SPECIFICATION PoolSpec
CONSTANTS
  Thread = {t1, t2, t3, t4}
  Conn = {c1, c2, c3, c4, c5, c6}
  NoConn = NoConn
  PoolSize = 2
  MaxSize = 3
  CounterMod = 16
  MaxFailures = 2
PROPERTY
  BoundedOrGoesBack
