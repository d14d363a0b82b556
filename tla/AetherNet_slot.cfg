SPECIFICATION Spec
CONSTANTS
  f1 = f1
  f2 = f2
  f3 = f3
  w1 = w1
  w2 = w2
  u1 = u1
  host = host
  air = air
  e1 = e1
  p1 = p1
  MaxConns = 1
  Depth = 2
  Eui = {e1}
  Route = {p1}
  NoAddr = NoAddr
  Fid = {f1, f2, f3}
  Session = {host, air}
  SessionOf <- TwoSessions
  Reader = {w1, w2}
  InProc = {u1}
  Sizes = {0, 1}
  MaxRx = 2
SYMMETRY Symmetry
INVARIANTS
  TypeOK
  DeliveryIsolation
  HangupWakesReaders
  ReuseStrandsNoLiveRead
