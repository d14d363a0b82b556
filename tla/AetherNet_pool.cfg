SPECIFICATION Spec
CONSTANTS
  f1 = f1
  f2 = f2
  f3 = f3
  w1 = w1
  w2 = w2
  u1 = u1
  host = host
  air = air
  e1 = e1
  p1 = p1
  MaxConns = 2
  Depth = 1
  Eui = {e1}
  Route = {p1}
  NoAddr = NoAddr
  Fid = {f1, f2}
  Session = {host}
  SessionOf <- OneSession
  Reader = {w1}
  InProc = {u1}
  Sizes = {1}
  MaxRx = 1
SYMMETRY Symmetry
PROPERTIES
  FanOutUniform
