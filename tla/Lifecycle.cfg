SPECIFICATION Spec
CONSTANTS
  MaxKeyLen = 2
  DEFAULT_PORT = 2
  MaxPort = 3
  Extra = 2
  Args = {3, 4}
  MaxInfos = 3
  MaxSeats = 2
INVARIANTS
  EchoRestored
  PasswordWhole
  NoDoubleClose
  LoopReady
  SocketsClosed
  GoodbyeSaid
  ProxiesDestroyed
