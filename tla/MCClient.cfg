SPECIFICATION FairSpec
CONSTANTS
  Conn = {c1, c2}
  NoConn = NoConn
  Owner = Owner
  Fd = {0, 1, 2, 3}
  RegistrationMayFail = TRUE
  ToggleWhileClosing = TRUE
  StartWhileConnecting = FALSE
  MaxDepth = 6
INVARIANTS
  NothingDangles
  OneConnectionAndItsState
  DescriptorsAccountedFor
  ClientInv
PROPERTIES
  ConnectAnswered
