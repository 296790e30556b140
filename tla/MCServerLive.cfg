SPECIFICATION FairSpec
CONSTANTS
  Conn = {c1, c2}
  NoConn = NoConn
  Owner = Owner
  Fd = {1, 2, 3}
  RegistrationMayFail = FALSE
  ToggleWhileClosing = TRUE
  StopInHandlers = FALSE
PROPERTIES
  ImplementsSessions
  StopCompletes
