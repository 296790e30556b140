SPECIFICATION AllSpec
CONSTANTS
  x1 = x1
  x2 = x2
  y1 = y1
  y2 = y2
  z1 = z1
  z2 = z2
  Null = Null
  Status = {"s1", "s2", "s3"}
  Block = {"b1", "b2", "b3", "b4"}
  Error = {"e1", "e2"}
  Ok = "ok"
  NoState = "free"
  Gone = "gone"
  Thread <- Xs
  Var <- Ys
  Object <- Zs
  Nil = Nil
  MaxUses = 1
  CallbackVar <- Xs
  Runner <- Ys
  BindState <- Zs
  NoBind = NoBind
  MaxDepth = 3
  Opener <- Xs
  Scoper <- Ys
  Fd = {0, 1, 2}
  MaxFiles = 5
  Pickles <- Xs
  Buffers = {}
  PodSizes = {8}
  Lengths = {5}
  HeaderSizes = {4, 6}
  Unit = 8
  HeapAlign = 16
  WrongSizes = {}
  Cuts = {}
  MaxItems = 2
SYMMETRY Symmetry
INVARIANTS
  RefsAreSafe
  ClosuresAreSafe
  ScopersAreSafe
  PicklesAreSafe
PROPERTIES
  ImplementsValue
  OwnersAreUnique
CHECK_DEADLOCK FALSE
