SPECIFICATION Spec
CONSTANTS
  app = app
  node = node
  next = next
  alt = alt
  NoChunk = NoChunk
  NoFace = NoFace
  NoLife = NoLife
  Faces <- FourFaces
  CleaningTime = 1
  RegularMax = 2
  SymbolicMax = 3
  DefaultLife = 2
  AppRegLife = 3
  FaceType <- FourTypes
  FibFaces <- TwoRoutes
  Restrictions = {"none"}
  KeyIds = {}
  Chunks = {0, 1}
  PitMax = 2
  AppPitMax = 1
  SymbolicBack = 0
  Resend = "NOSUP"
  IrOn = TRUE
  Consumers = {app, node}
  Producers = {next}
  Flaky = {alt}
  Interests <- SymbolicLives
  Objects <- Stream
  Returns <- ReturnAny
  Registrations <- None
  LastArrival = 2
  MaxTime = 4
INVARIANTS DownFacesCovered
PROPERTIES SweepSparesPending ExtensionAdvertised SubscribersServed
