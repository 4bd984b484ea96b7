SPECIFICATION FairSpec
CONSTANTS
  app = app
  node = node
  next = next
  alt = alt
  NoChunk = NoChunk
  NoFace = NoFace
  NoLife = NoLife
  Faces <- MCFaces
  CleaningTime = 1
  RegularMax = 2
  SymbolicMax = 3
  DefaultLife = 2
  AppRegLife = 1
  FaceType <- MCFaceType
  FibFaces <- OneRoute
  Restrictions = {"none"}
  KeyIds = {}
  Chunks = {1}
  PitMax = 2
  AppPitMax = 2
  SymbolicBack = 1
  Resend = "RFC8569"
  IrOn = TRUE
  Consumers = {app, node}
  Producers = {app, next}
  Flaky = {}
  Interests <- EveryKind
  Objects <- Whole
  Returns <- None
  Registrations <- Reg
  LastArrival = 1
  MaxTime = 4
INVARIANTS TypeOK
PROPERTIES KeepsPromise Drains
