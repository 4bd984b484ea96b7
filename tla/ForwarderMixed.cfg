SPECIFICATION Spec
CONSTANTS
  app = app
  node = node
  next = next
  alt = alt
  NoChunk = NoChunk
  NoFace = NoFace
  NoLife = NoLife
  Faces <- MCFaces
  CleaningTime = 1
  RegularMax = 2
  SymbolicMax = 3
  DefaultLife = 2
  AppRegLife = 1
  FaceType <- MCFaceType
  FibFaces <- OneRoute
  Restrictions = {"none", "key"}
  KeyIds = {"key"}
  Chunks = {1}
  PitMax = 2
  AppPitMax = 1
  SymbolicBack = 1
  Resend = "RFC8569"
  IrOn = TRUE
  Consumers = {app, node}
  Producers = {next}
  Flaky = {node}
  Interests <- SymbolicAndKeyed
  Objects <- WholeSigned
  Returns <- ReturnAny
  Registrations <- Reg
  LastArrival = 1
  MaxTime = 3
INVARIANTS TablesBounded
PROPERTIES KeepsPromise
