SPECIFICATION GraphicsSpec
CONSTANTS
\* GlWatch
  Fbos = {1}  Units = {0, 1}  Capabilities <- CapabilitiesValue  Options <- OptionsValue
  Unwatched <- UnwatchedValue
  MaxFrame = 3  MaxDraws = 2  TraceFrame = 1  TexturedDraws = 1  ClearLooks = 1
  EarlyFrames = 2  StatsEvery = 2  ClearFrame = 0  QuadFrame = 1  ScanFrame = 2  ShotFrame = 1
\* EntryPoints
  Askers = {t1, t2}  Names = {a, b, c}  Imported = {a}  Unresolved = {c}
  GlMax = 2  DlMax = 1  MaxAsked = 3  NOBODY = NOBODY
\* CgShaders
  Discs <- DiscsValue  Code <- CodeValue  Headers <- HeadersValue  Variants <- VariantsValue
  MaxShaders = 2  ArgLimit = 1
  COMMENT = COMMENT  REWRITTEN = REWRITTEN  NOTHING = NOTHING
INVARIANTS
  GraphicsSound
  GameStateKept
  AddressesKeep
  RightProgram
\* A game may stop calling.
CHECK_DEADLOCK FALSE
