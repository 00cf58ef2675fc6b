\* One server, made, renamed, lost and made again under two configurations.
CONSTANTS
  Texts    <- MCTexts
  Inputs   <- MCInputs
  Names    = {"", "b"}
  Configs  <- MCConfigs
  Types    = {"VANILLA", "FORGE", "FABRIC", "NEOFORGE"}
  HalfWord = 128
  Bytes    <- MCBytes
  None     = None
SPECIFICATION Spec
INVARIANT MadeAgainTheSame
INVARIANT CapHoldsTheHeap
INVARIANT PackOrVersion
