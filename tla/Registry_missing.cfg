\* As Registry.cfg; what errors.go:60-63 says of a missing language.
SPECIFICATION Spec
CONSTANTS
  zh = zh
  en = en
  tw = tw
  m1 = m1
  m2 = m2
  c1 = c1
  c2 = c2
  internal = internal
  greeting = greeting
  h1 = h1
  None = None
  Langs <- ThreeLangs
  Builtin <- BuiltinLangs
  Modules <- TwoModules
  CodesOf <- ModuleCodes
  Codes <- AllCodes
  Public <- PublicCodes
  OtherIds <- Others
  FileSets <- Directories
  Handlers <- OneHandler
CHECK_DEADLOCK FALSE
INVARIANTS
  CompleteErrors
