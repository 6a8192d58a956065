SPECIFICATION LibrarySpec
CONSTANTS
  None = None
  Old = Old
  Writers = {w1, w2, w3}
  Adding = {w3}
  Size = 2
  Archives <- SmallArchives
  HeaderLen = 2
  LengthsLen = 2
  ChecksumLen = 1
  Fate <- ArgFate
  Variables <- LineVariables
  Blank <- Blanks
  Escape <- Escaped
  Ipv4 <- DotDec
  Ipv6 <- Literals6
  Ipvf <- LiteralsF
INVARIANTS
  PoliciesExact
  OptionFilesExact
  SchemasExact
  UrisExact
  HelpersExact
  CopiedInStep
  FileIsWhole
\* An input is looked at and that is all; the machines end.
CHECK_DEADLOCK FALSE
