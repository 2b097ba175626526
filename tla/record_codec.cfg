SPECIFICATION LSpec
CONSTANTS
  Base = 2
  Levels = {"Error", "Warn", "Info", "Debug", "Trace"}
  Numbers = {0, 11}
  TargetLengths = {0, 1, 3, 4, 6}
  MessageLengths = {0, 1, 3}
  PodSizes = {0, 1, 2}
  TextLengths = {0, 1, 2, 16}
  PayloadLengths = {0, 1, 15, 16, 18}
  MaxArgs = 2
  Alphabet = {"{", "}", ":", "?", "x", "<", " "}
  MaxFormat = 5
  TraitSets = {{"Display"}, {"Debug"}, {"Display", "Debug"}, {"Display", "Debug", "LowerHex", "Pointer"}}
INVARIANTS TypeOK RegionIsFilled PrintsWhatWasLogged ReaderSurvives CutPayloadIsPrefix
INVARIANTS RefusedOnlyIfUnsupported PrintsLikeFormat LineAsDocumented
CHECK_DEADLOCK FALSE
