CONSTANTS
  f1 = f1
  f2 = f2
  Paths <- MCPaths
  Unopenable <- MCUnopenable
  Texts <- MCTexts
  Levels = {0, 1, 2}
  LogLevel = 1
  MaxLogSize = 2
  NUL = NUL
  Garbage = Garbage
  NoFile = NoFile
SPECIFICATION Spec
INVARIANT LogLineFaithful
