\* One session, three threads, crashes at any step; opening or renaming the file may fail.
SPECIFICATION Spec
CONSTANTS
  Id = {i1}
  Caller = {c1, c2, c3}
  Piece <- MCPiece
  Data <- MCData
  Expiration = 1
  Faults = {"open", "rename"}
  NoId = NoId
  NoCaller = NoCaller
  Nothing = Nothing
SYMMETRY Symmetry
INVARIANTS WholeFiles
PROPERTIES ImplementsArchive
