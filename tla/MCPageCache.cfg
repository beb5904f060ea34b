SPECIFICATION Spec
CONSTANTS
  Pages <- MCPages
  NumCache = 2
  Annots <- MCAnnots
  a = a
  b = b
  PageOf <- MCPageOf
  Pictures <- MCPictures
  None = None
SYMMETRY Symmetry
INVARIANTS
  TypeOK
  ListsAreCurrent
  ChangesTracked
