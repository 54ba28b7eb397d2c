SPECIFICATION Spec
CONSTANTS
  Proc = {p1, p2}
  Id = {w1, w2}
  NoProc = NoProc
  NoId = NoId
  NoRec = NoRec
  Torn = Torn
SYMMETRY Symmetry
INVARIANT
  EntrantSettles
