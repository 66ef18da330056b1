SPECIFICATION Spec
CONSTANTS
  r1 = r1
  r2 = r2
  NoConfig = NoConfig
  Missing = Missing
  Empty = Empty
  Torn = Torn
  Reqs = {r1, r2}
  Values = {"old", "new"}
  Default <- MCDefault
  MayFail = TRUE
  MayBeDown = TRUE
  MayEdit = TRUE
  MaxMtime = 4
SYMMETRY AnyOrder
INVARIANTS CopiesAgree NothingRefusedIsServed
PROPERTY EditsOnePart
