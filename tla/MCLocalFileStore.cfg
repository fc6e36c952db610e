SPECIFICATION Spec
CONSTANTS
  Requests = {r1, r2}
  Users = {u1, u2}
  Ids = {i1}
  Image = Image
  Other = Other
  Kinds = {Image, Other}
  Limit <- MCLimit
  Sniff = 2
  MaxSize = 3
  MaxStarts = 2
  None = None
SYMMETRY Symmetry
INVARIANTS
  TypeOK
  VisibleWhole
  LeftoversHaveACause
  AnswersHold
  TooLargeIsSaid
