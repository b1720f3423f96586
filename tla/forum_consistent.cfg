\* Threads, replies, imports and a paging client: the profiles stay consistent with the posts.
CONSTANTS
  Author <- MCAuthor
  Passports <- MCPassports
  ParentInputs <- MCParentInputs
  a = a  b = b  None = None  Panic = Panic
  W = 8
  PagerPerPage = 1
  MaxPage = 2
  MaxPosts = 3
SYMMETRY Symmetry
CHECK_DEADLOCK FALSE
SPECIFICATION Spec
INVARIANT PostCountMatches
