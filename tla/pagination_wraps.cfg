\* Every page value at 8 bits: a page past the end wraps the u32 offset.
CONSTANTS
  W = 8
  MaxLen = 5
  PageInputs <- MCPageInputs
  PerPageInputs <- MCPerPageInputs
  None = None
  Panic = Panic
SPECIFICATION Spec
INVARIANT ResponseIsNamedPage
