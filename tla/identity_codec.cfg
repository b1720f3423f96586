CONSTANTS
  Chars <- MCChars
  Colon = ":"
  MaxLen = 5
SPECIFICATION Spec
INVARIANT RoundTrip
INVARIANT ErrorKinds
