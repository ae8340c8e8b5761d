\* Every string of up to six characters, every value of up to three in every field of every
\* message, every text of up to six characters in base64, and pictures from one to thirteen
\* pixels a side on a canvas of six.
SPECIFICATION PureSpec
CONSTANTS
  MaxLength = 6
  Roots <- MCRoots
  TextChars <- MCTextChars
  MaxTextLength = 3
  Digits = {0, 1, 27, 42, 63}
  Half = 8192
  MaxChars = 6
  Side = 6
  Lengths = {1, 4, 13}
  Marks = {1, 4}
  Noise <- MCNoise
  Scales <- MCScales
  HalfInt = 16
CHECK_DEADLOCK FALSE
INVARIANTS
  StaysBelow
  FileKept
  SidesMeet
  ResolvedBelowRoot
  ParentsExist
  StateFileInPlace
  DefaultAccepted
  FieldsReadBack
  UpsertIsSet
  DecodedExactly
  CanvasFilled
  ShapeServed
  OwnDefects
  InsidePicture
  PhysicalOrdered
