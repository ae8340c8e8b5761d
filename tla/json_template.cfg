\* A value of a template that is the key of the task id, or ends in it in quotes, is taken for
\* the key by FindKey: the value after it is overwritten and the task id stays.
SPECIFICATION PureSpec
CONSTANTS
  MaxLength = 1
  Roots <- MCRoots
  TextChars <- MCTemplateChars
  MaxTextLength = 3
  Digits = {0}
  Half = 8192
  MaxChars = 1
  Side = 6
  Lengths = {1}
  Marks = {1}
  Noise <- MCNoise
  Scales <- MCScales
  HalfInt = 16
CHECK_DEADLOCK FALSE
INVARIANT
  TaskIdOverwritten
