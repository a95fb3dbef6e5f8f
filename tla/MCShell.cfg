CONSTANTS
  Key <- MCKey
  Size = 4
  Stale <- MCStale
  Prompt <- MCPrompt
  RxDepth = 2
  MaxKeys = 5
SPECIFICATION Spec
CHECK_DEADLOCK FALSE
INVARIANT
  TypeOK
  ScreenShowsLine
PROPERTY
  ImplementsLineEditor
  
