CONSTANT
  MaxLines = 4
SPECIFICATION Spec
INVARIANTS
  EachLineOnce
  DocstringAtItsDefinition
  DocstringsAreFound
CHECK_DEADLOCK FALSE
