CONSTANTS
  Schema <- Classes
  Subclass <- SubclassOf
  Roots <- MCRoots
  Prose <- MCProse
  MaxNodes = 4
SPECIFICATION Spec
INVARIANTS
  ListsAreTheChildren
  DescriptionIsTheText
  RereadGivesTheSame
CHECK_DEADLOCK FALSE
