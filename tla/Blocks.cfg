CONSTANTS
  Node = {1, 2, 3, 4, 5, 6, 7, 8}
  None = None
  Constructs = {"quote", "list", "table"}
  Leaves = {"Paragraph"}
  MaxNesting = 3
  MaxColumns = 1
  MaxRows = 1
SPECIFICATION BlockSpec
CONSTRAINT SixWithoutTable
INVARIANTS ClimbEnds OpenPath ListsAgree
PROPERTY NewNodesLandHome
CHECK_DEADLOCK FALSE
