CONSTANTS
    Stations = {1, 2, 3, 4, 5}
    Indices = {0, 1}
    Radios = {1, 2}
    AVLfind <- Find
    AVLfindWTPNode <- FindWTPNode
    AVLinsert <- Insert
    AVLminValueNode <- MinValueNode
    Remove <- RemoveNode
    RemoveWTP <- RemoveWTPNodes
    Nodes <- NodesOf
    Depth <- DepthOf
SPECIFICATION Spec
INVARIANTS
    SearchTree
    HeightsRight
PROPERTIES
    InsertKeepsBalance
    ImplementsTable
CHECK_DEADLOCK FALSE
