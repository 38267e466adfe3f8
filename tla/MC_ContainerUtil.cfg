CONSTANTS
    Values = {1, 2, 3}
    MaxLen = 4

SPECIFICATION Spec

INVARIANTS
    ContainerTypeOK
    EraseMatchesReference
    UniqueMatchesReference
    SortedVectorsStaySorted
    BinarySearchMatchesReference
