SPECIFICATION Spec
CONSTANT MaxPos = 7
CONSTANT Lists <- AllLists
INVARIANTS Normalized HasIsExact FindUncoveredRangeIsExact
PROPERTY ImplementsByteSet
