SPECIFICATION FairSpec
CONSTANTS
    Tag = {e1, e2, e3}
    BigTag = {e3}
    NoTag = NoTag
    MaxDepth = 2
    MaxStack = 5
INVARIANTS TargetInnermost DepthBoundsStack
PROPERTIES ImplementsSemantics DispatchEnds
