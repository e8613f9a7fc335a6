CONSTANTS
    NumBlocks = 5
    FakeHead = FakeHead
    FakeTail = FakeTail
    None = None
SPECIFICATION Spec
INVARIANT LinksConsistent
PROPERTY ImplementsQueue
