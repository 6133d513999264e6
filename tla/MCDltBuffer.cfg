SPECIFICATION Spec
CONSTANTS
    m1 = m1
    m2 = m2
    Msg <- MCMsg
    Parts <- MCParts
    BufferHead = 1
    BlockHead = 2
    min_size = 6
    max_size = 14
    step_size = 3
    Zero = Zero
    Junk = Junk
    NoMsg = NoMsg
INVARIANTS Layout NeverCorrupt
PROPERTY FifoSpec
