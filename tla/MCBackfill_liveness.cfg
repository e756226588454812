SPECIFICATION FairSpec
CONSTANTS
    p1 = p1
    p2 = p2
    c1 = c1
    c2 = c2
    r1 = r1
    r2 = r2
    r3 = r3
    Process <- MCProcess
    Chunk <- MCChunk
    Row <- MCRow
    ChunkOf <- MCChunkOf
    Plan <- MCPlan
    MaxRuns = 2
PROPERTIES
    RunsReturn
    ImplementsLedger
