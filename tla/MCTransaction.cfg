CONSTANTS
    node = node
    header = header
    Object = {node, header}
    Headed = {header}
    Parts <- PartOf
    MaxBuffers = 4
    MaxLevel = 3
    ChunkSize = 1
    MaxFrames = 5
    MaxBlocks = 2
    MaxChunks = 2
SPECIFICATION Spec
INVARIANTS
    HandlersLive
    
    BlocksKept
PROPERTIES
    OnlyOutermostDeletes
