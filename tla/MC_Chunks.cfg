SPECIFICATION Spec
CONSTANTS
    Configs <- MCConfigs
    Titles = {intro, body}
    NoTitle = NoTitle
    Sizes <- MCSizes
    MaxBlocks = 5
    intro = intro
    body = body
CHECK_DEADLOCK FALSE
INVARIANTS
    TypeOK
    SectionPure
    ChunksAdvance
    TextKept
    SizeBound
