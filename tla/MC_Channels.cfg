SPECIFICATION Spec
CONSTANTS
    Handlers = {h1, h2}
    Requests <- MCRequests
    MaxMessages = 2
    MaxCrashes = 1
    Lines = {phoneA, phoneB, stray}
    People = {ana}
    Tenants = {acme, beta}
    Teams = {}
    TenantOf <- MCTenantOf
    Chunks = {law, rules}
    OwnerOf <- MCOwnerOf
    Text <- MCText
    Phrases <- MCPhrases
    Numbers = {n1, n2}
    StrictCitation = TRUE
    None = None
    NoTenant = NoTenant
    Nobody = Nobody
    acme = acme
    beta = beta
    phoneA = phoneA
    phoneB = phoneB
    stray = stray
    ana = ana
    law = law
    rules = rules
    n1 = n1
    n2 = n2
    h1 = h1
    h2 = h2
CHECK_DEADLOCK FALSE
INVARIANTS
    TypeOK
    AckedAttempted
    LinesApart
    CitationsInSources
    PlainlySaidAccepted
    RepliesFitMessages
SYMMETRY
    HandlerSymmetry
