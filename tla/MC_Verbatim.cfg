SPECIFICATION Spec
CONSTANTS
    Handlers = {h1}
    Requests <- LegalOnly
    MaxMessages = 2
    MaxCrashes = 0
    Lines = {phoneA, phoneB, stray}
    People = {ana}
    Tenants = {acme, beta}
    Teams = {}
    TenantOf <- MCTenantOf
    Chunks = {law, rules}
    OwnerOf <- MCOwnerOf
    Text <- Unmarked
    Phrases <- Verbatim
    Numbers = {n1, n2}
    StrictCitation = TRUE
    None = None
    NoTenant = NoTenant
    Nobody = Nobody
    acme = acme
    beta = beta
    phoneA = phoneA
    phoneB = phoneB
    stray = stray
    ana = ana
    law = law
    rules = rules
    n1 = n1
    n2 = n2
    h1 = h1
CHECK_DEADLOCK FALSE
INVARIANT
    VerbatimAccepted
