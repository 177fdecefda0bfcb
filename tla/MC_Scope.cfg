SPECIFICATION Spec
CONSTANTS
    Calls = {c1, c2}
    Questions <- TwoTenants
    Tenants = {acme, beta}
    Users = {alice, bob}
    Teams = {finance}
    Queries = {ask, rephrase, shout}
    Normal <- MCNormal
    Similar <- MCSimilar
    Docs = {report, memo}
    Doc <- MCDoc
    Members <- MCMembers
    TopK = 2
    MaxChanges = 3
    c1 = c1
    c2 = c2
    acme = acme
    beta = beta
    alice = alice
    bob = bob
    finance = finance
    ask = ask
    rephrase = rephrase
    shout = shout
    report = report
    memo = memo
    NoQuestion = NoQuestion
CHECK_DEADLOCK FALSE
INVARIANTS
    TypeOK
    OnlyJudgedAnswers
    CachedForSameTeams
    SourcesRegistered
    TenantIsolation
    CachedForSameQuery
    SourcesEntitled
PROPERTIES
    CallsBounded
SYMMETRY
    CallSymmetry
