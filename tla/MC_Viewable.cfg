SPECIFICATION Spec
CONSTANTS
    Calls = {c1, c2}
    Questions <- OneTenant
    Tenants = {acme, beta}
    Users = {alice, bob}
    Teams = {finance}
    Queries = {ask, rephrase, shout}
    Normal <- MCNormal
    Similar <- MCSimilar
    Docs = {memo}
    Doc <- MCDoc
    Members <- MCMembers
    TopK = 1
    MaxChanges = 2
    c1 = c1
    c2 = c2
    acme = acme
    beta = beta
    alice = alice
    bob = bob
    finance = finance
    ask = ask
    rephrase = rephrase
    shout = shout
    report = report
    memo = memo
    NoQuestion = NoQuestion
CHECK_DEADLOCK FALSE
INVARIANT
    CachedSourcesViewable
