SPECIFICATION Spec
CONSTANTS
    Uploads = {u1, u2}
    Partitions = {p1}
    MaxChunks = 2
    MaxAttempts = 1
    MaxFaults = 1
    ForeignEvents = FALSE
    Requests <- ThreePaths
    Tenants = {t1, t2}
    Files = {report_pdf, report_dot_pdf}
    Users = {alice, bob}
    Teams = {finance}
    ObjectNames <- MCObjectNames
    ObjectName <- MCObjectName
    u1 = u1
    u2 = u2
    p1 = p1
    t1 = t1
    t2 = t2
    report_pdf = report_pdf
    report_dot_pdf = report_dot_pdf
    alice = alice
    bob = bob
    finance = finance
    NoUpload = NoUpload
    NoTenant = NoTenant
    NoUser = NoUser
    NoRecord = NoRecord
    Malformed = Malformed
CHECK_DEADLOCK FALSE
INVARIANTS
    TypeOK
    EventHasObject
    PointsStayInPath
    StoredContentCurrent
    GrantsMatchUploads
SYMMETRY UploadSymmetry
VIEW Observed
