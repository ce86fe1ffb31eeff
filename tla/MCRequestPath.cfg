SPECIFICATION Spec
CONSTANTS
    w1 = w1
    dev = dev
    new = new
    token = token
    other = "other"
    Processes = {w1}
    Hosts = {w1}
    Keys = {dev, new}
    Tokens = {token}
    Nobody = nobody
    DefaultKeys = {dev}
    Tenants = {"default", "other"}
    DefaultTenant = "default"
    Operations = {"search_vectors", "write_vectors"}
    Owner <- MCOwner
    Permissions <- MCPermissions
    Expiry <- MCExpiry
    MaxTime = 1
    Requests = {r1, r2}
    NoProvider = none
    Calls <- MCCalls
    Excluded <- MCExcluded
    Unguarded = {"write_vectors"}
    MaxRestarts = 1
CHECK_DEADLOCK FALSE
INVARIANTS
    TypeOK
    RevokedNeverRuns
    RunsOnce
    HandlerKnowsCaller
    EncodesWithModel
PROPERTIES
    RequestsEnd
