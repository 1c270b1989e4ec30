SPECIFICATION Spec
CONSTANTS
    Settings = {"approval", "recurring", "group", "action", "script", "software", "owners",
                "members", "offboarding", "access", "profile", "services", "keys"}
    None = None
    Overlapping = {r1, r2}
    KeyRequests = {r1, r2, r3}
    Users = {"asker", u1, u2}
    Requester = "asker"
    DeviceCount = 2
    MinApprovers = {1, 2}
    Separations = {TRUE, FALSE}
    ApprovalActions = {"reboot", "process_kill"}
    MaxChanges = 2
    Endpoints = {"d1", "d2"}
    Placed = {"d1"}
    Calls <- Calls4
    MaxFlips = 1
    Tenants = {"t1", "t2"}
    TenantOf <- Tenant1
    Owner = "t1"
    Public = TRUE
    MaxIds = 2
    MaxScriptChanges = 1
    Targets = {x1, x2}
    MaxRetries = 1
    Msps = {x1, x2}
    Emails = {x3}
    MaxInvitations = 2
    Accounts = {"asker", x1}
    Root = "asker"
    Assignees = {x1}
    Scopes <- Hierarchy3
    Platform = "P"
    Parent <- Parent3
    TypeOf <- TypeOf3
    Roles = {"msp_admin", "msp_technician"}
    Agents = {x1, x2}
    Tokens = {x3}
    MaxUses = 2
    MaxDevices = 2
    Periods = {1, 2}
    MaxTime = 1
    Hostnames = {x1}
    Methods = {x2, x3}
    Tickets = {x1}
    Replies = {x2, x3}
    MaxDomains = 2
    MaxOps = 2
    MaxKeys = 3
SYMMETRY Interchangeable
INVARIANTS
    TypeOK
    DispatchIsApproved
    
    RequestIsWhole
    ChangesAreAudited
    OneOfEach
    AuthorityIsCurrent
    OffboardingIsFinal
PROPERTIES
    SettledStays
CHECK_DEADLOCK FALSE
