CONSTANTS
    Emails = {"ann", "bob"}
    Existing = {"ann"}
    Roles = {"staff", "root"}
    Permissions <- MCPermissions
    Signups = {"s1", "s2", "s3"}
    EmailOf <- MCEmailOf
    Social = {"s1", "s3"}
    BadRedirect = {"s3"}
    Patches = {"p1", "p2", "p3"}
    OwnerOf <- MCOwnerOf
    DataOf <- MCDataOf
    Timezones = {"UTC"}
    Forms = {"g"}
    Typed = {"typed"}
    InitialRows <- MCInitialRows
    MaxChanges = 2
    None = None
    Requests = {"r1", "r2", "r3"}
    CredentialOf <- MCCredentialOf
    Enabled <- MCEnabled
    Resources = {"account", "role"}
    AppOf <- MCAppOf
    Startups <- MCStartups
    MaxChecks = 3
SPECIFICATION MCSpec
INVARIANTS SignupMakesWholeUser ProfileWritesKept GrantWasHeld OneAnswerPerRequest SidebarMatchesPages
CHECK_DEADLOCK FALSE
