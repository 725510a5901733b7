CONSTANTS
    Customers = {k}
    MaxConversations = 2
    Inbound = {m1, m2, r}
    Author <- MCAuthor
    Replies = {r}
    Outbound = {w1, w2}
    Agents = {a, b}
    Directors = {b}
    Requests = {p, q}
    MaxHandled = 4
    Endpoints = {"inbound", "create", "status", "text", "reaction", "media", "template", "read", "setStatus", "delete", "assign", "reply", "getPermission", "request", "mediaReady"}
    Window = 1
    MaxTime = 2
    None = None
SYMMETRY Symmetry
SPECIFICATION Spec
INVARIANTS
    TypeInv
    OneOpenConversation
    CountedOnce
    HistoryTellsOwner
    FreeTextFollowsCustomer
    TemplateStatusFollows
    PermissionWasGiven
PROPERTIES
    InboundIsStored
    FirstClaimWins
