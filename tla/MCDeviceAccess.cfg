CONSTANTS
    r1 = r1
    r2 = r2
    d1 = d1
    d2 = d2
    p1 = p1
    Request <- Requests
    Serial <- Serials
    Package <- Packages
    Allowed <- AllowedSerials
    Policies <- SavedPolicies
    Offers <- RouteOffers
    DastJobs = 1
SPECIFICATION Spec
INVARIANTS TypeOK JobSlotExact
PROPERTIES CommandsInScope LeftoversExplained RequestsEnd
CHECK_DEADLOCK FALSE
