SPECIFICATION Spec
CONSTANTS
    first = first
    again = again
    other = other
    foreign = foreign
    keyless = keyless
    tenantA = tenantA
    tenantB = tenantB
    theKey = theKey
    body1 = body1
    body2 = body2
    NoKey = NoKey
    Unbound = Unbound
    Attempts = {first, again}
    Tenants <- MCTenants
    Keys = {theKey}
    Bodies <- MCBodies
    TenantOf <- MCTenantOf
    KeyOf <- MCKeyOf
    BodyOf <- MCBodyOf
    Limit = 2
    MaxAborts = 0
CHECK_DEADLOCK FALSE
INVARIANTS
    LoserIsResolved
