SPECIFICATION Spec
CONSTANTS
    u1 = u1
    u2 = u2
    c1 = c1
    a = a
    b = b
    c = c
    Users = {u1, u2}
    Containers = {c1}
    Owner <- OneOwner
    Names = {a, b, c}
    NamesOf <- TwoAndOne
    Requests = {r1, r2}
    None = None
    Leaving = {u1}
    MaxNets = 2
    LimitsOf <- TwoPlansAndOne
    MaxNetworks = 2
    MaxFailures = 1
    Operations = {"create", "connect", "disconnect", "delete", "remove"}
SYMMETRY Symmetry
INVARIANTS Isolation RowHasNetwork NoUnrecordedNetwork NetworkOvershoot ConnectedIsListed
CHECK_DEADLOCK FALSE
