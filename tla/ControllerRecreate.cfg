SPECIFICATION ControllerSpec
CONSTANTS
    Ingress = {i1, i2}
    Domain = {d1, d2}
    Cluster = {c1}
    Endpoints = {e1, e2}
    ClusterExpiration = 1
    ExtAuthz = FALSE
    ExtAuthzIngress = extAuthzIngress
    ExtAuthzCluster = extAuthzCluster
    ExtAuthzEndpoints = e1
    Worker = {w1}
    Nil = Nil
    c1 = c1
    Backend <- SharedBackend
    Budgets <- Recreate
INVARIANTS
    ConflictJustified
CHECK_DEADLOCK FALSE
