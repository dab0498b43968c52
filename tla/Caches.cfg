SPECIFICATION FairSpec
CONSTANTS
    Ingress = {i1, i2}
    Domain = {d1, d2}
    Cluster = {c1}
    Endpoints = {e1, e2}
    ClusterExpiration = 2
    ExtAuthz = TRUE
    ExtAuthzIngress = extAuthzIngress
    ExtAuthzCluster = extAuthzCluster
    ExtAuthzEndpoints = e1
INVARIANTS
    TypeOK
    DomainsExact
    ClustersPinned
    NoClusterLeak
PROPERTIES
    RegistrySpec
    OrphansReclaimed
