----------------------------- MODULE CachesProofs -----------------------------
(***************************************************************************)
(* Machine-checked proofs about Caches, for every set of ingresses,        *)
(* domains, clusters and endpoints and every expiration.                   *)
(***************************************************************************)
EXTENDS Caches, TLAPS

(* The safety invariants are inductive only together: freeing the domains  *)
(* of one translation keeps domainsInUse exact because no other            *)
(* translation shares them, and no two translations share a domain because *)
(* validateIngress compares against an exact domainsInUse.                 *)
CachesInv ==
    /\ TypeOK
    /\ DomainsExact
    /\ DomainsExclusive
    /\ ClustersPinned
    /\ NoClusterLeak

-----------------------------------------------------------------------------

(* The initial state of NewCaches satisfies the invariant. *)
LEMMA InitInv == Init => CachesInv
  <1> SUFFICES ASSUME Init PROVE CachesInv
    OBVIOUS
  <1> USE CachesAssumption DEF Init, NewCaches
  <1>1. TypeOK
    BY DEF TypeOK, Item, Key, NoExpiration
  <1>2. DomainsExact
    BY DEF DomainsExact
  <1>3. DomainsExclusive /\ ClustersPinned
    BY DEF DomainsExclusive, ClustersPinned
  <1>4. NoClusterLeak
    BY DEF NoClusterLeak
  <1> QED
    BY <1>1, <1>2, <1>3, <1>4 DEF CachesInv

-----------------------------------------------------------------------------

(* The external authorization cluster is no ingress's cluster.             *)
LEMMA ExtAuthzKeyApart ==
  ASSUME NEW i \in Ingress, NEW t, NEW k \in ExtAuthzKeys
  PROVE  k \notin KeysOf(i, t)
  BY CachesAssumption DEF ExtAuthzKeys, KeysOf

(* deleteTranslatedIngress: what the three structures are afterwards.      *)
LEMMA DeletePreserves ==
  ASSUME CachesInv, NEW i \in Ingress, DeleteIngressInfo(i)
  PROVE  CachesInv'
  <1> USE CachesAssumption DEF CachesInv
  <1>0. CASE i \notin DOMAIN translatedIngresses
    <2>1. /\ clusters' = clusters
          /\ domainsInUse' = domainsInUse
          /\ evicted' = evicted
      BY <1>0 DEF DeleteIngressInfo, SetExpiration, FreeDomains
    <2>2. translatedIngresses' = translatedIngresses
      BY <1>0 DEF DeleteIngressInfo, Forget, TypeOK
    <2> QED
      BY <2>1, <2>2 DEF TypeOK, DomainsExact, DomainsExclusive, ClustersPinned,
                        NoClusterLeak, KeysOf
  <1>1. CASE i \in DOMAIN translatedIngresses
    <2> DEFINE t == translatedIngresses[i]
    <2>1. /\ DOMAIN translatedIngresses' = DOMAIN translatedIngresses \ {i}
          /\ \A j \in DOMAIN translatedIngresses' :
                translatedIngresses'[j] = translatedIngresses[j]
      BY DEF DeleteIngressInfo, Forget
    <2>2. /\ DOMAIN clusters' = DOMAIN clusters
          /\ \A k \in DOMAIN clusters :
                clusters'[k] = IF k \in KeysOf(i, t) /\ ~Expired(clusters[k])
                               THEN [object |-> clusters[k].object,
                                     ttl |-> ClusterExpiration]
                               ELSE clusters[k]
      BY <1>1 DEF DeleteIngressInfo, SetExpiration
    <2>3. domainsInUse' = domainsInUse \ t.domains
      BY <1>1 DEF DeleteIngressInfo, FreeDomains
    <2>4. TypeOK'
      <3>1. translatedIngresses' \in [DOMAIN translatedIngresses' -> Translation]
        BY DEF DeleteIngressInfo, Forget, TypeOK
      <3>2. clusters' \in [DOMAIN clusters' -> Item]
        BY <1>1 DEF DeleteIngressInfo, SetExpiration, TypeOK, Item
      <3> QED
        BY <2>1, <2>2, <2>3, <3>1, <3>2 DEF TypeOK, DeleteIngressInfo
    <2>5. DomainsExact'
      BY <1>1, <2>1, <2>3 DEF DomainsExact, DomainsExclusive
    <2>6. DomainsExclusive'
      BY <2>1 DEF DomainsExclusive
    <2>7. ClustersPinned'
      <3>1. ASSUME NEW k \in ExtAuthzKeys
            PROVE  k \in DOMAIN clusters' /\ clusters'[k] = clusters[k]
        BY <2>2, ExtAuthzKeyApart DEF ClustersPinned
      <3>2. ASSUME NEW j \in DOMAIN translatedIngresses', NEW c
            PROVE  <<c, j>> \notin KeysOf(i, t)
        BY <2>1 DEF KeysOf
      <3> QED
        BY <2>1, <2>2, <3>1, <3>2 DEF ClustersPinned
    <2>8. NoClusterLeak'
      <3> SUFFICES ASSUME NEW k \in DOMAIN clusters,
                          clusters'[k].ttl = NoExpiration,
                          k \notin ExtAuthzKeys
                   PROVE  /\ k[2] \in DOMAIN translatedIngresses'
                          /\ k \in KeysOf(k[2], translatedIngresses'[k[2]])
        BY <2>2 DEF NoClusterLeak, KeysOf
      <3>1. clusters'[k] = clusters[k] /\ ~(k \in KeysOf(i, t) /\ ~Expired(clusters[k]))
        BY <2>2 DEF NoExpiration
      <3>2. k \notin KeysOf(i, t)
        BY <3>1 DEF Expired, NoExpiration
      <3>3. /\ k[2] \in DOMAIN translatedIngresses
            /\ k \in KeysOf(k[2], translatedIngresses[k[2]])
        BY <3>1 DEF NoClusterLeak
      <3>4. k[2] # i
        BY <3>2, <3>3
      <3> QED
        BY <2>1, <3>3, <3>4 DEF KeysOf
    <2> QED
      BY <2>4, <2>5, <2>6, <2>7, <2>8
  <1> QED
    BY <1>0, <1>1

-----------------------------------------------------------------------------

(* UpdateIngress without a conflict: the old translation of i is replaced, *)
(* and the new one shares no domain with the others.                       *)
LEMMA AcceptPreserves ==
  ASSUME CachesInv, NEW i \in Ingress, NEW t \in Translation,
         UpdateIngressAccepted(i, t)
  PROVE  CachesInv'
  <1> USE CachesAssumption DEF CachesInv
  <1> DEFINE ti == translatedIngresses
             cs == SetExpiration(i)
  <1>1. /\ DOMAIN ti' = DOMAIN ti \cup {i}
        /\ ti'[i] = t
        /\ \A j \in DOMAIN ti : j # i => ti'[j] = ti[j]
    BY DEF UpdateIngressAccepted
  <1>2. /\ DOMAIN cs = DOMAIN clusters
        /\ \A k \in DOMAIN clusters :
              \/ cs[k] = clusters[k]
              \/ /\ i \in DOMAIN ti
                 /\ k \in KeysOf(i, ti[i])
                 /\ cs[k] = [object |-> clusters[k].object, ttl |-> ClusterExpiration]
        /\ \A k \in DOMAIN clusters :
              i \in DOMAIN ti /\ k \in KeysOf(i, ti[i]) /\ ~Expired(clusters[k])
                => cs[k].ttl = ClusterExpiration
    BY DEF SetExpiration
  <1>3. /\ DOMAIN clusters' = DOMAIN clusters \cup KeysOf(i, t)
        /\ \A k \in KeysOf(i, t) :
              clusters'[k] = [object |-> t.clusters[k[1]], ttl |-> NoExpiration]
        /\ \A k \in DOMAIN clusters \ KeysOf(i, t) : clusters'[k] = cs[k]
    BY <1>2 DEF UpdateIngressAccepted, SetClusters
  <1>4. /\ \A c \in DOMAIN t.clusters : t.clusters[c] \in Endpoints /\ c \in Cluster
        /\ t.domains \in SUBSET Domain
    BY DEF Translation
  <1>5. t.domains \cap FreeDomains(i) = {} /\ domainsInUse' = FreeDomains(i) \cup t.domains
    BY DEF UpdateIngressAccepted, Conflicts
  <1>6. FreeDomains(i) = UNION {ti[j].domains : j \in DOMAIN ti \ {i}}
    BY DEF FreeDomains, DomainsExact, DomainsExclusive
  <1>7. TypeOK'
    <2>1. ti' \in [DOMAIN ti' -> Translation] /\ DOMAIN ti' \subseteq Ingress
      BY DEF UpdateIngressAccepted, TypeOK
    <2>2. DOMAIN clusters' \subseteq Key
      BY <1>3, <1>4 DEF KeysOf, Key, TypeOK
    <2>3. ASSUME NEW k \in DOMAIN clusters'
          PROVE  clusters'[k] \in Item
      <3>1. CASE k \in KeysOf(i, t)
        <4>1. PICK c \in DOMAIN t.clusters : k = <<c, i>>
          BY <3>1 DEF KeysOf
        <4>2. clusters'[k] = [object |-> t.clusters[c], ttl |-> NoExpiration]
          BY <1>3, <3>1, <4>1
        <4> QED
          BY <1>4, <4>2 DEF Item
      <3>2. CASE k \notin KeysOf(i, t)
        <4>1. k \in DOMAIN clusters /\ clusters'[k] = cs[k] /\ clusters[k] \in Item
          BY <1>3, <3>2 DEF TypeOK
        <4> QED
          BY <1>2, <4>1 DEF Item
      <3> QED
        BY <3>1, <3>2
    <2>4. clusters' \in [DOMAIN clusters' -> Item]
      <3>1. clusters' = [k \in DOMAIN clusters' |-> clusters'[k]]
        BY DEF UpdateIngressAccepted, SetClusters
      <3> QED
        BY <2>3, <3>1
    <2>5. domainsInUse' \in SUBSET Domain
      BY <1>4, <1>5 DEF FreeDomains, TypeOK
    <2> QED
      BY <2>1, <2>2, <2>4, <2>5 DEF TypeOK, UpdateIngressAccepted
  <1>8. DomainsExact'
    BY <1>1, <1>5, <1>6 DEF DomainsExact
  <1>9. DomainsExclusive'
    BY <1>1, <1>5, <1>6 DEF DomainsExclusive
  <1>10. ClustersPinned'
    <2> SUFFICES ASSUME NEW j \in DOMAIN ti', NEW c \in DOMAIN ti'[j].clusters
                 PROVE  /\ <<c, j>> \in DOMAIN clusters'
                        /\ clusters'[<<c, j>>] =
                              [object |-> ti'[j].clusters[c], ttl |-> NoExpiration]
      <3>1. ASSUME NEW k \in ExtAuthzKeys
            PROVE  k \in DOMAIN clusters' /\ clusters'[k] = clusters[k]
        BY <1>2, <1>3, ExtAuthzKeyApart DEF ClustersPinned
      <3> QED
        BY <3>1 DEF ClustersPinned
    <2>1. CASE j = i
      BY <1>1, <1>3, <2>1 DEF KeysOf
    <2>2. CASE j # i
      <3>1. j \in DOMAIN ti /\ ti'[j] = ti[j]
        BY <1>1, <2>2
      <3>2. /\ <<c, j>> \in DOMAIN clusters
            /\ clusters[<<c, j>>] = [object |-> ti[j].clusters[c], ttl |-> NoExpiration]
        BY <3>1 DEF ClustersPinned
      <3>3. <<c, j>> \notin KeysOf(i, t) /\ <<c, j>> \notin KeysOf(i, ti[i])
        BY <2>2 DEF KeysOf
      <3> QED
        BY <1>2, <1>3, <3>1, <3>2, <3>3
    <2> QED
      BY <2>1, <2>2
  <1>11. NoClusterLeak'
    <2> SUFFICES ASSUME NEW k \in DOMAIN clusters',
                        clusters'[k].ttl = NoExpiration,
                        k \notin ExtAuthzKeys
                 PROVE  /\ k[2] \in DOMAIN ti'
                        /\ k \in KeysOf(k[2], ti'[k[2]])
      BY DEF NoClusterLeak, KeysOf
    <2>1. CASE k \in KeysOf(i, t)
      BY <1>1, <2>1 DEF KeysOf
    <2>2. CASE k \notin KeysOf(i, t)
      <3>1. k \in DOMAIN clusters /\ clusters'[k] = cs[k]
        BY <1>3, <2>2
      <3>2. cs[k] = clusters[k]
        BY <1>2, <3>1 DEF NoExpiration
      <3>3. /\ k[2] \in DOMAIN ti
            /\ k \in KeysOf(k[2], ti[k[2]])
        BY <3>1, <3>2 DEF NoClusterLeak
      <3>4. k[2] # i
        BY <1>2, <3>1, <3>2, <3>3 DEF Expired, NoExpiration
      <3> QED
        BY <1>1, <3>3, <3>4
    <2> QED
      BY <2>1, <2>2
  <1> QED
    BY <1>7, <1>8, <1>9, <1>10, <1>11

-----------------------------------------------------------------------------

(* The passing of time only touches items that have an expiration.         *)
LEMMA TickPreserves ==
  ASSUME CachesInv, Tick
  PROVE  CachesInv'
  <1> USE CachesAssumption DEF CachesInv
  <1>1. /\ DOMAIN clusters' = DOMAIN clusters
        /\ \A k \in DOMAIN clusters :
              clusters'[k] = IF clusters[k].ttl > 0
                             THEN [object |-> clusters[k].object,
                                   ttl |-> clusters[k].ttl - 1]
                             ELSE clusters[k]
    BY DEF Tick
  <1>2. UNCHANGED <<translatedIngresses, domainsInUse, evicted>>
    BY DEF Tick
  <1>3. TypeOK'
    <2>1. ASSUME NEW k \in DOMAIN clusters
          PROVE  clusters'[k] \in Item
      <3>1. /\ clusters[k] \in Item
            /\ clusters[k].ttl \in Int
            /\ clusters[k].ttl > 0 => clusters[k].ttl - 1 \in 0 .. ClusterExpiration
        BY DEF TypeOK, Item, NoExpiration
      <3> QED
        BY <1>1, <3>1 DEF Item
    <2>2. clusters' \in [DOMAIN clusters' -> Item]
      BY <1>1, <2>1 DEF Tick
    <2> QED
      BY <1>1, <1>2, <2>2 DEF TypeOK
  <1>4. DomainsExact' /\ DomainsExclusive'
    BY <1>2 DEF DomainsExact, DomainsExclusive
  <1>5. ClustersPinned'
    BY <1>1, <1>2 DEF ClustersPinned, NoExpiration
  <1>6. NoClusterLeak'
    BY <1>1, <1>2 DEF NoClusterLeak, NoExpiration, TypeOK, Item, KeysOf
  <1> QED
    BY <1>3, <1>4, <1>5, <1>6

(* The janitor removes expired items only, and none of them is in use.     *)
LEMMA DeleteExpiredPreserves ==
  ASSUME CachesInv, DeleteExpired
  PROVE  CachesInv'
  <1> USE CachesAssumption DEF CachesInv
  <1>1. /\ DOMAIN clusters' = {k \in DOMAIN clusters : clusters[k].ttl # 0}
        /\ \A k \in DOMAIN clusters' : clusters'[k] = clusters[k]
        /\ clusters' = [k \in DOMAIN clusters' |-> clusters'[k]]
    BY DEF DeleteExpired, Listed, Expired
  <1>2. UNCHANGED <<translatedIngresses, domainsInUse>>
    BY DEF DeleteExpired
  <1>3. TypeOK'
    <2>1. evicted' \in SUBSET Ingress
      <3>1. ASSUME NEW k \in DOMAIN clusters \ Listed
            PROVE  k[2] \in Ingress
        <4>1. k \in Key /\ clusters[k].ttl = 0
          BY DEF Listed, Expired, TypeOK
        <4>2. k \notin ExtAuthzKeys
          BY <4>1 DEF ClustersPinned, NoExpiration
        <4> QED
          BY <4>1, <4>2 DEF Key
      <3> QED
        BY <3>1 DEF DeleteExpired, TypeOK
    <2> QED
      BY <1>1, <1>2, <2>1 DEF TypeOK
  <1>4. DomainsExact' /\ DomainsExclusive'
    BY <1>2 DEF DomainsExact, DomainsExclusive
  <1>5. ClustersPinned'
    BY <1>1, <1>2 DEF ClustersPinned, NoExpiration
  <1>6. NoClusterLeak'
    BY <1>1, <1>2 DEF NoClusterLeak, KeysOf
  <1> QED
    BY <1>3, <1>4, <1>5, <1>6

-----------------------------------------------------------------------------

(* Every step of Caches keeps the invariant. *)
LEMMA NextInv == CachesInv /\ [Next]_cachesVars => CachesInv'
  <1> SUFFICES ASSUME CachesInv, [Next]_cachesVars
               PROVE  CachesInv'
    OBVIOUS
  <1>1. ASSUME NEW i \in Ingress, UpdateIngress(i)
        PROVE  CachesInv'
    <2>1. PICK t \in Translation :
             UpdateIngressAccepted(i, t) \/ UpdateIngressConflict(i, t)
      BY <1>1 DEF UpdateIngress
    <2>2. CASE UpdateIngressAccepted(i, t)
      BY <2>2, AcceptPreserves
    <2>3. CASE UpdateIngressConflict(i, t)
      BY <2>3, DeletePreserves DEF UpdateIngressConflict
    <2> QED
      BY <2>1, <2>2, <2>3
  <1>2. ASSUME NEW i \in Ingress, DeleteIngressInfo(i)
        PROVE  CachesInv'
    BY <1>2, DeletePreserves
  <1>3. ASSUME NEW i \in Ingress, OnEvicted(i)
        PROVE  CachesInv'
    BY <1>3 DEF OnEvicted, CachesInv, TypeOK, DomainsExact, DomainsExclusive,
                ClustersPinned, NoClusterLeak, KeysOf
  <1>4. CASE Tick
    BY <1>4, TickPreserves
  <1>5. CASE DeleteExpired
    BY <1>5, DeleteExpiredPreserves
  <1>6. CASE UNCHANGED cachesVars
    BY <1>6 DEF cachesVars, CachesInv, TypeOK, DomainsExact, DomainsExclusive,
                ClustersPinned, NoClusterLeak, KeysOf
  <1> QED
    BY <1>1, <1>2, <1>3, <1>4, <1>5, <1>6 DEF Next

(* The inductive invariant holds in every reachable state of the caches,   *)
(* whatever updates, refusals, deletions, expirations and evictions occur. *)
THEOREM CachesInvariant == Spec => []CachesInv
  BY InitInv, NextInv, PTL DEF Spec

(* The caches are always well typed. *)
THEOREM TypeCorrect == Spec => []TypeOK
  <1>1. CachesInv => TypeOK
    BY DEF CachesInv
  <1> QED
    BY <1>1, CachesInvariant, PTL

(* domainsInUse is exact and no domain is cached for two ingresses. *)
THEOREM DomainsSafe == Spec => [](DomainsExact /\ DomainsExclusive)
  <1>1. CachesInv => DomainsExact /\ DomainsExclusive
    BY DEF CachesInv
  <1> QED
    BY <1>1, CachesInvariant, PTL

(* A cluster in use never expires, and a cluster out of use always does. *)
THEOREM ClustersSafe == Spec => [](ClustersPinned /\ NoClusterLeak)
  <1>1. CachesInv => ClustersPinned /\ NoClusterLeak
    BY DEF CachesInv
  <1> QED
    BY <1>1, CachesInvariant, PTL

(* No cluster stays in the cache for good once its translation is deleted  *)
(* or replaced: setExpiration has been called for it.                      *)
THEOREM NoClusterLeaks == Spec => []NoClusterLeak
  <1>1. ClustersPinned /\ NoClusterLeak => NoClusterLeak
    OBVIOUS
  <1> QED
    BY <1>1, ClustersSafe, PTL

-----------------------------------------------------------------------------

(* The domains other ingresses own are what is left of domainsInUse once   *)
(* the translation of i is deleted: validateIngress decides exactly the    *)
(* registry's question.                                                    *)
LEMMA FreeDomainsAreOthers ==
  ASSUME CachesInv, NEW i \in Ingress
  PROVE  FreeDomains(i) = Registry!OwnedByOthers(i)
  BY DEF CachesInv, TypeOK, DomainsExact, DomainsExclusive, FreeDomains,
         Registry!OwnedByOthers

(* The domains every ingress is served on. *)
DomainsOwned ==
    [i \in Ingress |->
        IF i \in DOMAIN translatedIngresses THEN translatedIngresses[i].domains ELSE {}]

(* Every step of the caches is a claim, a refusal, a release or no step of *)
(* the registry.                                                           *)
LEMMA RegistryStep ==
  ASSUME CachesInv, [Next]_cachesVars
  PROVE  [Registry!Next]_DomainsOwned
  <1> USE DEF DomainsOwned
  <1>1. ASSUME NEW i \in Ingress, DeleteIngressInfo(i)
        PROVE  DomainsOwned' = [DomainsOwned EXCEPT ![i] = {}]
    BY <1>1 DEF DeleteIngressInfo, Forget
  <1>2. ASSUME NEW i \in Ingress, UpdateIngress(i)
        PROVE  Registry!Next
    <2>1. PICK t \in Translation :
             UpdateIngressAccepted(i, t) \/ UpdateIngressConflict(i, t)
      BY <1>2 DEF UpdateIngress
    <2>2. t.domains \in SUBSET Domain
      BY DEF Translation
    <2>3. CASE UpdateIngressAccepted(i, t)
      <3>1. DomainsOwned' = [DomainsOwned EXCEPT ![i] = t.domains]
        BY <2>3 DEF UpdateIngressAccepted
      <3>2. Registry!Claim(i, t.domains)
        BY <2>3, <3>1, FreeDomainsAreOthers
           DEF UpdateIngressAccepted, Conflicts, Registry!Claim
      <3> QED
        BY <2>2, <3>2 DEF Registry!Next
    <2>4. CASE UpdateIngressConflict(i, t)
      <3>1. Registry!Refuse(i, t.domains)
        BY <1>1, <2>4, FreeDomainsAreOthers
           DEF UpdateIngressConflict, Conflicts, Registry!Refuse
      <3> QED
        BY <2>2, <3>1 DEF Registry!Next
    <2> QED
      BY <2>1, <2>3, <2>4
  <1>3. ASSUME NEW i \in Ingress, DeleteIngressInfo(i)
        PROVE  Registry!Next
    BY <1>1, <1>3 DEF Registry!Next, Registry!Release
  <1>4. CASE UNCHANGED translatedIngresses
    BY <1>4
  <1> QED
    BY <1>2, <1>3, <1>4 DEF Next, Tick, DeleteExpired, OnEvicted, cachesVars

(* Caches implements the domain registry: UpdateIngress and                *)
(* DeleteIngressInfo claim, refuse and release domains as it promises, and *)
(* the cluster cache's clock and janitor do not touch them.                *)
THEOREM RegistryRefined == Spec => RegistrySpec
  <1>1. Init => Registry!Init
    BY DEF Init, NewCaches, Registry!Init
  <1>2. CachesInv /\ [Next]_cachesVars => [Registry!Next]_DomainsOwned
    BY RegistryStep
  <1> QED
    BY <1>1, <1>2, CachesInvariant, PTL DEF Spec, RegistrySpec, Registry!Spec, DomainsOwned

=============================================================================
