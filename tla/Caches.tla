-------------------------------- MODULE Caches --------------------------------
(***************************************************************************)
(* pkg/generator/caches.go and pkg/generator/cluster_cache.go: the         *)
(* in-memory state from which every Envoy snapshot is built.               *)
(*                                                                         *)
(* Caches keeps the translation of every accepted ingress, the set of      *)
(* domains in use, and the clusters of the translations in a TTL cache     *)
(* (github.com/patrickmn/go-cache).  A cluster whose ingress is deleted or *)
(* updated is not dropped: it gets an expiration, stays listed until that  *)
(* expires, and is removed later by the cache's janitor, which reports the *)
(* ingress of every evicted cluster to the controller.                     *)
(*                                                                         *)
(* Caches.mu makes every operation on Caches atomic.  The janitor does not *)
(* take that lock, but the items an operation starts to expire are live    *)
(* until then (ClustersPinned below), so that a janitor that runs in the   *)
(* middle of an operation has the effect of one that ran before it.        *)
(*                                                                         *)
(* A translation is abstracted to the domains of its virtual hosts and to  *)
(* its clusters, a function from cluster names to contents (endpoints).    *)
(***************************************************************************)
EXTENDS Integers

CONSTANTS
    Ingress,            \* ingress keys (namespace/name)
    Domain,             \* host names
    Cluster,            \* cluster names ("namespace/service_region")
    Endpoints,          \* contents of a cluster
    ClusterExpiration,  \* defaultExpiration, in ticks
    ExtAuthz,           \* is external authorization configured?
    ExtAuthzIngress,    \* "__extAuthZCluster" in namespace "_internal"
    ExtAuthzCluster,    \* the name of the external authorization cluster
    ExtAuthzEndpoints   \* its contents

ASSUME CachesAssumption ==
    /\ ClusterExpiration \in Nat \ {0}
    /\ ExtAuthz \in BOOLEAN
    /\ ExtAuthzIngress \notin Ingress
    /\ ExtAuthzCluster \notin Cluster
    /\ ExtAuthzEndpoints \in Endpoints

VARIABLES
    translatedIngresses,  \* ingress key -> its translation
    clusters,             \* <<cluster name, ingress key>> -> cached item
    domainsInUse,         \* the domains of all translations
    evicted               \* ingress keys the janitor removed a cluster of and
                          \* has not reported yet

cachesVars == <<translatedIngresses, clusters, domainsInUse, evicted>>

-----------------------------------------------------------------------------

(* translatedIngress: all regions carry the same domains, so one set of    *)
(* domains stands for internalVirtualHostsTest[0..2].                      *)
Translation ==
    [domains  : SUBSET Domain,
     clusters : UNION {[C -> Endpoints] : C \in SUBSET Cluster}]

(* gocache.NoExpiration. *)
NoExpiration == -1

(* The items that belong to no ingress.                                    *)
ExtAuthzKeys == IF ExtAuthz THEN {<<ExtAuthzCluster, ExtAuthzIngress>>} ELSE {}

(* key(): the cluster name alone is not unique, so the ingress is part of  *)
(* the key.                                                                *)
Key == (Cluster \X Ingress) \cup ExtAuthzKeys

(* An item of the TTL cache: its object and the ticks left to live.        *)
Item == [object : Endpoints, ttl : {NoExpiration} \cup 0 .. ClusterExpiration]

Expired(item) == item.ttl = 0

(* The keys under which the clusters of translation t of ingress i live.   *)
KeysOf(i, t) == {<<c, i>> : c \in DOMAIN t.clusters}

(* What ClustersCache.list() returns: expired items are skipped even       *)
(* before the janitor removes them.                                        *)
Listed == {k \in DOMAIN clusters : ~Expired(clusters[k])}

-----------------------------------------------------------------------------

(* NewCaches: only the external authorization cluster, never expiring.     *)
NewCaches ==
    /\ translatedIngresses = [i \in {} |-> {}]
    /\ clusters = [k \in ExtAuthzKeys |->
                     [object |-> ExtAuthzEndpoints, ttl |-> NoExpiration]]
    /\ domainsInUse = {}
    /\ evicted = {}

(* Faulty variant of SetExpiration: clusters of a deleted translation keep *)
(* living forever.                                                         *)
SetExpirationNever(i) == clusters

(* ClustersCache.setExpiration of every cluster of i's cached translation. *)
(* An item that is gone or has expired is left alone (Get does not see it).*)
SetExpiration(i) ==
    IF i \notin DOMAIN translatedIngresses
    THEN clusters
    ELSE [k \in DOMAIN clusters |->
            IF k \in KeysOf(i, translatedIngresses[i]) /\ ~Expired(clusters[k])
            THEN [object |-> clusters[k].object, ttl |-> ClusterExpiration]
            ELSE clusters[k]]

(* Faulty variant of FreeDomains: the domains of a deleted translation are *)
(* never given back.                                                       *)
FreeDomainsNever(i) == domainsInUse

(* domainsInUse without the domains of i's cached translation.             *)
FreeDomains(i) ==
    IF i \notin DOMAIN translatedIngresses
    THEN domainsInUse
    ELSE domainsInUse \ translatedIngresses[i].domains

(* translatedIngresses without i.                                          *)
Forget(i) ==
    [j \in DOMAIN translatedIngresses \ {i} |-> translatedIngresses[j]]

(* Faulty variant of Conflicts: a conflict is only seen when all domains   *)
(* are taken.                                                              *)
ConflictsOnAll(i, t) == t.domains # {} /\ t.domains \subseteq FreeDomains(i)

(* validateIngress, on the domains that are left once i is forgotten.      *)
Conflicts(i, t) == t.domains \cap FreeDomains(i) # {}

(* Faulty variant of SetClusters: a cluster that is already cached keeps   *)
(* its expiration (go-cache's Add in place of Set).                        *)
SetClustersIfAbsent(cs, i, t) ==
    [k \in DOMAIN cs \cup KeysOf(i, t) |->
        IF k \in DOMAIN cs
        THEN cs[k]
        ELSE [object |-> t.clusters[k[1]], ttl |-> NoExpiration]]

(* ClustersCache.set of every cluster of t, over the items cs.             *)
SetClusters(cs, i, t) ==
    [k \in DOMAIN cs \cup KeysOf(i, t) |->
        IF k \in KeysOf(i, t)
        THEN [object |-> t.clusters[k[1]], ttl |-> NoExpiration]
        ELSE cs[k]]

(* deleteTranslatedIngress; the whole effect of DeleteIngressInfo and the  *)
(* first half of UpdateIngress.                                            *)
DeleteIngressInfo(i) ==
    /\ clusters' = SetExpiration(i)
    /\ domainsInUse' = FreeDomains(i)
    /\ translatedIngresses' = Forget(i)
    /\ UNCHANGED evicted

(* UpdateIngress whose addTranslatedIngress finds no conflict.             *)
UpdateIngressAccepted(i, t) ==
    /\ ~Conflicts(i, t)
    /\ clusters' = SetClusters(SetExpiration(i), i, t)
    /\ domainsInUse' = FreeDomains(i) \cup t.domains
    /\ translatedIngresses' =
          [j \in DOMAIN translatedIngresses \cup {i} |->
              IF j = i THEN t ELSE translatedIngresses[j]]
    /\ UNCHANGED evicted

(* UpdateIngress that returns ErrDomainConflict: the old translation has   *)
(* been deleted by then.                                                   *)
UpdateIngressConflict(i, t) ==
    /\ Conflicts(i, t)
    /\ DeleteIngressInfo(i)

(* Faulty variant of Tick: items that never expire and items that have     *)
(* expired are counted down too.                                           *)
TickAll ==
    /\ clusters' = [k \in DOMAIN clusters |->
                      [clusters[k] EXCEPT !.ttl = @ - 1]]
    /\ UNCHANGED <<translatedIngresses, domainsInUse, evicted>>

(* One unit of time for the items that have an expiration.                 *)
Tick ==
    /\ \E k \in DOMAIN clusters : clusters[k].ttl > 0
    /\ clusters' = [k \in DOMAIN clusters |->
                      IF clusters[k].ttl > 0
                      THEN [object |-> clusters[k].object,
                            ttl |-> clusters[k].ttl - 1]
                      ELSE clusters[k]]
    /\ UNCHANGED <<translatedIngresses, domainsInUse, evicted>>

(* The janitor's DeleteExpired removes every expired item under the TTL    *)
(* cache's lock; the callbacks run after the lock is released.             *)
DeleteExpired ==
    /\ \E k \in DOMAIN clusters : Expired(clusters[k])
    /\ clusters' = [k \in Listed |-> clusters[k]]
    /\ evicted' = evicted \cup {k[2] : k \in DOMAIN clusters \ Listed}
    /\ UNCHANGED <<translatedIngresses, domainsInUse>>

(* SetOnEvicted's function, called for one evicted item.                   *)
OnEvicted(i) ==
    /\ i \in evicted
    /\ evicted' = evicted \ {i}
    /\ UNCHANGED <<translatedIngresses, clusters, domainsInUse>>

-----------------------------------------------------------------------------

Init == NewCaches

UpdateIngress(i) ==
    \E t \in Translation : UpdateIngressAccepted(i, t) \/ UpdateIngressConflict(i, t)

Next ==
    \/ \E i \in Ingress : UpdateIngress(i) \/ DeleteIngressInfo(i) \/ OnEvicted(i)
    \/ Tick
    \/ DeleteExpired

(* Time passes and the janitor runs once a minute, whatever the callers do. *)
Fairness == WF_cachesVars(Tick) /\ WF_cachesVars(DeleteExpired)

Spec == Init /\ [][Next]_cachesVars

FairSpec == Spec /\ Fairness

-----------------------------------------------------------------------------
(***************************************************************************)
(* Properties.                                                             *)
(***************************************************************************)

(* The three structures hold what their Go types allow.                    *)
TypeOK ==
    /\ DOMAIN translatedIngresses \subseteq Ingress
    /\ translatedIngresses \in [DOMAIN translatedIngresses -> Translation]
    /\ DOMAIN clusters \subseteq Key
    /\ clusters \in [DOMAIN clusters -> Item]
    /\ domainsInUse \in SUBSET Domain
    /\ evicted \in SUBSET Ingress

(* domainsInUse, which is maintained by insertions and deletions spread    *)
(* over addTranslatedIngress and deleteTranslatedIngress, is exactly the   *)
(* set of domains of the cached translations: nothing leaks when an        *)
(* ingress is updated, refused or deleted, and nothing is freed early.     *)
DomainsExact ==
    domainsInUse =
        UNION {translatedIngresses[i].domains : i \in DOMAIN translatedIngresses}

(* No two cached translations share a domain, whatever order of updates,   *)
(* refusals and deletions led here: Envoy rejects a whole route            *)
(* configuration in which two virtual hosts claim one domain.              *)
DomainsExclusive ==
    \A i, j \in DOMAIN translatedIngresses :
        i # j => translatedIngresses[i].domains \cap translatedIngresses[j].domains = {}

(* Every cluster of a cached translation is in the TTL cache with the      *)
(* translation's endpoints and no expiration, and so is the external       *)
(* authorization cluster.  It must survive the sequence "delete, start     *)
(* expiring, add again" in every order with the janitor.                   *)
ClustersPinned ==
    /\ \A i \in DOMAIN translatedIngresses :
          \A c \in DOMAIN translatedIngresses[i].clusters :
              /\ <<c, i>> \in DOMAIN clusters
              /\ clusters[<<c, i>>] =
                    [object |-> translatedIngresses[i].clusters[c],
                     ttl    |-> NoExpiration]
    /\ \A k \in ExtAuthzKeys :
          /\ k \in DOMAIN clusters
          /\ clusters[k] = [object |-> ExtAuthzEndpoints, ttl |-> NoExpiration]

(* Conversely an item without expiration belongs to a cached translation   *)
(* (or is the external authorization cluster): no deleted or replaced      *)
(* cluster can stay in the cache for good.                                 *)
NoClusterLeak ==
    \A k \in DOMAIN clusters :
        \/ clusters[k].ttl # NoExpiration
        \/ k \in ExtAuthzKeys
        \/ /\ k[2] \in DOMAIN translatedIngresses
           /\ k \in KeysOf(k[2], translatedIngresses[k[2]])

(* Every cluster that no translation refers to any more is eventually      *)
(* removed from the TTL cache, unless it is put to use again: expiration   *)
(* and janitor together reclaim it.                                        *)
Owned(k) == k[2] \in DOMAIN translatedIngresses
            /\ k \in KeysOf(k[2], translatedIngresses[k[2]])

OrphansReclaimed ==
    \A k \in Cluster \X Ingress :
        [](k \in DOMAIN clusters => <>(Owned(k) \/ k \notin DOMAIN clusters))

(* Caches implements the domain registry: ingress i owns the domains of    *)
(* its cached translation.                                                 *)
Registry == INSTANCE DomainRegistry WITH
    owned <- [i \in Ingress |->
                IF i \in DOMAIN translatedIngresses
                THEN translatedIngresses[i].domains
                ELSE {}]

RegistrySpec == Registry!Spec

=============================================================================
