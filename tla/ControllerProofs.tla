--------------------------- MODULE ControllerProofs ---------------------------
(***************************************************************************)
(* Machine-checked proofs about Controller, for every set of ingresses,    *)
(* domains, services and workers, every assignment of backends and every   *)
(* number of events.                                                       *)
(***************************************************************************)
EXTENDS Controller, CachesProofs

(* What is known of worker w.  While it reconciles an object, the object   *)
(* stays, because its finalizer has been set and no other worker has its   *)
(* key; nobody else writes its status; and the spec is the one that was    *)
(* read as long as the generation is.                                      *)
ReadInv(w) ==
    LET i == worker[w].key
        o == worker[w].object
    IN  o # Nil => /\ i \in Ingress
                   /\ Exists(i)
                   /\ objects[i].finalizer
                   /\ objects[i].status = o.status
                   /\ o.generation <= objects[i].generation
                   /\ o.generation = objects[i].generation => o.domains = objects[i].domains

StepInv(w) ==
    /\ worker[w].pc = "idle" => worker[w] = Idle
    /\ worker[w].pc # "idle" => worker[w].key \in Ingress
    /\ worker[w].pc \in {"translate", "update"} => worker[w].object # Nil
    /\ worker[w].pc = "update" => worker[w].translation \in Translation
    /\ worker[w].pc = "push" => /\ worker[w].snapshot \in Snapshot
                                /\ WellFormed(worker[w].snapshot)

WorkersInv == \A w \in Worker : StepInv(w) /\ ReadInv(w)

(* No key is in the hands of two workers. *)
KeysExclusive ==
    \A v, w \in Worker : v # w /\ worker[v].key \in Ingress => worker[v].key # worker[w].key

(* A status is never ahead of the spec, and Ready implies                  *)
(* NetworkConfigured.                                                      *)
StatusInv ==
    \A i \in Ingress :
        Exists(i) => /\ objects[i].status.observed <= objects[i].generation
                     /\ objects[i].status.ready => objects[i].status.network

(* The caches are those of Caches while the process is up; a process that  *)
(* died while starting does nothing.                                       *)
PhaseInv ==
    /\ phase = "up" => CachesInv
    /\ phase = "fatal" => /\ DOMAIN translatedIngresses = {}
                          /\ DOMAIN clusters = {}
                          /\ evicted = {}
                          /\ \A w \in Worker : worker[w] = Idle

(* The inductive invariant of the controller. *)
ControllerInv ==
    /\ ControllerTypeOK
    /\ WorkersInv
    /\ KeysExclusive
    /\ StatusInv
    /\ PhaseInv
    /\ ServedWellFormed

-----------------------------------------------------------------------------

(* The caches hold the latest form of ingress i.                           *)
Fresh(i) ==
    /\ i \in DOMAIN translatedIngresses
    /\ translatedIngresses[i] = Translate(i, objects[i].domains)

(* What worker w, which has ingress i in hand, knows of it is up to date.  *)
UpToDate(i, w) ==
    LET p == worker[w]
    IN  /\ p.object = Nil => ~Exists(i)
        /\ p.object # Nil => p.object.domains = objects[i].domains
        /\ p.pc = "update" /\ i \in tracked => p.translation = Translate(i, p.object.domains)
        /\ /\ p.pc \in {"snapshot", "push", "finish"} /\ p.outcome = "ok"
           /\ p.object # Nil /\ i \in tracked /\ services[Backend[i]] # Nil
           => Fresh(i)

(* Ingress i need not be queued: it is gone from the caches, up to date in *)
(* them, or in the hands of a worker that is up to date.                   *)
Handled(i) ==
    /\ ~Exists(i) => i \notin DOMAIN translatedIngresses
    /\ phase = "up" /\ Current(i) /\ (\A w \in Worker : worker[w].key # i) => Fresh(i)
    /\ \A w \in Worker : worker[w].key = i => UpToDate(i, w)

(* No change is lost: an ingress that is not queued needs no work. *)
FreshInv == \A i \in Ingress \ queue : Handled(i)

-----------------------------------------------------------------------------

(* The virtual hosts of the caches. *)
CachedRoutes == [i \in DOMAIN translatedIngresses |-> RouteOf(translatedIngresses[i])]

(* Envoy is served ingress i as the caches have it. *)
ServedAsCached(i) ==
    /\ i \in DOMAIN served.routes <=> i \in DOMAIN translatedIngresses
    /\ i \in DOMAIN served.routes => served.routes[i] = RouteOf(translatedIngresses[i])

InConflictNow(i) == Exists(i) /\ objects[i].status.lb = "Conflict"

(* Nothing has to be done for Envoy to see ingress i as the caches have    *)
(* it: it does, a worker has the ingress in hand, or it is in conflict.    *)
InSync(i) ==
    \/ \E w \in Worker : worker[w].key = i
    \/ InConflictNow(i)
    \/ ServedAsCached(i)

(* A snapshot about to be set is that of the caches; a reconciliation that *)
(* went well has made Envoy see its ingress; a deletion does not get far   *)
(* without.                                                                *)
SnapshotCurrent(w) ==
    LET p == worker[w]
    IN  /\ p.pc = "push" => p.snapshot.routes = CachedRoutes
        /\ p.pc = "finish" /\ p.outcome = "ok" => ServedAsCached(p.key)
        /\ p.object = Nil => p.outcome = "ok"

(* Envoy's view of the ingresses only differs from the caches where work   *)
(* is queued, being done, or blocked by a conflict.  With two workers this *)
(* fails: they may set their snapshots in the wrong order.                 *)
SyncInv ==
    phase = "up" => /\ \A i \in Ingress \ queue : InSync(i)
                    /\ \A w \in Worker : SnapshotCurrent(w)

-----------------------------------------------------------------------------
(* Snapshots. *)

(* Every snapshot the caches can give is one Envoy accepts. *)
SnapshotsOK == \A s \in ToEnvoySnapshot : s \in Snapshot /\ WellFormed(s)

(* A cluster of a cached translation is listed: it never expires. *)
LEMMA PinnedListed ==
  ASSUME CachesInv, NEW i \in DOMAIN translatedIngresses,
         NEW c \in DOMAIN translatedIngresses[i].clusters
  PROVE  c \in {k[1] : k \in Listed}
  <1>1. /\ <<c, i>> \in DOMAIN clusters
        /\ clusters[<<c, i>>] = [object |-> translatedIngresses[i].clusters[c],
                                 ttl |-> NoExpiration]
    BY DEF CachesInv, ClustersPinned
  <1>2. <<c, i>> \in Listed
    BY <1>1 DEF Listed, Expired, NoExpiration
  <1> QED
    BY <1>2

(* A snapshot of consistent caches has every cluster its routes refer to,  *)
(* because the clusters of a cached translation never expire, and no       *)
(* domain twice.                                                           *)
LEMMA SnapshotsAccepted == CachesInv => SnapshotsOK
  <1> SUFFICES ASSUME CachesInv, NEW s \in ToEnvoySnapshot
               PROVE  s \in Snapshot /\ WellFormed(s)
    BY DEF SnapshotsOK
  <1> DEFINE ti == translatedIngresses
             names == {k[1] : k \in Listed}
             routes == [i \in DOMAIN ti |-> RouteOf(ti[i])]
  <1>1. PICK contents \in [names -> Endpoints] :
           s = [routes |-> routes, clusters |-> contents]
    BY DEF ToEnvoySnapshot
  <1>2. s.routes = routes /\ DOMAIN s.clusters = names /\ s.clusters = contents
    BY <1>1
  <1>3. /\ DOMAIN ti \subseteq Ingress
        /\ \A i \in DOMAIN ti : /\ ti[i].domains \in SUBSET Domain
                                /\ DOMAIN ti[i].clusters \in SUBSET Cluster
    BY DEF CachesInv, TypeOK, Translation
  <1>4. routes \in [DOMAIN ti -> Route]
    BY <1>3 DEF RouteOf, Route
  <1>5. names \in SUBSET (Cluster \cup {ExtAuthzCluster})
    BY DEF CachesInv, TypeOK, Key, ExtAuthzKeys, Listed
  <1>6. s \in Snapshot
    <2>1. routes \in UNION {[I -> Route] : I \in SUBSET Ingress}
      BY <1>3, <1>4
    <2>2. contents \in UNION {[C -> Endpoints] : C \in SUBSET (Cluster \cup {ExtAuthzCluster})}
      BY <1>1, <1>5
    <2> HIDE DEF routes, names
    <2> QED
      BY <1>1, <2>1, <2>2 DEF Snapshot
  <1>7. ASSUME NEW i \in DOMAIN ti, NEW c \in DOMAIN ti[i].clusters
        PROVE  c \in names
    BY PinnedListed
  <1>8. WellFormed(s)
    <2>1. \A i, j \in DOMAIN ti : i # j => ti[i].domains \cap ti[j].domains = {}
      BY DEF CachesInv, DomainsExclusive
    <2>2. /\ DOMAIN routes = DOMAIN ti
          /\ \A i \in DOMAIN ti : /\ routes[i].domains = ti[i].domains
                                  /\ routes[i].clusters = DOMAIN ti[i].clusters
      BY DEF RouteOf
    <2> HIDE DEF routes, names
    <2> QED
      BY <1>2, <1>7, <2>1, <2>2 DEF WellFormed
  <1> QED
    BY <1>6, <1>8

RoutesOK == \A s \in ToEnvoySnapshot : s.routes = CachedRoutes

(* The routes of a snapshot are those of the caches. *)
LEMMA SnapshotRoutes == RoutesOK
  <1> SUFFICES ASSUME NEW s \in ToEnvoySnapshot PROVE s.routes = CachedRoutes
    BY DEF RoutesOK
  <1>1. PICK contents : s = [routes |-> CachedRoutes, clusters |-> contents]
    BY DEF ToEnvoySnapshot, CachedRoutes
  <1> QED
    BY <1>1

-----------------------------------------------------------------------------
(* The initial state. *)

LEMMA ControllerInitInv == ControllerInit => ControllerInv
  <1> SUFFICES ASSUME ControllerInit PROVE ControllerInv
    OBVIOUS
  <1> USE CachesAssumption, ControllerAssumption, NilAssumption
  <1>1. CachesInv
    BY InitInv DEF ControllerInit, Init
  <1>2. served \in Snapshot /\ WellFormed(served)
    BY <1>1, SnapshotsAccepted DEF SnapshotsOK, ControllerInit
  <1>3. Idle \in WorkerState
    BY DEF Idle, WorkerState
  <1>4. \A w \in Worker : worker[w] = Idle
    BY DEF ControllerInit
  <1>5. /\ Idle.pc = "idle" /\ Idle.key = Nil /\ Idle.object = Nil
    BY DEF Idle
  <1>6. ControllerTypeOK
    <2>1. TypeOK
      BY <1>1 DEF CachesInv
    <2>2. worker \in [Worker -> WorkerState]
      BY <1>3 DEF ControllerInit
    <2>3. services \in [Cluster -> Endpoints \cup {Nil}]
      <3>1. (CHOOSE e \in Endpoints : TRUE) \in Endpoints
        OBVIOUS
      <3> QED
        BY <3>1 DEF ControllerInit
    <2>4. budget \in [EventKinds -> Nat]
      BY DEF ControllerInit
    <2> QED
      BY <1>2, <2>1, <2>2, <2>3, <2>4 DEF ControllerTypeOK, ControllerInit
  <1>7. WorkersInv
    BY <1>4, <1>5 DEF WorkersInv, StepInv, ReadInv
  <1>8. KeysExclusive
    BY <1>4, <1>5 DEF KeysExclusive
  <1>9. StatusInv
    BY DEF StatusInv, Exists, ControllerInit
  <1>10. PhaseInv
    BY <1>1 DEF PhaseInv, ControllerInit
  <1> QED
    BY <1>2, <1>6, <1>7, <1>8, <1>9, <1>10 DEF ControllerInv, ServedWellFormed

-----------------------------------------------------------------------------
(* What the steps have in common. *)

(* A worker that is not idle belongs to a process that is up. *)
LEMMA BusyIsUp ==
  ASSUME ControllerInv, NEW w \in Worker, worker[w].pc # "idle"
  PROVE  /\ phase = "up" /\ CachesInv
         /\ worker[w].key \in Ingress
         /\ worker[w] \in WorkerState
         /\ StepInv(w) /\ ReadInv(w)
  <1>1. worker[w] # Idle
    BY DEF Idle
  <1>2. phase \in {"up", "fatal"} /\ worker[w] \in WorkerState
    BY DEF ControllerInv, ControllerTypeOK
  <1>3. phase = "up" /\ CachesInv
    BY <1>1, <1>2 DEF ControllerInv, PhaseInv
  <1> QED
    BY <1>2, <1>3 DEF ControllerInv, WorkersInv, StepInv

(* Idle workers have no key, no object. *)
LEMMA IdleFields ==
  /\ Idle \in WorkerState
  /\ Idle.pc = "idle" /\ Idle.key = Nil /\ Idle.object = Nil
  BY DEF Idle, WorkerState

(* A step that changes neither the workers nor the objects. *)
LEMMA WorkersStay ==
  ASSUME ControllerInv, UNCHANGED <<worker, objects>>
  PROVE  WorkersInv' /\ KeysExclusive' /\ StatusInv'
  <1>1. WorkersInv /\ KeysExclusive /\ StatusInv
    BY DEF ControllerInv
  <1> QED
    BY <1>1 DEF WorkersInv, StepInv, ReadInv, KeysExclusive, StatusInv, Exists, WellFormed

(* A worker that goes on with the same object. *)
LEMMA WorkerGoesOn ==
  ASSUME ControllerInv, NEW w \in Worker, UNCHANGED objects,
         \A v \in Worker \ {w} : worker'[v] = worker[v],
         worker'[w].key = worker[w].key,
         worker'[w].object = worker[w].object,
         StepInv(w)'
  PROVE  WorkersInv' /\ KeysExclusive' /\ StatusInv'
  <1>1. WorkersInv /\ KeysExclusive /\ StatusInv
    BY DEF ControllerInv
  <1>2. StatusInv'
    BY <1>1 DEF StatusInv, Exists
  <1>3. KeysExclusive'
    BY <1>1 DEF KeysExclusive
  <1>4. ASSUME NEW v \in Worker PROVE StepInv(v)' /\ ReadInv(v)'
    <2>1. CASE v = w
      BY <1>1, <2>1 DEF WorkersInv, ReadInv, Exists
    <2>2. CASE v # w
      BY <1>1, <2>2 DEF WorkersInv, StepInv, ReadInv, Exists, WellFormed
    <2> QED
      BY <2>1, <2>2
  <1> QED
    BY <1>2, <1>3, <1>4 DEF WorkersInv

(* A worker that is done.  It may have written the status of its object.   *)
LEMMA WorkerEnds ==
  ASSUME ControllerInv, NEW w \in Worker, worker' = [worker EXCEPT ![w] = Idle],
         \/ UNCHANGED objects
         \/ /\ worker[w].object # Nil
            /\ \E st \in Status :
                  /\ st.observed = worker[w].object.generation
                  /\ st.ready => st.network
                  /\ objects' = [objects EXCEPT ![worker[w].key].status = st]
  PROVE  /\ WorkersInv' /\ KeysExclusive' /\ StatusInv'
         /\ worker' \in [Worker -> WorkerState]
         /\ objects' \in [Ingress -> Object \cup {Nil}]
  <1> USE NilAssumption
  <1>1. /\ WorkersInv /\ KeysExclusive /\ StatusInv
        /\ worker \in [Worker -> WorkerState]
        /\ objects \in [Ingress -> Object \cup {Nil}]
    BY DEF ControllerInv, ControllerTypeOK
  <1>2. /\ worker'[w] = Idle
        /\ \A v \in Worker \ {w} : worker'[v] = worker[v]
        /\ worker' \in [Worker -> WorkerState]
    BY <1>1, IdleFields
  <1>3. KeysExclusive'
    BY <1>1, <1>2, IdleFields DEF KeysExclusive
  <1>4. ASSUME NEW v \in Worker PROVE StepInv(v)'
    BY <1>1, <1>2, IdleFields DEF WorkersInv, StepInv, WellFormed
  <1>5. CASE UNCHANGED objects
    <2>1. ASSUME NEW v \in Worker PROVE ReadInv(v)'
      BY <1>1, <1>2, <1>5, IdleFields DEF WorkersInv, ReadInv, Exists
    <2>2. StatusInv'
      BY <1>1, <1>5 DEF StatusInv, Exists
    <2> QED
      BY <1>1, <1>2, <1>3, <1>4, <1>5, <2>1, <2>2 DEF WorkersInv
  <1>6. ASSUME worker[w].object # Nil,
               NEW st \in Status,
               st.observed = worker[w].object.generation,
               st.ready => st.network,
               objects' = [objects EXCEPT ![worker[w].key].status = st]
        PROVE  /\ \A v \in Worker : ReadInv(v)'
               /\ StatusInv'
               /\ objects' \in [Ingress -> Object \cup {Nil}]
    <2> DEFINE i == worker[w].key
    <2>1. /\ i \in Ingress /\ objects[i] # Nil
          /\ worker[w].object.generation <= objects[i].generation
      BY <1>1, <1>6 DEF WorkersInv, ReadInv, Exists
    <2>2. objects[i] \in Object
      BY <1>1, <2>1
    <2>3. /\ objects'[i] = [objects[i] EXCEPT !.status = st]
          /\ \A j \in Ingress \ {i} : objects'[j] = objects[j]
      BY <1>1, <1>6, <2>1
    <2>4. objects'[i] \in Object /\ objects'[i].status = st
          /\ objects'[i].generation = objects[i].generation
      BY <2>2, <2>3 DEF Object
    <2>5. objects' \in [Ingress -> Object \cup {Nil}]
      BY <1>1, <1>6, <2>3, <2>4
    <2>6. StatusInv'
      <3> SUFFICES ASSUME NEW j \in Ingress, objects'[j] # Nil
                   PROVE  /\ objects'[j].status.observed <= objects'[j].generation
                          /\ objects'[j].status.ready => objects'[j].status.network
        BY DEF StatusInv, Exists
      <3>1. CASE j = i
        BY <1>6, <2>1, <2>4, <3>1
      <3>2. CASE j # i
        BY <1>1, <2>3, <3>2 DEF StatusInv, Exists
      <3> QED
        BY <3>1, <3>2
    <2>7. ASSUME NEW v \in Worker PROVE ReadInv(v)'
      <3>1. CASE v = w
        BY <1>2, <3>1, IdleFields DEF ReadInv
      <3>2. CASE v # w
        <4>1. worker'[v] = worker[v] /\ ReadInv(v)
          BY <1>1, <1>2, <3>2 DEF WorkersInv
        <4>2. worker[v].key \in Ingress => worker[v].key # i
          BY <1>1, <2>1, <3>2 DEF KeysExclusive
        <4> HIDE DEF i
        <4> QED
          BY <2>3, <4>1, <4>2 DEF ReadInv, Exists
      <3> QED
        BY <3>1, <3>2
    <2> QED
      BY <2>5, <2>6, <2>7
  <1> QED
    BY <1>2, <1>3, <1>4, <1>5, <1>6 DEF WorkersInv

(* Nothing happens to the caches. *)
LEMMA CachesStay ==
  ASSUME CachesInv, UNCHANGED cachesVars
  PROVE  CachesInv'
  BY NextInv

LEMMA PhaseStays ==
  ASSUME ControllerInv, UNCHANGED <<cachesVars, worker, phase>>
  PROVE  PhaseInv' /\ TypeOK'
  <1>1. PhaseInv /\ TypeOK
    BY DEF ControllerInv, ControllerTypeOK
  <1>2. TypeOK'
    BY <1>1 DEF TypeOK, cachesVars
  <1>3. CachesInv => CachesInv'
    BY CachesStay
  <1> QED
    BY <1>1, <1>2, <1>3 DEF PhaseInv, cachesVars

(* Spending leaves a budget. *)
LEMMA SpendType ==
  ASSUME budget \in [EventKinds -> Nat], NEW e \in EventKinds, Spend(e)
  PROVE  budget' \in [EventKinds -> Nat]
  <1>1. budget[e] \in Nat /\ budget[e] > 0 /\ budget[e] - 1 \in Nat
    BY DEF Spend
  <1> QED
    BY <1>1 DEF Spend

-----------------------------------------------------------------------------
(* Events that leave objects and workers alone. *)

(* Services, the gateway and resyncs. *)
LEMMA SurroundingsPreserve ==
  ASSUME ControllerInv,
         \/ \E s \in Cluster, e \in Endpoints : ScaleService(s, e)
         \/ \E s \in Cluster : LoseService(s)
         \/ ToggleGateway
         \/ DeleteGatewayPod
         \/ GlobalResync
  PROVE  ControllerInv'
  <1> USE NilAssumption
  <1>1. ControllerTypeOK /\ ServedWellFormed
    BY DEF ControllerInv
  <1>2. UNCHANGED <<cachesVars, worker, objects, tracked, forgets, served, phase>>
    BY DEF ScaleService, LoseService, ToggleGateway, DeleteGatewayPod, GlobalResync,
           ctlVars, apiVars, tracker
  <1>3. WorkersInv' /\ KeysExclusive' /\ StatusInv' /\ PhaseInv' /\ TypeOK'
    BY <1>2, WorkersStay, PhaseStays
  <1>4. ServedWellFormed'
    BY <1>1, <1>2 DEF ServedWellFormed, WellFormed
  <1>5. budget' \in [EventKinds -> Nat]
    <2>1. {"scale", "lose", "gateway", "pod", "resync"} \subseteq EventKinds
      BY DEF EventKinds
    <2>2. \E e \in EventKinds : Spend(e)
      BY <2>1 DEF ScaleService, LoseService, ToggleGateway, DeleteGatewayPod, GlobalResync
    <2> QED
      BY <1>1, <2>2, SpendType DEF ControllerTypeOK
  <1>6. services' \in [Cluster -> Endpoints \cup {Nil}]
    BY <1>1 DEF ControllerTypeOK, ScaleService, LoseService, ToggleGateway, DeleteGatewayPod,
                GlobalResync, apiVars
  <1>7. gateway' \in BOOLEAN
    BY <1>1 DEF ControllerTypeOK, ScaleService, LoseService, ToggleGateway, DeleteGatewayPod,
                GlobalResync, apiVars
  <1>8. queue' \in SUBSET Ingress
    BY <1>1 DEF ControllerTypeOK, ScaleService, LoseService, ToggleGateway, DeleteGatewayPod,
                GlobalResync, ctlVars, Trackers, Pending
  <1>9. probes' \in [Ingress -> Probe \cup {Nil}]
    <2>1. CASE DeleteGatewayPod
      <3>1. ASSUME NEW i \in Ingress, i \in Pending
            PROVE  [probes[i] EXCEPT !.done = TRUE] \in Probe
        <4>1. probes[i] \in Probe
          BY <1>1, <3>1 DEF Pending, ControllerTypeOK
        <4> QED
          BY <4>1 DEF Probe
      <3> QED
        BY <1>1, <2>1, <3>1 DEF DeleteGatewayPod, ControllerTypeOK
    <2>2. CASE UNCHANGED probes
      BY <1>1, <2>2 DEF ControllerTypeOK
    <2> QED
      BY <2>1, <2>2 DEF ScaleService, LoseService, ToggleGateway, GlobalResync, ctlVars
  <1> QED
    BY <1>1, <1>2, <1>3, <1>4, <1>5, <1>6, <1>7, <1>8, <1>9
       DEF ControllerInv, ControllerTypeOK

(* The prober, the janitor, the clock and the tracker's observer. *)
LEMMA BackgroundPreserves ==
  ASSUME ControllerInv, Background
  PROVE  ControllerInv'
  <1>1. ControllerTypeOK /\ ServedWellFormed
    BY DEF ControllerInv
  <1>2. UNCHANGED <<worker, apiVars, served, phase, budget>>
    BY DEF Background, ProbeSucceeds, EvictionCallback, OnDeletedObserver, ClockTick,
           Janitor, ctlVars
  <1>3. WorkersInv' /\ KeysExclusive' /\ StatusInv'
    BY <1>2, WorkersStay DEF apiVars
  <1>4. ServedWellFormed'
    BY <1>1, <1>2 DEF ServedWellFormed, WellFormed
  <1>5. PhaseInv' /\ TypeOK'
    <2>1. CASE UNCHANGED cachesVars
      BY <1>2, <2>1, PhaseStays
    <2>2. ASSUME Tick \/ DeleteExpired \/ \E i \in Ingress : OnEvicted(i)
          PROVE  PhaseInv' /\ TypeOK'
      <3>1. phase = "up" /\ CachesInv
        <4>1. DOMAIN clusters # {} \/ evicted # {}
          BY <2>2 DEF Tick, DeleteExpired, OnEvicted
        <4> QED
          BY <1>1, <4>1 DEF ControllerInv, ControllerTypeOK, PhaseInv
      <3>2. CachesInv'
        BY <2>2, <3>1, NextInv DEF Next
      <3> QED
        BY <1>2, <3>1, <3>2 DEF PhaseInv, CachesInv
    <2> QED
      BY <2>1, <2>2 DEF Background, ProbeSucceeds, EvictionCallback, OnDeletedObserver,
                        ClockTick, Janitor
  <1>6. queue' \in SUBSET Ingress /\ tracked' \in SUBSET Ingress /\ forgets' \in SUBSET Ingress
    BY <1>1 DEF Background, ProbeSucceeds, EvictionCallback, OnDeletedObserver, ClockTick,
                Janitor, ctlVars, tracker, ControllerTypeOK
  <1>7. probes' \in [Ingress -> Probe \cup {Nil}]
    <2>1. ASSUME NEW i \in Ingress, ProbeSucceeds(i)
          PROVE  probes' \in [Ingress -> Probe \cup {Nil}]
      <3>1. probes[i] \in Probe
        BY <1>1, <2>1 DEF ProbeSucceeds, Pending, ControllerTypeOK
      <3>2. [probes[i] EXCEPT !.done = TRUE] \in Probe
        BY <3>1 DEF Probe
      <3> QED
        BY <1>1, <2>1, <3>2 DEF ProbeSucceeds, ControllerTypeOK
    <2>2. CASE UNCHANGED probes
      BY <1>1, <2>2 DEF ControllerTypeOK
    <2> QED
      BY <2>1, <2>2 DEF Background, EvictionCallback, OnDeletedObserver, ClockTick,
                        Janitor, ctlVars
  <1> QED
    BY <1>1, <1>2, <1>3, <1>4, <1>5, <1>6, <1>7
       DEF ControllerInv, ControllerTypeOK, apiVars

-----------------------------------------------------------------------------
(* Users. *)

(* What a user may do to an object in the hands of a worker: the object    *)
(* stays, and a new spec comes with a new generation.                      *)
Outlives(i) ==
    Exists(i) /\ objects[i].finalizer =>
        /\ objects'[i] # Nil /\ objects'[i].finalizer
        /\ objects'[i].status = objects[i].status
        /\ \/ /\ objects'[i].generation = objects[i].generation
              /\ objects'[i].domains = objects[i].domains
           \/ objects'[i].generation = objects[i].generation + 1

LEMMA ObjectChanges ==
  ASSUME ControllerInv, UNCHANGED worker, NEW i \in Ingress,
         \A j \in Ingress \ {i} : objects'[j] = objects[j],
         Outlives(i) \/ \A w \in Worker : worker[w].key # i,
         Exists(i)' => /\ objects'[i].status.observed <= objects'[i].generation
                       /\ objects'[i].status.ready => objects'[i].status.network
  PROVE  WorkersInv' /\ KeysExclusive' /\ StatusInv'
  <1>1. /\ WorkersInv /\ KeysExclusive /\ StatusInv
        /\ objects \in [Ingress -> Object \cup {Nil}]
        /\ worker \in [Worker -> WorkerState]
    BY DEF ControllerInv, ControllerTypeOK
  <1>2. StatusInv'
    BY <1>1 DEF StatusInv, Exists
  <1>3. KeysExclusive'
    BY <1>1 DEF KeysExclusive
  <1>4. ASSUME NEW w \in Worker PROVE ReadInv(w)'
    <2> DEFINE k == worker[w].key
               o == worker[w].object
    <2> SUFFICES ASSUME o # Nil
                 PROVE  /\ k \in Ingress /\ objects'[k] # Nil /\ objects'[k].finalizer
                        /\ objects'[k].status = o.status
                        /\ o.generation <= objects'[k].generation
                        /\ o.generation = objects'[k].generation => o.domains = objects'[k].domains
      BY DEF ReadInv, Exists
    <2>1. /\ k \in Ingress /\ Exists(k) /\ objects[k].finalizer
          /\ objects[k].status = o.status
          /\ o.generation <= objects[k].generation
          /\ o.generation = objects[k].generation => o.domains = objects[k].domains
      BY <1>1 DEF WorkersInv, ReadInv
    <2>2. objects[k] \in Object /\ o \in Object
      BY <1>1, <2>1 DEF Exists, WorkerState
    <2>3. objects[k].generation \in Nat /\ o.generation \in Nat
      BY <2>2 DEF Object
    <2>4. k = i => Outlives(i)
      OBVIOUS
    <2> HIDE DEF k, o
    <2>5. CASE k = i
      BY <2>1, <2>3, <2>4, <2>5 DEF Outlives
    <2>6. CASE k # i
      BY <2>1, <2>6 DEF Exists
    <2> QED
      BY <2>5, <2>6
  <1>5. ASSUME NEW w \in Worker PROVE StepInv(w)'
    BY <1>1 DEF WorkersInv, StepInv, WellFormed
  <1> QED
    BY <1>2, <1>3, <1>4, <1>5 DEF WorkersInv

(* Users create, change and delete ingresses. *)
LEMMA UsersPreserve ==
  ASSUME ControllerInv, NEW i \in Ingress, NEW D \in SUBSET Domain,
         CreateIngress(i, D) \/ UpdateSpec(i, D) \/ DeleteIngress(i)
  PROVE  ControllerInv'
  <1> USE NilAssumption
  <1>1. /\ ControllerTypeOK /\ ServedWellFormed /\ StatusInv
        /\ objects \in [Ingress -> Object \cup {Nil}]
    BY DEF ControllerInv, ControllerTypeOK
  <1>2. UNCHANGED <<cachesVars, worker, services, gateway, tracked, probes, served, phase>>
    BY DEF CreateIngress, UpdateSpec, DeleteIngress, tracker
  <1>3. PhaseInv' /\ TypeOK'
    BY <1>2, PhaseStays
  <1>4. ServedWellFormed'
    BY <1>1, <1>2 DEF ServedWellFormed, WellFormed
  <1>5. budget' \in [EventKinds -> Nat]
    <2>1. {"create", "update", "delete"} \subseteq EventKinds
      BY DEF EventKinds
    <2>2. \E e \in EventKinds : Spend(e)
      BY <2>1 DEF CreateIngress, UpdateSpec, DeleteIngress
    <2> QED
      BY <1>1, <2>2, SpendType DEF ControllerTypeOK
  <1>6. queue' \in SUBSET Ingress /\ forgets' \in SUBSET Ingress
    BY <1>1 DEF CreateIngress, UpdateSpec, DeleteIngress, ControllerTypeOK, tracker
  <1>7. \A j \in Ingress \ {i} : objects'[j] = objects[j]
    BY <1>1 DEF CreateIngress, UpdateSpec, DeleteIngress
  <1>8. /\ objects' \in [Ingress -> Object \cup {Nil}]
        /\ Outlives(i)
        /\ Exists(i)' => /\ objects'[i].status.observed <= objects'[i].generation
                         /\ objects'[i].status.ready => objects'[i].status.network
    <2>1. CASE CreateIngress(i, D)
      <3> DEFINE new == [domains |-> D, generation |-> 1, deleting |-> FALSE,
                         finalizer |-> FALSE, status |-> NewStatus]
      <3>1. NewStatus \in Status /\ NewStatus.observed = 0 /\ NewStatus.ready = FALSE
        BY DEF NewStatus, Status, LoadBalancer
      <3>2. new \in Object /\ new.status = NewStatus /\ new.generation = 1
        BY <3>1 DEF Object
      <3>3. objects' = [objects EXCEPT ![i] = new] /\ ~Exists(i)
        BY <2>1 DEF CreateIngress
      <3> HIDE DEF new
      <3>4. objects'[i] = new
        BY <1>1, <3>3
      <3> QED
        BY <1>1, <3>1, <3>2, <3>3, <3>4 DEF Outlives
    <2>2. CASE UpdateSpec(i, D)
      <3>1. objects[i] \in Object /\ Exists(i)
        BY <1>1, <2>2 DEF UpdateSpec, Exists
      <3> DEFINE next == objects[i].generation + 1
      <3>2. objects'[i] = [objects[i] EXCEPT !.domains = D, !.generation = next]
        BY <1>1, <2>2 DEF UpdateSpec
      <3>3. /\ objects[i].generation \in Nat /\ objects[i].status.observed \in Nat
            /\ next \in Nat
        BY <3>1 DEF Object, Status
      <3>4. /\ objects'[i] \in Object
            /\ objects'[i].generation = next
            /\ objects'[i].status = objects[i].status
            /\ objects'[i].finalizer = objects[i].finalizer
        <4> HIDE DEF next
        <4> QED
          BY <3>1, <3>2, <3>3 DEF Object
      <3>5. objects' \in [Ingress -> Object \cup {Nil}]
        <4>1. objects' = [objects EXCEPT ![i] = objects'[i]]
          BY <1>1, <2>2 DEF UpdateSpec
        <4> QED
          BY <1>1, <3>4, <4>1
      <3>6. /\ objects[i].status.observed <= objects[i].generation
            /\ objects[i].status.ready => objects[i].status.network
        BY <1>1, <3>1 DEF StatusInv
      <3>7. objects'[i] # Nil
        BY <3>4
      <3> QED
        BY <3>3, <3>4, <3>5, <3>6, <3>7 DEF Outlives, Exists
    <2>3. CASE DeleteIngress(i)
      <3>1. objects[i] \in Object /\ Exists(i)
        BY <1>1, <2>3 DEF DeleteIngress, Exists
      <3>2. CASE objects[i].finalizer
        <4>1. objects'[i] = [objects[i] EXCEPT !.deleting = TRUE]
          BY <1>1, <2>3, <3>2 DEF DeleteIngress
        <4>2. /\ objects'[i] \in Object
              /\ objects'[i].generation = objects[i].generation
              /\ objects'[i].domains = objects[i].domains
              /\ objects'[i].status = objects[i].status
              /\ objects'[i].finalizer = objects[i].finalizer
          BY <3>1, <4>1 DEF Object
        <4>3. objects' = [objects EXCEPT ![i] = objects'[i]]
          BY <1>1, <2>3, <3>2 DEF DeleteIngress
        <4>4. objects' \in [Ingress -> Object \cup {Nil}]
          BY <1>1, <4>2, <4>3
        <4>5. objects'[i] # Nil
          BY <4>2
        <4> QED
          BY <1>1, <3>1, <3>2, <4>2, <4>4, <4>5 DEF StatusInv, Outlives, Exists
      <3>3. CASE ~objects[i].finalizer
        <4>1. objects' = [objects EXCEPT ![i] = Nil]
          BY <2>3, <3>3 DEF DeleteIngress
        <4> QED
          BY <1>1, <3>3, <4>1 DEF Outlives, Exists
      <3> QED
        BY <3>2, <3>3
    <2> QED
      BY <2>1, <2>2, <2>3
  <1>9. WorkersInv' /\ KeysExclusive' /\ StatusInv'
    BY <1>2, <1>7, <1>8, ObjectChanges
  <1> QED
    BY <1>1, <1>2, <1>3, <1>4, <1>5, <1>6, <1>8, <1>9 DEF ControllerInv, ControllerTypeOK

-----------------------------------------------------------------------------
(* The steps of a worker. *)

(* A worker takes the key of an object: it is the only one to have it.     *)
LEMMA StartReconcilePreserves ==
  ASSUME ControllerInv, NEW w \in Worker, NEW i \in Ingress, StartReconcile(w, i)
  PROVE  ControllerInv'
  <1> USE NilAssumption
  <1>1. /\ ControllerTypeOK /\ ServedWellFormed /\ StatusInv /\ KeysExclusive /\ WorkersInv
        /\ PhaseInv
        /\ objects \in [Ingress -> Object \cup {Nil}]
        /\ worker \in [Worker -> WorkerState]
    BY DEF ControllerInv, ControllerTypeOK
  <1>2. UNCHANGED <<cachesVars, services, gateway, tracked, forgets, probes, served, phase, budget>>
    BY DEF StartReconcile, tracker
  <1>3. /\ phase = "up" /\ worker[w] = Idle /\ i \in queue
        /\ \A v \in Worker : worker[v].key # i
    BY DEF StartReconcile, Takes
  <1>4. objects[i] \in Object /\ objects[i] # Nil
    BY <1>1 DEF StartReconcile, Exists
  <1> DEFINE p == [Idle EXCEPT !.pc = "translate", !.key = i, !.object = objects[i]]
             new == [objects[i] EXCEPT !.finalizer = TRUE]
  <1>5. /\ p \in WorkerState
        /\ p.pc = "translate" /\ p.key = i /\ p.object = objects[i]
    BY <1>4, IdleFields DEF WorkerState
  <1>6. /\ new \in Object /\ new.finalizer
        /\ new.status = objects[i].status /\ new.generation = objects[i].generation
        /\ new.domains = objects[i].domains
    BY <1>4 DEF Object
  <1>7. worker' = [worker EXCEPT ![w] = p]
    BY <1>1, <1>3 DEF StartReconcile
  <1>8. objects' = [objects EXCEPT ![i] = new]
    BY <1>1 DEF StartReconcile
  <1> HIDE DEF p, new
  <1>9. /\ worker'[w] = p
        /\ \A v \in Worker \ {w} : worker'[v] = worker[v]
        /\ worker' \in [Worker -> WorkerState]
    BY <1>1, <1>5, <1>7
  <1>10. /\ objects'[i] = new
         /\ \A j \in Ingress \ {i} : objects'[j] = objects[j]
         /\ objects' \in [Ingress -> Object \cup {Nil}]
    BY <1>1, <1>6, <1>8
  <1>11. ControllerTypeOK'
    <2>1. TypeOK'
      BY <1>1, <1>2 DEF ControllerTypeOK, TypeOK, cachesVars
    <2>2. queue' \in SUBSET Ingress
      BY <1>1 DEF StartReconcile, ControllerTypeOK
    <2> QED
      BY <1>1, <1>2, <1>9, <1>10, <2>1, <2>2 DEF ControllerTypeOK
  <1>12. StatusInv'
    BY <1>1, <1>4, <1>6, <1>10 DEF StatusInv, Exists
  <1>13. KeysExclusive'
    BY <1>1, <1>3, <1>5, <1>9 DEF KeysExclusive
  <1>14. ASSUME NEW v \in Worker PROVE StepInv(v)' /\ ReadInv(v)'
    <2>1. CASE v = w
      <3>1. StepInv(w)'
        BY <1>4, <1>5, <1>9 DEF StepInv
      <3>2. objects[i].generation \in Nat
        BY <1>4 DEF Object
      <3>3. objects'[i] # Nil
        BY <1>6, <1>10
      <3>4. ReadInv(w)'
        BY <1>5, <1>6, <1>9, <1>10, <3>2, <3>3 DEF ReadInv, Exists
      <3> QED
        BY <2>1, <3>1, <3>4
    <2>2. CASE v # w
      <3>1. worker'[v] = worker[v] /\ worker[v].key # i /\ StepInv(v) /\ ReadInv(v)
        BY <1>1, <1>3, <1>9, <2>2 DEF WorkersInv
      <3>2. StepInv(v)'
        BY <3>1 DEF StepInv, WellFormed
      <3>3. ReadInv(v)'
        BY <1>10, <3>1 DEF ReadInv, Exists
      <3> QED
        BY <3>2, <3>3
    <2> QED
      BY <2>1, <2>2
  <1>15. PhaseInv'
    <2>1. CachesInv /\ phase' = "up"
      BY <1>1, <1>2, <1>3 DEF PhaseInv
    <2>2. CachesInv'
      BY <1>2, <2>1, CachesStay
    <2> QED
      BY <2>1, <2>2 DEF PhaseInv
  <1>16. ServedWellFormed'
    BY <1>1, <1>2 DEF ServedWellFormed, WellFormed
  <1> QED
    BY <1>11, <1>12, <1>13, <1>14, <1>15, <1>16 DEF ControllerInv, WorkersInv

(* The finalizer of an object no worker has in hand is cleared. *)
LEMMA FinalizePreserves ==
  ASSUME ControllerInv, NEW w \in Worker, NEW i \in Ingress, Finalize(w, i)
  PROVE  ControllerInv'
  <1>1. /\ ControllerTypeOK /\ ServedWellFormed
        /\ objects \in [Ingress -> Object \cup {Nil}]
    BY DEF ControllerInv, ControllerTypeOK
  <1>2. UNCHANGED <<cachesVars, services, gateway, queue, worker, tracked, probes, served,
                    phase, budget>>
    BY DEF Finalize
  <1>3. /\ objects' \in [Ingress -> Object \cup {Nil}]
        /\ objects'[i] = Nil
        /\ \A j \in Ingress \ {i} : objects'[j] = objects[j]
    BY <1>1 DEF Finalize
  <1>4. \A v \in Worker : worker[v].key # i
    BY DEF Finalize, Takes
  <1>5. WorkersInv' /\ KeysExclusive' /\ StatusInv'
    <2>1. ~Exists(i)'
      BY <1>3 DEF Exists
    <2> QED
      BY <1>2, <1>3, <1>4, <2>1, ObjectChanges
  <1>6. PhaseInv' /\ TypeOK'
    BY <1>2, PhaseStays
  <1>7. ServedWellFormed'
    BY <1>1, <1>2 DEF ServedWellFormed, WellFormed
  <1>8. forgets' \in SUBSET Ingress
    BY <1>1 DEF Finalize, ControllerTypeOK
  <1> QED
    BY <1>1, <1>2, <1>3, <1>5, <1>6, <1>7, <1>8 DEF ControllerInv, ControllerTypeOK

(* A worker takes the key of an object that is gone. *)
LEMMA ObserveDeletionPreserves ==
  ASSUME ControllerInv, NEW w \in Worker, NEW i \in Ingress, ObserveDeletion(w, i)
  PROVE  ControllerInv'
  <1>1. /\ ControllerTypeOK /\ ServedWellFormed /\ StatusInv /\ KeysExclusive /\ WorkersInv
        /\ PhaseInv
        /\ worker \in [Worker -> WorkerState]
    BY DEF ControllerInv, ControllerTypeOK
  <1>2. UNCHANGED <<apiVars, tracked, forgets, served, phase, budget>>
    BY DEF ObserveDeletion, tracker
  <1>3. /\ phase = "up" /\ worker[w] = Idle
        /\ \A v \in Worker : worker[v].key # i
    BY DEF ObserveDeletion, Takes
  <1>4. CachesInv'
    BY <1>1, <1>3, DeletePreserves DEF ObserveDeletion, PhaseInv
  <1> DEFINE p == [Idle EXCEPT !.pc = "snapshot", !.key = i]
  <1>5. /\ p \in WorkerState
        /\ p.pc = "snapshot" /\ p.key = i /\ p.object = Nil
    BY IdleFields DEF WorkerState
  <1>6. worker' = [worker EXCEPT ![w] = p]
    BY <1>1, <1>3 DEF ObserveDeletion
  <1> HIDE DEF p
  <1>7. /\ worker'[w] = p
        /\ \A v \in Worker \ {w} : worker'[v] = worker[v]
        /\ worker' \in [Worker -> WorkerState]
    BY <1>1, <1>5, <1>6
  <1>8. ControllerTypeOK'
    <2>1. TypeOK'
      BY <1>4 DEF CachesInv
    <2>2. queue' \in SUBSET Ingress /\ probes' \in [Ingress -> Probe \cup {Nil}]
      BY <1>1 DEF ObserveDeletion, ControllerTypeOK
    <2> QED
      BY <1>1, <1>2, <1>7, <2>1, <2>2 DEF ControllerTypeOK, apiVars
  <1>9. StatusInv'
    BY <1>1, <1>2 DEF StatusInv, Exists, apiVars
  <1>10. KeysExclusive'
    BY <1>1, <1>3, <1>5, <1>7 DEF KeysExclusive
  <1>11. ASSUME NEW v \in Worker PROVE StepInv(v)' /\ ReadInv(v)'
    <2>1. CASE v = w
      BY <1>5, <1>7, <2>1 DEF StepInv, ReadInv
    <2>2. CASE v # w
      BY <1>1, <1>2, <1>7, <2>2 DEF WorkersInv, StepInv, ReadInv, Exists, WellFormed, apiVars
    <2> QED
      BY <2>1, <2>2
  <1>12. PhaseInv'
    BY <1>2, <1>3, <1>4 DEF PhaseInv
  <1>13. ServedWellFormed'
    BY <1>1, <1>2 DEF ServedWellFormed, WellFormed
  <1> QED
    BY <1>8, <1>9, <1>10, <1>11, <1>12, <1>13 DEF ControllerInv, WorkersInv

(* A step of a worker in the middle of a reconciliation. *)
LEMMA WorkerStepPreserves ==
  ASSUME ControllerInv, NEW w \in Worker, worker[w].pc # "idle",
         NEW p \in WorkerState, worker' = [worker EXCEPT ![w] = p],
         p.pc # "idle", p.key = worker[w].key, p.object = worker[w].object,
         p.pc # "translate",
         p.pc = "update" => p.object # Nil /\ p.translation \in Translation,
         p.pc = "push" => p.snapshot \in Snapshot /\ WellFormed(p.snapshot),
         UNCHANGED <<apiVars, forgets, probes, phase>>,
         CachesInv',
         queue' \in SUBSET Ingress, tracked' \in SUBSET Ingress,
         served' \in Snapshot, ServedWellFormed',
         budget' \in [EventKinds -> Nat]
  PROVE  ControllerInv'
  <1>1. ControllerTypeOK /\ worker \in [Worker -> WorkerState]
    BY DEF ControllerInv, ControllerTypeOK
  <1>2. phase = "up" /\ worker[w].key \in Ingress
    BY BusyIsUp
  <1>3. /\ worker'[w] = p
        /\ \A v \in Worker \ {w} : worker'[v] = worker[v]
        /\ worker' \in [Worker -> WorkerState]
    BY <1>1
  <1>4. StepInv(w)'
    BY <1>2, <1>3 DEF StepInv, WellFormed
  <1>5. UNCHANGED objects
    BY DEF apiVars
  <1>6. WorkersInv' /\ KeysExclusive' /\ StatusInv'
    BY <1>3, <1>4, <1>5, WorkerGoesOn
  <1>7. PhaseInv'
    BY <1>2 DEF PhaseInv
  <1>8. TypeOK'
    BY DEF CachesInv
  <1> QED
    BY <1>1, <1>3, <1>6, <1>7, <1>8 DEF ControllerInv, ControllerTypeOK, apiVars

(* A translation has the type of one. *)
LEMMA TranslateType ==
  ASSUME ControllerTypeOK, NEW i \in Ingress, NEW D \in SUBSET Domain,
         services[Backend[i]] # Nil
  PROVE  Translate(i, D) \in Translation
  <1>1. Backend[i] \in Cluster
    BY ControllerAssumption
  <1>2. services[Backend[i]] \in Endpoints
    BY <1>1 DEF ControllerTypeOK
  <1> DEFINE cs == [c \in {Backend[i]} |-> services[c]]
  <1>3. cs \in [{Backend[i]} -> Endpoints]
    BY <1>2
  <1>4. cs \in UNION {[C -> Endpoints] : C \in SUBSET Cluster}
    <2>1. {Backend[i]} \in SUBSET Cluster
      BY <1>1
    <2> HIDE DEF cs
    <2> QED
      BY <1>3, <2>1
  <1>5. Translate(i, D) = [domains |-> D, clusters |-> cs]
    BY DEF Translate
  <1> HIDE DEF cs
  <1> QED
    BY <1>4, <1>5 DEF Translation

LEMMA TranslateIngressPreserves ==
  ASSUME ControllerInv, NEW w \in Worker, TranslateIngress(w)
  PROVE  ControllerInv'
  <1> DEFINE i == worker[w].key
             t == Translate(i, worker[w].object.domains)
             p == [worker[w] EXCEPT !.pc = IF t = Nil THEN "snapshot" ELSE "update",
                                    !.translation = t]
  <1>1. worker[w].pc = "translate" /\ worker[w].pc # "idle"
    BY DEF TranslateIngress
  <1>2. /\ ControllerTypeOK /\ ServedWellFormed
        /\ CachesInv /\ i \in Ingress /\ worker[w] \in WorkerState /\ StepInv(w)
    BY <1>1, BusyIsUp DEF ControllerInv
  <1>3. worker[w].object # Nil /\ worker[w].object \in Object
    BY <1>1, <1>2 DEF StepInv, WorkerState
  <1>4. t = Nil \/ t \in Translation
    <2>1. worker[w].object.domains \in SUBSET Domain
      BY <1>3 DEF Object
    <2>2. CASE services[Backend[i]] = Nil
      BY <2>2 DEF Translate
    <2>3. CASE services[Backend[i]] # Nil
      BY <1>2, <2>1, <2>3, TranslateType
    <2> QED
      BY <2>2, <2>3
  <1>5. worker' = [worker EXCEPT ![w] = p]
    BY <1>2 DEF TranslateIngress, ControllerTypeOK
  <1>6. /\ queue' \in SUBSET Ingress /\ tracked' \in SUBSET Ingress
        /\ UNCHANGED <<cachesVars, apiVars, forgets, probes, served, phase, budget>>
    BY <1>2 DEF TranslateIngress, ControllerTypeOK
  <1> HIDE DEF t, i
  <1>7. /\ p \in WorkerState
        /\ p.pc \in {"snapshot", "update"}
        /\ p.pc = "update" => t # Nil
        /\ p.key = worker[w].key /\ p.object = worker[w].object /\ p.translation = t
    BY <1>2, <1>4 DEF WorkerState
  <1>8. CachesInv'
    BY <1>2, <1>6, CachesStay
  <1>9. served' \in Snapshot /\ ServedWellFormed' /\ budget' \in [EventKinds -> Nat]
    BY <1>2, <1>6 DEF ControllerTypeOK, ServedWellFormed, WellFormed
  <1> HIDE DEF p
  <1> QED
    BY <1>1, <1>3, <1>4, <1>5, <1>6, <1>7, <1>8, <1>9, WorkerStepPreserves

(* A failed translation or snapshot. *)
LEMMA FailurePreserves ==
  ASSUME ControllerInv, NEW w \in Worker, TranslateFails(w) \/ SnapshotFails(w)
  PROVE  ControllerInv'
  <1> DEFINE p == [worker[w] EXCEPT !.pc = "finish", !.outcome = "error"]
  <1>1. worker[w].pc # "idle"
    BY DEF TranslateFails, SnapshotFails
  <1>2. /\ ControllerTypeOK /\ ServedWellFormed
        /\ CachesInv /\ worker[w] \in WorkerState
    BY <1>1, BusyIsUp DEF ControllerInv
  <1>3. worker' = [worker EXCEPT ![w] = p]
    BY <1>2 DEF TranslateFails, SnapshotFails, ControllerTypeOK
  <1>4. /\ UNCHANGED <<cachesVars, apiVars, queue, tracked, forgets, probes, served, phase>>
        /\ Spend("error")
    BY DEF TranslateFails, SnapshotFails, tracker
  <1>5. /\ p \in WorkerState /\ p.pc = "finish"
        /\ p.key = worker[w].key /\ p.object = worker[w].object
    BY <1>2 DEF WorkerState
  <1>6. CachesInv'
    BY <1>2, <1>4, CachesStay
  <1>7. served' \in Snapshot /\ ServedWellFormed' /\ queue' \in SUBSET Ingress
        /\ tracked' \in SUBSET Ingress
    BY <1>2, <1>4 DEF ControllerTypeOK, ServedWellFormed, WellFormed
  <1>8. budget' \in [EventKinds -> Nat]
    <2>1. "error" \in EventKinds
      BY DEF EventKinds
    <2> QED
      BY <1>2, <1>4, <2>1, SpendType DEF ControllerTypeOK
  <1> HIDE DEF p
  <1> QED
    BY <1>1, <1>3, <1>4, <1>5, <1>6, <1>7, <1>8, WorkerStepPreserves

(* Caches.UpdateIngress, with or without a conflict. *)
LEMMA UpdateCachesPreserves ==
  ASSUME ControllerInv, NEW w \in Worker, UpdateCaches(w)
  PROVE  ControllerInv'
  <1> DEFINE i == worker[w].key
             t == worker[w].translation
  <1>1. worker[w].pc = "update" /\ worker[w].pc # "idle"
    BY DEF UpdateCaches
  <1>2. /\ ControllerTypeOK /\ ServedWellFormed
        /\ CachesInv /\ i \in Ingress /\ worker[w] \in WorkerState /\ t \in Translation
    BY <1>1, BusyIsUp DEF ControllerInv, StepInv
  <1>3. UNCHANGED <<apiVars, queue, tracked, forgets, probes, served, phase, budget>>
    BY DEF UpdateCaches, tracker
  <1>4. CachesInv'
    <2>1. UpdateIngress(i)
      BY <1>2 DEF UpdateCaches, UpdateIngress
    <2> QED
      BY <1>2, <2>1, NextInv DEF Next
  <1>5. \E p \in WorkerState : /\ worker' = [worker EXCEPT ![w] = p]
                               /\ p.pc \in {"snapshot", "finish"}
                               /\ p.key = worker[w].key /\ p.object = worker[w].object
    <2> DEFINE a == [worker[w] EXCEPT !.pc = "snapshot"]
               b == [worker[w] EXCEPT !.pc = "finish", !.outcome = "conflict"]
    <2>1. \/ worker' = [worker EXCEPT ![w] = a]
          \/ worker' = [worker EXCEPT ![w] = b]
      BY <1>2 DEF UpdateCaches, ControllerTypeOK
    <2>2. /\ a \in WorkerState /\ a.pc = "snapshot"
          /\ a.key = worker[w].key /\ a.object = worker[w].object
      BY <1>2 DEF WorkerState
    <2>3. /\ b \in WorkerState /\ b.pc = "finish"
          /\ b.key = worker[w].key /\ b.object = worker[w].object
      BY <1>2 DEF WorkerState
    <2> HIDE DEF a, b
    <2> QED
      BY <2>1, <2>2, <2>3
  <1>6. /\ served' \in Snapshot /\ ServedWellFormed' /\ queue' \in SUBSET Ingress
        /\ tracked' \in SUBSET Ingress /\ budget' \in [EventKinds -> Nat]
    BY <1>2, <1>3 DEF ControllerTypeOK, ServedWellFormed, WellFormed
  <1> QED
    BY <1>1, <1>3, <1>4, <1>5, <1>6, WorkerStepPreserves

(* A snapshot is built and, later, set. *)
LEMMA SnapshotPreserves ==
  ASSUME ControllerInv, NEW w \in Worker, BuildSnapshot(w) \/ SetSnapshot(w)
  PROVE  ControllerInv'
  <1>1. worker[w].pc # "idle"
    BY DEF BuildSnapshot, SetSnapshot
  <1>2. /\ ControllerTypeOK /\ ServedWellFormed
        /\ CachesInv /\ worker[w] \in WorkerState /\ StepInv(w)
    BY <1>1, BusyIsUp DEF ControllerInv
  <1>3. UNCHANGED <<cachesVars, apiVars, queue, tracked, forgets, probes, phase, budget>>
    BY DEF BuildSnapshot, SetSnapshot, tracker
  <1>4. CachesInv'
    BY <1>2, <1>3, CachesStay
  <1>5. /\ queue' \in SUBSET Ingress /\ tracked' \in SUBSET Ingress
        /\ budget' \in [EventKinds -> Nat]
    BY <1>2, <1>3 DEF ControllerTypeOK
  <1>6. CASE BuildSnapshot(w)
    <2>1. PICK s \in ToEnvoySnapshot :
             worker' = [worker EXCEPT ![w].pc = "push", ![w].snapshot = s]
      BY <1>6 DEF BuildSnapshot
    <2>2. s \in Snapshot /\ WellFormed(s)
      BY <1>2, SnapshotsAccepted DEF SnapshotsOK
    <2> DEFINE p == [worker[w] EXCEPT !.pc = "push", !.snapshot = s]
    <2>3. worker' = [worker EXCEPT ![w] = p]
      BY <1>2, <2>1 DEF ControllerTypeOK
    <2>4. /\ p \in WorkerState /\ p.pc = "push" /\ p.snapshot = s
          /\ p.key = worker[w].key /\ p.object = worker[w].object
      BY <1>2, <2>2 DEF WorkerState
    <2>5. served' \in Snapshot /\ ServedWellFormed'
      BY <1>2, <1>6 DEF BuildSnapshot, ControllerTypeOK, ServedWellFormed, WellFormed
    <2> HIDE DEF p
    <2> QED
      BY <1>1, <1>3, <1>4, <1>5, <2>2, <2>3, <2>4, <2>5, WorkerStepPreserves
  <1>7. CASE SetSnapshot(w)
    <2> DEFINE p == [worker[w] EXCEPT !.pc = "finish", !.snapshot = Nil]
    <2>1. worker' = [worker EXCEPT ![w] = p]
      BY <1>2, <1>7 DEF SetSnapshot, ControllerTypeOK
    <2>2. /\ p \in WorkerState /\ p.pc = "finish"
          /\ p.key = worker[w].key /\ p.object = worker[w].object
      BY <1>2 DEF WorkerState
    <2>3. served' = worker[w].snapshot /\ worker[w].pc = "push"
      BY <1>7 DEF SetSnapshot
    <2>4. served' \in Snapshot /\ ServedWellFormed'
      BY <1>2, <2>3 DEF StepInv, ServedWellFormed, WellFormed
    <2> HIDE DEF p
    <2> QED
      BY <1>1, <1>3, <1>4, <1>5, <2>1, <2>2, <2>4, WorkerStepPreserves
  <1> QED
    BY <1>6, <1>7

(* The statuses a reconciliation may leave. *)
LEMMA StatusFields ==
  ASSUME NEW o \in Object, NEW ok \in BOOLEAN
  PROVE  /\ ConflictStatus(o) \in Status
         /\ ConflictStatus(o).observed = o.generation
         /\ ConflictStatus(o).lb = "Conflict" /\ ~ConflictStatus(o).ready
         /\ ErrorStatus(o) \in Status
         /\ ErrorStatus(o).observed = o.generation
         /\ ~ErrorStatus(o).ready
         /\ ConfiguredStatus(o) \in Status
         /\ ConfiguredStatus(o).observed = o.generation
         /\ ConfiguredStatus(o).lb = o.status.lb
         /\ ConfiguredStatus(o).network
         /\ ConfiguredStatus(o).ready <=> o.status.lb = "True"
         /\ ProbedStatus(o, ok) \in Status
         /\ ProbedStatus(o, ok).observed = o.generation
         /\ ProbedStatus(o, ok).lb = IF ok THEN "True" ELSE "Uninitialized"
         /\ ProbedStatus(o, ok).network
         /\ ProbedStatus(o, ok).ready <=> ok
  <1>1. o.status \in Status /\ o.generation \in Nat
    BY DEF Object
  <1>2. /\ Observed(o) \in Status /\ Observed(o).observed = o.generation
        /\ Observed(o).lb = o.status.lb
    BY <1>1 DEF Observed, Status
  <1>3. /\ ConflictStatus(o) \in Status
        /\ ConflictStatus(o).observed = o.generation
        /\ ConflictStatus(o).lb = "Conflict" /\ ~ConflictStatus(o).ready
    BY <1>2 DEF ConflictStatus, Status, LoadBalancer
  <1>4. /\ ErrorStatus(o) \in Status
        /\ ErrorStatus(o).observed = o.generation
        /\ ~ErrorStatus(o).ready
    BY <1>2 DEF ErrorStatus, Status
  <1>5. /\ ConfiguredStatus(o) \in Status
        /\ ConfiguredStatus(o).observed = o.generation
        /\ ConfiguredStatus(o).lb = o.status.lb
        /\ ConfiguredStatus(o).network
        /\ ConfiguredStatus(o).ready <=> o.status.lb = "True"
    <2> DEFINE ready == (o.status.lb = "True")
    <2>1. ready \in BOOLEAN
      OBVIOUS
    <2>2. ConfiguredStatus(o) = [Observed(o) EXCEPT !.network = TRUE, !.ready = ready]
      BY DEF ConfiguredStatus
    <2>3. ready <=> o.status.lb = "True"
      OBVIOUS
    <2> HIDE DEF ready
    <2> QED
      BY <1>2, <2>1, <2>2, <2>3 DEF Status
  <1>6. /\ ProbedStatus(o, ok) \in Status
        /\ ProbedStatus(o, ok).observed = o.generation
        /\ ProbedStatus(o, ok).lb = IF ok THEN "True" ELSE "Uninitialized"
        /\ ProbedStatus(o, ok).network
        /\ ProbedStatus(o, ok).ready <=> ok
    <2> DEFINE lb == IF ok THEN "True" ELSE "Uninitialized"
    <2>1. lb \in LoadBalancer
      BY DEF LoadBalancer
    <2>2. ProbedStatus(o, ok) = [ConfiguredStatus(o) EXCEPT !.lb = lb, !.ready = ok]
      BY DEF ProbedStatus
    <2> HIDE DEF lb
    <2>3. /\ ProbedStatus(o, ok) \in Status
          /\ ProbedStatus(o, ok).observed = o.generation
          /\ ProbedStatus(o, ok).lb = lb
          /\ ProbedStatus(o, ok).network
          /\ ProbedStatus(o, ok).ready = ok
      BY <1>5, <2>1, <2>2 DEF Status
    <2> QED
      BY <2>3 DEF lb
  <1> QED
    BY <1>3, <1>4, <1>5, <1>6

FinishStep(w) ==
    \/ FinishConflict(w) \/ FinishError(w) \/ FinishReady(w)
    \/ FinishProbeKnown(w) \/ FinishProbeNew(w) \/ FinishProbeFails(w)

(* How a reconciliation may end: what it writes, and what it has made sure *)
(* of when it leaves the ingress ready, in conflict or out of it.          *)
LEMMA FinishCases ==
  ASSUME ControllerInv, NEW w \in Worker, FinishStep(w)
  PROVE  LET o == worker[w].object
             i == worker[w].key
         IN  /\ worker[w].pc = "finish" /\ o \in Object /\ o # Nil
             /\ i \in Ingress /\ Exists(i)
             /\ probes' \in [Ingress -> Probe \cup {Nil}]
             /\ \E st \in Status, failed \in BOOLEAN :
                   /\ WriteStatus(w, st, failed)
                   /\ st.observed = o.generation
                   /\ st.ready => st.network
                   /\ failed \/ st.lb = "Conflict" \/ worker[w].outcome = "ok"
                   /\ st.ready => worker[w].outcome = "ok"
                   /\ st.lb = "Conflict" => failed \/ worker[w].outcome = "conflict"
                   /\ st.ready => \/ probes[i] # Nil /\ probes[i].hash = o.domains /\ probes[i].done
                                  \/ ~gateway
                                  \/ LeftOver(o)
  <1> DEFINE o == worker[w].object
             i == worker[w].key
             P == probes' \in [Ingress -> Probe \cup {Nil}]
             Good(st, failed) ==
                   /\ WriteStatus(w, st, failed)
                   /\ st.observed = o.generation
                   /\ st.ready => st.network
                   /\ failed \/ st.lb = "Conflict" \/ worker[w].outcome = "ok"
                   /\ st.ready => worker[w].outcome = "ok"
                   /\ st.lb = "Conflict" => failed \/ worker[w].outcome = "conflict"
                   /\ st.ready => \/ probes[i] # Nil /\ probes[i].hash = o.domains /\ probes[i].done
                                  \/ ~gateway
                                  \/ LeftOver(o)
  <1>1. worker[w].pc = "finish" /\ o # Nil /\ worker[w].pc # "idle"
    BY DEF FinishStep, FinishConflict, FinishError, FinishReady, FinishProbeKnown,
           FinishProbeNew, FinishProbeFails, Finishing
  <1>2. /\ worker[w] \in WorkerState /\ i \in Ingress /\ Exists(i)
        /\ probes \in [Ingress -> Probe \cup {Nil}]
    BY <1>1, BusyIsUp DEF ControllerInv, ControllerTypeOK, ReadInv
  <1>3. o \in Object
    BY <1>1, <1>2 DEF WorkerState
  <1>4. o.domains \in SUBSET Domain /\ TRUE \in BOOLEAN /\ FALSE \in BOOLEAN
    BY <1>3 DEF Object
  <1>5. CASE FinishConflict(w)
    <2>1. Good(ConflictStatus(o), FALSE)
      BY <1>3, <1>5, StatusFields DEF FinishConflict, Finishing
    <2>2. P
      BY <1>2, <1>5 DEF FinishConflict
    <2>3. ConflictStatus(o) \in Status
      BY <1>3, StatusFields
    <2> QED
      BY <1>1, <1>2, <1>3, <1>4, <2>1, <2>2, <2>3
  <1>6. CASE FinishError(w)
    <2>1. Good(ErrorStatus(o), TRUE)
      BY <1>3, <1>6, StatusFields DEF FinishError
    <2>2. P
      BY <1>2, <1>6 DEF FinishError
    <2>3. ErrorStatus(o) \in Status
      BY <1>3, StatusFields
    <2> QED
      BY <1>1, <1>2, <1>3, <1>4, <2>1, <2>2, <2>3
  <1>7. CASE FinishReady(w)
    <2>1. Good(ConfiguredStatus(o), FALSE)
      BY <1>3, <1>7, StatusFields DEF FinishReady, Finishing, NeedsProbing, LeftOver
    <2>2. P
      BY <1>2, <1>7 DEF FinishReady
    <2>3. ConfiguredStatus(o) \in Status
      BY <1>3, StatusFields
    <2> QED
      BY <1>1, <1>2, <1>3, <1>4, <2>1, <2>2, <2>3
  <1>8. CASE FinishProbeKnown(w)
    <2>1. probes[i] # Nil /\ probes[i].hash = o.domains /\ worker[w].outcome = "ok"
      BY <1>8 DEF FinishProbeKnown, Known, Finishing
    <2>2. probes[i].done \in BOOLEAN
      BY <1>2, <2>1 DEF Probe
    <2>3. /\ ProbedStatus(o, probes[i].done) \in Status
          /\ ProbedStatus(o, probes[i].done).observed = o.generation
          /\ ProbedStatus(o, probes[i].done).network
          /\ ProbedStatus(o, probes[i].done).lb # "Conflict"
          /\ ProbedStatus(o, probes[i].done).ready <=> probes[i].done
      BY <1>3, <2>2, StatusFields
    <2>4. WriteStatus(w, ProbedStatus(o, probes[i].done), FALSE)
      BY <1>8 DEF FinishProbeKnown
    <2>5. Good(ProbedStatus(o, probes[i].done), FALSE)
      BY <2>1, <2>3, <2>4
    <2>6. P
      BY <1>2, <1>8 DEF FinishProbeKnown
    <2> QED
      BY <1>1, <1>2, <1>3, <1>4, <2>3, <2>5, <2>6
  <1>9. CASE FinishProbeNew(w)
    <2>1. worker[w].outcome = "ok" /\ WriteStatus(w, ProbedStatus(o, FALSE), FALSE)
      BY <1>9 DEF FinishProbeNew, Finishing
    <2>2. /\ ProbedStatus(o, FALSE) \in Status
          /\ ProbedStatus(o, FALSE).observed = o.generation
          /\ ProbedStatus(o, FALSE).lb # "Conflict"
          /\ ~ProbedStatus(o, FALSE).ready
      BY <1>3, <1>4, StatusFields
    <2>3. Good(ProbedStatus(o, FALSE), FALSE)
      BY <2>1, <2>2
    <2>4. P
      <3>1. [hash |-> o.domains, done |-> FALSE] \in Probe
        BY <1>4 DEF Probe
      <3>2. probes' = [probes EXCEPT ![i] = [hash |-> o.domains, done |-> FALSE]]
        BY <1>9 DEF FinishProbeNew
      <3> QED
        BY <1>2, <3>1, <3>2
    <2> QED
      BY <1>1, <1>2, <1>3, <1>4, <2>2, <2>3, <2>4
  <1>10. CASE FinishProbeFails(w)
    <2>1. worker[w].outcome = "ok" /\ WriteStatus(w, ConfiguredStatus(o), TRUE) /\ ~gateway
      BY <1>10 DEF FinishProbeFails, Finishing
    <2>2. Good(ConfiguredStatus(o), TRUE)
      BY <1>3, <2>1, StatusFields
    <2>3. P
      BY <1>2, <1>10 DEF FinishProbeFails
    <2>4. ConfiguredStatus(o) \in Status
      BY <1>3, StatusFields
    <2> QED
      BY <1>1, <1>2, <1>3, <1>4, <2>2, <2>3, <2>4
  <1> QED
    BY <1>5, <1>6, <1>7, <1>8, <1>9, <1>10 DEF FinishStep

(* The end of a reconciliation. *)
LEMMA FinishPreserves ==
  ASSUME ControllerInv, NEW w \in Worker,
         FinishStep(w) \/ ResyncConflicts(w) \/ DeletionFails(w)
  PROVE  ControllerInv'
  <1>1. worker[w].pc # "idle"
    <2>1. FinishStep(w) => worker[w].pc = "finish"
      BY FinishCases
    <2> QED
      BY <2>1 DEF ResyncConflicts, DeletionFails
  <1>2. /\ ControllerTypeOK /\ ServedWellFormed /\ CachesInv /\ phase = "up"
        /\ worker[w].key \in Ingress
    BY <1>1, BusyIsUp DEF ControllerInv
  <1>3. /\ worker' = [worker EXCEPT ![w] = Idle]
        /\ UNCHANGED <<cachesVars, services, gateway, tracked, forgets, served, phase>>
        /\ queue' \in SUBSET Ingress
    <2>1. CASE FinishStep(w)
      <3>1. PICK st, failed : WriteStatus(w, st, failed)
        BY <2>1, FinishCases
      <3> QED
        BY <1>2, <3>1 DEF WriteStatus, tracker, ControllerTypeOK
    <2>2. CASE ResyncConflicts(w) \/ DeletionFails(w)
      BY <1>2, <2>2 DEF ResyncConflicts, DeletionFails, InConflict, apiVars, tracker,
                        ControllerTypeOK
    <2> QED
      BY <2>1, <2>2
  <1>4. probes' \in [Ingress -> Probe \cup {Nil}]
    <2>1. CASE FinishStep(w)
      BY <2>1, FinishCases
    <2>2. CASE ResyncConflicts(w) \/ DeletionFails(w)
      BY <1>2, <2>2 DEF ResyncConflicts, DeletionFails, ControllerTypeOK
    <2> QED
      BY <2>1, <2>2
  <1>5. budget' \in [EventKinds -> Nat]
    <2>1. CASE UNCHANGED budget
      BY <1>2, <2>1 DEF ControllerTypeOK
    <2>2. CASE DeletionFails(w)
      <3>1. "error" \in EventKinds
        BY DEF EventKinds
      <3> QED
        BY <1>2, <2>2, <3>1, SpendType DEF DeletionFails, ControllerTypeOK
    <2>3. CASE FinishStep(w)
      <3>1. PICK st, failed : WriteStatus(w, st, failed)
        BY <2>3, FinishCases
      <3> QED
        BY <2>1, <3>1 DEF WriteStatus
    <2> QED
      BY <2>1, <2>2, <2>3 DEF ResyncConflicts
  <1>6. /\ WorkersInv' /\ KeysExclusive' /\ StatusInv'
        /\ worker' \in [Worker -> WorkerState]
        /\ objects' \in [Ingress -> Object \cup {Nil}]
    <2>1. CASE FinishStep(w)
      <3>1. PICK st \in Status, failed \in BOOLEAN :
               /\ WriteStatus(w, st, failed)
               /\ st.observed = worker[w].object.generation
               /\ st.ready => st.network
        BY <2>1, FinishCases
      <3>2. worker[w].object # Nil
        BY <2>1, FinishCases
      <3>3. objects' = [objects EXCEPT ![worker[w].key].status = st]
        BY <3>1 DEF WriteStatus
      <3> QED
        BY <1>3, <3>1, <3>2, <3>3, WorkerEnds
    <2>2. CASE ResyncConflicts(w) \/ DeletionFails(w)
      <3>1. UNCHANGED objects
        BY <2>2 DEF ResyncConflicts, DeletionFails, apiVars
      <3> QED
        BY <1>3, <3>1, WorkerEnds
    <2> QED
      BY <2>1, <2>2
  <1>7. CachesInv'
    BY <1>2, <1>3, CachesStay
  <1>8. PhaseInv' /\ TypeOK'
    BY <1>2, <1>3, <1>7 DEF PhaseInv, CachesInv
  <1>9. ServedWellFormed'
    BY <1>2, <1>3 DEF ServedWellFormed, WellFormed
  <1> QED
    BY <1>2, <1>3, <1>4, <1>5, <1>6, <1>8, <1>9 DEF ControllerInv, ControllerTypeOK

-----------------------------------------------------------------------------
(* Restarts. *)

(* The translations a new process is primed with. *)
LEMMA PrimedType ==
  ASSUME ControllerInv
  PROVE  /\ DOMAIN Primed \subseteq Ingress
         /\ Primed \in [DOMAIN Primed -> Translation]
         /\ \A i \in DOMAIN Primed : Primed[i] = Translate(i, objects[i].domains)
  <1>1. /\ ControllerTypeOK
        /\ objects \in [Ingress -> Object \cup {Nil}]
    BY DEF ControllerInv, ControllerTypeOK
  <1>2. ASSUME NEW i \in ReadyIngresses, Translate(i, objects[i].domains) # Nil
        PROVE  Translate(i, objects[i].domains) \in Translation
    <2>1. i \in Ingress /\ objects[i] \in Object
      BY <1>1 DEF ReadyIngresses, Exists
    <2>2. objects[i].domains \in SUBSET Domain
      BY <2>1 DEF Object
    <2>3. services[Backend[i]] # Nil
      BY <1>2 DEF Translate
    <2> QED
      BY <1>1, <2>1, <2>2, <2>3, TranslateType
  <1> QED
    BY <1>2 DEF Primed, ReadyIngresses

(* Priming without a conflict gives consistent caches. *)
LEMMA PrimedCaches ==
  ASSUME ControllerInv, Restart
  PROVE  CachesInv'
  <1> USE CachesAssumption
  <1> DEFINE P == Primed
             own == UNION {KeysOf(i, P[i]) : i \in DOMAIN P}
  <1>1. /\ DOMAIN P \subseteq Ingress
        /\ P \in [DOMAIN P -> Translation]
    BY PrimedType
  <1>2. \A i, j \in DOMAIN P : i # j => P[i].domains \cap P[j].domains = {}
    BY DEF Restart, PrimingConflicts
  <1>3. /\ translatedIngresses' = P
        /\ domainsInUse' = UNION {P[i].domains : i \in DOMAIN P}
        /\ evicted' = {}
    BY DEF Restart, LoseMemory
  <1>4. clusters' = [k \in ExtAuthzKeys \cup own |->
                       [object |-> IF k \in ExtAuthzKeys THEN ExtAuthzEndpoints
                                   ELSE P[k[2]].clusters[k[1]],
                        ttl    |-> NoExpiration]]
    BY DEF Restart
  <1> HIDE DEF P
  <1>5. ASSUME NEW i \in DOMAIN P, NEW c \in DOMAIN P[i].clusters
        PROVE  /\ <<c, i>> \in own /\ <<c, i>> \notin ExtAuthzKeys
               /\ c \in Cluster /\ i \in Ingress /\ P[i].clusters[c] \in Endpoints
    <2>1. i \in Ingress /\ P[i] \in Translation
      BY <1>1
    <2>2. c \in Cluster /\ P[i].clusters[c] \in Endpoints
      BY <2>1 DEF Translation
    <2>3. <<c, i>> \in KeysOf(i, P[i])
      BY DEF KeysOf
    <2>4. <<c, i>> \notin ExtAuthzKeys
      BY <2>1, <2>3, ExtAuthzKeyApart
    <2> QED
      BY <2>1, <2>2, <2>3, <2>4
  <1>6. ASSUME NEW k \in own
        PROVE  \E i \in DOMAIN P : \E c \in DOMAIN P[i].clusters : k = <<c, i>>
    BY DEF KeysOf
  <1> HIDE DEF own
  <1>7. ASSUME NEW k \in own
        PROVE  /\ k \in Cluster \X Ingress
               /\ k[2] \in DOMAIN P /\ k \in KeysOf(k[2], P[k[2]])
               /\ k \notin ExtAuthzKeys
               /\ P[k[2]].clusters[k[1]] \in Endpoints
    <2>1. PICK i \in DOMAIN P : \E c \in DOMAIN P[i].clusters : k = <<c, i>>
      BY <1>6
    <2>2. PICK c \in DOMAIN P[i].clusters : k = <<c, i>>
      BY <2>1
    <2> QED
      BY <1>5, <2>2 DEF KeysOf
  <1>8. /\ DOMAIN clusters' = ExtAuthzKeys \cup own
        /\ \A k \in ExtAuthzKeys :
              clusters'[k] = [object |-> ExtAuthzEndpoints, ttl |-> NoExpiration]
        /\ \A k \in own :
              clusters'[k] = [object |-> P[k[2]].clusters[k[1]], ttl |-> NoExpiration]
    BY <1>4, <1>7
  <1>9. TypeOK'
    <2>1. DOMAIN clusters' \subseteq Key
      BY <1>7, <1>8 DEF Key
    <2>2. ASSUME NEW k \in DOMAIN clusters'
          PROVE  clusters'[k] \in Item
      <3>1. CASE k \in ExtAuthzKeys
        BY <1>8, <3>1 DEF Item
      <3>2. CASE k \in own
        BY <1>7, <1>8, <3>2 DEF Item
      <3> QED
        BY <1>8, <3>1, <3>2
    <2>3. clusters' \in [DOMAIN clusters' -> Item]
      <3>1. clusters' = [k \in DOMAIN clusters' |-> clusters'[k]]
        BY <1>4
      <3> QED
        BY <2>2, <3>1
    <2>4. domainsInUse' \in SUBSET Domain
      <3>1. \A i \in DOMAIN P : P[i].domains \in SUBSET Domain
        BY <1>1 DEF Translation
      <3> QED
        BY <1>3, <3>1
    <2> QED
      BY <1>1, <1>3, <2>1, <2>3, <2>4 DEF TypeOK
  <1>10. DomainsExact' /\ DomainsExclusive'
    BY <1>2, <1>3 DEF DomainsExact, DomainsExclusive
  <1>11. ClustersPinned'
    <2>1. ASSUME NEW i \in DOMAIN P, NEW c \in DOMAIN P[i].clusters
          PROVE  /\ <<c, i>> \in DOMAIN clusters'
                 /\ clusters'[<<c, i>>] = [object |-> P[i].clusters[c], ttl |-> NoExpiration]
      <3>1. <<c, i>> \in own
        BY <1>5
      <3> QED
        BY <1>8, <3>1
    <2> QED
      BY <1>3, <1>8, <2>1 DEF ClustersPinned
  <1>12. NoClusterLeak'
    BY <1>3, <1>7, <1>8 DEF NoClusterLeak, KeysOf
  <1> QED
    BY <1>9, <1>10, <1>11, <1>12 DEF CachesInv

(* A restart, whether the new process comes up or not. *)
LEMMA RestartPreserves ==
  ASSUME ControllerInv, Restart \/ RestartFatal
  PROVE  ControllerInv'
  <1>1. ControllerTypeOK /\ ServedWellFormed /\ StatusInv
    BY DEF ControllerInv
  <1>2. /\ LoseMemory
        /\ worker' = [w \in Worker |-> Idle]
        /\ probes' = [i \in Ingress |-> Nil]
        /\ evicted' = {} /\ forgets' = {}
        /\ UNCHANGED <<objects, services, gateway>>
        /\ Spend("restart")
    BY DEF Restart, RestartFatal, LoseMemory, apiVars
  <1>3. \A w \in Worker : worker'[w] = Idle
    BY <1>2
  <1>4. WorkersInv' /\ KeysExclusive'
    BY <1>3, IdleFields, NilAssumption DEF WorkersInv, StepInv, ReadInv, KeysExclusive
  <1>5. StatusInv'
    BY <1>1, <1>2 DEF StatusInv, Exists
  <1>6. budget' \in [EventKinds -> Nat]
    <2>1. "restart" \in EventKinds
      BY DEF EventKinds
    <2> QED
      BY <1>1, <1>2, <2>1, SpendType DEF ControllerTypeOK
  <1>7. worker' \in [Worker -> WorkerState] /\ probes' \in [Ingress -> Probe \cup {Nil}]
    BY <1>2, IdleFields
  <1>8. queue' \in SUBSET Ingress /\ tracked' \in SUBSET Ingress /\ phase' \in {"up", "fatal"}
    BY DEF Restart, RestartFatal, ReadyIngresses
  <1>9. PhaseInv' /\ TypeOK' /\ served' \in Snapshot /\ ServedWellFormed'
    <2>1. CASE Restart
      <3>1. CachesInv'
        BY <2>1, PrimedCaches
      <3>2. CachesInv' => SnapshotsOK'
        BY SnapshotsAccepted, PTL
      <3>3. served' \in Snapshot /\ WellFormed(served')
        BY <2>1, <3>1, <3>2 DEF SnapshotsOK, Restart, FirstSnapshot, WellFormed
      <3> QED
        BY <2>1, <3>1, <3>3 DEF PhaseInv, CachesInv, Restart, ServedWellFormed, WellFormed
    <2>2. CASE RestartFatal
      <3>1. /\ translatedIngresses' = [i \in {} |-> {}]
            /\ clusters' = [k \in {} |-> {}]
            /\ domainsInUse' = {}
            /\ phase' = "fatal"
            /\ UNCHANGED served
        BY <2>2 DEF RestartFatal
      <3>2. TypeOK'
        BY <1>2, <3>1 DEF TypeOK
      <3>3. PhaseInv'
        BY <1>2, <1>3, <3>1 DEF PhaseInv
      <3> QED
        BY <1>1, <3>1, <3>2, <3>3 DEF ControllerTypeOK, ServedWellFormed, WellFormed
    <2> QED
      BY <2>1, <2>2
  <1> QED
    BY <1>1, <1>2, <1>4, <1>5, <1>6, <1>7, <1>8, <1>9 DEF ControllerInv, ControllerTypeOK

-----------------------------------------------------------------------------
(* The invariant. *)

(* Every step of the controller keeps the invariant. *)
LEMMA ControllerNextInv == ControllerInv /\ [ControllerNext]_vars => ControllerInv'
  <1> SUFFICES ASSUME ControllerInv, [ControllerNext]_vars
               PROVE  ControllerInv'
    OBVIOUS
  <1>1. CASE Environment
    <2>1. ASSUME NEW i \in Ingress, DeleteIngress(i)
          PROVE  ControllerInv'
      <3>1. {} \in SUBSET Domain
        OBVIOUS
      <3> QED
        BY <2>1, <3>1, UsersPreserve
    <2>2. ASSUME NEW i \in Ingress, NEW D \in SUBSET Domain \ {{}},
                 CreateIngress(i, D) \/ UpdateSpec(i, D)
          PROVE  ControllerInv'
      BY <2>2, UsersPreserve
    <2> QED
      BY <1>1, <2>1, <2>2, SurroundingsPreserve, RestartPreserves DEF Environment
  <1>2. ASSUME NEW w \in Worker,
               WorkerStep(w) \/ TranslateFails(w) \/ SnapshotFails(w) \/ DeletionFails(w)
        PROVE  ControllerInv'
    <2>1. ASSUME NEW i \in Ingress,
                 StartReconcile(w, i) \/ Finalize(w, i) \/ ObserveDeletion(w, i)
          PROVE  ControllerInv'
      BY <2>1, StartReconcilePreserves, FinalizePreserves, ObserveDeletionPreserves
    <2> QED
      BY <1>2, <2>1, TranslateIngressPreserves, FailurePreserves, UpdateCachesPreserves,
         SnapshotPreserves, FinishPreserves DEF WorkerStep, FinishStep
  <1>3. CASE Background
    BY <1>3, BackgroundPreserves
  <1>4. CASE UNCHANGED vars
    <2>1. /\ UNCHANGED <<worker, objects, cachesVars, phase, served, services, gateway, queue,
                         tracked, forgets, probes, budget>>
      BY <1>4 DEF vars, apiVars, ctlVars, tracker
    <2>2. WorkersInv' /\ KeysExclusive' /\ StatusInv' /\ PhaseInv' /\ TypeOK'
      BY <2>1, WorkersStay, PhaseStays
    <2> QED
      BY <2>1, <2>2 DEF ControllerInv, ControllerTypeOK, ServedWellFormed, WellFormed
  <1> QED
    BY <1>1, <1>2, <1>3, <1>4 DEF ControllerNext

(* The inductive invariant holds in every reachable state, with any number *)
(* of workers, through failures and restarts.                              *)
THEOREM ControllerInvariant == ControllerSpec => []ControllerInv
  BY ControllerInitInv, ControllerNextInv, PTL DEF ControllerSpec

(* The controller's state is always well typed. *)
THEOREM ControllerTypeCorrect == ControllerSpec => []ControllerTypeOK
  <1>1. ControllerInv => ControllerTypeOK
    BY DEF ControllerInv
  <1> QED
    BY <1>1, ControllerInvariant, PTL

(* Envoy is never handed a snapshot with a domain twice, or with a route   *)
(* to a cluster it does not have, whichever workers build snapshots while  *)
(* others change the caches and items expire.                              *)
THEOREM SnapshotsStayWellFormed == ControllerSpec => []ServedWellFormed
  <1>1. ControllerInv => ServedWellFormed
    BY DEF ControllerInv
  <1> QED
    BY <1>1, ControllerInvariant, PTL

-----------------------------------------------------------------------------
(* Readiness. *)

(* The steps that write objects. *)
LEMMA ObjectWriters ==
  ASSUME [ControllerNext]_vars
  PROVE  \/ UNCHANGED objects
         \/ \E i \in Ingress : DeleteIngress(i)
         \/ \E i \in Ingress, D \in SUBSET Domain : CreateIngress(i, D) \/ UpdateSpec(i, D)
         \/ \E w \in Worker, i \in Ingress : StartReconcile(w, i) \/ Finalize(w, i)
         \/ \E w \in Worker : FinishStep(w)
  <1>1. CASE Environment
    BY <1>1 DEF Environment, ScaleService, LoseService, ToggleGateway, DeleteGatewayPod,
                GlobalResync, Restart, RestartFatal, LoseMemory, apiVars
  <1>2. ASSUME NEW w \in Worker,
               WorkerStep(w) \/ TranslateFails(w) \/ SnapshotFails(w) \/ DeletionFails(w)
        PROVE  \/ UNCHANGED objects
               \/ \E i \in Ingress : StartReconcile(w, i) \/ Finalize(w, i)
               \/ FinishStep(w)
    BY <1>2 DEF WorkerStep, FinishStep, ObserveDeletion, TranslateIngress, UpdateCaches,
                BuildSnapshot, SetSnapshot, ResyncConflicts, TranslateFails, SnapshotFails,
                DeletionFails, apiVars
  <1>3. CASE Background
    BY <1>3 DEF Background, ProbeSucceeds, EvictionCallback, OnDeletedObserver, ClockTick,
                Janitor, apiVars
  <1>4. CASE UNCHANGED vars
    BY <1>4 DEF vars, apiVars
  <1> QED
    BY <1>1, <1>2, <1>3, <1>4 DEF ControllerNext

(* An ingress becomes ready by the status a worker writes, and only when   *)
(* its version has been probed, there was nothing to probe or the          *)
(* condition of the version before was left over.                          *)
LEMMA ReadyStep ==
  ASSUME ControllerInv, [ControllerNext]_vars, NEW i \in Ingress,
         objects'[i] # Nil, IsReady(objects'[i]),
         ~(Exists(i) /\ IsReady(objects[i]))
  PROVE  \/ probes[i] # Nil /\ probes[i].hash = objects[i].domains /\ probes[i].done
         \/ ~gateway
         \/ LeftOver(objects[i])
  <1> USE NilAssumption
  <1>1. /\ StatusInv /\ WorkersInv
        /\ objects \in [Ingress -> Object \cup {Nil}]
        /\ worker \in [Worker -> WorkerState]
    BY DEF ControllerInv, ControllerTypeOK
  <1>2. Exists(i) => /\ objects[i] \in Object
                     /\ objects[i].generation \in Nat /\ objects[i].status.observed \in Nat
    BY <1>1 DEF Exists, Object, Status
  <1>3. objects'[i] # objects[i]
    BY DEF Exists
  <1>4. ASSUME NEW j \in Ingress, DeleteIngress(j)
        PROVE  FALSE
    <2>1. j = i /\ Exists(i)
      BY <1>1, <1>3, <1>4 DEF DeleteIngress
    <2>2. objects'[i] = [objects[i] EXCEPT !.deleting = TRUE]
      BY <1>1, <1>4, <2>1 DEF DeleteIngress
    <2>3. objects'[i].status = objects[i].status /\ objects'[i].generation = objects[i].generation
      BY <1>2, <2>1, <2>2 DEF Object
    <2> QED
      BY <2>1, <2>3 DEF IsReady
  <1>5. ASSUME NEW j \in Ingress, NEW D \in SUBSET Domain, CreateIngress(j, D)
        PROVE  FALSE
    <2>1. objects'[i].status = NewStatus
      BY <1>1, <1>3, <1>5 DEF CreateIngress
    <2>2. ~NewStatus.ready
      BY DEF NewStatus
    <2> QED
      BY <2>1, <2>2 DEF IsReady
  <1>6. ASSUME NEW j \in Ingress, NEW D \in SUBSET Domain, UpdateSpec(j, D)
        PROVE  FALSE
    <2>1. j = i /\ Exists(i)
      BY <1>1, <1>3, <1>6 DEF UpdateSpec
    <2> DEFINE next == objects[i].generation + 1
    <2>2. objects'[i] = [objects[i] EXCEPT !.domains = D, !.generation = next]
      BY <1>1, <1>6, <2>1 DEF UpdateSpec
    <2>3. objects'[i].status = objects[i].status /\ objects'[i].generation = next
      <3> HIDE DEF next
      <3> QED
        BY <1>2, <2>1, <2>2 DEF Object
    <2>4. objects[i].status.observed <= objects[i].generation
      BY <1>1, <2>1 DEF StatusInv
    <2>5. objects[i].status.observed # next
      BY <1>2, <2>1, <2>4
    <2> QED
      BY <2>3, <2>5 DEF IsReady
  <1>7. ASSUME NEW w \in Worker, NEW j \in Ingress, StartReconcile(w, j)
        PROVE  FALSE
    <2>1. j = i /\ Exists(i)
      BY <1>1, <1>3, <1>7 DEF StartReconcile
    <2>2. objects'[i] = [objects[i] EXCEPT !.finalizer = TRUE]
      BY <1>1, <1>7, <2>1 DEF StartReconcile
    <2>3. objects'[i].status = objects[i].status /\ objects'[i].generation = objects[i].generation
      BY <1>2, <2>1, <2>2 DEF Object
    <2> QED
      BY <2>1, <2>3 DEF IsReady
  <1>8. ASSUME NEW w \in Worker, NEW j \in Ingress, Finalize(w, j)
        PROVE  FALSE
    BY <1>1, <1>3, <1>8 DEF Finalize
  <1>9. ASSUME NEW w \in Worker, FinishStep(w)
        PROVE  \/ probes[i] # Nil /\ probes[i].hash = objects[i].domains /\ probes[i].done
               \/ ~gateway
               \/ LeftOver(objects[i])
    <2> DEFINE o == worker[w].object
               k == worker[w].key
    <2>1. PICK st \in Status, failed \in BOOLEAN :
             /\ WriteStatus(w, st, failed)
             /\ st.observed = o.generation
             /\ st.ready => \/ probes[k] # Nil /\ probes[k].hash = o.domains /\ probes[k].done
                            \/ ~gateway
                            \/ LeftOver(o)
      BY <1>9, FinishCases
    <2>2. o # Nil
      BY <1>9, FinishCases
    <2>3. objects' = [objects EXCEPT ![k].status = st]
      BY <2>1 DEF WriteStatus
    <2>4. k = i
      BY <1>1, <1>3, <2>3
    <2>5. /\ Exists(i)
          /\ objects[i].status = o.status
          /\ o.generation = objects[i].generation => o.domains = objects[i].domains
      BY <1>1, <2>2, <2>4 DEF WorkersInv, ReadInv
    <2>6. objects'[i] = [objects[i] EXCEPT !.status = st]
      BY <1>1, <2>3, <2>4
    <2>7. objects'[i].status = st /\ objects'[i].generation = objects[i].generation
      BY <1>2, <2>5, <2>6 DEF Object
    <2>8. st.ready /\ o.generation = objects[i].generation
      BY <2>1, <2>7 DEF IsReady
    <2> QED
      BY <2>1, <2>4, <2>5, <2>8 DEF LeftOver
  <1> QED
    BY <1>3, <1>4, <1>5, <1>6, <1>7, <1>8, <1>9, ObjectWriters

(* An ingress becomes ready only when its latest version has been probed,  *)
(* with the two exceptions the code has: no gateway pod to probe, and a    *)
(* condition left over by a reconciliation that failed.                    *)
THEOREM ReadinessIsProbed == ControllerSpec => ReadyIsProbed
  <1> DEFINE Probed ==
        \A i \in Ingress :
          Exists(i)' /\ IsReady(objects[i])' /\ ~(Exists(i) /\ IsReady(objects[i]))
          => \/ probes[i] # Nil /\ probes[i].hash = objects[i].domains /\ probes[i].done
             \/ ~gateway
             \/ LeftOver(objects[i])
  <1>1. ControllerInv /\ [ControllerNext]_vars => [Probed]_vars
    <2> SUFFICES ASSUME ControllerInv, [ControllerNext]_vars, NEW i \in Ingress,
                        Exists(i)', IsReady(objects[i])',
                        ~(Exists(i) /\ IsReady(objects[i]))
                 PROVE  \/ probes[i] # Nil /\ probes[i].hash = objects[i].domains /\ probes[i].done
                        \/ ~gateway
                        \/ LeftOver(objects[i])
      OBVIOUS
    <2>1. objects'[i] # Nil /\ IsReady(objects'[i])
      BY DEF Exists, IsReady
    <2> QED
      BY <2>1, ReadyStep
  <1> QED
    BY <1>1, ControllerInvariant, PTL DEF ControllerSpec, ReadyIsProbed

(* A restart that succeeds serves every ready ingress from its first       *)
(* snapshot on: Ready implies NetworkConfigured, by which                  *)
(* getReadyIngresses picks the ingresses to prime the caches with.         *)
THEOREM ReadinessSurvivesRestart == ControllerSpec => ReadySurvivesRestart
  <1> DEFINE Survives ==
        budget'["restart"] # budget["restart"] /\ phase' = "up" =>
          \A i \in Ingress :
            /\ Exists(i) /\ IsReady(objects[i]) /\ ~objects[i].deleting
            /\ services[Backend[i]] # Nil
            => /\ i \in DOMAIN served.routes'
               /\ served.routes'[i].domains = objects[i].domains
  <1>1. ControllerInv /\ [ControllerNext]_vars => [Survives]_vars
    <2> SUFFICES ASSUME ControllerInv, [ControllerNext]_vars,
                        budget'["restart"] # budget["restart"], phase' = "up",
                        NEW i \in Ingress, Exists(i), IsReady(objects[i]),
                        ~objects[i].deleting, services[Backend[i]] # Nil
                 PROVE  /\ i \in DOMAIN served.routes'
                        /\ served.routes'[i].domains = objects[i].domains
      OBVIOUS
    <2>1. /\ StatusInv /\ ControllerTypeOK /\ budget \in [EventKinds -> Nat]
          /\ objects \in [Ingress -> Object \cup {Nil}]
      BY DEF ControllerInv, ControllerTypeOK
    <2>2. \/ UNCHANGED budget
          \/ \E e \in EventKinds \ {"restart"} : Spend(e)
          \/ Restart \/ RestartFatal
      <3>1. {"create", "update", "delete", "scale", "lose", "gateway", "pod", "resync", "error"}
               \subseteq EventKinds \ {"restart"}
        BY DEF EventKinds
      <3>2. CASE Environment
        BY <3>1, <3>2 DEF Environment, DeleteIngress, CreateIngress, UpdateSpec, ScaleService,
                          LoseService, ToggleGateway, DeleteGatewayPod, GlobalResync
      <3>3. CASE Background
        BY <3>3 DEF Background, ProbeSucceeds, EvictionCallback, OnDeletedObserver, ClockTick,
                    Janitor
      <3>4. ASSUME NEW w \in Worker,
                   WorkerStep(w) \/ TranslateFails(w) \/ SnapshotFails(w) \/ DeletionFails(w)
            PROVE  UNCHANGED budget \/ Spend("error")
        <4>1. FinishStep(w) => UNCHANGED budget
          BY DEF FinishStep, FinishConflict, FinishError, FinishReady, FinishProbeKnown,
                 FinishProbeNew, FinishProbeFails, WriteStatus
        <4> QED
          BY <3>4, <4>1 DEF WorkerStep, FinishStep, StartReconcile, Finalize, ObserveDeletion,
                            TranslateIngress, UpdateCaches, BuildSnapshot, SetSnapshot,
                            ResyncConflicts, TranslateFails, SnapshotFails, DeletionFails
      <3>5. CASE UNCHANGED vars
        BY <3>5 DEF vars
      <3> QED
        BY <3>1, <3>2, <3>3, <3>4, <3>5 DEF ControllerNext
    <2>3. Restart
      <3>1. ASSUME NEW e \in EventKinds \ {"restart"}, Spend(e)
            PROVE  FALSE
        <4>1. "restart" \in EventKinds
          BY DEF EventKinds
        <4> QED
          BY <2>1, <3>1, <4>1 DEF Spend
      <3>2. ~RestartFatal
        BY DEF RestartFatal
      <3> QED
        BY <2>2, <3>1, <3>2
    <2>4. i \in DOMAIN Primed /\ Primed[i].domains = objects[i].domains
      <3>1. i \in ReadyIngresses
        BY <2>1 DEF StatusInv, IsReady, ReadyIngresses
      <3>2. objects[i].domains \in SUBSET Domain
        BY <2>1 DEF Exists, Object
      <3>3. /\ Translate(i, objects[i].domains) \in Translation
            /\ Translate(i, objects[i].domains).domains = objects[i].domains
        BY <2>1, <3>2, TranslateType DEF Translate
      <3>4. Translate(i, objects[i].domains) # Nil
        BY <3>3, NilAssumption
      <3>5. i \in DOMAIN Primed /\ Primed[i] = Translate(i, objects[i].domains)
        BY <3>1, <3>4 DEF Primed
      <3> QED
        BY <3>3, <3>5
    <2>5. served.routes' = [j \in DOMAIN translatedIngresses' |-> RouteOf(translatedIngresses'[j])]
      <3>1. RoutesOK'
        BY SnapshotRoutes, PTL
      <3> QED
        BY <2>3, <3>1 DEF Restart, FirstSnapshot, RoutesOK, CachedRoutes, RouteOf
    <2>6. translatedIngresses' = Primed
      BY <2>3 DEF Restart
    <2> QED
      BY <2>4, <2>5, <2>6 DEF RouteOf
  <1> QED
    BY <1>1, ControllerInvariant, PTL DEF ControllerSpec, ReadySurvivesRestart

-----------------------------------------------------------------------------
(* No change is lost. *)

(* A step does not concern ingress i: whatever Handled says of it stays.   *)
Unconcerned(i) ==
    /\ objects'[i] = objects[i]
    /\ i \in DOMAIN translatedIngresses' <=> i \in DOMAIN translatedIngresses
    /\ i \in DOMAIN translatedIngresses => translatedIngresses'[i] = translatedIngresses[i]
    /\ i \in tracked' => i \in tracked /\ services'[Backend[i]] = services[Backend[i]]
    /\ i \in queue => i \in queue'
    /\ \A w \in Worker : \/ worker'[w] = worker[w]
                         \/ worker[w].key # i /\ worker'[w].key # i

LEMMA TranslateStays ==
  ASSUME NEW i, NEW D, services'[Backend[i]] = services[Backend[i]]
  PROVE  Translate(i, D)' = Translate(i, D)
  <1>1. [c \in {Backend[i]} |-> services'[c]] = [c \in {Backend[i]} |-> services[c]]
    OBVIOUS
  <1> QED
    BY <1>1 DEF Translate

LEMMA HandledStays ==
  ASSUME FreshInv, NEW i \in Ingress, Unconcerned(i), phase' = "up" => phase = "up"
  PROVE  i \notin queue' => Handled(i)'
  <1> SUFFICES ASSUME i \notin queue' PROVE Handled(i)'
    OBVIOUS
  <1>1. Handled(i)
    BY DEF FreshInv, Unconcerned
  <1>2. i \in tracked' => \A D : Translate(i, D)' = Translate(i, D)
    <2> SUFFICES ASSUME i \in tracked', NEW D PROVE Translate(i, D)' = Translate(i, D)
      OBVIOUS
    <2>1. services'[Backend[i]] = services[Backend[i]]
      BY DEF Unconcerned
    <2> QED
      BY <2>1, TranslateStays
  <1>3. i \in tracked' /\ Fresh(i) => Fresh(i)'
    <2> SUFFICES ASSUME i \in tracked', Fresh(i) PROVE Fresh(i)'
      OBVIOUS
    <2> DEFINE D == objects[i].domains
    <2>1. objects'[i].domains = D /\ D' = D
      BY DEF Unconcerned
    <2> QED
      BY <1>2, <2>1 DEF Unconcerned, Fresh
  <1>4. (~Exists(i) => i \notin DOMAIN translatedIngresses)'
    BY <1>1 DEF Handled, Exists, Unconcerned
  <1>5. (phase = "up" /\ Current(i) /\ (\A w \in Worker : worker[w].key # i) => Fresh(i))'
    <2> SUFFICES ASSUME phase' = "up", Current(i)', \A w \in Worker : worker'[w].key # i
                 PROVE  Fresh(i)'
      OBVIOUS
    <2>1. \A w \in Worker : worker[w].key # i
      BY DEF Unconcerned
    <2>2. Current(i) /\ i \in tracked'
      BY DEF Current, Exists, Unconcerned
    <2> QED
      BY <1>1, <1>3, <2>1, <2>2 DEF Handled
  <1>6. ASSUME NEW w \in Worker, worker'[w].key = i
        PROVE  UpToDate(i, w)'
    <2>1. worker'[w] = worker[w] /\ worker[w].key = i
      BY <1>6 DEF Unconcerned
    <2>2. UpToDate(i, w)
      BY <1>1, <2>1 DEF Handled
    <2>3. i \in tracked' => i \in tracked /\ services'[Backend[i]] = services[Backend[i]]
      BY DEF Unconcerned
    <2>4. (worker[w].pc = "update" /\ i \in tracked
             => worker[w].translation = Translate(i, worker[w].object.domains))'
      <3> SUFFICES ASSUME worker'[w].pc = "update", i \in tracked'
                   PROVE  worker'[w].translation = Translate(i, worker[w].object.domains)'
        OBVIOUS
      <3>1. worker[w].translation = Translate(i, worker[w].object.domains)
        BY <2>1, <2>2, <2>3 DEF UpToDate
      <3>2. worker[w].object.domains' = worker[w].object.domains
        BY <2>1
      <3>3. Translate(i, worker[w].object.domains)' = Translate(i, worker[w].object.domains)
        BY <2>3, <3>2 DEF Translate
      <3> QED
        BY <2>1, <3>1, <3>3
    <2>5. objects'[i] = objects[i]
      BY DEF Unconcerned
    <2> QED
      BY <1>3, <2>1, <2>2, <2>3, <2>4, <2>5 DEF UpToDate, Exists
  <1> QED
    BY <1>4, <1>5, <1>6 DEF Handled

(* Services, the gateway, resyncs and the background: the ingresses whose  *)
(* backend changes are queued if they are tracked.                         *)
LEMMA FreshSurroundings ==
  ASSUME ControllerInv, FreshInv,
         \/ \E s \in Cluster, e \in Endpoints : ScaleService(s, e)
         \/ \E s \in Cluster : LoseService(s)
         \/ ToggleGateway
         \/ DeleteGatewayPod
         \/ GlobalResync
         \/ Background
  PROVE  FreshInv'
  <1>1. UNCHANGED <<objects, worker, translatedIngresses, phase>> /\ queue \subseteq queue'
    BY DEF ScaleService, LoseService, ToggleGateway, DeleteGatewayPod, GlobalResync,
           Background, ProbeSucceeds, EvictionCallback, OnDeletedObserver, ClockTick, Janitor,
           Tick, DeleteExpired, OnEvicted, cachesVars, apiVars, ctlVars, tracker
  <1>2. tracked' \subseteq tracked
    BY DEF ScaleService, LoseService, ToggleGateway, DeleteGatewayPod, GlobalResync,
           Background, ProbeSucceeds, EvictionCallback, OnDeletedObserver, ClockTick, Janitor,
           ctlVars, tracker
  <1>3. services \in [Cluster -> Endpoints \cup {Nil}]
    BY DEF ControllerInv, ControllerTypeOK
  <1>4. ASSUME NEW i \in Ingress \ queue', i \in tracked'
        PROVE  services'[Backend[i]] = services[Backend[i]]
    <2>1. i \in tracked /\ Backend[i] \in Cluster
      BY <1>2, <1>4, ControllerAssumption
    <2>2. ASSUME NEW s \in Cluster,
                 \/ \E e \in Endpoints : ScaleService(s, e)
                 \/ LoseService(s)
          PROVE  services'[Backend[i]] = services[Backend[i]]
      <3>1. Backend[i] # s
        BY <1>4, <2>1, <2>2 DEF ScaleService, LoseService, Trackers
      <3> QED
        BY <1>3, <2>1, <2>2, <3>1 DEF ScaleService, LoseService
    <2>3. CASE UNCHANGED services
      BY <2>3
    <2> QED
      BY <2>2, <2>3 DEF ToggleGateway, DeleteGatewayPod, GlobalResync, Background,
                        ProbeSucceeds, EvictionCallback, OnDeletedObserver, ClockTick,
                        Janitor, apiVars
  <1>5. ASSUME NEW i \in Ingress \ queue' PROVE Handled(i)'
    <2>1. Unconcerned(i)
      BY <1>1, <1>2, <1>4 DEF Unconcerned
    <2> QED
      BY <1>1, <2>1, HandledStays
  <1> QED
    BY <1>5 DEF FreshInv

(* Users: the ingress they touch is queued. *)
LEMMA FreshUsers ==
  ASSUME ControllerInv, FreshInv, NEW i \in Ingress, NEW D \in SUBSET Domain,
         CreateIngress(i, D) \/ UpdateSpec(i, D) \/ DeleteIngress(i)
  PROVE  FreshInv'
  <1>1. /\ UNCHANGED <<services, worker, translatedIngresses, phase, tracked>>
        /\ queue' = queue \cup {i}
    BY DEF CreateIngress, UpdateSpec, DeleteIngress, cachesVars, tracker
  <1>2. objects \in [Ingress -> Object \cup {Nil}]
    BY DEF ControllerInv, ControllerTypeOK
  <1>3. \A j \in Ingress \ {i} : objects'[j] = objects[j]
    BY <1>2 DEF CreateIngress, UpdateSpec, DeleteIngress
  <1>4. ASSUME NEW j \in Ingress \ queue' PROVE Handled(j)'
    <2>1. Unconcerned(j)
      BY <1>1, <1>3 DEF Unconcerned
    <2> QED
      BY <1>1, <2>1, HandledStays
  <1> QED
    BY <1>4 DEF FreshInv

(* A restart queues every ingress that exists. *)
LEMMA FreshRestart ==
  ASSUME ControllerInv, FreshInv, Restart \/ RestartFatal
  PROVE  FreshInv'
  <1>1. /\ \A w \in Worker : worker'[w].key = Nil
        /\ UNCHANGED objects
    BY IdleFields DEF Restart, RestartFatal, LoseMemory, apiVars
  <1>2. ASSUME NEW i \in Ingress \ queue' PROVE Handled(i)'
    <2>1. \A w \in Worker : worker'[w].key # i
      BY <1>1, NilAssumption
    <2>2. CASE Restart
      <3>1. ~Exists(i) /\ ~Exists(i)'
        BY <1>1, <2>2 DEF Restart, Exists
      <3>2. i \notin DOMAIN translatedIngresses'
        BY <2>2, <3>1 DEF Restart, Primed, ReadyIngresses
      <3> QED
        BY <2>1, <3>1, <3>2 DEF Handled, Current
    <2>3. CASE RestartFatal
      BY <2>1, <2>3 DEF RestartFatal, Handled
    <2> QED
      BY <2>2, <2>3
  <1> QED
    BY <1>2 DEF FreshInv

(* A worker takes a key: it reads the object as it is now, and a deleted   *)
(* one leaves the caches.                                                  *)
LEMMA FreshTakes ==
  ASSUME ControllerInv, FreshInv, NEW w \in Worker, NEW i \in Ingress,
         StartReconcile(w, i) \/ Finalize(w, i) \/ ObserveDeletion(w, i)
  PROVE  FreshInv'
  <1> USE NilAssumption
  <1>1. /\ objects \in [Ingress -> Object \cup {Nil}]
        /\ worker \in [Worker -> WorkerState]
    BY DEF ControllerInv, ControllerTypeOK
  <1>2. /\ worker[w] = Idle /\ i \in queue
        /\ \A v \in Worker : worker[v].key # i
    BY DEF StartReconcile, Finalize, ObserveDeletion, Takes
  <1>3. UNCHANGED <<services, tracked, phase>> /\ queue \ {i} \subseteq queue'
    BY DEF StartReconcile, Finalize, ObserveDeletion, apiVars, tracker
  <1>4. \A j \in Ingress \ {i} :
           /\ objects'[j] = objects[j]
           /\ j \in DOMAIN translatedIngresses' <=> j \in DOMAIN translatedIngresses
           /\ j \in DOMAIN translatedIngresses => translatedIngresses'[j] = translatedIngresses[j]
    BY <1>1 DEF StartReconcile, Finalize, ObserveDeletion, apiVars, cachesVars,
                DeleteIngressInfo, Forget
  <1>5. /\ \A v \in Worker \ {w} : worker'[v] = worker[v]
        /\ worker'[w] = worker[w] \/ worker'[w].key = i
    BY <1>1, <1>2, IdleFields DEF StartReconcile, Finalize, ObserveDeletion, WorkerState
  <1>6. ASSUME NEW j \in Ingress \ queue', j # i PROVE Handled(j)'
    <2>1. worker[w].key # j
      BY <1>2, IdleFields
    <2>2. Unconcerned(j)
      BY <1>3, <1>4, <1>5, <1>6, <2>1 DEF Unconcerned
    <2> QED
      BY <1>3, <1>6, <2>2, HandledStays
  <1>7. ASSUME i \notin queue' PROVE Handled(i)'
    <2>1. \A v \in Worker \ {w} : worker'[v].key # i
      BY <1>2, <1>5
    <2>2. CASE StartReconcile(w, i)
      <3>1. /\ objects[i] \in Object
            /\ worker' = [worker EXCEPT ![w].pc = "translate", ![w].key = i,
                                        ![w].object = objects[i]]
        BY <1>1, <2>2 DEF StartReconcile, Exists
      <3>2. /\ worker'[w].pc = "translate" /\ worker'[w].key = i
            /\ worker'[w].object = objects[i]
        BY <1>1, <3>1 DEF WorkerState
      <3>3. objects'[i] = [objects[i] EXCEPT !.finalizer = TRUE]
        BY <1>1, <2>2 DEF StartReconcile
      <3>4. objects'[i] \in Object /\ objects'[i].domains = objects[i].domains
        BY <3>1, <3>3 DEF Object
      <3>5. Exists(i)' /\ objects[i] # Nil
        BY <3>1, <3>4 DEF Exists
      <3>6. UpToDate(i, w)'
        BY <3>2, <3>4, <3>5 DEF UpToDate
      <3> QED
        BY <2>1, <3>2, <3>5, <3>6 DEF Handled
    <2>3. CASE Finalize(w, i)
      BY <1>2, <1>7, <2>3 DEF Finalize
    <2>4. CASE ObserveDeletion(w, i)
      <3>1. /\ ~Exists(i) /\ DeleteIngressInfo(i) /\ UNCHANGED objects
            /\ worker' = [worker EXCEPT ![w].pc = "snapshot", ![w].key = i]
        BY <2>4 DEF ObserveDeletion, apiVars
      <3>2. /\ worker'[w].pc = "snapshot" /\ worker'[w].key = i
            /\ worker'[w].object = Nil
        BY <1>1, <1>2, <3>1, IdleFields DEF WorkerState
      <3>3. ~Exists(i)' /\ i \notin DOMAIN translatedIngresses'
        BY <3>1 DEF Exists, DeleteIngressInfo, Forget
      <3>4. UpToDate(i, w)'
        BY <3>2, <3>3 DEF UpToDate
      <3> QED
        BY <2>1, <3>2, <3>3, <3>4 DEF Handled
    <2> QED
      BY <2>2, <2>3, <2>4
  <1> QED
    BY <1>6, <1>7 DEF FreshInv

(* Steps in the middle of a reconciliation. *)
MiddleStep(w) ==
    \/ TranslateIngress(w) \/ TranslateFails(w) \/ UpdateCaches(w)
    \/ BuildSnapshot(w) \/ SnapshotFails(w) \/ SetSnapshot(w)

(* What they have in common: the worker keeps key and object, and only the *)
(* translation of its own ingress may change.                              *)
LEMMA MiddleFrame ==
  ASSUME ControllerInv, NEW w \in Worker, MiddleStep(w)
  PROVE  /\ worker[w].pc # "idle" /\ worker'[w].pc # "idle"
         /\ worker'[w].key = worker[w].key /\ worker'[w].object = worker[w].object
         /\ \A v \in Worker \ {w} : worker'[v] = worker[v]
         /\ \A v \in Worker \ {w} : worker[v].key # worker[w].key
         /\ UNCHANGED <<objects, services, phase>>
         /\ queue \subseteq queue'
         /\ \A j \in Ingress \ {worker[w].key} :
               /\ j \in DOMAIN translatedIngresses' <=> j \in DOMAIN translatedIngresses
               /\ j \in DOMAIN translatedIngresses =>
                     translatedIngresses'[j] = translatedIngresses[j]
               /\ j \in tracked' => j \in tracked
  <1>1. worker \in [Worker -> WorkerState]
    BY DEF ControllerInv, ControllerTypeOK
  <1>2. worker[w].pc # "idle"
    BY DEF MiddleStep, TranslateIngress, TranslateFails, UpdateCaches, BuildSnapshot,
           SnapshotFails, SetSnapshot
  <1>3. \A v \in Worker \ {w} : worker[v].key # worker[w].key
    BY <1>2, BusyIsUp DEF ControllerInv, KeysExclusive
  <1>4. UNCHANGED <<objects, services, phase>> /\ queue \subseteq queue'
    BY DEF MiddleStep, TranslateIngress, TranslateFails, UpdateCaches, BuildSnapshot,
           SnapshotFails, SetSnapshot, apiVars
  <1>5. /\ worker'[w].pc # "idle"
        /\ worker'[w].key = worker[w].key /\ worker'[w].object = worker[w].object
        /\ \A v \in Worker \ {w} : worker'[v] = worker[v]
    <2>1. CASE TranslateIngress(w)
      BY <1>1, <2>1 DEF TranslateIngress, WorkerState
    <2>2. CASE TranslateFails(w) \/ SnapshotFails(w)
      BY <1>1, <2>2 DEF TranslateFails, SnapshotFails, WorkerState
    <2>3. CASE UpdateCaches(w)
      BY <1>1, <2>3 DEF UpdateCaches, WorkerState
    <2>4. CASE BuildSnapshot(w)
      BY <1>1, <2>4 DEF BuildSnapshot, WorkerState
    <2>5. CASE SetSnapshot(w)
      BY <1>1, <2>5 DEF SetSnapshot, WorkerState
    <2> QED
      BY <2>1, <2>2, <2>3, <2>4, <2>5 DEF MiddleStep
  <1>6. ASSUME NEW j \in Ingress \ {worker[w].key}
        PROVE  /\ j \in DOMAIN translatedIngresses' <=> j \in DOMAIN translatedIngresses
               /\ j \in DOMAIN translatedIngresses =>
                     translatedIngresses'[j] = translatedIngresses[j]
               /\ j \in tracked' => j \in tracked
    <2>1. CASE UpdateCaches(w)
      BY <2>1 DEF UpdateCaches, UpdateIngressAccepted, UpdateIngressConflict,
                  DeleteIngressInfo, Forget, tracker
    <2>2. CASE UNCHANGED cachesVars
      BY <2>2 DEF MiddleStep, TranslateIngress, TranslateFails, UpdateCaches, BuildSnapshot,
                  SnapshotFails, SetSnapshot, cachesVars, tracker
    <2> QED
      BY <2>1, <2>2 DEF MiddleStep, TranslateIngress, TranslateFails, BuildSnapshot,
                        SnapshotFails, SetSnapshot
  <1> QED
    BY <1>2, <1>3, <1>4, <1>5, <1>6

LEMMA FreshMiddle ==
  ASSUME ControllerInv, FreshInv, NEW w \in Worker, MiddleStep(w)
  PROVE  FreshInv'
  <1> USE NilAssumption
  <1> DEFINE k == worker[w].key
  <1>1. PICK i \in Ingress : i = k
    BY MiddleFrame, BusyIsUp
  <1>2. /\ worker[w].pc # "idle" /\ worker'[w].pc # "idle"
        /\ worker'[w].key = i /\ worker'[w].object = worker[w].object
        /\ \A v \in Worker \ {w} : worker'[v] = worker[v] /\ worker'[v].key # i
        /\ UNCHANGED <<objects, services, phase>>
        /\ queue \subseteq queue'
        /\ \A j \in Ingress \ {i} :
               /\ j \in DOMAIN translatedIngresses' <=> j \in DOMAIN translatedIngresses
               /\ j \in DOMAIN translatedIngresses =>
                     translatedIngresses'[j] = translatedIngresses[j]
               /\ j \in tracked' => j \in tracked
    BY <1>1, MiddleFrame
  <1>3. ASSUME NEW j \in Ingress \ queue', j # i PROVE Handled(j)'
    <2>1. Unconcerned(j)
      BY <1>1, <1>2, <1>3 DEF Unconcerned
    <2> QED
      BY <1>2, <1>3, <2>1, HandledStays
  <1>4. /\ worker \in [Worker -> WorkerState] /\ worker[w] \in WorkerState
        /\ ControllerTypeOK /\ StepInv(w) /\ ReadInv(w)
    BY <1>2, BusyIsUp DEF ControllerInv, ControllerTypeOK
  <1>5. ASSUME i \notin queue' PROVE Handled(i)'
    <2>1. Handled(i) /\ UpToDate(i, w)
      BY <1>1, <1>2, <1>5 DEF FreshInv, Handled
    <2> DEFINE o == worker[w].object
    <2>2. /\ o = Nil => ~Exists(i)
          /\ o # Nil => o.domains = objects[i].domains /\ Exists(i)
      BY <1>1, <1>4, <2>1 DEF UpToDate, ReadInv
    <2>3. (~Exists(i) => i \notin DOMAIN translatedIngresses)'
      <3>1. CASE UNCHANGED translatedIngresses
        BY <1>2, <2>1, <3>1 DEF Handled, Exists
      <3>2. CASE UpdateCaches(w)
        <4>1. o # Nil
          BY <1>4, <3>2 DEF UpdateCaches, StepInv
        <4> QED
          BY <1>2, <2>2, <4>1 DEF Exists
      <3> QED
        BY <3>1, <3>2 DEF MiddleStep, TranslateIngress, TranslateFails, BuildSnapshot,
                          SnapshotFails, SetSnapshot, cachesVars
    <2>4. /\ (worker[w].pc = "update" /\ i \in tracked
              => worker[w].translation = Translate(i, worker[w].object.domains))'
          /\ (/\ worker[w].pc \in {"snapshot", "push", "finish"} /\ worker[w].outcome = "ok"
              /\ worker[w].object # Nil /\ i \in tracked /\ services[Backend[i]] # Nil
              => Fresh(i))'
      <3>1. CASE TranslateIngress(w)
        <4> DEFINE t == Translate(i, o.domains)
        <4>1. i \in tracked
          BY <1>1, <1>5, <3>1 DEF TranslateIngress
        <4>2. /\ worker'[w].pc = (IF t = Nil THEN "snapshot" ELSE "update")
              /\ worker'[w].translation = t
          BY <1>1, <1>4, <3>1 DEF TranslateIngress, WorkerState
        <4>3. t' = t
          BY <1>2 DEF Translate
        <4>4. o # Nil /\ o \in Object
          BY <1>4, <3>1 DEF TranslateIngress, StepInv, WorkerState
        <4>5. services[Backend[i]] # Nil => t # Nil
          <5> SUFFICES ASSUME services[Backend[i]] # Nil PROVE t # Nil
            OBVIOUS
          <5>1. o.domains \in SUBSET Domain
            BY <4>4 DEF Object
          <5>2. t \in Translation
            BY <1>4, <5>1, TranslateType
          <5> QED
            BY <5>2
        <4> HIDE DEF t
        <4>6. worker'[w].pc = "update" => worker'[w].translation = Translate(i, worker[w].object.domains)'
          BY <1>2, <4>2, <4>3 DEF t
        <4>7. worker'[w].pc \in {"snapshot", "push", "finish"} => services[Backend[i]] = Nil
          BY <4>2, <4>5
        <4> QED
          BY <1>2, <4>6, <4>7
      <3>2. CASE TranslateFails(w) \/ SnapshotFails(w)
        <4>1. worker'[w].pc = "finish" /\ worker'[w].outcome = "error"
          BY <1>4, <3>2 DEF TranslateFails, SnapshotFails, WorkerState
        <4> QED
          BY <4>1
      <3>3. CASE UpdateCaches(w)
        <4> DEFINE t == worker[w].translation
        <4>1. CASE UpdateIngressAccepted(i, t)
          <5>1. worker'[w].pc = "snapshot"
            BY <1>1, <1>4, <3>3, <4>1 DEF UpdateCaches, WorkerState, UpdateIngressAccepted,
                                          UpdateIngressConflict
          <5>2. i \in DOMAIN translatedIngresses' /\ translatedIngresses'[i] = t
            BY <4>1 DEF UpdateIngressAccepted
          <5>3. /\ worker[w].pc = "update" /\ UNCHANGED tracked
            BY <3>3 DEF UpdateCaches, tracker
          <5>4. o # Nil
            BY <1>4, <5>3 DEF StepInv
          <5>5. i \in tracked => t = Translate(i, objects[i].domains)
            BY <2>1, <2>2, <5>3, <5>4 DEF UpToDate
          <5>6. Translate(i, objects[i].domains)' = Translate(i, objects[i].domains)
            BY <1>2 DEF Translate
          <5> QED
            BY <5>1, <5>2, <5>3, <5>5, <5>6 DEF Fresh
        <4>2. CASE UpdateIngressConflict(i, t)
          <5>1. worker'[w].pc = "finish" /\ worker'[w].outcome = "conflict"
            BY <1>1, <1>4, <3>3, <4>2 DEF UpdateCaches, WorkerState, UpdateIngressAccepted,
                                          UpdateIngressConflict
          <5> QED
            BY <5>1
        <4> QED
          BY <1>1, <3>3, <4>1, <4>2 DEF UpdateCaches
      <3>4. CASE BuildSnapshot(w) \/ SetSnapshot(w)
        <4>1. /\ worker[w].pc \in {"snapshot", "push"} /\ worker'[w].pc \in {"push", "finish"}
              /\ worker'[w].outcome = worker[w].outcome
          BY <1>4, <3>4 DEF BuildSnapshot, SetSnapshot, WorkerState
        <4>2. UNCHANGED <<translatedIngresses, tracked>>
          BY <3>4 DEF BuildSnapshot, SetSnapshot, cachesVars, tracker
        <4>3. Translate(i, objects[i].domains)' = Translate(i, objects[i].domains)
          BY <1>2 DEF Translate
        <4>4. Fresh(i) => Fresh(i)'
          BY <4>2, <4>3 DEF Fresh
        <4> QED
          BY <1>2, <2>1, <4>1, <4>2, <4>4 DEF UpToDate
      <3> QED
        BY <3>1, <3>2, <3>3, <3>4 DEF MiddleStep
    <2>5. UpToDate(i, w)'
      BY <1>2, <2>2, <2>4 DEF UpToDate, Exists
    <2> QED
      BY <1>2, <2>3, <2>5 DEF Handled
  <1> QED
    BY <1>3, <1>5 DEF FreshInv

(* The end of a reconciliation: the caches are as the spec that was read   *)
(* says, the ingress is in conflict, or its key is queued again.           *)
LEMMA FreshFinish ==
  ASSUME ControllerInv, FreshInv, NEW w \in Worker,
         FinishStep(w) \/ ResyncConflicts(w) \/ DeletionFails(w)
  PROVE  FreshInv'
  <1> USE NilAssumption
  <1>1. worker[w].pc # "idle"
    <2>1. FinishStep(w) => worker[w].pc = "finish"
      BY FinishCases
    <2> QED
      BY <2>1 DEF ResyncConflicts, DeletionFails
  <1>2. PICK i \in Ingress : i = worker[w].key
    BY <1>1, BusyIsUp
  <1>3. /\ objects \in [Ingress -> Object \cup {Nil}]
        /\ worker \in [Worker -> WorkerState]
        /\ \A v \in Worker \ {w} : worker[v].key # i
    BY <1>2 DEF ControllerInv, ControllerTypeOK, KeysExclusive
  <1>4. /\ worker' = [worker EXCEPT ![w] = Idle]
        /\ UNCHANGED <<translatedIngresses, services, tracked, phase>>
        /\ queue \subseteq queue'
        /\ \A j \in Ingress \ {i} : objects'[j] = objects[j]
    <2>1. CASE FinishStep(w)
      <3>1. PICK st, failed : WriteStatus(w, st, failed)
        BY <2>1, FinishCases
      <3> QED
        BY <1>2, <1>3, <3>1 DEF WriteStatus, tracker, cachesVars
    <2>2. CASE ResyncConflicts(w) \/ DeletionFails(w)
      BY <2>2 DEF ResyncConflicts, DeletionFails, apiVars, tracker, cachesVars
    <2> QED
      BY <2>1, <2>2
  <1>5. /\ worker'[w] = Idle /\ worker'[w].key = Nil
        /\ \A v \in Worker \ {w} : worker'[v] = worker[v]
    BY <1>3, <1>4, IdleFields
  <1>6. ASSUME NEW j \in Ingress \ queue', j # i PROVE Handled(j)'
    <2>1. Unconcerned(j)
      BY <1>2, <1>4, <1>5, <1>6 DEF Unconcerned
    <2> QED
      BY <1>4, <1>6, <2>1, HandledStays
  <1>7. ASSUME i \notin queue' PROVE Handled(i)'
    <2>1. Handled(i) /\ UpToDate(i, w)
      BY <1>2, <1>4, <1>7 DEF FreshInv, Handled
    <2>2. \A v \in Worker : worker'[v].key # i
      BY <1>3, <1>5
    <2>3. CASE FinishStep(w)
      <3>1. PICK st \in Status, failed \in BOOLEAN :
               /\ WriteStatus(w, st, failed)
               /\ failed \/ st.lb = "Conflict" \/ worker[w].outcome = "ok"
        BY <2>3, FinishCases
      <3>2. worker[w].pc = "finish" /\ worker[w].object # Nil /\ Exists(i)
        BY <1>2, <2>3, FinishCases
      <3>3. objects[i] \in Object
        BY <1>3, <3>2 DEF Exists
      <3>4. objects'[i] = [objects[i] EXCEPT !.status = st]
        BY <1>2, <1>3, <3>1 DEF WriteStatus
      <3>5. /\ objects'[i] \in Object /\ objects'[i].domains = objects[i].domains
            /\ objects'[i].status = st
        BY <3>3, <3>4 DEF Object
      <3>6. ~failed
        BY <1>2, <1>7, <3>1 DEF WriteStatus
      <3>7. Exists(i)'
        BY <3>5 DEF Exists
      <3>8. Current(i)' => Fresh(i)'
        <4> SUFFICES ASSUME Current(i)' PROVE Fresh(i)'
          OBVIOUS
        <4>1. worker[w].outcome = "ok"
          BY <3>1, <3>5, <3>6 DEF Current
        <4>2. i \in tracked /\ services[Backend[i]] # Nil
          BY <1>4 DEF Current
        <4>3. Fresh(i)
          BY <2>1, <3>2, <4>1, <4>2 DEF UpToDate
        <4>4. Translate(i, objects[i].domains)' = Translate(i, objects[i].domains)
          BY <1>4, <3>5 DEF Translate
        <4> QED
          BY <1>4, <4>3, <4>4 DEF Fresh
      <3> QED
        BY <2>2, <3>7, <3>8 DEF Handled
    <2>4. CASE DeletionFails(w)
      BY <1>2, <1>7, <2>4 DEF DeletionFails
    <2>5. CASE ResyncConflicts(w)
      <3>1. ~Exists(i) /\ UNCHANGED objects
        BY <2>1, <2>5 DEF UpToDate, ResyncConflicts, apiVars
      <3> QED
        BY <1>4, <2>1, <2>2, <3>1 DEF Handled, Exists, Current
    <2> QED
      BY <2>3, <2>4, <2>5
  <1> QED
    BY <1>6, <1>7 DEF FreshInv

LEMMA FreshInit == ControllerInit => FreshInv
  <1> SUFFICES ASSUME ControllerInit, NEW i \in Ingress PROVE Handled(i)
    BY DEF FreshInv
  <1>1. ~Exists(i) /\ i \notin DOMAIN translatedIngresses
    BY DEF ControllerInit, Exists, NewCaches
  <1>2. \A w \in Worker : worker[w].key # i
    BY IdleFields, NilAssumption DEF ControllerInit
  <1> QED
    BY <1>1, <1>2 DEF Handled, Current

LEMMA FreshNext == ControllerInv /\ FreshInv /\ [ControllerNext]_vars => FreshInv'
  <1> SUFFICES ASSUME ControllerInv, FreshInv, [ControllerNext]_vars
               PROVE  FreshInv'
    OBVIOUS
  <1>1. CASE Environment
    <2>1. CASE \E i \in Ingress, D \in SUBSET Domain :
                  CreateIngress(i, D) \/ UpdateSpec(i, D) \/ DeleteIngress(i)
      BY <2>1, FreshUsers
    <2>2. CASE Restart \/ RestartFatal
      BY <2>2, FreshRestart
    <2>3. CASE \/ \E s \in Cluster, e \in Endpoints : ScaleService(s, e)
               \/ \E s \in Cluster : LoseService(s)
               \/ ToggleGateway
               \/ DeleteGatewayPod
               \/ GlobalResync
      BY <2>3, FreshSurroundings
    <2>4. CASE \E i \in Ingress : DeleteIngress(i)
      <3>1. {} \in SUBSET Domain
        OBVIOUS
      <3> QED
        BY <2>1, <2>4, <3>1
    <2> QED
      BY <1>1, <2>1, <2>2, <2>3, <2>4 DEF Environment
  <1>2. ASSUME NEW w \in Worker,
               WorkerStep(w) \/ TranslateFails(w) \/ SnapshotFails(w) \/ DeletionFails(w)
        PROVE  FreshInv'
    <2>1. CASE \E i \in Ingress : StartReconcile(w, i) \/ Finalize(w, i) \/ ObserveDeletion(w, i)
      BY <2>1, FreshTakes
    <2>2. CASE MiddleStep(w)
      BY <2>2, FreshMiddle
    <2>3. CASE FinishStep(w) \/ ResyncConflicts(w) \/ DeletionFails(w)
      BY <2>3, FreshFinish
    <2> QED
      BY <1>2, <2>1, <2>2, <2>3 DEF WorkerStep, MiddleStep, FinishStep
  <1>3. CASE Background
    BY <1>3, FreshSurroundings
  <1>4. CASE UNCHANGED vars
    <2> SUFFICES ASSUME NEW i \in Ingress, i \notin queue' PROVE Handled(i)'
      BY DEF FreshInv
    <2>1. Unconcerned(i) /\ UNCHANGED phase
      BY <1>4 DEF vars, cachesVars, apiVars, ctlVars, tracker, Unconcerned
    <2> QED
      BY <2>1, HandledStays
  <1> QED
    BY <1>1, <1>2, <1>3, <1>4 DEF ControllerNext

(* No event is lost.  Whatever users, services and restarts do while a     *)
(* worker has an ingress in hand, the ingress is queued or the worker's    *)
(* knowledge of it is the latest.                                          *)
THEOREM NoChangeIsLost == ControllerSpec => []FreshInv
  BY ControllerInvariant, FreshInit, FreshNext, PTL DEF ControllerSpec

(* Once nothing is pending, the caches hold the latest form of every       *)
(* ingress that is tracked, whose backend is there and that is not in      *)
(* conflict, and no deleted ingress: for every number of workers.          *)
THEOREM CachesBecomeFresh == ControllerSpec => []QuietCachesFresh
  <1>1. FreshInv => QuietCachesFresh
    <2> SUFFICES ASSUME FreshInv, Quiet, NEW i \in Ingress
                 PROVE  /\ ~Exists(i) => i \notin DOMAIN translatedIngresses
                        /\ Current(i) => Fresh(i)
      BY DEF QuietCachesFresh, Fresh
    <2>1. Handled(i)
      BY DEF FreshInv, Quiet
    <2>2. phase = "up" /\ \A w \in Worker : worker[w].key # i
      BY IdleFields, NilAssumption DEF Quiet
    <2> QED
      BY <2>1, <2>2 DEF Handled
  <1> QED
    BY <1>1, NoChangeIsLost, PTL

-----------------------------------------------------------------------------
(* With one worker, Envoy sees what the caches have. *)

OneWorker == \A v, w \in Worker : v = w

(* A step leaves ingress i as it is, in the caches and for Envoy. *)
LEMMA InSyncStays ==
  ASSUME NEW i \in Ingress, SyncInv, phase = "up",
         i \in queue => i \in queue',
         objects'[i] = objects[i],
         UNCHANGED served,
         i \in DOMAIN translatedIngresses' <=> i \in DOMAIN translatedIngresses,
         i \in DOMAIN translatedIngresses => translatedIngresses'[i] = translatedIngresses[i],
         \A w \in Worker : worker[w].key = i => worker'[w].key = i
  PROVE  i \notin queue' => InSync(i)'
  <1> SUFFICES ASSUME i \notin queue' PROVE InSync(i)'
    OBVIOUS
  <1>1. InSync(i)
    BY DEF SyncInv
  <1>2. (\E w \in Worker : worker[w].key = i) => (\E w \in Worker : worker[w].key = i)'
    OBVIOUS
  <1>3. InConflictNow(i) => InConflictNow(i)'
    BY DEF InConflictNow, Exists
  <1>4. ServedAsCached(i) => ServedAsCached(i)'
    BY DEF ServedAsCached, RouteOf
  <1> QED
    BY <1>1, <1>2, <1>3, <1>4 DEF InSync

(* A step that leaves caches, snapshot and workers alone. *)
LEMMA SnapshotCurrentStays ==
  ASSUME NEW w \in Worker, SnapshotCurrent(w), worker'[w] = worker[w],
         UNCHANGED <<translatedIngresses, served>>
  PROVE  SnapshotCurrent(w)'
  <1>1. CachedRoutes' = CachedRoutes
    BY DEF CachedRoutes, RouteOf
  <1>2. ServedAsCached(worker[w].key)' <=> ServedAsCached(worker[w].key)
    BY DEF ServedAsCached, RouteOf
  <1> QED
    BY <1>1, <1>2 DEF SnapshotCurrent

(* Users, services, the gateway, resyncs and the background. *)
LEMMA SyncSurroundings ==
  ASSUME ControllerInv, SyncInv,
         \/ \E i \in Ingress, D \in SUBSET Domain :
               CreateIngress(i, D) \/ UpdateSpec(i, D) \/ DeleteIngress(i)
         \/ \E s \in Cluster, e \in Endpoints : ScaleService(s, e)
         \/ \E s \in Cluster : LoseService(s)
         \/ ToggleGateway
         \/ DeleteGatewayPod
         \/ GlobalResync
         \/ Background
         \/ UNCHANGED vars
  PROVE  SyncInv'
  <1> SUFFICES ASSUME phase' = "up"
               PROVE  /\ \A i \in Ingress \ queue' : InSync(i)'
                      /\ \A w \in Worker : SnapshotCurrent(w)'
    BY DEF SyncInv
  <1>1. UNCHANGED <<translatedIngresses, worker, served, phase>> /\ queue \subseteq queue'
    BY DEF CreateIngress, UpdateSpec, DeleteIngress, ScaleService, LoseService, ToggleGateway,
           DeleteGatewayPod, GlobalResync, Background, ProbeSucceeds, EvictionCallback,
           OnDeletedObserver, ClockTick, Janitor, Tick, DeleteExpired, OnEvicted, vars,
           cachesVars, apiVars, ctlVars, tracker
  <1>2. ASSUME NEW i \in Ingress \ queue' PROVE objects'[i] = objects[i]
    <2>1. objects \in [Ingress -> Object \cup {Nil}]
      BY DEF ControllerInv, ControllerTypeOK
    <2>2. CASE \E j \in Ingress, D \in SUBSET Domain :
                  CreateIngress(j, D) \/ UpdateSpec(j, D) \/ DeleteIngress(j)
      BY <1>2, <2>1, <2>2 DEF CreateIngress, UpdateSpec, DeleteIngress
    <2>3. CASE UNCHANGED objects
      BY <2>3
    <2> QED
      BY <2>2, <2>3 DEF ScaleService, LoseService, ToggleGateway, DeleteGatewayPod,
                        GlobalResync, Background, ProbeSucceeds, EvictionCallback,
                        OnDeletedObserver, ClockTick, Janitor, apiVars, vars
  <1>3. ASSUME NEW i \in Ingress \ queue' PROVE InSync(i)'
    BY <1>1, <1>2, InSyncStays
  <1>4. ASSUME NEW w \in Worker PROVE SnapshotCurrent(w)'
    BY <1>1, SnapshotCurrentStays DEF SyncInv
  <1> QED
    BY <1>3, <1>4

(* A state in which every route Envoy has is that of the caches. *)
LEMMA RoutesServed ==
  ASSUME served.routes = CachedRoutes, NEW i
  PROVE  ServedAsCached(i)
  BY DEF ServedAsCached, CachedRoutes

LEMMA SyncRestart ==
  ASSUME Restart \/ RestartFatal
  PROVE  SyncInv'
  <1> SUFFICES ASSUME phase' = "up"
               PROVE  /\ \A i \in Ingress \ queue' : InSync(i)'
                      /\ \A w \in Worker : SnapshotCurrent(w)'
    BY DEF SyncInv
  <1>1. Restart
    BY DEF RestartFatal
  <1>2. RoutesOK'
    BY SnapshotRoutes, PTL
  <1>3. (served.routes = CachedRoutes)'
    BY <1>1, <1>2 DEF Restart, FirstSnapshot, RoutesOK
  <1>4. ASSUME NEW i \in Ingress PROVE ServedAsCached(i)'
    BY <1>3 DEF ServedAsCached, CachedRoutes
  <1>5. ASSUME NEW w \in Worker PROVE SnapshotCurrent(w)'
    <2>1. worker'[w] = Idle /\ Idle.pc = "idle" /\ Idle.outcome = "ok"
      BY <1>1 DEF Restart, LoseMemory, Idle
    <2> QED
      BY <2>1 DEF SnapshotCurrent
  <1> QED
    BY <1>4, <1>5 DEF InSync

(* The worker takes a key. *)
LEMMA SyncTakes ==
  ASSUME OneWorker, ControllerInv, SyncInv, NEW w \in Worker, NEW i \in Ingress,
         StartReconcile(w, i) \/ Finalize(w, i) \/ ObserveDeletion(w, i)
  PROVE  SyncInv'
  <1> USE NilAssumption
  <1>1. /\ objects \in [Ingress -> Object \cup {Nil}]
        /\ worker \in [Worker -> WorkerState]
    BY DEF ControllerInv, ControllerTypeOK
  <1>2. phase = "up" /\ worker[w] = Idle /\ i \in queue
    BY DEF StartReconcile, Finalize, ObserveDeletion, Takes
  <1>3. UNCHANGED <<served, phase>> /\ queue \ {i} \subseteq queue'
    BY DEF StartReconcile, Finalize, ObserveDeletion, apiVars, tracker
  <1>4. \A j \in Ingress \ {i} :
           /\ objects'[j] = objects[j]
           /\ j \in DOMAIN translatedIngresses' <=> j \in DOMAIN translatedIngresses
           /\ j \in DOMAIN translatedIngresses => translatedIngresses'[j] = translatedIngresses[j]
    BY <1>1 DEF StartReconcile, Finalize, ObserveDeletion, apiVars, cachesVars,
                DeleteIngressInfo, Forget
  <1>5. /\ worker'[w].key = i \/ i \in queue'
        /\ worker'[w].pc \in {"idle", "translate", "snapshot"}
        /\ worker'[w].outcome = "ok"
    <2>1. Idle.outcome = "ok" /\ Idle.pc = "idle"
      BY DEF Idle
    <2>2. CASE StartReconcile(w, i)
      BY <1>1, <1>2, <2>1, <2>2 DEF StartReconcile, WorkerState
    <2>3. CASE Finalize(w, i)
      BY <1>2, <2>1, <2>3 DEF Finalize
    <2>4. CASE ObserveDeletion(w, i)
      BY <1>1, <1>2, <2>1, <2>4 DEF ObserveDeletion, WorkerState
    <2> QED
      BY <2>2, <2>3, <2>4
  <1>6. ASSUME NEW j \in Ingress \ queue' PROVE InSync(j)'
    <2>1. CASE j = i
      BY <1>5, <1>6, <2>1 DEF InSync
    <2>2. CASE j # i
      <3>1. \A v \in Worker : worker[v].key # j
        BY <1>2, IdleFields DEF OneWorker
      <3> QED
        BY <1>2, <1>3, <1>4, <1>6, <2>2, <3>1, InSyncStays
    <2> QED
      BY <2>1, <2>2
  <1>7. ASSUME NEW v \in Worker PROVE SnapshotCurrent(v)'
    <2>1. v = w
      BY DEF OneWorker
    <2> QED
      BY <1>5, <2>1 DEF SnapshotCurrent
  <1> QED
    BY <1>6, <1>7 DEF SyncInv

(* The middle of a reconciliation. *)
LEMMA SyncMiddle ==
  ASSUME OneWorker, ControllerInv, SyncInv, NEW w \in Worker, MiddleStep(w)
  PROVE  SyncInv'
  <1> USE NilAssumption
  <1>1. PICK i \in Ingress : i = worker[w].key
    BY MiddleFrame, BusyIsUp
  <1>2. /\ worker[w].pc # "idle"
        /\ worker'[w].key = i /\ worker'[w].object = worker[w].object
        /\ UNCHANGED <<objects, phase>>
        /\ queue \subseteq queue'
        /\ \A j \in Ingress \ {i} :
               /\ j \in DOMAIN translatedIngresses' <=> j \in DOMAIN translatedIngresses
               /\ j \in DOMAIN translatedIngresses =>
                     translatedIngresses'[j] = translatedIngresses[j]
    BY <1>1, MiddleFrame
  <1>3. /\ worker \in [Worker -> WorkerState] /\ worker[w] \in WorkerState
        /\ phase = "up" /\ StepInv(w)
    BY <1>2, BusyIsUp DEF ControllerInv, ControllerTypeOK
  <1>4. SnapshotCurrent(w)
    BY <1>3 DEF SyncInv
  <1>5. \A v \in Worker : v = w
    BY DEF OneWorker
  <1>6. CASE SetSnapshot(w)
    <2>1. /\ served' = worker[w].snapshot /\ UNCHANGED translatedIngresses
          /\ worker'[w].pc = "finish" /\ worker'[w].outcome = worker[w].outcome
          /\ worker[w].pc = "push"
      BY <1>3, <1>6 DEF SetSnapshot, cachesVars, WorkerState
    <2>2. CachedRoutes' = CachedRoutes
      BY <2>1 DEF CachedRoutes, RouteOf
    <2>3. (served.routes = CachedRoutes)'
      BY <1>4, <2>1, <2>2 DEF SnapshotCurrent
    <2>4. ASSUME NEW j \in Ingress PROVE ServedAsCached(j)'
      BY <2>3 DEF ServedAsCached, CachedRoutes
    <2>5. ServedAsCached(worker[w].key)'
      BY <1>2, <2>3 DEF ServedAsCached, CachedRoutes
    <2>6. SnapshotCurrent(w)'
      BY <1>2, <1>4, <2>1, <2>5 DEF SnapshotCurrent
    <2> QED
      BY <1>5, <2>4, <2>6 DEF SyncInv, InSync
  <1>7. CASE ~SetSnapshot(w)
    <2>1. UNCHANGED served
      BY <1>7 DEF MiddleStep, TranslateIngress, TranslateFails, UpdateCaches, BuildSnapshot,
                  SnapshotFails
    <2>2. ASSUME NEW j \in Ingress \ queue' PROVE InSync(j)'
      <3>1. CASE j = i
        BY <1>2, <3>1 DEF InSync
      <3>2. CASE j # i
        <4>1. \A v \in Worker : worker[v].key = j => worker'[v].key = j
          BY <1>1, <1>5, <3>2
        <4> QED
          BY <1>2, <1>3, <2>1, <2>2, <3>2, <4>1, InSyncStays
      <3> QED
        BY <3>1, <3>2
    <2>3. SnapshotCurrent(w)'
      <3>1. CASE TranslateIngress(w)
        <4>1. worker'[w].pc \in {"snapshot", "update"} /\ worker'[w].outcome = worker[w].outcome
          BY <1>3, <3>1 DEF TranslateIngress, WorkerState
        <4> QED
          BY <1>2, <1>4, <4>1 DEF SnapshotCurrent
      <3>2. CASE TranslateFails(w) \/ SnapshotFails(w)
        <4>1. worker'[w].pc = "finish" /\ worker'[w].outcome = "error" /\ worker[w].object # Nil
          BY <1>3, <3>2 DEF TranslateFails, SnapshotFails, WorkerState, StepInv
        <4> QED
          BY <1>2, <4>1 DEF SnapshotCurrent
      <3>3. CASE UpdateCaches(w)
        <4>1. worker[w].object # Nil
          BY <1>3, <3>3 DEF UpdateCaches, StepInv
        <4>2. \/ worker'[w].pc = "snapshot"
              \/ worker'[w].pc = "finish" /\ worker'[w].outcome = "conflict"
          BY <1>3, <3>3 DEF UpdateCaches, WorkerState
        <4> QED
          BY <1>2, <4>1, <4>2 DEF SnapshotCurrent
      <3>4. CASE BuildSnapshot(w)
        <4>1. PICK s \in ToEnvoySnapshot :
                 worker' = [worker EXCEPT ![w].pc = "push", ![w].snapshot = s]
          BY <3>4 DEF BuildSnapshot
        <4>2. /\ worker'[w].pc = "push" /\ worker'[w].snapshot = s
              /\ worker'[w].outcome = worker[w].outcome
          BY <1>3, <4>1 DEF WorkerState
        <4>3. s.routes = CachedRoutes
          BY SnapshotRoutes DEF RoutesOK
        <4>4. CachedRoutes' = CachedRoutes
          BY <3>4 DEF BuildSnapshot, cachesVars, CachedRoutes, RouteOf
        <4> QED
          BY <1>2, <1>4, <4>2, <4>3, <4>4 DEF SnapshotCurrent
      <3> QED
        BY <1>7, <3>1, <3>2, <3>3, <3>4 DEF MiddleStep
    <2> QED
      BY <1>5, <2>2, <2>3 DEF SyncInv
  <1> QED
    BY <1>6, <1>7

(* The end of a reconciliation. *)
LEMMA SyncFinish ==
  ASSUME OneWorker, ControllerInv, SyncInv, NEW w \in Worker,
         FinishStep(w) \/ ResyncConflicts(w) \/ DeletionFails(w)
  PROVE  SyncInv'
  <1> USE NilAssumption
  <1>1. worker[w].pc # "idle"
    <2>1. FinishStep(w) => worker[w].pc = "finish"
      BY FinishCases
    <2> QED
      BY <2>1 DEF ResyncConflicts, DeletionFails
  <1>2. PICK i \in Ingress : i = worker[w].key
    BY <1>1, BusyIsUp
  <1>3. /\ objects \in [Ingress -> Object \cup {Nil}]
        /\ worker \in [Worker -> WorkerState]
        /\ phase = "up"
    BY <1>1, BusyIsUp DEF ControllerInv, ControllerTypeOK
  <1>4. /\ worker' = [worker EXCEPT ![w] = Idle]
        /\ UNCHANGED <<translatedIngresses, served>>
        /\ queue \subseteq queue'
        /\ \A j \in Ingress \ {i} : objects'[j] = objects[j]
    <2>1. CASE FinishStep(w)
      <3>1. PICK st, failed : WriteStatus(w, st, failed)
        BY <2>1, FinishCases
      <3> QED
        BY <1>2, <1>3, <3>1 DEF WriteStatus, tracker, cachesVars
    <2>2. CASE ResyncConflicts(w) \/ DeletionFails(w)
      BY <2>2 DEF ResyncConflicts, DeletionFails, apiVars, tracker, cachesVars
    <2> QED
      BY <2>1, <2>2
  <1>5. /\ worker'[w] = Idle /\ \A v \in Worker : v = w
        /\ Idle.pc = "idle" /\ Idle.outcome = "ok"
    BY <1>3, <1>4 DEF OneWorker, Idle
  <1>6. ASSUME NEW j \in Ingress \ queue', j # i PROVE InSync(j)'
    <2>1. \A v \in Worker : worker[v].key # j
      BY <1>2, <1>5, <1>6
    <2> QED
      BY <1>3, <1>4, <1>6, <2>1, InSyncStays
  <1>7. ASSUME i \notin queue' PROVE InSync(i)'
    <2>1. SnapshotCurrent(w)
      BY <1>3 DEF SyncInv
    <2>2. worker[w].pc = "finish" /\ worker[w].outcome = "ok" => ServedAsCached(i)'
      <3>1. worker[w].pc = "finish" /\ worker[w].outcome = "ok" => ServedAsCached(i)
        BY <1>2, <2>1 DEF SnapshotCurrent
      <3>2. ServedAsCached(i) => ServedAsCached(i)'
        BY <1>4 DEF ServedAsCached, RouteOf
      <3> QED
        BY <3>1, <3>2
    <2>3. CASE FinishStep(w)
      <3>1. PICK st \in Status, failed \in BOOLEAN :
               /\ WriteStatus(w, st, failed)
               /\ failed \/ st.lb = "Conflict" \/ worker[w].outcome = "ok"
        BY <2>3, FinishCases
      <3>2. worker[w].pc = "finish" /\ Exists(i)
        BY <1>2, <2>3, FinishCases
      <3>3. objects[i] \in Object
        BY <1>3, <3>2 DEF Exists
      <3>4. objects'[i] = [objects[i] EXCEPT !.status = st]
        BY <1>2, <1>3, <3>1 DEF WriteStatus
      <3>5. objects'[i] \in Object /\ objects'[i].status = st
        BY <3>3, <3>4 DEF Object
      <3>6. ~failed
        BY <1>2, <1>7, <3>1 DEF WriteStatus
      <3>7. st.lb = "Conflict" => InConflictNow(i)'
        BY <3>5 DEF InConflictNow, Exists
      <3> QED
        BY <2>2, <3>1, <3>2, <3>6, <3>7 DEF InSync
    <2>4. CASE DeletionFails(w)
      BY <1>2, <1>7, <2>4 DEF DeletionFails
    <2>5. CASE ResyncConflicts(w)
      BY <2>1, <2>2, <2>5 DEF ResyncConflicts, SnapshotCurrent, InSync
    <2> QED
      BY <2>3, <2>4, <2>5
  <1>8. ASSUME NEW v \in Worker PROVE SnapshotCurrent(v)'
    BY <1>5 DEF SnapshotCurrent
  <1> QED
    BY <1>6, <1>7, <1>8 DEF SyncInv

LEMMA SyncInit == ControllerInit => SyncInv
  <1> SUFFICES ASSUME ControllerInit
               PROVE  /\ \A i \in Ingress : InSync(i)
                      /\ \A w \in Worker : SnapshotCurrent(w)
    BY DEF SyncInv
  <1>1. served.routes = CachedRoutes
    BY SnapshotRoutes DEF RoutesOK, ControllerInit
  <1>2. \A w \in Worker : worker[w].pc = "idle" /\ worker[w].outcome = "ok"
    BY DEF ControllerInit, Idle
  <1> QED
    BY <1>1, <1>2, RoutesServed DEF InSync, SnapshotCurrent

LEMMA SyncNext == OneWorker /\ ControllerInv /\ SyncInv /\ [ControllerNext]_vars => SyncInv'
  <1> SUFFICES ASSUME OneWorker, ControllerInv, SyncInv, [ControllerNext]_vars
               PROVE  SyncInv'
    OBVIOUS
  <1>1. CASE Environment
    <2>1. CASE Restart \/ RestartFatal
      BY <2>1, SyncRestart
    <2>2. CASE \E i \in Ingress : DeleteIngress(i)
      <3>1. {} \in SUBSET Domain
        OBVIOUS
      <3> QED
        BY <2>2, <3>1, SyncSurroundings
    <2>3. CASE ~(Restart \/ RestartFatal) /\ ~\E i \in Ingress : DeleteIngress(i)
      BY <1>1, <2>3, SyncSurroundings DEF Environment
    <2> QED
      BY <2>1, <2>2, <2>3
  <1>2. ASSUME NEW w \in Worker,
               WorkerStep(w) \/ TranslateFails(w) \/ SnapshotFails(w) \/ DeletionFails(w)
        PROVE  SyncInv'
    <2>1. CASE \E i \in Ingress : StartReconcile(w, i) \/ Finalize(w, i) \/ ObserveDeletion(w, i)
      BY <2>1, SyncTakes
    <2>2. CASE MiddleStep(w)
      BY <2>2, SyncMiddle
    <2>3. CASE FinishStep(w) \/ ResyncConflicts(w) \/ DeletionFails(w)
      BY <2>3, SyncFinish
    <2> QED
      BY <1>2, <2>1, <2>2, <2>3 DEF WorkerStep, MiddleStep, FinishStep
  <1>3. CASE Background \/ UNCHANGED vars
    BY <1>3, SyncSurroundings
  <1> QED
    BY <1>1, <1>2, <1>3 DEF ControllerNext

(* With one worker, whatever users, services, failures and restarts do:    *)
(* once nothing is pending, Envoy routes every ingress as its latest spec  *)
(* says, unless it is in conflict, its backend is gone or it is no longer  *)
(* tracked, and serves no deleted one.                                     *)
THEOREM EnvoyBecomesFresh == OneWorker /\ ControllerSpec => []QuietIsFresh
  <1> SUFFICES ASSUME OneWorker PROVE ControllerSpec => []QuietIsFresh
    OBVIOUS
  <1>1. FreshInv /\ SyncInv => QuietIsFresh
    <2> SUFFICES ASSUME FreshInv, SyncInv, Quiet, NEW i \in Ingress
                 PROVE  /\ ~Exists(i) => i \notin DOMAIN served.routes
                        /\ Current(i) => /\ i \in DOMAIN served.routes
                                         /\ served.routes[i] = [domains  |-> objects[i].domains,
                                                                clusters |-> {Backend[i]}]
      BY DEF QuietIsFresh
    <2>1. phase = "up" /\ \A w \in Worker : worker[w].key # i
      BY IdleFields, NilAssumption DEF Quiet
    <2>2. Handled(i) /\ InSync(i)
      BY DEF FreshInv, SyncInv, Quiet
    <2>3. ~InConflictNow(i) => ServedAsCached(i)
      BY <2>1, <2>2 DEF InSync
    <2>4. ~Exists(i) => i \notin DOMAIN served.routes
      BY <2>2, <2>3 DEF Handled, InConflictNow, ServedAsCached
    <2>5. ASSUME Current(i)
          PROVE  /\ i \in DOMAIN served.routes
                 /\ served.routes[i] = [domains |-> objects[i].domains, clusters |-> {Backend[i]}]
      <3>1. ServedAsCached(i) /\ Fresh(i)
        BY <2>1, <2>2, <2>3, <2>5 DEF Handled, InConflictNow, Current
      <3>2. Translate(i, objects[i].domains)
              = [domains |-> objects[i].domains, clusters |-> [c \in {Backend[i]} |-> services[c]]]
        BY <2>5 DEF Current, Translate
      <3>3. RouteOf(Translate(i, objects[i].domains))
              = [domains |-> objects[i].domains, clusters |-> {Backend[i]}]
        BY <3>2 DEF RouteOf
      <3> QED
        BY <3>1, <3>3 DEF ServedAsCached, Fresh
    <2> QED
      BY <2>4, <2>5
  <1>2. ControllerSpec => []SyncInv
    BY ControllerInvariant, SyncInit, SyncNext, PTL DEF ControllerSpec
  <1> QED
    BY <1>1, <1>2, NoChangeIsLost, PTL

-----------------------------------------------------------------------------
(* Who writes what, for the invariants of the modules that build on this. *)

Restarts == Restart \/ RestartFatal

(* Only a restart changes the phase. *)
LEMMA PhaseWriters ==
  ASSUME [ControllerNext]_vars
  PROVE  Restarts \/ UNCHANGED phase
  <1>1. CASE Environment
    BY <1>1 DEF Environment, DeleteIngress, CreateIngress, UpdateSpec, ScaleService,
                LoseService, ToggleGateway, DeleteGatewayPod, GlobalResync, Restarts, ctlVars
  <1>2. ASSUME NEW w \in Worker,
               WorkerStep(w) \/ TranslateFails(w) \/ SnapshotFails(w) \/ DeletionFails(w)
        PROVE  UNCHANGED phase
    BY <1>2 DEF WorkerStep, StartReconcile, Finalize, ObserveDeletion, TranslateIngress,
                UpdateCaches, BuildSnapshot, SetSnapshot, ResyncConflicts, TranslateFails,
                SnapshotFails, DeletionFails, FinishConflict, FinishError, FinishReady,
                FinishProbeKnown, FinishProbeNew, FinishProbeFails, WriteStatus
  <1>3. CASE Background
    BY <1>3 DEF Background, ProbeSucceeds, EvictionCallback, OnDeletedObserver, ClockTick,
                Janitor, ctlVars
  <1>4. CASE UNCHANGED vars
    BY <1>4 DEF vars, ctlVars
  <1> QED
    BY <1>1, <1>2, <1>3, <1>4 DEF ControllerNext

(* Only a worker hands a snapshot to the xDS server once it has started. *)
LEMMA ServedWriters ==
  ASSUME [ControllerNext]_vars
  PROVE  Restart \/ (\E w \in Worker : SetSnapshot(w)) \/ UNCHANGED served
  <1>1. CASE Environment
    BY <1>1 DEF Environment, DeleteIngress, CreateIngress, UpdateSpec, ScaleService,
                LoseService, ToggleGateway, DeleteGatewayPod, GlobalResync, RestartFatal,
                ctlVars
  <1>2. ASSUME NEW w \in Worker,
               WorkerStep(w) \/ TranslateFails(w) \/ SnapshotFails(w) \/ DeletionFails(w)
        PROVE  SetSnapshot(w) \/ UNCHANGED served
    BY <1>2 DEF WorkerStep, StartReconcile, Finalize, ObserveDeletion, TranslateIngress,
                UpdateCaches, BuildSnapshot, ResyncConflicts, TranslateFails,
                SnapshotFails, DeletionFails, FinishConflict, FinishError, FinishReady,
                FinishProbeKnown, FinishProbeNew, FinishProbeFails, WriteStatus
  <1>3. CASE Background
    BY <1>3 DEF Background, ProbeSucceeds, EvictionCallback, OnDeletedObserver, ClockTick,
                Janitor, ctlVars
  <1>4. CASE UNCHANGED vars
    BY <1>4 DEF vars, ctlVars
  <1> QED
    BY <1>1, <1>2, <1>3, <1>4 DEF ControllerNext

(* The caches have ingress i as before. *)
SameCached(i) ==
    /\ i \in DOMAIN translatedIngresses' <=> i \in DOMAIN translatedIngresses
    /\ i \in DOMAIN translatedIngresses => translatedIngresses'[i] = translatedIngresses[i]

(* Once the process is up, a translation is only touched by the worker     *)
(* that has the key of its ingress.                                        *)
LEMMA CacheWriters ==
  ASSUME ControllerInv, [ControllerNext]_vars, NEW i \in Ingress
  PROVE  \/ Restarts
         \/ \E w \in Worker : UpdateCaches(w) /\ worker[w].key = i
         \/ \E w \in Worker : ObserveDeletion(w, i)
         \/ SameCached(i)
  <1>1. CASE UNCHANGED translatedIngresses
    BY <1>1 DEF SameCached
  <1>2. CASE Environment
    BY <1>1, <1>2 DEF Environment, DeleteIngress, CreateIngress, UpdateSpec, ScaleService,
                LoseService, ToggleGateway, DeleteGatewayPod, GlobalResync, Restarts, cachesVars
  <1>3. ASSUME NEW w \in Worker, NEW j \in Ingress, ObserveDeletion(w, j), j # i
        PROVE  SameCached(i)
    BY <1>3 DEF ObserveDeletion, DeleteIngressInfo, Forget, SameCached
  <1>4. ASSUME NEW w \in Worker, UpdateCaches(w), worker[w].key # i
        PROVE  SameCached(i)
    BY <1>4 DEF UpdateCaches, UpdateIngressAccepted, UpdateIngressConflict,
                DeleteIngressInfo, Forget, SameCached
  <1>5. ASSUME NEW w \in Worker,
               WorkerStep(w) \/ TranslateFails(w) \/ SnapshotFails(w) \/ DeletionFails(w)
        PROVE  \/ UpdateCaches(w)
               \/ \E j \in Ingress : ObserveDeletion(w, j)
               \/ UNCHANGED translatedIngresses
    BY <1>5 DEF WorkerStep, StartReconcile, Finalize, TranslateIngress,
                BuildSnapshot, SetSnapshot, ResyncConflicts, TranslateFails,
                SnapshotFails, DeletionFails, FinishConflict, FinishError, FinishReady,
                FinishProbeKnown, FinishProbeNew, FinishProbeFails, WriteStatus, cachesVars
  <1>6. CASE Background
    BY <1>1, <1>6 DEF Background, ProbeSucceeds, EvictionCallback, OnDeletedObserver, ClockTick,
                Janitor, Tick, DeleteExpired, OnEvicted, cachesVars
  <1>7. CASE UNCHANGED vars
    BY <1>1, <1>7 DEF vars, cachesVars
  <1> QED
    BY <1>1, <1>2, <1>3, <1>4, <1>5, <1>6, <1>7 DEF ControllerNext

(* What ends the work of worker w. *)
Ends(w) == FinishStep(w) \/ ResyncConflicts(w) \/ DeletionFails(w) \/ Restarts

(* A worker stays as it is, ends, takes a key or goes on. *)
LEMMA WorkerWriters ==
  ASSUME ControllerInv, [ControllerNext]_vars, NEW w \in Worker
  PROVE  \/ worker'[w] = worker[w]
         \/ worker'[w] = Idle /\ Ends(w)
         \/ \E i \in Ingress : StartReconcile(w, i) \/ ObserveDeletion(w, i)
         \/ MiddleStep(w)
  <1>1. worker \in [Worker -> WorkerState]
    BY DEF ControllerInv, ControllerTypeOK
  <1>2. CASE Environment
    BY <1>2 DEF Environment, DeleteIngress, CreateIngress, UpdateSpec, ScaleService,
                LoseService, ToggleGateway, DeleteGatewayPod, GlobalResync, Ends, Restarts,
                Restart, RestartFatal, LoseMemory, ctlVars
  <1>3. ASSUME NEW v \in Worker, v # w,
               WorkerStep(v) \/ TranslateFails(v) \/ SnapshotFails(v) \/ DeletionFails(v)
        PROVE  worker'[w] = worker[w]
    BY <1>1, <1>3 DEF WorkerStep, StartReconcile, Finalize, ObserveDeletion, TranslateIngress,
                UpdateCaches, BuildSnapshot, SetSnapshot, ResyncConflicts, TranslateFails,
                SnapshotFails, DeletionFails, FinishConflict, FinishError, FinishReady,
                FinishProbeKnown, FinishProbeNew, FinishProbeFails, WriteStatus
  <1>4. CASE WorkerStep(w) \/ TranslateFails(w) \/ SnapshotFails(w) \/ DeletionFails(w)
    <2>1. CASE \E i \in Ingress : Finalize(w, i)
      BY <2>1 DEF Finalize
    <2>2. CASE ResyncConflicts(w) \/ DeletionFails(w)
      BY <1>1, <2>2 DEF ResyncConflicts, DeletionFails, Ends
    <2>3. CASE FinishStep(w)
      <3>1. PICK st, failed : WriteStatus(w, st, failed)
        BY <2>3, FinishCases
      <3> QED
        BY <1>1, <2>3, <3>1 DEF WriteStatus, Ends
    <2> QED
      BY <1>4, <2>1, <2>2, <2>3 DEF WorkerStep, MiddleStep, FinishStep
  <1>5. CASE Background
    BY <1>5 DEF Background, ProbeSucceeds, EvictionCallback, OnDeletedObserver, ClockTick,
                Janitor, ctlVars
  <1>6. CASE UNCHANGED vars
    BY <1>6 DEF vars, ctlVars
  <1> QED
    BY <1>2, <1>3, <1>4, <1>5, <1>6 DEF ControllerNext

(* A key leaves the queue only when a worker takes it. *)
LEMMA QueueWriters ==
  ASSUME ControllerInv, [ControllerNext]_vars, NEW i \in queue
  PROVE  \/ Restarts
         \/ \E w \in Worker : StartReconcile(w, i) \/ ObserveDeletion(w, i)
         \/ i \in queue'
  <1>1. CASE Environment
    BY <1>1 DEF Environment, DeleteIngress, CreateIngress, UpdateSpec, ScaleService,
                LoseService, ToggleGateway, DeleteGatewayPod, GlobalResync, Restarts, ctlVars
  <1>2. ASSUME NEW w \in Worker,
               WorkerStep(w) \/ TranslateFails(w) \/ SnapshotFails(w) \/ DeletionFails(w)
        PROVE  StartReconcile(w, i) \/ ObserveDeletion(w, i) \/ i \in queue'
    <2>1. ASSUME NEW j \in Ingress,
                 StartReconcile(w, j) \/ Finalize(w, j) \/ ObserveDeletion(w, j)
          PROVE  StartReconcile(w, i) \/ ObserveDeletion(w, i) \/ i \in queue'
      BY <2>1 DEF StartReconcile, Finalize, ObserveDeletion
    <2>2. CASE MiddleStep(w)
      BY <2>2, MiddleFrame
    <2>3. CASE ResyncConflicts(w) \/ DeletionFails(w)
      BY <2>3 DEF ResyncConflicts, DeletionFails
    <2>4. CASE FinishStep(w)
      <3>1. PICK st, failed : WriteStatus(w, st, failed)
        BY <2>4, FinishCases
      <3> QED
        BY <3>1 DEF WriteStatus
    <2> QED
      BY <1>2, <2>1, <2>2, <2>3, <2>4 DEF WorkerStep, MiddleStep, FinishStep
  <1>3. CASE Background
    BY <1>3 DEF Background, ProbeSucceeds, EvictionCallback, OnDeletedObserver, ClockTick,
                Janitor, ctlVars
  <1>4. CASE UNCHANGED vars
    BY <1>4 DEF vars, ctlVars
  <1> QED
    BY <1>1, <1>2, <1>3, <1>4 DEF ControllerNext

-----------------------------------------------------------------------------
(* The controller and its caches. *)

(* Once the process has started, the controller touches the caches through *)
(* their operations only.                                                  *)
LEMMA CachesStep ==
  ASSUME ControllerInv, [ControllerNext]_vars
  PROVE  Restarts \/ [Next]_cachesVars
  <1>1. CASE Environment
    BY <1>1 DEF Environment, DeleteIngress, CreateIngress, UpdateSpec, ScaleService,
                LoseService, ToggleGateway, DeleteGatewayPod, GlobalResync, Restarts, cachesVars
  <1>2. ASSUME NEW w \in Worker, UpdateCaches(w)
        PROVE  Next
    <2>1. worker[w].key \in Ingress /\ worker[w].translation \in Translation
      BY <1>2, BusyIsUp DEF UpdateCaches, StepInv
    <2> QED
      BY <1>2, <2>1 DEF UpdateCaches, Next, UpdateIngress
  <1>3. ASSUME NEW w \in Worker, NEW i \in Ingress, ObserveDeletion(w, i)
        PROVE  Next
    BY <1>3 DEF ObserveDeletion, Next
  <1>4. ASSUME NEW w \in Worker,
               WorkerStep(w) \/ TranslateFails(w) \/ SnapshotFails(w) \/ DeletionFails(w)
        PROVE  \/ UpdateCaches(w)
               \/ \E i \in Ingress : ObserveDeletion(w, i)
               \/ UNCHANGED cachesVars
    BY <1>4 DEF WorkerStep, StartReconcile, Finalize, TranslateIngress,
                BuildSnapshot, SetSnapshot, ResyncConflicts, TranslateFails,
                SnapshotFails, DeletionFails, FinishConflict, FinishError, FinishReady,
                FinishProbeKnown, FinishProbeNew, FinishProbeFails, WriteStatus, cachesVars
  <1>5. CASE Background
    BY <1>5 DEF Background, ProbeSucceeds, EvictionCallback, OnDeletedObserver, ClockTick,
                Janitor, Next, cachesVars
  <1>6. CASE UNCHANGED vars
    BY <1>6 DEF vars
  <1> QED
    BY <1>1, <1>2, <1>3, <1>4, <1>5, <1>6 DEF ControllerNext

(* The controller, with all its workers, callbacks and the janitor, uses   *)
(* the caches as their specification says: every step but a restart is a   *)
(* step of Caches or leaves them alone.                                    *)
THEOREM CachesUsedAsSpecified == ControllerSpec => [][Next \/ Restarts]_cachesVars
  <1>1. ControllerInv /\ [ControllerNext]_vars => [Next \/ Restarts]_cachesVars
    BY CachesStep
  <1> QED
    BY <1>1, ControllerInvariant, PTL DEF ControllerSpec

(* Hence the promise of the domain registry holds for the whole            *)
(* controller: between restarts domains change hands only by claims that   *)
(* meet no other ingress's domain, by refusals that leave the refused with *)
(* nothing, and by releases.                                               *)
THEOREM DomainsChangeHands == ControllerSpec => [][Registry!Next \/ Restarts]_DomainsOwned
  <1>1. ASSUME ControllerInv, [ControllerNext]_vars
        PROVE  [Registry!Next \/ Restarts]_DomainsOwned
    <2>1. CASE phase = "up"
      <3>1. CachesInv
        BY <1>1, <2>1 DEF ControllerInv, PhaseInv
      <3> QED
        BY <1>1, <3>1, CachesStep, RegistryStep
    <2>2. CASE phase # "up" /\ ~Restarts
      <3>1. \A w \in Worker : ~UpdateCaches(w)
        BY <1>1, <2>2, BusyIsUp DEF UpdateCaches
      <3>2. \A w \in Worker, i \in Ingress : ~ObserveDeletion(w, i)
        BY <2>2 DEF ObserveDeletion, Takes
      <3>3. \A i \in Ingress : SameCached(i)
        BY <1>1, <2>2, <3>1, <3>2, CacheWriters
      <3>4. UNCHANGED DomainsOwned
        BY <3>3 DEF SameCached, DomainsOwned
      <3> QED
        BY <3>4
    <2> QED
      BY <2>1, <2>2
  <1> QED
    BY <1>1, ControllerInvariant, PTL DEF ControllerSpec

=============================================================================
