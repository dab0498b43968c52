--------------------------- MODULE ControllerSettles ---------------------------
(***************************************************************************)
(* Machine-checked proofs about what the controller comes to once nothing  *)
(* is pending: Envoy forwards to the latest endpoints, and no ingress is   *)
(* left in a conflict that is over.                                        *)
(***************************************************************************)
EXTENDS ControllerProofs

(* A translation of ingress i has the cluster of its backend and no other. *)
OwnCluster(i, t) == DOMAIN t.clusters = {Backend[i]}

(* So do all translations, in the caches and on the way to them. *)
OwnClusterInv ==
    /\ \A i \in DOMAIN translatedIngresses : OwnCluster(i, translatedIngresses[i])
    /\ \A w \in Worker :
          worker[w].pc = "update" => OwnCluster(worker[w].key, worker[w].translation)

(* Some item of the TTL cache gives cluster c the contents e. *)
HasItem(c, e) == \E k \in DOMAIN clusters : k[1] = c /\ clusters[k].object = e

(* So it is for every cluster of snapshot s. *)
UpToItems(s) == \A c \in DOMAIN s.clusters : HasItem(c, s.clusters[c])

(* Worker w is on its way to a new snapshot, to queueing its ingress again *)
(* or to leaving it in conflict.                                           *)
Undecided(w) ==
    \/ worker[w].pc \in {"translate", "update", "snapshot", "push"}
    \/ worker[w].pc = "finish" /\ worker[w].outcome # "ok"

(* An ingress is queued, or about to be. *)
WorkWaits == queue # {} \/ evicted # {}

(* Why Envoy may still have contents no item has. *)
Excused ==
    \/ WorkWaits
    \/ \E w \in Worker : Undecided(w)
    \/ \E i \in Ingress : InConflictNow(i)

(* The clusters Envoy has are those of the TTL cache, unless work is left  *)
(* or an ingress is in conflict: then the eviction of a cluster may end in *)
(* the conflict and no snapshot is built.  A snapshot on its way to Envoy  *)
(* is as good.  With two workers this fails: the older snapshot may be the *)
(* one that is set last.                                                   *)
SettleInv ==
    phase = "up" =>
        /\ UpToItems(served) \/ Excused
        /\ \A w \in Worker :
              worker[w].pc = "push" => UpToItems(worker[w].snapshot) \/ WorkWaits

-----------------------------------------------------------------------------
(* Clusters of translations. *)

LEMMA TranslateOwnCluster ==
  ASSUME NEW i, NEW D, services[Backend[i]] # Nil
  PROVE  OwnCluster(i, Translate(i, D))
  BY DEF OwnCluster, Translate

LEMMA OwnClusterInit == ControllerInit => OwnClusterInv
  <1> SUFFICES ASSUME ControllerInit PROVE OwnClusterInv
    OBVIOUS
  <1>1. DOMAIN translatedIngresses = {}
    BY DEF ControllerInit, NewCaches
  <1>2. \A w \in Worker : worker[w].pc = "idle"
    BY DEF ControllerInit, Idle
  <1> QED
    BY <1>1, <1>2 DEF OwnClusterInv

LEMMA OwnClusterNext ==
  ControllerInv /\ OwnClusterInv /\ [ControllerNext]_vars => OwnClusterInv'
  <1> SUFFICES ASSUME ControllerInv, OwnClusterInv, [ControllerNext]_vars PROVE OwnClusterInv'
    OBVIOUS
  <1> USE NilAssumption
  <1>1. /\ worker \in [Worker -> WorkerState] /\ ControllerTypeOK'
        /\ DOMAIN translatedIngresses' \subseteq Ingress
    <2>1. ControllerTypeOK'
      BY ControllerNextInv DEF ControllerInv
    <2> QED
      BY <2>1 DEF ControllerInv, ControllerTypeOK, TypeOK
  <1>2. ASSUME NEW i \in DOMAIN translatedIngresses'
        PROVE  OwnCluster(i, translatedIngresses'[i])
    <2>1. i \in Ingress
      BY <1>1
    <2>2. CASE Restart
      <3>1. translatedIngresses' = Primed
        BY <2>2 DEF Restart
      <3>2. translatedIngresses'[i] = Translate(i, objects[i].domains)
        BY <3>1, PrimedType
      <3>3. Translate(i, objects[i].domains) # Nil
        BY <3>1 DEF Primed
      <3>4. services[Backend[i]] # Nil
        BY <3>3 DEF Translate
      <3> QED
        BY <3>2, <3>4, TranslateOwnCluster
    <2>3. CASE RestartFatal
      BY <2>3 DEF RestartFatal
    <2>4. CASE \E w \in Worker : ObserveDeletion(w, i)
      BY <2>4 DEF ObserveDeletion, DeleteIngressInfo, Forget
    <2>5. ASSUME NEW w \in Worker, UpdateCaches(w), worker[w].key = i
          PROVE  OwnCluster(i, translatedIngresses'[i])
      <3> DEFINE t == worker[w].translation
      <3>1. OwnCluster(i, t)
        BY <2>5 DEF OwnClusterInv, UpdateCaches
      <3>2. UpdateIngressAccepted(i, t)
        BY <2>5 DEF UpdateCaches, UpdateIngressConflict, DeleteIngressInfo, Forget
      <3>3. translatedIngresses'[i] = t
        BY <3>2 DEF UpdateIngressAccepted
      <3> QED
        BY <3>1, <3>3
    <2>6. CASE SameCached(i)
      BY <2>6 DEF SameCached, OwnClusterInv
    <2> QED
      BY <2>1, <2>2, <2>3, <2>4, <2>5, <2>6, CacheWriters DEF Restarts
  <1>3. ASSUME NEW w \in Worker, worker'[w].pc = "update"
        PROVE  OwnCluster(worker'[w].key, worker'[w].translation)
    <2>1. CASE worker'[w] = worker[w]
      BY <1>3, <2>1 DEF OwnClusterInv
    <2>2. CASE worker'[w] = Idle
      BY <1>3, <2>2, IdleFields
    <2>3. CASE \E i \in Ingress : StartReconcile(w, i) \/ ObserveDeletion(w, i)
      BY <1>1, <1>3, <2>3 DEF StartReconcile, ObserveDeletion, WorkerState
    <2>4. CASE TranslateIngress(w)
      <3> DEFINE i == worker[w].key
                 t == Translate(i, worker[w].object.domains)
      <3>1. /\ worker'[w].key = i /\ worker'[w].translation = t
            /\ worker'[w].pc = (IF t = Nil THEN "snapshot" ELSE "update")
        BY <1>1, <2>4 DEF TranslateIngress, WorkerState
      <3>2. t # Nil
        BY <1>3, <3>1
      <3>3. services[Backend[i]] # Nil
        BY <3>2 DEF Translate
      <3> QED
        BY <3>1, <3>3, TranslateOwnCluster
    <2>5. CASE MiddleStep(w) /\ ~TranslateIngress(w)
      BY <1>1, <1>3, <2>5 DEF MiddleStep, TranslateFails, UpdateCaches, BuildSnapshot,
                              SnapshotFails, SetSnapshot, WorkerState
    <2> QED
      BY <2>1, <2>2, <2>3, <2>4, <2>5, WorkerWriters
  <1> QED
    BY <1>2, <1>3 DEF OwnClusterInv

-----------------------------------------------------------------------------
(* Clusters of snapshots. *)

(* A snapshot of the caches has the contents of their items. *)
ItemsOK == \A s \in ToEnvoySnapshot : UpToItems(s)

LEMMA SnapshotItems == ItemsOK
  <1> SUFFICES ASSUME NEW s \in ToEnvoySnapshot, NEW c \in DOMAIN s.clusters
               PROVE  HasItem(c, s.clusters[c])
    BY DEF ItemsOK, UpToItems
  <1>1. PICK f \in [{k[1] : k \in Listed} -> Endpoints] :
           /\ \A d \in DOMAIN f : f[d] \in Contents(d)
           /\ s = [routes |-> [i \in DOMAIN translatedIngresses |-> RouteOf(translatedIngresses[i])],
                   clusters |-> f]
    BY DEF ToEnvoySnapshot
  <1>2. s.clusters = f
    BY <1>1
  <1>3. f[c] \in Contents(c)
    BY <1>1, <1>2
  <1> QED
    BY <1>2, <1>3 DEF Contents, Listed, HasItem

(* No item goes, and none gets other contents. *)
ItemsStay ==
    \A k \in DOMAIN clusters :
        k \in DOMAIN clusters' /\ clusters'[k].object = clusters[k].object

LEMMA UpToItemsStays ==
  ASSUME ItemsStay, NEW s, UpToItems(s)
  PROVE  \A c \in DOMAIN s.clusters : HasItem(c, s.clusters[c])'
  BY DEF UpToItems, HasItem, ItemsStay

(* Items get other contents when a translation is cached, and go when the  *)
(* janitor finds them expired.                                             *)
LEMMA ItemWriters ==
  ASSUME [ControllerNext]_vars
  PROVE  \/ Restarts
         \/ \E w \in Worker : UpdateCaches(w)
         \/ Janitor
         \/ ItemsStay
  <1>1. CASE UNCHANGED clusters
    BY <1>1 DEF ItemsStay
  <1>2. CASE Environment
    BY <1>1, <1>2 DEF Environment, DeleteIngress, CreateIngress, UpdateSpec, ScaleService,
                LoseService, ToggleGateway, DeleteGatewayPod, GlobalResync, Restarts, cachesVars
  <1>3. ASSUME NEW w \in Worker, NEW j \in Ingress, ObserveDeletion(w, j)
        PROVE  ItemsStay
    <2>1. clusters' = SetExpiration(j)
      BY <1>3 DEF ObserveDeletion, DeleteIngressInfo
    <2> QED
      BY <2>1 DEF SetExpiration, ItemsStay
  <1>4. ASSUME NEW w \in Worker,
               WorkerStep(w) \/ TranslateFails(w) \/ SnapshotFails(w) \/ DeletionFails(w)
        PROVE  \/ UpdateCaches(w)
               \/ \E j \in Ingress : ObserveDeletion(w, j)
               \/ UNCHANGED clusters
    BY <1>4 DEF WorkerStep, StartReconcile, Finalize, TranslateIngress,
                BuildSnapshot, SetSnapshot, ResyncConflicts, TranslateFails,
                SnapshotFails, DeletionFails, FinishConflict, FinishError, FinishReady,
                FinishProbeKnown, FinishProbeNew, FinishProbeFails, WriteStatus, cachesVars
  <1>5. CASE ClockTick
    BY <1>5 DEF ClockTick, Tick, ItemsStay
  <1>6. CASE Background
    BY <1>1, <1>5, <1>6 DEF Background, ProbeSucceeds, EvictionCallback, OnDeletedObserver,
                            OnEvicted, cachesVars
  <1>7. CASE UNCHANGED vars
    BY <1>1, <1>7 DEF vars, cachesVars
  <1> QED
    BY <1>1, <1>2, <1>3, <1>4, <1>6, <1>7 DEF ControllerNext

(* The janitor reports what it evicts. *)
LEMMA JanitorReports ==
  ASSUME Janitor
  PROVE  WorkWaits'
  <1>1. PICK k \in DOMAIN clusters : Expired(clusters[k])
    BY DEF Janitor, DeleteExpired
  <1>2. k[2] \in evicted'
    BY <1>1 DEF Janitor, DeleteExpired, Listed
  <1> QED
    BY <1>2 DEF WorkWaits

-----------------------------------------------------------------------------
(* Excuses. *)

(* Users, services, the gateway, resyncs and the background. *)
LEMMA ExcuseSurroundings ==
  ASSUME ControllerInv, Excused \/ WorkWaits,
         \/ \E i \in Ingress : DeleteIngress(i)
         \/ \E i \in Ingress, D \in SUBSET Domain : CreateIngress(i, D) \/ UpdateSpec(i, D)
         \/ \E s \in Cluster, e \in Endpoints : ScaleService(s, e)
         \/ \E s \in Cluster : LoseService(s)
         \/ ToggleGateway
         \/ DeleteGatewayPod
         \/ GlobalResync
         \/ Background
         \/ UNCHANGED vars
  PROVE  /\ Excused'
         /\ WorkWaits => WorkWaits'
  <1>1. CASE \/ \E i \in Ingress : DeleteIngress(i)
             \/ \E i \in Ingress, D \in SUBSET Domain : CreateIngress(i, D) \/ UpdateSpec(i, D)
    <2>1. queue' # {}
      BY <1>1 DEF DeleteIngress, CreateIngress, UpdateSpec
    <2> QED
      BY <2>1 DEF Excused, WorkWaits
  <1>2. CASE /\ UNCHANGED <<objects, worker>> /\ queue \subseteq queue'
             /\ evicted \subseteq evicted' \/ queue' # {}
    <2>1. WorkWaits => WorkWaits'
      BY <1>2 DEF WorkWaits
    <2> QED
      BY <1>2, <2>1 DEF Excused, Undecided, InConflictNow, Exists
  <1>3. CASE Background
    BY <1>2, <1>3 DEF Background, ProbeSucceeds, EvictionCallback, OnDeletedObserver, ClockTick,
                      Janitor, Tick, DeleteExpired, OnEvicted, cachesVars, apiVars, ctlVars
  <1> QED
    BY <1>1, <1>2, <1>3 DEF ScaleService, LoseService, ToggleGateway, DeleteGatewayPod,
                            GlobalResync, cachesVars, apiVars, ctlVars, vars

(* A worker that takes a key is undecided; a deletion that is finalized    *)
(* stays queued.                                                           *)
LEMMA ExcuseTakes ==
  ASSUME ControllerInv, NEW w \in Worker, NEW i \in Ingress,
         StartReconcile(w, i) \/ Finalize(w, i) \/ ObserveDeletion(w, i)
  PROVE  Excused'
  <1>1. worker \in [Worker -> WorkerState]
    BY DEF ControllerInv, ControllerTypeOK
  <1>2. CASE StartReconcile(w, i)
    <2>1. worker'[w].pc = "translate"
      BY <1>1, <1>2 DEF StartReconcile, WorkerState
    <2> QED
      BY <2>1 DEF Excused, Undecided
  <1>3. CASE ObserveDeletion(w, i)
    <2>1. worker'[w].pc = "snapshot"
      BY <1>1, <1>3 DEF ObserveDeletion, WorkerState
    <2> QED
      BY <2>1 DEF Excused, Undecided
  <1>4. CASE Finalize(w, i)
    BY <1>4 DEF Finalize, Takes, Excused, WorkWaits
  <1> QED
    BY <1>2, <1>3, <1>4

(* A worker is undecided until it sets its snapshot. *)
LEMMA ExcuseMiddle ==
  ASSUME ControllerInv, NEW w \in Worker, MiddleStep(w), ~SetSnapshot(w)
  PROVE  Excused'
  <1>1. worker \in [Worker -> WorkerState]
    BY DEF ControllerInv, ControllerTypeOK
  <1>2. Undecided(w)'
    <2>1. CASE TranslateIngress(w)
      BY <1>1, <2>1 DEF TranslateIngress, WorkerState, Undecided
    <2>2. CASE TranslateFails(w) \/ SnapshotFails(w)
      BY <1>1, <2>2 DEF TranslateFails, SnapshotFails, WorkerState, Undecided
    <2>3. CASE UpdateCaches(w)
      BY <1>1, <2>3 DEF UpdateCaches, WorkerState, Undecided
    <2>4. CASE BuildSnapshot(w)
      BY <1>1, <2>4 DEF BuildSnapshot, WorkerState, Undecided
    <2> QED
      BY <2>1, <2>2, <2>3, <2>4 DEF MiddleStep
  <1> QED
    BY <1>2 DEF Excused

(* The end of a reconciliation that was undecided leaves work or a         *)
(* conflict behind; one that ends a conflict changes the status, which     *)
(* queues the ingress.                                                     *)
LEMMA ExcuseFinish ==
  ASSUME OneWorker, ControllerInv, SyncInv, Excused, NEW w \in Worker,
         FinishStep(w) \/ ResyncConflicts(w) \/ DeletionFails(w)
  PROVE  Excused'
  <1>1. \A v \in Worker : v = w
    BY DEF OneWorker
  <1>2. CASE DeletionFails(w)
    BY <1>2 DEF DeletionFails, Excused, WorkWaits
  <1>3. CASE ResyncConflicts(w)
    <2>1. /\ queue \subseteq queue' /\ UNCHANGED <<evicted, objects>>
          /\ worker[w].pc = "finish" /\ worker[w].object = Nil
      BY <1>3 DEF ResyncConflicts, cachesVars, apiVars
    <2>2. worker[w].outcome = "ok"
      BY <2>1, BusyIsUp DEF SyncInv, SnapshotCurrent
    <2>3. ~Undecided(w)
      BY <2>1, <2>2 DEF Undecided
    <2>4. WorkWaits \/ \E i \in Ingress : InConflictNow(i)
      BY <1>1, <2>3 DEF Excused
    <2> QED
      BY <2>1, <2>4 DEF Excused, WorkWaits, InConflictNow, Exists
  <1>4. CASE FinishStep(w)
    <2>1. PICK st \in Status, failed \in BOOLEAN :
             /\ WriteStatus(w, st, failed)
             /\ failed \/ st.lb = "Conflict" \/ worker[w].outcome = "ok"
      BY <1>4, FinishCases
    <2>2. /\ worker[w].pc = "finish" /\ worker[w].pc # "idle" /\ worker[w].object # Nil
          /\ objects \in [Ingress -> Object \cup {Nil}]
      BY <1>4, FinishCases DEF ControllerInv, ControllerTypeOK
    <2>3. PICK i \in Ingress : i = worker[w].key
      BY <2>2, BusyIsUp
    <2>4. Exists(i) /\ objects[i] \in Object /\ objects[i].status = worker[w].object.status
      BY <2>2, <2>3, BusyIsUp DEF ReadInv, Exists
    <2>5. objects'[i] = [objects[i] EXCEPT !.status = st]
      BY <2>1, <2>2, <2>3 DEF WriteStatus
    <2>6. objects'[i] \in Object /\ objects'[i].status = st
      BY <2>4, <2>5 DEF Object
    <2>7. Exists(i)' /\ \A j \in Ingress \ {i} : objects'[j] = objects[j]
      BY <2>1, <2>2, <2>3, <2>6, NilAssumption DEF WriteStatus, Exists
    <2>8. queue \subseteq queue' /\ UNCHANGED evicted
      BY <2>1 DEF WriteStatus, cachesVars
    <2>9. CASE i \in queue' \/ WorkWaits
      BY <2>8, <2>9 DEF Excused, WorkWaits
    <2>10. CASE i \notin queue' /\ ~WorkWaits
      <3>1. ~failed /\ st = worker[w].object.status
        BY <2>1, <2>3, <2>10 DEF WriteStatus
      <3>2. InConflictNow(i) => InConflictNow(i)'
        BY <2>4, <2>6, <2>7, <3>1 DEF InConflictNow
      <3>3. \A j \in Ingress \ {i} : InConflictNow(j) => InConflictNow(j)'
        BY <2>7 DEF InConflictNow, Exists
      <3>4. ASSUME Undecided(w) PROVE InConflictNow(i)'
        <4>1. st.lb = "Conflict"
          BY <2>1, <2>2, <3>1, <3>4 DEF Undecided
        <4> QED
          BY <2>6, <2>7, <4>1 DEF InConflictNow
      <3> QED
        BY <1>1, <2>10, <3>2, <3>3, <3>4 DEF Excused
    <2> QED
      BY <2>9, <2>10
  <1> QED
    BY <1>2, <1>3, <1>4

(* Until a new snapshot is set there is an excuse for the last one. *)
LEMMA ExcuseStays ==
  ASSUME OneWorker, ControllerInv, SyncInv, Excused, [ControllerNext]_vars,
         ~Restarts, \A w \in Worker : ~SetSnapshot(w)
  PROVE  Excused'
  <1>1. CASE Environment
    BY <1>1, ExcuseSurroundings DEF Environment, Restarts
  <1>2. ASSUME NEW w \in Worker,
               WorkerStep(w) \/ TranslateFails(w) \/ SnapshotFails(w) \/ DeletionFails(w)
        PROVE  Excused'
    <2>1. CASE \E i \in Ingress : StartReconcile(w, i) \/ Finalize(w, i) \/ ObserveDeletion(w, i)
      BY <2>1, ExcuseTakes
    <2>2. CASE MiddleStep(w)
      BY <2>2, ExcuseMiddle
    <2>3. CASE FinishStep(w) \/ ResyncConflicts(w) \/ DeletionFails(w)
      BY <2>3, ExcuseFinish
    <2> QED
      BY <1>2, <2>1, <2>2, <2>3 DEF WorkerStep, MiddleStep, FinishStep
  <1>3. CASE Background \/ UNCHANGED vars
    BY <1>3, ExcuseSurroundings
  <1> QED
    BY <1>1, <1>2, <1>3 DEF ControllerNext

(* What a busy worker does not do: work keeps waiting while the only       *)
(* worker is about to set its snapshot.                                    *)
LEMMA WorkKeepsWaiting ==
  ASSUME OneWorker, ControllerInv, WorkWaits, [ControllerNext]_vars, ~Restarts,
         NEW w \in Worker, worker[w].pc = "push", worker'[w] = worker[w]
  PROVE  WorkWaits'
  <1>1. worker \in [Worker -> WorkerState]
    BY DEF ControllerInv, ControllerTypeOK
  <1>2. \A v \in Worker : v = w
    BY DEF OneWorker
  <1>3. CASE Environment
    BY <1>3, ExcuseSurroundings DEF Environment, Restarts
  <1>4. CASE Background \/ UNCHANGED vars
    BY <1>4, ExcuseSurroundings
  <1>5. CASE WorkerStep(w) \/ TranslateFails(w) \/ SnapshotFails(w) \/ DeletionFails(w)
    <2>1. SetSnapshot(w)
      <3>1. worker[w] # Idle
        BY DEF Idle
      <3> QED
        BY <1>5, <3>1 DEF WorkerStep, StartReconcile, Finalize, ObserveDeletion, Takes,
                TranslateIngress, UpdateCaches, BuildSnapshot, ResyncConflicts, TranslateFails,
                SnapshotFails, DeletionFails, FinishConflict, FinishError, FinishReady,
                FinishProbeKnown, FinishProbeNew, FinishProbeFails, Finishing
    <2>2. worker'[w].pc = "finish"
      BY <1>1, <2>1 DEF SetSnapshot, WorkerState
    <2> QED
      BY <2>2
  <1> QED
    BY <1>2, <1>3, <1>4, <1>5 DEF ControllerNext

LEMMA SettleInit == ControllerInit => SettleInv
  <1> SUFFICES ASSUME ControllerInit PROVE SettleInv
    OBVIOUS
  <1>1. UpToItems(served)
    BY SnapshotItems DEF ItemsOK, ControllerInit
  <1>2. \A w \in Worker : worker[w].pc = "idle"
    BY DEF ControllerInit, Idle
  <1> QED
    BY <1>1, <1>2 DEF SettleInv

(* Envoy's clusters. *)
LEMMA ServedSettles ==
  ASSUME OneWorker, ControllerInv, SyncInv, SettleInv, [ControllerNext]_vars, phase' = "up"
  PROVE  UpToItems(served)' \/ Excused'
  <1>1. CASE Restart
    <2>1. ItemsOK'
      BY SnapshotItems, PTL
    <2> QED
      BY <1>1, <2>1 DEF Restart, FirstSnapshot, ItemsOK
  <1>2. CASE RestartFatal
    BY <1>2 DEF RestartFatal
  <1>3. ASSUME NEW w \in Worker, SetSnapshot(w)
        PROVE  UpToItems(served)' \/ Excused'
    <2>1. /\ worker[w].pc = "push" /\ served' = worker[w].snapshot
          /\ UNCHANGED <<queue, evicted, clusters>>
      BY <1>3 DEF SetSnapshot, cachesVars
    <2>2. UpToItems(worker[w].snapshot) \/ WorkWaits
      BY <2>1, BusyIsUp DEF SettleInv
    <2>3. CASE WorkWaits
      BY <2>1, <2>3 DEF WorkWaits, Excused
    <2>4. CASE UpToItems(worker[w].snapshot)
      BY <2>1, <2>4 DEF UpToItems, HasItem
    <2> QED
      BY <2>2, <2>3, <2>4
  <1>4. CASE ~Restarts /\ \A w \in Worker : ~SetSnapshot(w)
    <2>1. phase = "up" /\ UNCHANGED served
      BY <1>4, PhaseWriters, ServedWriters DEF Restarts
    <2>2. CASE Excused
      BY <1>4, <2>2, ExcuseStays
    <2>3. CASE Janitor
      BY <2>3, JanitorReports DEF Excused
    <2>4. CASE \E w \in Worker : UpdateCaches(w)
      BY <1>4, <2>4, ExcuseMiddle DEF MiddleStep
    <2>5. CASE ItemsStay /\ ~Excused
      <3>1. UpToItems(served)
        BY <2>1, <2>5 DEF SettleInv
      <3> QED
        BY <2>1, <2>5, <3>1 DEF UpToItems, HasItem, ItemsStay
    <2> QED
      BY <1>4, <2>2, <2>3, <2>4, <2>5, ItemWriters
  <1> QED
    BY <1>1, <1>2, <1>3, <1>4 DEF Restarts

(* The clusters on their way to Envoy. *)
LEMMA PushSettles ==
  ASSUME OneWorker, ControllerInv, SettleInv, [ControllerNext]_vars, phase' = "up",
         NEW w \in Worker, worker'[w].pc = "push"
  PROVE  (UpToItems(worker[w].snapshot) \/ WorkWaits)'
  <1>1. worker \in [Worker -> WorkerState]
    BY DEF ControllerInv, ControllerTypeOK
  <1>2. CASE worker'[w] = worker[w]
    <2>1. worker[w].pc = "push"
      BY <1>2
    <2>2. phase = "up" /\ (UpToItems(worker[w].snapshot) \/ WorkWaits)
      BY <2>1, BusyIsUp DEF SettleInv
    <2>3. ~Restarts
      <3>1. Restarts => worker'[w] = Idle
        BY DEF Restarts, Restart, RestartFatal, LoseMemory
      <3> QED
        BY <2>1, <1>2, <3>1, IdleFields
    <2>4. \A v \in Worker : ~UpdateCaches(v)
      BY <2>1 DEF OneWorker, UpdateCaches
    <2>5. CASE WorkWaits
      BY <1>2, <2>1, <2>3, <2>5, WorkKeepsWaiting
    <2>6. CASE Janitor
      BY <2>6, JanitorReports
    <2>7. CASE ItemsStay /\ UpToItems(worker[w].snapshot)
      BY <1>2, <2>7 DEF UpToItems, HasItem, ItemsStay
    <2> QED
      BY <2>2, <2>3, <2>4, <2>5, <2>6, <2>7, ItemWriters
  <1>3. CASE worker'[w] = Idle
    BY <1>3, IdleFields
  <1>4. CASE \E i \in Ingress : StartReconcile(w, i) \/ ObserveDeletion(w, i)
    BY <1>1, <1>4 DEF StartReconcile, ObserveDeletion, WorkerState
  <1>5. CASE BuildSnapshot(w)
    <2>1. PICK s \in ToEnvoySnapshot :
             worker' = [worker EXCEPT ![w].pc = "push", ![w].snapshot = s]
      BY <1>5 DEF BuildSnapshot
    <2>2. worker'[w].snapshot = s
      BY <1>1, <2>1 DEF WorkerState
    <2>3. UpToItems(s) /\ UNCHANGED clusters
      BY <1>5, SnapshotItems DEF ItemsOK, BuildSnapshot, cachesVars
    <2> QED
      BY <2>2, <2>3 DEF UpToItems, HasItem
  <1>6. CASE MiddleStep(w) /\ ~BuildSnapshot(w)
    BY <1>1, <1>6 DEF MiddleStep, TranslateIngress, TranslateFails, UpdateCaches,
                      SnapshotFails, SetSnapshot, WorkerState
  <1> QED
    BY <1>2, <1>3, <1>4, <1>5, <1>6, WorkerWriters

LEMMA SettleNext ==
  OneWorker /\ ControllerInv /\ SyncInv /\ SettleInv /\ [ControllerNext]_vars => SettleInv'
  <1> SUFFICES ASSUME OneWorker, ControllerInv, SyncInv, SettleInv, [ControllerNext]_vars,
                      phase' = "up"
               PROVE  /\ UpToItems(served)' \/ Excused'
                      /\ \A w \in Worker :
                            worker'[w].pc = "push" => (UpToItems(worker[w].snapshot) \/ WorkWaits)'
    BY DEF SettleInv
  <1>1. UpToItems(served)' \/ Excused'
    BY ServedSettles
  <1>2. ASSUME NEW w \in Worker, worker'[w].pc = "push"
        PROVE  (UpToItems(worker[w].snapshot) \/ WorkWaits)'
    BY <1>2, PushSettles
  <1> QED
    BY <1>1, <1>2

(* In a settled state the only contents a cluster can have are those of    *)
(* its service: all items belong to cached translations, and these are     *)
(* fresh.                                                                  *)
LEMMA SettledItems ==
  ASSUME ControllerInv, FreshInv, OwnClusterInv, Settled,
         \A i \in Ingress : Exists(i) => objects[i].status.lb # "Conflict" /\ i \in tracked,
         NEW c \in Cluster, services[c] # Nil, NEW e, HasItem(c, e)
  PROVE  e = services[c]
  <1> USE NilAssumption
  <1>1. phase = "up" /\ queue = {} /\ CachesInv /\ \A w \in Worker : worker[w].key = Nil
    BY IdleFields DEF Settled, Quiet, ControllerInv, PhaseInv
  <1>2. PICK k \in DOMAIN clusters : k[1] = c /\ clusters[k].object = e
    BY DEF HasItem
  <1>3. clusters[k].ttl = NoExpiration /\ k \notin ExtAuthzKeys
    BY <1>2, CachesAssumption DEF Settled, ExtAuthzKeys
  <1>4. PICK j \in DOMAIN translatedIngresses : j = k[2] /\ k \in KeysOf(j, translatedIngresses[j])
    BY <1>1, <1>3 DEF CachesInv, NoClusterLeak
  <1>5. c \in DOMAIN translatedIngresses[j].clusters /\ k = <<c, j>>
    BY <1>2, <1>4 DEF KeysOf
  <1>6. c = Backend[j] /\ j \in Ingress
    BY <1>1, <1>5 DEF OwnClusterInv, OwnCluster, CachesInv, TypeOK
  <1>7. e = translatedIngresses[j].clusters[c]
    <2>1. clusters[<<c, j>>] = [object |-> translatedIngresses[j].clusters[c], ttl |-> NoExpiration]
      BY <1>1, <1>5 DEF CachesInv, ClustersPinned
    <2>2. clusters[<<c, j>>].object = e
      BY <1>2, <1>5
    <2> QED
      BY <2>1, <2>2
  <1>8. Handled(j)
    BY <1>1, <1>6 DEF FreshInv
  <1>9. Current(j)
    BY <1>6, <1>8 DEF Handled, Current
  <1>10. translatedIngresses[j] = Translate(j, objects[j].domains)
    BY <1>1, <1>6, <1>8, <1>9 DEF Handled, Fresh
  <1>11. Translate(j, objects[j].domains).clusters[c] = services[c]
    BY <1>6 DEF Translate
  <1> QED
    BY <1>7, <1>10, <1>11

(* With one worker, whatever users, services, failures and restarts do:    *)
(* once everything has settled and no ingress is in conflict, Envoy        *)
(* forwards to the latest endpoints of every ingress it serves.            *)
THEOREM EnvoyEndpointsSettle == OneWorker /\ ControllerSpec => []EndpointsSettle
  <1> SUFFICES ASSUME OneWorker PROVE ControllerSpec => []EndpointsSettle
    OBVIOUS
  <1>1. ControllerInv /\ FreshInv /\ SyncInv /\ OwnClusterInv /\ SettleInv => EndpointsSettle
    <2> SUFFICES ASSUME ControllerInv, FreshInv, SyncInv, OwnClusterInv, SettleInv, Settled,
                        \A i \in Ingress : Exists(i) => objects[i].status.lb # "Conflict" /\ i \in tracked,
                        NEW i \in DOMAIN served.routes, services[Backend[i]] # Nil
                 PROVE  served.clusters[Backend[i]] = services[Backend[i]]
      BY DEF EndpointsSettle
    <2> DEFINE c == Backend[i]
    <2>1. /\ phase = "up" /\ queue = {} /\ evicted = {}
          /\ \A w \in Worker : worker[w].pc = "idle" /\ worker[w].key = Nil
      BY IdleFields DEF Settled, Quiet
    <2>2. i \in Ingress /\ ServedWellFormed
      BY DEF ControllerInv, ControllerTypeOK, Snapshot
    <2>3. \A j \in Ingress : ~InConflictNow(j)
      BY DEF InConflictNow
    <2>4. ServedAsCached(i)
      BY <2>1, <2>2, <2>3, NilAssumption DEF SyncInv, InSync
    <2>5. served.routes[i].clusters = {c}
      BY <2>4 DEF ServedAsCached, RouteOf, OwnClusterInv, OwnCluster
    <2>6. c \in DOMAIN served.clusters /\ c \in Cluster
      BY <2>2, <2>5, ControllerAssumption DEF ServedWellFormed, WellFormed
    <2>7. UpToItems(served)
      BY <2>1, <2>3 DEF SettleInv, Excused, WorkWaits, Undecided
    <2>8. HasItem(c, served.clusters[c])
      BY <2>6, <2>7 DEF UpToItems
    <2> QED
      BY <2>6, <2>8, SettledItems
  <1>2. ControllerSpec => []SyncInv
    BY ControllerInvariant, SyncInit, SyncNext, PTL DEF ControllerSpec
  <1>3. ControllerSpec => []SettleInv
    BY <1>2, ControllerInvariant, SettleInit, SettleNext, PTL DEF ControllerSpec
  <1>4. ControllerSpec => []OwnClusterInv
    BY ControllerInvariant, OwnClusterInit, OwnClusterNext, PTL DEF ControllerSpec
  <1> QED
    BY <1>1, <1>2, <1>3, <1>4, ControllerInvariant, NoChangeIsLost, PTL

-----------------------------------------------------------------------------
(***************************************************************************)
(* Conflicts.                                                              *)
(*                                                                         *)
(* Only the end of a deletion wakes the ingresses that are in conflict.    *)
(* So they are left behind when a domain becomes free in another way: its  *)
(* holder is given another spec, or deleted and created again before the   *)
(* deletion was observed.  As long as neither happens, no conflict         *)
(* outlives its reason.                                                    *)
(***************************************************************************)

(* No worker has ingress i in hand. *)
InNoHands(i) == \A w \in Worker : worker[w].key # i

(* Users only change the specs of ingresses that hold no domain and are    *)
(* not being reconciled, and they create an ingress with the name of a     *)
(* deleted one only when the deletion has been dealt with.                 *)
HoldersKeepSpecs ==
    \A i \in Ingress :
        /\ Exists(i) /\ Exists(i)' /\ objects'[i].domains # objects[i].domains
           => i \notin DOMAIN translatedIngresses /\ InNoHands(i)
        /\ ~Exists(i) /\ Exists(i)' => i \notin queue /\ InNoHands(i)

(* Another ingress is cached with a domain of ingress i. *)
Blocked(i) ==
    \E j \in DOMAIN translatedIngresses \ {i} :
        translatedIngresses[j].domains \cap objects[i].domains # {}

(* A deletion is being observed, or will be: it ends by queueing the       *)
(* ingresses that are in conflict.                                         *)
DeletionPending ==
    \/ \E w \in Worker : worker[w].key \in Ingress /\ worker[w].object = Nil
    \/ \E j \in queue : ~Exists(j)

(* Worker w has the spec of its ingress as it is now; without an object it *)
(* observes the deletion of one that is gone.                              *)
HasSpec(w) ==
    LET p == worker[w]
    IN  /\ p.object # Nil => p.object.domains = objects[p.key].domains
        /\ p.object = Nil /\ p.key \in Ingress => ~Exists(p.key)
        /\ p.pc = "update" => p.translation.domains = p.object.domains
        /\ p.pc # "finish" => p.outcome = "ok"

(* The workers have every spec as it is now, and so have the caches. *)
SpecInv ==
    /\ \A i \in DOMAIN translatedIngresses :
          Exists(i) => translatedIngresses[i].domains = objects[i].domains
    /\ \A w \in Worker : HasSpec(w)

(* If ingress i is in conflict there is a reason, or it will be woken. *)
Justified(i) == InConflictNow(i) => Blocked(i) \/ DeletionPending

(* Worker w is about to report a conflict. *)
Refused(w) == worker[w].pc = "finish" /\ worker[w].outcome = "conflict"

(* Every conflict that is not queued, and that is left alone or about to   *)
(* be reported once more, is justified.                                    *)
ConflictInv ==
    phase = "up" =>
        \A i \in Ingress \ queue :
            InNoHands(i) \/ (\E w \in Worker : worker[w].key = i /\ Refused(w)) => Justified(i)

LEMMA SpecInit == ControllerInit => SpecInv /\ ConflictInv
  <1> SUFFICES ASSUME ControllerInit PROVE SpecInv /\ ConflictInv
    OBVIOUS
  <1>1. DOMAIN translatedIngresses = {} /\ \A i \in Ingress : ~Exists(i)
    BY DEF ControllerInit, NewCaches, Exists
  <1>2. \A w \in Worker : /\ worker[w].pc = "idle" /\ worker[w].object = Nil
                          /\ worker[w].outcome = "ok"
    BY DEF ControllerInit, Idle
  <1> QED
    BY <1>1, <1>2 DEF SpecInv, HasSpec, ConflictInv, Justified, InConflictNow

(* A cached ingress that exists is reconciled with the domains it has, and *)
(* keeps them.                                                             *)
LEMMA HolderKeepsDomains ==
  ASSUME ControllerInv, SpecInv, NEW w \in Worker, UpdateCaches(w),
         worker[w].key \in DOMAIN translatedIngresses
  PROVE  LET i == worker[w].key
         IN  /\ i \in DOMAIN translatedIngresses'
             /\ translatedIngresses'[i].domains = translatedIngresses[i].domains
  <1> DEFINE i == worker[w].key
             t == worker[w].translation
             o == worker[w].object
  <1>1. worker[w].pc = "update"
    BY DEF UpdateCaches
  <1>2. o # Nil /\ Exists(i)
    BY <1>1, BusyIsUp DEF StepInv, ReadInv
  <1>3. t.domains = o.domains /\ o.domains = objects[i].domains
    BY <1>1, <1>2 DEF SpecInv, HasSpec
  <1>4. translatedIngresses[i].domains = objects[i].domains
    BY <1>2 DEF SpecInv, HasSpec
  <1>5. ~Conflicts(i, t)
    BY <1>3, <1>4 DEF Conflicts, FreeDomains
  <1>6. UpdateIngressAccepted(i, t)
    BY <1>5 DEF UpdateCaches, UpdateIngressConflict
  <1>7. i \in DOMAIN translatedIngresses' /\ translatedIngresses'[i] = t
    BY <1>6 DEF UpdateIngressAccepted
  <1> HIDE DEF i, t, o
  <1>8. translatedIngresses'[i].domains = translatedIngresses[i].domains
    BY <1>3, <1>4, <1>7
  <1> QED
    BY <1>7, <1>8 DEF i

(* The caches keep the specs as they are. *)
LEMMA SpecCaches ==
  ASSUME ControllerInv, FreshInv, SpecInv, [ControllerNext]_vars, HoldersKeepSpecs,
         NEW i \in Ingress, i \in DOMAIN translatedIngresses', Exists(i)'
  PROVE  translatedIngresses'[i].domains = objects'[i].domains
  <1>1. CASE Restart
    <2>1. translatedIngresses' = Primed /\ UNCHANGED objects
      BY <1>1 DEF Restart, LoseMemory, apiVars
    <2>2. Primed[i] = Translate(i, objects[i].domains) /\ Primed[i] # Nil
      BY <2>1, PrimedType DEF Primed
    <2>3. Translate(i, objects[i].domains).domains = objects[i].domains
      BY <2>2 DEF Translate
    <2> QED
      BY <2>1, <2>2, <2>3
  <1>2. CASE RestartFatal
    BY <1>2 DEF RestartFatal
  <1>3. CASE \E w \in Worker : ObserveDeletion(w, i)
    BY <1>3 DEF ObserveDeletion, DeleteIngressInfo, Forget
  <1>4. ASSUME NEW w \in Worker, UpdateCaches(w), worker[w].key = i
        PROVE  translatedIngresses'[i].domains = objects'[i].domains
    <2> DEFINE t == worker[w].translation
    <2>1. worker[w].pc = "update" /\ UNCHANGED objects
      BY <1>4 DEF UpdateCaches, apiVars
    <2>2. worker[w].object # Nil
      BY <2>1, BusyIsUp DEF StepInv
    <2>3. t.domains = objects[i].domains
      BY <1>4, <2>1, <2>2 DEF SpecInv, HasSpec
    <2>4. UpdateIngressAccepted(i, t)
      BY <1>4 DEF UpdateCaches, UpdateIngressConflict, DeleteIngressInfo, Forget
    <2>5. translatedIngresses'[i] = t
      BY <2>4 DEF UpdateIngressAccepted
    <2> QED
      BY <2>1, <2>3, <2>5
  <1>5. CASE SameCached(i)
    <2>1. i \in DOMAIN translatedIngresses /\ translatedIngresses'[i] = translatedIngresses[i]
      BY <1>5 DEF SameCached
    <2>2. Exists(i)
      BY <2>1 DEF HoldersKeepSpecs, FreshInv, Handled
    <2>3. objects'[i].domains = objects[i].domains
      BY <2>1, <2>2 DEF HoldersKeepSpecs
    <2> QED
      BY <2>1, <2>2, <2>3 DEF SpecInv, HasSpec
  <1> QED
    BY <1>1, <1>2, <1>3, <1>4, <1>5, CacheWriters DEF Restarts

(* So do the workers. *)
LEMMA SpecWorkers ==
  ASSUME ControllerInv, ControllerInv', SpecInv, [ControllerNext]_vars, HoldersKeepSpecs,
         NEW w \in Worker
  PROVE  HasSpec(w)'
  <1> USE NilAssumption
  <1>1. /\ worker \in [Worker -> WorkerState] /\ objects \in [Ingress -> Object \cup {Nil}]
        /\ HasSpec(w) /\ ReadInv(w) /\ ReadInv(w)'
    BY DEF ControllerInv, ControllerTypeOK, WorkersInv, SpecInv, HasSpec
  <1>2. Idle.outcome = "ok"
    BY DEF Idle
  <1>3. CASE worker'[w] = worker[w]
    <2>1. ASSUME worker[w].object # Nil
          PROVE  objects'[worker[w].key].domains = objects[worker[w].key].domains
      <3>1. PICK i \in Ingress : i = worker[w].key
        BY <1>1, <2>1 DEF ReadInv
      <3>2. Exists(i) /\ Exists(i)'
        BY <1>1, <1>3, <2>1, <3>1 DEF ReadInv, Exists
      <3> QED
        BY <3>1, <3>2 DEF HoldersKeepSpecs, InNoHands
    <2>2. ASSUME worker[w].object = Nil, worker[w].key \in Ingress
          PROVE  objects'[worker[w].key] = Nil
      BY <1>1, <2>2 DEF HoldersKeepSpecs, InNoHands, HasSpec, Exists
    <2> QED
      BY <1>1, <1>3, <2>1, <2>2 DEF HasSpec, Exists
  <1>4. CASE worker'[w] = Idle
    BY <1>2, <1>4, IdleFields DEF HasSpec
  <1>5. ASSUME NEW i \in Ingress, StartReconcile(w, i)
        PROVE  HasSpec(w)'
    <2>1. worker[w] = Idle /\ objects[i] \in Object
      BY <1>1, <1>5 DEF StartReconcile, Takes, Exists
    <2>2. /\ worker'[w].pc = "translate" /\ worker'[w].key = i
          /\ worker'[w].object = objects[i] /\ worker'[w].outcome = "ok"
      BY <1>1, <1>2, <1>5, <2>1 DEF StartReconcile, WorkerState
    <2>3. objects'[i] = [objects[i] EXCEPT !.finalizer = TRUE]
      BY <1>1, <1>5 DEF StartReconcile
    <2>4. objects'[i].domains = objects[i].domains
      BY <2>1, <2>3 DEF Object
    <2> QED
      BY <2>1, <2>2, <2>4 DEF HasSpec
  <1>6. ASSUME NEW i \in Ingress, ObserveDeletion(w, i)
        PROVE  HasSpec(w)'
    <2>1. worker[w] = Idle /\ UNCHANGED objects /\ ~Exists(i)
      BY <1>6 DEF ObserveDeletion, Takes, apiVars
    <2>2. /\ worker'[w].pc = "snapshot" /\ worker'[w].key = i
          /\ worker'[w].object = Nil /\ worker'[w].outcome = "ok"
      BY <1>1, <1>2, <1>6, <2>1, IdleFields DEF ObserveDeletion, WorkerState
    <2> QED
      BY <2>1, <2>2 DEF HasSpec, Exists
  <1>7. CASE MiddleStep(w)
    <2>1. /\ worker'[w].key = worker[w].key /\ worker'[w].object = worker[w].object
          /\ UNCHANGED objects
      BY <1>7, MiddleFrame
    <2>2. /\ worker'[w].pc = "update" => worker'[w].translation.domains = worker[w].object.domains
          /\ worker'[w].pc # "finish" => worker'[w].outcome = "ok"
      <3>1. CASE TranslateIngress(w)
        <4> DEFINE i == worker[w].key
                   t == Translate(i, worker[w].object.domains)
        <4>1. /\ worker'[w].translation = t /\ worker'[w].outcome = worker[w].outcome
              /\ worker'[w].pc = (IF t = Nil THEN "snapshot" ELSE "update")
              /\ worker[w].pc = "translate"
          BY <1>1, <3>1 DEF TranslateIngress, WorkerState
        <4>2. t # Nil => t.domains = worker[w].object.domains
          BY DEF Translate
        <4> QED
          BY <1>1, <4>1, <4>2 DEF HasSpec
      <3>2. CASE TranslateFails(w) \/ SnapshotFails(w)
        BY <1>1, <3>2 DEF TranslateFails, SnapshotFails, WorkerState
      <3>3. CASE UpdateCaches(w)
        BY <1>1, <3>3 DEF UpdateCaches, WorkerState, HasSpec
      <3>4. CASE BuildSnapshot(w)
        BY <1>1, <3>4 DEF BuildSnapshot, WorkerState, HasSpec
      <3>5. CASE SetSnapshot(w)
        BY <1>1, <3>5 DEF SetSnapshot, WorkerState
      <3> QED
        BY <1>7, <3>1, <3>2, <3>3, <3>4, <3>5 DEF MiddleStep
    <2> QED
      BY <1>1, <2>1, <2>2 DEF HasSpec, Exists
  <1> QED
    BY <1>3, <1>4, <1>5, <1>6, <1>7, WorkerWriters

LEMMA SpecNext ==
  ASSUME ControllerInv, FreshInv, SpecInv, [ControllerNext]_vars, HoldersKeepSpecs
  PROVE  SpecInv'
  <1>1. ControllerInv'
    BY ControllerNextInv
  <1>2. DOMAIN translatedIngresses' \subseteq Ingress
    BY <1>1 DEF ControllerInv, ControllerTypeOK, TypeOK
  <1>3. ASSUME NEW i \in DOMAIN translatedIngresses', Exists(i)'
        PROVE  translatedIngresses'[i].domains = objects'[i].domains
    BY <1>2, <1>3, SpecCaches
  <1>4. ASSUME NEW w \in Worker PROVE HasSpec(w)'
    BY <1>1, SpecWorkers
  <1> QED
    BY <1>3, <1>4 DEF SpecInv, HasSpec

(* As long as no deletion is observed, a domain that is taken stays taken. *)
LEMMA BlockedStays ==
  ASSUME ControllerInv, SpecInv, [ControllerNext]_vars, ~Restarts,
         \A w \in Worker, j \in Ingress : ~ObserveDeletion(w, j),
         NEW i \in Ingress, objects'[i].domains = objects[i].domains, Blocked(i)
  PROVE  Blocked(i)'
  <1>1. PICK j \in DOMAIN translatedIngresses \ {i} :
           translatedIngresses[j].domains \cap objects[i].domains # {}
    BY DEF Blocked
  <1>2. j \in Ingress
    BY DEF ControllerInv, ControllerTypeOK, TypeOK
  <1>3. /\ j \in DOMAIN translatedIngresses'
        /\ translatedIngresses'[j].domains = translatedIngresses[j].domains
    <2>1. CASE SameCached(j)
      BY <2>1 DEF SameCached
    <2>2. CASE \E w \in Worker : UpdateCaches(w) /\ worker[w].key = j
      BY <2>2, HolderKeepsDomains
    <2> QED
      BY <1>2, <2>1, <2>2, CacheWriters
  <1> QED
    BY <1>1, <1>3 DEF Blocked

(* A deletion stays pending until it has woken the ingresses in conflict. *)
LEMMA DeletionStays ==
  ASSUME ControllerInv, SpecInv, [ControllerNext]_vars, HoldersKeepSpecs, ~Restarts,
         \A w \in Worker : ~ResyncConflicts(w), DeletionPending
  PROVE  DeletionPending'
  <1> USE NilAssumption
  <1>1. worker \in [Worker -> WorkerState] /\ queue \in SUBSET Ingress
    BY DEF ControllerInv, ControllerTypeOK
  <1>2. ASSUME NEW w \in Worker, worker[w].key \in Ingress, worker[w].object = Nil
        PROVE  DeletionPending'
    <2>1. CASE worker'[w] = worker[w]
      BY <1>2, <2>1 DEF DeletionPending
    <2>2. CASE MiddleStep(w)
      BY <1>2, <2>2, MiddleFrame DEF DeletionPending
    <2>3. CASE \E i \in Ingress : StartReconcile(w, i) \/ ObserveDeletion(w, i)
      BY <1>2, <2>3, IdleFields DEF StartReconcile, ObserveDeletion, Takes
    <2>4. CASE FinishStep(w)
      BY <1>2, <2>4, FinishCases
    <2>5. CASE DeletionFails(w)
      <3>1. worker[w].key \in queue' /\ UNCHANGED objects
        BY <2>5 DEF DeletionFails, apiVars
      <3>2. ~Exists(worker[w].key)
        BY <1>2 DEF SpecInv, HasSpec
      <3> QED
        BY <3>1, <3>2 DEF DeletionPending, Exists
    <2> QED
      BY <2>1, <2>2, <2>3, <2>4, <2>5, WorkerWriters DEF Ends
  <1>3. ASSUME NEW j \in queue, ~Exists(j)
        PROVE  DeletionPending'
    <2>1. j \in Ingress /\ ~Exists(j)'
      BY <1>1, <1>3 DEF HoldersKeepSpecs
    <2>2. ASSUME NEW w \in Worker, ObserveDeletion(w, j)
          PROVE  DeletionPending'
      <3>1. worker[w] = Idle
        BY <2>2 DEF ObserveDeletion, Takes
      <3>2. worker'[w].key = j /\ worker'[w].object = Nil
        BY <1>1, <2>2, <3>1, IdleFields DEF ObserveDeletion, WorkerState
      <3> QED
        BY <2>1, <3>2 DEF DeletionPending
    <2>3. \A w \in Worker : ~StartReconcile(w, j)
      BY <1>3 DEF StartReconcile
    <2>4. CASE j \in queue'
      BY <2>1, <2>4 DEF DeletionPending
    <2> QED
      BY <2>2, <2>3, <2>4, QueueWriters
  <1> QED
    BY <1>2, <1>3 DEF DeletionPending

(* The observation of a deletion. *)
LEMMA ObservedIsPending ==
  ASSUME ControllerInv, NEW w \in Worker, NEW i \in Ingress, ObserveDeletion(w, i)
  PROVE  DeletionPending'
  <1>1. worker \in [Worker -> WorkerState] /\ worker[w] = Idle
    BY DEF ControllerInv, ControllerTypeOK, ObserveDeletion, Takes
  <1>2. worker'[w].key = i /\ worker'[w].object = Nil
    BY <1>1, IdleFields DEF ObserveDeletion, WorkerState
  <1> QED
    BY <1>2 DEF DeletionPending

(* An ingress that is refused is blocked. *)
LEMMA RefusedIsBlocked ==
  ASSUME ControllerInv, SpecInv, NEW w \in Worker, NEW i \in Ingress,
         UpdateCaches(w), worker[w].key = i, Refused(w)'
  PROVE  Blocked(i)
  <1> DEFINE t == worker[w].translation
  <1>1. worker[w].pc = "update" /\ worker \in [Worker -> WorkerState]
    BY DEF UpdateCaches, ControllerInv, ControllerTypeOK
  <1>2. CachesInv /\ worker[w].object # Nil
    BY <1>1, BusyIsUp DEF StepInv
  <1>3. t.domains = objects[i].domains
    BY <1>1, <1>2 DEF SpecInv, HasSpec
  <1>4. Conflicts(i, t)
    <2>1. ~(worker' = [worker EXCEPT ![w].pc = "snapshot"])
      BY <1>1 DEF Refused, WorkerState
    <2> QED
      BY <2>1 DEF UpdateCaches, UpdateIngressConflict
  <1>5. PICK d \in t.domains : d \in FreeDomains(i)
    BY <1>4 DEF Conflicts
  <1>6. \E j \in DOMAIN translatedIngresses \ {i} : d \in translatedIngresses[j].domains
    BY <1>2, <1>5 DEF CachesInv, DomainsExact, FreeDomains
  <1> QED
    BY <1>3, <1>5, <1>6 DEF Blocked

(* A key that leaves the queue is in the hands of a worker that has not    *)
(* been refused.                                                           *)
LEMMA UntakenStays ==
  ASSUME ControllerInv, [ControllerNext]_vars, ~Restarts,
         NEW i \in Ingress, i \notin queue',
         \A w \in Worker : ~ObserveDeletion(w, i),
         InNoHands(i)' \/ \E w \in Worker : worker'[w].key = i /\ Refused(w)'
  PROVE  i \notin queue /\ \A w \in Worker : ~StartReconcile(w, i)
  <1>1. worker \in [Worker -> WorkerState]
    BY DEF ControllerInv, ControllerTypeOK
  <1>2. ASSUME NEW w \in Worker, StartReconcile(w, i)
        PROVE  FALSE
    <2>1. /\ worker'[w].key = i /\ worker'[w].pc = "translate"
          /\ \A v \in Worker \ {w} : worker'[v] = worker[v] /\ worker[v].key # i
      BY <1>1, <1>2 DEF StartReconcile, Takes, WorkerState
    <2> QED
      BY <2>1 DEF InNoHands, Refused
  <1> QED
    BY <1>2, QueueWriters

(* A reconciliation that ends without queueing its ingress found it in     *)
(* conflict, and left it so, or left it out of conflict.                   *)
LEMMA FinishedQuietly ==
  ASSUME ControllerInv, NEW w \in Worker, FinishStep(w),
         NEW i \in Ingress, worker[w].key = i, i \notin queue', InConflictNow(i)'
  PROVE  Refused(w) /\ InConflictNow(i) /\ objects'[i].domains = objects[i].domains
  <1> DEFINE o == worker[w].object
  <1>1. /\ worker[w].pc = "finish" /\ o # Nil /\ Exists(i)
        /\ objects \in [Ingress -> Object \cup {Nil}]
    BY FinishCases DEF ControllerInv, ControllerTypeOK
  <1>2. PICK st \in Status, failed \in BOOLEAN :
           /\ WriteStatus(w, st, failed)
           /\ st.lb = "Conflict" => failed \/ worker[w].outcome = "conflict"
    BY FinishCases
  <1>3. ~failed /\ st = o.status /\ objects' = [objects EXCEPT ![i].status = st]
    BY <1>2 DEF WriteStatus
  <1>4. objects[i] \in Object /\ objects[i].status = o.status
    BY <1>1 DEF ControllerInv, WorkersInv, ReadInv, Exists
  <1>5. objects'[i].status = st /\ objects'[i].domains = objects[i].domains
    BY <1>1, <1>3, <1>4 DEF Object
  <1> QED
    BY <1>1, <1>2, <1>3, <1>4, <1>5 DEF InConflictNow, Refused

(* A step that neither queues ingress i nor starts or ends its             *)
(* reconciliation leaves its object alone.                                 *)
LEMMA ObjectStays ==
  ASSUME ControllerInv, [ControllerNext]_vars, NEW i \in Ingress, i \notin queue', Exists(i)',
         \A w \in Worker : ~StartReconcile(w, i) /\ ~(FinishStep(w) /\ worker[w].key = i)
  PROVE  objects'[i] = objects[i]
  <1>1. objects \in [Ingress -> Object \cup {Nil}]
    BY DEF ControllerInv, ControllerTypeOK
  <1>2. CASE UNCHANGED objects
    BY <1>2
  <1>3. CASE \E j \in Ingress : DeleteIngress(j)
    BY <1>1, <1>3 DEF DeleteIngress
  <1>4. CASE \E j \in Ingress, D \in SUBSET Domain : CreateIngress(j, D) \/ UpdateSpec(j, D)
    BY <1>1, <1>4 DEF CreateIngress, UpdateSpec
  <1>5. ASSUME NEW w \in Worker, NEW j \in Ingress, StartReconcile(w, j) \/ Finalize(w, j)
        PROVE  objects'[i] = objects[i]
    <2>1. CASE StartReconcile(w, j)
      BY <1>1, <2>1 DEF StartReconcile
    <2>2. CASE Finalize(w, j)
      BY <1>1, <2>2 DEF Finalize, Exists
    <2> QED
      BY <1>5, <2>1, <2>2
  <1>6. ASSUME NEW w \in Worker, FinishStep(w)
        PROVE  objects'[i] = objects[i]
    <2>1. PICK st, failed : WriteStatus(w, st, failed)
      BY <1>6, FinishCases
    <2> QED
      BY <1>1, <1>6, <2>1 DEF WriteStatus
  <1> QED
    BY <1>2, <1>3, <1>4, <1>5, <1>6, ObjectWriters

(* Unless its reconciliation has just ended or been refused, an ingress    *)
(* that is left alone, or about to be reported in conflict, was so before. *)
LEMMA LeftAloneStays ==
  ASSUME ControllerInv, SpecInv, [ControllerNext]_vars, ~Restarts,
         NEW i \in Ingress, i \notin queue',
         \A w \in Worker : /\ ~ResyncConflicts(w) /\ ~StartReconcile(w, i)
                           /\ ~ObserveDeletion(w, i)
                           /\ ~((FinishStep(w) \/ UpdateCaches(w)) /\ worker[w].key = i),
         InNoHands(i)' \/ \E w \in Worker : worker'[w].key = i /\ Refused(w)'
  PROVE  InNoHands(i) \/ \E w \in Worker : worker[w].key = i /\ Refused(w)
  <1> USE NilAssumption
  <1>1. worker \in [Worker -> WorkerState]
    BY DEF ControllerInv, ControllerTypeOK
  <1>2. ASSUME NEW w \in Worker, worker'[w].key = i \/ worker[w].key = i
        PROVE  worker'[w] = worker[w] \/ (MiddleStep(w) /\ ~UpdateCaches(w))
    <2>1. ASSUME worker'[w] = Idle, Ends(w)
          PROVE  FALSE
      <3>1. worker[w].key = i
        BY <1>2, <2>1, IdleFields
      <3>2. DeletionFails(w)
        BY <2>1, <3>1 DEF Ends
      <3> QED
        BY <3>1, <3>2 DEF DeletionFails
    <2>2. ASSUME NEW j \in Ingress, StartReconcile(w, j) \/ ObserveDeletion(w, j)
          PROVE  FALSE
      <3>1. worker[w] = Idle /\ worker'[w].key = j
        <4>1. CASE StartReconcile(w, j)
          <5>1. /\ worker' = [worker EXCEPT ![w].pc = "translate", ![w].key = j,
                                            ![w].object = objects[j]]
                /\ worker[w] = Idle /\ worker[w] \in WorkerState
            BY <1>1, <4>1 DEF StartReconcile, Takes
          <5> QED
            BY <1>1, <5>1 DEF WorkerState
        <4>2. CASE ObserveDeletion(w, j)
          <5>1. /\ worker' = [worker EXCEPT ![w].pc = "snapshot", ![w].key = j]
                /\ worker[w] = Idle /\ worker[w] \in WorkerState
            BY <1>1, <4>2 DEF ObserveDeletion, Takes
          <5> QED
            BY <1>1, <5>1 DEF WorkerState
        <4> QED
          BY <2>2, <4>1, <4>2
      <3>2. j = i
        BY <1>2, <3>1, IdleFields
      <3> QED
        BY <2>2, <3>2
    <2>3. MiddleStep(w) => worker'[w].key = worker[w].key
      BY MiddleFrame
    <2> QED
      BY <1>2, <2>1, <2>2, <2>3, WorkerWriters
  <1>3. CASE InNoHands(i)'
    BY <1>2, <1>3, MiddleFrame DEF InNoHands
  <1>4. ASSUME NEW w \in Worker, worker'[w].key = i, Refused(w)'
        PROVE  worker[w].key = i /\ Refused(w)
    <2>1. CASE worker'[w] = worker[w]
      BY <1>4, <2>1 DEF Refused
    <2>2. CASE TranslateIngress(w) \/ BuildSnapshot(w)
      BY <1>1, <1>4, <2>2 DEF TranslateIngress, BuildSnapshot, Refused, WorkerState
    <2>3. CASE TranslateFails(w) \/ SnapshotFails(w)
      BY <1>1, <1>4, <2>3 DEF TranslateFails, SnapshotFails, Refused, WorkerState
    <2>4. CASE SetSnapshot(w)
      <3>1. worker[w].pc = "push" /\ worker'[w].outcome = worker[w].outcome
        BY <1>1, <2>4 DEF SetSnapshot, WorkerState
      <3> QED
        BY <1>4, <3>1 DEF SpecInv, HasSpec, Refused
    <2> QED
      BY <1>2, <1>4, <2>1, <2>2, <2>3, <2>4 DEF MiddleStep
  <1> QED
    BY <1>3, <1>4

LEMMA ConflictNext ==
  ASSUME ControllerInv, SpecInv, ConflictInv, [ControllerNext]_vars, HoldersKeepSpecs
  PROVE  ConflictInv'
  <1> SUFFICES ASSUME phase' = "up", NEW i \in Ingress, i \notin queue', InConflictNow(i)',
                      InNoHands(i)' \/ \E w \in Worker : worker'[w].key = i /\ Refused(w)'
               PROVE  Blocked(i)' \/ DeletionPending'
    BY DEF ConflictInv, Justified
  <1>1. CASE Restarts
    BY <1>1 DEF Restarts, Restart, RestartFatal, LoseMemory, apiVars, InConflictNow, Exists
  <1>2. CASE \E w \in Worker : ResyncConflicts(w)
    BY <1>2 DEF ResyncConflicts, InConflict, InConflictNow, Exists, apiVars
  <1>3. CASE \E w \in Worker, j \in Ingress : ObserveDeletion(w, j)
    BY <1>3, ObservedIsPending
  <1>4. CASE /\ ~Restarts
             /\ \A w \in Worker : ~ResyncConflicts(w)
             /\ \A w \in Worker, j \in Ingress : ~ObserveDeletion(w, j)
    <2>1. i \notin queue /\ \A w \in Worker : ~StartReconcile(w, i)
      BY <1>4, UntakenStays
    <2>2. phase = "up"
      BY <1>4, PhaseWriters
    <2> SUFFICES objects'[i].domains = objects[i].domains /\ (Blocked(i) \/ DeletionPending)
      BY <1>4, BlockedStays, DeletionStays
    <2>3. ASSUME NEW w \in Worker, FinishStep(w), worker[w].key = i
          PROVE  objects'[i].domains = objects[i].domains /\ (Blocked(i) \/ DeletionPending)
      BY <2>1, <2>2, <2>3, FinishedQuietly DEF ConflictInv, Justified
    <2>4. ASSUME NEW w \in Worker, UpdateCaches(w), worker[w].key = i
          PROVE  objects'[i].domains = objects[i].domains /\ (Blocked(i) \/ DeletionPending)
      <3>1. /\ UNCHANGED objects /\ worker'[w].key = i
            /\ \A v \in Worker \ {w} : worker'[v] = worker[v] /\ worker[v].key # i
        BY <2>4, MiddleFrame DEF MiddleStep
      <3>2. Refused(w)'
        BY <3>1 DEF InNoHands
      <3> QED
        BY <2>4, <3>1, <3>2, RefusedIsBlocked
    <2>5. CASE \A w \in Worker : ~((FinishStep(w) \/ UpdateCaches(w)) /\ worker[w].key = i)
      <3>1. objects'[i] = objects[i]
        BY <2>1, <2>5, ObjectStays DEF InConflictNow
      <3>2. InConflictNow(i)
        BY <3>1 DEF InConflictNow, Exists
      <3>3. InNoHands(i) \/ \E w \in Worker : worker[w].key = i /\ Refused(w)
        BY <1>4, <2>1, <2>5, LeftAloneStays
      <3> QED
        BY <2>1, <2>2, <3>1, <3>2, <3>3 DEF ConflictInv, Justified
    <2> QED
      BY <2>3, <2>4, <2>5
  <1> QED
    BY <1>1, <1>2, <1>3, <1>4

(* As long as the ingresses that hold domains keep their specs and names   *)
(* are not used again too early, no ingress is left in conflict without a  *)
(* reason: when nothing is pending, another ingress holds one of its       *)
(* domains.  Deletions, failures, restarts, evictions and any number of    *)
(* workers notwithstanding.  The hypothesis is needed: the run             *)
(* conflict_left_over shows what happens when a holder gives a domain up   *)
(* by a change of its spec.                                                *)
THEOREM ConflictsEnd ==
  ControllerSpec /\ [][HoldersKeepSpecs]_vars => []ConflictJustified
  <1>1. ASSUME ControllerInv, ConflictInv
        PROVE  ConflictJustified
    <2> SUFFICES ASSUME Quiet, NEW i \in Ingress, InConflictNow(i)
                 PROVE  objects[i].domains \cap FreeDomains(i) # {}
      BY DEF ConflictJustified, InConflictNow
    <2>0. CachesInv
      BY <1>1 DEF Quiet, ControllerInv, PhaseInv
    <2>1. InNoHands(i) /\ ~DeletionPending
      BY IdleFields, NilAssumption DEF Quiet, InNoHands, DeletionPending
    <2>2. Blocked(i)
      <3>1. i \in Ingress \ queue
        BY DEF Quiet
      <3> QED
        BY <1>1, <2>1, <3>1 DEF Quiet, ConflictInv, Justified
    <2>3. PICK j \in DOMAIN translatedIngresses \ {i} :
             translatedIngresses[j].domains \cap objects[i].domains # {}
      BY <2>2 DEF Blocked
    <2>4. translatedIngresses[j].domains \subseteq FreeDomains(i)
      BY <2>0, <2>3 DEF CachesInv, DomainsExact, DomainsExclusive, FreeDomains
    <2> QED
      BY <2>3, <2>4
  <1>2. [HoldersKeepSpecs]_vars => HoldersKeepSpecs
    BY DEF HoldersKeepSpecs, vars, apiVars, Exists
  <1>3. ControllerSpec /\ [][HoldersKeepSpecs]_vars => []SpecInv
    BY <1>2, ControllerInvariant, NoChangeIsLost, SpecInit, SpecNext, PTL DEF ControllerSpec
  <1>4. ControllerSpec /\ [][HoldersKeepSpecs]_vars => []ConflictInv
    BY <1>2, <1>3, ControllerInvariant, SpecInit, ConflictNext, PTL DEF ControllerSpec
  <1> QED
    BY <1>1, <1>4, ControllerInvariant, PTL

=============================================================================
