---------------------------- MODULE ControllerReady ----------------------------
(***************************************************************************)
(* Machine-checked proofs about what "ready" means: an ingress that the    *)
(* controller reports ready is cached as its latest spec says, with any    *)
(* number of workers, and with one worker Envoy serves it so.              *)
(*                                                                         *)
(* Both need the backends to be there.  While the service of an ingress is *)
(* missing, its reconciliation leaves the caches as they are and goes on   *)
(* as if it had updated them; with no gateway pod left to probe, the new   *)
(* spec is then reported ready although nothing of it was ever translated. *)
(***************************************************************************)
EXTENDS ControllerProofs

(* The services the ingresses route to, and their endpoints, are there. *)
BackendsThere == \A i \in Ingress : services[Backend[i]] # Nil

(* Ingress i is cached with the domains D. *)
CachedWith(i, D) ==
    /\ i \in DOMAIN translatedIngresses
    /\ translatedIngresses[i].domains = D

(* Ingress i is reported ready, for its latest spec, and not being deleted. *)
ReadyNow(i) == Exists(i) /\ ~objects[i].deleting /\ IsReady(objects[i])

(* What worker w has done of its reconciliation: it has translated the     *)
(* domains it read, and they are cached unless it failed.  The status it   *)
(* read is of no later generation than the spec it read.                   *)
DoneInv(w) ==
    LET p == worker[w]
    IN  p.object # Nil =>
          /\ p.object.status.observed <= p.object.generation
          /\ p.pc = "update" => p.translation.domains = p.object.domains
          /\ p.pc \in {"snapshot", "push", "finish"} /\ p.outcome = "ok"
             => CachedWith(p.key, p.object.domains)

(* An ingress that is reported ready is cached as its latest spec says. *)
ReadyIsCached ==
    phase = "up" => \A i \in Ingress : ReadyNow(i) => CachedWith(i, objects[i].domains)

(* The inductive invariant of readiness, for any number of workers. *)
ReadyInv == ReadyIsCached /\ \A w \in Worker : DoneInv(w)

-----------------------------------------------------------------------------

(* Ingress i does not become ready, and while it is its spec stays. *)
StaysReady(i) == ReadyNow(i)' => ReadyNow(i) /\ objects'[i].domains = objects[i].domains

(* No step but the end of its reconciliation makes an ingress ready: a new *)
(* spec has not been observed.                                             *)
LEMMA OthersKeepUnready ==
  ASSUME ControllerInv, [ControllerNext]_vars, NEW i \in Ingress,
         \A w \in Worker : FinishStep(w) => worker[w].key # i
  PROVE  StaysReady(i)
  <1> USE NilAssumption
  <1>1. objects \in [Ingress -> Object \cup {Nil}]
    BY DEF ControllerInv, ControllerTypeOK
  <1>2. CASE objects'[i] = objects[i]
    BY <1>2 DEF StaysReady, ReadyNow, Exists
  <1>3. ASSUME NEW j \in Ingress, NEW D \in SUBSET Domain,
               CreateIngress(j, D) \/ UpdateSpec(j, D) \/ DeleteIngress(j)
        PROVE  StaysReady(i)
    <2>1. CASE j # i
      <3>1. objects'[i] = objects[i]
        BY <1>1, <1>3, <2>1 DEF CreateIngress, UpdateSpec, DeleteIngress
      <3> QED
        BY <1>2, <3>1
    <2>2. CASE j = i /\ CreateIngress(i, D)
      <3>1. objects'[i].status = NewStatus
        BY <1>1, <2>2 DEF CreateIngress
      <3>2. NewStatus.ready = FALSE
        BY DEF NewStatus
      <3> QED
        BY <3>1, <3>2 DEF StaysReady, ReadyNow, IsReady
    <2>3. CASE j = i /\ UpdateSpec(i, D)
      <3>1. objects[i] \in Object /\ Exists(i)
        BY <1>1, <2>3 DEF UpdateSpec, Exists
      <3> DEFINE next == objects[i].generation + 1
      <3>2. objects'[i] = [objects[i] EXCEPT !.domains = D, !.generation = next]
        BY <1>1, <2>3 DEF UpdateSpec
      <3>3. /\ objects[i].generation \in Nat /\ objects[i].status.observed \in Nat
            /\ next = objects[i].generation + 1
        BY <3>1 DEF Object, Status
      <3>4. objects[i].status.observed <= objects[i].generation
        BY <3>1 DEF ControllerInv, StatusInv
      <3> HIDE DEF next
      <3>5. objects'[i].generation = next /\ objects'[i].status = objects[i].status
        BY <3>1, <3>2 DEF Object
      <3>6. objects'[i].status.observed # objects'[i].generation
        BY <3>3, <3>4, <3>5
      <3> QED
        BY <3>6 DEF StaysReady, ReadyNow, IsReady
    <2>4. CASE j = i /\ DeleteIngress(i)
      <3>1. objects[i] \in Object
        BY <1>1, <2>4 DEF DeleteIngress, Exists
      <3>2. objects'[i] = Nil \/ objects'[i] = [objects[i] EXCEPT !.deleting = TRUE]
        BY <1>1, <2>4 DEF DeleteIngress
      <3>3. objects'[i] = Nil \/ objects'[i].deleting
        BY <3>1, <3>2 DEF Object
      <3> QED
        BY <3>3 DEF StaysReady, ReadyNow, Exists
    <2> QED
      BY <1>3, <2>1, <2>2, <2>3, <2>4
  <1>4. ASSUME NEW w \in Worker, NEW j \in Ingress, StartReconcile(w, j) \/ Finalize(w, j)
        PROVE  StaysReady(i)
    <2>1. CASE j # i
      <3>1. objects'[i] = objects[i]
        BY <1>1, <1>4, <2>1 DEF StartReconcile, Finalize
      <3> QED
        BY <1>2, <3>1
    <2>2. CASE j = i /\ StartReconcile(w, i)
      <3>1. objects[i] \in Object /\ Exists(i)
        BY <1>1, <2>2 DEF StartReconcile, Exists
      <3>2. objects'[i] = [objects[i] EXCEPT !.finalizer = TRUE]
        BY <1>1, <2>2 DEF StartReconcile
      <3>3. /\ objects'[i].domains = objects[i].domains
            /\ objects'[i].generation = objects[i].generation
            /\ objects'[i].deleting = objects[i].deleting
            /\ objects'[i].status = objects[i].status
        BY <3>1, <3>2 DEF Object
      <3> QED
        BY <3>1, <3>3 DEF StaysReady, ReadyNow, IsReady
    <2>3. CASE j = i /\ Finalize(w, i)
      <3>1. objects'[i] = Nil
        BY <1>1, <2>3 DEF Finalize
      <3> QED
        BY <3>1 DEF StaysReady, ReadyNow, Exists
    <2> QED
      BY <1>4, <2>1, <2>2, <2>3
  <1>5. ASSUME NEW w \in Worker, FinishStep(w)
        PROVE  StaysReady(i)
    <2>1. PICK st, failed : WriteStatus(w, st, failed)
      BY <1>5, FinishCases
    <2>2. objects'[i] = objects[i]
      BY <1>1, <1>5, <2>1 DEF WriteStatus
    <2> QED
      BY <1>2, <2>2
  <1>6. {} \in SUBSET Domain
    OBVIOUS
  <1>7. ASSUME NEW j \in Ingress, DeleteIngress(j) PROVE StaysReady(i)
    BY <1>3, <1>6, <1>7
  <1>8. ASSUME NEW j \in Ingress, NEW D \in SUBSET Domain, CreateIngress(j, D) \/ UpdateSpec(j, D)
        PROVE  StaysReady(i)
    BY <1>3, <1>8
  <1>9. CASE UNCHANGED objects
    BY <1>2, <1>9
  <1> QED
    BY <1>4, <1>5, <1>7, <1>8, <1>9, ObjectWriters

(* A worker whose object is ready for its latest spec has read that spec:  *)
(* nobody else writes the status it read.                                  *)
LEMMA ReadyWasRead ==
  ASSUME ControllerInv, NEW w \in Worker, DoneInv(w), worker[w].object # Nil,
         \/ objects[worker[w].key].status.observed = objects[worker[w].key].generation
         \/ worker[w].object.generation = objects[worker[w].key].generation
  PROVE  worker[w].object.domains = objects[worker[w].key].domains
  <1> DEFINE o == worker[w].object
             k == worker[w].key
  <1>1. /\ worker[w] \in WorkerState /\ ReadInv(w)
        /\ objects \in [Ingress -> Object \cup {Nil}]
    BY DEF ControllerInv, ControllerTypeOK, WorkersInv
  <1>2. /\ k \in Ingress /\ Exists(k)
        /\ objects[k].status = o.status
        /\ o.generation <= objects[k].generation
        /\ o.generation = objects[k].generation => o.domains = objects[k].domains
    BY <1>1 DEF ReadInv
  <1>3. o \in Object /\ objects[k] \in Object
    BY <1>1, <1>2 DEF WorkerState, Exists
  <1>4. o.generation \in Nat /\ objects[k].generation \in Nat /\ o.status.observed \in Nat
    BY <1>3 DEF Object, Status
  <1>5. o.status.observed <= o.generation
    BY DEF DoneInv
  <1> HIDE DEF o, k
  <1>6. o.generation = objects[k].generation
    BY <1>2, <1>4, <1>5 DEF o, k
  <1> QED
    BY <1>2, <1>6 DEF o, k

(* What a worker has done stays done as long as nobody touches the cached  *)
(* translation of its ingress.                                             *)
LEMMA DoneStays ==
  ASSUME NEW w \in Worker, DoneInv(w), worker'[w] = worker[w],
         worker[w].object # Nil => SameCached(worker[w].key)
  PROVE  DoneInv(w)'
  BY DEF DoneInv, CachedWith, SameCached

(* A worker that takes a key. *)
LEMMA DoneTakes ==
  ASSUME ControllerInv, NEW w \in Worker, NEW i \in Ingress,
         StartReconcile(w, i) \/ ObserveDeletion(w, i)
  PROVE  DoneInv(w)'
  <1> USE NilAssumption
  <1>1. /\ worker \in [Worker -> WorkerState] /\ objects \in [Ingress -> Object \cup {Nil}]
        /\ StatusInv /\ worker[w] = Idle
    BY DEF ControllerInv, ControllerTypeOK, StartReconcile, ObserveDeletion, Takes
  <1>2. CASE StartReconcile(w, i)
    <2>1. Exists(i)
      BY <1>2 DEF StartReconcile
    <2>2. worker'[w].pc = "translate" /\ worker'[w].object = objects[i]
      BY <1>1, <1>2 DEF StartReconcile, WorkerState
    <2>3. objects[i].status.observed <= objects[i].generation
      BY <1>1, <2>1 DEF StatusInv
    <2> QED
      BY <2>2, <2>3 DEF DoneInv
  <1>3. CASE ObserveDeletion(w, i)
    <2>1. worker'[w].object = Nil
      BY <1>1, <1>3, IdleFields DEF ObserveDeletion, WorkerState
    <2> QED
      BY <2>1 DEF DoneInv
  <1> QED
    BY <1>2, <1>3

(* A worker that goes on.  The backend being there, the translation is not *)
(* nil and the caches are updated before a snapshot is built.              *)
LEMMA DoneMiddle ==
  ASSUME ControllerInv, BackendsThere, NEW w \in Worker, DoneInv(w), MiddleStep(w)
  PROVE  DoneInv(w)'
  <1> USE NilAssumption
  <1> DEFINE o == worker[w].object
  <1>1. PICK i \in Ingress : i = worker[w].key
    BY MiddleFrame, BusyIsUp
  <1>2. /\ worker[w].pc # "idle"
        /\ worker'[w].key = i /\ worker'[w].object = o
    BY <1>1, MiddleFrame
  <1>3. /\ worker \in [Worker -> WorkerState] /\ worker[w] \in WorkerState
        /\ ControllerTypeOK /\ StepInv(w)
    BY <1>2, BusyIsUp DEF ControllerInv, ControllerTypeOK
  <1> SUFFICES ASSUME o # Nil
               PROVE  /\ (worker[w].pc = "update" => worker[w].translation.domains = o.domains)'
                      /\ (worker[w].pc \in {"snapshot", "push", "finish"} /\ worker[w].outcome = "ok"
                           => CachedWith(i, o.domains))'
    BY <1>2 DEF DoneInv
  <1>4. o \in Object /\ o.domains \in SUBSET Domain
    BY <1>3 DEF WorkerState, Object
  <1>5. CASE TranslateIngress(w)
    <2> DEFINE t == Translate(i, o.domains)
    <2>1. services[Backend[i]] # Nil
      BY DEF BackendsThere
    <2>2. t \in Translation
      BY <1>3, <1>4, <2>1, TranslateType
    <2>3. t # Nil /\ t.domains = o.domains
      BY <2>1, <2>2 DEF Translate
    <2> HIDE DEF t
    <2>4. worker'[w].pc = "update" /\ worker'[w].translation = t
      BY <1>1, <1>3, <1>5, <2>3 DEF TranslateIngress, WorkerState, t
    <2> QED
      BY <1>2, <2>3, <2>4
  <1>6. CASE TranslateFails(w) \/ SnapshotFails(w)
    <2>1. worker'[w].pc = "finish" /\ worker'[w].outcome = "error"
      BY <1>3, <1>6 DEF TranslateFails, SnapshotFails, WorkerState
    <2> QED
      BY <2>1
  <1>7. CASE UpdateCaches(w)
    <2> DEFINE t == worker[w].translation
    <2>1. t.domains = o.domains
      BY <1>7 DEF UpdateCaches, DoneInv
    <2>2. CASE /\ UpdateIngressAccepted(i, t)
               /\ worker' = [worker EXCEPT ![w].pc = "snapshot"]
      <3>1. worker'[w].pc = "snapshot"
        BY <1>3, <2>2 DEF WorkerState
      <3>2. CachedWith(i, o.domains)'
        BY <1>2, <2>1, <2>2 DEF UpdateIngressAccepted, CachedWith
      <3> QED
        BY <3>1, <3>2
    <2>3. CASE worker' = [worker EXCEPT ![w].pc = "finish", ![w].outcome = "conflict"]
      <3>1. worker'[w].pc = "finish" /\ worker'[w].outcome = "conflict"
        BY <1>3, <2>3 DEF WorkerState
      <3> QED
        BY <3>1
    <2> QED
      BY <1>1, <1>7, <2>2, <2>3 DEF UpdateCaches
  <1>8. CASE BuildSnapshot(w) \/ SetSnapshot(w)
    <2>1. /\ worker[w].pc \in {"snapshot", "push"} /\ worker'[w].pc \in {"push", "finish"}
          /\ worker'[w].outcome = worker[w].outcome
      BY <1>3, <1>8 DEF BuildSnapshot, SetSnapshot, WorkerState
    <2>2. UNCHANGED translatedIngresses
      BY <1>8 DEF BuildSnapshot, SetSnapshot, cachesVars
    <2> QED
      BY <1>1, <1>2, <2>1, <2>2 DEF DoneInv, CachedWith
  <1> QED
    BY <1>5, <1>6, <1>7, <1>8 DEF MiddleStep

(* A worker keeps what it has done through every step. *)
LEMMA DoneNext ==
  ASSUME ControllerInv, BackendsThere, NEW w \in Worker, DoneInv(w), [ControllerNext]_vars
  PROVE  DoneInv(w)'
  <1> USE NilAssumption
  <1>1. CASE worker'[w] = Idle
    BY <1>1, IdleFields DEF DoneInv
  <1>2. CASE worker'[w] = worker[w] /\ worker[w] # Idle /\ ~MiddleStep(w)
    <2>1. worker \in [Worker -> WorkerState] /\ KeysExclusive /\ StepInv(w)
      BY DEF ControllerInv, ControllerTypeOK, WorkersInv
    <2>2. worker[w].pc # "idle"
      BY <1>2, <2>1 DEF StepInv
    <2>3. PICK i \in Ingress : i = worker[w].key
      BY <2>2, BusyIsUp
    <2>4. ~Restarts
      <3>1. Restarts => worker'[w] = Idle
        BY DEF Restarts, Restart, RestartFatal, LoseMemory
      <3> QED
        BY <1>2, <3>1
    <2>5. ASSUME NEW v \in Worker PROVE ~(UpdateCaches(v) /\ worker[v].key = i)
      <3>1. CASE v = w
        BY <1>2, <3>1 DEF MiddleStep
      <3>2. CASE v # w
        BY <2>1, <2>3, <3>2 DEF KeysExclusive
      <3> QED
        BY <3>1, <3>2
    <2>6. ASSUME NEW v \in Worker PROVE ~ObserveDeletion(v, i)
      BY <2>3 DEF ObserveDeletion, Takes
    <2>7. SameCached(i)
      BY <2>4, <2>5, <2>6, CacheWriters
    <2> QED
      BY <1>2, <2>3, <2>7, DoneStays
  <1> QED
    BY <1>1, <1>2, DoneTakes, DoneMiddle, WorkerWriters

(* A restart primes the caches with the ingresses that are ready. *)
LEMMA ReadyIsPrimed ==
  ASSUME ControllerInv, BackendsThere, Restart, NEW i \in Ingress, ReadyNow(i)'
  PROVE  CachedWith(i, objects[i].domains)'
  <1> USE NilAssumption
  <1>1. UNCHANGED <<objects, services>> /\ translatedIngresses' = Primed
    BY DEF Restart, LoseMemory, apiVars
  <1>2. /\ Exists(i) /\ ~objects[i].deleting /\ objects[i].status.ready
        /\ ControllerTypeOK /\ StatusInv
    BY <1>1 DEF ReadyNow, IsReady, Exists, ControllerInv
  <1>3. i \in ReadyIngresses
    BY <1>2 DEF ReadyIngresses, StatusInv
  <1>4. services[Backend[i]] # Nil
    BY DEF BackendsThere
  <1>5. objects[i].domains \in SUBSET Domain
    BY <1>2 DEF ControllerTypeOK, Exists, Object
  <1> DEFINE t == Translate(i, objects[i].domains)
  <1>6. t \in Translation /\ t.domains = objects[i].domains
    <2>1. t \in Translation
      BY <1>2, <1>4, <1>5, TranslateType
    <2> QED
      BY <1>4, <2>1 DEF Translate
  <1>7. i \in DOMAIN Primed /\ Primed[i] = t
    BY <1>3, <1>6 DEF Primed
  <1> HIDE DEF t
  <1> QED
    BY <1>1, <1>6, <1>7 DEF CachedWith

(* The reconciliation of an ingress that is ready translates the domains   *)
(* that are cached, and finds no conflict.                                 *)
LEMMA ReadyIsUpdated ==
  ASSUME ControllerInv, ReadyInv, NEW w \in Worker, NEW i \in Ingress,
         UpdateCaches(w), worker[w].key = i, ReadyNow(i)'
  PROVE  CachedWith(i, objects[i].domains)'
  <1> DEFINE t == worker[w].translation
             D == objects[i].domains
  <1>1. worker[w].pc = "update" /\ UNCHANGED objects
    BY DEF UpdateCaches, apiVars
  <1>2. phase = "up" /\ worker[w].object # Nil /\ DoneInv(w)
    BY <1>1, BusyIsUp DEF StepInv, ReadyInv
  <1>3. ReadyNow(i) /\ objects[i].status.observed = objects[i].generation
    BY <1>1 DEF ReadyNow, IsReady, Exists
  <1>4. t.domains = D
    BY <1>1, <1>2, <1>3, ReadyWasRead DEF DoneInv
  <1>5. CachedWith(i, D)
    BY <1>2, <1>3 DEF ReadyInv, ReadyIsCached
  <1>6. ~Conflicts(i, t)
    BY <1>4, <1>5 DEF Conflicts, FreeDomains, CachedWith
  <1>7. UpdateIngressAccepted(i, t)
    BY <1>6 DEF UpdateCaches, UpdateIngressConflict
  <1>8. D' = D
    BY <1>1
  <1> QED
    BY <1>4, <1>7, <1>8 DEF UpdateIngressAccepted, CachedWith

(* A worker that reports its ingress ready, for the latest spec, has       *)
(* cached that spec and, all going well, had it served.                    *)
LEMMA FinishedReady ==
  ASSUME ControllerInv, ReadyInv, NEW w \in Worker, NEW i \in Ingress,
         FinishStep(w), worker[w].key = i, ReadyNow(i)'
  PROVE  /\ CachedWith(i, objects[i].domains)'
         /\ worker[w].pc = "finish" /\ worker[w].outcome = "ok"
  <1>1. PICK st \in Status, failed \in BOOLEAN :
           /\ WriteStatus(w, st, failed)
           /\ st.observed = worker[w].object.generation
           /\ st.ready => worker[w].outcome = "ok"
    BY FinishCases
  <1>2. /\ worker[w].pc = "finish" /\ worker[w].object # Nil /\ Exists(i)
        /\ objects \in [Ingress -> Object \cup {Nil}] /\ DoneInv(w)
    BY FinishCases DEF ControllerInv, ControllerTypeOK, ReadyInv
  <1>3. objects[i] \in Object
    BY <1>2 DEF Exists
  <1>4. objects'[i] = [objects[i] EXCEPT !.status = st]
    BY <1>1, <1>2 DEF WriteStatus
  <1>5. /\ objects'[i].status = st /\ objects'[i].generation = objects[i].generation
        /\ objects'[i].domains = objects[i].domains
    BY <1>3, <1>4 DEF Object
  <1>6. st.ready /\ st.observed = objects[i].generation
    BY <1>5 DEF ReadyNow, IsReady
  <1>7. worker[w].object.domains = objects[i].domains
    BY <1>1, <1>2, <1>6, ReadyWasRead
  <1>8. CachedWith(i, objects[i].domains)
    BY <1>1, <1>2, <1>6, <1>7 DEF DoneInv
  <1>9. UNCHANGED translatedIngresses
    BY <1>1 DEF WriteStatus, cachesVars
  <1> QED
    BY <1>1, <1>2, <1>5, <1>6, <1>8, <1>9 DEF CachedWith

LEMMA ReadyInit == ControllerInit => ReadyInv
  <1> SUFFICES ASSUME ControllerInit PROVE ReadyInv
    OBVIOUS
  <1>1. \A i \in Ingress : ~ReadyNow(i)
    BY DEF ControllerInit, ReadyNow, Exists
  <1>2. \A w \in Worker : worker[w].object = Nil
    BY DEF ControllerInit, Idle
  <1> QED
    BY <1>1, <1>2 DEF ReadyInv, ReadyIsCached, DoneInv

LEMMA ReadyNext ==
  ControllerInv /\ BackendsThere /\ ReadyInv /\ [ControllerNext]_vars => ReadyInv'
  <1> SUFFICES ASSUME ControllerInv, BackendsThere, ReadyInv, [ControllerNext]_vars
               PROVE  ReadyInv'
    OBVIOUS
  <1>1. ASSUME NEW w \in Worker PROVE DoneInv(w)'
    BY DoneNext DEF ReadyInv
  <1>2. ASSUME phase' = "up", NEW i \in Ingress, ReadyNow(i)'
        PROVE  CachedWith(i, objects[i].domains)'
    <2>1. CASE Restart
      BY <1>2, <2>1, ReadyIsPrimed
    <2>2. CASE RestartFatal
      BY <1>2, <2>2 DEF RestartFatal
    <2>3. CASE \E w \in Worker : UpdateCaches(w) /\ worker[w].key = i
      BY <1>2, <2>3, ReadyIsUpdated
    <2>4. CASE \E w \in Worker : ObserveDeletion(w, i)
      BY <1>2, <2>4 DEF ObserveDeletion, ReadyNow, Exists, apiVars
    <2>5. CASE \E w \in Worker : FinishStep(w) /\ worker[w].key = i
      BY <1>2, <2>5, FinishedReady
    <2>6. CASE /\ SameCached(i) /\ ~Restarts
               /\ \A w \in Worker : FinishStep(w) => worker[w].key # i
      <3>1. phase = "up" /\ StaysReady(i)
        BY <1>2, <2>6, PhaseWriters, OthersKeepUnready
      <3>2. CachedWith(i, objects[i].domains) /\ objects'[i].domains = objects[i].domains
        BY <1>2, <3>1 DEF ReadyInv, ReadyIsCached, StaysReady
      <3> QED
        BY <2>6, <3>2 DEF CachedWith, SameCached
    <2> QED
      BY <2>1, <2>2, <2>3, <2>4, <2>5, <2>6, CacheWriters DEF Restarts
  <1> QED
    BY <1>1, <1>2 DEF ReadyInv, ReadyIsCached

(* As long as the backends are there, an ingress that is reported ready is *)
(* cached as its latest spec says, with any number of workers, through     *)
(* failures and restarts: no conflict, eviction or race with a change of   *)
(* its spec takes it out of the caches.                                    *)
THEOREM ReadyStaysCached == ControllerSpec /\ []BackendsThere => []ReadyIsCached
  <1>1. ReadyInv => ReadyIsCached
    BY DEF ReadyInv
  <1> QED
    BY <1>1, ControllerInvariant, ReadyInit, ReadyNext, PTL DEF ControllerSpec

-----------------------------------------------------------------------------
(* One worker: Envoy serves what is reported ready. *)

LEMMA ServedNext ==
  ASSUME OneWorker, ControllerInv, ReadyInv, ReadyInv', SyncInv, ReadyIsServed,
         [ControllerNext]_vars
  PROVE  ReadyIsServed'
  <1>1. CASE Restart
    <2>1. RoutesOK'
      BY SnapshotRoutes, PTL
    <2>2. (served.routes = CachedRoutes)'
      BY <1>1, <2>1 DEF Restart, FirstSnapshot, RoutesOK
    <2> QED
      BY <2>2 DEF ReadyInv, ReadyIsCached, ReadyIsServed, ReadyNow, CachedWith, CachedRoutes,
                  RouteOf
  <1>2. ASSUME NEW w \in Worker, SetSnapshot(w)
        PROVE  ReadyIsServed'
    <2>1. worker[w].pc = "push" /\ worker[w].pc # "idle" /\ served' = worker[w].snapshot
      BY <1>2 DEF SetSnapshot
    <2>2. worker[w].snapshot.routes = CachedRoutes
      BY <2>1, BusyIsUp DEF SyncInv, SnapshotCurrent
    <2>3. CachedRoutes' = CachedRoutes
      BY <1>2 DEF SetSnapshot, cachesVars, CachedRoutes, RouteOf
    <2>4. (served.routes = CachedRoutes)'
      BY <2>1, <2>2, <2>3
    <2> QED
      BY <2>4 DEF ReadyInv, ReadyIsCached, ReadyIsServed, ReadyNow, CachedWith, CachedRoutes,
                  RouteOf
  <1>3. CASE UNCHANGED served /\ ~Restart
    <2> SUFFICES ASSUME phase' = "up", NEW i \in Ingress, ReadyNow(i)'
                 PROVE  /\ i \in DOMAIN served'.routes
                        /\ served'.routes[i].domains = objects'[i].domains
      BY DEF ReadyIsServed, ReadyNow
    <2>1. phase = "up"
      BY <1>3, PhaseWriters DEF Restarts, RestartFatal
    <2>2. CASE \A w \in Worker : FinishStep(w) => worker[w].key # i
      <3>1. ReadyNow(i) /\ objects'[i].domains = objects[i].domains
        BY <2>2, OthersKeepUnready DEF StaysReady
      <3> QED
        BY <1>3, <2>1, <3>1 DEF ReadyIsServed, ReadyNow
    <2>3. ASSUME NEW w \in Worker, FinishStep(w), worker[w].key = i
          PROVE  /\ i \in DOMAIN served'.routes
                 /\ served'.routes[i].domains = objects'[i].domains
      <3>1. /\ CachedWith(i, objects[i].domains)'
            /\ worker[w].pc = "finish" /\ worker[w].outcome = "ok"
        BY <2>3, FinishedReady
      <3>2. ServedAsCached(i)
        BY <2>1, <2>3, <3>1 DEF SyncInv, SnapshotCurrent
      <3>3. PICK st, failed : WriteStatus(w, st, failed)
        BY <2>3, FinishCases
      <3>4. UNCHANGED translatedIngresses
        BY <3>3 DEF WriteStatus, cachesVars
      <3> QED
        BY <1>3, <3>1, <3>2, <3>4 DEF CachedWith, ServedAsCached, RouteOf
    <2> QED
      BY <2>2, <2>3
  <1> QED
    BY <1>1, <1>2, <1>3, ServedWriters

(* With one worker, and as long as the backends are there, an ingress that *)
(* is reported ready is served as its latest spec says, at every moment:   *)
(* while other ingresses change, clusters expire, steps fail and the       *)
(* process restarts.                                                       *)
THEOREM ReadyStaysServed == OneWorker /\ ControllerSpec /\ []BackendsThere => []ReadyIsServed
  <1> SUFFICES ASSUME OneWorker PROVE ControllerSpec /\ []BackendsThere => []ReadyIsServed
    OBVIOUS
  <1>1. ControllerSpec => []SyncInv
    BY ControllerInvariant, SyncInit, SyncNext, PTL DEF ControllerSpec
  <1>2. ControllerSpec /\ []BackendsThere => []ReadyInv
    BY ControllerInvariant, ReadyInit, ReadyNext, PTL DEF ControllerSpec
  <1>3. ControllerInit => ReadyIsServed
    BY DEF ControllerInit, ReadyIsServed, Exists
  <1>4. ControllerInv /\ ReadyInv /\ ReadyInv' /\ SyncInv /\ ReadyIsServed /\ [ControllerNext]_vars
          => ReadyIsServed'
    BY ServedNext
  <1> QED
    BY <1>1, <1>2, <1>3, <1>4, ControllerInvariant, PTL DEF ControllerSpec

=============================================================================
