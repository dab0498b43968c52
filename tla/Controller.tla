------------------------------ MODULE Controller ------------------------------
(***************************************************************************)
(* pkg/reconciler/ingress: the controller that keeps Envoy's configuration *)
(* in step with the Ingress objects of the API server.                     *)
(*                                                                         *)
(* Workers take ingress keys from a work queue, which never hands a key to *)
(* two workers at a time, and run the generated reconciler around          *)
(* ReconcileKind, ObserveDeletion or FinalizeKind.  A reconciliation is a  *)
(* sequence of steps between which other workers, users, the kubelet, the  *)
(* prober and the cluster janitor act:                                     *)
(*                                                                         *)
(*   start -> translate -> update caches -> build snapshot -> set snapshot *)
(*         -> write status                                                 *)
(*                                                                         *)
(* The caches are those of module Caches.  The xDS server is the last      *)
(* snapshot set; a gateway is taken to serve it at once.                   *)
(*                                                                         *)
(* The rules of an ingress are abstracted to its domains, its splits to    *)
(* one backend service whose cluster stands for the three of its regions.  *)
(* Informer caches are taken to be up to date with the API server.         *)
(***************************************************************************)
EXTENDS Caches

CONSTANTS
    Worker,       \* the controller's worker goroutines
    Backend,      \* Backend[i]: the service ingress i routes to
    Budgets,      \* of events: b[e] bounds how many of kind e may happen
    Nil           \* nil: no object, no service, no translation, no key

EventKinds == {"create", "update", "delete", "scale", "lose", "gateway",
               "pod", "resync", "error", "restart"}

ASSUME ControllerAssumption ==
    /\ Backend \in [Ingress -> Cluster]
    /\ Budgets \subseteq [EventKinds -> Nat]

VARIABLES
    objects,   \* API server: the Ingress objects, with their status
    services,  \* API server: endpoints of every service, Nil if missing
    gateway,   \* has the gateway a ready pod?
    queue,     \* work queue: the keys waiting
    worker,    \* what every worker goroutine is doing
    tracked,   \* tracker: ingresses whose backend's changes are reported
    forgets,   \* tracker: deletions of ingresses it has not been told of
    probes,    \* status prober: what is known of the probing of an ingress
    served,    \* xDS server: the snapshot set last
    phase,     \* "up", or "fatal" when the process died while starting
    budget     \* events that may still happen

apiVars == <<objects, services, gateway>>
tracker == <<tracked, forgets>>
ctlVars == <<queue, worker, tracker, probes, served, phase>>
vars == <<cachesVars, apiVars, ctlVars, budget>>

-----------------------------------------------------------------------------
(* Data. *)

(* The LoadBalancerReady condition: "" stands for Unknown without a        *)
(* reason, "Uninitialized" for Unknown after MarkLoadBalancerNotReady,     *)
(* "Conflict" for False after MarkLoadBalancerFailed.                      *)
LoadBalancer == {"", "Uninitialized", "Conflict", "True"}

(* NetworkConfigured, LoadBalancerReady and Ready, and the generation they *)
(* were computed for.                                                      *)
Status == [observed : Nat, network : BOOLEAN, lb : LoadBalancer, ready : BOOLEAN]

(* An Ingress object; its rules are abstracted to their domains.            *)
Object == [domains : SUBSET Domain, generation : Nat, deleting : BOOLEAN,
           finalizer : BOOLEAN, status : Status]

(* The probing of the version of an ingress that has the domains "hash".   *)
Probe == [hash : SUBSET Domain, done : BOOLEAN]

(* What the xDS server is handed: virtual hosts and clusters.              *)
Route == [domains : SUBSET Domain, clusters : SUBSET Cluster]

Snapshot ==
    [routes   : UNION {[I -> Route] : I \in SUBSET Ingress},
     clusters : UNION {[C -> Endpoints] : C \in SUBSET (Cluster \cup {ExtAuthzCluster})}]

(* A worker goroutine: how far it has come, and its local variables.       *)
WorkerState ==
    [pc          : {"idle", "translate", "update", "snapshot", "push", "finish"},
     key         : Ingress \cup {Nil},
     object      : Object \cup {Nil},
     translation : Translation \cup {Nil},
     snapshot    : Snapshot \cup {Nil},
     outcome     : {"ok", "conflict", "error"}]

(* nil is none of the things a pointer points to. *)
ASSUME NilAssumption ==
    /\ Nil \notin Ingress /\ Nil \notin Endpoints
    /\ Nil \notin Object /\ Nil \notin Probe /\ Nil \notin Translation

NewStatus == [observed |-> 0, network |-> FALSE, lb |-> "", ready |-> FALSE]

Exists(i) == objects[i] # Nil

(* Ingress.IsReady: Ready is true and the latest spec has been observed.   *)
IsReady(object) ==
    object.status.observed = object.generation /\ object.status.ready

(* The contents the listed clusters give a cluster name. *)
Contents(c) == {clusters[k].object : k \in {l \in Listed : l[1] = c}}

(* The virtual hosts of a translation, which name their clusters. *)
RouteOf(t) == [domains |-> t.domains, clusters |-> DOMAIN t.clusters]

(* The snapshots ToEnvoySnapshot may hand to the xDS server: the virtual   *)
(* hosts of the cached translations and the listed clusters.  A snapshot   *)
(* has one cluster of a name; where several ingresses have one, the order  *)
(* of a Go map decides which it is.                                        *)
ToEnvoySnapshot ==
    {[routes   |-> [i \in DOMAIN translatedIngresses |-> RouteOf(translatedIngresses[i])],
      clusters |-> contents] :
        contents \in {f \in [{k[1] : k \in Listed} -> Endpoints] :
                        \A c \in DOMAIN f : f[c] \in Contents(c)}}

(* The translation of ingress i asking for domains D, given the services:  *)
(* nil when the service or its endpoints are not there yet.                *)
Translate(i, D) ==
    IF services[Backend[i]] = Nil
    THEN Nil
    ELSE [domains  |-> D,
          clusters |-> [c \in {Backend[i]} |-> services[c]]]

Idle == [pc |-> "idle", key |-> Nil, object |-> Nil, translation |-> Nil,
         snapshot |-> Nil, outcome |-> "ok"]

(* The work queue hands key i to worker w: w is free and no other worker   *)
(* is processing i.  A key that is added meanwhile waits.                  *)
Takes(w, i) ==
    /\ phase = "up"
    /\ worker[w] = Idle
    /\ i \in queue
    /\ \A v \in Worker : worker[v].key # i

(* No work is queued or being done. *)
Quiet == phase = "up" /\ queue = {} /\ evicted = {} /\ \A w \in Worker : worker[w] = Idle

Spend(e) == budget[e] > 0 /\ budget' = [budget EXCEPT ![e] = @ - 1]

-----------------------------------------------------------------------------
(* Events from outside: users, the autoscaler, the kubelet. *)

(* A user creates ingress i.  The informer's add event enqueues it. *)
CreateIngress(i, D) ==
    /\ ~Exists(i)
    /\ Spend("create")
    /\ objects' = [objects EXCEPT ![i] =
                     [domains |-> D, generation |-> 1, deleting |-> FALSE,
                      finalizer |-> FALSE, status |-> NewStatus]]
    /\ queue' = queue \cup {i}
    /\ UNCHANGED <<cachesVars, services, gateway, worker, tracker, probes, served, phase>>

(* A user changes the spec of ingress i; the API server bumps generation. *)
UpdateSpec(i, D) ==
    /\ Exists(i) /\ ~objects[i].deleting /\ objects[i].domains # D
    /\ Spend("update")
    /\ objects' = [objects EXCEPT ![i].domains = D, ![i].generation = @ + 1]
    /\ queue' = queue \cup {i}
    /\ UNCHANGED <<cachesVars, services, gateway, worker, tracker, probes, served, phase>>

(* A user deletes ingress i.  With the controller's finalizer on it the    *)
(* object stays, marked for deletion; without, it is gone and the tracker  *)
(* will be told.                                                           *)
DeleteIngress(i) ==
    /\ Exists(i) /\ ~objects[i].deleting
    /\ Spend("delete")
    /\ IF objects[i].finalizer
       THEN /\ objects' = [objects EXCEPT ![i].deleting = TRUE]
            /\ UNCHANGED forgets
       ELSE /\ objects' = [objects EXCEPT ![i] = Nil]
            /\ forgets' = forgets \cup {i}
    /\ queue' = queue \cup {i}
    /\ UNCHANGED <<cachesVars, services, gateway, worker, tracked, probes, served, phase>>

(* Faulty variant of Trackers: endpoint changes of ingresses that are      *)
(* ready are not reported.                                                 *)
TrackersUnready(s) ==
    {i \in tracked : Backend[i] = s /\ Exists(i) /\ ~objects[i].status.ready}

(* Faulty variant of Trackers: a change is lost on an ingress that is      *)
(* being reconciled.                                                       *)
TrackersIdle(s) ==
    {i \in tracked : Backend[i] = s /\ \A w \in Worker : worker[w].key # i}

(* The ingresses the tracker reports when service s or its endpoints change. *)
Trackers(s) == {i \in tracked : Backend[i] = s}

(* The endpoints of service s change (or the service appears).  The        *)
(* informer's handler skips changes that leave the ready addresses alone.  *)
ScaleService(s, e) ==
    /\ services[s] # e
    /\ Spend("scale")
    /\ services' = [services EXCEPT ![s] = e]
    /\ queue' = queue \cup Trackers(s)
    /\ UNCHANGED <<cachesVars, objects, gateway, worker, tracker, probes, served, phase>>

(* Service s disappears. *)
LoseService(s) ==
    /\ services[s] # Nil
    /\ Spend("lose")
    /\ services' = [services EXCEPT ![s] = Nil]
    /\ queue' = queue \cup Trackers(s)
    /\ UNCHANGED <<cachesVars, objects, gateway, worker, tracker, probes, served, phase>>

(* The gateway pod stops being ready, or is ready again. *)
ToggleGateway ==
    /\ Spend("gateway")
    /\ gateway' = ~gateway
    /\ UNCHANGED <<cachesVars, objects, services, ctlVars>>

(* The ingresses whose probing has not succeeded yet. *)
Pending == {i \in Ingress : probes[i] # Nil /\ ~probes[i].done}

(* The gateway pod is deleted: CancelPodProbing drops its pending probes,  *)
(* which counts as success and triggers the ready callback.                *)
DeleteGatewayPod ==
    /\ Spend("pod")
    /\ gateway' = FALSE
    /\ probes' = [i \in Ingress |->
                    IF i \in Pending THEN [probes[i] EXCEPT !.done = TRUE] ELSE probes[i]]
    /\ queue' = queue \cup Pending
    /\ UNCHANGED <<cachesVars, objects, services, worker, tracker, served, phase>>

(* A configuration change or the informers' periodic resync enqueues every *)
(* ingress.                                                                *)
GlobalResync ==
    /\ Spend("resync")
    /\ queue' = queue \cup {i \in Ingress : Exists(i)}
    /\ UNCHANGED <<cachesVars, apiVars, worker, tracker, probes, served, phase>>

-----------------------------------------------------------------------------
(* The steps of a worker. *)

(* The worker takes key i and reads the object from the lister.  An object *)
(* that is gone is observed as a deletion.  A live one gets the finalizer, *)
(* which is an update event of its own, and is reconciled.                 *)
StartReconcile(w, i) ==
    /\ Takes(w, i)
    /\ Exists(i) /\ ~objects[i].deleting
    /\ worker' = [worker EXCEPT ![w].pc = "translate", ![w].key = i, ![w].object = objects[i]]
    /\ objects' = [objects EXCEPT ![i].finalizer = TRUE]
    /\ queue' = IF objects[i].finalizer THEN queue \ {i} ELSE queue
    /\ UNCHANGED <<cachesVars, services, gateway, tracker, probes, served, phase, budget>>

(* FinalizeKind does nothing; the finalizer is cleared and the object      *)
(* disappears, which enqueues the key once more.                           *)
Finalize(w, i) ==
    /\ Takes(w, i)
    /\ Exists(i) /\ objects[i].deleting
    /\ objects' = [objects EXCEPT ![i] = Nil]
    /\ forgets' = forgets \cup {i}
    /\ UNCHANGED <<cachesVars, services, gateway, queue, worker, tracked, probes, served,
                   phase, budget>>

(* OnDeletedObserver: the informer reports deletions to the tracker by a   *)
(* goroutine of its own, which may lag behind the one that feeds the work  *)
(* queue.                                                                  *)
OnDeletedObserver(i) ==
    /\ i \in forgets
    /\ tracked' = tracked \ {i}
    /\ forgets' = forgets \ {i}
    /\ UNCHANGED <<cachesVars, apiVars, queue, worker, probes, served, phase, budget>>

(* Faulty variant of ObserveDeletion: no snapshot is pushed afterwards.    *)
ObserveDeletionSilent(w, i) ==
    /\ Takes(w, i)
    /\ ~Exists(i)
    /\ DeleteIngressInfo(i)
    /\ probes' = [probes EXCEPT ![i] = Nil]
    /\ queue' = queue \ {i}
    /\ worker' = [worker EXCEPT ![w].pc = "finish", ![w].key = i]
    /\ UNCHANGED <<apiVars, tracker, served, phase, budget>>

(* ObserveDeletion: probing is cancelled and the ingress leaves the caches.*)
ObserveDeletion(w, i) ==
    /\ Takes(w, i)
    /\ ~Exists(i)
    /\ DeleteIngressInfo(i)
    /\ probes' = [probes EXCEPT ![i] = Nil]
    /\ queue' = queue \ {i}
    /\ worker' = [worker EXCEPT ![w].pc = "snapshot", ![w].key = i]
    /\ UNCHANGED <<apiVars, tracker, served, phase, budget>>

(* UpdateInfoForIngress, first half: the backend is tracked, then read;    *)
(* tracking it for the first time enqueues the ingress once more.  A nil   *)
(* translation leaves the caches as they are.                              *)
TranslateIngress(w) ==
    /\ worker[w].pc = "translate"
    /\ LET i == worker[w].key
           t == Translate(i, worker[w].object.domains)
       IN  /\ tracked' = tracked \cup {i}
           /\ queue' = IF i \in tracked THEN queue ELSE queue \cup {i}
           /\ worker' = [worker EXCEPT ![w].pc = IF t = Nil THEN "snapshot" ELSE "update",
                                      ![w].translation = t]
    /\ UNCHANGED <<cachesVars, apiVars, forgets, probes, served, phase, budget>>

(* A translation that fails (a secret that is missing or invalid), before  *)
(* any backend is tracked.                                                 *)
TranslateFails(w) ==
    /\ worker[w].pc = "translate"
    /\ Spend("error")
    /\ worker' = [worker EXCEPT ![w].pc = "finish", ![w].outcome = "error"]
    /\ UNCHANGED <<cachesVars, apiVars, queue, tracker, probes, served, phase>>

(* UpdateInfoForIngress, second half: Caches.UpdateIngress under its lock. *)
(* A conflict ends updateIngress before a snapshot is built.               *)
UpdateCaches(w) ==
    /\ worker[w].pc = "update"
    /\ LET i == worker[w].key
           t == worker[w].translation
       IN  \/ /\ UpdateIngressAccepted(i, t)
              /\ worker' = [worker EXCEPT ![w].pc = "snapshot"]
           \/ /\ UpdateIngressConflict(i, t)
              /\ worker' = [worker EXCEPT ![w].pc = "finish", ![w].outcome = "conflict"]
    /\ UNCHANGED <<apiVars, queue, tracker, probes, served, phase, budget>>

(* updateEnvoyConfig, first half: the snapshot is built under Caches.mu.   *)
BuildSnapshot(w) ==
    /\ worker[w].pc = "snapshot"
    /\ \E s \in ToEnvoySnapshot :
          worker' = [worker EXCEPT ![w].pc = "push", ![w].snapshot = s]
    /\ UNCHANGED <<cachesVars, apiVars, queue, tracker, probes, served, phase, budget>>

(* ToEnvoySnapshot fails (a secret cannot be read).  The caches have       *)
(* changed by then.                                                        *)
SnapshotFails(w) ==
    /\ worker[w].pc = "snapshot" /\ worker[w].object # Nil
    /\ Spend("error")
    /\ worker' = [worker EXCEPT ![w].pc = "finish", ![w].outcome = "error"]
    /\ UNCHANGED <<cachesVars, apiVars, queue, tracker, probes, served, phase>>

(* The same in ObserveDeletion: the key is requeued and nothing resynced.  *)
DeletionFails(w) ==
    /\ worker[w].pc = "snapshot" /\ worker[w].object = Nil
    /\ Spend("error")
    /\ queue' = queue \cup {worker[w].key}
    /\ worker' = [worker EXCEPT ![w] = Idle]
    /\ UNCHANGED <<cachesVars, apiVars, tracker, probes, served, phase>>

(* The snapshot is handed to the xDS server without Caches.mu: the last    *)
(* call wins.                                                              *)
SetSnapshot(w) ==
    /\ worker[w].pc = "push"
    /\ served' = worker[w].snapshot
    /\ worker' = [worker EXCEPT ![w].pc = "finish", ![w].snapshot = Nil]
    /\ UNCHANGED <<cachesVars, apiVars, queue, tracker, probes, phase, budget>>

(* Faulty variant of InConflict: the ingresses that are already marked as  *)
(* being in conflict are left out.                                         *)
InConflictUnmarked ==
    {i \in Ingress : Exists(i) /\ objects[i].status.lb \in {"", "True"}}

(* resyncConflicts: the ingresses whose LoadBalancerReady has no reason or *)
(* the conflict reason.                                                    *)
InConflict ==
    {i \in Ingress : Exists(i) /\ objects[i].status.lb \in {"", "True", "Conflict"}}

(* The end of ObserveDeletion. *)
ResyncConflicts(w) ==
    /\ worker[w].pc = "finish" /\ worker[w].object = Nil
    /\ queue' = queue \cup InConflict
    /\ worker' = [worker EXCEPT ![w] = Idle]
    /\ UNCHANGED <<cachesVars, apiVars, tracker, probes, served, phase, budget>>

-----------------------------------------------------------------------------
(* The status ReconcileKind leaves behind, by outcome of updateIngress.    *)

(* PreProcessReconcile and PostProcessReconcile: Ready is reset when the   *)
(* generation is new, and the generation is marked observed whatever the   *)
(* reconciliation returns.                                                 *)
Observed(object) == [object.status EXCEPT !.observed = object.generation]

(* Faulty variant of ConflictStatus: the conditions keep their values. *)
ConflictStatusUnmarked(object) == Observed(object)

(* MarkLoadBalancerFailed: NetworkConfigured keeps its value. *)
ConflictStatus(object) == [Observed(object) EXCEPT !.lb = "Conflict", !.ready = FALSE]

(* MarkIngressNotReady. *)
ErrorStatus(object) == [Observed(object) EXCEPT !.ready = FALSE]

(* MarkNetworkConfigured: Ready follows from both conditions again, the    *)
(* load balancer's being the one of the previous generation.               *)
ConfiguredStatus(object) ==
    [Observed(object) EXCEPT !.network = TRUE, !.ready = (object.status.lb = "True")]

(* MarkLoadBalancerReady, MarkLoadBalancerNotReady. *)
ProbedStatus(object, ok) ==
    [ConfiguredStatus(object) EXCEPT !.lb = IF ok THEN "True" ELSE "Uninitialized",
                                     !.ready = ok]

(* Faulty variant of NeedsProbing: an ingress that was ready once is not   *)
(* probed again when its spec changes.                                     *)
NeedsProbingOnce(object) == object.status.lb # "True"

(* The check "!ing.IsReady()" after MarkNetworkConfigured, before the      *)
(* observed generation is bumped.  The other one, !isExpectedLoadBalancer, *)
(* adds nothing: the host names it compares are written together with the  *)
(* condition "True", and are the same for all processes of a deployment.   *)
NeedsProbing(object) ==
    ~(object.status.observed = object.generation /\ object.status.lb = "True")

(* Prober.IsReady for the version of ingress i with domains D: the probing *)
(* of another version is cancelled.                                        *)
Known(i, D) == probes[i] # Nil /\ probes[i].hash = D

(* The worker writes the status if it changed, which is an update event,   *)
(* and requeues the key if the reconciliation returned an error.           *)
WriteStatus(w, status, failed) ==
    LET i == worker[w].key
    IN  /\ objects' = [objects EXCEPT ![i].status = status]
        /\ queue' = IF failed \/ status # worker[w].object.status
                    THEN queue \cup {i}
                    ELSE queue
        /\ worker' = [worker EXCEPT ![w] = Idle]
        /\ UNCHANGED <<cachesVars, services, gateway, tracker, served, phase, budget>>

Finishing(w, outcome) ==
    /\ worker[w].pc = "finish" /\ worker[w].object # Nil
    /\ worker[w].outcome = outcome

FinishConflict(w) ==
    /\ Finishing(w, "conflict")
    /\ WriteStatus(w, ConflictStatus(worker[w].object), FALSE)
    /\ UNCHANGED probes

(* Faulty variant of FinishError: the error is swallowed, the key is not   *)
(* queued again.                                                           *)
FinishErrorSwallowed(w) ==
    /\ Finishing(w, "error")
    /\ objects' = [objects EXCEPT ![worker[w].key].status = ErrorStatus(worker[w].object)]
    /\ worker' = [worker EXCEPT ![w] = Idle]
    /\ UNCHANGED <<cachesVars, services, gateway, queue, tracker, probes, served,
                   phase, budget>>

(* updateIngress failed: MarkIngressNotReady, and the error is returned.   *)
FinishError(w) ==
    /\ Finishing(w, "error")
    /\ WriteStatus(w, ErrorStatus(worker[w].object), TRUE)
    /\ UNCHANGED probes

(* The ingress is ready already, for this generation. *)
FinishReady(w) ==
    /\ Finishing(w, "ok") /\ ~NeedsProbing(worker[w].object)
    /\ WriteStatus(w, ConfiguredStatus(worker[w].object), FALSE)
    /\ UNCHANGED probes

(* This version is being probed, or has been. *)
FinishProbeKnown(w) ==
    LET o == worker[w].object
        i == worker[w].key
    IN  /\ Finishing(w, "ok") /\ NeedsProbing(o) /\ Known(i, o.domains)
        /\ WriteStatus(w, ProbedStatus(o, probes[i].done), FALSE)
        /\ UNCHANGED probes

(* Probing of a new version starts. *)
FinishProbeNew(w) ==
    LET o == worker[w].object
        i == worker[w].key
    IN  /\ Finishing(w, "ok") /\ NeedsProbing(o) /\ ~Known(i, o.domains)
        /\ gateway
        /\ WriteStatus(w, ProbedStatus(o, FALSE), FALSE)
        /\ probes' = [probes EXCEPT ![i] = [hash |-> o.domains, done |-> FALSE]]

(* Faulty variant of FinishProbeFails: no retry once the status is written.*)
FinishProbeFailsForGood(w) ==
    LET o == worker[w].object
        i == worker[w].key
    IN  /\ Finishing(w, "ok") /\ NeedsProbing(o) /\ ~Known(i, o.domains)
        /\ ~gateway
        /\ objects' = [objects EXCEPT ![i].status = ConfiguredStatus(o)]
        /\ probes' = [probes EXCEPT ![i] = Nil]
        /\ worker' = [worker EXCEPT ![w] = Idle]
        /\ UNCHANGED <<cachesVars, services, gateway, queue, tracker, served, phase, budget>>

(* ListProbeTargets finds no gateway pod: ReconcileKind returns the error  *)
(* with NetworkConfigured marked and LoadBalancerReady untouched.          *)
FinishProbeFails(w) ==
    LET o == worker[w].object
        i == worker[w].key
    IN  /\ Finishing(w, "ok") /\ NeedsProbing(o) /\ ~Known(i, o.domains)
        /\ ~gateway
        /\ WriteStatus(w, ConfiguredStatus(o), TRUE)
        /\ probes' = [probes EXCEPT ![i] = Nil]

-----------------------------------------------------------------------------
(* The prober, the janitor and the clock. *)

(* Faulty variant of ProbeSucceeds: the ready callback is not called. *)
ProbeSucceedsSilently(i) ==
    /\ i \in Pending /\ gateway
    /\ i \in DOMAIN served.routes /\ served.routes[i].domains = probes[i].hash
    /\ probes' = [probes EXCEPT ![i].done = TRUE]
    /\ UNCHANGED <<cachesVars, apiVars, queue, worker, tracker, served, phase, budget>>

(* A probe reaches a gateway that serves the probed version; the ready     *)
(* callback enqueues the ingress.                                          *)
ProbeSucceeds(i) ==
    /\ i \in Pending /\ gateway
    /\ i \in DOMAIN served.routes /\ served.routes[i].domains = probes[i].hash
    /\ probes' = [probes EXCEPT ![i].done = TRUE]
    /\ queue' = queue \cup {i}
    /\ UNCHANGED <<cachesVars, apiVars, worker, tracker, served, phase, budget>>

(* Faulty variant of EvictionCallback: nothing is enqueued. *)
EvictionCallbackSilent(i) ==
    /\ OnEvicted(i)
    /\ UNCHANGED <<apiVars, ctlVars, budget>>

(* The callback of SetOnEvicted enqueues the ingress of the cluster. *)
EvictionCallback(i) ==
    /\ OnEvicted(i)
    /\ queue' = queue \cup {i}
    /\ UNCHANGED <<apiVars, worker, tracker, probes, served, phase, budget>>

ClockTick == Tick /\ UNCHANGED <<apiVars, ctlVars, budget>>

Janitor == DeleteExpired /\ UNCHANGED <<apiVars, ctlVars, budget>>

-----------------------------------------------------------------------------
(* Crash and restart. *)

(* getReadyIngresses: the ingresses the new process is primed with. *)
ReadyIngresses ==
    {i \in Ingress : Exists(i) /\ ~objects[i].deleting /\ objects[i].status.network}

Primed ==
    [i \in {j \in ReadyIngresses : Translate(j, objects[j].domains) # Nil} |->
        Translate(i, objects[i].domains)]

(* UpdateInfoForIngress of one primed ingress after the other meets a      *)
(* domain conflict.                                                        *)
PrimingConflicts ==
    \E i, j \in DOMAIN Primed : i # j /\ Primed[i].domains \cap Primed[j].domains # {}

(* Priming fails otherwise: the API server does not list the ingresses, or *)
(* a service, an endpoints or a secret; a translation or a snapshot cannot *)
(* be made.                                                                *)
PrimingFails == budget["error"] > 0

(* What every restart loses: work, probing and eviction callbacks. *)
LoseMemory ==
    /\ Spend("restart")
    /\ worker' = [w \in Worker |-> Idle]
    /\ probes' = [i \in Ingress |-> Nil]
    /\ evicted' = {}
    /\ forgets' = {}
    /\ UNCHANGED apiVars

(* Faulty variant of FirstSnapshot: the server starts with the snapshot of *)
(* the empty caches, before the primed one is set.                         *)
FirstSnapshotUnprimed == {[routes |-> [i \in {} |-> {}], clusters |-> [k \in {} |-> {}]]}

(* The snapshot the xDS server starts with: the one of the primed caches.  *)
FirstSnapshot == ToEnvoySnapshot'

(* A restart that works: the caches hold the primed ingresses, the xDS     *)
(* server starts after they are set as its snapshot, and the informers     *)
(* then add every ingress to the queue.                                    *)
Restart ==
    /\ ~PrimingConflicts
    /\ LoseMemory
    /\ translatedIngresses' = Primed
    /\ domainsInUse' = UNION {Primed[i].domains : i \in DOMAIN Primed}
    /\ clusters' =
         [k \in ExtAuthzKeys \cup UNION {KeysOf(i, Primed[i]) : i \in DOMAIN Primed} |->
             [object |-> IF k \in ExtAuthzKeys THEN ExtAuthzEndpoints
                         ELSE Primed[k[2]].clusters[k[1]],
              ttl    |-> NoExpiration]]
    /\ served' \in FirstSnapshot
    /\ tracked' = ReadyIngresses
    /\ queue' = {i \in Ingress : Exists(i)}
    /\ phase' = "up"

(* A restart that dies in a Fatalw, as "Failed prewarm ingress": whatever  *)
(* goes wrong while priming ends the process.  The gateways keep the       *)
(* configuration they received last.                                       *)
RestartFatal ==
    /\ PrimingConflicts \/ PrimingFails
    /\ LoseMemory
    /\ translatedIngresses' = [i \in {} |-> {}]
    /\ clusters' = [k \in {} |-> {}]
    /\ domainsInUse' = {}
    /\ tracked' = {}
    /\ queue' = {}
    /\ phase' = "fatal"
    /\ UNCHANGED served

-----------------------------------------------------------------------------

ControllerInit ==
    /\ NewCaches
    /\ objects = [i \in Ingress |-> Nil]
    /\ services = [s \in Cluster |-> CHOOSE e \in Endpoints : TRUE]
    /\ gateway = TRUE
    /\ queue = {}
    /\ worker = [w \in Worker |-> Idle]
    /\ tracked = {}
    /\ forgets = {}
    /\ probes = [i \in Ingress |-> Nil]
    /\ served \in ToEnvoySnapshot
    /\ phase = "up"
    /\ budget \in Budgets

Environment ==
    \/ \E i \in Ingress : DeleteIngress(i)
    \/ \E i \in Ingress, D \in SUBSET Domain \ {{}} :
            CreateIngress(i, D) \/ UpdateSpec(i, D)
    \/ \E s \in Cluster, e \in Endpoints : ScaleService(s, e)
    \/ \E s \in Cluster : LoseService(s)
    \/ ToggleGateway
    \/ DeleteGatewayPod
    \/ GlobalResync
    \/ Restart
    \/ RestartFatal

WorkerStep(w) ==
    \/ \E i \in Ingress : StartReconcile(w, i) \/ Finalize(w, i) \/ ObserveDeletion(w, i)
    \/ TranslateIngress(w)
    \/ UpdateCaches(w)
    \/ BuildSnapshot(w)
    \/ SetSnapshot(w)
    \/ ResyncConflicts(w)
    \/ FinishConflict(w) \/ FinishError(w) \/ FinishReady(w)
    \/ FinishProbeKnown(w) \/ FinishProbeNew(w) \/ FinishProbeFails(w)

Background ==
    \/ \E i \in Ingress : ProbeSucceeds(i) \/ EvictionCallback(i) \/ OnDeletedObserver(i)
    \/ ClockTick
    \/ Janitor

ControllerNext ==
    \/ Environment
    \/ \E w \in Worker : WorkerStep(w) \/ TranslateFails(w) \/ SnapshotFails(w) \/ DeletionFails(w)
    \/ Background

(* The worker goroutines, the prober's, the janitor's and the clock run as *)
(* long as they have something to do.  Nothing is assumed of users, of the *)
(* kubelet, of errors, of the periodic resync.                             *)
ControllerFairness ==
    /\ \A w \in Worker : WF_vars(WorkerStep(w))
    /\ \A i \in Ingress : /\ WF_vars(ProbeSucceeds(i)) /\ WF_vars(EvictionCallback(i))
                           /\ WF_vars(OnDeletedObserver(i))
    /\ WF_vars(ClockTick)
    /\ WF_vars(Janitor)

ControllerSpec == ControllerInit /\ [][ControllerNext]_vars

ControllerFairSpec == ControllerSpec /\ ControllerFairness

-----------------------------------------------------------------------------
(***************************************************************************)
(* Properties.                                                             *)
(***************************************************************************)

(* Objects, statuses, probes, snapshots and workers hold what their Go     *)
(* types allow.                                                            *)
ControllerTypeOK ==
    /\ TypeOK
    /\ objects \in [Ingress -> Object \cup {Nil}]
    /\ services \in [Cluster -> Endpoints \cup {Nil}]
    /\ gateway \in BOOLEAN
    /\ queue \in SUBSET Ingress
    /\ worker \in [Worker -> WorkerState]
    /\ tracked \in SUBSET Ingress /\ forgets \in SUBSET Ingress
    /\ probes \in [Ingress -> Probe \cup {Nil}]
    /\ served \in Snapshot
    /\ phase \in {"up", "fatal"}
    /\ budget \in [EventKinds -> Nat]

(* No domain occurs twice in a snapshot, and its routes refer to clusters  *)
(* it has.                                                                 *)
WellFormed(snapshot) ==
    LET routes == snapshot.routes
    IN  /\ \A i, j \in DOMAIN routes :
              i # j => routes[i].domains \cap routes[j].domains = {}
        /\ \A i \in DOMAIN routes : routes[i].clusters \subseteq DOMAIN snapshot.clusters

(* Every snapshot handed to Envoy is one Envoy accepts: no domain occurs   *)
(* twice (setting a route configuration with a duplicate domain is         *)
(* rejected as a whole), and every cluster a route refers to is part of    *)
(* it, although routes and clusters come from two caches of which one      *)
(* expires.                                                                *)
ServedWellFormed == WellFormed(served)

(* The controller is expected to be up to date with ingress i: it exists,  *)
(* is not in conflict and its backend is there.  An ingress that was       *)
(* deleted and created again may not be tracked: the tracker learnt of the *)
(* deletion after the new one had been tracked.  A change of its backend   *)
(* goes unnoticed from then on.                                            *)
Current(i) ==
    /\ Exists(i) /\ i \in tracked
    /\ objects[i].status.lb # "Conflict"
    /\ services[Backend[i]] # Nil

(* Once nothing is pending, Envoy routes every ingress that is not in      *)
(* conflict as its latest spec says, and serves no ingress that has been   *)
(* deleted.                                                                *)
QuietIsFresh ==
    Quiet => \A i \in Ingress :
        /\ ~Exists(i) => i \notin DOMAIN served.routes
        /\ Current(i) => /\ i \in DOMAIN served.routes
                         /\ served.routes[i] = [domains  |-> objects[i].domains,
                                                clusters |-> {Backend[i]}]

(* Nothing is pending, no probe is under way and no cluster is waiting for *)
(* its expiration: nothing will change until the next event from outside.  *)
Settled ==
    Quiet /\ Pending = {} /\ \A k \in DOMAIN clusters : clusters[k].ttl = NoExpiration

(* Once everything has settled, Envoy forwards to the latest endpoints,    *)
(* although several ingresses, reconciled at different times, share the    *)
(* name of a cluster.  Not so while an ingress is in conflict: the         *)
(* expiring cluster it leaves behind may be the one the snapshot has, and  *)
(* its eviction reconciles that ingress only, which ends in the conflict   *)
(* before a snapshot is built.  Nor while an ingress is no longer tracked. *)
EndpointsSettle ==
    /\ Settled
    /\ \A i \in Ingress : Exists(i) => objects[i].status.lb # "Conflict" /\ i \in tracked
    => \A i \in DOMAIN served.routes :
          services[Backend[i]] # Nil
          => served.clusters[Backend[i]] = services[Backend[i]]

(* Once nothing is pending, the caches hold every ingress that is not in   *)
(* conflict in its latest form and no deleted one: whatever the workers    *)
(* interleave, only the order of their SetSnapshot calls can make Envoy's  *)
(* view differ from it.                                                    *)
QuietCachesFresh ==
    Quiet => \A i \in Ingress :
        /\ ~Exists(i) => i \notin DOMAIN translatedIngresses
        /\ Current(i) => /\ i \in DOMAIN translatedIngresses
                         /\ translatedIngresses[i] = Translate(i, objects[i].domains)

(* An ingress is only left in conflict while another ingress holds one of  *)
(* its domains.                                                            *)
ConflictJustified ==
    Quiet => \A i \in Ingress :
        Exists(i) /\ objects[i].status.lb = "Conflict"
        => objects[i].domains \cap FreeDomains(i) # {}

(* An ingress that is reported ready, and is not being deleted, is served  *)
(* as its latest spec says.                                                *)
ReadyIsServed ==
    \A i \in Ingress :
        /\ phase = "up"
        /\ Exists(i) /\ ~objects[i].deleting /\ IsReady(objects[i])
        => /\ i \in DOMAIN served.routes
           /\ served.routes[i].domains = objects[i].domains

(* A reconciliation that failed before it came to probing: it has marked   *)
(* the new generation as observed, and left the load balancer's condition  *)
(* of the old one.                                                         *)
LeftOver(object) ==
    object.status.observed = object.generation /\ object.status.lb = "True"

(* An ingress becomes ready only when its latest version has been probed.  *)
(* Not so after a failure: ReconcileKind finds the condition that was left *)
(* over and takes the new version for probed; and when there is no gateway *)
(* pod to probe, it does so at once.                                       *)
ReadyIsProbed ==
    [][\A i \in Ingress :
        Exists(i)' /\ IsReady(objects[i])' /\ ~(Exists(i) /\ IsReady(objects[i]))
        => \/ probes[i] # Nil /\ probes[i].hash = objects[i].domains /\ probes[i].done
           \/ ~gateway
           \/ LeftOver(objects[i])]_vars

(* A restart that succeeds serves, from its first snapshot on, every       *)
(* ingress that was ready, unless it is being deleted or its backend is    *)
(* gone, and gives none of its domains to another ingress.                 *)
ReadySurvivesRestart ==
    [][budget'["restart"] # budget["restart"] /\ phase' = "up" =>
        \A i \in Ingress :
            /\ Exists(i) /\ IsReady(objects[i]) /\ ~objects[i].deleting
            /\ services[Backend[i]] # Nil
            => /\ i \in DOMAIN served.routes'
               /\ served.routes'[i].domains = objects[i].domains]_vars

(* The process never dies while starting. *)
StartupSurvives == phase # "fatal"

(* Once the users, the services and the gateway settle, every ingress      *)
(* whose backend exists ends up ready or in conflict, also after a         *)
(* restart, unless the process died in it.                                 *)
Settles ==
    \A i \in Ingress :
        <>[](/\ phase = "up"
             /\ Exists(i) /\ ~objects[i].deleting
             /\ services[Backend[i]] # Nil
             /\ gateway
             => IsReady(objects[i]) \/ objects[i].status.lb = "Conflict")

(* Once they settle, Envoy is no longer sent clusters that no ingress has  *)
(* been using: eviction leads to a new snapshot.                           *)
DeadClustersLeave ==
    <>[](\A c \in DOMAIN served.clusters :
            \/ c = ExtAuthzCluster
            \/ phase = "fatal"
            \/ \E i \in Ingress : Owned(<<c, i>>)
            \/ \E i \in Ingress : Exists(i) /\ objects[i].status.lb = "Conflict")

=============================================================================
