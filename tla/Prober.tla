-------------------------------- MODULE Prober --------------------------------
(***************************************************************************)
(* The status prober (knative.dev/networking/pkg/status) as the controller *)
(* uses it: whether one ingress is served by all pods of the gateway.      *)
(*                                                                         *)
(* Three kinds of threads meet here.  A reconciler calls IsReady, never    *)
(* two at a time for an ingress, but not atomically.  Probe workers take   *)
(* work items, one for each pod and URL.  And for each pod a goroutine     *)
(* waits for its context to be cancelled: because all of its probes have   *)
(* succeeded, because the pod was deleted, or because a new version of the *)
(* ingress is probed.  They share two kinds of atomic counters: of the     *)
(* probes of a pod and of the pods of an ingress.                          *)
(*                                                                         *)
(* A session is an ingressState: one version of the ingress being probed.  *)
(* Its context is cancelled or not; the context of a pod in a session is   *)
(* done when it was cancelled itself or with the session.  The context of  *)
(* a pod's IP is a number.  Time-outs and back-off are left out: a probe   *)
(* that fails is one that is tried again.                                  *)
(***************************************************************************)
EXTENDS Integers, Sequences, FiniteSets

CONSTANTS
    OldPods,         \* the IPs of gateway pods that run at the start
    NewPods,         \* those of pods that replace them
    Hash,            \* versions of the ingress, by their hashes
    NumURLs,         \* how many URLs each of them is probed for
    MaxGeneration    \* bound on changes of the ingress

VARIABLES
    alive,          \* the pods that run
    endpoints,      \* the pods the endpoints informer knows of
    deletions,      \* deleted pods whose event is not delivered yet
    spec,           \* the ingress: [generation, hash, deleted]
    status,         \* the generation that was marked ready, 0 for none
    queued,         \* is the key of the ingress in the work queue?
    served,         \* the hash in the snapshot of the gateway
    call,           \* the reconciler's call of IsReady
    sessions,       \* all ingressStates ever made
    ingressStates,  \* the index of the one in the map, 0 for none
    podContexts,    \* for each IP the context in the map, 0 for none
    cancelled       \* the contexts of IPs, by IP and number, that were cancelled

Pod == OldPods \cup NewPods

cluster == <<alive, endpoints, deletions>>
ingress == <<spec, status, queued, served>>
prober  == <<call, sessions, ingressStates, podContexts, cancelled>>
vars    == <<cluster, ingress, prober>>

ASSUME ProberAssumption ==
    /\ IsFiniteSet(OldPods) /\ IsFiniteSet(NewPods)
    /\ OldPods \cap NewPods = {}
    /\ Hash # {} /\ NumURLs \in [Hash -> Nat \ {0}]
    /\ MaxGeneration \in Nat

-----------------------------------------------------------------------------

(* A pod's state in a session.  Of its probes                              *)
(*   queued   wait for a worker, for the first time or again               *)
(*   passed   are answered, with the context found not done                *)
(* and the goroutine of onProbingCancellation is at                        *)
(*   wait     for the context;  loaded: has read the counter;  done        *)
(* A probe whose context is done never passes: it is the same whether it   *)
(* is still queued or has been dropped.                                    *)
PodState(n, urls, context) ==
    [made |-> TRUE, pendingCount |-> n, cancelled |-> FALSE, context |-> context,
     queued |-> urls, passed |-> 0, at |-> "wait", seen |-> 0]

NoPodState == [PodState(0, 0, 0) EXCEPT !.made = FALSE]

IngressState(hash, pods) ==
    [hash |-> hash, pods |-> pods, pendingCount |-> Cardinality(pods),
     cancelled |-> FALSE, calls |-> 0, pod |-> [p \in pods |-> NoPodState]]

Idle == [at |-> "idle", hash |-> 0, left |-> {}]

(* podCtx.Done() *)
Done(n, p) == sessions[n].cancelled \/ sessions[n].pod[p].cancelled

SetPod(n, p, state) == [sessions EXCEPT ![n].pod[p] = state]

Init ==
    /\ alive = OldPods /\ endpoints = OldPods /\ deletions = {}
    /\ spec = [generation |-> 1, hash |-> CHOOSE hash \in Hash : TRUE, deleted |-> FALSE]
    /\ status = 0 /\ queued = TRUE /\ served = 0
    /\ call = Idle
    /\ sessions = <<>>
    /\ ingressStates = 0
    /\ podContexts = [p \in Pod |-> 0]
    /\ cancelled = {}

-----------------------------------------------------------------------------
(* Users and the cluster. *)

(* A generation that is new; the version may be one that was there before. *)
ChangeIngress(hash, deleted) ==
    /\ spec.generation < MaxGeneration
    /\ deleted => ~spec.deleted
    /\ ~deleted => spec.deleted \/ hash # spec.hash
    /\ spec' = [generation |-> spec.generation + 1, hash |-> hash, deleted |-> deleted]
    /\ queued' = TRUE
    /\ UNCHANGED <<cluster, status, served, prober>>

(* The gateway is rolled out: new pods start, old ones are deleted. *)
StartPod(p) ==
    /\ p \in NewPods \ alive
    /\ alive' = alive \cup {p}
    /\ UNCHANGED <<endpoints, deletions, ingress, prober>>

DeletePod(p) ==
    /\ p \in OldPods \cap alive
    /\ alive' = alive \ {p}
    /\ deletions' = deletions \cup {p}
    /\ UNCHANGED <<endpoints, ingress, prober>>

(* The endpoints informer catches up. *)
SyncEndpoints ==
    /\ endpoints # alive
    /\ endpoints' = alive
    /\ UNCHANGED <<alive, deletions, ingress, prober>>

(* CancelPodProbing: the handler of a pod's deletion. *)
CancelPodProbing(p) ==
    /\ p \in deletions
    /\ deletions' = deletions \ {p}
    /\ cancelled' = IF podContexts[p] = 0 THEN cancelled ELSE cancelled \cup {<<p, podContexts[p]>>}
    /\ podContexts' = [podContexts EXCEPT ![p] = 0]
    /\ UNCHANGED <<alive, endpoints, ingress, call, sessions, ingressStates>>

(* An informer that was cut off learns of a deletion from a later list,    *)
(* and hands out a tombstone: it is not a pod, and the handler ignores it. *)
MissPodDeletion(p) ==
    /\ p \in deletions
    /\ deletions' = deletions \ {p}
    /\ UNCHANGED <<alive, endpoints, ingress, prober>>

-----------------------------------------------------------------------------
(* The reconciler. *)

(* Faulty variant of CancelSession: the state is only taken out of the     *)
(* map.                                                                    *)
CancelSessionDeleted == ingressStates' = 0 /\ UNCHANGED sessions

(* The state's context is cancelled, and it is removed from the map. *)
CancelSession ==
    /\ ingressStates' = 0
    /\ sessions' = IF ingressStates = 0 THEN sessions
                   ELSE [sessions EXCEPT ![ingressStates].cancelled = TRUE]

(* The last event of a deleted ingress: ObserveDeletion. *)
CancelIngressProbing ==
    /\ queued /\ call.at = "idle" /\ spec.deleted
    /\ queued' = FALSE
    /\ status' = 0
    /\ served' = 0
    /\ CancelSession
    /\ UNCHANGED <<cluster, spec, call, podContexts, cancelled>>

(* The ingress is ready in the version it has: IsReady is not called. *)
SkipReady ==
    /\ queued /\ call.at = "idle" /\ ~spec.deleted /\ status = spec.generation
    /\ queued' = FALSE
    /\ served' = spec.hash
    /\ UNCHANGED <<cluster, spec, status, prober>>

Reconciles == queued /\ call.at = "idle" /\ ~spec.deleted /\ status # spec.generation

(* Is the version the one that the state in the map is for? *)
SameHash == ingressStates # 0 /\ sessions[ingressStates].hash = spec.hash

(* The snapshot has been set when IsReady is called.  A state of the same  *)
(* version answers at once.                                                *)
IsReadyKnown ==
    /\ Reconciles /\ SameHash
    /\ queued' = FALSE
    /\ served' = spec.hash
    /\ status' = IF sessions[ingressStates].pendingCount = 0 THEN spec.generation ELSE status
    /\ UNCHANGED <<cluster, spec, prober>>

(* Otherwise the state is given up. *)
IsReadyNew ==
    /\ Reconciles /\ ~SameHash
    /\ queued' = FALSE
    /\ served' = spec.hash
    /\ CancelSession
    /\ call' = [at |-> "list", hash |-> spec.hash, left |-> {}]
    /\ UNCHANGED <<cluster, spec, status, podContexts, cancelled>>

(* ListProbeTargets fails when the gateway has no pod; the key is enqueued *)
(* again.                                                                  *)
ListProbeTargetsFails ==
    /\ call.at = "list" /\ endpoints = {}
    /\ call' = Idle
    /\ queued' = TRUE
    /\ UNCHANGED <<cluster, spec, status, served, sessions, ingressStates, podContexts, cancelled>>

ListProbeTargets ==
    /\ call.at = "list" /\ endpoints # {}
    /\ sessions' = Append(sessions, IngressState(call.hash, endpoints))
    /\ call' = [call EXCEPT !.at = "pods", !.left = endpoints]
    /\ UNCHANGED <<cluster, ingress, ingressStates, podContexts, cancelled>>

(* The session that IsReady is setting up. *)
Current == Len(sessions)

(* A number for a context that p has not had before. *)
FreshContext(p) == 1 + Cardinality({c \in cancelled : c[1] = p})

(* Faulty variant of ProbePod: probes of a pod are not counted. *)
ProbePodOnce(p) ==
    /\ call.at = "pods" /\ p \in call.left
    /\ podContexts' = [podContexts EXCEPT ![p] = IF @ = 0 THEN FreshContext(p) ELSE @]
    /\ sessions' = SetPod(Current, p, PodState(1, NumURLs[call.hash], podContexts'[p]))
    /\ call' = [call EXCEPT !.left = @ \ {p}]
    /\ UNCHANGED <<cluster, ingress, ingressStates, cancelled>>

(* The body of the loop over IPs: get or create the context of the IP,     *)
(* start the goroutines of the pod and queue its probes.                   *)
ProbePod(p) ==
    /\ call.at = "pods" /\ p \in call.left
    /\ podContexts' = [podContexts EXCEPT ![p] = IF @ = 0 THEN FreshContext(p) ELSE @]
    /\ sessions' = SetPod(Current, p, PodState(NumURLs[call.hash], NumURLs[call.hash], podContexts'[p]))
    /\ call' = [call EXCEPT !.left = @ \ {p}]
    /\ UNCHANGED <<cluster, ingress, ingressStates, cancelled>>

(* Only now the state can be found.  IsReady answers that the ingress is   *)
(* not ready, even if all probes are through.                              *)
StoreState ==
    /\ call.at = "pods" /\ call.left = {}
    /\ ingressStates' = Current
    /\ call' = Idle
    /\ UNCHANGED <<cluster, ingress, sessions, podContexts, cancelled>>

-----------------------------------------------------------------------------
(* The workers. *)

(* A probe is answered, and the context is not done when it is looked at.  *)
Passes(n, p) ==
    LET pod == sessions[n].pod[p]
    IN  /\ pod.queued > 0 /\ ~Done(n, p)
        /\ p \in alive
        /\ sessions' = SetPod(n, p, [pod EXCEPT !.queued = @ - 1, !.passed = @ + 1])
        /\ UNCHANGED <<cluster, ingress, call, ingressStates, podContexts, cancelled>>

(* The answer is the hash of the ingress.                                  *)
ProbeAnswered(n, p) == served = sessions[n].hash /\ Passes(n, p)

(* It has no hash, or a status other than 200, 404 and 503: probing is     *)
(* abandoned and taken to be successful.                                   *)
ProbeAbandoned(n, p) == Passes(n, p)

(* ingressState.pendingCount.Dec() and, with the last pod, the callback,   *)
(* which enqueues the key of the ingress.  Only the thread that has        *)
(* counted the pod's probes down to 0 gets here, so that it may as well    *)
(* happen in the same step; pod is what becomes of the pod's state.        *)
CountPod(n, p, pod) ==
    LET s    == sessions[n]
        last == s.pendingCount = 1
    IN  /\ sessions' = [sessions EXCEPT ![n] =
              [s EXCEPT !.pod[p] = pod, !.pendingCount = @ - 1,
                        !.calls = IF last THEN @ + 1 ELSE @]]
        /\ queued' = (queued \/ last)

(* onProbingSuccess: with the last probe the pod's context is cancelled,   *)
(* and the pod is counted.                                                 *)
CountProbe(n, p) ==
    LET pod   == sessions[n].pod[p]
        fewer == [pod EXCEPT !.pendingCount = @ - 1, !.passed = @ - 1]
    IN  /\ pod.passed > 0
        /\ IF fewer.pendingCount = 0
           THEN CountPod(n, p, [fewer EXCEPT !.cancelled = TRUE])
           ELSE sessions' = SetPod(n, p, fewer) /\ UNCHANGED queued
        /\ UNCHANGED <<cluster, spec, status, served, call, ingressStates, podContexts, cancelled>>

-----------------------------------------------------------------------------
(* The goroutines of a pod. *)

(* The context of the IP is done: so is that of the pod. *)
JoinContexts(n, p) ==
    LET pod == sessions[n].pod[p]
    IN  /\ pod.made /\ <<p, pod.context>> \in cancelled /\ ~Done(n, p)
        /\ sessions' = SetPod(n, p, [pod EXCEPT !.cancelled = TRUE])
        /\ UNCHANGED <<cluster, ingress, call, ingressStates, podContexts, cancelled>>

(* onProbingCancellation, pendingCount.Load(): nothing to do if all of the *)
(* probes have succeeded.                                                  *)
LoadPending(n, p) ==
    LET pod == sessions[n].pod[p]
    IN  /\ pod.made /\ pod.at = "wait" /\ Done(n, p)
        /\ sessions' = SetPod(n, p,
              IF pod.pendingCount <= 0 THEN [pod EXCEPT !.at = "done"]
              ELSE [pod EXCEPT !.at = "loaded", !.seen = pod.pendingCount])
        /\ UNCHANGED <<cluster, ingress, call, ingressStates, podContexts, cancelled>>

(* Faulty variant of SwapPending: the counter is set whatever it is now. *)
SwapPendingStore(n, p) ==
    LET pod == sessions[n].pod[p]
    IN  /\ pod.at = "loaded"
        /\ CountPod(n, p, [pod EXCEPT !.at = "done", !.seen = 0, !.pendingCount = 0])
        /\ UNCHANGED <<cluster, spec, status, served, call, ingressStates, podContexts, cancelled>>

(* Faulty variant of SwapPending: the reconciler is not called back.       *)
SwapPendingQuietly(n, p) ==
    LET pod == sessions[n].pod[p]
    IN  /\ pod.at = "loaded"
        /\ sessions' = IF pod.pendingCount = pod.seen
              THEN [sessions EXCEPT ![n].pod[p] = [pod EXCEPT !.at = "done", !.seen = 0, !.pendingCount = 0],
                                    ![n].pendingCount = @ - 1]
              ELSE SetPod(n, p, [pod EXCEPT !.at = "wait", !.seen = 0])
        /\ UNCHANGED <<cluster, ingress, call, ingressStates, podContexts, cancelled>>

(* pendingCount.CAS(seen, 0): the pod is counted as if it had answered, or *)
(* the counter has changed, and the goroutine begins anew.                 *)
SwapPending(n, p) ==
    LET pod == sessions[n].pod[p]
    IN  /\ pod.at = "loaded"
        /\ IF pod.pendingCount = pod.seen
           THEN CountPod(n, p, [pod EXCEPT !.at = "done", !.seen = 0, !.pendingCount = 0])
           ELSE sessions' = SetPod(n, p, [pod EXCEPT !.at = "wait", !.seen = 0]) /\ UNCHANGED queued
        /\ UNCHANGED <<cluster, spec, status, served, call, ingressStates, podContexts, cancelled>>

-----------------------------------------------------------------------------

Environment ==
    \/ \E hash \in Hash, deleted \in BOOLEAN : ChangeIngress(hash, deleted)
    \/ \E p \in Pod : StartPod(p) \/ DeletePod(p)

Informers ==
    \/ SyncEndpoints
    \/ \E p \in Pod : CancelPodProbing(p) \/ MissPodDeletion(p)

Reconciler ==
    \/ CancelIngressProbing
    \/ SkipReady
    \/ IsReadyKnown
    \/ IsReadyNew
    \/ ListProbeTargetsFails
    \/ ListProbeTargets
    \/ \E p \in Pod : ProbePod(p)
    \/ StoreState

Worker(n, p) ==
    \/ ProbeAnswered(n, p)
    \/ CountProbe(n, p)

Canceller(n, p) ==
    \/ JoinContexts(n, p)
    \/ LoadPending(n, p)
    \/ SwapPending(n, p)

Next ==
    \/ Environment
    \/ Informers
    \/ Reconciler
    \/ \E n \in DOMAIN sessions : \E p \in sessions[n].pods :
          \/ Worker(n, p)
          \/ ProbeAbandoned(n, p)
          \/ Canceller(n, p)

(* Threads that can go on do so: a worker comes back to a probe, as those  *)
(* that fail are queued again, and a pod that is alive answers in the end. *)
(* Nothing is assumed of users, nor of pods that start or stop.            *)
Fairness ==
    /\ WF_vars(Reconciler)
    /\ WF_vars(SyncEndpoints)
    /\ \A p \in Pod : WF_vars(CancelPodProbing(p))
    /\ \A n \in 1 .. MaxGeneration, p \in Pod :
          /\ WF_vars(n \in DOMAIN sessions /\ p \in sessions[n].pods /\ Worker(n, p))
          /\ WF_vars(n \in DOMAIN sessions /\ p \in sessions[n].pods /\ Canceller(n, p))

Spec == Init /\ [][Next]_vars /\ Fairness

-----------------------------------------------------------------------------
(***************************************************************************)
(* Properties.                                                             *)
(***************************************************************************)

(* The pods of a session that its counter has not been told of. *)
Uncounted(n) ==
    {p \in sessions[n].pods :
        ~sessions[n].pod[p].made \/ sessions[n].pod[p].pendingCount > 0}

(* The counter of an ingress is the number of pods that are neither probed *)
(* nor given up, whatever the order in which probes succeed, pods go away  *)
(* and versions are given up: no pod is counted twice, none is forgotten,  *)
(* and the reconciler is called back once, when the count is 0.            *)
CountsExact ==
    \A n \in DOMAIN sessions :
        /\ sessions[n].pendingCount = Cardinality(Uncounted(n))
        /\ sessions[n].calls = IF sessions[n].pendingCount = 0 THEN 1 ELSE 0

(* An ingress is ready only if every pod it was to be probed at has given  *)
(* an answer for each URL or was given up: with the pod's IP, or with the  *)
(* version.                                                                *)
ReadyJustified ==
    \A n \in DOMAIN sessions : sessions[n].pendingCount = 0 =>
        \A p \in sessions[n].pods :
            \/ sessions[n].pod[p].queued = 0
            \/ <<p, sessions[n].pod[p].context>> \in cancelled
            \/ sessions[n].cancelled

(* At most one session is probed for the ingress, that of the map or the   *)
(* one which IsReady is about to store: others are on their way out, so    *)
(* that answers for an old version cannot be taken for the new one.        *)
OneSession ==
    \A n \in DOMAIN sessions :
        ~sessions[n].cancelled => n = ingressStates \/ (call.at = "pods" /\ n = Current)

(* The prober keeps the promise of Countdown. *)
Probings ==
    INSTANCE Countdown WITH
        waiting <- [n \in DOMAIN sessions |-> Uncounted(n)],
        calls   <- [n \in DOMAIN sessions |-> sessions[n].calls]

CountsDown == Probings!Spec

(* The prober waits for a pod that does not exist any more: its deletion   *)
(* was handled before IsReady, from older endpoints, made its context, or  *)
(* it was a tombstone.                                                     *)
ProbesTheDead ==
    /\ ingressStates # 0
    /\ \E p \in sessions[ingressStates].pods :
          /\ p \notin alive \cup deletions
          /\ <<p, sessions[ingressStates].pod[p].context>> \notin cancelled
          /\ ~Done(ingressStates, p)

(* In the end the ingress is ready in its latest version: whichever of the *)
(* calls and callbacks comes first, none of them is lost.  Not so if the   *)
(* gateway has no pod at all, or if the prober waits for a pod whose       *)
(* deletion it missed.                                                     *)
EventuallyReady ==
    <>[](\/ spec.deleted
         \/ status = spec.generation
         \/ alive = {}
         \/ ProbesTheDead)

=============================================================================
