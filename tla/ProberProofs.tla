----------------------------- MODULE ProberProofs -----------------------------
(***************************************************************************)
(* Machine-checked proofs about Prober, for every set of gateway pods,     *)
(* every set of versions, any number of URLs and any number of changes.    *)
(***************************************************************************)
EXTENDS Prober, FiniteSetTheorems, TLAPS

PodStates ==
    [made : BOOLEAN, pendingCount : Int, cancelled : BOOLEAN, context : Nat,
     queued : Nat, passed : Nat, at : {"wait", "loaded", "done"}, seen : Int]

(* The sessions that probe a set of pods. *)
SessionsOf(pods) ==
    [hash : Hash, pods : {pods}, pendingCount : Int, cancelled : BOOLEAN,
     calls : Int, pod : [pods -> PodStates]]

AnySession == UNION {SessionsOf(pods) : pods \in SUBSET Pod}

(* What the variables hold. *)
ProberTypeOK ==
    /\ alive \in SUBSET Pod /\ endpoints \in SUBSET Pod /\ deletions \in SUBSET Pod
    /\ spec \in [generation : Nat, hash : Hash, deleted : BOOLEAN]
    /\ queued \in BOOLEAN
    /\ call \in [at : {"idle", "list", "pods"}, hash : Hash \cup {0}, left : SUBSET Pod]
    /\ call.at # "idle" => call.hash \in Hash
    /\ sessions \in Seq(AnySession)
    /\ ingressStates \in 0 .. Len(sessions)
    /\ podContexts \in [Pod -> Nat]
    /\ IsFiniteSet(cancelled)

(* IsReady, while it runs, has taken the state of the last version out of  *)
(* the map; the pods it has not come to yet are not being probed.          *)
CallInv ==
    /\ call.at # "idle" => ingressStates = 0
    /\ call.at = "pods" =>
          /\ Len(sessions) > 0
          /\ call.hash = sessions[Current].hash
          /\ call.left \subseteq sessions[Current].pods
          /\ \A p \in call.left : ~sessions[Current].pod[p].made

(* A pod may be counted without an answer: its IP, or its session, was     *)
(* given up.                                                               *)
Excused(s, p, pod) == s.cancelled \/ <<p, pod.context>> \in cancelled

(* A pod that is not excused is counted by its probes only: its counter is *)
(* the number of them that are not through, its context is only done when  *)
(* that is 0, and its canceller does not touch the counter.                *)
PodInv(s, p, pod) ==
    /\ ~pod.made => pod.queued = 0 /\ pod.passed = 0 /\ pod.at = "wait" /\ ~pod.cancelled
    /\ pod.at = "loaded" => pod.seen > 0 /\ Excused(s, p, pod)
    /\ pod.made /\ ~Excused(s, p, pod) => pod.pendingCount = pod.queued + pod.passed
    /\ pod.cancelled /\ ~Excused(s, p, pod) => pod.pendingCount <= 0

PodsInv ==
    \A n \in DOMAIN sessions : \A p \in sessions[n].pods :
        PodInv(sessions[n], p, sessions[n].pod[p])

(* The inductive invariant. *)
ProberInv ==
    /\ ProberTypeOK
    /\ CallInv
    /\ CountsExact
    /\ PodsInv
    /\ OneSession

-----------------------------------------------------------------------------
(* Facts about sessions. *)

(* A session is one of the pods it names, and has a state for each of them. *)
LEMMA SessionType ==
  ASSUME NEW s \in AnySession
  PROVE  /\ s \in SessionsOf(s.pods)
         /\ s.pods \in SUBSET Pod
         /\ s.hash \in Hash /\ s.pendingCount \in Int /\ s.calls \in Int
         /\ s.cancelled \in BOOLEAN
         /\ s.pod \in [s.pods -> PodStates]
  <1>1. PICK pods \in SUBSET Pod : s \in SessionsOf(pods)
    BY DEF AnySession
  <1>2. s.pods = pods
    BY <1>1 DEF SessionsOf
  <1> QED
    BY <1>1, <1>2 DEF SessionsOf

(* There are finitely many pods. *)
LEMMA PodsFinite == IsFiniteSet(Pod)
  BY ProberAssumption, FS_Union DEF Pod

(* The pods a session waits for are finitely many. *)
LEMMA UncountedFinite ==
  ASSUME ProberTypeOK, NEW n \in DOMAIN sessions
  PROVE  IsFiniteSet(Uncounted(n)) /\ Cardinality(Uncounted(n)) \in Nat
  <1>1. sessions[n] \in AnySession
    BY DEF ProberTypeOK
  <1>2. Uncounted(n) \subseteq Pod
    BY <1>1, SessionType DEF Uncounted
  <1> QED
    BY <1>2, PodsFinite, FS_Subset, FS_CardinalityType

(* A step that sets the state of one pod and does not finish it: neither   *)
(* the counters nor the set of sessions change.                            *)
LEMMA SetPodPreserves ==
  ASSUME ProberInv,
         NEW n \in DOMAIN sessions, NEW p \in sessions[n].pods,
         NEW pod \in PodStates,
         sessions' = SetPod(n, p, pod),
         ~pod.made \/ pod.pendingCount > 0
             <=> ~sessions[n].pod[p].made \/ sessions[n].pod[p].pendingCount > 0,
         cancelled' = cancelled,
         PodInv(sessions[n], p, pod)
  PROVE  /\ sessions' \in Seq(AnySession)
         /\ DOMAIN sessions' = DOMAIN sessions
         /\ Len(sessions') = Len(sessions)
         /\ \A m \in DOMAIN sessions :
               /\ sessions'[m].pods = sessions[m].pods
               /\ sessions'[m].hash = sessions[m].hash
               /\ sessions'[m].calls = sessions[m].calls
               /\ sessions'[m].cancelled = sessions[m].cancelled
               /\ Uncounted(m)' = Uncounted(m)
         /\ \A m \in DOMAIN sessions : \A q \in sessions[m].pods :
               m # n \/ q # p => sessions'[m].pod[q] = sessions[m].pod[q]
         /\ sessions'[n].pod[p] = pod
         /\ CountsExact'
         /\ PodsInv'
  <1> USE DEF ProberInv
  <1>0. sessions \in Seq(AnySession)
    BY DEF ProberTypeOK
  <1>1. \A m \in DOMAIN sessions : sessions[m] \in AnySession
    BY <1>0
  <1>2. /\ sessions[n].pod \in [sessions[n].pods -> PodStates]
        /\ sessions[n] \in SessionsOf(sessions[n].pods)
        /\ sessions[n].pods \in SUBSET Pod
    BY <1>1, SessionType
  <1>3. sessions' = [sessions EXCEPT ![n] = [sessions[n] EXCEPT !.pod = [@ EXCEPT ![p] = pod]]]
    BY <1>0 DEF SetPod
  <1>4. [sessions[n] EXCEPT !.pod = [@ EXCEPT ![p] = pod]] \in SessionsOf(sessions[n].pods)
    BY <1>2 DEF SessionsOf
  <1>5. sessions' \in Seq(AnySession) /\ DOMAIN sessions' = DOMAIN sessions
        /\ Len(sessions') = Len(sessions)
    BY <1>0, <1>2, <1>3, <1>4 DEF AnySession
  <1>6. /\ \A m \in DOMAIN sessions : m # n => sessions'[m] = sessions[m]
        /\ sessions'[n] = [sessions[n] EXCEPT !.pod = [@ EXCEPT ![p] = pod]]
    BY <1>3
  <1>7. /\ sessions'[n].pods = sessions[n].pods
        /\ sessions'[n].hash = sessions[n].hash
        /\ sessions'[n].calls = sessions[n].calls
        /\ sessions'[n].pendingCount = sessions[n].pendingCount
        /\ sessions'[n].cancelled = sessions[n].cancelled
        /\ sessions'[n].pod = [sessions[n].pod EXCEPT ![p] = pod]
    BY <1>2, <1>6 DEF SessionsOf
  <1>8. \A q \in sessions[n].pods : q # p => sessions'[n].pod[q] = sessions[n].pod[q]
    BY <1>2, <1>7
  <1>9. sessions'[n].pod[p] = pod
    BY <1>2, <1>7
  <1>10. Uncounted(n)' = Uncounted(n)
    BY <1>7, <1>8, <1>9 DEF Uncounted
  <1>11. \A m \in DOMAIN sessions : Uncounted(m)' = Uncounted(m)
    BY <1>6, <1>10 DEF Uncounted
  <1>12. CountsExact'
    <2> SUFFICES ASSUME NEW m \in DOMAIN sessions
                 PROVE  /\ sessions'[m].pendingCount = Cardinality(Uncounted(m)')
                        /\ sessions'[m].calls = IF sessions'[m].pendingCount = 0 THEN 1 ELSE 0
      BY <1>5 DEF CountsExact
    <2>1. sessions'[m].pendingCount = sessions[m].pendingCount
          /\ sessions'[m].calls = sessions[m].calls
      BY <1>6, <1>7
    <2> QED
      BY <1>11, <2>1 DEF CountsExact
  <1>13. PodsInv'
    <2> SUFFICES ASSUME NEW m \in DOMAIN sessions, NEW q \in sessions[m].pods
                 PROVE  PodInv(sessions[m], q, sessions[m].pod[q])'
      BY <1>5, <1>6, <1>7 DEF PodsInv
    <2>1. CASE m = n /\ q = p
      BY <1>7, <1>9, <2>1 DEF PodInv, Excused
    <2>2. CASE m # n \/ q # p
      <3>1. /\ sessions'[m].pod[q] = sessions[m].pod[q]
            /\ sessions'[m].cancelled = sessions[m].cancelled
        BY <1>6, <1>7, <1>8, <2>2
      <3>2. PodInv(sessions[m], q, sessions[m].pod[q])
        BY DEF PodsInv
      <3> QED
        BY <3>1, <3>2 DEF PodInv, Excused
    <2> QED
      BY <2>1, <2>2
  <1> QED
    BY <1>5, <1>6, <1>7, <1>8, <1>9, <1>11, <1>12, <1>13

(* A step that finishes one pod, by its probes or by its canceller: the    *)
(* pod has not been counted before, and with the last pod the session      *)
(* calls back.                                                             *)
LEMMA CountPodPreserves ==
  ASSUME ProberInv,
         NEW n \in DOMAIN sessions, NEW p \in sessions[n].pods,
         NEW pod \in PodStates,
         CountPod(n, p, pod),
         p \in Uncounted(n),
         pod.made, pod.pendingCount <= 0,
         cancelled' = cancelled,
         PodInv(sessions[n], p, pod)
  PROVE  /\ sessions' \in Seq(AnySession)
         /\ DOMAIN sessions' = DOMAIN sessions
         /\ Len(sessions') = Len(sessions)
         /\ \A m \in DOMAIN sessions :
               /\ sessions'[m].pods = sessions[m].pods
               /\ sessions'[m].hash = sessions[m].hash
               /\ sessions'[m].cancelled = sessions[m].cancelled
         /\ Uncounted(n)' = Uncounted(n) \ {p}
         /\ sessions'[n].calls = IF Uncounted(n) = {p} THEN sessions[n].calls + 1
                                 ELSE sessions[n].calls
         /\ \A m \in DOMAIN sessions : m # n =>
               Uncounted(m)' = Uncounted(m) /\ sessions'[m] = sessions[m]
         /\ \A m \in DOMAIN sessions : \A q \in sessions[m].pods :
               m # n \/ q # p => sessions'[m].pod[q] = sessions[m].pod[q]
         /\ sessions'[n].pod[p] = pod
         /\ CountsExact'
         /\ PodsInv'
         /\ queued' \in BOOLEAN
  <1> USE DEF ProberInv
  <1> DEFINE s == sessions[n]
             t == [s EXCEPT !.pod = [@ EXCEPT ![p] = pod], !.pendingCount = @ - 1,
                            !.calls = IF s.pendingCount = 1 THEN @ + 1 ELSE @]
  <1>0. sessions \in Seq(AnySession) /\ s \in AnySession
    BY DEF ProberTypeOK
  <1>2. /\ s.pod \in [s.pods -> PodStates]
        /\ s \in SessionsOf(s.pods)
        /\ s.pods \in SUBSET Pod
        /\ s.pendingCount \in Int /\ s.calls \in Int
    BY <1>0, SessionType
  <1>3. sessions' = [sessions EXCEPT ![n] = t]
    BY <1>0 DEF CountPod
  <1>4. t \in SessionsOf(s.pods)
    <2> DEFINE states == [s.pod EXCEPT ![p] = pod]
               calls == IF s.pendingCount = 1 THEN s.calls + 1 ELSE s.calls
    <2>1. states \in [s.pods -> PodStates] /\ calls \in Int /\ s.pendingCount - 1 \in Int
      BY <1>2
    <2>2. t = [s EXCEPT !.pod = states, !.pendingCount = s.pendingCount - 1, !.calls = calls]
      OBVIOUS
    <2> HIDE DEF states, calls
    <2> QED
      BY <1>2, <2>1, <2>2 DEF SessionsOf
  <1>5. sessions' \in Seq(AnySession) /\ DOMAIN sessions' = DOMAIN sessions
        /\ Len(sessions') = Len(sessions)
    BY <1>0, <1>2, <1>3, <1>4 DEF AnySession
  <1>6. /\ \A m \in DOMAIN sessions : m # n => sessions'[m] = sessions[m]
        /\ sessions'[n] = t
    BY <1>3
  <1>7. /\ sessions'[n].pods = s.pods
        /\ sessions'[n].hash = s.hash
        /\ sessions'[n].calls = IF s.pendingCount = 1 THEN s.calls + 1 ELSE s.calls
        /\ sessions'[n].pendingCount = s.pendingCount - 1
        /\ sessions'[n].cancelled = s.cancelled
        /\ sessions'[n].pod = [s.pod EXCEPT ![p] = pod]
    BY <1>2, <1>6 DEF SessionsOf
  <1> HIDE DEF t
  <1>8. \A q \in s.pods : q # p => sessions'[n].pod[q] = s.pod[q]
    BY <1>2, <1>7
  <1>9. sessions'[n].pod[p] = pod
    BY <1>2, <1>7
  <1>10. Uncounted(n)' = Uncounted(n) \ {p}
    BY <1>7, <1>8, <1>9 DEF Uncounted, PodStates
  <1>11. \A m \in DOMAIN sessions : m # n => Uncounted(m)' = Uncounted(m)
    BY <1>6 DEF Uncounted
  <1>12. /\ Cardinality(Uncounted(n) \ {p}) = s.pendingCount - 1
         /\ s.pendingCount \in Nat /\ s.pendingCount > 0
         /\ s.pendingCount = 1 <=> Uncounted(n) = {p}
    <2>1. IsFiniteSet(Uncounted(n)) /\ s.pendingCount = Cardinality(Uncounted(n))
      BY UncountedFinite DEF CountsExact
    <2>2. /\ IsFiniteSet(Uncounted(n) \ {p})
          /\ Cardinality(Uncounted(n) \ {p}) = Cardinality(Uncounted(n)) - 1
      BY <2>1, FS_RemoveElement
    <2>3. Cardinality(Uncounted(n) \ {p}) \in Nat /\ Cardinality(Uncounted(n)) \in Nat
      BY <2>1, <2>2, FS_CardinalityType
    <2>4. Cardinality(Uncounted(n) \ {p}) = 0 <=> Uncounted(n) \ {p} = {}
      BY <2>2, FS_EmptySet
    <2> QED
      BY <2>1, <2>2, <2>3, <2>4
  <1>13. CountsExact'
    <2> SUFFICES ASSUME NEW m \in DOMAIN sessions
                 PROVE  /\ sessions'[m].pendingCount = Cardinality(Uncounted(m)')
                        /\ sessions'[m].calls = IF sessions'[m].pendingCount = 0 THEN 1 ELSE 0
      BY <1>5 DEF CountsExact
    <2>1. CASE m = n
      <3>1. s.calls = 0
        BY <1>12 DEF CountsExact
      <3>2. sessions'[n].pendingCount = Cardinality(Uncounted(n)')
        BY <1>7, <1>10, <1>12
      <3>3. sessions'[n].calls = IF sessions'[n].pendingCount = 0 THEN 1 ELSE 0
        BY <1>7, <1>12, <3>1
      <3> QED
        BY <2>1, <3>2, <3>3
    <2>2. CASE m # n
      BY <1>6, <1>11, <2>2 DEF CountsExact
    <2> QED
      BY <2>1, <2>2
  <1>14. PodsInv'
    <2> SUFFICES ASSUME NEW m \in DOMAIN sessions, NEW q \in sessions[m].pods
                 PROVE  PodInv(sessions[m], q, sessions[m].pod[q])'
      BY <1>5, <1>6, <1>7 DEF PodsInv
    <2>1. CASE m = n /\ q = p
      BY <1>7, <1>9, <2>1 DEF PodInv, Excused
    <2>2. CASE m # n \/ q # p
      <3>1. /\ sessions'[m].pod[q] = sessions[m].pod[q]
            /\ sessions'[m].cancelled = sessions[m].cancelled
        BY <1>6, <1>7, <1>8, <2>2
      <3>2. PodInv(sessions[m], q, sessions[m].pod[q])
        BY DEF PodsInv
      <3> QED
        BY <3>1, <3>2 DEF PodInv, Excused
    <2> QED
      BY <2>1, <2>2
  <1>15. queued' \in BOOLEAN
    BY DEF CountPod, ProberTypeOK
  <1> QED
    BY <1>5, <1>6, <1>7, <1>8, <1>9, <1>10, <1>11, <1>12, <1>13, <1>14, <1>15

(* Steps of workers and cancellers: they change the state of one pod and   *)
(* the counters of its session, and start or end neither a session nor a   *)
(* call.                                                                   *)
LEMMA ThreadPreserves ==
  ASSUME ProberInv,
         sessions' \in Seq(AnySession),
         DOMAIN sessions' = DOMAIN sessions,
         Len(sessions') = Len(sessions),
         \A m \in DOMAIN sessions :
            /\ sessions'[m].pods = sessions[m].pods
            /\ sessions'[m].hash = sessions[m].hash
            /\ sessions'[m].cancelled = sessions[m].cancelled
            /\ \A q \in sessions[m].pods :
                  ~sessions[m].pod[q].made => ~sessions'[m].pod[q].made,
         CountsExact', PodsInv',
         UNCHANGED <<cluster, spec, call, ingressStates, podContexts, cancelled>>,
         queued' \in BOOLEAN
  PROVE  ProberInv'
  <1> USE DEF ProberInv
  <1>1. ProberTypeOK'
    BY DEF ProberTypeOK, cluster
  <1>2. CallInv'
    <2>0. Len(sessions) \in Nat /\ DOMAIN sessions = 1 .. Len(sessions)
      BY DEF ProberTypeOK
    <2>1. CASE call.at = "pods"
      <3>1. Current \in DOMAIN sessions /\ Current' = Current
        BY <2>0, <2>1 DEF CallInv, Current
      <3> QED
        BY <2>1, <3>1 DEF CallInv
    <2>2. CASE call.at # "pods"
      BY <2>2 DEF CallInv
    <2> QED
      BY <2>1, <2>2
  <1>3. OneSession'
    BY DEF OneSession, Current
  <1> QED
    BY <1>1, <1>2, <1>3

-----------------------------------------------------------------------------
(* The initial state. *)

LEMMA InitInv == Init => ProberInv
  <1> SUFFICES ASSUME Init PROVE ProberInv
    OBVIOUS
  <1> USE ProberAssumption DEF Init
  <1>1. sessions \in Seq(AnySession) /\ Len(sessions) = 0 /\ DOMAIN sessions = {}
    OBVIOUS
  <1>2. ProberTypeOK
    BY <1>1, FS_EmptySet DEF ProberTypeOK, Pod, Idle
  <1>3. CallInv /\ CountsExact /\ PodsInv /\ OneSession
    BY <1>1 DEF CallInv, CountsExact, PodsInv, OneSession, Idle
  <1> QED
    BY <1>2, <1>3 DEF ProberInv

-----------------------------------------------------------------------------
(* The workers. *)

(* An uncounted pod stays so, and no counter changes: Countdown sees   *)
(* nothing of the step.                                                    *)
Unseen ==
    /\ DOMAIN sessions' = DOMAIN sessions
    /\ \A m \in DOMAIN sessions :
          Uncounted(m)' = Uncounted(m) /\ sessions'[m].calls = sessions[m].calls

(* The states of pods have their type, and satisfy the invariant.          *)
LEMMA PodFacts ==
  ASSUME ProberInv, NEW n \in DOMAIN sessions, NEW p \in sessions[n].pods
  PROVE  /\ sessions[n].pod[p] \in PodStates
         /\ PodInv(sessions[n], p, sessions[n].pod[p])
         /\ sessions[n].cancelled \in BOOLEAN
  <1>1. sessions[n] \in AnySession
    BY DEF ProberInv, ProberTypeOK
  <1> QED
    BY <1>1, SessionType DEF ProberInv, PodsInv

LEMMA SetMadePodPreserves ==
  ASSUME ProberInv,
         NEW n \in DOMAIN sessions, NEW p \in sessions[n].pods,
         NEW pod \in PodStates,
         sessions' = SetPod(n, p, pod),
         pod.made, sessions[n].pod[p].made,
         pod.pendingCount > 0 <=> sessions[n].pod[p].pendingCount > 0,
         PodInv(sessions[n], p, pod),
         UNCHANGED <<cluster, spec, call, ingressStates, podContexts, cancelled>>,
         queued' \in BOOLEAN
  PROVE  ProberInv' /\ Unseen
  <1>1. /\ sessions' \in Seq(AnySession)
        /\ DOMAIN sessions' = DOMAIN sessions
        /\ Len(sessions') = Len(sessions)
        /\ \A m \in DOMAIN sessions :
               /\ sessions'[m].pods = sessions[m].pods
               /\ sessions'[m].hash = sessions[m].hash
               /\ sessions'[m].calls = sessions[m].calls
               /\ sessions'[m].cancelled = sessions[m].cancelled
               /\ Uncounted(m)' = Uncounted(m)
        /\ \A m \in DOMAIN sessions : \A q \in sessions[m].pods :
               m # n \/ q # p => sessions'[m].pod[q] = sessions[m].pod[q]
        /\ sessions'[n].pod[p] = pod
        /\ CountsExact'
        /\ PodsInv'
    BY SetPodPreserves
  <1>2. \A m \in DOMAIN sessions : \A q \in sessions[m].pods :
            ~sessions[m].pod[q].made => ~sessions'[m].pod[q].made
    BY <1>1
  <1>3. ProberInv'
    BY <1>1, <1>2, ThreadPreserves
  <1> QED
    BY <1>1, <1>3 DEF Unseen

LEMMA PassesPreserves ==
  ASSUME ProberInv, NEW n \in DOMAIN sessions, NEW p \in sessions[n].pods, Passes(n, p)
  PROVE  ProberInv' /\ Unseen
  <1> DEFINE old == sessions[n].pod[p]
             pod == [old EXCEPT !.queued = @ - 1, !.passed = @ + 1]
  <1>1. sessions' = SetPod(n, p, pod) /\ old.queued > 0
    BY DEF Passes
  <1>2. old \in PodStates /\ PodInv(sessions[n], p, old)
    BY PodFacts
  <1>3. old.queued - 1 \in Nat /\ old.passed + 1 \in Nat
    BY <1>1, <1>2 DEF PodStates
  <1>4. old.made
    BY <1>1, <1>2 DEF PodInv, PodStates
  <1>5. pod \in PodStates
    BY <1>2, <1>3 DEF PodStates
  <1>6. /\ pod.made = old.made /\ pod.pendingCount = old.pendingCount
        /\ pod.cancelled = old.cancelled /\ pod.context = old.context
        /\ pod.at = old.at /\ pod.seen = old.seen
        /\ pod.queued = old.queued - 1 /\ pod.passed = old.passed + 1
    BY <1>2 DEF PodStates
  <1> HIDE DEF pod
  <1>7. PodInv(sessions[n], p, pod)
    BY <1>2, <1>4, <1>6 DEF PodInv, Excused, PodStates
  <1>8. /\ UNCHANGED <<cluster, spec, call, ingressStates, podContexts, cancelled>>
        /\ queued' \in BOOLEAN
    BY DEF Passes, ingress, ProberInv, ProberTypeOK
  <1> QED
    BY <1>1, <1>4, <1>5, <1>6, <1>7, <1>8, SetMadePodPreserves

(* Exactly one pod of one session is finished, and its session calls back  *)
(* with the last one: a step Finish of Countdown.                          *)
Finished ==
    \E n \in DOMAIN sessions : \E p \in Uncounted(n) :
        /\ DOMAIN sessions' = DOMAIN sessions
        /\ Uncounted(n)' = Uncounted(n) \ {p}
        /\ sessions'[n].calls = IF Uncounted(n) = {p} THEN sessions[n].calls + 1
                                ELSE sessions[n].calls
        /\ \A m \in DOMAIN sessions \ {n} :
              Uncounted(m)' = Uncounted(m) /\ sessions'[m].calls = sessions[m].calls

LEMMA FinishPodPreserves ==
  ASSUME ProberInv,
         NEW n \in DOMAIN sessions, NEW p \in sessions[n].pods,
         NEW pod \in PodStates,
         CountPod(n, p, pod),
         sessions[n].pod[p].made, sessions[n].pod[p].pendingCount > 0,
         pod.made, pod.pendingCount <= 0,
         PodInv(sessions[n], p, pod),
         UNCHANGED <<cluster, spec, call, ingressStates, podContexts, cancelled>>
  PROVE  ProberInv' /\ Finished
  <1>0. p \in Uncounted(n)
    BY DEF Uncounted
  <1>1. /\ sessions' \in Seq(AnySession)
        /\ DOMAIN sessions' = DOMAIN sessions
        /\ Len(sessions') = Len(sessions)
        /\ \A m \in DOMAIN sessions :
               /\ sessions'[m].pods = sessions[m].pods
               /\ sessions'[m].hash = sessions[m].hash
               /\ sessions'[m].cancelled = sessions[m].cancelled
        /\ Uncounted(n)' = Uncounted(n) \ {p}
        /\ sessions'[n].calls = IF Uncounted(n) = {p} THEN sessions[n].calls + 1
                                ELSE sessions[n].calls
        /\ \A m \in DOMAIN sessions : m # n =>
               Uncounted(m)' = Uncounted(m) /\ sessions'[m] = sessions[m]
        /\ \A m \in DOMAIN sessions : \A q \in sessions[m].pods :
               m # n \/ q # p => sessions'[m].pod[q] = sessions[m].pod[q]
        /\ sessions'[n].pod[p] = pod
        /\ CountsExact'
        /\ PodsInv'
        /\ queued' \in BOOLEAN
    BY <1>0, CountPodPreserves
  <1>2. \A m \in DOMAIN sessions : \A q \in sessions[m].pods :
            ~sessions[m].pod[q].made => ~sessions'[m].pod[q].made
    BY <1>1
  <1>3. ProberInv'
    BY <1>1, <1>2, ThreadPreserves
  <1>4. Finished
    BY <1>0, <1>1 DEF Finished
  <1> QED
    BY <1>3, <1>4

LEMMA CountProbePreserves ==
  ASSUME ProberInv, NEW n \in DOMAIN sessions, NEW p \in sessions[n].pods, CountProbe(n, p)
  PROVE  ProberInv' /\ (Unseen \/ Finished)
  <1> DEFINE old == sessions[n].pod[p]
             fewer == [old EXCEPT !.pendingCount = @ - 1, !.passed = @ - 1]
             last == [fewer EXCEPT !.cancelled = TRUE]
  <1>1. /\ old.passed > 0
        /\ IF fewer.pendingCount = 0 THEN CountPod(n, p, last)
           ELSE sessions' = SetPod(n, p, fewer) /\ UNCHANGED queued
    BY DEF CountProbe
  <1>2. old \in PodStates /\ PodInv(sessions[n], p, old)
    BY PodFacts
  <1>3. old.passed - 1 \in Nat /\ old.pendingCount - 1 \in Int
    BY <1>1, <1>2 DEF PodStates
  <1>4. old.made
    BY <1>1, <1>2 DEF PodInv, PodStates
  <1>5. fewer \in PodStates
    BY <1>2, <1>3 DEF PodStates
  <1>6. /\ fewer.made = old.made /\ fewer.pendingCount = old.pendingCount - 1
        /\ fewer.cancelled = old.cancelled /\ fewer.context = old.context
        /\ fewer.at = old.at /\ fewer.seen = old.seen
        /\ fewer.queued = old.queued /\ fewer.passed = old.passed - 1
    BY <1>2 DEF PodStates
  <1> HIDE DEF fewer
  <1>7. last \in PodStates
    BY <1>5 DEF PodStates
  <1>8. /\ last.made = fewer.made /\ last.pendingCount = fewer.pendingCount
        /\ last.cancelled = TRUE /\ last.context = fewer.context
        /\ last.at = fewer.at /\ last.seen = fewer.seen
        /\ last.queued = fewer.queued /\ last.passed = fewer.passed
    BY <1>5 DEF PodStates
  <1> HIDE DEF last
  <1>9. /\ UNCHANGED <<cluster, spec, call, ingressStates, podContexts, cancelled>>
        /\ queued \in BOOLEAN
    BY DEF CountProbe, ProberInv, ProberTypeOK
  <1>10. CASE fewer.pendingCount = 0
    <2>1. PodInv(sessions[n], p, last)
      BY <1>2, <1>4, <1>6, <1>8, <1>10 DEF PodInv, Excused, PodStates
    <2>2. old.pendingCount > 0 /\ last.pendingCount <= 0 /\ last.made
      BY <1>2, <1>4, <1>6, <1>8, <1>10 DEF PodStates
    <2> QED
      BY <1>1, <1>4, <1>7, <1>9, <1>10, <2>1, <2>2, FinishPodPreserves
  <1>11. CASE fewer.pendingCount # 0
    <2>1. PodInv(sessions[n], p, fewer)
      BY <1>2, <1>4, <1>6 DEF PodInv, Excused, PodStates
    <2>2. fewer.made /\ (fewer.pendingCount > 0 <=> old.pendingCount > 0)
      BY <1>2, <1>4, <1>6, <1>11 DEF PodStates
    <2> QED
      BY <1>1, <1>4, <1>5, <1>9, <1>11, <2>1, <2>2, SetMadePodPreserves
  <1> QED
    BY <1>10, <1>11

-----------------------------------------------------------------------------
(* The goroutines of a pod. *)

LEMMA JoinContextsPreserves ==
  ASSUME ProberInv, NEW n \in DOMAIN sessions, NEW p \in sessions[n].pods, JoinContexts(n, p)
  PROVE  ProberInv' /\ Unseen
  <1> DEFINE old == sessions[n].pod[p]
             pod == [old EXCEPT !.cancelled = TRUE]
  <1>1. sessions' = SetPod(n, p, pod) /\ old.made /\ <<p, old.context>> \in cancelled
    BY DEF JoinContexts
  <1>2. old \in PodStates /\ PodInv(sessions[n], p, old)
    BY PodFacts
  <1>3. pod \in PodStates
    BY <1>2 DEF PodStates
  <1>4. /\ pod.made = old.made /\ pod.pendingCount = old.pendingCount
        /\ pod.context = old.context /\ pod.at = old.at /\ pod.seen = old.seen
        /\ pod.queued = old.queued /\ pod.passed = old.passed
    BY <1>2 DEF PodStates
  <1> HIDE DEF pod
  <1>5. PodInv(sessions[n], p, pod)
    BY <1>1, <1>2, <1>4 DEF PodInv, Excused
  <1>6. /\ UNCHANGED <<cluster, spec, call, ingressStates, podContexts, cancelled>>
        /\ queued' \in BOOLEAN
    BY DEF JoinContexts, ingress, ProberInv, ProberTypeOK
  <1> QED
    BY <1>1, <1>3, <1>4, <1>5, <1>6, SetMadePodPreserves

LEMMA LoadPendingPreserves ==
  ASSUME ProberInv, NEW n \in DOMAIN sessions, NEW p \in sessions[n].pods, LoadPending(n, p)
  PROVE  ProberInv' /\ Unseen
  <1> DEFINE old == sessions[n].pod[p]
             pod == IF old.pendingCount <= 0 THEN [old EXCEPT !.at = "done"]
                    ELSE [old EXCEPT !.at = "loaded", !.seen = old.pendingCount]
  <1>1. sessions' = SetPod(n, p, pod) /\ old.made /\ Done(n, p)
    BY DEF LoadPending
  <1>2. old \in PodStates /\ PodInv(sessions[n], p, old)
    BY PodFacts
  <1>3. pod \in PodStates
    BY <1>2 DEF PodStates
  <1>4. /\ pod.made = old.made /\ pod.pendingCount = old.pendingCount
        /\ pod.context = old.context /\ pod.cancelled = old.cancelled
        /\ pod.queued = old.queued /\ pod.passed = old.passed
        /\ pod.at = "loaded" => pod.seen = old.pendingCount /\ old.pendingCount > 0
    BY <1>2 DEF PodStates
  <1> HIDE DEF pod
  <1>5. PodInv(sessions[n], p, pod)
    BY <1>1, <1>2, <1>4 DEF PodInv, Excused, Done, PodStates
  <1>6. /\ UNCHANGED <<cluster, spec, call, ingressStates, podContexts, cancelled>>
        /\ queued' \in BOOLEAN
    BY DEF LoadPending, ingress, ProberInv, ProberTypeOK
  <1> QED
    BY <1>1, <1>3, <1>4, <1>5, <1>6, SetMadePodPreserves

(* What the canceller sets keeps its type. *)
LEMMA CancellerType ==
  ASSUME NEW pod \in PodStates, NEW at \in {"wait", "loaded", "done"},
         NEW seen \in Int, NEW count \in Int
  PROVE  /\ [pod EXCEPT !.at = at, !.seen = seen] \in PodStates
         /\ [pod EXCEPT !.at = at, !.seen = seen, !.pendingCount = count] \in PodStates
  BY DEF PodStates

LEMMA SwapPendingPreserves ==
  ASSUME ProberInv, NEW n \in DOMAIN sessions, NEW p \in sessions[n].pods, SwapPending(n, p)
  PROVE  ProberInv' /\ (Unseen \/ Finished)
  <1> DEFINE old == sessions[n].pod[p]
             swapped == [old EXCEPT !.at = "done", !.seen = 0, !.pendingCount = 0]
             again == [old EXCEPT !.at = "wait", !.seen = 0]
  <1>1. /\ old.at = "loaded"
        /\ IF old.pendingCount = old.seen THEN CountPod(n, p, swapped)
           ELSE sessions' = SetPod(n, p, again) /\ UNCHANGED queued
    BY DEF SwapPending
  <1>2. old \in PodStates /\ PodInv(sessions[n], p, old)
    BY PodFacts
  <1>3. old.made /\ old.seen > 0 /\ Excused(sessions[n], p, old)
    BY <1>1, <1>2 DEF PodInv
  <1>4. swapped \in PodStates /\ again \in PodStates
    <2>0. 0 \in Int /\ "wait" \in {"wait", "loaded", "done"} /\ "done" \in {"wait", "loaded", "done"}
      OBVIOUS
    <2>1. swapped \in PodStates
      BY <1>2, <2>0, CancellerType, Zenon
    <2>2. again \in PodStates
      BY <1>2, <2>0, CancellerType, Zenon
    <2> QED
      BY <2>1, <2>2
  <1>5. /\ swapped.made = old.made /\ swapped.pendingCount = 0 /\ swapped.at = "done"
        /\ swapped.context = old.context
        /\ again.made = old.made /\ again.pendingCount = old.pendingCount /\ again.at = "wait"
        /\ again.context = old.context
    BY <1>2 DEF PodStates
  <1> HIDE DEF swapped, again
  <1>6. PodInv(sessions[n], p, swapped) /\ PodInv(sessions[n], p, again)
    BY <1>3, <1>5 DEF PodInv, Excused
  <1>7. /\ UNCHANGED <<cluster, spec, call, ingressStates, podContexts, cancelled>>
        /\ queued \in BOOLEAN
    BY DEF SwapPending, ProberInv, ProberTypeOK
  <1>8. CASE old.pendingCount = old.seen
    <2>1. CountPod(n, p, swapped) /\ old.pendingCount > 0
      BY <1>1, <1>3, <1>8
    <2>2. swapped.made /\ swapped.pendingCount <= 0
      BY <1>3, <1>5
    <2> QED
      BY <1>3, <1>4, <1>6, <1>7, <2>1, <2>2, FinishPodPreserves
  <1>9. CASE old.pendingCount # old.seen
    BY <1>1, <1>3, <1>4, <1>5, <1>6, <1>7, <1>9, SetMadePodPreserves
  <1> QED
    BY <1>8, <1>9

-----------------------------------------------------------------------------
(* Steps that leave the prober alone, and the deletion of a pod. *)

LEMMA OutsidePreserves ==
  ASSUME ProberInv, UNCHANGED prober,
         alive' \in SUBSET Pod, endpoints' \in SUBSET Pod, deletions' \in SUBSET Pod,
         spec' \in [generation : Nat, hash : Hash, deleted : BOOLEAN],
         queued' \in BOOLEAN
  PROVE  ProberInv' /\ Unseen
  <1> USE DEF ProberInv, prober
  <1>1. ProberTypeOK' /\ CallInv' /\ OneSession'
    BY DEF ProberTypeOK, CallInv, OneSession, Current
  <1>2. PodsInv'
    BY DEF PodsInv, PodInv, Excused
  <1>3. \A m \in DOMAIN sessions : Uncounted(m)' = Uncounted(m)
    BY DEF Uncounted
  <1>4. CountsExact'
    BY DEF CountsExact, Uncounted
  <1> QED
    BY <1>1, <1>2, <1>3, <1>4 DEF Unseen

LEMMA EnvironmentPreserves ==
  ASSUME ProberInv, Environment \/ SyncEndpoints \/ \E p \in Pod : MissPodDeletion(p)
  PROVE  ProberInv' /\ Unseen
  <1> USE DEF ProberInv, ProberTypeOK
  <1>1. ASSUME NEW hash \in Hash, NEW deleted \in BOOLEAN, ChangeIngress(hash, deleted)
        PROVE  ProberInv' /\ Unseen
    <2>1. spec' \in [generation : Nat, hash : Hash, deleted : BOOLEAN]
      BY <1>1 DEF ChangeIngress
    <2> QED
      BY <1>1, <2>1, OutsidePreserves DEF ChangeIngress, cluster
  <1>2. ASSUME NEW p \in Pod, StartPod(p) \/ DeletePod(p) \/ MissPodDeletion(p)
        PROVE  ProberInv' /\ Unseen
    BY <1>2, OutsidePreserves DEF StartPod, DeletePod, MissPodDeletion, ingress
  <1>3. CASE SyncEndpoints
    BY <1>3, OutsidePreserves DEF SyncEndpoints, ingress
  <1> QED
    BY <1>1, <1>2, <1>3 DEF Environment

LEMMA CancelPodProbingPreserves ==
  ASSUME ProberInv, NEW p \in Pod, CancelPodProbing(p)
  PROVE  ProberInv' /\ Unseen
  <1> USE DEF ProberInv
  <1>1. cancelled \subseteq cancelled'
    BY DEF CancelPodProbing
  <1>2. UNCHANGED <<alive, endpoints, spec, queued, call, sessions, ingressStates>>
    BY DEF CancelPodProbing, ingress
  <1>3. deletions' \in SUBSET Pod /\ podContexts' \in [Pod -> Nat]
    BY DEF CancelPodProbing, ProberTypeOK
  <1>. IsFiniteSet(cancelled')
    BY FS_AddElement DEF CancelPodProbing, ProberTypeOK
  <1>4. ProberTypeOK' /\ CallInv' /\ OneSession'
    BY <1>2, <1>3 DEF ProberTypeOK, CallInv, OneSession, Current
  <1>5. PodsInv'
    <2> SUFFICES ASSUME NEW n \in DOMAIN sessions, NEW q \in sessions[n].pods
                 PROVE  PodInv(sessions[n], q, sessions[n].pod[q])'
      BY <1>2 DEF PodsInv
    <2>1. PodInv(sessions[n], q, sessions[n].pod[q])
      BY DEF PodsInv
    <2> QED
      BY <1>1, <1>2, <2>1 DEF PodInv, Excused
  <1>6. \A m \in DOMAIN sessions : Uncounted(m)' = Uncounted(m)
    BY <1>2 DEF Uncounted
  <1>7. CountsExact'
    BY <1>2 DEF CountsExact, Uncounted
  <1> QED
    BY <1>2, <1>4, <1>5, <1>6, <1>7 DEF Unseen

-----------------------------------------------------------------------------
(* The reconciler. *)

(* The session in the map is cancelled; nothing else happens to it.        *)
LEMMA CancelSessionFacts ==
  ASSUME ProberInv, CancelSession, cancelled' = cancelled
  PROVE  /\ sessions' \in Seq(AnySession)
         /\ Len(sessions') = Len(sessions)
         /\ CountsExact' /\ PodsInv' /\ Unseen
         /\ \A n \in DOMAIN sessions :
               ~sessions'[n].cancelled => n # ingressStates /\ ~sessions[n].cancelled
         /\ ingressStates' = 0
  <1> USE DEF ProberInv
  <1>0. sessions \in Seq(AnySession) /\ ingressStates \in 0 .. Len(sessions)
        /\ DOMAIN sessions = 1 .. Len(sessions) /\ Len(sessions) \in Nat
    BY DEF ProberTypeOK
  <1>1. CASE ingressStates = 0
    <2>1. sessions' = sessions /\ ingressStates' = 0
      BY <1>1 DEF CancelSession
    <2>2. \A m \in DOMAIN sessions : Uncounted(m)' = Uncounted(m)
      BY <2>1 DEF Uncounted
    <2>3. CountsExact'
      BY <2>1 DEF CountsExact, Uncounted
    <2>4. PodsInv'
      BY <2>1 DEF PodsInv, PodInv, Excused
    <2> QED
      BY <1>0, <1>1, <2>1, <2>2, <2>3, <2>4 DEF Unseen
  <1>2. CASE ingressStates # 0
    <2> DEFINE i == ingressStates
               t == [sessions[i] EXCEPT !.cancelled = TRUE]
    <2>1. sessions' = [sessions EXCEPT ![i] = t] /\ i \in DOMAIN sessions /\ ingressStates' = 0
      BY <1>0, <1>2 DEF CancelSession
    <2>2. sessions[i] \in SessionsOf(sessions[i].pods) /\ sessions[i].pods \in SUBSET Pod
      BY <1>0, <2>1, SessionType
    <2>3. t \in SessionsOf(sessions[i].pods)
      BY <2>2 DEF SessionsOf
    <2>4. /\ t.pods = sessions[i].pods /\ t.pod = sessions[i].pod
          /\ t.pendingCount = sessions[i].pendingCount /\ t.calls = sessions[i].calls
          /\ t.cancelled
      BY <2>2 DEF SessionsOf
    <2>5. /\ sessions' \in Seq(AnySession) /\ DOMAIN sessions' = DOMAIN sessions
          /\ Len(sessions') = Len(sessions)
      BY <1>0, <2>1, <2>2, <2>3 DEF AnySession
    <2>6. \A m \in DOMAIN sessions :
             /\ sessions'[m].pods = sessions[m].pods /\ sessions'[m].pod = sessions[m].pod
             /\ sessions'[m].pendingCount = sessions[m].pendingCount
             /\ sessions'[m].calls = sessions[m].calls
             /\ sessions[m].cancelled => sessions'[m].cancelled
             /\ ~sessions'[m].cancelled => m # i /\ ~sessions[m].cancelled
      BY <2>1, <2>4
    <2> HIDE DEF t
    <2>7. \A m \in DOMAIN sessions : Uncounted(m)' = Uncounted(m)
      BY <2>6 DEF Uncounted
    <2>8. CountsExact'
      <3> SUFFICES ASSUME NEW m \in DOMAIN sessions
                   PROVE  /\ sessions'[m].pendingCount = Cardinality(Uncounted(m)')
                          /\ sessions'[m].calls = IF sessions'[m].pendingCount = 0 THEN 1 ELSE 0
        BY <2>5 DEF CountsExact
      <3> QED
        BY <2>6, <2>7 DEF CountsExact
    <2>9. PodsInv'
      <3> SUFFICES ASSUME NEW m \in DOMAIN sessions, NEW q \in sessions[m].pods
                   PROVE  PodInv(sessions[m], q, sessions[m].pod[q])'
        BY <2>5, <2>6 DEF PodsInv
      <3>1. PodInv(sessions[m], q, sessions[m].pod[q])
        BY DEF PodsInv
      <3> QED
        BY <2>6, <3>1 DEF PodInv, Excused
    <2> QED
      BY <2>1, <2>5, <2>6, <2>7, <2>8, <2>9 DEF Unseen
  <1> QED
    BY <1>1, <1>2

(* CancelIngressProbing, and IsReady for a version that is new. *)
LEMMA CancelPreserves ==
  ASSUME ProberInv, CancelIngressProbing \/ IsReadyNew
  PROVE  ProberInv' /\ Unseen
  <1> USE DEF ProberInv
  <1>1. CancelSession /\ UNCHANGED <<cluster, spec, podContexts, cancelled>> /\ queued' = FALSE
    BY DEF CancelIngressProbing, IsReadyNew
  <1>2. call.at = "idle" /\ (call' = call \/ call' = [at |-> "list", hash |-> spec.hash, left |-> {}])
    BY DEF CancelIngressProbing, IsReadyNew, Reconciles
  <1>3. /\ sessions' \in Seq(AnySession)
        /\ Len(sessions') = Len(sessions)
        /\ CountsExact' /\ PodsInv' /\ Unseen
        /\ \A n \in DOMAIN sessions :
               ~sessions'[n].cancelled => n # ingressStates /\ ~sessions[n].cancelled
        /\ ingressStates' = 0
    BY <1>1, CancelSessionFacts
  <1>4. ProberTypeOK'
    <2>1. /\ call' \in [at : {"idle", "list", "pods"}, hash : Hash \cup {0}, left : SUBSET Pod]
          /\ call'.at # "idle" => call'.hash \in Hash
      BY <1>2 DEF ProberTypeOK
    <2>2. ingressStates' \in 0 .. Len(sessions')
      BY <1>3 DEF ProberTypeOK
    <2>3. queued' \in BOOLEAN
      BY <1>1
    <2> QED
      BY <1>1, <1>3, <2>1, <2>2, <2>3 DEF ProberTypeOK, cluster
  <1>5. CallInv'
    BY <1>2, <1>3 DEF CallInv
  <1>6. OneSession'
    BY <1>2, <1>3 DEF OneSession, Unseen
  <1> QED
    BY <1>3, <1>4, <1>5, <1>6

(* IsReady that finds an answer, or has nothing to probe. *)
LEMMA AnswerPreserves ==
  ASSUME ProberInv, SkipReady \/ IsReadyKnown \/ ListProbeTargetsFails \/ StoreState
  PROVE  ProberInv' /\ Unseen
  <1> USE DEF ProberInv
  <1>1. CASE SkipReady \/ IsReadyKnown
    BY <1>1, OutsidePreserves DEF SkipReady, IsReadyKnown, ProberTypeOK, cluster
  <1>2. CASE ListProbeTargetsFails \/ StoreState
    <2>1. /\ UNCHANGED <<cluster, spec, sessions, podContexts, cancelled>> /\ call' = Idle
          /\ queued' \in BOOLEAN
      BY <1>2 DEF ListProbeTargetsFails, StoreState, ingress, ProberTypeOK
    <2>2. Len(sessions) \in Nat /\ DOMAIN sessions = 1 .. Len(sessions)
      BY DEF ProberTypeOK
    <2>3. ingressStates' \in 0 .. Len(sessions)
      BY <1>2, <2>2 DEF ListProbeTargetsFails, StoreState, Current, ProberTypeOK
    <2>4. ProberTypeOK' /\ CallInv'
      BY <2>1, <2>3 DEF ProberTypeOK, CallInv, Idle, cluster
    <2>5. OneSession'
      BY <1>2, <2>1 DEF OneSession, CallInv, ListProbeTargetsFails, StoreState, Current
    <2>6. \A m \in DOMAIN sessions : Uncounted(m)' = Uncounted(m)
      BY <2>1 DEF Uncounted
    <2>7. CountsExact'
      BY <2>1 DEF CountsExact, Uncounted
    <2>8. PodsInv'
      BY <2>1 DEF PodsInv, PodInv, Excused
    <2> QED
      BY <2>1, <2>4, <2>5, <2>6, <2>7, <2>8 DEF Unseen
  <1> QED
    BY <1>1, <1>2

(* ListProbeTargets begins a session, in which no pod is probed yet.       *)
Begun ==
    /\ endpoints # {} /\ endpoints \in SUBSET Pod
    /\ DOMAIN sessions = 1 .. Len(sessions) /\ Len(sessions) \in Nat
    /\ DOMAIN sessions' = 1 .. Len(sessions) + 1
    /\ \E n \in DOMAIN sessions' :
          n = Len(sessions) + 1 /\ Uncounted(n)' = endpoints /\ sessions'[n].calls = 0
    /\ \A m \in DOMAIN sessions :
          Uncounted(m)' = Uncounted(m) /\ sessions'[m].calls = sessions[m].calls

(* What is written about a pod has its type.                               *)
LEMMA PodStateType ==
  ASSUME NEW n \in Int, NEW urls \in Nat, NEW context \in Nat
  PROVE  /\ PodState(n, urls, context) \in PodStates
         /\ [PodState(n, urls, context) EXCEPT !.made = FALSE] \in PodStates
  <1>1. 0 \in Nat /\ 0 \in Int
    OBVIOUS
  <1>2. PodState(n, urls, context) \in PodStates
    BY <1>1, Zenon DEF PodState, PodStates
  <1> QED
    BY <1>2 DEF PodStates

LEMMA ListProbeTargetsPreserves ==
  ASSUME ProberInv, ListProbeTargets
  PROVE  ProberInv' /\ Begun
  <1> USE DEF ProberInv
  <1> DEFINE new == IngressState(call.hash, endpoints)
  <1>0. PICK last \in Nat : last = Len(sessions) + 1
    BY DEF ProberTypeOK
  <1>1. /\ endpoints # {} /\ endpoints \in SUBSET Pod /\ call.hash \in Hash
        /\ call.at = "list" /\ ingressStates = 0
        /\ sessions' = Append(sessions, new)
        /\ call' = [call EXCEPT !.at = "pods", !.left = endpoints]
        /\ UNCHANGED <<cluster, ingress, ingressStates, podContexts, cancelled>>
    BY DEF ListProbeTargets, ProberTypeOK, CallInv
  <1>2. IsFiniteSet(endpoints) /\ Cardinality(endpoints) \in Nat /\ Cardinality(endpoints) # 0
    BY <1>1, PodsFinite, FS_Subset, FS_CardinalityType, FS_EmptySet
  <1>3. NoPodState \in PodStates /\ ~NoPodState.made /\ NoPodState.queued = 0
        /\ NoPodState.passed = 0 /\ NoPodState.at = "wait" /\ ~NoPodState.cancelled
    <2>1. 0 \in Nat /\ 0 \in Int
      OBVIOUS
    <2>2. NoPodState \in PodStates
      BY <2>1, PodStateType, Zenon DEF NoPodState
    <2> QED
      BY <2>2 DEF NoPodState, PodState
  <1>4. /\ new.hash = call.hash /\ new.pods = endpoints /\ ~new.cancelled
        /\ new.pendingCount = Cardinality(endpoints) /\ new.calls = 0
        /\ new.pod = [p \in endpoints |-> NoPodState]
    BY DEF IngressState
  <1>5. new \in SessionsOf(endpoints)
    <2>1. [p \in endpoints |-> NoPodState] \in [endpoints -> PodStates]
      BY <1>3
    <2>2. Cardinality(endpoints) \in Int
      BY <1>2
    <2> HIDE DEF NoPodState
    <2> QED
      BY <1>1, <2>1, <2>2 DEF SessionsOf, IngressState
  <1> HIDE DEF new
  <1>6. sessions \in Seq(AnySession) /\ Len(sessions) \in Nat /\ DOMAIN sessions = 1 .. Len(sessions)
    BY DEF ProberTypeOK
  <1>7. new \in AnySession
    BY <1>1, <1>5 DEF AnySession
  <1>8. /\ sessions' \in Seq(AnySession) /\ Len(sessions') = last
        /\ DOMAIN sessions' = 1 .. last
        /\ sessions'[last] = new
        /\ \A m \in DOMAIN sessions : m # last /\ sessions'[m] = sessions[m]
        /\ \A m \in DOMAIN sessions' : m = last \/ m \in DOMAIN sessions
    BY <1>0, <1>1, <1>6, <1>7
  <1>9. /\ \A m \in DOMAIN sessions : Uncounted(m)' = Uncounted(m)
        /\ Uncounted(last)' = endpoints
    <2>1. \A m \in DOMAIN sessions : Uncounted(m)' = Uncounted(m)
      BY <1>8 DEF Uncounted
    <2>2. Uncounted(last)' = endpoints
      BY <1>3, <1>4, <1>8 DEF Uncounted
    <2> QED
      BY <2>1, <2>2
  <1>10. CountsExact'
    <2> SUFFICES ASSUME NEW m \in DOMAIN sessions'
                 PROVE  /\ sessions'[m].pendingCount = Cardinality(Uncounted(m)')
                        /\ sessions'[m].calls = IF sessions'[m].pendingCount = 0 THEN 1 ELSE 0
      BY DEF CountsExact
    <2>1. CASE m = last
      <3>1. Uncounted(m)' = endpoints
        BY <1>9, <2>1
      <3> QED
        BY <1>2, <1>4, <1>8, <2>1, <3>1
    <2>2. CASE m \in DOMAIN sessions
      BY <1>8, <1>9, <2>2 DEF CountsExact
    <2> QED
      BY <1>8, <2>1, <2>2
  <1>11. PodsInv'
    <2> SUFFICES ASSUME NEW m \in DOMAIN sessions', NEW q \in sessions'[m].pods
                 PROVE  PodInv(sessions[m], q, sessions[m].pod[q])'
      BY DEF PodsInv
    <2>1. CASE m = last
      <3>1. sessions'[m].pod[q] = NoPodState
        BY <1>4, <1>8, <2>1
      <3> QED
        BY <1>3, <3>1 DEF PodInv
    <2>2. CASE m \in DOMAIN sessions
      <3>1. sessions'[m] = sessions[m] /\ PodInv(sessions[m], q, sessions[m].pod[q])
        BY <1>8, <2>2 DEF PodsInv
      <3> QED
        BY <1>1, <3>1 DEF PodInv, Excused
    <2> QED
      BY <1>8, <2>1, <2>2
  <1>12. CallInv'
    <2>1. \A p \in endpoints : ~sessions'[last].pod[p].made
      BY <1>3, <1>4, <1>8
    <2>2. ingressStates' = 0
      BY <1>1
    <2>3. call'.left = endpoints /\ call'.hash = call.hash /\ Current' = last
      BY <1>1, <1>8 DEF Current, ProberTypeOK
    <2>4. Len(sessions') > 0
      BY <1>0, <1>6, <1>8
    <2> QED
      BY <1>4, <1>8, <2>1, <2>2, <2>3, <2>4 DEF CallInv
  <1>13. OneSession'
    <2>1. \A m \in DOMAIN sessions : sessions[m].cancelled
      BY <1>1, <1>6 DEF OneSession
    <2>2. call'.at = "pods" /\ Current' = last
      BY <1>1, <1>8 DEF Current, ProberTypeOK
    <2> QED
      BY <1>8, <2>1, <2>2 DEF OneSession
  <1>14. ProberTypeOK'
    <2>1. /\ call' \in [at : {"idle", "list", "pods"}, hash : Hash \cup {0}, left : SUBSET Pod]
          /\ call'.hash \in Hash
      BY <1>1 DEF ProberTypeOK
    <2>2. ingressStates' \in 0 .. Len(sessions')
      BY <1>1, <1>6, <1>8
    <2> QED
      BY <1>1, <1>8, <2>1, <2>2 DEF ProberTypeOK, cluster, ingress
  <1>15. Begun
    BY <1>0, <1>1, <1>4, <1>6, <1>8, <1>9 DEF Begun
  <1> QED
    BY <1>10, <1>11, <1>12, <1>13, <1>14, <1>15

(* The body of the loop over IPs: the pod was not probed, and waits for    *)
(* answers now.                                                            *)
LEMMA ProbePodPreserves ==
  ASSUME ProberInv, NEW p \in Pod, ProbePod(p)
  PROVE  ProberInv' /\ Unseen
  <1> USE DEF ProberInv
  <1>1. PICK n \in Nat : n = Current
    BY DEF ProberTypeOK, Current
  <1>2. /\ call.at = "pods" /\ p \in call.left
        /\ n \in DOMAIN sessions /\ p \in sessions[n].pods
        /\ ~sessions[n].pod[p].made /\ call.hash \in Hash
        /\ ingressStates = 0
    BY <1>1 DEF ProbePod, CallInv, ProberTypeOK, Current
  <1>3. FreshContext(p) \in Nat
    <2>1. IsFiniteSet({c \in cancelled : c[1] = p})
      BY FS_Subset DEF ProberTypeOK
    <2> QED
      BY <2>1, FS_CardinalityType DEF FreshContext
  <1>4. podContexts' \in [Pod -> Nat]
    BY <1>3 DEF ProbePod, ProberTypeOK
  <1> DEFINE urls == NumURLs[call.hash]
             pod == PodState(urls, urls, podContexts'[p])
  <1>5. urls \in Nat /\ urls > 0 /\ urls \in Int
    BY <1>2, ProberAssumption
  <1>6. pod \in PodStates
    BY <1>4, <1>5, PodStateType
  <1>7. /\ pod.made /\ pod.pendingCount = urls /\ pod.queued = urls /\ pod.passed = 0
        /\ pod.at = "wait" /\ ~pod.cancelled
    BY DEF PodState
  <1>8. /\ sessions' = SetPod(n, p, pod)
        /\ call' = [call EXCEPT !.left = @ \ {p}]
        /\ UNCHANGED <<cluster, ingress, ingressStates, cancelled>>
    BY <1>1 DEF ProbePod
  <1> HIDE DEF pod
  <1>9. PodInv(sessions[n], p, pod)
    BY <1>5, <1>7 DEF PodInv
  <1>10. ~pod.made \/ pod.pendingCount > 0
           <=> ~sessions[n].pod[p].made \/ sessions[n].pod[p].pendingCount > 0
    BY <1>2, <1>5, <1>7
  <1>11. /\ sessions' \in Seq(AnySession)
         /\ DOMAIN sessions' = DOMAIN sessions
         /\ Len(sessions') = Len(sessions)
         /\ \A m \in DOMAIN sessions :
               /\ sessions'[m].pods = sessions[m].pods
               /\ sessions'[m].hash = sessions[m].hash
               /\ sessions'[m].calls = sessions[m].calls
               /\ sessions'[m].cancelled = sessions[m].cancelled
               /\ Uncounted(m)' = Uncounted(m)
         /\ \A m \in DOMAIN sessions : \A q \in sessions[m].pods :
               m # n \/ q # p => sessions'[m].pod[q] = sessions[m].pod[q]
         /\ CountsExact'
         /\ PodsInv'
    BY <1>2, <1>6, <1>8, <1>9, <1>10, SetPodPreserves
  <1>12. /\ call' \in [at : {"idle", "list", "pods"}, hash : Hash \cup {0}, left : SUBSET Pod]
         /\ call'.at = call.at /\ call'.hash = call.hash /\ call'.left = call.left \ {p}
    BY <1>8 DEF ProberTypeOK
  <1>13. ProberTypeOK'
    BY <1>2, <1>4, <1>8, <1>11, <1>12 DEF ProberTypeOK, cluster, ingress
  <1>14. CallInv'
    <2>1. Current' = n /\ Len(sessions') > 0
      BY <1>1, <1>2, <1>11 DEF Current, CallInv
    <2>2. /\ call.left \subseteq sessions[n].pods /\ call.hash = sessions[n].hash
          /\ \A q \in call.left : ~sessions[n].pod[q].made
      BY <1>1, <1>2 DEF CallInv
    <2>3. \A q \in call'.left : ~sessions'[n].pod[q].made
      BY <1>2, <1>11, <1>12, <2>2
    <2>4. ingressStates' = 0
      BY <1>2, <1>8
    <2> QED
      BY <1>2, <1>11, <1>12, <2>1, <2>2, <2>3, <2>4 DEF CallInv
  <1>15. OneSession'
    BY <1>8, <1>11, <1>12 DEF OneSession, Current
  <1> QED
    BY <1>11, <1>13, <1>14, <1>15 DEF Unseen

-----------------------------------------------------------------------------
(* The specification. *)

(* Every step preserves the invariant, and is one of Countdown: a probing  *)
(* begins, a pod of one is finished, or there is nothing to see.           *)
LEMMA NextPreserves ==
  ASSUME ProberInv, [Next]_vars
  PROVE  ProberInv' /\ (Unseen \/ Finished \/ Begun)
  <1>1. CASE Environment \/ Informers
    BY <1>1, EnvironmentPreserves, CancelPodProbingPreserves DEF Informers
  <1>2. CASE Reconciler
    BY <1>2, CancelPreserves, AnswerPreserves, ListProbeTargetsPreserves, ProbePodPreserves
       DEF Reconciler
  <1>3. ASSUME NEW n \in DOMAIN sessions, NEW p \in sessions[n].pods,
               Worker(n, p) \/ ProbeAbandoned(n, p) \/ Canceller(n, p)
        PROVE  ProberInv' /\ (Unseen \/ Finished)
    BY <1>3, PassesPreserves, CountProbePreserves, JoinContextsPreserves, LoadPendingPreserves,
       SwapPendingPreserves DEF Worker, ProbeAnswered, ProbeAbandoned, Canceller
  <1>4. CASE UNCHANGED vars
    BY <1>4, OutsidePreserves DEF ProberInv, ProberTypeOK, vars, cluster, ingress
  <1> QED
    BY <1>1, <1>2, <1>3, <1>4 DEF Next

(* The inductive invariant holds in every state of the prober. *)
THEOREM ProberInvariant == Spec => []ProberInv
  <1>1. ProberInv /\ [Next]_vars => ProberInv'
    BY NextPreserves
  <1> QED
    BY InitInv, <1>1, PTL DEF Spec

(* The counter of every session is the number of pods that are not         *)
(* finished, and it has called back once if that is 0: for any number of   *)
(* pods, URLs, versions and changes, whatever the order of the atomic      *)
(* operations of workers, cancellers and the reconciler.                   *)
THEOREM CountsCorrect == Spec => []CountsExact
  <1>1. ProberInv => CountsExact
    BY DEF ProberInv
  <1> QED
    BY ProberInvariant, <1>1, PTL

(* No two versions of the ingress are probed at the same time.             *)
THEOREM OneSessionOnly == Spec => []OneSession
  <1>1. ProberInv => OneSession
    BY DEF ProberInv
  <1> QED
    BY ProberInvariant, <1>1, PTL

(* Readiness has a reason for each pod: answers for all of its URLs, its   *)
(* IP given up, or the version given up.                                   *)
THEOREM ReadinessJustified == Spec => []ReadyJustified
  <1>1. ASSUME ProberInv PROVE ReadyJustified
    <2> SUFFICES ASSUME NEW n \in DOMAIN sessions, sessions[n].pendingCount = 0,
                        NEW p \in sessions[n].pods,
                        ~Excused(sessions[n], p, sessions[n].pod[p])
                 PROVE  sessions[n].pod[p].queued = 0
      BY DEF ReadyJustified, Excused
    <2>1. Uncounted(n) = {}
      <3>1. IsFiniteSet(Uncounted(n)) /\ Cardinality(Uncounted(n)) = 0
        BY <1>1, UncountedFinite DEF ProberInv, CountsExact
      <3> QED
        BY <3>1, FS_EmptySet
    <2>2. sessions[n].pod[p].made /\ ~(sessions[n].pod[p].pendingCount > 0)
      BY <2>1 DEF Uncounted
    <2>3. sessions[n].pod[p] \in PodStates /\ PodInv(sessions[n], p, sessions[n].pod[p])
      BY <1>1, PodFacts
    <2> QED
      BY <2>2, <2>3 DEF PodInv, PodStates
  <1> QED
    BY ProberInvariant, <1>1, PTL

-----------------------------------------------------------------------------
(* The refinement. *)

(* What the prober shows of itself to Countdown. *)
Waiting == [n \in DOMAIN sessions |-> Uncounted(n)]
Calls   == [n \in DOMAIN sessions |-> sessions[n].calls]

LEMMA UnseenStutters ==
  ASSUME Unseen
  PROVE  UNCHANGED <<Waiting, Calls>>
  BY DEF Unseen, Waiting, Calls

LEMMA BegunBegins ==
  ASSUME Begun
  PROVE  \E pods \in SUBSET Pod : Probings!Begin(pods)
  <1>1. PICK k \in Nat, pods \in SUBSET Pod : k = Len(sessions) /\ pods = endpoints
    BY DEF Begun
  <1>2. /\ DOMAIN sessions = 1 .. k /\ DOMAIN sessions' = 1 .. k + 1 /\ pods # {}
        /\ Uncounted(k + 1)' = pods /\ sessions'[k + 1].calls = 0
        /\ \A m \in 1 .. k :
              Uncounted(m)' = Uncounted(m) /\ sessions'[m].calls = sessions[m].calls
    BY <1>1 DEF Begun
  <1>3. Waiting' = Append(Waiting, pods)
    BY <1>1, <1>2 DEF Waiting
  <1>4. Calls' = Append(Calls, 0)
    BY <1>1, <1>2 DEF Calls
  <1>5. Probings!Begin(pods)
    BY <1>2, <1>3, <1>4 DEF Probings!Begin, Waiting, Calls
  <1> QED
    BY <1>5

LEMMA FinishedFinishes ==
  ASSUME ProberInv, Finished
  PROVE  \E n \in DOMAIN Waiting, p \in Pod : Probings!Finish(n, p)
  <1>1. PICK n \in DOMAIN sessions : \E p \in Uncounted(n) :
            /\ DOMAIN sessions' = DOMAIN sessions
            /\ Uncounted(n)' = Uncounted(n) \ {p}
            /\ sessions'[n].calls = IF Uncounted(n) = {p} THEN sessions[n].calls + 1
                                    ELSE sessions[n].calls
            /\ \A m \in DOMAIN sessions \ {n} :
                  Uncounted(m)' = Uncounted(m) /\ sessions'[m].calls = sessions[m].calls
    BY DEF Finished
  <1>2. PICK p \in Uncounted(n) :
            /\ DOMAIN sessions' = DOMAIN sessions
            /\ Uncounted(n)' = Uncounted(n) \ {p}
            /\ sessions'[n].calls = IF Uncounted(n) = {p} THEN sessions[n].calls + 1
                                    ELSE sessions[n].calls
            /\ \A m \in DOMAIN sessions \ {n} :
                  Uncounted(m)' = Uncounted(m) /\ sessions'[m].calls = sessions[m].calls
    BY <1>1
  <1>3. p \in Pod /\ n \in DOMAIN Waiting
    <2>1. sessions[n] \in AnySession
      BY DEF ProberInv, ProberTypeOK
    <2> QED
      BY <2>1, SessionType DEF Uncounted, Waiting
  <1>4. Waiting[n] = Uncounted(n)
    BY DEF Waiting
  <1>5. Waiting' = [Waiting EXCEPT ![n] = @ \ {p}]
    BY <1>2 DEF Waiting
  <1>6. Calls' = IF Waiting[n] = {p} THEN [Calls EXCEPT ![n] = @ + 1] ELSE Calls
    BY <1>2, <1>4 DEF Calls
  <1>7. Probings!Finish(n, p)
    BY <1>4, <1>5, <1>6 DEF Probings!Finish, Waiting, Calls
  <1> QED
    BY <1>3, <1>7

(* The prober implements Countdown: every probing waits for its pods, each *)
(* of them is finished once, and with the last one the reconciler is       *)
(* called back, once and not before.                                       *)
THEOREM ProberCountsDown == Spec => CountsDown
  <1>1. Init => Probings!Init
    BY DEF Init, Probings!Init
  <1>2. ProberInv /\ [Next]_vars => [Probings!Next]_(Probings!vars)
    <2> SUFFICES ASSUME ProberInv, [Next]_vars
                 PROVE  [Probings!Next]_(Probings!vars)
      OBVIOUS
    <2>1. CASE Unseen
      BY <2>1, UnseenStutters DEF Probings!vars, Waiting, Calls
    <2>2. CASE Begun
      BY <2>2, BegunBegins DEF Probings!Next
    <2>3. CASE Finished
      BY <2>3, FinishedFinishes DEF Probings!Next, Waiting
    <2> QED
      BY <2>1, <2>2, <2>3, NextPreserves
  <1> QED
    BY ProberInvariant, <1>1, <1>2, PTL DEF Spec, CountsDown, Probings!Spec

=============================================================================
