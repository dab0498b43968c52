---------------------------- MODULE DeliveryProofs ----------------------------
(***************************************************************************)
(* Machine-checked proofs about Delivery, for every set of services and    *)
(* every number of snapshots, rejections, broken streams and restarts.     *)
(***************************************************************************)
EXTENDS Delivery, Integers, FiniteSetTheorems, TLAPS

(* The names of route configurations. *)
Names == {"regions", "internal_tls"}

(* Routes: for some of the names, the cluster they lead to. *)
RouteTables == UNION {[names -> Cluster] : names \in SUBSET Names}

Errors == [kind : {"none", "other", "unknown_cluster"}, cluster : Cluster \cup {Nil}]

Requests ==
    [type : Types, version : Nat, nonce : 0 .. 2, names : SUBSET Names, error : Errors]

(* The responses of a type with such resources. *)
ResponsesOf(t, resources) ==
    [type : {t}, version : Nat, nonce : 0 .. 2, names : SUBSET Names, resources : resources]

Responses ==
    ResponsesOf("cds", SUBSET Cluster) \cup ResponsesOf("lds", Certificates)
        \cup ResponsesOf("rds", RouteTables)

Watches == [nonce : 0 .. 2, open : Requests \cup {Nil}, response : Responses \cup {Nil}]

Snapshots ==
    [version : Nat, route : Cluster, clusters : SUBSET Cluster, certificate : Certificates]

Gateways ==
    [versions : [Types -> Nat], nonces : [Types -> 0 .. 2], clusters : SUBSET Cluster,
     names : SUBSET Names, routes : RouteTables]

(* What the variables hold. *)
DeliveryTypeOK ==
    /\ configured \in Certificates
    /\ snapshot \in Snapshots
    /\ watch \in UNION {[types -> Watches] : types \in SUBSET Types}
    /\ last \in [Types -> [nonce : 0 .. 2, names : SUBSET Names]]
    /\ requests \in Seq(Requests)
    /\ responses \in Seq(Responses)
    /\ connected \in BOOLEAN
    /\ gateway \in Gateways
    /\ resync \in BOOLEAN

(* The responses and the requests of a type that are on their way. *)
Sent(t)  == {k \in DOMAIN responses : responses[k].type = t}
Asked(t) == {k \in DOMAIN requests : requests[k].type = t}

(* The server waits for the answer to a response of this type. *)
Awaiting(t) == t \in DOMAIN watch /\ watch[t].nonce # 0

(* Nothing is sent, and gateway and server agree on the nonce: every       *)
(* request will be taken.                                                  *)
AgreeInv(t) ==
    /\ Sent(t) = {}
    /\ connected => gateway.nonces[t] = last[t].nonce
    /\ \A k \in Asked(t) : requests[k].nonce = last[t].nonce

(* A response is sent, and nothing on its way answers it; or it has been   *)
(* received, and requests of before come first.                            *)
AwaitInv(t) ==
    /\ last[t].nonce # 0
    /\ watch[t].nonce = last[t].nonce /\ watch[t].open = Nil /\ watch[t].response = Nil
    /\ \A j, k \in Sent(t) : j = k
    /\ \A k \in Sent(t) : responses[k].nonce = last[t].nonce
    /\ IF Sent(t) # {}
       THEN /\ gateway.nonces[t] # last[t].nonce
            /\ \A k \in Asked(t) : requests[k].nonce # last[t].nonce
       ELSE /\ gateway.nonces[t] = last[t].nonce
            /\ \A j, k \in Asked(t) : j < k /\ requests[j].nonce = last[t].nonce
                  => requests[k].nonce = last[t].nonce

TypeInv(t) ==
    /\ Awaiting(t) => AwaitInv(t)
    /\ ~Awaiting(t) => AgreeInv(t)
    /\ t \in DOMAIN watch => connected
    /\ t \in DOMAIN watch /\ watch[t].response # Nil => watch[t].response.type = t
    /\ t \in DOMAIN watch /\ watch[t].open # Nil => watch[t].open.type = t

(* Only a stream carries requests. *)
StreamInv ==
    /\ \A t \in Types : TypeInv(t)
    /\ requests # <<>> => connected

(* The clusters of a response that is in its channel or on its way. *)
PendingClusters ==
    {responses[k].resources : k \in Sent("cds")}
        \cup {watch[t].response.resources :
                 t \in {u \in DOMAIN watch : u = "cds" /\ watch[u].response # Nil}}

(* Where routes lead, now or soon, is in the snapshot; what the gateway    *)
(* has and a pending response takes away is out of use; else it is hasty.  *)
ClustersInv ==
    /\ snapshot.route \in snapshot.clusters
    /\ RoutedTo \subseteq snapshot.clusters \cup hasty
    /\ \A clusters \in PendingClusters :
          gateway.clusters \cap (snapshot.clusters \cup RoutedTo) \subseteq clusters \cup hasty
    /\ RoutesBacked

(* The inductive invariant. *)
DeliveryInv == DeliveryTypeOK /\ StreamInv /\ ClustersInv

-----------------------------------------------------------------------------
(* The operators of the snapshot cache and of the gateway. *)

(* The watches that there are, are of the types and have the form of one. *)
LEMMA WatchType ==
  ASSUME DeliveryTypeOK
  PROVE  /\ DOMAIN watch \in SUBSET Types
         /\ watch \in [DOMAIN watch -> Watches]
         /\ \A t \in DOMAIN watch : watch[t] \in Watches
  <1>1. PICK types \in SUBSET Types : watch \in [types -> Watches]
    BY DEF DeliveryTypeOK
  <1> QED
    BY <1>1

LEMMA RouteNamesType ==
  ASSUME NEW s
  PROVE  RouteNames(s) \in SUBSET Names
  BY DEF RouteNames, Names

(* A request names its type and carries the nonce of the gateway. *)
LEMMA RequestType ==
  \A g \in Gateways, t \in Types, error \in Errors :
      /\ Request(g, t, error) \in Requests
      /\ Request(g, t, error).type = t
      /\ Request(g, t, error).nonce = g.nonces[t]
  <1> SUFFICES ASSUME NEW g \in Gateways, NEW t \in Types, NEW error \in Errors
               PROVE  /\ Request(g, t, error) \in Requests
                      /\ Request(g, t, error).type = t
                      /\ Request(g, t, error).nonce = g.nonces[t]
    OBVIOUS
  <1>1. g.versions[t] \in Nat /\ g.nonces[t] \in 0 .. 2 /\ g.names \in SUBSET Names
    BY DEF Gateways
  <1>2. (IF t = "rds" THEN g.names ELSE {}) \in SUBSET Names
    BY <1>1
  <1> QED
    BY <1>1, <1>2 DEF Request, Requests

(* An answer, unless it is withheld, is of the type of the request: it has *)
(* the clusters of the snapshot, or routes to the cluster of the snapshot. *)
LEMMA RespondType ==
  ASSUME NEW s \in Snapshots, NEW request \in Requests,
         Respond(s, request) # Nil
  PROVE  /\ Respond(s, request) \in Responses
         /\ Respond(s, request).type = request.type
         /\ request.type = "cds" => Respond(s, request).resources = s.clusters
         /\ request.type = "rds" =>
               \A n \in DOMAIN Respond(s, request).resources :
                   Respond(s, request).resources[n] = s.route
  <1> DEFINE r == Respond(s, request)
  <1>1. r = [type |-> request.type, version |-> s.version, nonce |-> 0, names |-> request.names,
             resources |-> Resources(s, request)]
    BY DEF Respond
  <1>2. request.type \in Types /\ request.names \in SUBSET Names /\ s.version \in Nat
        /\ 0 \in 0 .. 2
    BY DEF Requests, Snapshots
  <1>3. r.type = request.type /\ r.resources = Resources(s, request)
    BY <1>1
  <1>4. CASE request.type = "cds"
    <2>1. Resources(s, request) = s.clusters
      BY <1>4 DEF Resources
    <2>2. s.clusters \in SUBSET Cluster
      BY DEF Snapshots
    <2>3. r \in ResponsesOf("cds", SUBSET Cluster)
      BY <1>1, <1>2, <1>4, <2>1, <2>2 DEF ResponsesOf
    <2> QED
      BY <1>3, <1>4, <2>1, <2>3 DEF Responses
  <1>5. CASE request.type = "lds"
    <2>1. Resources(s, request) \in Certificates
      BY <1>5 DEF Resources, Snapshots
    <2>2. r \in ResponsesOf("lds", Certificates)
      BY <1>1, <1>2, <1>5, <2>1 DEF ResponsesOf
    <2> QED
      BY <1>3, <1>5, <2>2 DEF Responses
  <1>6. CASE request.type = "rds"
    <2> DEFINE names == RouteNames(s) \cap request.names
    <2>1. Resources(s, request) = [n \in names |-> s.route]
      BY <1>6 DEF Resources
    <2>2. s.route \in Cluster /\ names \in SUBSET Names
      BY <1>2 DEF Snapshots
    <2> HIDE DEF names
    <2>3. [n \in names |-> s.route] \in RouteTables
      BY <2>2 DEF RouteTables
    <2>4. r \in ResponsesOf("rds", RouteTables)
      BY <1>1, <1>2, <1>6, <2>1, <2>3 DEF ResponsesOf
    <2>5. \A n \in DOMAIN r.resources : r.resources[n] = s.route
      BY <1>3, <2>1
    <2> QED
      BY <1>3, <1>6, <2>4, <2>5 DEF Responses
  <1> QED
    BY <1>2, <1>4, <1>5, <1>6 DEF Types

(* The watch of a request waits with the request, or has its answer. *)
LEMMA CreateWatchType ==
  ASSUME snapshot \in Snapshots, NEW request \in Requests, NEW names
  PROVE  /\ CreateWatch(request, names) \in Watches
         /\ CreateWatch(request, names).nonce = 0
         /\ CreateWatch(request, names).open \in {request, Nil}
         /\ CreateWatch(request, names).response \in {Respond(snapshot, request), Nil}
  <1>1. /\ CreateWatch(request, names).nonce = 0
        /\ CreateWatch(request, names).open \in {request, Nil}
        /\ CreateWatch(request, names).response \in {Respond(snapshot, request), Nil}
    BY DEF CreateWatch, Silent
  <1>2. CreateWatch(request, names) =
           [nonce |-> 0, open |-> CreateWatch(request, names).open,
            response |-> CreateWatch(request, names).response]
    BY DEF CreateWatch, Silent
  <1>3. CreateWatch(request, names).response \in Responses \cup {Nil}
    BY <1>1, RespondType
  <1> QED
    BY <1>1, <1>2, <1>3 DEF Watches

(* A response has one of the types, and resources to match. *)
LEMMA ResponseType ==
  ASSUME NEW r \in Responses
  PROVE  /\ r.type \in Types /\ r.version \in Nat /\ r.nonce \in 0 .. 2
         /\ r.names \in SUBSET Names
         /\ r.type = "cds" => r.resources \in SUBSET Cluster
         /\ r.type = "lds" => r.resources \in Certificates
         /\ r.type = "rds" => r.resources \in RouteTables
         /\ \A n \in 0 .. 2 :
               /\ [r EXCEPT !.nonce = n] \in Responses
               /\ [r EXCEPT !.nonce = n].type = r.type
               /\ [r EXCEPT !.nonce = n].nonce = n
               /\ [r EXCEPT !.nonce = n].resources = r.resources
  BY DEF Responses, ResponsesOf, Types

(* What a gateway is that has taken over the version of a response. *)
LEMMA ReceivedType ==
  ASSUME NEW g \in Gateways, NEW r \in Responses
  PROVE  /\ Received(g, r) \in Gateways
         /\ Received(g, r).nonces = [g.nonces EXCEPT ![r.type] = r.nonce]
         /\ Received(g, r).clusters = g.clusters
         /\ Received(g, r).names = g.names
         /\ Received(g, r).routes = g.routes
  <1>1. r.type \in Types /\ r.version \in Nat /\ r.nonce \in 0 .. 2
    BY ResponseType
  <1>2. [g.nonces EXCEPT ![r.type] = r.nonce] \in [Types -> 0 .. 2]
        /\ [g.versions EXCEPT ![r.type] = r.version] \in [Types -> Nat]
    BY <1>1 DEF Gateways
  <1> QED
    BY <1>2 DEF Received, Gateways

-----------------------------------------------------------------------------
(* The nonces. *)

(* A snapshot is set: watches are answered or left alone, and none that    *)
(* awaits an answer is touched.                                            *)
LEMMA SetSnapshotPreserves ==
  ASSUME DeliveryTypeOK, StreamInv, NEW s \in Snapshots, SetSnapshot(s),
         UNCHANGED <<last, requests, responses, connected, gateway>>
  PROVE  /\ snapshot' \in Snapshots
         /\ watch' \in UNION {[types -> Watches] : types \in SUBSET Types}
         /\ DOMAIN watch' = DOMAIN watch
         /\ \A t \in DOMAIN watch :
               \/ watch'[t] = watch[t]
               \/ /\ watch[t].open # Nil /\ watch[t].open \in Requests
                  /\ watch[t].open.type = t
                  /\ watch'[t].response = Respond(s, watch[t].open)
         /\ StreamInv'
  <1>0. /\ DOMAIN watch \in SUBSET Types /\ \A t \in DOMAIN watch : watch[t] \in Watches
    BY WatchType
  <1>1. DOMAIN watch' = DOMAIN watch
    BY DEF SetSnapshot
  <1>2. \A t \in DOMAIN watch :
           \/ watch'[t] = watch[t]
           \/ /\ watch[t].open # Nil /\ watch[t].open \in Requests
              /\ watch'[t] = Responded(watch[t], s)
    BY <1>0 DEF SetSnapshot, Watches
  <1>3. \A t \in DOMAIN watch : watch[t].open # Nil => watch[t].open.type = t
    BY <1>0 DEF StreamInv, TypeInv
  <1>4. ASSUME NEW t \in DOMAIN watch, watch[t].open # Nil, watch[t].open \in Requests,
               watch'[t] = Responded(watch[t], s)
        PROVE  /\ watch'[t] \in Watches
               /\ watch'[t].nonce = watch[t].nonce
               /\ watch'[t].open = Nil
               /\ watch'[t].response = Respond(s, watch[t].open)
               /\ watch'[t].response # Nil => watch'[t].response.type = t
    <2> DEFINE answer == Respond(s, watch[t].open)
    <2>1. answer # Nil => answer \in Responses /\ answer.type = t
      BY <1>3, <1>4, RespondType
    <2>2. watch'[t] = [watch[t] EXCEPT !.open = Nil, !.response = answer]
      BY <1>4 DEF Responded
    <2>3. watch[t] \in Watches
      BY <1>0
    <2> HIDE DEF answer
    <2>4. /\ watch'[t].nonce = watch[t].nonce /\ watch'[t].open = Nil
          /\ watch'[t].response = answer
      BY <2>2, <2>3 DEF Watches
    <2>5. watch'[t] \in Watches
      BY <2>1, <2>2, <2>3 DEF Watches
    <2> QED
      BY <2>1, <2>4, <2>5 DEF answer
  <1>5. \A t \in DOMAIN watch :
           /\ watch'[t] \in Watches
           /\ watch'[t].nonce = watch[t].nonce
           /\ watch'[t] = watch[t] \/ (watch[t].open # Nil /\ watch'[t].open = Nil)
           /\ watch'[t].response # Nil => watch'[t].response.type = t
    BY <1>0, <1>2, <1>4 DEF StreamInv, TypeInv
  <1>6. watch' \in UNION {[types -> Watches] : types \in SUBSET Types}
    <2>1. watch' = [t \in DOMAIN watch |-> watch'[t]]
      BY DEF SetSnapshot
    <2>2. watch' \in [DOMAIN watch -> Watches]
      BY <1>5, <2>1
    <2> QED
      BY <1>0, <2>2
  <1>7. StreamInv'
    <2> SUFFICES ASSUME NEW t \in Types PROVE TypeInv(t)'
      BY DEF StreamInv
    <2>0. TypeInv(t)
      BY DEF StreamInv
    <2>1. Sent(t)' = Sent(t) /\ Asked(t)' = Asked(t)
      BY DEF Sent, Asked
    <2>2. Awaiting(t)' <=> Awaiting(t)
      BY <1>1, <1>5 DEF Awaiting
    <2>3. AgreeInv(t) => AgreeInv(t)'
      BY <2>1 DEF AgreeInv
    <2>4. Awaiting(t) => watch'[t] = watch[t]
      BY <1>5, <2>0 DEF TypeInv, AwaitInv, Awaiting
    <2>5. Awaiting(t) => AwaitInv(t)'
      BY <2>0, <2>1, <2>4 DEF TypeInv, AwaitInv
    <2>6. /\ t \in DOMAIN watch' => connected'
          /\ t \in DOMAIN watch' /\ watch'[t].response # Nil => watch'[t].response.type = t
          /\ t \in DOMAIN watch' /\ watch'[t].open # Nil => watch'[t].open.type = t
      BY <1>1, <1>5, <2>0 DEF TypeInv
    <2> QED
      BY <2>0, <2>2, <2>3, <2>5, <2>6 DEF TypeInv
  <1> QED
    BY <1>1, <1>2, <1>3, <1>4, <1>6, <1>7 DEF SetSnapshot

(* A new stream, or none: it begins with no nonce on either side.          *)
LEMMA NewStreamPreserves ==
  ASSUME DeliveryTypeOK, NewStream, connected' \in BOOLEAN,
         requests' \in Seq(Requests), gateway' \in Gateways,
         \A t \in Types : connected' => gateway'.nonces[t] = 0,
         \A k \in DOMAIN requests' : requests'[k].nonce = 0,
         requests' # <<>> => connected'
  PROVE  /\ watch' \in UNION {[types -> Watches] : types \in SUBSET Types}
         /\ last' \in [Types -> [nonce : 0 .. 2, names : SUBSET Names]]
         /\ responses' \in Seq(Responses)
         /\ StreamInv'
  <1>1. DOMAIN watch' = {} /\ watch' \in [{} -> Watches]
    BY DEF NewStream
  <1>2. watch' \in UNION {[types -> Watches] : types \in SUBSET Types}
    BY <1>1
  <1>3. \A t \in Types : last'[t].nonce = 0
    BY DEF NewStream
  <1>4. [nonce |-> 0, names |-> {}] \in [nonce : 0 .. 2, names : SUBSET Names]
    OBVIOUS
  <1>5. last' \in [Types -> [nonce : 0 .. 2, names : SUBSET Names]]
    BY <1>4 DEF NewStream
  <1>6. responses' \in Seq(Responses) /\ DOMAIN responses' = {}
    BY DEF NewStream
  <1>7. StreamInv'
    <2> SUFFICES ASSUME NEW t \in Types PROVE TypeInv(t)'
      BY DEF StreamInv
    <2>1. ~Awaiting(t)' /\ Sent(t)' = {}
      BY <1>1, <1>6 DEF Awaiting, Sent
    <2>2. AgreeInv(t)'
      BY <1>3, <2>1 DEF AgreeInv, Asked
    <2> QED
      BY <1>1, <2>1, <2>2 DEF TypeInv
  <1> QED
    BY <1>2, <1>5, <1>6, <1>7

(* The server takes a request, or drops one that is late.  When it takes   *)
(* the answer it has awaited, all requests behind it carry that nonce too. *)
LEMMA ReceiveRequestPreserves ==
  ASSUME DeliveryTypeOK, StreamInv, ReceiveRequest
  PROVE  /\ requests' \in Seq(Requests)
         /\ watch' \in UNION {[types -> Watches] : types \in SUBSET Types}
         /\ resync' \in BOOLEAN
         /\ \E t \in Types : \E request \in Requests :
               /\ request.type = t
               /\ \A u \in DOMAIN watch' : u # t => u \in DOMAIN watch /\ watch'[u] = watch[u]
               /\ t \in DOMAIN watch' /\ watch'[t].response # Nil =>
                     \/ watch'[t].response = Respond(snapshot, request)
                     \/ t \in DOMAIN watch /\ watch'[t] = watch[t]
         /\ StreamInv'
  <1> DEFINE request == Head(requests)
             t == request.type
             names == IF t = "rds" /\ last[t].nonce = request.nonce THEN last[t].names ELSE known
             w == CreateWatch(request, names)
  <1>0. requests \in Seq(Requests) /\ requests # <<>> /\ snapshot \in Snapshots /\ resync \in BOOLEAN
    BY DEF DeliveryTypeOK, ReceiveRequest
  <1>1. /\ Len(requests) \in Nat /\ Len(requests) > 0 /\ DOMAIN requests = 1 .. Len(requests)
        /\ request = requests[1] /\ 1 \in DOMAIN requests /\ request \in Requests
        /\ requests' = Tail(requests)
    BY <1>0 DEF ReceiveRequest
  <1>2. /\ requests' \in Seq(Requests)
        /\ DOMAIN requests' = 1 .. Len(requests) - 1
        /\ \A k \in DOMAIN requests' : k + 1 \in DOMAIN requests /\ requests'[k] = requests[k + 1]
    BY <1>0, <1>1
  <1>3. t \in Types
    BY <1>1 DEF Requests
  <1>4. /\ w \in Watches /\ w.nonce = 0 /\ w.open \in {request, Nil}
        /\ w.response \in {Respond(snapshot, request), Nil}
        /\ w.open # Nil => w.open.type = t
        /\ w.response # Nil => w.response.type = t
    BY <1>0, <1>1, CreateWatchType, RespondType
  <1>5. /\ watch' = IF UpToDate(t, request) THEN Updated(watch, [u \in {t} |-> w]) ELSE watch
        /\ UNCHANGED <<snapshot, last, responses, connected, gateway>>
        /\ resync' \in BOOLEAN
    BY <1>0 DEF ReceiveRequest
  <1> HIDE DEF w, request
  <1>6. DOMAIN watch \in SUBSET Types /\ \A u \in DOMAIN watch : watch[u] \in Watches
    BY WatchType
  <1>7. CASE UpToDate(t, request)
    <2>1. /\ DOMAIN watch' = DOMAIN watch \cup {t} /\ watch'[t] = w
          /\ \A u \in DOMAIN watch : u # t => watch'[u] = watch[u]
      BY <1>5, <1>7 DEF Updated
    <2>2. watch' \in [DOMAIN watch' -> Watches]
      <3>1. watch' = [u \in DOMAIN watch' |-> watch'[u]]
        BY <1>5, <1>7 DEF Updated
      <3> QED
        BY <1>4, <1>6, <2>1, <3>1
    <2>3. watch' \in UNION {[types -> Watches] : types \in SUBSET Types}
      BY <1>3, <1>6, <2>1, <2>2
    <2>4. ASSUME NEW u \in Types PROVE TypeInv(u)'
      <3>0. TypeInv(u) /\ TypeInv(t)
        BY <1>3 DEF StreamInv
      <3>1. Sent(u)' = Sent(u)
        BY <1>5 DEF Sent
      <3>2. \A k \in Asked(u)' : k + 1 \in Asked(u) /\ requests'[k].nonce = requests[k + 1].nonce
        BY <1>2 DEF Asked
      <3>3. CASE u = t
        <4>1. 1 \in Asked(t)
          BY <1>1 DEF Asked
        <4>2. /\ Sent(t) = {}
              /\ gateway.nonces[t] = last[t].nonce \/ ~connected
              /\ \A k \in Asked(t) : k > 1 => requests[k].nonce = last[t].nonce
          <5>1. CASE ~Awaiting(t)
            BY <3>0, <5>1 DEF TypeInv, AgreeInv
          <5>2. CASE Awaiting(t)
            <6>1. AwaitInv(t) /\ request.nonce = last[t].nonce
              BY <1>7, <3>0, <5>2 DEF TypeInv, AwaitInv, UpToDate, Awaiting
            <6>2. Sent(t) = {}
              BY <1>1, <4>1, <6>1 DEF AwaitInv
            <6>3. Asked(t) \subseteq DOMAIN requests
              BY DEF Asked
            <6> QED
              BY <1>1, <4>1, <6>1, <6>2, <6>3 DEF AwaitInv
          <5> QED
            BY <5>1, <5>2
        <4>3. \A k \in Asked(u)' : k + 1 > 1
          BY <1>1, <1>2 DEF Asked
        <4>4. AgreeInv(u)'
          BY <1>5, <3>1, <3>2, <3>3, <4>2, <4>3 DEF AgreeInv
        <4>5. ~Awaiting(u)'
          BY <1>4, <2>1, <3>3 DEF Awaiting
        <4>6. connected
          <5>1. CASE t \in DOMAIN watch
            BY <3>0, <5>1 DEF TypeInv
          <5>2. CASE t \notin DOMAIN watch
            BY <1>0 DEF StreamInv
          <5> QED
            BY <5>1, <5>2
        <4> QED
          BY <1>4, <1>5, <2>1, <3>3, <4>4, <4>5, <4>6 DEF TypeInv
      <3>4. CASE u # t
        <4>1. u \in DOMAIN watch' <=> u \in DOMAIN watch
          BY <2>1, <3>4
        <4>2. u \in DOMAIN watch => watch'[u] = watch[u]
          BY <2>1, <3>4
        <4>3. Awaiting(u)' <=> Awaiting(u)
          BY <4>1, <4>2 DEF Awaiting
        <4>4. AgreeInv(u) => AgreeInv(u)'
          BY <1>5, <3>1, <3>2 DEF AgreeInv
        <4>5. Awaiting(u) => AwaitInv(u)'
          <5> SUFFICES ASSUME Awaiting(u) PROVE AwaitInv(u)'
            OBVIOUS
          <5>1. AwaitInv(u) /\ watch'[u] = watch[u]
            BY <3>0, <4>2 DEF TypeInv, Awaiting
          <5>2. \A k \in Asked(u)' : k \in Nat
            BY <1>1, <1>2 DEF Asked
          <5> QED
            BY <1>5, <3>1, <3>2, <5>1, <5>2 DEF AwaitInv
        <4> QED
          BY <1>5, <3>0, <4>1, <4>2, <4>3, <4>4, <4>5 DEF TypeInv
      <3> QED
        BY <3>3, <3>4
    <2> QED
      BY <1>1, <1>2, <1>3, <1>4, <1>5, <2>1, <2>3, <2>4 DEF StreamInv
  <1>8. CASE ~UpToDate(t, request)
    <2>1. watch' = watch
      BY <1>5, <1>8
    <2>2. ASSUME NEW u \in Types PROVE TypeInv(u)'
      <3>0. TypeInv(u)
        BY DEF StreamInv
      <3>1. Sent(u)' = Sent(u)
        BY <1>5 DEF Sent
      <3>2. \A k \in Asked(u)' : k + 1 \in Asked(u) /\ requests'[k].nonce = requests[k + 1].nonce
        BY <1>2 DEF Asked
      <3>3. Awaiting(u)' <=> Awaiting(u)
        BY <2>1 DEF Awaiting
      <3>4. AgreeInv(u) => AgreeInv(u)'
        BY <1>5, <3>1, <3>2 DEF AgreeInv
      <3>5. \A k \in Asked(u)' : k \in Nat
        BY <1>1, <1>2 DEF Asked
      <3>6. AwaitInv(u) => AwaitInv(u)'
        BY <1>5, <2>1, <3>1, <3>2, <3>5 DEF AwaitInv
      <3> QED
        BY <1>5, <2>1, <3>0, <3>3, <3>4, <3>6 DEF TypeInv
    <2> QED
      BY <1>1, <1>2, <1>3, <1>5, <2>1, <2>2 DEF StreamInv, DeliveryTypeOK
  <1> QED
    BY <1>7, <1>8

(* A response leaves its channel with a nonce that no request carries.     *)
LEMMA SendResponsePreserves ==
  ASSUME DeliveryTypeOK, StreamInv, NEW t \in Types, SendResponse(t)
  PROVE  /\ watch' \in UNION {[types -> Watches] : types \in SUBSET Types}
         /\ last' \in [Types -> [nonce : 0 .. 2, names : SUBSET Names]]
         /\ responses' \in Seq(Responses)
         /\ DOMAIN watch' = DOMAIN watch /\ t \in DOMAIN watch /\ watch[t].response # Nil
         /\ watch[t].response.type = t
         /\ watch'[t].response = Nil
         /\ \A u \in DOMAIN watch : u # t => watch'[u] = watch[u]
         /\ \A k \in DOMAIN responses' :
               \/ k \in DOMAIN responses /\ responses'[k] = responses[k]
               \/ /\ responses'[k].type = t
                  /\ responses'[k].resources = watch[t].response.resources
         /\ StreamInv'
  <1> DEFINE nonce == (last[t].nonce % 2) + 1
             r == watch[t].response
             sent == [r EXCEPT !.nonce = nonce]
             w == [Silent EXCEPT !.nonce = nonce]
             l == [nonce |-> nonce, names |-> r.names]
  <1>0. t \in DOMAIN watch /\ r # Nil /\ watch[t] \in Watches /\ watch \in [DOMAIN watch -> Watches]
        /\ DOMAIN watch \in SUBSET Types
    BY WatchType DEF SendResponse
  <1>1. r \in Responses /\ r.type = t
    BY <1>0 DEF Watches, StreamInv, TypeInv
  <1>2. last[t].nonce \in 0 .. 2 /\ nonce \in 1 .. 2 /\ nonce # last[t].nonce
    BY DEF DeliveryTypeOK
  <1>3. /\ responses' = Append(responses, sent)
        /\ last' = [last EXCEPT ![t] = l]
        /\ watch' = [watch EXCEPT ![t] = w]
        /\ UNCHANGED <<snapshot, requests, connected, gateway>>
    BY DEF SendResponse
  <1>4. sent \in Responses /\ sent.type = t /\ sent.nonce = nonce /\ sent.resources = r.resources
    <2>1. nonce \in 0 .. 2
      BY <1>2
    <2> HIDE DEF nonce, r
    <2> QED
      BY <1>1, <2>1, ResponseType
  <1>5. l \in [nonce : 0 .. 2, names : SUBSET Names] /\ l.nonce = nonce
    <2>1. nonce \in 0 .. 2
      BY <1>2
    <2> HIDE DEF nonce, r
    <2>2. r.names \in SUBSET Names
      BY <1>1, ResponseType
    <2> QED
      BY <2>1, <2>2
  <1>6. w \in Watches /\ w.nonce = nonce /\ w.open = Nil /\ w.response = Nil
    BY <1>2 DEF Silent, Watches
  <1> HIDE DEF sent, l, w, nonce
  <1>7. /\ DOMAIN watch' = DOMAIN watch /\ watch'[t] = w /\ watch' \in [DOMAIN watch -> Watches]
        /\ \A u \in DOMAIN watch : u # t => watch'[u] = watch[u]
    BY <1>0, <1>3, <1>6
  <1>8. /\ last' \in [Types -> [nonce : 0 .. 2, names : SUBSET Names]] /\ last'[t].nonce = nonce
        /\ \A u \in Types : u # t => last'[u] = last[u]
    BY <1>3, <1>5 DEF DeliveryTypeOK
  <1>9. responses \in Seq(Responses) /\ Len(responses) \in Nat
        /\ DOMAIN responses = 1 .. Len(responses)
    BY DEF DeliveryTypeOK
  <1>10. /\ responses' \in Seq(Responses) /\ DOMAIN responses' = 1 .. Len(responses) + 1
         /\ responses'[Len(responses) + 1] = sent
         /\ \A k \in DOMAIN responses : responses'[k] = responses[k]
         /\ \A k \in DOMAIN responses' : k \in DOMAIN responses \/ k = Len(responses) + 1
    BY <1>3, <1>4, <1>9
  <1>11. ASSUME NEW u \in Types PROVE TypeInv(u)'
    <2>0. TypeInv(u)
      BY DEF StreamInv
    <2>1. Asked(u)' = Asked(u)
      BY <1>3 DEF Asked
    <2>2. CASE u = t
      <3>1. ~Awaiting(t)
        BY <1>0, <2>0, <2>2 DEF TypeInv, AwaitInv
      <3>2. AgreeInv(t) /\ connected
        BY <1>0, <2>0, <2>2, <3>1 DEF TypeInv
      <3>3. \A k \in Sent(t)' : k = Len(responses) + 1
        BY <1>10, <3>2 DEF AgreeInv, Sent
      <3>4. Len(responses) + 1 \in Sent(t)'
        BY <1>4, <1>9, <1>10 DEF Sent
      <3>5. AwaitInv(t)'
        <4>1. /\ last'[t].nonce # 0 /\ watch'[t].nonce = last'[t].nonce
              /\ watch'[t].open = Nil /\ watch'[t].response = Nil
          BY <1>2, <1>6, <1>7, <1>8
        <4>2. \A k \in Sent(t)' : responses'[k].nonce = last'[t].nonce
          BY <1>4, <1>8, <1>10, <3>3
        <4>3. gateway'.nonces[t] # last'[t].nonce
          BY <1>2, <1>3, <1>8, <3>2 DEF AgreeInv
        <4>4. \A k \in Asked(t)' : requests'[k].nonce # last'[t].nonce
          BY <1>2, <1>3, <1>8, <2>1, <2>2, <3>2 DEF AgreeInv
        <4> QED
          BY <3>3, <3>4, <4>1, <4>2, <4>3, <4>4 DEF AwaitInv
      <3>6. Awaiting(t)'
        BY <1>0, <1>2, <1>6, <1>7 DEF Awaiting
      <3> QED
        BY <1>3, <1>6, <1>7, <2>2, <3>2, <3>5, <3>6 DEF TypeInv
    <2>3. CASE u # t
      <3>1. Sent(u)' = Sent(u)
        BY <1>4, <1>9, <1>10, <2>3 DEF Sent
      <3>2. /\ last'[u] = last[u] /\ (u \in DOMAIN watch => watch'[u] = watch[u])
            /\ \A k \in Sent(u) : responses'[k] = responses[k]
        BY <1>7, <1>8, <1>10, <2>3 DEF Sent
      <3>3. Awaiting(u)' <=> Awaiting(u)
        BY <1>7, <3>2 DEF Awaiting
      <3>4. AgreeInv(u) => AgreeInv(u)'
        BY <1>3, <2>1, <3>1, <3>2 DEF AgreeInv
      <3>5. Awaiting(u) /\ AwaitInv(u) => AwaitInv(u)'
        BY <1>3, <2>1, <3>1, <3>2 DEF AwaitInv, Awaiting
      <3> QED
        BY <1>3, <1>7, <2>0, <3>2, <3>3, <3>4, <3>5 DEF TypeInv
    <2> QED
      BY <2>2, <2>3
  <1>12. watch' \in UNION {[types -> Watches] : types \in SUBSET Types}
    BY <1>0, <1>7
  <1> QED
    BY <1>0, <1>1, <1>3, <1>4, <1>6, <1>7, <1>8, <1>10, <1>11, <1>12 DEF StreamInv

(* The gateway takes a response, whether it accepts it or not: the only    *)
(* one of its type.  It sends requests, each with the last nonce it has    *)
(* received of its type.                                                   *)
LEMMA TakePreserves ==
  ASSUME DeliveryTypeOK, StreamInv,
         responses # <<>>, responses' = Tail(responses),
         NEW t \in Types, Head(responses).type = t,
         gateway' \in Gateways,
         gateway'.nonces = [gateway.nonces EXCEPT ![t] = Head(responses).nonce],
         requests' \in Seq(Requests), Len(requests') >= Len(requests),
         \A k \in 1 .. Len(requests) : requests'[k] = requests[k],
         \A k \in Len(requests) + 1 .. Len(requests') :
             requests'[k].nonce = gateway'.nonces[requests'[k].type],
         UNCHANGED <<watch, last, connected>>
  PROVE  /\ responses' \in Seq(Responses)
         /\ Head(responses) = responses[1] /\ Head(responses) \in Responses
         /\ 1 \in Sent(t) /\ Sent(t)' = {} /\ Awaiting(t) /\ AwaitInv(t)
         /\ \A k \in DOMAIN responses' : k + 1 \in DOMAIN responses /\ responses'[k] = responses[k + 1]
         /\ StreamInv'
  <1> DEFINE r == Head(responses)
  <1>1. r.type = t
    OBVIOUS
  <1>2. /\ responses \in Seq(Responses) /\ Len(responses) \in Nat /\ Len(responses) > 0
        /\ DOMAIN responses = 1 .. Len(responses) /\ r = responses[1] /\ r \in Responses
    BY DEF DeliveryTypeOK
  <1>3. /\ responses' \in Seq(Responses) /\ DOMAIN responses' = 1 .. Len(responses) - 1
        /\ \A k \in DOMAIN responses' : k + 1 \in DOMAIN responses /\ responses'[k] = responses[k + 1]
    BY <1>2
  <1> HIDE DEF r
  <1>4. 1 \in Sent(t)
    BY <1>1, <1>2 DEF Sent
  <1>5. Awaiting(t) /\ AwaitInv(t) /\ connected
    BY <1>1, <1>4 DEF StreamInv, TypeInv, AgreeInv, Awaiting
  <1>6. \A k \in Sent(t) : k = 1
    BY <1>4, <1>5 DEF AwaitInv
  <1>7. Sent(t)' = {}
    BY <1>2, <1>3, <1>6 DEF Sent
  <1>8. r.nonce = last[t].nonce
    BY <1>2, <1>4, <1>5 DEF AwaitInv
  <1>9. gateway'.nonces[t] = last[t].nonce /\ \A u \in Types : u # t => gateway'.nonces[u] = gateway.nonces[u]
    BY <1>1, <1>8 DEF DeliveryTypeOK, Gateways, r
  <1>10. /\ Len(requests) \in Nat /\ Len(requests') \in Nat
         /\ DOMAIN requests = 1 .. Len(requests) /\ DOMAIN requests' = 1 .. Len(requests')
    BY DEF DeliveryTypeOK
  <1>11. ASSUME NEW u \in Types
         PROVE  \A k \in Asked(u)' : \/ k \in Asked(u) /\ requests'[k].nonce = requests[k].nonce
                                     \/ /\ k > Len(requests) /\ k \notin Asked(u)
                                        /\ requests'[k].nonce = gateway'.nonces[u]
    BY <1>10 DEF Asked
  <1>12. ASSUME NEW u \in Types PROVE \A k \in Asked(u) : k \in Nat /\ k <= Len(requests)
    BY <1>10 DEF Asked
  <1>13. ASSUME NEW u \in Types PROVE TypeInv(u)'
    <2>0. TypeInv(u)
      BY DEF StreamInv
    <2>1. Awaiting(u)' <=> Awaiting(u)
      BY DEF Awaiting
    <2>2. CASE u = t
      <3>1. \A k \in Asked(t) : requests[k].nonce # last[t].nonce
        BY <1>4, <1>5 DEF AwaitInv
      <3>2. \A j, k \in Asked(t)' : j < k /\ requests'[j].nonce = last[t].nonce
                 => requests'[k].nonce = last[t].nonce
        <4> SUFFICES ASSUME NEW j \in Asked(t)', NEW k \in Asked(t)', j < k,
                            requests'[j].nonce = last[t].nonce
                     PROVE  requests'[k].nonce = last[t].nonce
          OBVIOUS
        <4>1. j > Len(requests)
          BY <1>11, <3>1
        <4>2. j \in Nat /\ k \in Nat
          BY <1>10 DEF Asked
        <4>3. k \notin Asked(t)
          BY <1>10, <1>12, <4>1, <4>2
        <4> QED
          BY <1>9, <1>11, <4>3
      <3>3. AwaitInv(t)'
        BY <1>5, <1>7, <1>9, <3>2 DEF AwaitInv
      <3> QED
        BY <1>5, <2>0, <2>1, <2>2, <3>3 DEF TypeInv
    <2>3. CASE u # t
      <3>1. \A k \in Sent(u)' : k + 1 \in Sent(u) /\ responses'[k].nonce = responses[k + 1].nonce
            /\ k \in Nat
        BY <1>3 DEF Sent
      <3>2. Sent(u) # {} => Sent(u)' # {}
        <4> SUFFICES ASSUME NEW k \in Sent(u) PROVE k - 1 \in Sent(u)'
          OBVIOUS
        <4>1. k \in DOMAIN responses /\ k # 1 /\ k \in Int
          BY <1>1, <1>2, <2>3 DEF Sent
        <4>2. k - 1 \in DOMAIN responses' /\ (k - 1) + 1 = k
          BY <1>2, <1>3, <4>1
        <4> QED
          BY <1>3, <4>2 DEF Sent
      <3>3. gateway'.nonces[u] = gateway.nonces[u]
        BY <1>9, <2>3
      <3>4. Sent(u)' # {} => Sent(u) # {}
        BY <3>1
      <3>5. ~Awaiting(u) => AgreeInv(u)'
        BY <1>11, <2>0, <3>3, <3>4, <1>5 DEF TypeInv, AgreeInv
      <3>6. ASSUME Awaiting(u) PROVE AwaitInv(u)'
        <4>1. AwaitInv(u)
          BY <2>0, <3>6 DEF TypeInv
        <4>2. /\ last'[u].nonce # 0
              /\ watch'[u].nonce = last'[u].nonce /\ watch'[u].open = Nil /\ watch'[u].response = Nil
          BY <4>1 DEF AwaitInv
        <4>3. \A j, k \in Sent(u)' : j = k
          <5> SUFFICES ASSUME NEW j \in Sent(u)', NEW k \in Sent(u)' PROVE j = k
            OBVIOUS
          <5>1. j + 1 = k + 1 /\ j \in Nat /\ k \in Nat
            BY <3>1, <4>1 DEF AwaitInv
          <5> QED
            BY <5>1
        <4>4. \A k \in Sent(u)' : responses'[k].nonce = last'[u].nonce
          BY <3>1, <4>1 DEF AwaitInv
        <4>5. CASE Sent(u) # {}
          BY <1>11, <3>2, <3>3, <4>1, <4>2, <4>3, <4>4, <4>5 DEF AwaitInv
        <4>6. CASE Sent(u) = {}
          <5>1. \A j, k \in Asked(u)' : j < k /\ requests'[j].nonce = last'[u].nonce
                   => requests'[k].nonce = last'[u].nonce
            <6> SUFFICES ASSUME NEW j \in Asked(u)', NEW k \in Asked(u)', j < k,
                                requests'[j].nonce = last[u].nonce
                         PROVE  requests'[k].nonce = last[u].nonce
              OBVIOUS
            <6>1. CASE k \notin Asked(u)
              BY <1>11, <3>3, <4>1, <4>6, <6>1 DEF AwaitInv
            <6>2. CASE k \in Asked(u)
              <7>1. j \in Nat /\ k \in Nat /\ k <= Len(requests)
                BY <1>10, <1>12, <6>2 DEF Asked
              <7>2. j \in Asked(u) /\ requests[j].nonce = last[u].nonce
                BY <1>10, <1>11, <7>1
              <7>3. requests'[k].nonce = requests[k].nonce
                BY <1>11, <6>2
              <7> QED
                BY <4>1, <4>6, <6>2, <7>2, <7>3 DEF AwaitInv
            <6> QED
              BY <6>1, <6>2
          <5> QED
            BY <3>3, <3>4, <4>1, <4>2, <4>3, <4>4, <4>6, <5>1 DEF AwaitInv
        <4> QED
          BY <4>5, <4>6
      <3> QED
        BY <2>0, <2>1, <3>5, <3>6 DEF TypeInv
    <2> QED
      BY <2>2, <2>3
  <1>14. requests' # <<>> => connected'
    BY <1>5
  <1>15. StreamInv'
    BY <1>13, <1>14 DEF StreamInv
  <1> QED
    BY <1>2, <1>3, <1>4, <1>5, <1>7, <1>15 DEF r

-----------------------------------------------------------------------------
(* Clusters and routes. *)

(* A route table leads to a cluster. *)
Leads(f, c) == \E n \in DOMAIN f : f[n] = c

(* A channel holds routes that lead to a cluster. *)
Queued(c) ==
    "rds" \in DOMAIN watch /\ watch["rds"].response # Nil /\ Leads(watch["rds"].response.resources, c)

(* The snapshot stays, and what is new on its way comes from it. *)
LEMMA ClustersKept ==
  ASSUME ClustersInv, UNCHANGED <<hasty, snapshot>>, gateway'.clusters = gateway.clusters,
         RoutedTo' \subseteq RoutedTo \cup {snapshot.route},
         \A clusters \in PendingClusters' :
             clusters \in PendingClusters \/ clusters = snapshot.clusters,
         RoutesBacked'
  PROVE  ClustersInv'
  <1>1. RoutedTo' \subseteq snapshot.clusters \cup hasty
    BY DEF ClustersInv
  <1>2. ASSUME NEW clusters \in PendingClusters'
        PROVE  gateway.clusters \cap (snapshot.clusters \cup RoutedTo') \subseteq clusters \cup hasty
    <2>1. CASE clusters = snapshot.clusters
      BY <1>1, <2>1
    <2>2. CASE clusters \in PendingClusters
      BY <2>2 DEF ClustersInv
    <2> QED
      BY <1>2, <2>1, <2>2
  <1> QED
    BY <1>1, <1>2 DEF ClustersInv

(* A new snapshot, which keeps every cluster that is routed to and adds    *)
(* none that the gateway still has: others are hasty.                      *)
LEMMA ClustersReplaced ==
  ASSUME DeliveryTypeOK, StreamInv, ClustersInv, NEW s \in Snapshots, SetSnapshot(s),
         UNCHANGED <<last, requests, responses, connected, gateway>>,
         s.route \in s.clusters, hasty \subseteq hasty',
         RoutedTo \subseteq s.clusters \cup hasty',
         (gateway.clusters \cap s.clusters) \ snapshot.clusters \subseteq hasty'
  PROVE  ClustersInv'
  <1>1. /\ DOMAIN watch' = DOMAIN watch
        /\ \A t \in DOMAIN watch :
               \/ watch'[t] = watch[t]
               \/ /\ watch[t].open # Nil /\ watch[t].open \in Requests
                  /\ watch[t].open.type = t
                  /\ watch'[t].response = Respond(s, watch[t].open)
    BY SetSnapshotPreserves
  <1>2. RoutedTo' \subseteq RoutedTo \cup {s.route}
    <2>2. ASSUME NEW c \in RoutedTo', c # s.route PROVE c \in RoutedTo
      <3>1. \/ Leads(gateway.routes, c)
            \/ \E k \in DOMAIN responses : responses[k].type = "rds" /\ Leads(responses[k].resources, c)
            \/ Queued(c)'
        BY DEF RoutedTo, Leads, Queued
      <3>2. Queued(c)' => Queued(c)
        <4> SUFFICES ASSUME Queued(c)' PROVE Queued(c)
          OBVIOUS
        <4>1. "rds" \in DOMAIN watch
          BY <1>1 DEF Queued
        <4>2. CASE watch'["rds"] = watch["rds"]
          BY <4>1, <4>2 DEF Queued
        <4>3. CASE watch'["rds"] # watch["rds"]
          <5>1. /\ watch["rds"].open \in Requests /\ watch["rds"].open.type = "rds"
                /\ watch'["rds"].response = Respond(s, watch["rds"].open)
                /\ watch'["rds"].response # Nil
            BY <1>1, <4>1, <4>3 DEF Queued
          <5>2. ~Leads(watch'["rds"].response.resources, c)
            BY <2>2, <5>1, RespondType DEF Leads
          <5> QED
            BY <5>2 DEF Queued
        <4> QED
          BY <4>2, <4>3
      <3> QED
        BY <3>1, <3>2 DEF RoutedTo, Leads, Queued
    <2> QED
      BY <2>2
  <1>3. ASSUME NEW clusters \in PendingClusters'
        PROVE  clusters \in PendingClusters \/ clusters = s.clusters
    <2>1. \/ \E k \in Sent("cds") : clusters = responses[k].resources
          \/ /\ "cds" \in DOMAIN watch /\ watch'["cds"].response # Nil
             /\ clusters = watch'["cds"].response.resources
      BY <1>1, <1>3 DEF PendingClusters, Sent
    <2>2. CASE \E k \in Sent("cds") : clusters = responses[k].resources
      BY <2>2 DEF PendingClusters
    <2>3. CASE /\ "cds" \in DOMAIN watch /\ watch'["cds"].response # Nil
               /\ clusters = watch'["cds"].response.resources
      <3>1. CASE watch'["cds"] = watch["cds"]
        BY <2>3, <3>1 DEF PendingClusters
      <3>2. CASE watch'["cds"] # watch["cds"]
        <4>1. /\ watch["cds"].open \in Requests /\ watch["cds"].open.type = "cds"
              /\ watch'["cds"].response = Respond(s, watch["cds"].open)
          BY <1>1, <2>3, <3>2
        <4> QED
          BY <2>3, <4>1, RespondType
      <3> QED
        BY <3>1, <3>2
    <2> QED
      BY <2>1, <2>2, <2>3
  <1>4. snapshot' = s /\ gateway' = gateway
    BY DEF SetSnapshot
  <1>5. RoutedTo' \subseteq s.clusters \cup hasty'
    BY <1>2
  <1>6. ASSUME NEW clusters \in PendingClusters'
        PROVE  gateway.clusters \cap (s.clusters \cup RoutedTo') \subseteq clusters \cup hasty'
    <2>1. CASE clusters = s.clusters
      BY <1>5, <2>1
    <2>2. CASE clusters \in PendingClusters
      <3>1. gateway.clusters \cap (snapshot.clusters \cup RoutedTo) \subseteq clusters \cup hasty'
        BY <2>2 DEF ClustersInv
      <3> QED
        BY <1>2, <3>1
    <2> QED
      BY <1>3, <1>6, <2>1, <2>2
  <1>7. RoutesBacked'
    BY <1>4 DEF RoutesBacked, ClustersInv
  <1> QED
    BY <1>4, <1>5, <1>6, <1>7 DEF ClustersInv

(* There is nothing on its way: the stream is new. *)
LEMMA ClustersForgotten ==
  ASSUME ClustersInv, NewStream,
         \/ gateway'.routes = gateway.routes /\ gateway'.clusters = gateway.clusters
         \/ DOMAIN gateway'.routes = {},
         snapshot'.route \in snapshot'.clusters, hasty \subseteq hasty',
         RoutedTo \subseteq snapshot'.clusters \cup hasty'
  PROVE  ClustersInv'
  <1>1. DOMAIN watch' = {} /\ DOMAIN responses' = {}
    BY DEF NewStream
  <1>2. PendingClusters' = {}
    BY <1>1 DEF PendingClusters, Sent
  <1>3. RoutedTo' \subseteq RoutedTo
    <2> SUFFICES ASSUME NEW c \in RoutedTo' PROVE c \in RoutedTo
      OBVIOUS
    <2>1. Leads(gateway'.routes, c)
      BY <1>1 DEF RoutedTo, Leads
    <2>2. Leads(gateway.routes, c)
      BY <2>1 DEF Leads
    <2> QED
      BY <2>2 DEF RoutedTo, Leads
  <1>4. RoutesBacked'
    BY DEF RoutesBacked, ClustersInv
  <1> QED
    BY <1>2, <1>3, <1>4 DEF ClustersInv

-----------------------------------------------------------------------------
(* The steps. *)

(* Reconciliations: the controller sets a snapshot. *)
LEMMA ReconcilePreserves ==
  ASSUME DeliveryInv, NEW route \in Cluster, NEW clusters \in SUBSET Cluster,
         Reconcile(route, clusters), configured' \in Certificates, resync' \in BOOLEAN,
         route \in clusters, hasty \subseteq hasty',
         RoutedTo \subseteq clusters \cup hasty',
         (gateway.clusters \cap clusters) \ snapshot.clusters \subseteq hasty'
  PROVE  DeliveryInv'
  <1> DEFINE s == [version |-> NewVersion(FALSE), route |-> route, clusters |-> clusters,
                   certificate |-> configured']
  <1>1. snapshot.version + 1 \in Nat
    BY DEF DeliveryInv, DeliveryTypeOK, Snapshots
  <1>2. s \in Snapshots /\ s.route = route /\ s.clusters = clusters
    BY <1>1 DEF Snapshots, NewVersion
  <1>3. SetSnapshot(s) /\ UNCHANGED <<last, requests, responses, connected, gateway>>
    BY DEF Reconcile
  <1> HIDE DEF s
  <1>4. /\ snapshot' \in Snapshots
        /\ watch' \in UNION {[types -> Watches] : types \in SUBSET Types}
        /\ StreamInv'
    BY <1>2, <1>3, SetSnapshotPreserves DEF DeliveryInv
  <1>5. ClustersInv'
    BY <1>2, <1>3, ClustersReplaced DEF DeliveryInv
  <1>6. DeliveryTypeOK'
    BY <1>3, <1>4 DEF DeliveryInv, DeliveryTypeOK
  <1> QED
    BY <1>4, <1>5, <1>6 DEF DeliveryInv

LEMMA ControllerPreserves ==
  ASSUME DeliveryInv,
         \/ \E c \in Cluster : Reroute(c)
         \/ \E k \in Certificates : Reconfigure(k)
         \/ Expire \/ Resync \/ FirstReconcile
  PROVE  DeliveryInv'
  <1>0. /\ snapshot.route \in Cluster /\ snapshot.clusters \in SUBSET Cluster
        /\ snapshot.route \in snapshot.clusters
        /\ RoutedTo \subseteq snapshot.clusters \cup hasty
        /\ configured \in Certificates /\ resync \in BOOLEAN
    BY DEF DeliveryInv, DeliveryTypeOK, Snapshots, ClustersInv
  <1>1. ASSUME NEW c \in Cluster, Reroute(c) PROVE DeliveryInv'
    <2>1. /\ Reconcile(c, snapshot.clusters \cup {c}) /\ UNCHANGED <<configured, resync>>
          /\ hasty' = hasty \cup (({c} \cap gateway.clusters) \ snapshot.clusters)
      BY <1>1 DEF Reroute, Returning
    <2>2. snapshot.clusters \cup {c} \in SUBSET Cluster
      BY <1>0
    <2> QED
      BY <1>0, <2>1, <2>2, ReconcilePreserves
  <1>2. CASE Expire
    <2>1. /\ Reconcile(snapshot.route, {snapshot.route}) /\ UNCHANGED <<configured, resync>>
          /\ hasty' = hasty \cup (RoutedTo \cap (snapshot.clusters \ {snapshot.route}))
      BY <1>2 DEF Expire, Leaving
    <2>2. {snapshot.route} \in SUBSET Cluster
      BY <1>0
    <2> QED
      BY <1>0, <2>1, <2>2, ReconcilePreserves
  <1>3. CASE (\E k \in Certificates : Reconfigure(k)) \/ Resync \/ FirstReconcile
    <2>1. /\ Reconcile(snapshot.route, snapshot.clusters) /\ hasty' = hasty
          /\ configured' \in Certificates /\ resync' \in BOOLEAN
      BY <1>0, <1>3 DEF Reconfigure, Resync, FirstReconcile, controller
    <2> QED
      BY <1>0, <2>1, ReconcilePreserves
  <1> QED
    BY <1>1, <1>2, <1>3

LEMMA ConnectPreserves ==
  ASSUME DeliveryInv, Connect
  PROVE  DeliveryInv'
  <1> DEFINE g == [gateway EXCEPT !.nonces = [t \in Types |-> 0]]
  <1>1. gateway \in Gateways
    BY DEF DeliveryInv, DeliveryTypeOK
  <1>2. [t \in Types |-> 0] \in [Types -> 0 .. 2]
    OBVIOUS
  <1>3. /\ g \in Gateways /\ g.nonces = [t \in Types |-> 0]
        /\ g.routes = gateway.routes /\ g.clusters = gateway.clusters
    BY <1>1, <1>2 DEF Gateways
  <1>4. /\ gateway' = g /\ connected' = TRUE /\ NewStream /\ UNCHANGED <<configured, resync, hasty, snapshot>>
        /\ requests' = <<Request(g, "cds", NoError), Request(g, "lds", NoError)>>
                         \o (IF gateway.names # {} THEN <<Request(g, "rds", NoError)>> ELSE <<>>)
    BY DEF Connect, controller
  <1> HIDE DEF g
  <1>5. NoError \in Errors
    BY DEF NoError, Errors
  <1>6. \A t \in Types : Request(g, t, NoError) \in Requests /\ Request(g, t, NoError).nonce = 0
    BY <1>3, <1>5, RequestType
  <1>7. requests' \in Seq(Requests) /\ \A k \in DOMAIN requests' : requests'[k].nonce = 0
    <2> DEFINE a == Request(g, "cds", NoError)
               b == Request(g, "lds", NoError)
               c == Request(g, "rds", NoError)
    <2>1. a \in Requests /\ b \in Requests /\ c \in Requests /\ a.nonce = 0 /\ b.nonce = 0 /\ c.nonce = 0
      BY <1>6 DEF Types
    <2> DEFINE x == <<a, b>>
               y == IF gateway.names # {} THEN <<c>> ELSE <<>>
    <2>2. requests' = x \o y
      BY <1>4
    <2> HIDE DEF a, b, c
    <2>3. x \in Seq(Requests) /\ \A k \in DOMAIN x : x[k].nonce = 0
      BY <2>1
    <2>4. y \in Seq(Requests) /\ \A k \in DOMAIN y : y[k].nonce = 0
      BY <2>1
    <2> HIDE DEF x, y
    <2> QED
      BY <2>2, <2>3, <2>4
  <1>8. /\ watch' \in UNION {[types -> Watches] : types \in SUBSET Types}
        /\ last' \in [Types -> [nonce : 0 .. 2, names : SUBSET Names]]
        /\ responses' \in Seq(Responses)
        /\ StreamInv'
    BY <1>3, <1>4, <1>7, NewStreamPreserves DEF DeliveryInv
  <1>9. ClustersInv'
    BY <1>3, <1>4, ClustersForgotten DEF DeliveryInv, ClustersInv
  <1> QED
    BY <1>3, <1>4, <1>7, <1>8, <1>9 DEF DeliveryInv, DeliveryTypeOK

LEMMA FaultPreserves ==
  ASSUME DeliveryInv, Disconnect \/ RestartGateway \/ RestartController
  PROVE  DeliveryInv'
  <1>0. /\ gateway \in Gateways /\ snapshot \in Snapshots /\ resync \in BOOLEAN
        /\ configured \in Certificates
        /\ snapshot.route \in snapshot.clusters
        /\ RoutedTo \subseteq snapshot.clusters \cup hasty
    BY DEF DeliveryInv, DeliveryTypeOK, ClustersInv
  <1>1. NewStream /\ connected' = FALSE /\ requests' = <<>> /\ configured' = configured
    BY DEF Disconnect, RestartGateway, RestartController, Fault, controller
  <1>2. NewGateway \in Gateways /\ DOMAIN NewGateway.routes = {}
    <2>1. [n \in {} |-> Nil] \in RouteTables
      <3>1. [n \in {} |-> Nil] \in [{} -> Cluster] /\ {} \in SUBSET Names
        OBVIOUS
      <3> QED
        BY <3>1 DEF RouteTables
    <2>2. [t \in Types |-> 0] \in [Types -> 0 .. 2] /\ [t \in Types |-> 0] \in [Types -> Nat]
      OBVIOUS
    <2> QED
      BY <2>1, <2>2 DEF NewGateway, Gateways
  <1>3. gateway' \in Gateways /\ (gateway' = gateway \/ DOMAIN gateway'.routes = {})
    BY <1>0, <1>2 DEF Disconnect, RestartGateway, RestartController
  <1>4. /\ watch' \in UNION {[types -> Watches] : types \in SUBSET Types}
        /\ last' \in [Types -> [nonce : 0 .. 2, names : SUBSET Names]]
        /\ responses' \in Seq(Responses)
        /\ requests' \in Seq(Requests)
        /\ StreamInv'
    <2>1. requests' \in Seq(Requests) /\ DOMAIN requests' = {}
      BY <1>1
    <2>2. ~connected' /\ connected' \in BOOLEAN
      BY <1>1
    <2> QED
      BY <1>1, <1>3, <2>1, <2>2, NewStreamPreserves DEF DeliveryInv
  <1>5. /\ snapshot' \in Snapshots /\ resync' \in BOOLEAN
        /\ snapshot'.route \in snapshot'.clusters /\ hasty \subseteq hasty'
        /\ RoutedTo \subseteq snapshot'.clusters \cup hasty'
    <2>1. CASE Disconnect \/ RestartGateway
      BY <1>0, <2>1 DEF Disconnect, RestartGateway, controller
    <2>2. CASE RestartController
      <3>1. /\ snapshot' = [snapshot EXCEPT !.version = snapshot.version + 1,
                                            !.clusters = {snapshot.route}, !.certificate = "none"]
            /\ hasty' = hasty \cup (RoutedTo \cap (snapshot.clusters \ {snapshot.route}))
            /\ resync' = FALSE
        BY <2>2 DEF RestartController, NewVersion, Leaving
      <3>2. /\ snapshot.version + 1 \in Nat /\ {snapshot.route} \in SUBSET Cluster
            /\ "none" \in Certificates
        BY <1>0 DEF Snapshots, Certificates
      <3>3. snapshot' \in Snapshots /\ snapshot'.route = snapshot.route
            /\ snapshot'.clusters = {snapshot.route}
        BY <1>0, <3>1, <3>2 DEF Snapshots
      <3>4. resync' \in BOOLEAN
        BY <3>1
      <3> QED
        BY <1>0, <3>1, <3>3, <3>4
    <2> QED
      BY <2>1, <2>2
  <1>6. ClustersInv'
    BY <1>1, <1>3, <1>5, ClustersForgotten DEF DeliveryInv
  <1>7. DeliveryTypeOK'
    <2>1. connected' \in BOOLEAN
      BY <1>1
    <2> QED
      BY <1>0, <1>1, <1>3, <1>4, <1>5, <2>1 DEF DeliveryTypeOK
  <1> QED
    BY <1>4, <1>6, <1>7 DEF DeliveryInv

LEMMA ServerPreserves ==
  ASSUME DeliveryInv, Server
  PROVE  DeliveryInv'
  <1> USE DEF DeliveryInv
  <1>1. CASE ReceiveRequest
    <2>1. /\ requests' \in Seq(Requests)
          /\ watch' \in UNION {[types -> Watches] : types \in SUBSET Types}
          /\ resync' \in BOOLEAN
          /\ StreamInv'
      BY <1>1, ReceiveRequestPreserves
    <2>2. PICK t \in Types : \E request \in Requests :
               /\ request.type = t
               /\ \A u \in DOMAIN watch' : u # t => u \in DOMAIN watch /\ watch'[u] = watch[u]
               /\ t \in DOMAIN watch' /\ watch'[t].response # Nil =>
                     \/ watch'[t].response = Respond(snapshot, request)
                     \/ t \in DOMAIN watch /\ watch'[t] = watch[t]
      BY <1>1, ReceiveRequestPreserves
    <2>3. PICK request \in Requests :
               /\ request.type = t
               /\ t \in DOMAIN watch' /\ watch'[t].response # Nil =>
                     \/ watch'[t].response = Respond(snapshot, request)
                     \/ t \in DOMAIN watch /\ watch'[t] = watch[t]
      BY <2>2
    <2>4. UNCHANGED <<configured, hasty, snapshot, last, responses, connected, gateway>>
      BY <1>1 DEF ReceiveRequest
    <2>5. snapshot \in Snapshots
      BY DEF DeliveryTypeOK
    <2>6. RoutedTo' \subseteq RoutedTo \cup {snapshot.route}
      <3> SUFFICES ASSUME NEW c \in RoutedTo', c # snapshot.route PROVE c \in RoutedTo
        OBVIOUS
      <3>1. \/ Leads(gateway.routes, c)
            \/ \E k \in DOMAIN responses : responses[k].type = "rds" /\ Leads(responses[k].resources, c)
            \/ Queued(c)'
        BY <2>4 DEF RoutedTo, Leads, Queued
      <3>2. ASSUME Queued(c)' PROVE Queued(c)
        <4>1. CASE t = "rds" /\ watch'[t].response = Respond(snapshot, request)
          <5>1. ~Leads(watch'["rds"].response.resources, c)
            BY <2>3, <2>5, <3>2, <4>1, RespondType DEF Leads, Queued
          <5> QED
            BY <3>2, <5>1 DEF Queued
        <4>2. CASE t # "rds" \/ watch'[t].response # Respond(snapshot, request)
          <5>1. "rds" \in DOMAIN watch /\ watch'["rds"] = watch["rds"]
            BY <2>2, <2>3, <3>2, <4>2 DEF Queued
          <5> QED
            BY <3>2, <5>1 DEF Queued
        <4> QED
          BY <4>1, <4>2
      <3> QED
        BY <3>1, <3>2 DEF RoutedTo, Leads, Queued
    <2>7. ASSUME NEW clusters \in PendingClusters'
          PROVE  clusters \in PendingClusters \/ clusters = snapshot.clusters
      <3>1. \/ \E k \in Sent("cds") : clusters = responses[k].resources
            \/ /\ "cds" \in DOMAIN watch' /\ watch'["cds"].response # Nil
               /\ clusters = watch'["cds"].response.resources
        BY <2>4, <2>7 DEF PendingClusters, Sent
      <3>2. CASE \E k \in Sent("cds") : clusters = responses[k].resources
        BY <3>2 DEF PendingClusters
      <3>3. CASE /\ "cds" \in DOMAIN watch' /\ watch'["cds"].response # Nil
                 /\ clusters = watch'["cds"].response.resources
        <4>1. CASE t = "cds" /\ watch'[t].response = Respond(snapshot, request)
          BY <2>3, <2>5, <3>3, <4>1, RespondType
        <4>2. CASE t # "cds" \/ watch'[t].response # Respond(snapshot, request)
          <5>1. "cds" \in DOMAIN watch /\ watch'["cds"] = watch["cds"]
            BY <2>2, <2>3, <3>3, <4>2
          <5> QED
            BY <3>3, <5>1 DEF PendingClusters
        <4> QED
          BY <4>1, <4>2
      <3> QED
        BY <3>1, <3>2, <3>3
    <2>8. RoutesBacked'
      BY <2>4 DEF RoutesBacked, ClustersInv
    <2>9. ClustersInv'
      BY <2>4, <2>6, <2>7, <2>8, ClustersKept
    <2> QED
      BY <2>1, <2>4, <2>9 DEF DeliveryTypeOK
  <1>2. ASSUME NEW t \in Types, SendResponse(t) PROVE DeliveryInv'
    <2>1. /\ watch' \in UNION {[types -> Watches] : types \in SUBSET Types}
          /\ last' \in [Types -> [nonce : 0 .. 2, names : SUBSET Names]]
          /\ responses' \in Seq(Responses)
          /\ DOMAIN watch' = DOMAIN watch /\ t \in DOMAIN watch /\ watch[t].response # Nil
          /\ watch[t].response.type = t
          /\ watch'[t].response = Nil
          /\ \A u \in DOMAIN watch : u # t => watch'[u] = watch[u]
          /\ \A k \in DOMAIN responses' :
                \/ k \in DOMAIN responses /\ responses'[k] = responses[k]
                \/ /\ responses'[k].type = t
                   /\ responses'[k].resources = watch[t].response.resources
          /\ StreamInv'
      BY <1>2, SendResponsePreserves
    <2>2. UNCHANGED <<controller, snapshot, requests, connected, gateway>>
      BY <1>2 DEF SendResponse
    <2>3. RoutedTo' \subseteq RoutedTo
      <3> SUFFICES ASSUME NEW c \in RoutedTo' PROVE c \in RoutedTo
        OBVIOUS
      <3>1. \/ Leads(gateway.routes, c)
            \/ \E k \in DOMAIN responses' : responses'[k].type = "rds" /\ Leads(responses'[k].resources, c)
            \/ Queued(c)'
        BY <2>2 DEF RoutedTo, Leads, Queued
      <3>2. Queued(c)' => Queued(c)
        BY <2>1 DEF Queued
      <3>3. ASSUME NEW k \in DOMAIN responses', responses'[k].type = "rds",
                   Leads(responses'[k].resources, c)
            PROVE  \/ \E l \in DOMAIN responses : responses[l].type = "rds" /\ Leads(responses[l].resources, c)
                   \/ Queued(c)
        BY <2>1, <3>3 DEF Queued
      <3> QED
        BY <3>1, <3>2, <3>3 DEF RoutedTo, Leads, Queued
    <2>4. ASSUME NEW clusters \in PendingClusters' PROVE clusters \in PendingClusters
      <3>1. \/ \E k \in DOMAIN responses' :
                  responses'[k].type = "cds" /\ clusters = responses'[k].resources
            \/ /\ "cds" \in DOMAIN watch' /\ watch'["cds"].response # Nil
               /\ clusters = watch'["cds"].response.resources
        BY <2>4 DEF PendingClusters, Sent
      <3>2. ASSUME NEW k \in DOMAIN responses', responses'[k].type = "cds",
                   clusters = responses'[k].resources
            PROVE  clusters \in PendingClusters
        BY <2>1, <3>2 DEF PendingClusters, Sent
      <3>3. CASE /\ "cds" \in DOMAIN watch' /\ watch'["cds"].response # Nil
                 /\ clusters = watch'["cds"].response.resources
        BY <2>1, <3>3 DEF PendingClusters
      <3> QED
        BY <3>1, <3>2, <3>3
    <2>5. RoutesBacked'
      BY <2>2 DEF RoutesBacked, ClustersInv, controller
    <2>6. ClustersInv'
      BY <2>2, <2>3, <2>4, <2>5, ClustersKept DEF controller
    <2> QED
      BY <2>1, <2>2, <2>6 DEF DeliveryTypeOK, controller
  <1> QED
    BY <1>1, <1>2 DEF Server

(* The gateway takes a response: where it leads to was on its way before.  *)
LEMMA TakenClusters ==
  ASSUME DeliveryInv, responses # <<>>, UNCHANGED <<watch, hasty, snapshot>>,
         \A k \in DOMAIN responses' : k + 1 \in DOMAIN responses /\ responses'[k] = responses[k + 1],
         \A n \in DOMAIN gateway'.routes :
             \/ n \in DOMAIN gateway.routes /\ gateway'.routes[n] = gateway.routes[n]
             \/ /\ responses[1].type = "rds" /\ n \in DOMAIN responses[1].resources
                /\ gateway'.routes[n] = responses[1].resources[n]
  PROVE  /\ RoutedTo' \subseteq RoutedTo
         /\ PendingClusters' \subseteq PendingClusters
  <1>0. 1 \in DOMAIN responses
    BY DEF DeliveryInv, DeliveryTypeOK
  <1>1. ASSUME NEW c \in RoutedTo' PROVE c \in RoutedTo
    <2>1. \/ Leads(gateway'.routes, c)
          \/ \E k \in DOMAIN responses' : responses'[k].type = "rds" /\ Leads(responses'[k].resources, c)
          \/ Queued(c)
      BY <1>1 DEF RoutedTo, Leads, Queued
    <2>2. Leads(gateway'.routes, c) =>
             \/ Leads(gateway.routes, c)
             \/ responses[1].type = "rds" /\ Leads(responses[1].resources, c)
      BY DEF Leads
    <2> QED
      BY <1>0, <2>1, <2>2 DEF RoutedTo, Leads, Queued
  <1>2. PendingClusters' \subseteq PendingClusters
    BY DEF PendingClusters, Sent
  <1> QED
    BY <1>1, <1>2

(* One request is appended. *)
LEMMA AppendRequest ==
  ASSUME NEW q \in Seq(Requests), NEW request \in Requests
  PROVE  /\ Append(q, request) \in Seq(Requests)
         /\ Len(Append(q, request)) = Len(q) + 1 /\ Len(q) \in Nat
         /\ \A k \in 1 .. Len(q) : Append(q, request)[k] = q[k]
         /\ \A k \in Len(q) + 1 .. Len(Append(q, request)) : Append(q, request)[k] = request
  OBVIOUS

(* What the gateway sends after a step carries the nonces it has then. *)
LEMMA NextRequestType ==
  ASSUME gateway' \in Gateways
  PROVE  \A u \in Types, e \in Errors :
             /\ Request(gateway', u, e) \in Requests /\ Request(gateway', u, e).type = u
             /\ Request(gateway', u, e).nonce = gateway'.nonces[u]
  BY RequestType

(* The gateway answers a response with one request of its type. *)
LEMMA AnswerPreserves ==
  ASSUME DeliveryInv, NEW t \in Types, NEW error \in Errors,
         responses # <<>>, Head(responses).type = t, responses' = Tail(responses),
         gateway' \in Gateways,
         gateway'.nonces = [gateway.nonces EXCEPT ![t] = Head(responses).nonce],
         requests' = Append(requests, Request(gateway', t, error)),
         UNCHANGED <<controller, snapshot, watch, last, connected>>
  PROVE  /\ DeliveryTypeOK' /\ StreamInv'
         /\ Head(responses) = responses[1] /\ Head(responses) \in Responses
         /\ 1 \in Sent(t) /\ Sent(t)' = {} /\ Awaiting(t) /\ AwaitInv(t)
         /\ \A k \in DOMAIN responses' : k + 1 \in DOMAIN responses /\ responses'[k] = responses[k + 1]
  <1> DEFINE request == Request(gateway', t, error)
  <1>1. request \in Requests /\ request.type = t /\ request.nonce = gateway'.nonces[t]
    <2>1. \A u \in Types, e \in Errors :
              /\ Request(gateway', u, e) \in Requests /\ Request(gateway', u, e).type = u
              /\ Request(gateway', u, e).nonce = gateway'.nonces[u]
      BY NextRequestType
    <2> QED
      BY <2>1
  <1> HIDE DEF request
  <1>2. requests \in Seq(Requests) /\ requests' = Append(requests, request)
    BY DEF DeliveryInv, DeliveryTypeOK, request
  <1>3. /\ requests' \in Seq(Requests) /\ Len(requests') = Len(requests) + 1 /\ Len(requests) \in Nat
        /\ \A k \in 1 .. Len(requests) : requests'[k] = requests[k]
        /\ \A k \in Len(requests) + 1 .. Len(requests') : requests'[k] = request
    BY <1>1, <1>2, AppendRequest
  <1>4. /\ Len(requests') >= Len(requests)
        /\ \A k \in Len(requests) + 1 .. Len(requests') :
               requests'[k].nonce = gateway'.nonces[requests'[k].type]
    BY <1>1, <1>3
  <1>5. /\ responses' \in Seq(Responses)
        /\ Head(responses) = responses[1] /\ Head(responses) \in Responses
        /\ 1 \in Sent(t) /\ Sent(t)' = {} /\ Awaiting(t) /\ AwaitInv(t)
        /\ \A k \in DOMAIN responses' : k + 1 \in DOMAIN responses /\ responses'[k] = responses[k + 1]
        /\ StreamInv'
    BY <1>3, <1>4, TakePreserves DEF DeliveryInv
  <1>6. DeliveryTypeOK'
    BY <1>3, <1>5 DEF DeliveryInv, DeliveryTypeOK, controller
  <1> QED
    BY <1>5, <1>6

LEMMA NoErrorType == NoError \in Errors /\ [NoError EXCEPT !.kind = "other"] \in Errors
  BY DEF NoError, Errors

LEMMA TakeClustersPreserves ==
  ASSUME DeliveryInv, TakeClusters
  PROVE  DeliveryInv'
  <1> DEFINE r == Head(responses)
             g == [Received(gateway, r) EXCEPT !.clusters = r.resources]
  <1>1. /\ responses # <<>> /\ r.type = "cds" /\ gateway' = g
        /\ requests' = Append(requests, Request(gateway', "cds", NoError))
        /\ responses' = Tail(responses)
        /\ UNCHANGED <<controller, snapshot, watch, last, connected>>
    BY DEF TakeClusters
  <1>2. r \in Responses /\ gateway \in Gateways
    BY <1>1 DEF DeliveryInv, DeliveryTypeOK
  <1>3. r.resources \in SUBSET Cluster /\ "cds" \in Types
    BY <1>1, <1>2, ResponseType DEF Types
  <1> HIDE DEF r
  <1>4. /\ gateway' \in Gateways /\ gateway'.nonces = [gateway.nonces EXCEPT !["cds"] = r.nonce]
        /\ gateway'.clusters = r.resources /\ gateway'.routes = gateway.routes
    <2> DEFINE h == Received(gateway, r)
    <2>1. /\ h \in Gateways /\ h.nonces = [gateway.nonces EXCEPT ![r.type] = r.nonce]
          /\ h.routes = gateway.routes
      BY <1>2, ReceivedType
    <2>2. gateway' = [h EXCEPT !.clusters = r.resources]
      BY <1>1
    <2> HIDE DEF h
    <2> QED
      BY <1>1, <1>3, <2>1, <2>2 DEF Gateways
  <1>5. /\ DeliveryTypeOK' /\ StreamInv'
        /\ r = responses[1] /\ 1 \in Sent("cds") /\ Sent("cds")' = {}
        /\ Awaiting("cds") /\ AwaitInv("cds")
        /\ \A k \in DOMAIN responses' : k + 1 \in DOMAIN responses /\ responses'[k] = responses[k + 1]
    BY <1>1, <1>3, <1>4, NoErrorType, AnswerPreserves DEF r
  <1>6. RoutedTo' \subseteq RoutedTo
    BY <1>1, <1>4, <1>5, TakenClusters DEF controller
  <1>7. PendingClusters' = {}
    BY <1>1, <1>5 DEF PendingClusters, AwaitInv
  <1>8. gateway.clusters \cap RoutedTo \subseteq r.resources \cup hasty
    <2>1. r.resources \in PendingClusters
      BY <1>5 DEF PendingClusters
    <2> QED
      BY <2>1 DEF DeliveryInv, ClustersInv
  <1>9. RoutesBacked'
    <2> SUFFICES ASSUME NEW n \in DOMAIN gateway.routes
                 PROVE  gateway.routes[n] \in r.resources \cup hasty
      BY <1>1, <1>4 DEF RoutesBacked, controller
    <2>1. gateway.routes[n] \in RoutedTo
      BY DEF RoutedTo
    <2>2. gateway.routes[n] \in gateway.clusters \cup hasty
      BY DEF DeliveryInv, ClustersInv, RoutesBacked
    <2> QED
      BY <1>8, <2>1, <2>2
  <1>10. ClustersInv'
    BY <1>1, <1>6, <1>7, <1>9 DEF DeliveryInv, ClustersInv, controller
  <1> QED
    BY <1>5, <1>10 DEF DeliveryInv

LEMMA TakeRoutesPreserves ==
  ASSUME DeliveryInv, TakeRoutes
  PROVE  DeliveryInv'
  <1> DEFINE r == Head(responses)
             routes == [n \in DOMAIN r.resources \cap gateway.names |-> r.resources[n]]
             h == Received(gateway, r)
  <1>1. /\ responses # <<>> /\ r.type = "rds" /\ UnknownClusters(routes) = {}
        /\ gateway' = [h EXCEPT !.routes = Updated(h.routes, routes)]
        /\ requests' = Append(requests, Request(gateway', "rds", NoError))
        /\ responses' = Tail(responses)
        /\ UNCHANGED <<controller, snapshot, watch, last, connected>>
    BY DEF TakeRoutes
  <1>2. r \in Responses /\ gateway \in Gateways
    BY <1>1 DEF DeliveryInv, DeliveryTypeOK
  <1>3. r.resources \in RouteTables /\ "rds" \in Types /\ gateway.routes \in RouteTables
    BY <1>1, <1>2, ResponseType DEF Types, Gateways
  <1>4. /\ h \in Gateways /\ h.nonces = [gateway.nonces EXCEPT !["rds"] = r.nonce]
        /\ h.routes = gateway.routes /\ h.clusters = gateway.clusters
    BY <1>1, <1>2, ReceivedType
  <1> HIDE DEF r, h
  <1>5. /\ DOMAIN routes \subseteq DOMAIN r.resources
        /\ \A n \in DOMAIN routes : routes[n] = r.resources[n] /\ routes[n] \in gateway.clusters
    BY <1>1 DEF UnknownClusters
  <1> HIDE DEF routes
  <1> DEFINE f == Updated(gateway.routes, routes)
  <1>6. /\ DOMAIN f = DOMAIN gateway.routes \cup DOMAIN routes
        /\ \A n \in DOMAIN f : f[n] = IF n \in DOMAIN routes THEN routes[n] ELSE gateway.routes[n]
        /\ f = [n \in DOMAIN f |-> f[n]]
    BY DEF Updated
  <1> HIDE DEF f
  <1>7. f \in RouteTables
    <2>1. PICK a \in SUBSET Names : gateway.routes \in [a -> Cluster]
      BY <1>3 DEF RouteTables
    <2>2. PICK b \in SUBSET Names : r.resources \in [b -> Cluster]
      BY <1>3 DEF RouteTables
    <2>3. DOMAIN f \in SUBSET Names /\ \A n \in DOMAIN f : f[n] \in Cluster
      BY <1>5, <1>6, <2>1, <2>2
    <2>4. f \in [DOMAIN f -> Cluster]
      BY <1>6, <2>3
    <2> QED
      BY <2>3, <2>4 DEF RouteTables
  <1>8. /\ gateway' \in Gateways /\ gateway'.nonces = [gateway.nonces EXCEPT !["rds"] = r.nonce]
        /\ gateway'.routes = f /\ gateway'.clusters = gateway.clusters
    <2>1. gateway' = [h EXCEPT !.routes = f]
      BY <1>1, <1>4 DEF f
    <2> QED
      BY <1>4, <1>7, <2>1 DEF Gateways
  <1>9. /\ DeliveryTypeOK' /\ StreamInv'
        /\ r = responses[1]
        /\ \A k \in DOMAIN responses' : k + 1 \in DOMAIN responses /\ responses'[k] = responses[k + 1]
    BY <1>1, <1>3, <1>8, NoErrorType, AnswerPreserves DEF r
  <1>10. \A n \in DOMAIN gateway'.routes :
             \/ n \in DOMAIN gateway.routes /\ gateway'.routes[n] = gateway.routes[n]
             \/ /\ responses[1].type = "rds" /\ n \in DOMAIN responses[1].resources
                /\ gateway'.routes[n] = responses[1].resources[n]
    BY <1>1, <1>5, <1>6, <1>8, <1>9
  <1>11. RoutedTo' \subseteq RoutedTo /\ PendingClusters' \subseteq PendingClusters
    BY <1>1, <1>9, <1>10, TakenClusters DEF controller
  <1>12. RoutesBacked'
    <2>1. \A n \in DOMAIN f : f[n] \in gateway.clusters \cup hasty
      BY <1>5, <1>6 DEF DeliveryInv, ClustersInv, RoutesBacked
    <2> QED
      BY <1>1, <1>8, <2>1 DEF RoutesBacked, controller
  <1>13. ClustersInv'
    BY <1>1, <1>8, <1>11, <1>12, ClustersKept DEF DeliveryInv, controller
  <1> QED
    BY <1>9, <1>13 DEF DeliveryInv

LEMMA RejectRoutesPreserves ==
  ASSUME DeliveryInv, RejectRoutes
  PROVE  DeliveryInv'
  <1> DEFINE r == Head(responses)
             routes == [n \in DOMAIN r.resources \cap gateway.names |-> r.resources[n]]
             error(c) == [kind |-> "unknown_cluster", cluster |-> c]
             g == [gateway EXCEPT !.nonces["rds"] = r.nonce]
  <1>1. PICK c \in UnknownClusters(routes) :
           /\ gateway' = g
           /\ requests' = Append(requests, Request(gateway', "rds", error(c)))
    BY DEF RejectRoutes
  <1>2. /\ responses # <<>> /\ r.type = "rds" /\ responses' = Tail(responses)
        /\ UNCHANGED <<controller, snapshot, watch, last, connected>>
    BY DEF RejectRoutes
  <1>3. r \in Responses /\ gateway \in Gateways
    BY <1>2 DEF DeliveryInv, DeliveryTypeOK
  <1>4. r.resources \in RouteTables /\ "rds" \in Types /\ r.nonce \in 0 .. 2
    BY <1>2, <1>3, ResponseType DEF Types
  <1>5. error(c) \in Errors
    <2>1. PICK b \in SUBSET Names : r.resources \in [b -> Cluster]
      BY <1>4 DEF RouteTables
    <2>2. c \in Cluster
      BY <1>1, <2>1 DEF UnknownClusters
    <2> QED
      BY <2>2 DEF Errors
  <1> HIDE DEF r, error
  <1>6. /\ gateway' \in Gateways /\ gateway'.nonces = [gateway.nonces EXCEPT !["rds"] = r.nonce]
        /\ gateway'.routes = gateway.routes /\ gateway'.clusters = gateway.clusters
    <2>1. [gateway.nonces EXCEPT !["rds"] = r.nonce] \in [Types -> 0 .. 2]
      BY <1>3, <1>4 DEF Gateways
    <2> QED
      BY <1>1, <1>3, <2>1 DEF Gateways
  <1> HIDE DEF g
  <1>7. /\ DeliveryTypeOK' /\ StreamInv'
        /\ r = responses[1]
        /\ \A k \in DOMAIN responses' : k + 1 \in DOMAIN responses /\ responses'[k] = responses[k + 1]
    BY <1>1, <1>2, <1>4, <1>5, <1>6, AnswerPreserves DEF r
  <1>8. RoutedTo' \subseteq RoutedTo /\ PendingClusters' \subseteq PendingClusters
    BY <1>2, <1>6, <1>7, TakenClusters DEF controller
  <1>9. RoutesBacked'
    BY <1>2, <1>6 DEF DeliveryInv, ClustersInv, RoutesBacked, controller
  <1>10. ClustersInv'
    BY <1>2, <1>6, <1>8, <1>9, ClustersKept DEF DeliveryInv, controller
  <1> QED
    BY <1>7, <1>10 DEF DeliveryInv

LEMMA TakeListenersPreserves ==
  ASSUME DeliveryInv, TakeListeners
  PROVE  DeliveryInv'
  <1> DEFINE r     == Head(responses)
             bad   == r.resources = "bad"
             names == NamesTaken(r.resources)
             kept  == [n \in names \cap DOMAIN gateway.routes |-> gateway.routes[n]]
             old   == [gateway EXCEPT !.names = names, !.routes = kept]
             g     == IF bad THEN [old EXCEPT !.nonces["lds"] = r.nonce] ELSE Received(old, r)
             error == IF bad THEN [NoError EXCEPT !.kind = "other"] ELSE NoError
             first == IF names # gateway.names THEN <<Request(g, "rds", NoError)>> ELSE <<>>
  <1>1. /\ responses # <<>> /\ r.type = "lds" /\ gateway' = g
        /\ requests' = requests \o first \o <<Request(g, "lds", error)>>
        /\ responses' = Tail(responses)
        /\ UNCHANGED <<controller, snapshot, watch, last, connected>>
    BY DEF TakeListeners
  <1>2. r \in Responses /\ gateway \in Gateways
    <2>1. responses \in Seq(Responses) /\ responses # <<>> /\ gateway \in Gateways
      BY <1>1 DEF DeliveryInv, DeliveryTypeOK
    <2> QED
      BY <2>1
  <1>3. "lds" \in Types /\ "rds" \in Types /\ r.nonce \in 0 .. 2
    BY <1>2, ResponseType DEF Types
  <1>4. names \in SUBSET Names
    BY <1>2 DEF NamesTaken, RouteNames, Names, Gateways
  <1>5. kept \in RouteTables
    <2>1. PICK a \in SUBSET Names : gateway.routes \in [a -> Cluster]
      BY <1>2 DEF Gateways, RouteTables
    <2>2. kept \in [names \cap DOMAIN gateway.routes -> Cluster]
      BY <2>1
    <2>3. names \cap DOMAIN gateway.routes \in SUBSET Names
      BY <1>4
    <2> HIDE DEF kept, names
    <2> QED
      BY <2>2, <2>3 DEF RouteTables
  <1>6. \A n \in DOMAIN kept : n \in DOMAIN gateway.routes /\ kept[n] = gateway.routes[n]
    OBVIOUS
  <1> HIDE DEF r, names, kept
  <1>7. /\ old \in Gateways /\ old.nonces = gateway.nonces
        /\ old.routes = kept /\ old.clusters = gateway.clusters
    BY <1>2, <1>4, <1>5 DEF Gateways
  <1> HIDE DEF old
  <1>8. /\ g \in Gateways /\ g.nonces = [gateway.nonces EXCEPT !["lds"] = r.nonce]
        /\ g.routes = kept /\ g.clusters = gateway.clusters
    <2>1. CASE bad
      <3>1. [old.nonces EXCEPT !["lds"] = r.nonce] \in [Types -> 0 .. 2]
        BY <1>3, <1>7 DEF Gateways
      <3> QED
        BY <1>7, <2>1, <3>1 DEF Gateways
    <2>2. CASE ~bad
      BY <1>1, <1>2, <1>7, <2>2, ReceivedType
    <2> QED
      BY <2>1, <2>2
  <1>9. error \in Errors /\ NoError \in Errors
    BY NoErrorType
  <1> HIDE DEF g, error
  <1> DEFINE a == Request(gateway', "rds", NoError)
             b == Request(gateway', "lds", error)
  <1>10. /\ a \in Requests /\ a.nonce = gateway'.nonces[a.type]
         /\ b \in Requests /\ b.nonce = gateway'.nonces[b.type]
    <2>0. \A u \in Types, e \in Errors :
              /\ Request(gateway', u, e) \in Requests /\ Request(gateway', u, e).type = u
              /\ Request(gateway', u, e).nonce = gateway'.nonces[u]
      BY <1>1, <1>8, NextRequestType
    <2>1. a \in Requests /\ a.type = "rds" /\ a.nonce = gateway'.nonces["rds"]
      BY <1>3, <1>9, <2>0
    <2>2. b \in Requests /\ b.type = "lds" /\ b.nonce = gateway'.nonces["lds"]
      BY <1>3, <1>9, <2>0
    <2> QED
      BY <2>1, <2>2
  <1>11. requests' = requests \o first \o <<b>> /\ (first = <<a>> \/ first = <<>>)
    BY <1>1
  <1> HIDE DEF a, b, first
  <1>12. /\ requests' \in Seq(Requests) /\ Len(requests') >= Len(requests)
         /\ \A k \in 1 .. Len(requests) : requests'[k] = requests[k]
         /\ \A k \in Len(requests) + 1 .. Len(requests') : requests'[k] \in {a, b}
    <2>1. requests \in Seq(Requests)
      BY DEF DeliveryInv, DeliveryTypeOK
    <2>2. CASE first = <<>>
      BY <1>10, <1>11, <2>1, <2>2
    <2>3. CASE first = <<a>>
      BY <1>10, <1>11, <2>1, <2>3
    <2> QED
      BY <1>11, <2>2, <2>3
  <1>13. /\ responses' \in Seq(Responses) /\ r = responses[1]
         /\ \A k \in DOMAIN responses' : k + 1 \in DOMAIN responses /\ responses'[k] = responses[k + 1]
         /\ StreamInv'
    <2>1. \A k \in Len(requests) + 1 .. Len(requests') :
               requests'[k].nonce = gateway'.nonces[requests'[k].type]
      BY <1>1, <1>10, <1>12
    <2>2. gateway' \in Gateways /\ gateway'.nonces = [gateway.nonces EXCEPT !["lds"] = r.nonce]
      BY <1>1, <1>8
    <2> QED
      BY <1>1, <1>3, <1>12, <2>1, <2>2, TakePreserves DEF DeliveryInv, r
  <1>14. RoutedTo' \subseteq RoutedTo /\ PendingClusters' \subseteq PendingClusters
    <2>1. \A n \in DOMAIN gateway'.routes :
             n \in DOMAIN gateway.routes /\ gateway'.routes[n] = gateway.routes[n]
      BY <1>1, <1>6, <1>8
    <2> QED
      BY <1>1, <1>13, <2>1, TakenClusters DEF controller
  <1>15. RoutesBacked'
    BY <1>1, <1>6, <1>8 DEF DeliveryInv, ClustersInv, RoutesBacked, controller
  <1>16. ClustersInv'
    BY <1>1, <1>8, <1>14, <1>15, ClustersKept DEF DeliveryInv, controller
  <1>17. DeliveryTypeOK'
    BY <1>1, <1>8, <1>12, <1>13 DEF DeliveryInv, DeliveryTypeOK, controller
  <1> QED
    BY <1>13, <1>16, <1>17 DEF DeliveryInv

-----------------------------------------------------------------------------
(* The specification. *)

LEMMA InitInv == DeliveryInit => DeliveryInv
  <1> SUFFICES ASSUME DeliveryInit PROVE DeliveryInv
    OBVIOUS
  <1> USE DEF DeliveryInit
  <1> DEFINE c == CHOOSE c \in Cluster : TRUE
  <1>1. c \in Cluster
    <2>1. PICK x \in Service : TRUE
      BY DeliveryAssumption
    <2>2. <<x, Region>> \in Cluster
      BY DEF Cluster
    <2> QED
      BY <2>2
  <1>2. /\ snapshot = [version |-> 1, route |-> c, clusters |-> {c}, certificate |-> "none"]
        /\ "none" \in Certificates
    BY DEF Certificates
  <1> HIDE DEF c
  <1>3. snapshot \in Snapshots /\ snapshot.route \in snapshot.clusters
    BY <1>1, <1>2 DEF Snapshots
  <1>4. NewGateway \in Gateways /\ DOMAIN NewGateway.routes = {}
    <2>1. [n \in {} |-> Nil] \in RouteTables
      <3>1. [n \in {} |-> Nil] \in [{} -> Cluster] /\ {} \in SUBSET Names
        OBVIOUS
      <3> QED
        BY <3>1 DEF RouteTables
    <2>2. [t \in Types |-> 0] \in [Types -> 0 .. 2] /\ [t \in Types |-> 0] \in [Types -> Nat]
      OBVIOUS
    <2> QED
      BY <2>1, <2>2 DEF NewGateway, Gateways
  <1>5. gateway \in Gateways /\ DOMAIN gateway.routes = {}
    BY <1>4
  <1>6. DOMAIN watch = {} /\ watch \in UNION {[types -> Watches] : types \in SUBSET Types}
    <2>1. watch \in [{} -> Watches] /\ {} \in SUBSET Types
      OBVIOUS
    <2> QED
      BY <2>1
  <1>7. /\ requests \in Seq(Requests) /\ responses \in Seq(Responses)
        /\ DOMAIN requests = {} /\ DOMAIN responses = {}
    OBVIOUS
  <1>8. last \in [Types -> [nonce : 0 .. 2, names : SUBSET Names]]
    <2>1. [nonce |-> 0, names |-> {}] \in [nonce : 0 .. 2, names : SUBSET Names]
      OBVIOUS
    <2> QED
      BY <2>1
  <1>9. connected \in BOOLEAN /\ resync \in BOOLEAN
    OBVIOUS
  <1>10. configured \in Certificates
    BY <1>2
  <1>11. DeliveryTypeOK
    BY <1>3, <1>5, <1>6, <1>7, <1>8, <1>9, <1>10 DEF DeliveryTypeOK
  <1>12. StreamInv
    <2>1. ~connected /\ requests = <<>>
      OBVIOUS
    <2> QED
      BY <1>6, <1>7, <2>1 DEF StreamInv, TypeInv, Awaiting, AgreeInv, Sent, Asked
  <1>13. ClustersInv
    <2>1. RoutedTo = {}
      BY <1>5, <1>6, <1>7 DEF RoutedTo
    <2>2. PendingClusters = {}
      BY <1>6, <1>7 DEF PendingClusters, Sent
    <2>3. RoutesBacked
      BY <1>5 DEF RoutesBacked
    <2> QED
      BY <1>3, <2>1, <2>2, <2>3 DEF ClustersInv
  <1> QED
    BY <1>11, <1>12, <1>13 DEF DeliveryInv

LEMMA StutterPreserves ==
  ASSUME DeliveryInv, UNCHANGED vars
  PROVE  DeliveryInv'
  <1> USE DEF vars, controller, streamVars
  <1>1. DeliveryTypeOK'
    BY DEF DeliveryInv, DeliveryTypeOK
  <1>2. StreamInv'
    BY DEF DeliveryInv, StreamInv, TypeInv, Awaiting, AgreeInv, AwaitInv, Sent, Asked
  <1>3. ClustersInv'
    BY DEF DeliveryInv, ClustersInv, RoutedTo, PendingClusters, Sent, RoutesBacked
  <1> QED
    BY <1>1, <1>2, <1>3 DEF DeliveryInv

(* The inductive invariant holds in every state. *)
THEOREM DeliveryInvariant == DeliverySpec => []DeliveryInv
  <1>1. DeliveryInv /\ [DeliveryNext]_vars => DeliveryInv'
    <2> SUFFICES ASSUME DeliveryInv, [DeliveryNext]_vars PROVE DeliveryInv'
      OBVIOUS
    <2>1. CASE Server
      BY <2>1, ServerPreserves
    <2>2. CASE Envoy
      BY <2>2, TakeClustersPreserves, TakeListenersPreserves, TakeRoutesPreserves,
         RejectRoutesPreserves DEF Envoy
    <2>3. CASE Connect
      BY <2>3, ConnectPreserves
    <2>4. CASE \/ \E c \in Cluster : Reroute(c)
               \/ \E k \in Certificates : Reconfigure(k)
               \/ Expire \/ Resync \/ FirstReconcile
      BY <2>4, ControllerPreserves
    <2>5. CASE Disconnect \/ RestartGateway \/ RestartController
      BY <2>5, FaultPreserves
    <2>6. CASE UNCHANGED vars
      BY <2>6, StutterPreserves
    <2> QED
      BY <2>1, <2>2, <2>3, <2>4, <2>5, <2>6 DEF DeliveryNext
  <1> QED
    BY InitInv, <1>1, PTL DEF DeliverySpec

(* A type has at most one response that the gateway has not answered, and  *)
(* none of the requests on their way can be taken for its answer: however  *)
(* many snapshots are set, requests cross responses and streams break.     *)
THEOREM OneOutstandingOnly == DeliverySpec => []OneOutstanding
  <1>1. ASSUME DeliveryInv PROVE OneOutstanding
    <2> SUFFICES ASSUME NEW t \in DOMAIN watch
                 PROVE  /\ Cardinality(Sent(t)) <= 1
                        /\ Sent(t) # {} => watch[t].response = Nil /\ watch[t].open = Nil
                        /\ Sent(t) # {} /\ last[t].nonce # 0 =>
                              {k \in DOMAIN requests :
                                  requests[k].type = t /\ requests[k].nonce = last[t].nonce} = {}
      BY DEF OneOutstanding, Sent
    <2>1. TypeInv(t)
      BY <1>1, WatchType DEF DeliveryInv, StreamInv
    <2>2. CASE Sent(t) = {}
      <3>1. Cardinality(Sent(t)) = 0
        BY <2>2, FS_EmptySet
      <3> QED
        BY <2>2, <3>1
    <2>3. CASE Sent(t) # {}
      <3>1. AwaitInv(t)
        BY <2>1, <2>3 DEF TypeInv, AgreeInv
      <3>2. PICK k \in Sent(t) : Sent(t) = {k}
        BY <2>3, <3>1 DEF AwaitInv
      <3>3. Cardinality(Sent(t)) = 1
        BY <3>2, FS_Singleton
      <3>4. \A j \in DOMAIN requests :
               ~(requests[j].type = t /\ requests[j].nonce = last[t].nonce)
        BY <2>3, <3>1 DEF AwaitInv, Asked
      <3> QED
        BY <3>1, <3>3, <3>4 DEF AwaitInv
    <2> QED
      BY <2>2, <2>3
  <1> QED
    BY DeliveryInvariant, <1>1, PTL

(* The gateway routes to clusters that it has, unless the controller took  *)
(* one away, or brought it back, too soon: although clusters and routes    *)
(* are sent by separate responses, rejected, lost and sent again.          *)
THEOREM RoutesStayBacked == DeliverySpec => []RoutesBacked
  <1>1. DeliveryInv => RoutesBacked
    BY DEF DeliveryInv, ClustersInv
  <1> QED
    BY DeliveryInvariant, <1>1, PTL

=============================================================================
