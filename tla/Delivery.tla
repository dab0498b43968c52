------------------------------- MODULE Delivery -------------------------------
(***************************************************************************)
(* The way of a snapshot from the controller to a gateway: the snapshot    *)
(* cache and the ADS stream of pkg/envoy/server/xds_server.go, which hand  *)
(* out clusters (CDS), listeners (LDS) and routes (RDS) by separate        *)
(* requests and responses, and the callback of                             *)
(* pkg/reconciler/ingress/controller.go for the ones Envoy rejects.        *)
(*                                                                         *)
(* All gateways share a node ID and have streams that share nothing but    *)
(* the snapshot, so there is one gateway here.  Its routes are abstracted  *)
(* to the cluster they forward to, its listeners to the names of the route *)
(* configurations they ask for and to whether Envoy takes their            *)
(* certificate.                                                            *)
(*                                                                         *)
(* A nonce counts the responses of a type modulo two: OneOutstanding shows *)
(* that a request is only ever late by one.  Zero is "", no nonce.         *)
(***************************************************************************)
EXTENDS Naturals, Sequences, FiniteSets

CONSTANTS
    Service,       \* the backends an ingress is routed to, one at a time
    Region,        \* a cluster is named after a service and a region
    Budgets,       \* of events: b[e] bounds how many of kind e may happen
    Nil            \* no open watch, no response, no cluster

EventKinds == {"reroute", "expire", "reconfigure", "resync", "fault"}

ASSUME DeliveryAssumption ==
    Budgets \subseteq [EventKinds -> Nat] /\ Service # {}

VARIABLES
    configured, \* the certificate the ConfigMap asks for
    snapshot,   \* snapshotCache.snapshots of the gateways' node ID
    watch,      \* watches.responders: per type, the watch of the stream
    last,       \* lastDiscoveryResponses: per type, nonce and names
    known,      \* streamState: names of the route configurations received
    requests,   \* the stream, from the gateway
    responses,  \* the stream, to the gateway
    connected,  \* is there a stream?
    gateway,    \* what Envoy has taken over
    resync,     \* a rejection made the controller enqueue ingresses
    hasty,      \* clusters that left the snapshots, or came back, too soon
    budget      \* events that may still happen

streamVars == <<watch, last, known, requests, responses, connected>>
controller == <<configured, resync, hasty>>
vars == <<controller, snapshot, streamVars, gateway, budget>>

-----------------------------------------------------------------------------
(* Snapshots. *)

Spend(e) == budget[e] > 0 /\ budget' = [budget EXCEPT ![e] = @ - 1]

Cluster == Service \X {Region}

Types == {"cds", "lds", "rds"}

(* The function f with the values of g where g has one. *)
Updated(f, g) == [x \in DOMAIN f \cup DOMAIN g |-> IF x \in DOMAIN g THEN g[x] ELSE f[x]]

(* The internal certificate: not configured, accepted or rejected by Envoy. *)
Certificates == {"none", "good", "bad"}

(* The route configurations of a snapshot: the ones of the regions, and    *)
(* the one of the internal TLS listener where a certificate is configured. *)
RouteNames(s) == IF s.certificate = "none" THEN {"regions"} ELSE {"regions", "internal_tls"}

(* Faulty variant of NewVersion: the version is a count that starts over   *)
(* with the process.                                                       *)
NewVersionCounted(restarted) == IF restarted THEN 1 ELSE snapshot.version + 1

(* The version of every resource of a new snapshot: a new uuid. *)
NewVersion(restarted) == snapshot.version + 1

(* What a response carries: clusters, the listeners' certificate, or the   *)
(* routes of the names asked for that exist.                               *)
Resources(s, request) ==
    CASE request.type = "cds" -> s.clusters
      [] request.type = "lds" -> s.certificate
      [] request.type = "rds" -> [n \in RouteNames(s) \cap request.names |-> s.route]

-----------------------------------------------------------------------------
(* The snapshot cache. *)

(* A watch that no one will answer: it is not registered in the cache. *)
Silent == [nonce |-> 0, open |-> Nil, response |-> Nil]

(* respond: in ADS mode a response is withheld when the snapshot has a     *)
(* resource whose name was not asked for.                                  *)
Respond(s, request) ==
    IF request.names # {} /\ ~(RouteNames(s) \subseteq request.names)
    THEN Nil
    ELSE [type |-> request.type, version |-> s.version, nonce |-> 0, names |-> request.names,
          resources |-> Resources(s, request)]

(* SetSnapshot answers an open watch and discards it, also when the answer *)
(* is withheld.                                                            *)
Responded(w, s) == [w EXCEPT !.open = Nil, !.response = Respond(s, w.open)]

(* SetSnapshot: every open watch of another version is answered.  The      *)
(* channel of a watch has room for the one answer it gets.                 *)
SetSnapshot(s) ==
    /\ snapshot' = s
    /\ watch' = [t \in DOMAIN watch |->
                   IF watch[t].open # Nil /\ watch[t].open.version # s.version
                   THEN Responded(watch[t], s)
                   ELSE watch[t]]

(* CreateWatch: a request for what the gateway has, and for no name it has *)
(* not received yet, waits for the next snapshot.  Any other is answered   *)
(* at once, or withheld without leaving a watch.                           *)
CreateWatch(request, names) ==
    IF /\ request.version = snapshot.version
       /\ (request.names \ names) \cap RouteNames(snapshot) = {}
    THEN [Silent EXCEPT !.open = request]
    ELSE [Silent EXCEPT !.response = Respond(snapshot, request)]

-----------------------------------------------------------------------------
(* The server's side of the stream. *)

(* StreamRequestFunc: does a rejection make the controller enqueue any     *)
(* ingress?  The name of an unknown cluster is looked up as the name of a  *)
(* service; for every other error the ingresses that are not ready are     *)
(* enqueued.                                                               *)
StreamRequestFunc(error) ==
    \/ error.kind = "unknown_cluster" /\ \E s \in Service : s = error.cluster
    \/ error.kind = "other"

(* Faulty variant of UpToDate: a request is taken whatever its nonce. *)
UpToDateAlways(t, request) == TRUE

(* A request replaces the watch of its type unless it was sent before the  *)
(* response of that watch arrived.                                         *)
UpToDate(t, request) == t \in DOMAIN watch => watch[t].nonce \in {0, request.nonce}

(* process, an inbound request.  A response that is still in the channel   *)
(* of the watch it replaces is lost.                                       *)
ReceiveRequest ==
    /\ requests # <<>>
    /\ LET request == Head(requests)
           t == request.type
           names == IF t = "rds" /\ last[t].nonce = request.nonce THEN last[t].names ELSE known
       IN  /\ resync' = (resync \/ StreamRequestFunc(request.error))
           /\ known' = names
           /\ watch' = IF UpToDate(t, request)
                       THEN Updated(watch, [u \in {t} |-> CreateWatch(request, names)])
                       ELSE watch
    /\ requests' = Tail(requests)
    /\ UNCHANGED <<configured, hasty, snapshot, last, responses, connected, gateway, budget>>

(* process, a response from the channel of a watch: it is given its nonce  *)
(* when it is sent.  The select takes the channels that are ready in any   *)
(* order.                                                                  *)
SendResponse(t) ==
    /\ t \in DOMAIN watch /\ watch[t].response # Nil
    /\ LET nonce == (last[t].nonce % 2) + 1
       IN  /\ responses' = Append(responses, [watch[t].response EXCEPT !.nonce = nonce])
           /\ last' = [last EXCEPT ![t] = [nonce |-> nonce, names |-> watch[t].response.names]]
           /\ watch' = [watch EXCEPT ![t] = [Silent EXCEPT !.nonce = nonce]]
    /\ UNCHANGED <<controller, snapshot, known, requests, connected, gateway, budget>>

-----------------------------------------------------------------------------
(* Envoy.  Clusters are always accepted.  Listeners are taken over one by  *)
(* one: a rejected certificate leaves the internal TLS listener as it was  *)
(* and applies the others.  Routes are validated against the clusters.     *)

NoError == [kind |-> "none", cluster |-> Nil]

NewGateway == [versions |-> [t \in Types |-> 0], nonces |-> [t \in Types |-> 0],
               clusters |-> {}, names |-> {}, routes |-> [n \in {} |-> Nil]]

Request(g, t, error) ==
    [type |-> t, version |-> g.versions[t], nonce |-> g.nonces[t],
     names |-> IF t = "rds" THEN g.names ELSE {}, error |-> error]

(* What the gateway is after it has accepted a response. *)
Received(g, response) ==
    [g EXCEPT !.nonces[response.type] = response.nonce,
              !.versions[response.type] = response.version]

(* The clusters of new routes the gateway does not have. *)
UnknownClusters(routes) == {routes[n] : n \in DOMAIN routes} \ gateway.clusters

TakeClusters ==
    /\ responses # <<>> /\ Head(responses).type = "cds"
    /\ LET g == [Received(gateway, Head(responses)) EXCEPT !.clusters = Head(responses).resources]
       IN  /\ gateway' = g
           /\ requests' = Append(requests, Request(g, "cds", NoError))
    /\ responses' = Tail(responses)
    /\ UNCHANGED <<controller, snapshot, watch, last, known, connected, budget>>

(* The names the gateway's listeners ask for once it has taken listeners   *)
(* with this certificate.                                                  *)
NamesTaken(certificate) ==
    IF certificate = "bad" THEN gateway.names \cup {"regions"}
                           ELSE RouteNames([certificate |-> certificate])

(* Other names are asked for at once. *)
TakeListeners ==
    /\ responses # <<>> /\ Head(responses).type = "lds"
    /\ LET r     == Head(responses)
           bad   == r.resources = "bad"
           names == NamesTaken(r.resources)
           kept  == [n \in names \cap DOMAIN gateway.routes |-> gateway.routes[n]]
           old   == [gateway EXCEPT !.names = names, !.routes = kept]
           g     == IF bad THEN [old EXCEPT !.nonces["lds"] = r.nonce] ELSE Received(old, r)
           error == IF bad THEN [NoError EXCEPT !.kind = "other"] ELSE NoError
       IN  /\ gateway' = g
           /\ requests' = requests
                \o (IF names # gateway.names THEN <<Request(g, "rds", NoError)>> ELSE <<>>)
                \o <<Request(g, "lds", error)>>
    /\ responses' = Tail(responses)
    /\ UNCHANGED <<controller, snapshot, watch, last, known, connected, budget>>

TakeRoutes ==
    /\ responses # <<>> /\ Head(responses).type = "rds"
    /\ LET r == Head(responses)
           routes == [n \in DOMAIN r.resources \cap gateway.names |-> r.resources[n]]
           g == [Received(gateway, r) EXCEPT !.routes = Updated(@, routes)]
       IN  /\ UnknownClusters(routes) = {}
           /\ gateway' = g
           /\ requests' = Append(requests, Request(g, "rds", NoError))
    /\ responses' = Tail(responses)
    /\ UNCHANGED <<controller, snapshot, watch, last, known, connected, budget>>

RejectRoutes ==
    /\ responses # <<>> /\ Head(responses).type = "rds"
    /\ LET r == Head(responses)
           g == [gateway EXCEPT !.nonces["rds"] = r.nonce]
       IN  \E c \in UnknownClusters([n \in DOMAIN r.resources \cap gateway.names |-> r.resources[n]]) :
              /\ gateway' = g
              /\ requests' = Append(requests,
                   Request(g, "rds", [kind |-> "unknown_cluster", cluster |-> c]))
    /\ responses' = Tail(responses)
    /\ UNCHANGED <<controller, snapshot, watch, last, known, connected, budget>>

-----------------------------------------------------------------------------
(* The controller sets snapshots. *)

(* Where routes may still lead: what the gateway has, has been sent, or    *)
(* will be sent.                                                           *)
RoutedTo ==
    LET sent == {responses[k].resources : k \in {l \in DOMAIN responses : responses[l].type = "rds"}}
        queued == {watch[t].response.resources :
                     t \in {u \in DOMAIN watch : u = "rds" /\ watch[u].response # Nil}}
    IN  UNION {{f[n] : n \in DOMAIN f} : f \in {gateway.routes} \cup sent \cup queued}

(* The unused clusters that are still routed to. *)
Leaving == RoutedTo \cap (snapshot.clusters \ {snapshot.route})

(* A cluster that comes back before the gateway has been told that it left *)
(* (and is told so after the new routes to it).                            *)
Returning(c) == ({c} \cap gateway.clusters) \ snapshot.clusters

(* A reconciliation: the resources under a new version, with the settings  *)
(* of the ConfigMap.                                                       *)
Reconcile(route, clusters) ==
    /\ SetSnapshot([version |-> NewVersion(FALSE), route |-> route, clusters |-> clusters,
                    certificate |-> configured'])
    /\ UNCHANGED <<last, known, requests, responses, connected, gateway>>

(* Faulty variant of Reroute: the cluster an ingress stops using leaves    *)
(* with the routes to it.                                                  *)
RerouteAtOnce(c) ==
    /\ c # snapshot.route
    /\ Spend("reroute")
    /\ hasty' = hasty \cup Returning(c)
    /\ UNCHANGED <<configured, resync>>
    /\ Reconcile(c, {c})

(* An ingress is routed to another service: the cluster of the old one     *)
(* stays for its expiration time.                                          *)
Reroute(c) ==
    /\ c # snapshot.route
    /\ Spend("reroute")
    /\ hasty' = hasty \cup Returning(c)
    /\ UNCHANGED <<configured, resync>>
    /\ Reconcile(c, snapshot.clusters \cup {c})

(* The clusters that are no longer used expire, and their eviction leads   *)
(* to a snapshot without them.                                             *)
Expire ==
    /\ snapshot.clusters # {snapshot.route}
    /\ Spend("expire")
    /\ hasty' = hasty \cup Leaving
    /\ UNCHANGED <<configured, resync>>
    /\ Reconcile(snapshot.route, {snapshot.route})

(* The internal certificate is configured, replaced or removed: a resync   *)
(* of all the ingresses.                                                   *)
Reconfigure(certificate) ==
    /\ certificate # configured
    /\ Spend("reconfigure")
    /\ configured' = certificate
    /\ UNCHANGED <<resync, hasty>>
    /\ Reconcile(snapshot.route, snapshot.clusters)

(* The ingresses that a rejection enqueued are reconciled. *)
Resync ==
    /\ resync
    /\ Spend("resync")
    /\ resync' = FALSE
    /\ UNCHANGED <<configured, hasty>>
    /\ Reconcile(snapshot.route, snapshot.clusters)

(* After a restart the informers enqueue all ingresses, and the first of   *)
(* them to be reconciled brings the settings in.                           *)
FirstReconcile ==
    /\ snapshot.certificate # configured
    /\ UNCHANGED <<controller, budget>>
    /\ Reconcile(snapshot.route, snapshot.clusters)

-----------------------------------------------------------------------------
(* Faults. *)

NewStream ==
    /\ watch' = [t \in {} |-> Silent]
    /\ last' = [t \in Types |-> [nonce |-> 0, names |-> {}]]
    /\ known' = {}
    /\ responses' = <<>>

(* The gateway opens a stream and asks for what it has; nonces start over. *)
Connect ==
    /\ ~connected
    /\ connected' = TRUE
    /\ NewStream
    /\ gateway' = [gateway EXCEPT !.nonces = [t \in Types |-> 0]]
    /\ requests' = <<Request(gateway', "cds", NoError), Request(gateway', "lds", NoError)>>
                     \o (IF gateway.names # {} THEN <<Request(gateway', "rds", NoError)>> ELSE <<>>)
    /\ UNCHANGED <<controller, snapshot, budget>>

Fault ==
    /\ Spend("fault")
    /\ connected' = FALSE
    /\ requests' = <<>>

(* The stream breaks: what is on its way is lost, its watches are closed.  *)
Disconnect ==
    /\ connected /\ Fault /\ NewStream
    /\ UNCHANGED <<controller, snapshot, gateway>>

(* A gateway pod is replaced. *)
RestartGateway ==
    /\ Fault /\ NewStream
    /\ gateway' = NewGateway
    /\ UNCHANGED <<controller, snapshot>>

(* The controller restarts.  Its first snapshot is made of the default     *)
(* settings, and has the clusters in use only: the ones waiting for their  *)
(* expiration are forgotten.                                               *)
RestartController ==
    /\ Fault /\ NewStream
    /\ snapshot' = [snapshot EXCEPT !.version = NewVersion(TRUE), !.clusters = {snapshot.route},
                                    !.certificate = "none"]
    /\ hasty' = hasty \cup Leaving
    /\ resync' = FALSE
    /\ UNCHANGED <<configured, gateway>>

-----------------------------------------------------------------------------

DeliveryInit ==
    /\ configured = "none"
    /\ LET c == CHOOSE c \in Cluster : TRUE
       IN  snapshot = [version |-> 1, route |-> c, clusters |-> {c}, certificate |-> "none"]
    /\ watch = [t \in {} |-> Silent]
    /\ last = [t \in Types |-> [nonce |-> 0, names |-> {}]]
    /\ known = {}
    /\ requests = <<>>
    /\ responses = <<>>
    /\ connected = FALSE
    /\ gateway = NewGateway
    /\ resync = FALSE
    /\ hasty = {}
    /\ budget \in Budgets

Server == ReceiveRequest \/ \E t \in Types : SendResponse(t)

Envoy == TakeClusters \/ TakeListeners \/ TakeRoutes \/ RejectRoutes

DeliveryNext ==
    \/ Server \/ Envoy \/ Connect
    \/ \E c \in Cluster : Reroute(c)
    \/ \E k \in Certificates : Reconfigure(k)
    \/ Expire \/ Resync \/ FirstReconcile
    \/ Disconnect \/ RestartGateway \/ RestartController

(* Both ends of a stream handle what arrives, the select of the server     *)
(* takes every channel that stays ready, and a gateway without a stream    *)
(* opens one.  A restarted controller reconciles its ingresses.  Nothing   *)
(* is assumed of other snapshots, nor of faults.                           *)
DeliveryFairness ==
    /\ WF_vars(ReceiveRequest)
    /\ \A t \in Types : WF_vars(SendResponse(t))
    /\ WF_vars(Envoy)
    /\ WF_vars(Connect)
    /\ WF_vars(FirstReconcile)

DeliverySpec == DeliveryInit /\ [][DeliveryNext]_vars /\ DeliveryFairness

-----------------------------------------------------------------------------
(***************************************************************************)
(* Properties.                                                             *)
(***************************************************************************)

(* A type has at most one response that the gateway has not answered, be   *)
(* it in the channel of its watch, on its way or being answered, so that   *)
(* an old answer is never taken for the answer to a newer response.        *)
OneOutstanding ==
    \A t \in DOMAIN watch :
        LET sent == {k \in DOMAIN responses : responses[k].type = t}
            answers == {k \in DOMAIN requests :
                          requests[k].type = t /\ requests[k].nonce = last[t].nonce}
        IN  /\ Cardinality(sent) <= 1
            /\ sent # {} => watch[t].response = Nil /\ watch[t].open = Nil
            /\ sent # {} /\ last[t].nonce # 0 => answers = {}

(* The gateway never routes to a cluster it does not have, although        *)
(* clusters and routes arrive in any order, as long as a cluster stays in  *)
(* the snapshots until the gateway has no more routes to it, and does not  *)
(* come back before the gateway has dropped it.                            *)
RoutesBacked ==
    \A n \in DOMAIN gateway.routes : gateway.routes[n] \in gateway.clusters \cup hasty

(* The stream no longer has a watch for routes: the last answer was        *)
(* withheld because the snapshot of that time had a name that was not      *)
(* asked for.                                                              *)
RoutesForgotten == "rds" \in DOMAIN watch /\ watch["rds"] = Silent

(* The gateway dropped the routes of the internal TLS listener when it had *)
(* no such listener, and asks for them again under the version the server  *)
(* has sent before: to the server they are known.                          *)
TLSRoutesDropped == "internal_tls" \in known \ DOMAIN gateway.routes

(* Once snapshots and faults cease, the gateway ends up with the clusters  *)
(* and the routes of the last snapshot, whatever it rejected on the way.   *)
(* Not so when an answer was withheld for the internal TLS listener and    *)
(* that listener is rejected, or is gone before the gateway has learnt of  *)
(* it: then the gateway has no reason to ask again.  And the routes of     *)
(* that listener itself may be missing after it was gone for a moment, as  *)
(* it is whenever the controller restarts.                                 *)
Converges ==
    <>[](/\ gateway.clusters = snapshot.clusters
         /\ snapshot.certificate = configured
         /\ \/ \A n \in RouteNames(snapshot) :
                  IF n \in DOMAIN gateway.routes
                  THEN gateway.routes[n] = snapshot.route
                  ELSE n = "internal_tls" /\ TLSRoutesDropped
            \/ RoutesForgotten /\ snapshot.certificate # "good")

=============================================================================
