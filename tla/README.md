# net-kourier: a TLA+ verification project

net-kourier is the Knative ingress controller that programs Envoy ("Kourier
gateway") from Knative `Ingress` objects. This repository is a variant that
serves three *regions*: one cluster, one set of routes and one filter chain per
region, so that traffic stays on the node it enters.

This directory holds TLA+ modules that model the controller's own logic, TLC
configurations that check them on small instances, and proofs that TLAPS checks
for every instance. `PROJECT.json` maps every definition to the lines it models.

## Inventory

| Component | State it keeps | Operations | Module |
|---|---|---|---|
| Caches (`pkg/generator/caches.go`) | translations by ingress, domains in use | `UpdateIngress`, `DeleteIngressInfo`, `ToEnvoySnapshot`, `SetOnEvicted` | `Caches`, `Controller` |
| Cluster cache (`cluster_cache.go`, go-cache) | clusters by (name, ingress), with expiration | `set`, `setExpiration`, `list`, janitor | `Caches` |
| Ingress translator (`ingress_translator.go`, `generator.go`) | none; reads services, endpoints, secrets, tracks them | `translateIngress`, `UpdateInfoForIngress` | `Translator`, abstracted in `Controller` |
| Reconciler (`pkg/reconciler/ingress/ingress.go`) | none of its own | `ReconcileKind`, `ObserveDeletion`, `FinalizeKind`, `ObserveKind` | `Controller` (not `ObserveKind`) |
| Controller setup (`controller.go`) | event handlers, callbacks, priming | `NewController`, `getReadyIngresses`, `resyncConflicts`, the handler of rejected snapshots | `Controller`, `Delivery`, `Prober` |
| Probe targets (`lister.go`) | none; reads gateway pods | `ListProbeTargets` | `Prober`, `Controller`, `Translator` |
| Status prober (vendored) | probing state per ingress, counters, contexts | `IsReady`, `CancelIngressProbing`, `CancelPodProbing`, workers, cancellation goroutines | `Prober`, abstracted in `Controller` |
| Work queue, tracker, generated reconciler (vendored) | queued keys, tracked services | `Reconcile`, `OnChanged`, `OnDeletedObserver`, requeue | `Controller` |
| xDS server (`pkg/envoy/server`, go-control-plane) | snapshot, watches, streams | `SetSnapshot`, `CreateWatch`, `process` | `Delivery`, abstracted in `Controller` |
| Envoy resources (`pkg/envoy/api`), regions, status virtual host | none | constructors | `Translator`, `Settings` |
| Listeners (`pkg/envoy/api/listener.go`) | none; reads nodes and IPAM blocks | `NewHTTPListenerDual` and the internal TLS listener | `Listeners`, `Translator` |
| SNI deduplication (`sni.go`) | none; writes into cached translations | `consume`, `list` | not modelled |
| Configuration, external authorization (`pkg/config`) | environment, ConfigMap | `init`, `NewConfigFromMap`, `FromContextOrDefaults` | `Settings`, `Translator` |
| Secret informer filtering, `main`, `bonalib` | none | selection of a label, start, printing | not modelled |

How they interact. Informers turn events of the API server into keys of a work
queue. A worker takes a key, translates the ingress (tracking its services),
updates the caches under `Caches.mu`, builds a snapshot under the same lock,
hands it to the xDS server without the lock, asks the prober whether the gateways
serve it, and writes the status. The prober, the cache's janitor and the tracker
call back by adding keys to the queue. Nothing is persisted: a restarted process
rebuilds its caches from the status of the Ingress objects.

What is hard about it:

* two workers and the lock that is released between building and setting a
  snapshot;
* an update that deletes before it validates, and a domain set maintained by
  increments and decrements in different functions;
* clusters that outlive their ingress and may be claimed again while they
  expire, under a name they share with the clusters of other ingresses;
* wake-ups that depend on one particular callback (deletion unwedges conflicts,
  eviction forces a snapshot, a successful probe makes ready);
* conditions of an older generation that take part in the new `Ready`;
* a restart that believes a condition, and dies when it is stale, and whose first
  snapshot is made before the configuration is read;
* a prober whose counters are decremented by workers and by goroutines that wait
  for a cancellation, without a lock;
* clusters, listeners and routes that reach a gateway by separate requests, in
  any order, and may be rejected one without the other;
* slices per region, filled in some branches for the first region only.

Every one of these is a hazard in `PROJECT.json`, at its line, with the
properties that watch it or the reason why none does yet.

What makes each component correct:

* *caches*: a domain has one owner, the domains in use are exactly those of the
  translations, a cluster in use never expires and one that is not always does;
* *translator*: what is accepted refers to clusters that exist, keeps traffic in
  its region, claims the same hosts in every region; it never panics, every
  rule, path and port of the spec has the effect it asks for, nothing it read
  changes unnoticed, and the snapshot refers to nothing it does not contain;
* *prober*: no pod is counted twice or forgotten, an answer for an old version is
  not taken for the new one, and the reconciler is called back;
* *xDS server*: a gateway ends up with the last snapshot and never routes to a
  cluster it lacks;
* *controller*: every snapshot is acceptable to Envoy, the last one matches the
  API server, ready means probed and served, every ingress ends up ready or in
  conflict, a conflict is reported only while it exists, a restart loses nothing.

## Modules

**`DomainRegistry`** is the abstract specification of the caches: a function
from ingresses to the domains they own, with `Claim`, `Refuse` (the refused
ingress loses what it held) and `Release`.

**`Caches`** models `caches.go` and `cluster_cache.go`. `translatedIngresses`,
`clusters` and `domainsInUse` are the fields of `Caches`; an item of `clusters`
has a `ttl`, the ticks left to live (`NoExpiration` is -1 as in go-cache).
`UpdateIngressAccepted` and `UpdateIngressConflict` are the two ways through
`UpdateIngress`, `DeleteIngressInfo` is the function of that name, `Tick` the
clock, `DeleteExpired` the janitor, `OnEvicted` its callback. A translation is
abstracted to its domains and to a function from cluster names to endpoints.
`RegistrySpec` states that it implements `DomainRegistry`, ingress `i` owning
the domains of its cached translation. The module takes any translation;
which ones the translator produces is the matter of `Translator`.

**`Controller`** extends `Caches` with everything around it. State: the API
server (`objects`, `services`, `gateway`), the work queue, one record per worker
with its program counter, the tracker and the deletions it has not heard of yet,
the prober, the snapshot the xDS server holds, and whether the process is up. A reconciliation is one action per step
between which others act:

| Action | Code |
|---|---|
| `StartReconcile`, `Finalize`, `ObserveDeletion` | the generated reconciler's dispatch, with the finalizer |
| `TranslateIngress`, `TranslateFails` | `UpdateInfoForIngress` up to the caches |
| `UpdateCaches` | `Caches.UpdateIngress` under its lock |
| `BuildSnapshot`, `SetSnapshot` | the two halves of `updateEnvoyConfig` |
| `SnapshotFails`, `DeletionFails` | its error, in `ReconcileKind` and in `ObserveDeletion` |
| `FinishConflict`, `FinishError`, `FinishReady`, `FinishProbe*` | the rest of `ReconcileKind`, and the status update |
| `ResyncConflicts` | the end of `ObserveDeletion` |
| `ProbeSucceeds`, `EvictionCallback`, `Janitor`, `ClockTick` | callbacks and background goroutines |
| `OnDeletedObserver` | the tracker's own listener for deletions, which may run late |
| `CreateIngress`, `UpdateSpec`, `DeleteIngress`, `ScaleService`, `LoseService`, `ToggleGateway`, `DeleteGatewayPod`, `GlobalResync` | events, with the handlers they run |
| `Restart`, `RestartFatal` | `NewController` in a new process |

Abstractions of `Controller`: an ingress has a set of domains and one backend
service, whose cluster stands for the three of its regions; informer caches are
up to date; a gateway serves a snapshot as soon as it is set (`Delivery` has what
lies between); probing is one state per ingress (`Prober` has the rest). A snapshot has one
cluster of each name, as the snapshot cache indexes resources by name; where
several ingresses have a cluster of one name, `ToEnvoySnapshot` leaves open
which one it is, because the cluster cache is listed in the order of a Go map.
Endpoints are not empty (a service without ready addresses panics, see
`translator_scaled`), and the rules are taken to be cluster-local: the probe of
an external rule never succeeds, see `translator_external`.

**`Settings`** is `pkg/config` and the connection managers: the environment of
external authorization and the ConfigMap, what of them is refused, the conversion
of a port to a `uint32`, and the filters and the tracer a connection manager gets
from them.

**`Translator`** follows the process from its start, over the empty snapshot it
serves first (`Boot`, with default settings) and the ConfigMap (`LoadConfig`), to
one ingress on its way through `translateIngress`,
`validateIngress`/`addTranslatedIngress` and
`generateListenersAndRouteConfigsAndClusters`. Each stage ends in `ok`, `nil`,
`error`, `panic` or `fatal`; the order of the checks inside the loops is kept
(`SplitOutcome`, `TranslateOutcome`), and so is what has been tracked when one of
them ends the translation (`Tracks`). Clusters are records of port, upstream TLS
and endpoints; routes and virtual hosts are records per region. The snapshot is
the set of listeners, each with its port, proxy protocol and a connection manager
per filter chain, the route configurations by name, and the clusters. Headers,
timeouts, HTTP/2 of backends and the contents of TLS contexts are left out. Of SNI
matches only their presence counts: it ends the process (`GenerateOutcome`).

**`Listeners`**, which `Translator` extends, has the filter chains of the HTTP
listeners: a region's chain is chosen by source address, from the region's node
and the IPAM blocks whose affinity mentions it. A node is the number in its name,
of up to five digits,
which is enough to say when one name contains another. Credentials or nodes that
cannot be read, a node without address and a block that does not parse are panics
(`ListenerOutcome`). Together with the routes
this is the whole way of a request: `SourcesKept` says which region's routes it
meets, `RegionIsolation` which pods these lead to.

**`Countdown`** is the abstract specification of the prober: a probing waits for
a set of pods, each finished once, and calls back with the last of them.

**`Prober`** models the vendored `pkg/status`, as the controller uses it. A
*session* is an `ingressState`. `IsReady` is the sequence `IsReadyNew`,
`ListProbeTargets`, one `ProbePod` per IP and `StoreState`, between which
anything may happen; the session is in the map only after its probes have been
queued. Workers are `ProbeAnswered`, `ProbeAbandoned` and `CountProbe`; the
goroutine that waits for a pod's context is `JoinContexts`, `LoadPending` and
`SwapPending` (a load and a compare-and-swap, which may fail and begin anew).
Around it are the informers, which may be late (`SyncEndpoints`,
`CancelPodProbing`) or deliver a tombstone (`MissPodDeletion`), and a work queue
of one key. `CountsDown` states that it implements `Countdown`, a session waiting
for the pods its counter has not been told of.

**`Delivery`** models the way of a snapshot to one gateway: go-control-plane's
snapshot cache in ADS mode (`SetSnapshot`, `CreateWatch`, `Respond`), the
server's loop over a stream (`ReceiveRequest`, `SendResponse`, with nonces), the
handler of rejections in `NewController` (`StreamRequestFunc`), and Envoy, which
is external (`TakeClusters`, `TakeListeners`, `TakeRoutes`, `RejectRoutes`).
The controller sets snapshots (`Reroute`, `Expire`, `Reconfigure`, `Resync`,
`FirstReconcile`); streams break and both processes restart. Gateways share
nothing but the snapshot, so that one is enough. Nonces are counted modulo two,
which `OneOutstanding` justifies.

`MCController`, `MCTranslator`, `MCProber` and `MCDelivery` hold the budgets and
the inputs of the runs.

**`CachesProofs`**, **`ControllerProofs`**, **`TranslatorProofs`**,
**`ProberProofs`** and **`DeliveryProofs`** extend the modules they are named
after with their theorems. **`ControllerReady`** and **`ControllerSettles`** build
on `ControllerProofs`: what "ready" guarantees, and what is true once nothing is
pending. **`SequenceFacts`** has the lemmas about `FlattenSeq` that
`TranslatorProofs` rests on.

## Runs

Each passing run and what it shows:

* `caches` (2 ingresses, 2 domains, 1 cluster name, 2 contents, expiration after
  2 ticks, external authorization on): any interleaving of updates, refusals,
  deletions, clock and janitor. `DomainsExact`, `ClustersPinned`,
  `NoClusterLeak`, the refinement `RegistrySpec` (which implies that no domain has
  two owners; the proofs state that as `DomainsExclusive`), and the liveness
  property `OrphansReclaimed`.
* `translator` (67,254 states): 8 shapes of a service, 12 sequences of rules, TLS,
  redirect and switches of the environment, ConfigMaps and settings of external
  authorization that parse or do not, with 3 regions as in `pkg/region`; the plain
  ingresses also in clusters that lack nodes, addresses or blocks, have a block that
  does not parse, or cannot be read. `RoutesResolve`, `RegionIsolation`, `SameDomains`, `PortsRespected`,
  `PathsServed`, `LocalRulesServed`, `SourcesKept`; `SnapshotClosed` (listeners,
  filters and tracers ask for exactly what the snapshot has), `PortsValid`,
  `ChangesNoticed` (whatever ended or entered a translation is tracked).
* `controller_churn` (957,343 states; one worker; 2 creations, 1 change, 1
  deletion, and 1 scaling or 1 restart at any point; or 1 creation, 1 change, a step
  that fails, a restart that may fail too, and a gateway that goes and comes back):
  `ServedWellFormed`,
  `QuietIsFresh`, `EndpointsSettle`, `ReadyIsServed`, `ReadyIsProbed`,
  `ReadySurvivesRestart`, and under fairness `Settles` and `DeadClustersLeave`.
* `controller_workers` (898,538 states; two workers): `ServedWellFormed`,
  `QuietCachesFresh`, `ConflictJustified`. With two workers the caches are always
  right in the end; Envoy's view need not be (`controller_snapshot_race`).
* `controller_faults` (1,161,623 states; one ingress; a translation or a snapshot
  that fails, service lost and back, gateway without pods, pod deleted, a resync):
  `QuietIsFresh`, `ReadyIsProbed`, `Settles`.
* `prober` (251,301 states; a gateway pod that is replaced by another, an ingress
  that is changed or deleted once, versions of one and of two URLs):
  `CountsExact`, `ReadyJustified`, `OneSession`, the refinement `CountsDown`, and
  the liveness property `EventuallyReady`.
* `delivery` (829,196 states; two services; four budgets: routes that move there
  and back while a cluster expires, a certificate that changes twice, a fault while
  routes move, a rejected certificate with a resync and a fault): `OneOutstanding`,
  `RoutesBacked`, and the liveness property `Converges`.

Runs that end in a counterexample document places where the code does not do
what its comments, its documentation or the types it uses say; `findings` in
`PROJECT.json` quotes the lines.

| Run | What the code does |
|---|---|
| `controller_snapshot_race` | `SetSnapshot` is called outside the lock: with two workers the older snapshot may be set last, and Envoy keeps endpoints that are gone |
| `controller_recreate` | a deletion merged with a creation of the same name frees a domain and wakes nobody who waits for it |
| `controller_startup` | two ingresses that were both configured once and now claim one domain make every start of the process fail |
| `translator_scaled` | a service without ready addresses makes the process panic |
| `translator_external` | the external route configuration is built from TLS hosts and lacks external rules |

Some properties of the passing runs hold only with an exception, which their
definitions state and which is how the code behaves:

* `EndpointsSettle` excepts states in which an ingress is in conflict. The
  expiring cluster that ingress left behind may hide the cluster of the same name
  of another ingress, and its eviction leads to no new snapshot.
* `EndpointsSettle`, `QuietIsFresh` and `QuietCachesFresh` except ingresses that
  are not tracked: `OnDeletedObserver` runs on a listener of its own, and may
  untrack an ingress that has been created again and reconciled meanwhile. If its
  service then goes and comes back, nobody reconciles the ingress.
* `ReadyIsProbed` excepts two ways in which a new spec is reported ready without
  having been probed: it is reconciled while no gateway pod is ready, or its first
  reconciliation failed, which marks the new generation observed and keeps the
  load balancer condition of the old one, so that the retry does not probe.
  `ReadyIsServed` has no such exception: in both cases what is reported ready is
  what Envoy has been given.
* `PortsRespected` excepts services that splits of one ingress name with
  different ports: they share a cluster, and the last split decides.
* `PathsServed` excepts redirects, which exist in the first region only.
* `LocalRulesServed` is about cluster-local rules; external ones are the matter of
  `translator_external`.
* `SourcesKept` excepts snapshots built while the IPAM blocks could not be read,
  and says nothing of nodes that belong to no region: the pods of `node12` are
  handled by region 1, whose name theirs contains.
* `PortsValid` excepts a negative port of external authorization: only the upper
  bound is checked before it becomes a `uint32`.
* `ChangesNoticed` is about secrets, services and endpoints; the activator's CA
  secret is read and not tracked.
* `QuietIsFresh` excepts ingresses whose service is missing: nothing is
  programmed for them, although their `NetworkConfigured` condition is true.
* `EventuallyReady` excepts a prober that waits for a pod which is gone
  (`ProbesTheDead`): the deletion was a tombstone, which the handler ignores, or
  was handled before `IsReady`, from older endpoints, made the pod's context.
* `RoutesBacked` excepts *hasty* clusters: a cluster leaves the snapshots while
  the gateway still has, or will be sent, routes to it (its expiration was too
  short, or a restart forgot that it was waiting for it), or comes back before the
  gateway has dropped it.
* `Converges` has two exceptions. `RoutesForgotten`: in ADS mode an answer is
  withheld when the snapshot has a route configuration that was not asked for, and
  the watch is discarded all the same; if the internal TLS listener is then
  rejected, or gone before the gateway has seen it, nobody asks again.
  `TLSRoutesDropped`: the first snapshot of a process is made of default settings,
  so that the internal TLS listener vanishes for a moment; when it is back the
  server takes its routes for known and does not send them until the next snapshot.

What `Delivery` also shows of the handler of rejected snapshots: it looks for a
service with the name of the unknown cluster, but since regions that name ends in
the region, so that no ingress is enqueued. `Converges` holds nonetheless, because
the next request is answered with what the snapshot has by then; a rejected
resource is sent again at once, and rejected again, for as long as it is in the
snapshot.

Bounds. Two ingresses suffice for every property here, as each relates at most
two (two owners of a domain, two owners of a cluster name, one that waits for
another); two domains let an ingress hold one and ask for another; one service
shared by both is the case in which clusters collide. Events from outside are
bounded by budgets (`MCController`), the controller's own steps are not.
For the prober, two pods (one replaced by the other) and two sessions are what an
overlap needs: a session that is given up and its successor, with one pod in both
or different ones; two URLs are needed for a counter that changes between a load
and a swap. For the delivery, two clusters suffice for a route that moves, and
each budget has the events whose interplay is in question; one fault breaks the
stream at any point.
`ClusterExpiration` is 1 or 2 ticks: the clock may or may not tick between any
two steps, so that only the order of expiration and other steps matters.

Deadlock. Runs of `Controller` end when the budget of events is spent and the
controller has nothing left to do, as do those of `Prober` and `Delivery`; runs
of `Translator` end with the pipeline. They say `CHECK_DEADLOCK FALSE`. `Caches` never stops, and is checked.

Fairness. Weak fairness is assumed of what runs in goroutines of the process
with nothing to wait for: workers, the prober's success once a gateway serves
the version it asks for (it retries until then), the callbacks and the janitor,
and of the clock. Nothing is assumed of users, pods, services, errors, resyncs
or restarts. In `Settles` the budgets make the environment come to rest.

In `Prober` it is assumed of the reconciler, of the informers' handlers, of each
pod's workers (a probe that fails is queued again with back-off, without limit)
and of each pod's cancellation goroutine; not of `ProbeAbandoned`, of tombstones,
nor of pods that start or stop. In `Delivery` it is assumed of both ends of a
stream, for every type separately because the server selects among channels, of
gateways, which reconnect for ever, and of the first reconciliation after a
restart, which the informers' initial list causes; not of any other snapshot.

## Proofs

Every safety invariant and every action property of the passing runs is also a
theorem, some under a hypothesis that is given here, and so are the two
refinements. Each component has an inductive invariant of its own, proved with
one lemma per action.

**Caches** (`CachesProofs`), for all sets of ingresses, domains, clusters and
endpoints:

* `TypeCorrect`, `DomainsSafe` (`DomainsExact /\ DomainsExclusive`),
  `ClustersSafe` (`ClustersPinned /\ NoClusterLeak`), `NoClusterLeaks`;
* `RegistryRefined`: `Spec => RegistrySpec`, the implementation of
  `DomainRegistry`.

The inductive invariant `CachesInv` is the conjunction of the five invariants,
each of which needs the others: freeing the domains of one translation
keeps `domainsInUse` exact only because no other translation shares them, which
in turn holds because validation compares against an exact set; and a cluster of
a translation is live when it starts to expire only because it was pinned. For
the refinement, `FreeDomainsAreOthers` shows that the set validation looks at is
the domains owned by others, which makes acceptance a `Claim` and a conflict a
`Refuse`. Assumed (`CachesAssumption`): an expiration is positive, the key of the
external authorization cluster is not the key of an ingress (its namespace has an
underscore), its name is not the name of a backend's cluster (`extAuthz` has no
slash, and `namespace/service_region` has), and its endpoints are endpoints.

**Controller** (`ControllerProofs`, on top of the lemmas about the caches), for
any number of ingresses, workers and events of every kind, failures and restarts
included:

* `ControllerTypeCorrect`, `SnapshotsStayWellFormed` (`ServedWellFormed`), and the
  action properties `ReadinessIsProbed` and `ReadinessSurvivesRestart`, from
  `ControllerInv`. It says that no two workers have the same key, that the object
  a worker has read stays there and keeps its status while the worker has its key,
  that Ready implies NetworkConfigured (by which a restart picks what it serves),
  that a snapshot on its way is well-formed, and that the caches satisfy
  `CachesInv` unless the process died while starting.
* `NoChangeIsLost` (`FreshInv`): an ingress that is not queued is up to date in
  the caches or in the hands of a worker whose local variables are up to date.
  This is the argument why read-then-write in separate steps is safe: whatever
  changes what was read also queues the key, which the work queue hands out again
  when the worker is done. `CachesBecomeFresh` (`QuietCachesFresh`) follows.
* `EnvoyBecomesFresh`: `QuietIsFresh` for *one* worker. `SyncInv` says that Envoy
  differs from the caches only for ingresses that are queued, in hand or in
  conflict. It fails for two workers, whose snapshots may be set in the wrong
  order; `controller_snapshot_race` shows that the property fails with it.
* `CachesUsedAsSpecified`: every step of the controller but a restart is a step of
  `Caches` or leaves the caches alone. So is what `Caches` promises kept by the
  whole: `DomainsChangeHands` states that, restarts aside, domains change owners
  only as `DomainRegistry` allows. (What a restart establishes is part of
  `ControllerInv`.)

What "ready" guarantees (`ControllerReady`), both as long as the backends of the
ingresses are there (`[]BackendsThere`):

* `ReadyStaysCached`, for any number of workers: an ingress that is reported ready
  is cached with the domains of its latest spec. `ReadyInv` adds to it what a
  worker has achieved (`DoneInv`): unless it failed, what it read is cached from
  its update of the caches to its end, as nobody else has the key; and no step but
  such an end makes an ingress ready.
* `ReadyStaysServed` (`ReadyIsServed`), for one worker: it is served so, at every
  moment. This rests on `ReadyInv` and on `SyncInv`.

Both hypotheses are needed. A reconciliation whose service is missing leaves the
caches alone and goes on; when there is no gateway pod to probe either, the new
spec is reported ready, and after a restart nothing at all is cached for it. And
with two workers an older snapshot may replace the one that made it ready.

What is true once nothing is pending (`ControllerSettles`):

* `EnvoyEndpointsSettle` (`EndpointsSettle`), for one worker. `SettleInv` says that
  every cluster Envoy has is the contents of some item of the TTL cache, unless
  work is queued, being done, or blocked by a conflict: a removed item has been
  reported as evicted, and the ingress that is queued for it leads to a new
  snapshot. When the last item without an owner has expired, all items of a name
  belong to ingresses that are up to date (`FreshInv`), and so agree. For two
  workers it is false (`controller_snapshot_race`).
* `ConflictsEnd` (`ConflictJustified`), for any number of workers, under the
  hypothesis `[][HoldersKeepSpecs]_vars`: users change no spec of an ingress that
  is cached or in the hands of a worker, and do not create an ingress with the
  name of a deleted one before the deletion has been dealt with. Anything else may
  happen: creations, deletions, changes of ingresses that hold nothing, failures,
  restarts. `ConflictInv` says that an ingress which is in conflict, and neither
  queued nor in hand, is blocked by one that is cached, or there is a deletion
  still to be observed, which will queue it; `SpecInv` that caches and workers have
  the domains the objects have, so that a holder that is reconciled once more keeps
  what it holds. The hypothesis is needed, because only the end of a deletion wakes
  those who wait: when a holder gives a domain up by a change of its spec, or is
  deleted and created again at once (`controller_recreate`), nobody is told.

Assumed (`ControllerAssumption`, `NilAssumption`): every ingress has a backend,
budgets are budgets, and nil is none of the objects.

**Translator** (`TranslatorProofs`), for every set of inputs and every number of
regions: `RoutesAlwaysResolve`, `RegionsAreIsolated`, `RegionsClaimTheSame`,
`PathsAreServed`, `LocalRulesAreServed`, `SnapshotsAreClosed`, `PortsStayValid`,
`ChangesAreNoticed`, and under a hypothesis each

* `PortsAreRespected`: where the ports of a service have numbers and, if there
  are several, names of their own, and a split asks either by number or by name
  (`PortsDistinct`, which the API server and the type `IntOrString` see to);
* `SourcesStayInTheirRegion`: for fewer than ten regions whose nodes share no
  addresses (`SourcesApart`). Blocks are matched by substring, and `node10`
  contains `node1`: with ten regions the statement is false.

`MCTranslator` asserts that the inputs of the run satisfy these hypotheses. The
inductive invariant `TranslatorInv` ties each variable to the input it was made
from, and records that nothing nil was accepted; the rest is about the operators.
What loops append to slices is `FlattenSeq` here. `SequenceFacts` proves, by
induction over the length, that its recursive function exists and what it contains
at which place; the induction rests on the least element of a set of numbers (from the
well-founded order of the library), as the library's own induction rules take an
operator. The order of two flattened sequences matters where the secrets and
splits that were looked at are compared with the outcome that ended the loops
(`ChangesAreNoticed`), and where the last split to a service decides on the port.
Assumed (`InputsAssumption`, `RegionsAssumption`): inputs have the shape of the
API types.

**Prober** (`ProberProofs`), for any finite set of pods, any number of URLs,
versions and changes: `CountsCorrect` (`CountsExact`), `OneSessionOnly`,
`ReadinessJustified`, and `ProberCountsDown`, the implementation of `Countdown`.
`ProberInv` adds to the counters of sessions how each pod's probes are distributed
over queued, passed and counted. The counter of a pod is exact only until the pod
is *excused* (its context or its session was cancelled); from then on workers and
canceller both decrement it, and what keeps the session's counter exact is that
only the step that takes the pod's counter from positive to 0 reports to it,
which is what the compare-and-swap is for.

**Delivery** (`DeliveryProofs`), for any set of services and any number of
snapshots, rejections, broken streams and restarts: `OneOutstandingOnly` and
`RoutesStayBacked`. `StreamInv` distinguishes for each type whether the server
waits for an answer (then nothing but that answer carries the last nonce, and old
requests come first) or not (then gateway and server agree on the nonce).
`ClustersInv` says that where routes lead now, or will by responses on their way,
is in the snapshot and is not taken away by a pending response, unless it is
hasty.

Checked by TLC only are the liveness properties (`OrphansReclaimed`, `Settles`,
`DeadClustersLeave`, `EventuallyReady`, `Converges`), which are beyond the prover,
and the statements of the runs that end in a counterexample, which are false. The
runs check `EndpointsSettle`, `ReadyIsServed` and `ConflictJustified` without the
hypotheses of their theorems: their budgets bound the events so that the
combinations the hypotheses exclude do not occur.

Abstractions of single conditions: `NeedsProbing` has no `isExpectedLoadBalancer`,
because the host names it compares are written together with the condition
`NeedsProbing` looks at and come from the environment of the deployment; "true" and
"false" in a ConfigMap stand for all spellings `ParseBool` takes; `PrimingFails`
stands for every error that ends `NewController` besides a domain conflict.

## Not modelled

* Replicas that are not leader (`ObserveKind`). Two replicas with caches of their
  own square a state space that is close to what can be searched as it is.
* Nodes and IPAM blocks that change between two snapshots. No informer watches
  them, so that there is nothing the code could be held to; a listener is a
  function of the nodes and blocks of one moment.
* External HTTPS listeners: the slices they are appended to are never allocated,
  and the process panics before their constructors could matter
  (`GenerateOutcome`). The contents of certificates and of TLS contexts.
* The deduplication of SNI matches. `consume` appends to the host list of a cached
  translation, which then keeps hosts of other ingresses; but every snapshot with an
  SNI match panics, so that no such list is served or outlives the process. Once the
  slices are allocated, this is what to model: two ingresses that share a secret,
  over several snapshots.
* The tracker's leases, rate limits of the work queue, back-off and time-outs of
  probes: they decide when a step happens, and every order is explored.
* The secret informer's label, `main`, `bonalib`, headers, timeouts, names and
  logging: I/O, or data no property tells apart.

## Plan

Done: all modules above, their runs and proofs. Left: `Replicas`, leader and
followers with abstract caches (`DomainRegistry` in the place of `Caches`, to keep
it small), a gateway connected to either, domain conflicts settled differently.
