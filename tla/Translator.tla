------------------------------ MODULE Translator ------------------------------
(***************************************************************************)
(* pkg/generator/ingress_translator.go and the part of caches.go that      *)
(* turns translations into Envoy resources: what becomes of one ingress on *)
(* its way into a snapshot.                                                *)
(*                                                                         *)
(*   the process starts, serves an empty snapshot, reads its ConfigMap     *)
(*     -> translateIngress -> Caches.validateIngress                       *)
(*     -> generateListenersAndRouteConfigsAndClusters                      *)
(*                                                                         *)
(* Every stage runs to completion, stops early (nil, an error) or panics;  *)
(* nothing in the controller recovers from a panic.  Clusters, routes and  *)
(* virtual hosts exist once per region: region r is served by the node     *)
(* with label r.  Headers, timeouts and names are left out.                *)
(***************************************************************************)
EXTENDS Listeners, Settings, SequencesExt

CONSTANTS
    Service,      \* backend services
    NoNode,       \* nil NodeName of an address
    Nil,          \* nil
    Inputs        \* the ingresses and surroundings to translate

VARIABLES
    input,        \* [spec: the ingress, env: what the translator looks up]
    stage,        \* how far the process and the ingress have come
    outcome,      \* "ok", or how its way ended
    settings,     \* the Kourier configuration in use
    tracked,      \* the objects whose changes enqueue the ingress again
    translation,  \* the translatedIngress
    config        \* the resources of the snapshot that is served

vars == <<input, stage, outcome, settings, tracked, translation, config>>

-----------------------------------------------------------------------------
(* The inputs. *)

(* A split asks for a port by number or by name. *)
IngressBackendSplit == [service : Service, port : [number : Nat, name : STRING]]

HTTPIngressPath ==
    [rewriteHost : BOOLEAN, acme : BOOLEAN, splits : Seq(IngressBackendSplit)]

IngressRule == [hosts : Seq(STRING), external : BOOLEAN, paths : Seq(HTTPIngressPath)]

(* A TLS block; state says whether its secret is there and valid. *)
IngressTLS == [secret : STRING, state : STRING, hosts : Seq(STRING)]

IngressSpec == [rules : Seq(IngressRule), tls : Seq(IngressTLS), redirect : BOOLEAN]

ServicePort == [number : Nat, name : STRING, target : Nat]

(* Ports are parsed by Atoi (authorization) and ParseUint (collector). *)
ASSUME InputsAssumption ==
    \A in \in Inputs :
        /\ in.spec \in IngressSpec
        /\ \A s \in Service :
              /\ in.env.backends[s].kind \in {"missing", "externalName", "noEndpoints", "cluster"}
              /\ in.env.backends[s].ports \in Seq(ServicePort)
        /\ in.env.authz.port.number \in Int
        /\ in.env.collector.port.number \in Nat
        /\ \A n \in DOMAIN in.env.cluster.nodes : in.env.cluster.nodes[n] \in Seq(STRING)
        /\ \A block \in in.env.cluster.blocks : block.node \in Nat /\ block.valid \in BOOLEAN

-----------------------------------------------------------------------------
(* The services. *)

(* lbEndpointsForKubeEndpointsTest: the ready addresses on the region's    *)
(* node.                                                                   *)
LbEndpoints(addresses, r) == {a.ip : a \in {b \in addresses : b.node = r}}

(* Faulty variant of Matches: ports are found by number only. *)
MatchesNumber(port, want) == port.number = want.number

(* A split asks for a port by number or by name; the field it leaves at    *)
(* its zero value is compared too.                                         *)
Matches(port, want) == port.number = want.number \/ port.name = want.name

(* The target of the last port that matches, or 80.                        *)
TargetPort(ports, want) ==
    LET matching == {n \in DOMAIN ports : Matches(ports[n], want)}
    IN  IF matching = {} THEN 80 ELSE ports[Max(matching)].target

(* Is the upstream connection encrypted? *)
UpstreamTLS(split, path, env) ==
    /\ ~path.rewriteHost
    /\ \/ env.internalTLS
       \/ \E n \in DOMAIN env.backends[split.service].ports :
             LET port == env.backends[split.service].ports[n]
             IN  port.number = split.port.number /\ port.name = "https"

(* createUpstreamTransportSocket needs the activator's CA secret. *)
CreateUpstreamTransportSocket(env) == IF env.caSecret THEN "ok" ELSE "error"

(* How the body of the loop over splits ends, in the order of its checks.  *)
SplitOutcome(split, path, env) ==
    LET b == env.backends[split.service]
    IN  CASE b.kind = "missing" -> "nil"
          [] b.kind = "externalName" -> "panic"  \* publicLbEndpoints[0] of a nil slice
          [] b.kind = "noEndpoints" -> "nil"
          [] b.kind = "cluster" ->
                IF \E a \in b.endpoints : a.node = NoNode
                THEN "panic"                     \* *address.NodeName
                ELSE IF UpstreamTLS(split, path, env) /\ CreateUpstreamTransportSocket(env) # "ok"
                THEN "error"
                ELSE IF b.endpoints = {}
                THEN "panic"                     \* publicLbEndpoints[i] of a nil slice
                ELSE "ok"

-----------------------------------------------------------------------------
(* translateIngress. *)

(* The splits of all paths of all rules, each with its path, in the order  *)
(* of the loops.                                                           *)
SplitsOfPath(path) ==
    [k \in DOMAIN path.splits |-> [split |-> path.splits[k], path |-> path]]

SplitsOfRule(rule) == FlattenSeq([m \in DOMAIN rule.paths |-> SplitsOfPath(rule.paths[m])])

Splits(spec) == FlattenSeq([n \in DOMAIN spec.rules |-> SplitsOfRule(spec.rules[n])])

(* How the loops over secrets and over splits end, in their order.         *)
SecretOutcomes(spec) ==
    [n \in DOMAIN spec.tls |-> IF spec.tls[n].state = "valid" THEN "ok" ELSE "error"]

SplitOutcomes(spec, env) ==
    LET splits == Splits(spec)
    IN  [n \in DOMAIN splits |-> SplitOutcome(splits[n].split, splits[n].path, env)]

(* The first secret or split that does not run to its end decides.         *)
TranslateOutcome(spec, env) ==
    LET outcomes == SecretOutcomes(spec) \o SplitOutcomes(spec, env)
        stops    == {n \in DOMAIN outcomes : outcomes[n] # "ok"}
    IN  IF stops = {} THEN "ok" ELSE outcomes[Min(stops)]

(* Are all of the elements before n "ok"?                                  *)
Reached(outcomes, n) == \A k \in 1 .. n - 1 : outcomes[k] = "ok"

TrackSecret(secret) == {<<"Secret", secret>>}

TrackService(service) == {<<"Service", service>>, <<"Endpoints", service>>}

(* The references of every secret and every split, in the same order. *)
References(spec) ==
    LET splits == Splits(spec)
    IN  [n \in DOMAIN spec.tls |-> TrackSecret(spec.tls[n].secret)]
            \o [n \in DOMAIN splits |-> TrackService(splits[n].split.service)]

(* Faulty variant of Tracks: a service is tracked once it has been found.  *)
TracksFound(spec, env) ==
    LET outcomes == SecretOutcomes(spec) \o SplitOutcomes(spec, env)
        refs     == References(spec)
    IN  UNION {refs[n] : n \in {k \in DOMAIN refs : Reached(outcomes, k + 1)}}

(* The references tracked up to the end of the translation: each is        *)
(* tracked before the object is looked up.                                 *)
Tracks(spec, env) ==
    LET outcomes == SecretOutcomes(spec) \o SplitOutcomes(spec, env)
        refs     == References(spec)
    IN  UNION {refs[n] : n \in {k \in DOMAIN refs : Reached(outcomes, k)}}

NewCluster(port, tls, endpoints) == [port |-> port, tls |-> tls, endpoints |-> endpoints]

(* Faulty variant of ClustersOf: no cluster for a region without endpoints. *)
ClustersOfUsed(spec, env) ==
    LET splits == Splits(spec)
        used == {c \in {splits[n].split.service : n \in DOMAIN splits} \X Region :
                    LbEndpoints(env.backends[c[1]].endpoints, c[2]) # {}}
    IN  [c \in used |->
            NewCluster(80, FALSE, LbEndpoints(env.backends[c[1]].endpoints, c[2]))]

(* The clusters, one for each service and region.  A cluster is named for  *)
(* both only: where two splits name one service, the cluster cache keeps   *)
(* the later one.                                                          *)
ClustersOf(spec, env) ==
    LET splits    == Splits(spec)
        services  == {splits[n].split.service : n \in DOMAIN splits}
        latest(s) == splits[Max({n \in DOMAIN splits : splits[n].split.service = s})]
    IN  [c \in services \X Region |->
            NewCluster(TargetPort(env.backends[c[1]].ports, latest(c[1]).split.port),
                       UpstreamTLS(latest(c[1]).split, latest(c[1]).path, env),
                       LbEndpoints(env.backends[c[1]].endpoints, c[2]))]

(* Faulty variant of RegionClusters: every region uses the first one's. *)
RegionClustersFirst(path, r) ==
    [k \in DOMAIN path.splits |->
        [cluster |-> <<path.splits[k].service, 1>>, split |-> path.splits[k]]]

(* wrs[r]: the weighted clusters of a path in region r, with the split     *)
(* each was made for.                                                      *)
RegionClusters(path, r) ==
    [k \in DOMAIN path.splits |->
        [cluster |-> <<path.splits[k].service, r>>, split |-> path.splits[k]]]

Route(kind, wrs) == [kind |-> kind, clusters |-> wrs]

(* Faulty variant of Redirects: cluster-local rules are redirected too. *)
RedirectsAll(spec, rule, env) == ~env.httpOptionDisabled /\ spec.redirect

(* Redirects replace forwarding for external rules. *)
Redirects(spec, rule, env) ==
    ~env.httpOptionDisabled /\ spec.redirect /\ rule.external

ExtAuthzEnabled(env) == ExtAuthzInit(env.authz) = "on"

(* The routes of a path in region r.  The routes of an ACME challenge      *)
(* under external authorization and redirects are made for region 1 only.  *)
PathRoutes(spec, rule, path, env, r) ==
    IF ExtAuthzEnabled(env) /\ path.acme
    THEN IF r = 1 THEN <<Route("unauthenticated", RegionClusters(path, 1))>> ELSE <<>>
    ELSE IF Redirects(spec, rule, env)
    THEN IF r = 1 THEN <<Route("redirect", <<>>)>> ELSE <<>>
    ELSE <<Route("forward", RegionClusters(path, r))>>

Routes(spec, rule, env, r) ==
    FlattenSeq([m \in DOMAIN rule.paths |->
        PathRoutes(spec, rule, rule.paths[m], env, r)])

(* Every host with and without a port. *)
DomainsForRule(rule) ==
    FlattenSeq([n \in DOMAIN rule.hosts |-> <<<<rule.hosts[n], "">>, <<rule.hosts[n], ":*">>>>])

NewVirtualHost(domains, routes) == [domains |-> domains, routes |-> routes]

(* The virtual host of a rule in region r; with external authorization     *)
(* only the one of region 1 is made, the others stay nil.                  *)
VirtualHost(spec, rule, env, r) ==
    IF ExtAuthzEnabled(env) /\ r # 1
    THEN Nil
    ELSE NewVirtualHost(DomainsForRule(rule), Routes(spec, rule, env, r))

UsesTLS(spec, env) == spec.tls # <<>> \/ env.oneCert

(* TLS routes always forward, to the clusters of region 1. *)
VirtualTLSHost(rule) ==
    NewVirtualHost(DomainsForRule(rule),
                   [m \in DOMAIN rule.paths |->
                       Route("forward", RegionClusters(rule.paths[m], 1))])

(* The external rules, in their order. *)
ExternalRules(spec) ==
    FlattenSeq([n \in DOMAIN spec.rules |->
        IF spec.rules[n].external THEN <<spec.rules[n]>> ELSE <<>>])

(* Those that have TLS routes, one for each path. *)
TLSRules(spec, env) ==
    FlattenSeq([n \in DOMAIN spec.rules |->
        IF /\ spec.rules[n].external /\ UsesTLS(spec, env)
           /\ spec.rules[n].paths # <<>>
        THEN <<spec.rules[n]>> ELSE <<>>])

(* translateIngress that runs to its end. *)
TranslationOf(spec, env) ==
    LET external == ExternalRules(spec)
        secured  == TLSRules(spec, env)
    IN  [sni         |-> [n \in DOMAIN spec.tls |->
                            [secret |-> spec.tls[n].secret, hosts |-> spec.tls[n].hosts]],
         clusters    |-> ClustersOf(spec, env),
         internal    |-> [r \in Region |->
                            [n \in DOMAIN spec.rules |->
                                VirtualHost(spec, spec.rules[n], env, r)]],
         external    |-> [r \in Region |->
                            [n \in DOMAIN external |->
                                VirtualHost(spec, external[n], env, r)]],
         externalTLS |-> [r \in Region |->
                            [n \in DOMAIN secured |-> VirtualTLSHost(secured[n])]]]

-----------------------------------------------------------------------------
(* The snapshot of a translation. *)

(* The HTTP listeners come first, then the one of ClusterCertSecret, whose *)
(* secret may be missing, then HTTPS listeners.  The slices of those are   *)
(* never allocated, so that the first SNI match, or the certificate of the *)
(* environment, ends in an index out of range.                             *)
GenerateOutcome(t, cfg, env) ==
    IF ListenerOutcome(env.cluster) # "ok" THEN "panic"
    ELSE IF cfg.clusterCertSecret = "missing" THEN "error"
    ELSE IF t.sni # <<>> \/ env.oneCert THEN "panic"
    ELSE "ok"

StatusVHost ==
    NewVirtualHost(<<<<"internalkourier", "">>>>, <<Route("ready", <<>>)>>)

HasInternalTLS(cfg) == cfg.clusterCertSecret # ""

(* The route configurations, by name: the external ones are made of the    *)
(* TLS virtual hosts; the status virtual host is appended to internal      *)
(* ones.  ClusterCertSecret adds one more, for the virtual hosts of the    *)
(* first region.                                                           *)
RouteConfigs(t, cfg) ==
    [name \in {"external", "internal"} \X Region
                \cup (IF HasInternalTLS(cfg) THEN {<<"internal_tls", 1>>} ELSE {}) |->
        IF name[1] = "external" THEN t.externalTLS[name[2]]
        ELSE Append(t.internal[name[2]], StatusVHost)]

(* NewHTTPListenerDual: a filter chain for each region, with the manager   *)
(* of that region.                                                         *)
NewHTTPListenerDual(kind, port, proxy, cfg, env) ==
    [port   |-> port,
     proxy  |-> proxy,
     chains |-> [r \in Region |->
                    [sources |-> FilterChainMatches(env.cluster)[r],
                     manager |-> NewHTTPConnectionManager(<<kind, r>>, cfg, env.authz)]]]

(* Any source, one certificate. *)
NewInternalEnvoyListenerWithOneCert(cfg, env) ==
    [port   |-> HTTPSPortInternal,
     proxy  |-> cfg.proxyProtocol,
     chains |-> <<[sources |-> {},
                   manager |-> NewHTTPConnectionManager(<<"internal_tls", 1>>, cfg, env.authz)]>>]

(* Faulty variant of GatewayListeners: all of them expect the proxy        *)
(* protocol.                                                               *)
ListenersProxied(cfg, env) ==
    {NewHTTPListenerDual("external", HTTPPortExternal, cfg.proxyProtocol, cfg, env),
     NewHTTPListenerDual("internal", HTTPPortInternal, cfg.proxyProtocol, cfg, env),
     NewHTTPListenerDual("external", HTTPPortProb, cfg.proxyProtocol, cfg, env)}

(* Faulty variant of GatewayListeners: the internal TLS listener is set up *)
(* without a secret too.                                                   *)
ListenersAlwaysTLS(cfg, env) ==
    {NewHTTPListenerDual("external", HTTPPortExternal, cfg.proxyProtocol, cfg, env),
     NewHTTPListenerDual("internal", HTTPPortInternal, FALSE, cfg, env),
     NewHTTPListenerDual("external", HTTPPortProb, FALSE, cfg, env),
     NewInternalEnvoyListenerWithOneCert(cfg, env)}

(* Probes come without the proxy protocol. *)
GatewayListeners(cfg, env) ==
    {NewHTTPListenerDual("external", HTTPPortExternal, cfg.proxyProtocol, cfg, env),
     NewHTTPListenerDual("internal", HTTPPortInternal, FALSE, cfg, env),
     NewHTTPListenerDual("external", HTTPPortProb, FALSE, cfg, env)}
    \cup
    (IF HasInternalTLS(cfg) THEN {NewInternalEnvoyListenerWithOneCert(cfg, env)} ELSE {})

(* The clusters that belong to no ingress: the cache has held the one of   *)
(* external authorization since NewCaches; the collector's is added to     *)
(* every snapshot.                                                         *)
OwnClusters(cfg, env) ==
    (IF ExtAuthzEnabled(env) THEN {ExtAuthzCluster(env.authz)} ELSE {})
    \cup
    (IF cfg.tracing.enabled THEN {CollectorCluster(cfg)} ELSE {})

Snapshot(t, cfg, env) ==
    [listeners |-> GatewayListeners(cfg, env),
     routes    |-> RouteConfigs(t, cfg),
     clusters  |-> t.clusters,
     own       |-> OwnClusters(cfg, env)]

-----------------------------------------------------------------------------
(* The stages. *)

(* No ingress at all. *)
Nothing ==
    [sni |-> <<>>, clusters |-> <<>>, internal |-> [r \in Region |-> <<>>],
     external |-> [r \in Region |-> <<>>], externalTLS |-> [r \in Region |-> <<>>]]

Init ==
    /\ input \in Inputs
    /\ stage = "boot"
    /\ outcome = "ok"
    /\ settings = DefaultConfig
    /\ tracked = {}
    /\ translation = Nil
    /\ config = Nil

(* The settings of external authorization are read before main runs.  The  *)
(* first snapshot is made before the ConfigMap is: FromContextOrDefaults.  *)
Boot ==
    /\ stage = "boot" /\ outcome = "ok"
    /\ outcome' = IF ExtAuthzInit(input.env.authz) = "panic" THEN "panic"
                  ELSE GenerateOutcome(Nothing, settings, input.env)
    /\ config' = IF outcome' = "ok" THEN Snapshot(Nothing, settings, input.env) ELSE Nil
    /\ stage' = "started"
    /\ UNCHANGED <<input, settings, tracked, translation>>

(* The configuration store ends the process when the first ConfigMap it    *)
(* sees does not parse.                                                    *)
LoadConfig ==
    LET env == input.env
    IN  /\ stage = "started" /\ outcome = "ok"
        /\ outcome' = IF ConfigValid(env.configMap, env.collector) THEN "ok" ELSE "fatal"
        /\ settings' = IF outcome' = "ok" THEN NewConfigFromMap(env.configMap, env.collector)
                       ELSE settings
        /\ stage' = "new"
        /\ UNCHANGED <<input, tracked, translation, config>>

TranslateIngress ==
    /\ stage = "new" /\ outcome = "ok"
    /\ outcome' = TranslateOutcome(input.spec, input.env)
    /\ translation' = IF outcome' = "ok" THEN TranslationOf(input.spec, input.env) ELSE Nil
    /\ tracked' = Tracks(input.spec, input.env)
    /\ stage' = "translated"
    /\ UNCHANGED <<input, settings, config>>

(* Faulty variant of ValidateIngress: only the first region is looked at.  *)
ValidateIngressFirst ==
    /\ stage = "translated" /\ outcome = "ok"
    /\ outcome' = IF \E n \in DOMAIN translation.internal[1] :
                        translation.internal[1][n] = Nil
                  THEN "panic" ELSE "ok"
    /\ stage' = "cached"
    /\ UNCHANGED <<input, settings, tracked, translation, config>>

(* validateIngress and addTranslatedIngress read the domains of every      *)
(* internal virtual host; a nil one is dereferenced.                       *)
ValidateIngress ==
    /\ stage = "translated" /\ outcome = "ok"
    /\ outcome' = IF \E r \in Region : \E n \in DOMAIN translation.internal[r] :
                        translation.internal[r][n] = Nil
                  THEN "panic" ELSE "ok"
    /\ stage' = "cached"
    /\ UNCHANGED <<input, settings, tracked, translation, config>>

(* ToEnvoySnapshot.  After an error the snapshot before it is still served. *)
GenerateConfig ==
    /\ stage = "cached" /\ outcome = "ok"
    /\ outcome' = GenerateOutcome(translation, settings, input.env)
    /\ config' = IF outcome' = "ok" THEN Snapshot(translation, settings, input.env) ELSE config
    /\ stage' = "served"
    /\ UNCHANGED <<input, settings, tracked, translation>>

(* getIngressUrls: the port and the hosts the prober asks for to find out  *)
(* whether a rule is served.                                               *)
ProbeTarget(spec, rule) ==
    [port  |-> IF ~rule.external THEN HTTPPortInternal
               ELSE IF spec.tls # <<>> THEN HTTPSPortProb
               ELSE HTTPPortProb,
     hosts |-> ToSet(rule.hosts)]

Next == Boot \/ LoadConfig \/ TranslateIngress \/ ValidateIngress \/ GenerateConfig

Spec == Init /\ [][Next]_vars

-----------------------------------------------------------------------------
(***************************************************************************)
(* Properties.                                                             *)
(***************************************************************************)

Served == stage = "served" /\ outcome = "ok"

Accepted == stage \in {"cached", "served"} /\ outcome = "ok"

(* The weighted clusters of the routes of a sequence of virtual hosts. *)
Targets(vhosts) ==
    UNION {UNION {ToSet(route.clusters) : route \in ToSet(vhosts[n].routes)} :
              n \in DOMAIN vhosts}

(* Every cluster a virtual host of an accepted ingress forwards to is one  *)
(* of its clusters, in each region, also where the region's node runs no   *)
(* pod: Envoy answers 503 for a cluster it knows, but rejects a route      *)
(* configuration with one it does not know.                                *)
RoutesResolve ==
    Accepted => \A r \in Region :
        \A target \in Targets(translation.internal[r]) \cup Targets(translation.external[r])
                         \cup Targets(translation.externalTLS[r]) :
            target.cluster \in DOMAIN translation.clusters

(* The addresses the clients of region r reach. *)
AddressesFrom(r) ==
    UNION {translation.clusters[target.cluster].endpoints :
              target \in Targets(translation.internal[r])}

(* Traffic stays in its region: clients of region r reach pods on the node *)
(* of region r only, and every ready pod on that node that belongs to a    *)
(* service they are forwarded to.                                          *)
RegionIsolation ==
    Accepted => \A r \in Region :
        LET forwardedTo == {target.split.service : target \in Targets(translation.internal[r])}
            ready == UNION {input.env.backends[s].endpoints : s \in forwardedTo}
        IN  AddressesFrom(r) = {a.ip : a \in {b \in ready : b.node = r}}

(* All regions of an accepted ingress claim the same hosts, in the same    *)
(* order.  deleteTranslatedIngress frees the domains of the first region   *)
(* only, so that anything else would leak domains forever.                 *)
SameDomains ==
    Accepted => \A r \in Region :
        /\ DOMAIN translation.internal[r] = DOMAIN translation.internal[1]
        /\ \A n \in DOMAIN translation.internal[r] :
              /\ translation.internal[r][n] # Nil
              /\ translation.internal[r][n].domains = translation.internal[1][n].domains

(* No ingress, whatever its services look like, takes the process down.    *)
NeverPanics == outcome # "panic"

(* The probe of a rule, which does not speak the proxy protocol, finds a   *)
(* listener and on it all of the hosts, in whichever region it ends up.    *)
ProbeAnswered(rule) ==
    LET target == ProbeTarget(input.spec, rule)
    IN  \E l \in config.listeners :
            /\ l.port = target.port
            /\ ~l.proxy
            /\ \A r \in DOMAIN l.chains : \A host \in target.hosts :
                  \E vhost \in ToSet(config.routes[l.chains[r].manager.routes]) :
                      <<host, "">> \in ToSet(vhost.domains)

(* An external rule is served by the external listener, where the prober   *)
(* asks for it: its host is part of the external route configuration.      *)
ExternalRulesServed ==
    Served => \A rule \in ToSet(input.spec.rules) :
        rule.external => ProbeAnswered(rule)

(* A cluster-local rule is served by the internal listener, where the      *)
(* prober asks for it: otherwise its ingress would never be ready.         *)
LocalRulesServed ==
    Served => \A rule \in ToSet(input.spec.rules) :
        ~rule.external => ProbeAnswered(rule)

(* No address or block is that of two nodes, and no address is a block. *)
SourcesApart ==
    \A in \in Inputs :
        LET nodes  == in.env.cluster.nodes
            blocks == in.env.cluster.blocks
            known  == {n \in DOMAIN nodes : nodes[n] # <<>>}
        IN  /\ \A n, m \in known : nodes[n][1] = nodes[m][1] => n = m
            /\ \A n \in known : \A block \in blocks : nodes[n][1] # block.cidr
            /\ \A b, c \in blocks : b.cidr = c.cidr => b.node = c.node

(* The sources on the node of a region. *)
SourcesOn(r) ==
    NodeRanges(input.env.cluster, r)
        \cup {block.cidr : block \in {b \in input.env.cluster.blocks : b.node = r}}

(* A connection to an HTTP listener from the node of a region, or from one *)
(* of its pods, is handled by the filter chain of that region and by no    *)
(* other, which leads to the routes of the region: with RegionIsolation,   *)
(* it ends on the node it came from.  Not so when the address blocks could *)
(* not be read: the error is dropped, and pods are known to no chain.      *)
SourcesKept ==
    config # Nil /\ input.env.cluster.ipam =>
        \A l \in {k \in config.listeners : k.port # HTTPSPortInternal} :
        \A r \in Region : \A source \in SourcesOn(r) :
            LET chains == ChainsFor([q \in Region |-> l.chains[q].sources], source)
            IN  {l.chains[q].manager.routes[2] : q \in chains} = {r}

(* What the API server sees to: the ports of a service have numbers and,   *)
(* where there are several, names of their own; a split asks either by     *)
(* number or by name.                                                      *)
PortsDistinct ==
    \A in \in Inputs :
        /\ \A s \in Service :
              LET ports == in.env.backends[s].ports
              IN  /\ \A i \in DOMAIN ports : ports[i].number > 0
                  /\ \A i, j \in DOMAIN ports :
                        i # j => /\ ports[i].number # ports[j].number
                                 /\ ports[i].name # ports[j].name
                                 /\ ports[i].name # ""
        /\ \A n \in DOMAIN Splits(in.spec) :
              LET want == Splits(in.spec)[n].split.port
              IN  want.number = 0 \/ want.name = ""

(* The splits of the ingress that name service s. *)
SplitsTo(s) ==
    {split \in UNION {ToSet(path.splits) :
                         path \in UNION {ToSet(rule.paths) : rule \in ToSet(input.spec.rules)}} :
        split.service = s}

(* A request is forwarded to the target of the service port its split asks *)
(* for, by number or by name.  Not so where splits ask for different ports *)
(* of one service: the port is not part of a cluster's name, and the last  *)
(* of them decides for all.                                                *)
PortsRespected ==
    Served => \A r \in Region : \A target \in Targets(translation.internal[r]) :
        LET split == target.split
        IN  SplitsTo(split.service) = {split} =>
              \A port \in ToSet(input.env.backends[split.service].ports) :
                  port.number = split.port.number \/ port.name = split.port.name
                  => translation.clusters[target.cluster].port = port.target

(* Every path of every rule is served in every region, by the backends it  *)
(* names.  Not so for external rules that ask for redirection: their       *)
(* redirect is made for the first region only.                             *)
PathsServed ==
    Served => \A r \in Region : \A n \in DOMAIN input.spec.rules :
        LET rule   == input.spec.rules[n]
            routes == config.routes[<<"internal", r>>][n].routes
        IN  (input.spec.redirect /\ rule.external => input.env.httpOptionDisabled)
            => /\ Len(routes) = Len(rule.paths)
               /\ \A m \in DOMAIN rule.paths :
                     [k \in DOMAIN routes[m].clusters |-> routes[m].clusters[k].split]
                        = rule.paths[m].splits

(* The managers of all the filter chains of the snapshot. *)
Managers ==
    UNION {{l.chains[n].manager : n \in DOMAIN l.chains} : l \in config.listeners}

(* The snapshot is closed: listeners ask for exactly the route             *)
(* configurations it has, and their filters and tracers for clusters it    *)
(* has.  A configuration that is missing leaves a listener without routes; *)
(* one that nobody asks for makes the xDS server withhold all of them      *)
(* (ADS mode answers only requests that name every resource it has).       *)
SnapshotClosed ==
    config # Nil =>
        /\ {manager.routes : manager \in Managers} = DOMAIN config.routes
        /\ UNION {ClustersAsked(manager) : manager \in Managers}
              \subseteq {cluster.name : cluster \in config.own}

(* The ports of all clusters are ports, so that Envoy accepts the snapshot. *)
(* Not so for a negative KOURIER_EXTAUTHZ_HOST port: only the upper bound  *)
(* is checked before it becomes a uint32.                                  *)
PortsValid ==
    config # Nil /\ input.env.authz.port.number >= 0 =>
        \A cluster \in config.own : IsPort(cluster.port)

(* A service or secret the ingress lacks. *)
Obstacles ==
    {<<"Secret", tls.secret>> : tls \in {t \in ToSet(input.spec.tls) : t.state # "valid"}}
    \cup {<<"Service", s>> : s \in {b \in Service : input.env.backends[b].kind = "missing"}}
    \cup {<<"Endpoints", s>> : s \in {b \in Service : input.env.backends[b].kind = "noEndpoints"}}

(* Nothing the translation depends on can change unnoticed.  One that runs *)
(* to its end has tracked every secret, service and endpoints it read; one *)
(* that gives up without an error, and so without a retry, has tracked an  *)
(* object whose absence is the reason.  The CA secret of the activator is  *)
(* not tracked.                                                            *)
ChangesNoticed ==
    stage = "translated" =>
        /\ outcome = "nil" => Obstacles \cap tracked # {}
        /\ outcome = "ok" =>
              /\ \A tls \in ToSet(input.spec.tls) : <<"Secret", tls.secret>> \in tracked
              /\ \A c \in DOMAIN translation.clusters :
                    {<<"Service", c[1]>>, <<"Endpoints", c[1]>>} \subseteq tracked

=============================================================================
