------------------------------- MODULE Settings -------------------------------
(***************************************************************************)
(* pkg/config: what the environment and the ConfigMap "config-kourier" say *)
(* about external authorization and the gateway, and what of it becomes    *)
(* part of the HTTP connection managers (http_connection_manager.go).      *)
(*                                                                         *)
(* A number in a string is a record of valid, whether it parses, and       *)
(* number.  A ConfigMap is a function whose domain is the keys it has; the *)
(* collector's endpoint is a record of                                     *)
(*   given  is the key there, with a value that is not empty?              *)
(*   url    does it parse as a URL?                                        *)
(*   port   the port of the URL                                            *)
(* Timeouts, log formats and cipher suites are left out.                   *)
(***************************************************************************)
EXTENDS Integers, Sequences

(* The ports of the gateway. *)
HTTPPortExternal  == 8080
HTTPPortInternal  == 8081
HTTPPortProb      == 8090
HTTPSPortExternal == 8443
HTTPSPortInternal == 8444
HTTPSPortProb     == 9443

MaxPort == 65535

(* uint32(n), as its high and its low 16 bits. *)
UInt32(n) == [high |-> (n \div 65536) % 65536, low |-> n % 65536]

IsPort(n) == n.high = 0

-----------------------------------------------------------------------------
(* External authorization, from KOURIER_EXTAUTHZ_*. *)

ExtAuthzProtocols == {"grpc", "http", "https"}

(* Faulty variant of ExtAuthzInit: the size of the port is not checked. *)
ExtAuthzInitAnyPort(env) ==
    IF ~env.host THEN "off"
    ELSE IF ~env.port.valid \/ env.protocol \notin ExtAuthzProtocols THEN "panic"
    ELSE "on"

(* The package's init: nothing to do without a host, a panic for settings  *)
(* that make no sense.                                                     *)
ExtAuthzInit(env) ==
    IF ~env.host THEN "off"
    ELSE IF \/ env.protocol \notin ExtAuthzProtocols
            \/ ~env.port.valid
            \/ env.port.number > MaxPort
            \/ env.packAsBytes /\ env.protocol # "grpc"
    THEN "panic"
    ELSE "on"

ExtAuthzCluster(env) ==
    [name |-> "extAuthz", port |-> UInt32(env.port.number), http2 |-> env.protocol = "grpc"]

(* The HTTP filter asks the cluster over gRPC or over HTTP. *)
ExternalAuthZFilter(env) ==
    [name    |-> "ext_authz",
     service |-> IF env.protocol = "grpc" THEN "grpc" ELSE "http",
     cluster |-> "extAuthz"]

-----------------------------------------------------------------------------
(* The ConfigMap. *)

BoolKeys == {"enable-service-access-logging", "enable-proxy-protocol", "enable-cryptomb"}

DefaultConfig ==
    [accessLog |-> TRUE, proxyProtocol |-> FALSE, cryptoMB |-> FALSE,
     clusterCertSecret |-> "", tracing |-> [enabled |-> FALSE, port |-> UInt32(0)]]

(* "true" and "false" stand for all the spellings strconv.ParseBool takes. *)
AsBool(map, key, default) == IF key \in DOMAIN map THEN map[key] = "true" ELSE default

BoolsValid(map) == \A key \in BoolKeys \cap DOMAIN map : map[key] \in {"true", "false"}

(* asTracing: the collector's port must fit in 16 bits. *)
TracingValid(collector) ==
    collector.given => /\ collector.url
                       /\ collector.port.valid
                       /\ collector.port.number <= MaxPort

AsTracing(collector) ==
    [enabled |-> collector.given,
     port    |-> IF collector.given THEN UInt32(collector.port.number) ELSE UInt32(0)]

(* The cluster of the collector, by the port of its address. *)
CollectorCluster(cfg) == [name |-> "tracing-collector", port |-> cfg.tracing.port, http2 |-> FALSE]

(* NewConfigFromMap fails if one of the values does not parse.             *)
ConfigValid(map, collector) == BoolsValid(map) /\ TracingValid(collector)

NewConfigFromMap(map, collector) ==
    [accessLog         |-> AsBool(map, "enable-service-access-logging", TRUE),
     proxyProtocol     |-> AsBool(map, "enable-proxy-protocol", FALSE),
     cryptoMB          |-> AsBool(map, "enable-cryptomb", FALSE),
     clusterCertSecret |-> IF "cluster-cert-secret" \in DOMAIN map
                           THEN map["cluster-cert-secret"] ELSE "",
     tracing           |-> AsTracing(collector)]

-----------------------------------------------------------------------------
(* HTTP connection managers. *)

Router == [name |-> "router", service |-> "", cluster |-> ""]

(* The manager that takes its routes from the route configuration with the *)
(* given name.  Authorization comes before routing.                        *)
NewHTTPConnectionManager(routeConfigName, cfg, authz) ==
    [routes        |-> routeConfigName,
     filters       |-> IF ExtAuthzInit(authz) = "on"
                       THEN <<ExternalAuthZFilter(authz), Router>>
                       ELSE <<Router>>,
     remoteAddress |-> cfg.proxyProtocol,
     accessLog     |-> cfg.accessLog,
     tracing       |-> IF cfg.tracing.enabled THEN {"tracing-collector"} ELSE {}]

(* The clusters a manager sends requests of its own to. *)
ClustersAsked(manager) ==
    manager.tracing
        \cup ({manager.filters[n].cluster : n \in DOMAIN manager.filters} \ {""})

=============================================================================
