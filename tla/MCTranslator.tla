----------------------------- MODULE MCTranslator -----------------------------
(***************************************************************************)
(* Bounded inputs for Translator: ingresses of one or two rules with one   *)
(* or two paths, over two services of which the first takes every shape a  *)
(* service can have.                                                       *)
(***************************************************************************)
EXTENDS Translator

CONSTANTS s1, s2, ip1, ip2, ip3

Ports == <<[number |-> 80, name |-> "http", target |-> 8012],
           [number |-> 443, name |-> "https", target |-> 8443]>>

Address(ip, node) == [ip |-> ip, node |-> node]

Cluster(addresses) == [kind |-> "cluster", endpoints |-> addresses, ports |-> Ports]

Without(kind) == [kind |-> kind, endpoints |-> {}, ports |-> Ports]

(* Node 0 belongs to no region. *)
Shapes ==
    {Without("missing"), Without("externalName"), Without("noEndpoints"),
     Cluster({}), Cluster({Address(ip1, 1)}), Cluster({Address(ip1, NoNode)}),
     Cluster({Address(ip1, 1), Address(ip2, 2)}), Cluster({Address(ip1, 0)})}

Healthy == Cluster({Address(ip1, 1), Address(ip2, 2)})

(* A split asks for a port by number or by name. *)
Split(s, number) == [service |-> s, port |-> [number |-> number, name |-> ""]]

NamedSplit(s, name) == [service |-> s, port |-> [number |-> 0, name |-> name]]

Path(rewriteHost, acme, splits) ==
    [rewriteHost |-> rewriteHost, acme |-> acme, splits |-> splits]

SomePaths ==
    {<<Path(FALSE, FALSE, <<Split(s1, 80)>>)>>,
     <<Path(TRUE, FALSE, <<Split(s1, 443), Split(s2, 80)>>)>>,
     <<Path(FALSE, FALSE, <<NamedSplit(s2, "https")>>), Path(FALSE, TRUE, <<Split(s1, 80)>>)>>,
     <<Path(FALSE, FALSE, <<Split(s1, 80)>>), Path(FALSE, TRUE, <<Split(s1, 443)>>)>>}

Rule(hosts, external, paths) == [hosts |-> hosts, external |-> external, paths |-> paths]

SomeRules ==
    {<<Rule(<<"h1">>, external, paths)>> : external \in BOOLEAN, paths \in SomePaths}
    \cup
    {<<Rule(<<"h1", "h3">>, FALSE, paths), Rule(<<"h2">>, TRUE, paths)>> : paths \in SomePaths}

TLS(secret, state, hosts) == [secret |-> secret, state |-> state, hosts |-> hosts]

(* No TLS, one block, an invalid secret after a valid one, and blocks that *)
(* share a secret and a host.                                              *)
SomeTLS ==
    {<<>>, <<TLS("c1", "valid", <<"h1">>)>>,
     <<TLS("c1", "valid", <<"h1">>), TLS("c2", "invalid", <<"h2">>)>>,
     <<TLS("c1", "valid", <<"h1", "h2">>), TLS("c2", "valid", <<"h1">>),
       TLS("c1", "valid", <<"h2", "h3">>)>>}

Specs == [rules : SomeRules, tls : SomeTLS, redirect : BOOLEAN]

(* The address blocks of nodes 1 to 3 and of node 12, whose name contains  *)
(* that of node 1.                                                         *)
Block(node, cidr) == [node |-> node, cidr |-> cidr, valid |-> TRUE]

Blocks == {Block(1, "b1"), Block(2, "b2"), Block(3, "b3"), Block(12, "b12")}

(* Blocks whose CIDR does not parse: of a region, and of no region. *)
BadBlocks == {[Block(n, "bad") EXCEPT !.valid = FALSE] : n \in {2, 4}}

AddressesOf == [n \in 1 .. 3 |-> <<"n1", "n2", "n3">>[n]]

ClusterOf(nodes, ipam) ==
    [readable |-> TRUE, nodes |-> [n \in nodes |-> <<AddressesOf[n]>>],
     ipam |-> ipam, blocks |-> {b \in Blocks : b.node \in nodes \cup {12}}]

FullCluster == ClusterOf(1 .. 3, TRUE)

(* Clusters with some of the nodes, with no blocks or a bad one, with a    *)
(* node without address, with nodes that cannot be read.                   *)
ClusterShapes ==
    {ClusterOf(nodes, ipam) : nodes \in SUBSET (1 .. 3), ipam \in BOOLEAN}
    \cup
    {[FullCluster EXCEPT !.readable = FALSE], [FullCluster EXCEPT !.nodes[2] = <<>>],
     [FullCluster EXCEPT !.blocks = {}]}
    \cup {[FullCluster EXCEPT !.blocks = @ \cup {block}] : block \in BadBlocks}

Number(n) == [valid |-> TRUE, number |-> n]

NoNumber == [valid |-> FALSE, number |-> 0]

Authz(protocol, port, packAsBytes) ==
    [host |-> TRUE, protocol |-> protocol, port |-> port, packAsBytes |-> packAsBytes]

NoAuthz == [Authz("grpc", NoNumber, FALSE) EXCEPT !.host = FALSE]

(* Protocols and ports, among them none, those that do not fit in 16 bits  *)
(* and a negative one.                                                     *)
AuthzShapes ==
    {NoAuthz}
    \cup {Authz(protocol, Number(9000), bytes) :
            protocol \in {"grpc", "http", "tcp"}, bytes \in BOOLEAN}
    \cup {Authz("grpc", port, FALSE) :
            port \in {NoNumber, Number(-1), Number(65535), Number(65536)}}

NoCollector == [given |-> FALSE, url |-> TRUE, port |-> Number(0)]

CollectorShapes ==
    {NoCollector}
    \cup {[given |-> TRUE, url |-> url, port |-> port] :
            url \in BOOLEAN, port \in {NoNumber, Number(9411), Number(65535), Number(65536)}}

(* ConfigMaps with and without keys, and with values that are not Boolean. *)
ConfigMaps ==
    {<<>>}
    \cup {("enable-proxy-protocol" :> value) @@ ("cluster-cert-secret" :> secret) :
            value \in {"true", "false", "yes"}, secret \in {"", "found", "missing"}}
    \cup {("enable-service-access-logging" :> value) : value \in {"true", "false", "yes"}}

Surroundings ==
    [authz : {NoAuthz, Authz("grpc", Number(9000), FALSE)},
     httpOptionDisabled : BOOLEAN, oneCert : {FALSE},
     internalTLS : BOOLEAN, caSecret : BOOLEAN,
     configMap : {<<>>}, collector : {NoCollector}, cluster : {FullCluster},
     backends : {[s \in Service |-> IF s = s1 THEN b ELSE Cluster({Address(ip3, 2)})] :
                    b \in Shapes}]

(* The plainest environment: no TLS, no authorization, no options. *)
Plain(b) ==
    [authz |-> NoAuthz, httpOptionDisabled |-> FALSE, oneCert |-> FALSE,
     internalTLS |-> FALSE, caSecret |-> TRUE, configMap |-> <<>>, collector |-> NoCollector,
     cluster |-> FullCluster, backends |-> [s \in Service |-> b]]

PlainSpec(external, redirect, paths) ==
    [rules |-> <<Rule(<<"h1">>, external, paths)>>, tls |-> <<>>, redirect |-> redirect]

(* Every ingress in one cluster, the plainest ones in every cluster, and   *)
(* with all kinds of settings.                                             *)
AllInputs ==
    [spec : Specs, env : Surroundings]
    \cup
    {[spec |-> PlainSpec(external, FALSE, paths),
      env  |-> [Plain(Healthy) EXCEPT !.cluster = cluster, !.configMap = map]] :
        external \in BOOLEAN, paths \in SomePaths, cluster \in ClusterShapes,
        map \in {<<>>, "cluster-cert-secret" :> "found"}}
    \cup
    {[spec |-> PlainSpec(external, FALSE, <<Path(FALSE, FALSE, <<Split(s1, 80)>>)>>),
      env  |-> [Plain(Healthy) EXCEPT !.authz = authz, !.configMap = map,
                                      !.collector = collector, !.oneCert = cert]] :
        external \in BOOLEAN, authz \in AuthzShapes, map \in ConfigMaps,
        collector \in CollectorShapes, cert \in BOOLEAN}

(* The inputs meet what the proofs assume of them. *)
ASSUME InputsOrdinary == NumRegions < 10 /\ SourcesApart /\ PortsDistinct

(* A service that is scaled to no ready address at all. *)
ScaledInputs ==
    {[spec |-> PlainSpec(FALSE, FALSE, paths), env |-> Plain(Cluster({}))] :
        paths \in SomePaths}

(* Ingresses with an external rule and healthy services. *)
ExternalInputs ==
    {[spec |-> PlainSpec(TRUE, FALSE, paths), env |-> Plain(Healthy)] : paths \in SomePaths}

=============================================================================
