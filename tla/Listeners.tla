------------------------------- MODULE Listeners -------------------------------
(***************************************************************************)
(* pkg/envoy/api/listener.go: the HTTP listeners, which have one filter    *)
(* chain per region.  A chain is chosen by the source of a connection: the *)
(* address of the region's node, or an address block that Calico's IPAM    *)
(* has given to it.  Both are read from the API server whenever a snapshot *)
(* is built.                                                               *)
(*                                                                         *)
(* Nodes are the numbers in their names ("node1", "node12"); the regions   *)
(* are those of nodes 1 to NumRegions.  A cluster is a record of           *)
(*   readable  does the API server take the process's credentials, and     *)
(*             list the nodes?                                             *)
(*   nodes     the addresses of every node                                 *)
(*   ipam      can the address blocks be listed?                           *)
(*   blocks    the blocks, with the node each is affine to; does its CIDR  *)
(*             parse?                                                      *)
(* Its three listeners are taken to read the same state.                   *)
(***************************************************************************)
EXTENDS Naturals, Sequences

CONSTANT NumRegions   \* len(regions)

ASSUME RegionsAssumption == NumRegions \in Nat

Region == 1 .. NumRegions

(* strings.Contains(affinity, label): the name "node12" contains "node1".  *)
(* A name contains the labels whose digits its own begin with; names have  *)
(* five digits at most, and no leading zero.                               *)
NameContains(name, label) ==
    label \in {name \div p : p \in {1, 10, 100, 1000, 10000}}

(* The first address of the node with the region's label, if there is one. *)
NodeRanges(cluster, r) ==
    IF r \in DOMAIN cluster.nodes THEN {cluster.nodes[r][1]} ELSE {}

(* The blocks that were read; an error is dropped after some retries. *)
BlocksRead(cluster) == IF cluster.ipam THEN cluster.blocks ELSE {}

(* Faulty variant of BlockRanges: blocks of all nodes. *)
BlockRangesAll(cluster, r) == {block.cidr : block \in BlocksRead(cluster)}

(* The blocks whose affinity mentions the region's label. *)
BlocksOf(cluster, r) == {block \in BlocksRead(cluster) : NameContains(block.node, r)}

BlockRanges(cluster, r) == {block.cidr : block \in BlocksOf(cluster, r)}

(* NewHTTPListenerDual: the sources each region's filter chain matches. *)
FilterChainMatches(cluster) ==
    [r \in Region |-> NodeRanges(cluster, r) \cup BlockRanges(cluster, r)]

(* An error of the API server is a panic, and so are a node that has no    *)
(* address and a block of the region whose CIDR does not parse: the        *)
(* network it yields is nil, and is read before the error is.              *)
ListenerOutcome(cluster) ==
    IF \/ ~cluster.readable
       \/ \E r \in Region :
             \/ r \in DOMAIN cluster.nodes /\ cluster.nodes[r] = <<>>
             \/ \E block \in BlocksOf(cluster, r) : ~block.valid
    THEN "panic"
    ELSE "ok"

(* The chains Envoy may choose for a source: those that name it, or else   *)
(* those that match any.                                                   *)
ChainsFor(matches, source) ==
    LET named == {r \in Region : source \in matches[r]}
    IN  IF named # {} THEN named ELSE {r \in Region : matches[r] = {}}

=============================================================================
