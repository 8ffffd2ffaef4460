------------------------------ MODULE NodeMap ------------------------------
(***************************************************************************)
(* InterconnectInterface::_CreateNodeMap (interconnect_interface.cpp):    *)
(* the map from device ids (SMs first, then memory sub-partitions) to     *)
(* network nodes, and its reverse.                                        *)
(*                                                                         *)
(* The inputs (n_shader, n_mem, the network's node count, use_map and the *)
(* memory_node_map option) are chosen in Init; Create is the whole        *)
(* function. _node_map and _reverse_node_map are std::maps (their         *)
(* declaration is not in the repository): reading a key never written     *)
(* gives 0, and a node no device maps to has no reverse entry (NoDevice). *)
(*                                                                         *)
(* The skipping loop reads memory_node[memory_node_index] after the index *)
(* has passed the last memory node. That read is undefined; all that      *)
(* matters of its value is whether it equals next_node, so both outcomes *)
(* are allowed, at most MaxOobReads times in a row.                       *)
(***************************************************************************)
EXTENDS Naturals, Sequences, SequencesExt, FiniteSets

CONSTANTS
  Sizes,        \* set of [shader, mem, node]: n_shader, n_mem, _nodes
  Configs,      \* candidate memory_node_map options (<<>>: not given)
  MaxOobReads   \* bound on consecutive out-of-range reads that match

NoDevice == -1

(* The four preset layouts of the code, keyed by <<n_shader, n_mem>>.      *)
PresetMemoryMap ==
  (<<8, 8>> :> <<1, 3, 4, 6, 9, 11, 12, 14>>)
  @@ (<<28, 8>> :> <<3, 7, 10, 12, 23, 25, 28, 32>>)
  @@ (<<56, 8>> :> <<3, 15, 17, 29, 36, 47, 49, 61>>)
  @@ (<<110, 11>> :> <<12, 20, 25, 28, 57, 60, 63, 92, 95, 100, 108>>)

VARIABLES
  size,         \* the sizes the interface was built with
  config,       \* the memory_node_map option
  useMap,       \* use_map
  nodeMap,      \* _node_map: device -> node (keys 0 .. _nodes - 1)
  reverseMap,   \* _reverse_node_map: node -> device or NoDevice
  oobMatch,     \* an out-of-range read compared equal to next_node
  status        \* "init", "created" or "aborted" (a failed assert)

vars == <<size, config, useMap, nodeMap, reverseMap, oobMatch, status>>

Devices(sz) == 0 .. sz.shader + sz.mem - 1
Nodes(sz) == 0 .. sz.node - 1

Init ==
  /\ size \in Sizes
  /\ config \in Configs
  /\ useMap \in BOOLEAN
  /\ nodeMap = [n \in Nodes(size) |-> 0]
  /\ reverseMap = [n \in Nodes(size) |-> NoDevice]
  /\ oobMatch = FALSE
  /\ status = "init"

-----------------------------------------------------------------------------
(* The vector the code settles on: the config option overrides the preset *)
(* for <<n_shader, n_mem>>; <<>> when neither exists.                      *)
MemoryNode(sz, cfg) ==
  IF cfg # <<>> THEN cfg
  ELSE IF <<sz.shader, sz.mem>> \in DOMAIN PresetMemoryMap
       THEN PresetMemoryMap[<<sz.shader, sz.mem>>]
       ELSE <<>>

(* use_map = 0: every device on the node of its own number.               *)
IdentityMapInclusive(sz) == [n \in 0 .. sz.node |-> n]
IdentityMap(sz) == [n \in Nodes(sz) |-> n]

(* The while loop: skip the nodes claimed by memory, in vector order.     *)
(* The set of [next, idx, oob] it can end in; k bounds matching           *)
(* out-of-range reads.                                                     *)
RECURSIVE SkipMemoryNodesStuckIndex(_, _, _, _)
SkipMemoryNodesStuckIndex(mn, next, idx, k) ==
  IF idx < Len(mn)
  THEN IF next = mn[idx + 1]
       THEN SkipMemoryNodesStuckIndex(mn, next + 1, idx, k)
       ELSE {[next |-> next, idx |-> idx, oob |-> FALSE]}
  ELSE {[next |-> next, idx |-> idx, oob |-> FALSE]}

RECURSIVE SkipMemoryNodes(_, _, _, _)
SkipMemoryNodes(mn, next, idx, k) ==
  IF idx < Len(mn)
  THEN IF next = mn[idx + 1]
       THEN SkipMemoryNodes(mn, next + 1, idx + 1, k)
       ELSE {[next |-> next, idx |-> idx, oob |-> FALSE]}
  ELSE {[next |-> next, idx |-> idx, oob |-> FALSE]}
       \cup (IF k = 0 THEN {}
             ELSE {[r EXCEPT !.oob = TRUE] : r \in SkipMemoryNodes(mn, next + 1, idx + 1, k - 1)})

(* The for loop over SMs: each takes the next node not claimed by memory. *)
(* The set of [nodes: shader nodes so far, next, idx, oob] the loop can    *)
(* be in after n iterations.                                               *)
ShaderNodes(mn, n) ==
  LET Iteration(acc, i) ==
        UNION {{[nodes |-> a.nodes \o <<s.next>>, next |-> s.next + 1,
                 idx |-> s.idx, oob |-> a.oob \/ s.oob] :
                  s \in SkipMemoryNodes(mn, a.next, a.idx, MaxOobReads)} : a \in acc}
  IN FoldLeft(Iteration, {[nodes |-> <<>>, next |-> 0, idx |-> 0, oob |-> FALSE]},
              [i \in 1 .. n |-> i])

(* The reverse loop: for each node the first key mapping to it.            *)
ReverseNodeMap(sz, nm) ==
  [n \in Nodes(sz) |->
     IF \E j \in Nodes(sz) : nm[j] = n
     THEN CHOOSE j \in Nodes(sz) : nm[j] = n /\ \A j2 \in 0 .. j - 1 : nm[j2] # n
     ELSE NoDevice]

(* _CreateNodeMap. The asserts on a config of the wrong length and on a   *)
(* missing layout abort the construction.                                  *)
Create ==
  /\ status = "init"
  /\ LET mn == MemoryNode(size, config) IN
     IF ~useMap
     THEN LET nm == IdentityMap(size)
          IN /\ nodeMap' = nm /\ reverseMap' = ReverseNodeMap(size, nm)
             /\ status' = "created" /\ UNCHANGED oobMatch
     ELSE IF (config # <<>> /\ Len(config) # size.mem) \/ mn = <<>>
     THEN /\ status' = "aborted" /\ UNCHANGED <<nodeMap, reverseMap, oobMatch>>
     ELSE \E r \in ShaderNodes(mn, size.shader) :
            LET nm == [n \in Nodes(size) |->
                         IF n < size.shader THEN r.nodes[n + 1]
                         ELSE IF n < size.shader + size.mem THEN mn[n - size.shader + 1]
                         ELSE 0]
            IN /\ nodeMap' = nm /\ reverseMap' = ReverseNodeMap(size, nm)
               /\ oobMatch' = r.oob /\ status' = "created"
  /\ UNCHANGED <<size, config, useMap>>

Done == status # "init" /\ UNCHANGED vars

Next == Create \/ Done

Spec == Init /\ [][Next]_vars

-----------------------------------------------------------------------------
TypeOK ==
  /\ size \in Sizes /\ config \in Configs /\ useMap \in BOOLEAN
  /\ nodeMap \in [Nodes(size) -> Nat]
  /\ reverseMap \in [Nodes(size) -> Nodes(size) \cup {NoDevice}]
  /\ oobMatch \in BOOLEAN /\ status \in {"init", "created", "aborted"}

(* spec.md: the node map is a bijection, reverse_node_map[node_map[d]] = d *)
(* for every device d, and every device sits on a node of the network.    *)
(* Push, Pop and HasBuffer translate device ids through these maps.        *)
DeviceNodeBijection ==
  \A d \in Devices(size) :
     nodeMap[d] \in Nodes(size) /\ reverseMap[nodeMap[d]] = d

(* A memory layout the skipping loop can follow: memory nodes strictly    *)
(* increasing and on the network.                                          *)
ValidLayout(sz, mn) == IsSorted(mn, LAMBDA a, b : a < b) /\ \A i \in 1 .. Len(mn) : mn[i] < sz.node

(* _CreateNodeMap builds a bijection from every preset and every sorted   *)
(* configured layout, as long as the read past the end of memory_node     *)
(* never happens to equal next_node: SMs fill exactly the nodes memory    *)
(* leaves free, in order, and the reverse loop finds each device.          *)
NodeMapBijective ==
  status = "created" /\ ~oobMatch
  /\ (~useMap \/ ValidLayout(size, MemoryNode(size, config))) => DeviceNodeBijection

(* The same, for every value the out-of-range read can return: the        *)
(* construction yields a bijection whenever it does not abort.             *)
NodeMapBijectiveAnyRead == status = "created" => DeviceNodeBijection
====
