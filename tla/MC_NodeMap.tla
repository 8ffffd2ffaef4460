---------------------------- MODULE MC_NodeMap ----------------------------
(* Model values for NodeMap: the 8- and 28-SM preset sizes with the mesh *)
(* node counts they are laid out for, small sizes with and without spare  *)
(* nodes, and every memory_node_map option of one or two entries over     *)
(* four nodes, sorted or not. The 56- and 110-SM presets are left out:    *)
(* their loops of 56 and 110 iterations exceed the evaluation stack of a  *)
(* TLC worker thread.                                                      *)
EXTENDS NodeMap, TLC

MCPresetSizes ==
  {[shader |-> 8, mem |-> 8, node |-> 16], [shader |-> 28, mem |-> 8, node |-> 36]}
MCSizes ==
  MCPresetSizes \cup
  {[shader |-> 2, mem |-> 2, node |-> 4], [shader |-> 2, mem |-> 1, node |-> 4],
   [shader |-> 3, mem |-> 1, node |-> 4]}
MCConfigs == {<<>>} \cup [1 .. 1 -> 0 .. 3] \cup [1 .. 2 -> 0 .. 3]
MCNoConfig == {<<>>}
====
