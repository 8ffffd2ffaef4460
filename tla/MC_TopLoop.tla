---------------------------- MODULE MC_TopLoop ----------------------------
(* Model values for TopLoop: L2 at period 2, core and icnt at 3 (ties), *)
(* DRAM at 4, so ties and the L2-first branch both occur; two kernels, the *)
(* first (slot 0, where select_kernel starts) held back by two cycles of    *)
(* launch latency, the second ready at once.                              *)
EXTENDS TopLoop, TLC

MCPeriod == ("L2" :> 2) @@ ("ICNT" :> 3) @@ ("DRAM" :> 4) @@ ("CORE" :> 3)
MCNBlocks == (1 :> 1) @@ (2 :> 2)
MCTBLatency == (1 :> 2) @@ (2 :> 0)
MCSpuriousLatency == (1 :> 3) @@ (2 :> 3)
====
