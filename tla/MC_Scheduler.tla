---------------------------- MODULE MC_Scheduler ----------------------------
(* Small traces for two schedulers (warps 0 and 2 on scheduler 0, warp 1  *)
(* on scheduler 1): a RAW chain over LOAD, SP and INT; an INT and an      *)
(* independent SP instruction that may dual issue; an SFU and a DP        *)
(* instruction, both routed to the SFU, that may not.                      *)
EXTENDS Scheduler

MCTraces ==
  [w \in Warps |->
     CASE w = 0 -> << [op |-> "LOAD", dst |-> {1}, src |-> {}],
                      [op |-> "SP", dst |-> {2}, src |-> {1}],
                      [op |-> "INT", dst |-> {1}, src |-> {2}] >>
       [] w = 1 -> << [op |-> "INT", dst |-> {1}, src |-> {}],
                      [op |-> "SP", dst |-> {2}, src |-> {}] >>
       [] OTHER -> << [op |-> "SFU", dst |-> {2}, src |-> {}],
                      [op |-> "DP", dst |-> {1}, src |-> {}] >>]
=============================================================================
