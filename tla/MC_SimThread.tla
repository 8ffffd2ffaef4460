---------------------------- MODULE MC_SimThread ----------------------------
(* Model values for SimThread: the clocks and kernels of MC_TopLoop, and  *)
(* two copies: 40 bytes at a line start (a last chunk of 8 bytes), and 32 *)
(* bytes at 112, not 32-aligned, which a trace-driven copy may be; it      *)
(* crosses into the next line.                                             *)
EXTENDS SimThread, MC_TopLoop

MCCopies == {<<0, 40>>, <<112, 32>>}
====
