-------------------------- MODULE MC_Interconnect --------------------------
(* Model-checking instance of Interconnect: one SM and one memory          *)
(* sub-partition, 32-byte flits, a read request of one flit whose reply    *)
(* carries a 32-byte sector plus the 8-byte header (two flits), and a      *)
(* write request of two flits acknowledged by one control flit.            *)
EXTENDS Interconnect

MCReqSize == [k \in Kinds |-> IF k = "READ" THEN 8 ELSE 40]
MCReplySize == [k \in Kinds |-> IF k = "READ" THEN 40 ELSE 8]
=============================================================================
