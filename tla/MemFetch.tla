----------------------------- MODULE MemFetch -----------------------------
(***************************************************************************)
(* What the interconnect promises the SMs and the memory sub-partitions: *)
(* the life of a mem_fetch (spec.md 3, MemFetch) as it crosses the shim.  *)
(* An SM creates a request; it reaches the sub-partition (IN_L2, which    *)
(* stands for every status inside the partition); the partition sends it *)
(* back as a reply (IN_ICNT_TO_SHADER); the SM that created it consumes   *)
(* it. Statuses only move forward and every fetch is eventually consumed. *)
(***************************************************************************)
EXTENDS Naturals, FiniteSets, TLC

CONSTANTS
  Ids,          \* identities a fetch may have
  Shaders,      \* SMs
  Mems,         \* memory sub-partitions
  Kinds,        \* access types
  MaxFetches    \* bound on the fetches created

VARIABLE mf     \* id -> [sm, mem, kind, status] of every fetch created

Fetch == [sm : Shaders, mem : Mems, kind : Kinds,
          status : {"IN_ICNT_TO_MEM", "IN_L2", "IN_ICNT_TO_SHADER", "DONE"}]

Init == mf = [i \in {} |-> CHOOSE f \in Fetch : TRUE]

Create(i, sh, m, k) ==
  /\ i \notin DOMAIN mf
  /\ Cardinality(DOMAIN mf) < MaxFetches
  /\ mf' = mf @@ (i :> [sm |-> sh, mem |-> m, kind |-> k, status |-> "IN_ICNT_TO_MEM"])

Advance(i, from, to) ==
  /\ i \in DOMAIN mf
  /\ mf[i].status = from
  /\ mf' = [mf EXCEPT ![i].status = to]

ToL2(i) == Advance(i, "IN_ICNT_TO_MEM", "IN_L2")
ToShader(i) == Advance(i, "IN_L2", "IN_ICNT_TO_SHADER")
Consume(i) == Advance(i, "IN_ICNT_TO_SHADER", "DONE")

Next ==
  \/ \E i \in Ids, sh \in Shaders, m \in Mems, k \in Kinds : Create(i, sh, m, k)
  \/ \E i \in Ids : ToL2(i) \/ ToShader(i) \/ Consume(i)

Spec ==
  /\ Init /\ [][Next]_mf
  /\ \A i \in Ids : WF_mf(ToL2(i)) /\ WF_mf(ToShader(i)) /\ WF_mf(Consume(i))
====
