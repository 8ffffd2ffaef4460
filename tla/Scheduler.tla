----------------------------- MODULE Scheduler -----------------------------
(***************************************************************************)
(* The warp schedulers of one SM: scheduler_unit::cycle                    *)
(* (src/playground/sys/src/ref/scheduler_unit.cc) issuing from the warps   *)
(* it supervises into the register sets of the execution pipes            *)
(* (register_set.hpp), with the scoreboard checked and reserved at issue. *)
(*                                                                         *)
(* One SchedulerCycle step is the whole cycle() call: the warps in         *)
(* greedy-then-oldest order, for each the issue loop bounded by            *)
(* gpgpu_max_insn_issue_per_warp, the routing of an instruction to the     *)
(* MEM, INT, SP or SFU pipe, and the break after the first warp that       *)
(* issued. The scoreboard (reserveRegisters, checkCollision,               *)
(* releaseRegisters), the instruction buffer fill, the execution units     *)
(* and writeback are not in the repository and are modelled from the spec. *)
(***************************************************************************)
EXTENDS Naturals, Sequences, SequencesExt, FiniteSets

CONSTANTS
  NSched,          \* schedulers per SM, also the width of each register set
  Warps,           \* warp ids 0..; the warp id doubles as dynamic_warp_id
  Regs,            \* architectural registers instructions name
  Traces,          \* [Warps -> Seq(instruction)] from the trace provider
  MaxIssue,        \* gpgpu_max_insn_issue_per_warp
  IBufferSize,     \* instruction buffer slots per warp
  DiffExecUnits,   \* gpgpu_dual_issue_diff_exec_units
  SubCoreModels,   \* the values of sub_core_model to check
  NumSpUnits, NumIntUnits, NumSfuUnits, NumDpUnits

Ops == {"LOAD", "SP", "INT", "SFU", "DP"}
Units == {"MEM", "SP", "INT", "SFU"}
Instr == [op : Ops, dst : SUBSET Regs, src : SUBSET Regs]
Scheds == 0 .. NSched - 1
Slots == 0 .. NSched - 1
NONE == "NONE"       \* no pipe
NoWarp == -1
Empty == [w |-> NoWarp, dst |-> {}, src |-> {}, uid |-> 0]   \* a free slot

(* The DP, TENSOR and SPECIALIZED branches throw; traces here avoid them.  *)
ASSUME /\ Traces \in [Warps -> Seq(Instr)]
       /\ NumDpUnits = 0
       /\ MaxIssue >= 1

(* Warp w is supervised by scheduler w % NSched.                           *)
SchedOf(w) == w % NSched

VARIABLES
  ib,         \* instruction buffer of each warp (its next one or two instructions)
  fetched,    \* how many instructions of its trace each warp has fetched
  pending,    \* scoreboard reg_table: registers with a pending write, per warp
  regset,     \* [Units -> [Slots -> slot]], slot = Empty or an issued instruction
  inflight,   \* instructions taken by an execution unit, not yet written back
  uid,        \* next warp_inst_t uid
  lastIssued, \* m_last_supervised_issued of each scheduler (a warp, or NoWarp)
  cycleLog,   \* history: [w, unit] issued by each scheduler in its last cycle
  subCoreModel \* sub_core_model (a configuration option, fixed for the run)

vars == <<ib, fetched, pending, regset, inflight, uid, lastIssued, cycleLog, subCoreModel>>

TotalInstrs == FoldFunction(LAMBDA t, acc : Len(t) + acc, 0, Traces)

Init ==
  /\ ib = [w \in Warps |-> <<>>]
  /\ fetched = [w \in Warps |-> 0]
  /\ pending = [w \in Warps |-> {}]
  /\ regset = [u \in Units |-> [r \in Slots |-> Empty]]
  /\ inflight = {}
  /\ uid = 1
  /\ lastIssued = [s \in Scheds |-> NoWarp]
  /\ cycleLog = [s \in Scheds |-> <<>>]
  /\ subCoreModel \in SubCoreModels

-----------------------------------------------------------------------------
(* Mutant: the collision check looks at outputs only (RAW missed).        *)
CollisionDstOnly(pend, I) == I.dst \cap pend # {}

(* Scoreboard::checkCollision: an output or input register of I has a     *)
(* pending write (WAW or RAW).                                             *)
Collision(pend, I) == (I.dst \cup I.src) \cap pend # {}

(* register_set::has_free(sub_core_model, reg_id)                          *)
HasFree(slots, regId) ==
  IF subCoreModel THEN slots[regId] = Empty ELSE \E r \in Slots : slots[r] = Empty

(* Mutant: move_in ignores the sub-core slot and takes the first free one. *)
MoveInFirstFree(slots, regId, x) ==
  [slots EXCEPT ![Min({q \in Slots : slots[q] = Empty})] = x]

(* register_set::get_free(sub_core_model, reg_id): the scheduler's own   *)
(* slot, or the first free one (the callers checked has_free first).     *)
GetFree(slots, regId) ==
  IF subCoreModel THEN regId ELSE Min({q \in Slots : slots[q] = Empty})

(* register_set::move_in(sub_core_model, reg_id, src).                    *)
MoveIn(slots, regId, x) == [slots EXCEPT ![GetFree(slots, regId)] = x]

(* Mutant: the SFU branch forgets the dual-issue-different-units check.    *)
RouteSfuDual(rs, sched, I, prev) ==
  LET blocked(u) == DiffExecUnits /\ prev = u
  IN CASE I.op = "LOAD" ->
            IF HasFree(rs["MEM"], sched) /\ ~blocked("MEM") THEN "MEM" ELSE NONE
       [] I.op \in {"SP", "INT"} ->
            IF NumIntUnits > 0 /\ HasFree(rs["INT"], sched) /\ I.op # "SP" /\ ~blocked("INT") THEN "INT"
            ELSE IF NumSpUnits > 0 /\ HasFree(rs["SP"], sched) /\ (NumIntUnits = 0 \/ I.op = "SP")
                    /\ ~blocked("SP") THEN "SP"
            ELSE NONE
       [] (NumDpUnits = 0 /\ I.op = "DP") \/ I.op = "SFU" ->
            IF NumSfuUnits > 0 /\ HasFree(rs["SFU"], sched) THEN "SFU" ELSE NONE
       [] OTHER -> NONE

(* Mutant: an SP instruction goes to the SP pipe only when there are no    *)
(* INT units, so with INT units it is never issued.                        *)
RouteSpNeedsNoInt(rs, sched, I, prev) ==
  LET blocked(u) == DiffExecUnits /\ prev = u
  IN CASE I.op = "LOAD" ->
            IF HasFree(rs["MEM"], sched) /\ ~blocked("MEM") THEN "MEM" ELSE NONE
       [] I.op \in {"SP", "INT"} ->
            IF NumIntUnits > 0 /\ HasFree(rs["INT"], sched) /\ I.op # "SP" /\ ~blocked("INT") THEN "INT"
            ELSE IF NumSpUnits > 0 /\ HasFree(rs["SP"], sched) /\ NumIntUnits = 0
                    /\ ~blocked("SP") THEN "SP"
            ELSE NONE
       [] (NumDpUnits = 0 /\ I.op = "DP") \/ I.op = "SFU" ->
            IF ~blocked("SFU") /\ NumSfuUnits > 0 /\ HasFree(rs["SFU"], sched)
            THEN "SFU" ELSE NONE
       [] OTHER -> NONE

(* The pipe scheduler_unit::cycle routes I to, or NONE, given the pipe the *)
(* previous instruction of this warp went to in this cycle.                *)
Route(rs, sched, I, prev) ==
  LET blocked(u) == DiffExecUnits /\ prev = u
      intAvail == NumIntUnits > 0 /\ HasFree(rs["INT"], sched)
      spAvail == NumSpUnits > 0 /\ HasFree(rs["SP"], sched)
  IN CASE I.op = "LOAD" ->
            IF HasFree(rs["MEM"], sched) /\ ~blocked("MEM") THEN "MEM" ELSE NONE
       [] I.op \in {"SP", "INT"} ->
            IF NumIntUnits > 0 /\ intAvail /\ I.op # "SP" /\ ~blocked("INT") THEN "INT"
            ELSE IF spAvail /\ (NumIntUnits = 0 \/ I.op = "SP") /\ ~blocked("SP") THEN "SP"
            ELSE NONE
       [] (NumDpUnits = 0 /\ I.op = "DP") \/ I.op = "SFU" ->
            IF ~blocked("SFU") /\ NumSfuUnits > 0 /\ HasFree(rs["SFU"], sched)
            THEN "SFU" ELSE NONE
       [] OTHER -> NONE

(* The issue loop of one warp (scheduler_unit.cc lines 201-454) over the   *)
(* state st = [ib, pending, regset, uid, log]. A passed instruction goes   *)
(* into its pipe (issue_warp), the instruction buffer steps and the        *)
(* scoreboard reserves its outputs before the next one is checked.         *)
RECURSIVE IssueLoop(_, _, _, _, _, _)
IssueLoop(st, s, w, checked, issued, prev) ==
  IF ~(st.ib[w] # <<>> /\ checked < MaxIssue /\ checked <= issued /\ issued < MaxIssue)
  THEN [st EXCEPT !.n = issued]
  ELSE LET I == Head(st.ib[w])
           u == IF Collision(st.pending[w], I) THEN NONE ELSE Route(st.regset, s, I, prev)
       IN IF u = NONE
          THEN IssueLoop(st, s, w, checked + 1, issued, prev)
          ELSE IssueLoop([st EXCEPT
                            !.regset[u] = MoveIn(@, s,
                                 [w |-> w, dst |-> I.dst, src |-> I.src, uid |-> st.uid]),
                            !.ib[w] = Tail(@),
                            !.pending[w] = @ \cup I.dst,
                            !.uid = @ + 1,
                            !.log = Append(@, [w |-> w, unit |-> u])],
                         s, w, checked + 1, issued + 1, u)

(* done_exit(): the warp has issued its whole trace.                       *)
DoneExit(w) == fetched[w] = Len(Traces[w]) /\ ib[w] = <<>>

(* sort_warps_by_oldest_dynamic_id: live warps before exited ones, then    *)
(* by dynamic warp id.                                                     *)
OlderThan(a, b) == ~DoneExit(a) /\ (DoneExit(b) \/ a < b)

(* order_warps(), greedy then oldest: the warp that issued last goes first *)
(* (the policy class is not in the repository; spec-modelled).             *)
OrderWarps(s) ==
  LET sup == {w \in Warps : SchedOf(w) = s}
      rest == SetToSortSeq(sup \ {lastIssued[s]}, OlderThan)
  IN IF lastIssued[s] \in sup /\ ~DoneExit(lastIssued[s])
     THEN <<lastIssued[s]>> \o rest ELSE SetToSortSeq(sup, OlderThan)

(* Mutant: no break after a warp issued; later warps issue as well.       *)
RECURSIVE WarpLoopNoBreak(_, _, _)
WarpLoopNoBreak(st, s, order) ==
  IF order = <<>> THEN st
  ELSE LET w == Head(order)
           r == IF DoneExit(w) THEN [st EXCEPT !.n = 0]
                ELSE IssueLoop(st, s, w, 0, 0, NONE)
       IN WarpLoopNoBreak([r EXCEPT !.n = st.n + r.n, !.w = IF r.n > 0 THEN w ELSE st.w],
                          s, Tail(order))

(* The warps in order; the first warp that issues ends the cycle.          *)
RECURSIVE WarpLoop(_, _, _)
WarpLoop(st, s, order) ==
  IF order = <<>> THEN [st EXCEPT !.n = 0, !.w = NoWarp]
  ELSE LET w == Head(order)
           r == IF DoneExit(w) THEN [st EXCEPT !.n = 0]
                ELSE IssueLoop(st, s, w, 0, 0, NONE)
       IN IF r.n > 0 THEN [r EXCEPT !.w = w] ELSE WarpLoop(st, s, Tail(order))

(* scheduler_unit::cycle. The result of the warp loop is bound once (a    *)
(* one-element set) so that it is computed once per step.                  *)
SchedulerCycle(s) ==
  \E r \in {WarpLoop([ib |-> ib, pending |-> pending, regset |-> regset, uid |-> uid,
                     log |-> <<>>, n |-> 0, w |-> NoWarp], s, OrderWarps(s))} :
     /\ r.n > 0
     /\ ib' = r.ib
     /\ pending' = r.pending
     /\ regset' = r.regset
     /\ uid' = r.uid
     /\ lastIssued' = [lastIssued EXCEPT ![s] = r.w]
     /\ cycleLog' = [cycleLog EXCEPT ![s] = r.log]
     /\ UNCHANGED <<fetched, inflight, subCoreModel>>

-----------------------------------------------------------------------------
(* The rest of the SM (spec-modelled).                                     *)

(* Mutant: fetch ignores the buffer size and takes the rest of the trace.  *)
FetchUnbounded(w) ==
  /\ ib[w] = <<>>
  /\ fetched[w] < Len(Traces[w])
  /\ ib' = [ib EXCEPT ![w] = SubSeq(Traces[w], fetched[w] + 1, Len(Traces[w]))]
  /\ fetched' = [fetched EXCEPT ![w] = Len(Traces[w])]
  /\ UNCHANGED <<pending, regset, inflight, uid, lastIssued, cycleLog, subCoreModel>>

(* Fetch/decode refills an empty instruction buffer with as many of the   *)
(* next instructions of the warp's trace as it has slots.                  *)
Fetch(w) ==
  /\ ib[w] = <<>>
  /\ fetched[w] < Len(Traces[w])
  /\ LET k == Min({IBufferSize, Len(Traces[w]) - fetched[w]})
     IN /\ ib' = [ib EXCEPT ![w] = SubSeq(Traces[w], fetched[w] + 1, fetched[w] + k)]
        /\ fetched' = [fetched EXCEPT ![w] = @ + k]
  /\ UNCHANGED <<pending, regset, inflight, uid, lastIssued, cycleLog, subCoreModel>>

(* register_set::move_out_to: an execution unit takes the oldest           *)
(* instruction of its register set, or in the sub-core model the one in   *)
(* its own slot.                                                           *)
ReadySlot(slots, regId) ==
  IF subCoreModel THEN regId
  ELSE LET full == {q \in Slots : slots[q] # Empty}
       IN CHOOSE q \in full : \A p \in full : slots[q].uid <= slots[p].uid

(* has_ready(sub_core_model, reg_id): the execution unit's test before   *)
(* move_out_to; in the sub-core model only its own slot counts.           *)
HasReady(slots, regId) ==
  IF subCoreModel THEN slots[regId] # Empty ELSE \E q \in Slots : slots[q] # Empty

Dispatch(u, r) ==
  /\ HasReady(regset[u], r)
  /\ LET q == ReadySlot(regset[u], r)
     IN /\ inflight' = inflight \cup {regset[u][q]}
        /\ regset' = [regset EXCEPT ![u][q] = Empty]
  /\ UNCHANGED <<ib, fetched, pending, uid, lastIssued, cycleLog, subCoreModel>>

(* Writeback: Scoreboard::releaseRegisters for the instruction's outputs.  *)
Writeback(i) ==
  /\ inflight' = inflight \ {i}
  /\ pending' = [pending EXCEPT ![i.w] = @ \ i.dst]
  /\ UNCHANGED <<ib, fetched, regset, uid, lastIssued, cycleLog, subCoreModel>>

AllDone ==
  /\ \A w \in Warps : DoneExit(w)
  /\ inflight = {} /\ \A u \in Units, r \in Slots : regset[u][r] = Empty

(* The kernel has finished: the top loop stops ticking this SM.            *)
Finished == AllDone /\ UNCHANGED vars

Next ==
  \/ \E s \in Scheds : SchedulerCycle(s)
  \/ \E w \in Warps : Fetch(w)
  \/ \E u \in Units, r \in Slots : Dispatch(u, r)
  \/ \E i \in inflight : Writeback(i)
  \/ Finished

(* cycle() of every scheduler runs every core cycle, and so do fetch, the  *)
(* execution units and writeback: each scheduler is weakly fair, and so is *)
(* each of the other stages taken as a whole.                              *)
Fairness ==
  /\ \A s \in Scheds : WF_vars(SchedulerCycle(s))
  /\ WF_vars(\E w \in Warps : Fetch(w))
  /\ WF_vars(\E u \in Units, r \in Slots : Dispatch(u, r))
  /\ WF_vars(\E i \in inflight : Writeback(i))

Spec == Init /\ [][Next]_vars
FairSpec == Spec /\ Fairness

-----------------------------------------------------------------------------
(* Properties                                                              *)

Issued == [w : Warps, dst : SUBSET Regs, src : SUBSET Regs, uid : Nat]

TypeOK ==
  /\ ib \in [Warps -> Seq(Instr)]
  /\ \A w \in Warps : Len(ib[w]) <= IBufferSize
  /\ pending \in [Warps -> SUBSET Regs]
  /\ regset \in [Units -> [Slots -> Issued \cup {Empty}]]
  /\ inflight \subseteq Issued
  /\ uid \in 1 .. TotalInstrs + 1
  /\ lastIssued \in [Scheds -> Warps \cup {NoWarp}]
  /\ subCoreModel \in BOOLEAN

(* Every instruction issued and not yet written back, in a register set or *)
(* in an execution unit.                                                   *)
Outstanding ==
  inflight \cup {regset[ur[1]][ur[2]] : ur \in {ur \in Units \X Slots : regset[ur[1]][ur[2]] # Empty}}

(* No data hazard escapes the scoreboard: of two outstanding instructions  *)
(* of one warp, the younger neither reads (RAW) nor writes (WAW) a         *)
(* register the older one has yet to write, dual issue within one cycle    *)
(* included.                                                               *)
NoRegisterHazard ==
  \A a, b \in Outstanding :
    (a.w = b.w /\ a.uid < b.uid) => (b.src \cup b.dst) \cap a.dst = {}

(* With gpgpu_dual_issue_diff_exec_units, the instructions a scheduler     *)
(* issues in one cycle all go to different pipes.                          *)
DualIssueDiffUnits ==
  DiffExecUnits =>
    \A s \in Scheds : \A k1, k2 \in DOMAIN cycleLog[s] :
      k1 < k2 => cycleLog[s][k1].unit # cycleLog[s][k2].unit

(* A scheduler issues from at most one warp per cycle, at most             *)
(* gpgpu_max_insn_issue_per_warp instructions, and only from warps it      *)
(* supervises.                                                             *)
OneWarpPerCycle ==
  \A s \in Scheds :
    /\ Len(cycleLog[s]) <= MaxIssue
    /\ \A k1, k2 \in DOMAIN cycleLog[s] : cycleLog[s][k1].w = cycleLog[s][k2].w
    /\ \A k \in DOMAIN cycleLog[s] : SchedOf(cycleLog[s][k].w) = s

(* In the sub-core model each scheduler writes only its own slot of every  *)
(* register set.                                                           *)
SubCoreIsolation ==
  subCoreModel =>
    \A u \in Units, r \in Slots : regset[u][r] # Empty => SchedOf(regset[u][r].w) = r

(* Every warp eventually issues its whole trace and the SM drains.         *)
AllWarpsComplete == <>AllDone
=============================================================================
