------------------------------ MODULE TopLoop ------------------------------
(***************************************************************************)
(* The simulation loop of one kernel session: gpgpu_sim_thread_sequential *)
(* (gpgpu_context.cc) calling trace_gpgpu_sim::cycle and deadlock_check   *)
(* while active() (trace_gpgpu_sim.cc).                                    *)
(*                                                                         *)
(* One Cycle step is one call of cycle(): next_clock_domain picks the      *)
(* domains that tick; on a CORE tick every cluster's core cycles, the      *)
(* cycle counter advances, issue_block2core hands CTAs to clusters round   *)
(* robin (select_kernel choosing the kernel), decrement_kernel_latency     *)
(* runs, and every Window core cycles the deadlock detector samples the    *)
(* instruction count. The ICNT, L2 and DRAM steps are modelled in          *)
(* Interconnect.tla; here only their clocks advance.                      *)
(*                                                                         *)
(* The same loop may call simple_cycle instead (loop = "simple"): it ticks *)
(* every domain on every call unless accelsim_compat_mode (compat) makes  *)
(* it follow the clock mask, and it has no deadlock sampling.             *)
(*                                                                         *)
(* Data abstractions. Clock times are integers kept relative to the        *)
(* earliest domain: next_clock_domain depends only on their differences.  *)
(* gpu_sim_cycle is kept modulo Window (the 50000 of the code), and        *)
(* gpu_sim_insn only as whether it moved since last_gpu_sim_insn. Each     *)
(* cluster has one core that runs one CTA at a time; a CTA is InsnPerBlock *)
(* instructions, each of which the core retires or stalls on in a cycle    *)
(* (the core pipeline is Scheduler.tla; here it is spec-modelled).         *)
(***************************************************************************)
EXTENDS Naturals, Sequences, SequencesExt, FiniteSets, FiniteSetsExt

CONSTANTS
  Period,          \* [Domains -> positive]: l2/icnt/dram/core_period
  NClusters,       \* n_simt_clusters (one core each)
  MaxConcurrent,   \* max_concurrent_kernel, size of m_running_kernels
  Kernels,         \* launched kernel uids (1..)
  NBlocks,         \* [Kernels -> positive]: CTAs in each kernel's grid
  TBLatency,       \* [Kernels -> Nat]: initial m_kernel_TB_latency
  InsnPerBlock,    \* instructions of a CTA
  Window,          \* deadlock sampling period (50000 core cycles)
  DeadlockDetect,  \* gpu_deadlock_detect
  MaxCta           \* gpu_max_cta_opt (0: no limit)

Domains == {"L2", "ICNT", "DRAM", "CORE"}
Clusters == 0 .. NClusters - 1
Slots == 0 .. MaxConcurrent - 1
NoKernel == 0

ASSUME /\ Period \in [Domains -> Nat \ {0}]
       /\ Kernels \subseteq Nat \ {0} /\ Cardinality(Kernels) <= MaxConcurrent
       /\ NBlocks \in [Kernels -> Nat \ {0}] /\ TBLatency \in [Kernels -> Nat]
       /\ InsnPerBlock >= 1 /\ Window >= 1
       \* with all periods equal the relative clocks would never move
       /\ \E d, e \in Domains : Period[d] # Period[e]

VARIABLES
  time,          \* l2_time, icnt_time, dram_time, core_time (relative)
  mask,          \* the clock mask of the last cycle() call
  phase,         \* gpu_sim_cycle % Window
  retired,       \* gpu_sim_insn # last_gpu_sim_insn
  deadlock,      \* gpu_deadlock
  running,       \* m_running_kernels: slot -> kernel uid or NoKernel
  nextCta,       \* next CTA id of each kernel (no_more_ctas_to_run when = grid)
  latency,       \* m_kernel_TB_latency of each kernel
  coreKernel,    \* the kernel each cluster's core is set to
  left,          \* instructions left of the CTA on each core (0: idle)
  blocksDone,    \* CTAs of each kernel that completed
  finished,      \* m_finished_kernel
  executed,      \* m_executed_kernel_uids
  lastKernel,    \* m_last_issued_kernel
  lastCluster,   \* m_last_cluster_issue
  ctaLaunched,   \* m_total_cta_launched
  loop,          \* which cycle function the loop calls: "cycle" or "simple"
  compat,        \* accelsim_compat_mode
  status,        \* the sequential loop: "running", "finished" or "aborted"
  totIssued      \* gpu_tot_issued_cta: CTAs issued in earlier sessions

vars == <<time, mask, phase, retired, deadlock, running, nextCta, latency,
          coreKernel, left, blocksDone, finished, executed, lastKernel,
          lastCluster, ctaLaunched, loop, compat, status, totIssued>>

(* The kernels in launch order, placed by launch() into the first free    *)
(* slot of m_running_kernels.                                              *)
LaunchOrder == SetToSortSeq(Kernels, <)

(* The state after construction, with the slots of m_running_kernels as  *)
(* r and the loop in status st.                                            *)
InitWith(r, st) ==
  /\ time = [d \in Domains |-> 0]
  /\ mask = {}
  /\ phase = 0
  /\ retired = FALSE
  /\ deadlock = FALSE
  /\ running = r
  /\ nextCta = [k \in Kernels |-> 0]
  /\ latency = TBLatency
  /\ coreKernel = [c \in Clusters |-> NoKernel]
  /\ left = [c \in Clusters |-> 0]
  /\ blocksDone = [k \in Kernels |-> 0]
  /\ finished = {}
  /\ executed = <<>>
  /\ lastKernel = 0
  /\ lastCluster = NClusters - 1
  /\ ctaLaunched = 0
  /\ loop \in {"cycle", "simple"}
  /\ compat \in BOOLEAN
  /\ status = st
  /\ totIssued = 0

(* One session with every kernel launched before it starts.               *)
Init ==
  InitWith([n \in Slots |-> IF n < Len(LaunchOrder) THEN LaunchOrder[n + 1] ELSE NoKernel],
           "running")

-----------------------------------------------------------------------------
(* trace_gpgpu_sim::next_clock_domain: L2 first against min3 of the       *)
(* others, then every domain at or before the smallest time ticks.         *)
NextClockMaskStaleSmallest(t) ==
  LET smallest0 == Min({t["CORE"], t["ICNT"], t["DRAM"]})
      l2 == t["L2"] <= smallest0
      smallest == smallest0
  IN {d \in {"ICNT", "DRAM", "CORE"} : t[d] <= smallest} \cup (IF l2 THEN {"L2"} ELSE {})

NextClockMask(t) ==
  LET smallest0 == Min({t["CORE"], t["ICNT"], t["DRAM"]})
      l2 == t["L2"] <= smallest0
      smallest == IF l2 THEN t["L2"] ELSE smallest0
  IN {d \in {"ICNT", "DRAM", "CORE"} : t[d] <= smallest} \cup (IF l2 THEN {"L2"} ELSE {})

(* The clocks after the domains in m advanced, kept relative to the        *)
(* earliest one.                                                           *)
Advance(t, m) ==
  LET t2 == [d \in Domains |-> IF d \in m THEN t[d] + Period[d] ELSE t[d]]
      base == Min({t2[d] : d \in Domains})
  IN [d \in Domains |-> t2[d] - base]

-----------------------------------------------------------------------------
(* Kernel bookkeeping. The state st of a cycle in progress is a record    *)
(* with the fields running, nextCta, latency, coreKernel, left,           *)
(* blocksDone, finished, executed, lastKernel, lastCluster, ctaLaunched,  *)
(* retired.                                                                *)

(* kernel_info_t::no_more_ctas_to_run (spec-modelled)                      *)
NoMoreCtasToRun(st, k) == st.nextCta[k] >= NBlocks[k]

(* trace_gpgpu_sim::hit_max_cta_count: CTAs of earlier sessions           *)
(* (gpu_tot_issued_cta) and of this one (m_total_cta_launched).            *)
HitMaxCtaCount(st) == MaxCta # 0 /\ totIssued + st.ctaLaunched >= MaxCta

(* trace_gpgpu_sim::kernel_more_cta_left                                   *)
KernelMoreCtaLeft(st, k) ==
  ~HitMaxCtaCount(st) /\ k # NoKernel /\ ~NoMoreCtasToRun(st, k)

(* trace_gpgpu_sim::get_more_cta_left                                      *)
GetMoreCtaLeft(st) ==
  /\ ~HitMaxCtaCount(st)
  /\ \E n \in Slots : st.running[n] # NoKernel /\ ~NoMoreCtasToRun(st, st.running[n])

(* trace_gpgpu_sim::select_kernel: the last issued kernel while it has    *)
(* CTAs and no launch latency left, otherwise the next slot after it,     *)
(* round robin, whose kernel has CTAs and no latency. Returns the kernel  *)
(* (NoKernel for NULL) and the state with m_last_issued_kernel and        *)
(* m_executed_kernel_uids updated.                                         *)
SelectKernelKeepLast(st) ==
  LET cur == st.running[st.lastKernel]
      Eligible(n) == LET idx == (n + st.lastKernel + 1) % MaxConcurrent
                     IN KernelMoreCtaLeft(st, st.running[idx])
                        /\ st.latency[st.running[idx]] = 0
      cands == {n \in Slots : Eligible(n)}
  IN IF cur # NoKernel /\ ~NoMoreCtasToRun(st, cur) /\ st.latency[cur] = 0
     THEN [k |-> cur,
           st |-> IF cur \in ToSet(st.executed) THEN st
                  ELSE [st EXCEPT !.executed = Append(@, cur)]]
     ELSE IF cands = {} THEN [k |-> NoKernel, st |-> st]
     ELSE LET idx == (Min(cands) + st.lastKernel + 1) % MaxConcurrent
          IN [k |-> st.running[idx],
              st |-> [st EXCEPT !.executed = Append(@, st.running[idx])]]

SelectKernelNoLatency(st) ==
  LET cur == st.running[st.lastKernel]
      Eligible(n) == LET idx == (n + st.lastKernel + 1) % MaxConcurrent
                     IN KernelMoreCtaLeft(st, st.running[idx])
                        /\ st.latency[st.running[idx]] = 0
      cands == {n \in Slots : Eligible(n)}
  IN IF cur # NoKernel /\ ~NoMoreCtasToRun(st, cur)
     THEN [k |-> cur,
           st |-> IF cur \in ToSet(st.executed) THEN st
                  ELSE [st EXCEPT !.executed = Append(@, cur)]]
     ELSE IF cands = {} THEN [k |-> NoKernel, st |-> st]
     ELSE LET idx == (Min(cands) + st.lastKernel + 1) % MaxConcurrent
          IN [k |-> st.running[idx],
              st |-> [st EXCEPT !.lastKernel = idx,
                                !.executed = Append(@, st.running[idx])]]

SelectKernel(st) ==
  LET cur == st.running[st.lastKernel]
      Eligible(n) == LET idx == (n + st.lastKernel + 1) % MaxConcurrent
                     IN KernelMoreCtaLeft(st, st.running[idx])
                        /\ st.latency[st.running[idx]] = 0
      cands == {n \in Slots : Eligible(n)}
  IN IF cur # NoKernel /\ ~NoMoreCtasToRun(st, cur) /\ st.latency[cur] = 0
     THEN [k |-> cur,
           st |-> IF cur \in ToSet(st.executed) THEN st
                  ELSE [st EXCEPT !.executed = Append(@, cur)]]
     ELSE IF cands = {} THEN [k |-> NoKernel, st |-> st]
     ELSE LET idx == (Min(cands) + st.lastKernel + 1) % MaxConcurrent
          IN [k |-> st.running[idx],
              st |-> [st EXCEPT !.lastKernel = idx,
                                !.executed = Append(@, st.running[idx])]]

(* simt_core_cluster::issue_block2core with one core per cluster          *)
(* (spec-modelled: the cluster is not in the repository). A core whose    *)
(* kernel has no CTAs left asks select_kernel for a new one once it has   *)
(* completed; a CTA is issued if the kernel has CTAs left and the core is *)
(* free (can_issue_1block with one CTA per core). Returns [num, st].      *)
ClusterIssue(st, c) ==
  LET sel == IF ~KernelMoreCtaLeft(st, st.coreKernel[c]) /\ st.left[c] = 0
             THEN LET r == SelectKernel(st)
                  IN [k |-> r.k,
                      st |-> IF r.k # NoKernel
                             THEN [r.st EXCEPT !.coreKernel[c] = r.k] ELSE r.st]
             ELSE [k |-> st.coreKernel[c], st |-> st]
      k == sel.k
      s1 == sel.st
  IN IF KernelMoreCtaLeft(s1, k) /\ s1.left[c] = 0
     THEN [num |-> 1, st |-> [s1 EXCEPT !.nextCta[k] = @ + 1, !.left[c] = InsnPerBlock]]
     ELSE [num |-> 0, st |-> s1]

(* trace_gpgpu_sim::issue_block2core: clusters in turn from one past      *)
(* m_last_cluster_issue as read before the loop; a cluster that issued    *)
(* becomes the last issuer and m_total_cta_launched grows at once.        *)
RECURSIVE IssueSweep(_, _, _)
IssueSweep(st, last, i) ==
  IF i = NClusters THEN st
  ELSE LET idx == (i + last + 1) % NClusters
           r == ClusterIssue(st, idx)
           s1 == IF r.num > 0
                 THEN [r.st EXCEPT !.lastCluster = idx, !.ctaLaunched = @ + r.num]
                 ELSE r.st
       IN IssueSweep(s1, last, i + 1)

(* trace_gpgpu_sim::decrement_kernel_latency                               *)
DecrementKernelLatency(st) ==
  [st EXCEPT !.latency = [k \in Kernels |->
      IF (\E n \in Slots : st.running[n] = k) /\ st.latency[k] > 0
      THEN st.latency[k] - 1 ELSE st.latency[k]]]

(* trace_gpgpu_sim::set_kernel_done: record the kernel as finished and    *)
(* clear the first slot holding it.                                        *)
SetKernelDone(st, k) ==
  LET n0 == Min({n \in Slots : st.running[n] = k})
  IN [st EXCEPT !.finished = @ \cup {k}, !.running[n0] = NoKernel]

(* One core_cycle of cluster c (spec-modelled): the core stalls or        *)
(* retires one instruction of its CTA (gpu_sim_insn moves). The last      *)
(* instruction completes the CTA; the kernel is done when it has no CTAs  *)
(* left to run and no other core still runs one of its CTAs.              *)
CoreCycle(st, c, retire) ==
  IF st.left[c] = 0 \/ ~retire THEN st
  ELSE LET k == st.coreKernel[c]
           s1 == [st EXCEPT !.left[c] = @ - 1, !.retired = TRUE]
           s2 == IF s1.left[c] = 0 THEN [s1 EXCEPT !.blocksDone[k] = @ + 1] ELSE s1
       IN IF s1.left[c] = 0 /\ NoMoreCtasToRun(s2, k)
             /\ \A c2 \in Clusters : s2.coreKernel[c2] = k => s2.left[c2] = 0
          THEN SetKernelDone(s2, k) ELSE s2

(* The CORE loop of cycle(): clusters in index order.                      *)
RECURSIVE CoreSweep(_, _, _)
CoreSweep(st, o, i) ==
  IF i = NClusters THEN st ELSE CoreSweep(CoreCycle(st, i, o[i]), o, i + 1)

-----------------------------------------------------------------------------
(* The state a cycle works on, and the variables it leaves.               *)
St == [running |-> running, nextCta |-> nextCta, latency |-> latency,
       coreKernel |-> coreKernel, left |-> left, blocksDone |-> blocksDone,
       finished |-> finished, executed |-> executed, lastKernel |-> lastKernel,
       lastCluster |-> lastCluster, ctaLaunched |-> ctaLaunched, retired |-> retired]

Unpack(st) ==
  /\ running' = st.running /\ nextCta' = st.nextCta /\ latency' = st.latency
  /\ coreKernel' = st.coreKernel /\ left' = st.left /\ blocksDone' = st.blocksDone
  /\ finished' = st.finished /\ executed' = st.executed
  /\ lastKernel' = st.lastKernel /\ lastCluster' = st.lastCluster
  /\ ctaLaunched' = st.ctaLaunched

(* The deadlock sample of cycle(): at gpu_sim_cycle % Window = 0 a       *)
(* detector that saw no instruction retire flags gpu_deadlock, otherwise  *)
(* last_gpu_sim_insn catches up with gpu_sim_insn.                         *)
DeadlockSampleNoReset(ph, ret) ==
  [stalled |-> ph = 0 /\ DeadlockDetect /\ ~ret, retired |-> ret]
DeadlockSample(ph, ret) ==
  [stalled |-> ph = 0 /\ DeadlockDetect /\ ~ret,
   retired |-> ret /\ ph # 0]

ActiveNoCores ==
  /\ ~(MaxCta # 0 /\ totIssued >= MaxCta)
  /\ ~(DeadlockDetect /\ deadlock) /\ GetMoreCtaLeft(St)
(* trace_gpgpu_sim::active, with no memory partition or fabric traffic    *)
(* (those are Interconnect.tla's) and no cycle, instruction or completed- *)
(* CTA limit; the gpu_max_cta_opt test reads gpu_tot_issued_cta only.      *)
Active ==
  /\ ~(MaxCta # 0 /\ totIssued >= MaxCta)
  /\ ~(DeadlockDetect /\ deadlock)
  /\ (\E c \in Clusters : left[c] > 0) \/ GetMoreCtaLeft(St)

(* The CORE part of cycle() and simple_cycle(): every core cycles        *)
(* (retire: which cores retire), then gpu_sim_cycle++, issue_block2core   *)
(* and decrement_kernel_latency. cycle() then takes the deadlock sample   *)
(* every Window cycles (detect) and deadlock_check aborts the loop;       *)
(* simple_cycle() samples nothing, so gpu_sim_insn only moves on.          *)
CoreTick(detect) ==
  \E retire \in [Clusters -> BOOLEAN] :
  \E s1 \in {CoreSweep(St, retire, 0)} :
  \E s2 \in {DecrementKernelLatency(IssueSweep(s1, s1.lastCluster, 0))} :
    LET ph == (phase + 1) % Window
        d == IF detect THEN DeadlockSample(ph, s2.retired)
             ELSE [stalled |-> FALSE, retired |-> retired \/ s2.retired]
    IN /\ Unpack(s2)
       /\ phase' = ph
       /\ deadlock' = (deadlock \/ d.stalled)
       /\ retired' = d.retired
       /\ status' = IF d.stalled THEN "aborted" ELSE "running"

NoCoreTick ==
  UNCHANGED <<phase, retired, deadlock, running, nextCta, latency, coreKernel,
              left, blocksDone, finished, executed, lastKernel, lastCluster,
              ctaLaunched, status>>

(* One call of trace_gpgpu_sim::cycle followed by deadlock_check: the     *)
(* CORE part runs on a CORE tick only.                                     *)
Cycle ==
  /\ status = "running"
  /\ Active
  /\ loop = "cycle"
  /\ LET m == NextClockMask(time) IN
     /\ time' = Advance(time, m)
     /\ mask' = m
     /\ IF "CORE" \in m THEN CoreTick(TRUE) ELSE NoCoreTick
  /\ UNCHANGED <<loop, compat, totIssued>>

(* One call of trace_gpgpu_sim::simple_cycle: next_clock_domain still     *)
(* moves the clocks, but the CORE part runs on every call unless          *)
(* accelsim_compat_mode restricts it to CORE ticks.                        *)
SimpleCycle ==
  /\ status = "running"
  /\ Active
  /\ loop = "simple"
  /\ LET m == NextClockMask(time) IN
     /\ time' = Advance(time, m)
     /\ mask' = m
     /\ IF ~compat \/ "CORE" \in m THEN CoreTick(FALSE) ELSE NoCoreTick
  /\ UNCHANGED <<loop, compat, totIssued>>

(* The while loop of gpgpu_sim_thread_sequential ends when active() is    *)
(* false; print_stats, then update_stats: gpu_tot_issued_cta takes the    *)
(* session's m_total_cta_launched, and gpu_sim_cycle and                   *)
(* m_total_cta_launched go back to 0.                                      *)
Exit ==
  /\ status = "running"
  /\ ~Active
  /\ status' = "finished"
  /\ totIssued' = totIssued + ctaLaunched
  /\ ctaLaunched' = 0
  /\ phase' = 0
  /\ UNCHANGED <<time, mask, retired, deadlock, running, nextCta, latency,
                 coreKernel, left, blocksDone, finished, executed, lastKernel,
                 lastCluster, loop, compat>>

(* The simulation has ended, normally or by abort.                         *)
Stopped == status # "running" /\ UNCHANGED vars

Next == Cycle \/ SimpleCycle \/ Exit \/ Stopped

Spec == Init /\ [][Next]_vars
(* The thread calls cycle() (or simple_cycle()) as long as active()      *)
(* holds. The one of Cycle and SimpleCycle that loop selects is enabled   *)
(* exactly when ClockStep is, and a step is one of theirs exactly when it *)
(* is a ClockStep that moves the clocks (only they move them, and with    *)
(* unequal periods every call does), so weak fairness of ClockStep in     *)
(* time is weak fairness of the cycle call; it is stated on ClockStep     *)
(* because TLC evaluates ENABLED Cycle without caching the results of the *)
(* recursive sweeps.                                                       *)
ClockStep ==
  /\ status = "running" /\ Active
  /\ time' = Advance(time, NextClockMask(time))

-----------------------------------------------------------------------------
TypeOK ==
  /\ DOMAIN time = Domains /\ \A d \in Domains : time[d] \in 0 .. Period[d]
  /\ mask \subseteq Domains
  /\ phase \in 0 .. Window - 1 /\ retired \in BOOLEAN /\ deadlock \in BOOLEAN
  /\ running \in [Slots -> Kernels \cup {NoKernel}]
  /\ \A k \in Kernels : nextCta[k] \in 0 .. NBlocks[k] /\ blocksDone[k] \in 0 .. nextCta[k]
  /\ \A k \in Kernels : latency[k] \in 0 .. TBLatency[k]
  /\ coreKernel \in [Clusters -> Kernels \cup {NoKernel}]
  /\ left \in [Clusters -> 0 .. InsnPerBlock]
  /\ finished \subseteq Kernels /\ ToSet(executed) \subseteq Kernels
  /\ lastKernel \in Slots /\ lastCluster \in Clusters
  /\ loop \in {"cycle", "simple"} /\ compat \in BOOLEAN
  /\ status \in {"idle", "running", "finished", "aborted"}
  /\ totIssued \in Nat

(* select_kernel asserts that a kernel it picks from the round-robin loop *)
(* was never picked before: every kernel is recorded in                    *)
(* m_executed_kernel_uids once. It needs the first branch to keep the     *)
(* last issued kernel while it has CTAs, and the loop to move              *)
(* m_last_issued_kernel to the kernel it picks.                            *)
SelectedOnce == IsInjective(executed)

(* No CTA of a kernel is issued before its m_kernel_TB_latency has run    *)
(* out (select_kernel's latency tests on both branches).                   *)
LaunchLatencyRespected ==
  \A k \in Kernels : nextCta[k] > 0 => latency[k] = 0

(* next_clock_domain ticks exactly the domains whose clock is the         *)
(* earliest: none is skipped at a tie and none runs ahead of its time    *)
(* (only a cycle() call moves the clocks).                                 *)
ClockOrder ==
  [][status = "running" /\ time' # time => mask' = {d \in Domains : time[d] = Min({time[e] : e \in Domains})}]_vars

(* spec.md (top-level cycle loop): the detector flags a deadlock when     *)
(* gpu_sim_insn stays unchanged for 50000 cycles while some unit is busy. *)
(* Stated here: gpu_deadlock is set only while some core still holds an   *)
(* uncompleted CTA (the only busy units of this model).                    *)
DeadlockOnlyWhenBusy == deadlock => \E c \in Clusters : left[c] > 0
====
