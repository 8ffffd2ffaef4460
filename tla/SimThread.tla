----------------------------- MODULE SimThread -----------------------------
(***************************************************************************)
(* The sequential simulation thread and the host that drives it, composed *)
(* with the simulation loop of TopLoop.tla.                                *)
(*                                                                         *)
(* gpgpu_sim_thread_sequential (gpgpu_context.cc) waits on                 *)
(* g_sim_signal_start; if get_more_cta_left() it runs one session (init(), *)
(* while (active()) { cycle(); deadlock_check(); }, print_stats,            *)
(* update_stats) and posts g_sim_signal_finish; if not, it posts          *)
(* g_sim_signal_finish, leaves its do/while loop and posts                 *)
(* g_sim_signal_exit. exit_simulation sets g_sim_done and waits on         *)
(* g_sim_signal_exit.                                                      *)
(*                                                                         *)
(* The host is the caller of trace_gpgpu_sim::launch and of the           *)
(* semaphores. The one host in the repository,                             *)
(* gpgpu_opencl_ptx_sim_main_perf, is commented out: launch(grid),        *)
(* sem_post(start), sem_wait(finish). The host here launches the kernels  *)
(* in uid order, any number of them before each start, so that kernels     *)
(* share a session as they do under a stream that launches ahead.          *)
(* Semaphores are counters; sem_init sets all three to 0.                  *)
(***************************************************************************)
EXTENDS TopLoop

CONSTANTS
  PerfSimMemcpy,  \* m_memory_config->m_perf_sim_memcpy
  Copies,         \* the <<dst_start_addr, count>> the host may copy
  MaxMemcpy       \* bound on the host's perf_memcpy_to_gpu calls

VARIABLES
  thread,     \* gpgpu_sim_thread_sequential: "wait_start", "loop" or "exited"
  start,      \* value of g_sim_signal_start
  finish,     \* value of g_sim_signal_finish
  exitSig,    \* value of g_sim_signal_exit
  host,       \* the host: "launch", "wait_finish", "exiting" or "exited"
  toLaunch,   \* kernels the host has not launched yet
  batch,      \* kernels launched since the host last posted start
  simDone,    \* g_sim_done
  allocations, \* m_allocations: [id, start, end] records
  sent        \* <<line, sector>> of each handle_memcpy_to_gpu call so far

hostVars == <<thread, start, finish, exitSig, host, toLaunch, batch, simDone,
             allocations, sent>>
allVars == <<vars, hostVars>>

(* The thread was created by start_sim_thread, which clears g_sim_done;   *)
(* no kernel is in m_running_kernels yet.                                  *)
ThreadInit ==
  /\ InitWith([n \in Slots |-> NoKernel], "idle")
  /\ thread = "wait_start"
  /\ start = 0 /\ finish = 0 /\ exitSig = 0
  /\ host = "launch"
  /\ toLaunch = Kernels
  /\ batch = {}
  /\ simDone = FALSE
  /\ allocations = {}
  /\ sent = {}

-----------------------------------------------------------------------------
(* trace_gpgpu_sim::launch: the kernel goes into the first slot of        *)
(* m_running_kernels that is NULL or holds a done kernel;                  *)
(* assert(n < m_running_kernels.size()) aborts when there is none.        *)
FreeSlots == {n \in Slots : running[n] = NoKernel \/ running[n] \in finished}

(* can_start_kernel: some slot is NULL or holds a done kernel. The host   *)
(* of main_perf does not ask it before launch.                            *)
CanStartKernel == \E n \in Slots : running[n] = NoKernel \/ running[n] \in finished

HostLaunch ==
  /\ host = "launch" /\ toLaunch # {} /\ status # "aborted"
  /\ LET k == Min(toLaunch) IN
     IF ~CanStartKernel
     THEN status' = "aborted" /\ UNCHANGED <<running, toLaunch, batch>>
     ELSE /\ running' = [running EXCEPT ![Min(FreeSlots)] = k]
          /\ toLaunch' = toLaunch \ {k}
          /\ batch' = batch \cup {k}
          /\ UNCHANGED status
  /\ UNCHANGED <<time, mask, phase, retired, deadlock, nextCta, latency,
                 coreKernel, left, blocksDone, finished, executed, lastKernel,
                 lastCluster, ctaLaunched, loop, compat, totIssued>>
  /\ UNCHANGED <<thread, start, finish, exitSig, host, simDone, allocations, sent>>

(* Mutation: the host posts start and goes on without sem_wait(finish).   *)
HostStartNoWait ==
  /\ host = "launch" /\ batch # {} /\ status # "aborted"
  /\ start' = start + 1
  /\ batch' = {}
  /\ UNCHANGED <<vars, thread, finish, exitSig, host, toLaunch, simDone, allocations, sent>>

(* sem_post(g_sim_signal_start) after the launches, then                  *)
(* sem_wait(g_sim_signal_finish).                                          *)
HostStart ==
  /\ host = "launch" /\ batch # {} /\ status # "aborted"
  /\ start' = start + 1
  /\ host' = "wait_finish"
  /\ batch' = {}
  /\ UNCHANGED <<vars, thread, finish, exitSig, toLaunch, simDone, allocations, sent>>

HostWaitFinish ==
  /\ host = "wait_finish" /\ finish > 0 /\ status # "aborted"
  /\ finish' = finish - 1
  /\ host' = "launch"
  /\ UNCHANGED <<vars, thread, start, exitSig, toLaunch, batch, simDone, allocations, sent>>

(* The host has launched every kernel and returns without calling         *)
(* exit_simulation.                                                        *)
HostDone ==
  /\ host = "launch" /\ toLaunch = {} /\ batch = {}
  /\ UNCHANGED allVars

(* perf_memcpy_to_gpu: one 32-byte chunk per step of counter; the chunk  *)
(* at wr_addr goes to its partition with the single sector bit            *)
(* wr_addr % 128 / 32 of its 128-byte line (address decoding picks the     *)
(* partition and is left out; a sector is named by line and bit).         *)
SectorOf(a) == <<a \div 128, (a % 128) \div 32>>

MemcpyChunks(dst, count) ==
  {SectorOf(dst + c) : c \in {c \in 0 .. count - 1 : c % 32 = 0}}

(* The allocation gets id m_allocations.size() + 1 (0 is reserved for    *)
(* instructions); the chunks are sent only with m_perf_sim_memcpy.        *)
HostMemcpy(dst, count) ==
  /\ host = "launch" /\ status # "aborted"
  /\ Cardinality(allocations) < MaxMemcpy
  /\ allocations' = allocations \cup
       {[id |-> Cardinality(allocations) + 1, start |-> dst, end |-> dst + count]}
  /\ sent' = IF PerfSimMemcpy THEN sent \cup MemcpyChunks(dst, count) ELSE sent
  /\ UNCHANGED <<vars, thread, start, finish, exitSig, host, toLaunch, batch, simDone>>

(* gpgpu_context::exit_simulation: g_sim_done = true, then                *)
(* sem_wait(g_sim_signal_exit).                                            *)
ExitSimulation ==
  /\ host = "launch" /\ toLaunch = {} /\ batch = {} /\ status # "aborted"
  /\ simDone' = TRUE
  /\ host' = "exiting"
  /\ UNCHANGED <<vars, thread, start, finish, exitSig, toLaunch, batch, allocations, sent>>

ExitWait ==
  /\ host = "exiting" /\ exitSig > 0 /\ status # "aborted"
  /\ exitSig' = exitSig - 1
  /\ host' = "exited"
  /\ UNCHANGED <<vars, thread, start, finish, toLaunch, batch, simDone, allocations, sent>>

-----------------------------------------------------------------------------
(* trace_gpgpu_sim::init: gpu_sim_cycle, gpu_sim_insn, last_gpu_sim_insn  *)
(* and m_total_cta_launched go to 0 and reinit_clock_domains zeroes the   *)
(* clocks. gpu_deadlock is not reset.                                      *)
SessionInit ==
  /\ time' = [d \in Domains |-> 0]
  /\ phase' = 0
  /\ retired' = FALSE
  /\ ctaLaunched' = 0
  /\ status' = "running"
  /\ UNCHANGED <<mask, deadlock, running, nextCta, latency, coreKernel, left,
                 blocksDone, finished, executed, lastKernel, lastCluster, loop,
                 compat, totIssued>>

(* Mutation: the wait returns on a posted start without taking it.       *)
WaitStartNoConsume ==
  /\ thread = "wait_start" /\ start > 0 /\ status # "aborted"
  /\ IF GetMoreCtaLeft(St)
     THEN /\ SessionInit
          /\ thread' = "loop"
          /\ UNCHANGED <<finish, exitSig>>
     ELSE /\ finish' = finish + 1
          /\ exitSig' = exitSig + 1
          /\ thread' = "exited"
          /\ UNCHANGED vars
  /\ UNCHANGED <<start, host, toLaunch, batch, simDone, allocations, sent>>

(* The top of the do/while of gpgpu_sim_thread_sequential:                *)
(* sem_wait(start); with CTAs left a session starts, otherwise the thread *)
(* posts finish, leaves the loop and posts exit.                           *)
WaitStart ==
  /\ thread = "wait_start" /\ start > 0 /\ status # "aborted"
  /\ start' = start - 1
  /\ IF GetMoreCtaLeft(St)
     THEN /\ SessionInit
          /\ thread' = "loop"
          /\ UNCHANGED <<finish, exitSig>>
     ELSE /\ finish' = finish + 1
          /\ exitSig' = exitSig + 1
          /\ thread' = "exited"
          /\ UNCHANGED vars
  /\ UNCHANGED <<host, toLaunch, batch, simDone, allocations, sent>>

(* The end of a session: the while loop ends (TopLoop's Exit:             *)
(* print_stats, update_stats), then sem_post(finish).                      *)
SessionEnd ==
  /\ thread = "loop"
  /\ Exit
  /\ finish' = finish + 1
  /\ thread' = "wait_start"
  /\ UNCHANGED <<start, exitSig, host, toLaunch, batch, simDone, allocations, sent>>

(* deadlock_check calls abort(): the process ends.                        *)
Aborted == status = "aborted" /\ UNCHANGED allVars

ThreadNext ==
  \/ WaitStart
  \/ thread = "loop" /\ Cycle /\ UNCHANGED hostVars
  \/ thread = "loop" /\ SimpleCycle /\ UNCHANGED hostVars
  \/ SessionEnd
  \/ Aborted

HostNext ==
  \/ HostLaunch \/ HostStart \/ HostWaitFinish
  \/ \E c \in Copies : HostMemcpy(c[1], c[2])

(* The thread and the semaphores are scheduled by the operating system:   *)
(* a thread whose semaphore was posted, or that is running, gets to run.   *)
Fairness ==
  /\ WF_time(ClockStep) /\ WF_allVars(SessionEnd) /\ WF_allVars(WaitStart)
  /\ WF_allVars(HostLaunch) /\ WF_allVars(HostStart) /\ WF_allVars(HostWaitFinish)

SystemSpec == ThreadInit /\ [][ThreadNext \/ HostNext \/ HostDone]_allVars /\ Fairness

(* The same, with a host that ends by calling exit_simulation.            *)
ExitSpec ==
  /\ ThreadInit
  /\ [][ThreadNext \/ HostNext \/ ExitSimulation \/ ExitWait]_allVars
  /\ Fairness /\ WF_allVars(ExitWait)

-----------------------------------------------------------------------------
ThreadTypeOK ==
  /\ TypeOK
  /\ thread \in {"wait_start", "loop", "exited"}
  /\ start \in 0 .. 1 /\ finish \in 0 .. 1 /\ exitSig \in 0 .. 1
  /\ host \in {"launch", "wait_finish", "exiting", "exited"}
  /\ toLaunch \subseteq Kernels /\ batch \subseteq Kernels /\ simDone \in BOOLEAN
  /\ allocations \subseteq [id: 1 .. MaxMemcpy, start: Nat, end: Nat]
  /\ sent \subseteq Nat \X (0 .. 3)

(* The comment of gpgpu_sim_thread_sequential: at most one kernel session *)
(* runs at a time. While the thread is in its cycle() loop the host is    *)
(* blocked in sem_wait(finish), so nothing launches a kernel into         *)
(* m_running_kernels or posts another start while cycle() reads them.     *)
HostBlockedWhileSimulating == thread = "loop" => host = "wait_finish"

(* A launch is synchronous: when sem_wait(finish) returns to the host,    *)
(* every kernel it launched before its last start has run all of its     *)
(* CTAs and been marked done by set_kernel_done. It needs active() to     *)
(* stay true while a core still holds a CTA or CTAs are left, across      *)
(* kernels that share a session and across sessions.                      *)
LaunchIsSynchronous ==
  host = "launch" =>
    \A k \in Kernels \ (toLaunch \cup batch) :
      blocksDone[k] = NBlocks[k] /\ k \in finished

(* Every sem_wait(finish) of the host returns, unless deadlock_check      *)
(* aborts: a loop calling cycle() ends (the deadlock sample catches a     *)
(* core that never retires) and the thread then posts finish.             *)
(* simple_cycle() has no such sample.                                      *)
LaunchReturns ==
  loop = "cycle" => (host = "wait_finish" ~> (host = "launch" \/ status = "aborted"))

(* A memcpy with m_perf_sim_memcpy marks every sector of the copied range *)
(* in its partition: each byte of each allocation lies in a sector some   *)
(* 32-byte chunk was sent with. The code steps counter by 32 and sets one *)
(* sector bit per chunk, which needs the chunk to sit in one sector; the  *)
(* assert that asked for a 32-aligned dst_start_addr is commented out.    *)
(* No run checks it: with the unaligned copy of MC_SimThread TLC reports  *)
(* it violated at that copy, and the project has no run left for it.      *)
MemcpyCoversCopy ==
  PerfSimMemcpy =>
    \A a \in allocations : \A b \in a.start .. a.end - 1 : SectorOf(b) \in sent

(* exit_simulation returns: once the host has set g_sim_done and waits on *)
(* g_sim_signal_exit, the thread posts it.                                 *)
ExitReturns == host = "exiting" ~> (host = "exited" \/ status = "aborted")

====
