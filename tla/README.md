# TLA+ models of the box GPU simulator core

This directory holds TLA+ models of the C++ reference core of box
(`src/playground/sys/src/ref/`). It is a cycle-driven GPU simulator derived from
GPGPU-Sim / Accel-Sim. The models are checked with TLC. `PROJECT.json` lists
every component, run, mutant, the definition-to-source map, findings and hazards.

## The system

The simulator runs one kernel at a time: `gpgpu_sim_thread_sequential`
(`gpgpu_context.cc`) calls `init()`, then `cycle()` and `deadlock_check()`
while `active()`. Each `trace_gpgpu_sim::cycle()` (`trace_gpgpu_sim.cc`):

1. picks the clock domains that tick (`next_clock_domain`: core, icnt, L2, DRAM);
2. CORE: every SIMT cluster pops replies from the interconnect (`icnt_cycle`);
3. ICNT: the fetch at the top of every memory sub-partition is pushed back to
   its SM if `icnt_has_buffer` allows, otherwise the step stalls;
4. DRAM: every partition's DRAM cycle;
5. L2: unless the sub-partition is `full(SECTOR_CHUNCK_SIZE)`, one request is
   popped from the interconnect into it, then its cache cycles;
6. ICNT: `icnt_transfer` advances the network;
7. CORE: every SM cycles (its schedulers issue, `scheduler_unit::cycle`),
   `issue_block2core` hands thread blocks to SMs round-robin, kernels finish;
8. every 50000 core cycles a deadlock is declared if no instruction retired.

The cycle loop is single-threaded. The order inside a cycle is fixed, and
components interact only through queues and buffers: interconnect input
queues, ejection and boundary buffers, sub-partition queues, register sets and
the scoreboard.

Two threads meet around the loop. The host calls `launch()` to put kernels
into `m_running_kernels`, posts `g_sim_signal_start` and waits on
`g_sim_signal_finish`. The simulation thread waits on start, runs a session
if `get_more_cta_left()`, and posts finish. A start that finds nothing to run
makes the thread leave its loop and post `g_sim_signal_exit`, which
`exit_simulation` waits on.

### Inventory

| Component | Source | State | Operations | Hard behaviour |
|---|---|---|---|---|
| Interconnect shim | `intersim2/interconnect_interface.cpp` | input queues, ejection buffers, boundary buffers (flits, tail flags, packet count), ejected-flit queues, round-robin turn, per subnet/node/VC | Push, Pop, HasBuffer, Transfer2BoundaryBuffer, WriteOutBuffer, GetEjectedFlit, Busy | flits of a packet split across buffers; credits; subnet selection; per-VC round robin |
| booksim network | `intersim2/networks/network.hpp` (declarations only) | channels, VC ownership, credits | _Step | wormhole VC allocation, credit flow control |
| Node map | `_CreateNodeMap` | device→node map and inverse | construction | preset tables, vector bounds, bijection |
| Top loop | `trace_gpgpu_sim.cc` | clock times, sub-partition queues, running kernels, block-issue turn, deadlock counters | cycle, next_clock_domain, issue_block2core, select_kernel, set_kernel_done, deadlock_check, active | back-pressure between ICNT and L2; clock ties; deadlock detection window |
| Warp scheduler | `scheduler_unit.cc` | per-scheduler last-issued warp, warp order | cycle, order_warps, sort_warps_by_oldest_dynamic_id, do_on_warp_issued | dual issue, the different-units rule, sub-core slots, break after one warp |
| Register sets | `register_set.hpp` | slots of issued instructions | has_free, move_in, move_out_to, get_ready | oldest-first dispatch, per-scheduler slots |
| Scoreboard | `scoreboard.hpp` (declaration only) | pending register writes per warp | checkCollision, reserveRegisters, releaseRegisters | RAW/WAW across dual issue |
| Cache line block | `line_cache_block.hpp` | tag, status, readable, dirty and byte masks | allocate, fill, set_status, set_byte_mask | masks that allocate leaves stale |
| Simulation thread | `gpgpu_context.cc` | three semaphores, `g_sim_done`, the thread's place in its do/while | `gpgpu_sim_thread_sequential`, `exit_simulation`, `launch` | a handshake of two threads; a wait nobody posts |
| Histograms | `stats/histogram.cc` | bin counts, maximum, sum | add2bin (pow2, linear) | bin index bounds, int overflow |
| Config and PTX data | `ptx/bison/src/*.hpp` | option values | sscanf parsing | out of scope (string parsing) |

## Modules

### `Interconnect.tla` (with `MC_Interconnect.tla`)

This module models the interconnect shim and the two top-loop steps that talk
to it.

- **Packets.** `pkt` is the sequence of packets pushed, with source,
  destination, data, subnet, flit count, kind and VC. `data` is `Push`'s
  `void *data`, the `mem_fetch`: a request carries its own index, and a reply
  carries the index of the request it answers, because the ICNT step pushes
  the same `mem_fetch` back.
- **Fabric state.** `inq`, `ej`, `bb`/`packetN`, `ejected` and `rr` are the
  shim's vectors of the same names. `net`, `owner` and `credits` stand for the
  booksim network, which is not in the repository.
- **Shim actions.**
  - `Push` and `HasBuffer` are the shim's functions.
  - The input and ejection capacities are `CreateInterconnect`'s:
    `input_buffer_size` and `ejection_buffer_size`, or 9 and `vc_buf_size`
    when the option is 0. The runs leave `ejection_buffer_size` at 0, so the
    ejection capacity is the router's credit count.
  - `NodeStep(s, n)` is one node of a network step. At most one flit is
    written to the ejection buffer (`WriteOutBuffer`), then
    `Transfer2BoundaryBuffer` runs, then one credit is returned
    (`GetEjectedFlit`).
  - `PopFrom`/`PopVc` are `Pop` with its round robin.
- **Spec-modelled actions.** `InjectFlit` is the network's injection, with
  wormhole VC ownership and one credit per flit. `ShaderIssue` and `ShaderPop`
  stand for the SMs' memory pipeline and `icnt_cycle`.
- **Top-loop steps.** `MemPop` and `MemReply` are the L2 and ICNT steps of
  `trace_gpgpu_sim::cycle`. `Finished` is `active()` turning false.
- **Refinement.** `Fetches` maps the packets to the abstract `mem_fetch`
  states of `MemFetch.tla`. A request is `IN_ICNT_TO_MEM` until it is
  popped at its sub-partition, then `IN_L2`. Once a reply carries it, it is
  `IN_ICNT_TO_SHADER`, and `DONE` once that reply is popped.
  `MemFetchLifecycle` is `MF!Spec` for `MF == INSTANCE MemFetch WITH ...`.

### `Scheduler.tla` (with `MC_Scheduler.tla`)

This module models the warp schedulers of one SM.

- **`SchedulerCycle(s)`** is the whole of `scheduler_unit::cycle`:
  - the greedy-then-oldest order (`OrderWarps`, built on the repository's
    comparator `OlderThan`);
  - for each warp, `IssueLoop` (the `while` loop with `checked`/`issued`
    against `max_issue`), with the scoreboard check, `Route` to MEM/INT/SP/SFU
    and `MoveIn` into the register set;
  - the stop after the first warp that issued (`WarpLoop`);
  - `m_last_supervised_issued`.
- **Register sets.** `HasFree`, `GetFree`/`MoveIn`, `HasReady` and
  `ReadySlot` are the shared and sub-core variants of `register_set`.
  `subCoreModel` (`sub_core_model`) is chosen in `Init` from
  `SubCoreModels`, so one run covers both.
- **Spec-modelled.** The scoreboard (`Collision`, reservation in the issue
  loop, release in `Writeback`), instruction fetch (`Fetch` fills an empty
  two-slot buffer) and the execution units (`Dispatch` takes an instruction out
  of its register set when `has_ready` holds).

### `NodeMap.tla` (with `MC_NodeMap.tla`)

This module models `InterconnectInterface::_CreateNodeMap`. The inputs
(`n_shader`, `n_mem`, the node count, `use_map`, the `memory_node_map` option)
are chosen in `Init`. `Create` is the whole function:

- `MemoryNode` picks the configured vector over the preset table
  (`PresetMemoryMap`).
- Without `use_map`, `IdentityMap` places every device on its own node.
- A config of the wrong length or a missing layout makes the assert fail.
- `ShaderNodes` is the SM loop; `SkipMemoryNodes` is its `while` loop over the
  memory nodes; `ReverseNodeMap` is the reverse loop.

The `while` loop reads `memory_node[memory_node_index]` after the index has
passed the last memory node. That read is undefined. Only whether it equals
`next_node` matters, so both outcomes are allowed, at most `MaxOobReads` in a
row, and `oobMatch` records that one matched.

### `TopLoop.tla` (with `MC_TopLoop.tla`)

This module models the simulation loop: `while (active()) { cycle();
deadlock_check(); }`.

- **State.** The clock times (`time`, kept relative to the earliest clock),
  `m_running_kernels`, each kernel's next CTA and launch latency, the cores'
  kernels and CTAs, `m_last_issued_kernel`, `m_last_cluster_issue`,
  `m_executed_kernel_uids`, `gpu_sim_cycle % 50000` (`phase`) and whether
  `gpu_sim_insn` moved since the last sample (`retired`).
- **`Cycle`** is one `cycle()` call with its `deadlock_check`:
  - `NextClockMask` and `Advance` are `next_clock_domain`;
  - on a CORE tick, `CoreTick` runs the core sweep, `gpu_sim_cycle++`,
    `issue_block2core` (`IssueSweep` over `SelectKernel`),
    `decrement_kernel_latency` and the deadlock sample.
- **`SimpleCycle`** is one `simple_cycle()` call. Its CORE part runs on every
  call unless `accelsim_compat_mode` is set, and it has no deadlock sample.
  `loop` and `compat` choose the variant in `Init`.
- **`Exit`** is `active()` turning false, then `update_stats`:
  `gpu_tot_issued_cta` (`totIssued`) takes the session's CTAs, which
  `hit_max_cta_count` and the CTA limit of `active()` read.
- **Spec-modelled.** A core's CTA execution (`CoreCycle`: one CTA per core,
  `InsnPerBlock` instructions, each retired or stalled in a cycle) and the
  cluster's `issue_block2core` (`ClusterIssue`). Their code is not in the
  repository.
- **Left to `Interconnect.tla`.** The ICNT, L2 and DRAM steps; here only
  their clocks move.
- **Own runs.** `Init` places every kernel before one session. Only the
  violation run `top_spurious_deadlock` uses it; the pass run of the loop
  is `sim_thread`, where `SimThread.tla` launches the kernels.

### `SimThread.tla` (with `MC_SimThread.tla`)

This module composes TopLoop with the two threads around it. It `EXTENDS
TopLoop` and adds the semaphores (as counters), `g_sim_done`, the thread's
place (`thread`) and the host's (`host`, `toLaunch`, `batch`), and the
host's copies (`allocations`, `m_allocations`; `sent`, the sectors handed to
the partitions).

- **Thread.** `WaitStart` is `sem_wait(start)` and the `get_more_cta_left()`
  branch: `SessionInit` (`init()`) and the loop, or post finish, leave the
  loop and post exit. The loop is TopLoop's `Cycle`/`SimpleCycle`.
  `SessionEnd` is TopLoop's `Exit` followed by `sem_post(finish)`. `Aborted`
  is `deadlock_check`'s `abort()`.
- **Host.** The repository's only host, `gpgpu_opencl_ptx_sim_main_perf`,
  is commented out: `launch`, `sem_post(start)`, `sem_wait(finish)`.
  - `HostLaunch` is `launch()`: the first NULL or done slot, or the
    assert's abort. `CanStartKernel` (`can_start_kernel`) is the test of
    that assert; the host of `main_perf` launches without asking it first.
  - The host may launch several kernels (in uid order) before `HostStart`,
    so kernels share sessions.
  - `HostWaitFinish` is the return from `sem_wait(finish)`.
  - `HostMemcpy(dst, count)` is `perf_memcpy_to_gpu`. It records the
    allocation with id `m_allocations.size() + 1`. With `m_perf_sim_memcpy`
    (`PerfSimMemcpy`) it sends one chunk per 32 bytes of `counter`, each with
    the one sector bit `wr_addr % 128 / 32` (`MemcpyChunks`, `SectorOf`).
    Address decoding only picks the partition. `handle_memcpy_to_gpu` is not
    in the repository, so a sector is named by its line and its bit.
  - `HostDone` ends the program without `exit_simulation`;
    `ExitSimulation` and `ExitWait` are `exit_simulation`. Only `ExitSpec`
    has them.

### `Histogram.tla` (with `MC_Histogram.tla`)

This module models `stats/histogram.cc`: one pow2 and one linear histogram,
each `[cnts, maximum, sum]`.

- **`Add2Bin(k)`** is `add2bin`:
  - `Pow2Bin` is the five-step bit trick, step by step, with `Bitwise`'s
    `shiftR` and `|`;
  - `LinearBin` divides and clamps;
  - `Record` is the common update.
- **`m_sum`.** It wraps modulo 2^32 (`WrapAdd`). The formula never leaves
  TLC's own 32-bit integers.
- **Error paths.** A negative sample fails the assert. A bin at or past
  `m_nbins` is an out-of-bounds write (`status = "corrupt"`).
- **`Copy(k)`** is the copy constructor. `Report` is what `fprint` prints.
- **History.** `added` records the samples given to each histogram, so
  properties can compare the histogram with a reference computed from them.

### `MemFetch.tla`

This is the abstract specification of what the interconnect promises. It
follows the `mem_fetch` life cycle of spec.md 3, restricted to the statuses
visible across the shim:

- `Create` is an SM making a request;
- `ToL2`, `ToShader` and `Consume` move one fetch forward a status;
- every step is weakly fair, so every fetch is eventually consumed.

`IN_L2` stands for every status inside the memory partition.

### `CacheBlock.tla` (with `MC_CacheBlock.tla`)

This module models one `line_cache_block` and the cache that drives it.

- **The block.** `line` holds its fields. Each method is an operator from the
  block before the call to the block after it: `Allocate`, `Fill`,
  `SetStatus`, `SetByteMask`, `GetDirtyByteMask` and the setters. A step of
  the cache can then compose its calls in the order the cache makes them.
- **The constructor.** It sets every field but `m_set_byte_mask_on_fill`,
  which `Init` leaves free, and the bitset `m_dirty_byte_mask`, which starts
  empty.
- **The cache (spec-modelled).** The L1/L2 caches are not in the repository.
  Their steps follow spec.md 3 and 4.4:
  - `ReadMiss` and `WriteMiss` allocate the invalid line, then set the
    on-fill flags. A write-allocate miss asks for MODIFIED with its byte mask
    merged.
  - `FillArrives` is the reply of the outstanding miss.
  - `WriteHit` is `set_status(MODIFIED)` followed by `set_byte_mask`.
  - `Evict` writes back `get_dirty_byte_mask` and sets INVALID.
  - `InvalidateReserved` sets `ignore_on_fill` and INVALID while the fill is
    still outstanding. This is the case the comment in `fill()` admits.
- **History.** `written` holds the bytes stored since the last `allocate`.
- **Abstracted away.** Times are left out, and so are sector masks, which the
  line cache ignores.

## Runs

| Run | Config | Checks | Result |
|---|---|---|---|
| icnt_safety | 1 SM, 1 memory, 2 subnets, 2 VCs, 1 credit/VC, ejection 1, boundary 2, input 2, 3 READ requests (8 B/1 flit, reply 40 B/2 flits) | TypeOK, InputQueueBound, EjectionBound, BoundaryIntegrity, FlitConservation, RoundRobinBounded | pass (72k states, ~30 s) |
| icnt_liveness | ejection 2, 2 credits/VC, input 3, 2 requests of either kind (WRITE 40 B/2 flits, ack 8 B/1 flit), FairSpec | DeliveredEventually, MemFetchLifecycle | pass (5.9k states, ~45 s) |
| icnt_one_subnet | subnets = 1 | DeliveredEventually | violation |
| sched | 2 schedulers, 3 warps, max issue 2, different-units rule on, sub-core and shared register sets, FairSpec | TypeOK, NoRegisterHazard, OneWarpPerCycle, SubCoreIsolation, DualIssueDiffUnits, AllWarpsComplete | pass (36k states, ~70 s) |
| nodemap | presets 8/8/16 and 28/8/36; sizes 2/2/4, 2/1/4, 3/1/4; every config of 1 or 2 entries over 0..3; 2 matching out-of-range reads | TypeOK, NodeMapBijective | pass |
| nodemap_oob | the presets alone | NodeMapBijectiveAnyRead | violation |
| sim_thread | 2 clusters, 2 slots, kernels 1 (1 CTA, latency 2) and 2 (2 CTAs, latency 0), periods L2 2 / ICNT 3 / DRAM 4 / CORE 3, 2 instructions per CTA, window 3; both loop functions, compat on and off; the host launches both kernels before one start or one per start, and makes up to 2 copies (40 bytes at 0, 32 bytes at 112); SystemSpec | ThreadTypeOK, SelectedOnce, LaunchLatencyRespected, HostBlockedWhileSimulating, LaunchIsSynchronous, ClockOrder, LaunchReturns | pass (21k states, ~16 s) |
| top_spurious_deadlock | as above, TopLoop's one session with both kernels, both latencies 3 | DeadlockOnlyWhenBusy | violation |
| histogram | 32 bins, stride 3, up to 2 samples per histogram from {-1, 0, 1, 3, 4, 15, 255, 65536, INT_MAX} | TypeOK, StatsMatchSamples | pass (94k states, ~40 s) |
| cache_block | 2 tags (symmetric), 2 bytes, 3 allocations | TypeOK, ReservedHasPendingFill, DirtyCoversWrites, StatusLifecycle | pass (930 states) |
| cache_dirty_mask | as above, 2 allocations | DirtyOnlyWrittenBytes | violation |
| sim_exit_hang | as sim_thread; ExitSpec, deadlock not checked | ExitReturns | violation |

What the runs show:

- **icnt_safety.**
  - The input queue never exceeds `_input_buffer_capacity`, so
    `HasBuffer` looks at the queue `Push` will fill.
  - The ejection buffer never exceeds its capacity, so `WriteOutBuffer`'s
    assert holds as long as credits come back for the VC their flit used.
  - Every boundary buffer holds whole packets in order, so Pop never returns a
    packet whose tail is still in the ejection buffer.
  - Every flit of every packet is in exactly one place until it is popped.
- **icnt_safety (round robin).** A VC holding a complete packet is passed
  over fewer than `Vcs` times in a row.
- **icnt_liveness.** Under weak fairness of every per-cycle step, every packet
  pushed is eventually popped at its destination. This covers the two
  back-pressures: the L2 queue being full, and HasBuffer failing for replies.
  The shim also implements `MemFetch`: every request is popped once at its
  sub-partition and answered by exactly one reply, which its SM consumes.
  A stalled ICNT step retries rather than dropping the fetch.
- **icnt_one_subnet (finding).** With `subnets = 1`, `Pop` at an SM still reads
  subnet 1 (`interconnect_interface.cpp:215`). Replies sit in subnet 0 and
  never arrive.
- **sched.**
  - No instruction issues while an older outstanding instruction of its warp
    writes a register it reads or writes. This includes two instructions issued
    in one cycle.
  - A scheduler issues at most `max_issue` instructions per cycle, from one
    warp it supervises.
  - In the sub-core model each scheduler fills only its own slot.
  - With shared slots, two instructions issued in one cycle go to different
    pipes. In the sub-core model this follows from the single slot per
    scheduler.
  - Every warp issues its whole trace.
- **nodemap.** For the presets and every strictly increasing configured
  layout, the node map is a bijection and the reverse map inverts it, as
  long as the out-of-range read does not match `next_node`. Dropping the
  sortedness premise, TLC finds `<<0, 0>>` breaking the map.
- **nodemap_oob (finding).** With the presets, the last SMs come after the
  last memory node. The loop then reads past the end of `memory_node`
  (`interconnect_interface.cpp:469`); a matching value pushes an SM off the
  network.
- **sim_thread.**
  - Every kernel picked by `select_kernel`'s round-robin loop is picked once,
    which is the assert at `trace_gpgpu_sim.cc:1246`, across sessions.
  - No CTA of a kernel starts before its launch latency has run out.
  - Each call ticks exactly the earliest clocks, ties included.
  - While the thread is in its cycle loop the host is blocked in
    `sem_wait(finish)`, so no launch touches `m_running_kernels` mid-session.
  - When `sem_wait(finish)` returns, every kernel launched before it has run
    all its CTAs and is done: `active()` does not end a session early.
  - With `cycle()`, every wait for finish returns unless `deadlock_check`
    aborts. A stalled core is caught by the sample.
  - The host's copies, one of them unaligned, interleave with the
    handshake without disturbing any of the above. Whether a copy marks
    every sector it writes is not checked here (see "Not modelled").
- **top_spurious_deadlock (finding).** The sample flags a deadlock whenever
  no instruction retired in a window, even with every core idle, waiting on a
  kernel's launch latency (`trace_gpgpu_sim.cc:651`). spec.md says it fires
  while something is busy.
- **histogram.** Whatever samples each histogram gets, its counts are the
  reference histogram of them:
  - pow2 bin b > 0 holds [2^(b-1), 2^b), so the bit trick is floor(log2) + 1
    at every step's edge;
  - the linear histogram clamps to the last bin;
  - max is the largest sample;
  - `m_sum` is their sum while that fits in an int, and negative after.
- **cache_block.**
  - A RESERVED line always has its fill outstanding.
  - Every byte written since the allocation is in the mask a write-back
    sends, across fills and write hits.
  - Status changes follow INVALID → RESERVED → VALID|MODIFIED → INVALID,
    with write hits and invalidations of reserved lines.
  - The one other change allowed is the fill of a line invalidated with
    `ignore_on_fill`. `fill()` does not look at that flag, so the line comes
    back VALID or MODIFIED under its old tag.
  - Every property holds for both values of the uninitialised
    `m_set_byte_mask_on_fill`.
- **cache_dirty_mask (finding).** `allocate` does not clear
  `m_dirty_byte_mask`, and no method ever does (`line_cache_block.hpp:19`).
  A line written, evicted and allocated again sends the old bytes with its
  next write-back.
- **sim_exit_hang (finding).** `exit_simulation` sets `g_sim_done` and waits
  on `g_sim_signal_exit` (`gpgpu_context.cc:152`). The thread never reads
  `g_sim_done` and posts exit only after a start that finds no CTAs.
  `exit_simulation` posts no start, so after the last launch the host and
  the thread wait on each other for ever.

### Bounds

- **Interconnect.** Two kinds whose request and reply sizes give 1- and
  2-flit packets make packets straddle buffers. One credit per VC and an
  ejection capacity of 1 (the `vc_buf_size` default) make the credit loop bind. Two VCs are the least that
  lets round robin and reordering happen, and two subnets cover both paths of
  `PopSubnet`/`PushSubnet`. The safety run issues READs only: a 1-flit
  request and a 2-flit reply already cover both packet sizes, and with
  WRITEs as well three requests take minutes. The liveness and refinement
  run issues both kinds, but only 2 requests: with 3 requests the liveness
  check does not finish in minutes.
- **NodeMap.** The two smallest presets and three small sizes, with and
  without spare nodes, cover the skip loop's match, mismatch and end-of-vector
  cases. Configs of one and two entries over four nodes include unsorted and
  duplicated layouts.
- **TopLoop.** Periods 2/3/4/3 give a CORE/ICNT tie and an L2 tick that
  lowers `smallest`. Two kernels over two slots make `select_kernel` use both
  its branches. A latency of 2 cycles holds kernel 1 back while kernel 2 runs.
  A window of 3 core cycles is long enough for a CTA of 2 instructions to
  finish in one window and to stall across one.
- **SimThread.** The same kernels. The host launches both before one start
  (two kernels in one session, both `select_kernel` branches) or one per
  start (a second session that reuses the freed slot and the kept
  `m_last_issued_kernel`). Each semaphore then holds at most 1. One copy
  is 40 bytes at a line start, so its last chunk is 8 bytes. The other is
  32 bytes at 112: it is not 32-aligned, and it crosses into the next line.
  Two copies, at any point of the handshake, let the id of a second
  allocation depend on the first.
- **Histogram.** The samples sit on each side of the steps of the bit trick,
  include INT_MAX (bin 31, and an `m_sum` overflow with any positive second
  sample) and a negative one. 32 bins are the fewest where no int falls past the end, and INT_MAX lands
  in the last one.
- **CacheBlock.** Two bytes tell "written now" from "written before". Three
  allocations let a line be written, evicted, reused and invalidated. Tags
  do not affect any property, so they are symmetric.
- **Scheduler.** The traces hold:
  - a RAW chain (LOAD→SP→INT);
  - an INT/SP pair that dual-issues;
  - an SFU/DP pair that the different-units rule must keep apart;
  - three warps on two schedulers, so one scheduler orders two warps.

### Fairness

The top loop calls every per-node and per-unit step every cycle of its
clock domain, and the clock domains all advance. So each step that stays
enabled is taken: weak fairness. The SMs' choice to issue more requests is not
fair, because requests are bounded by `MaxRequests`. In the scheduler, each
scheduler's `cycle()` is weakly fair, and so is each of fetch, dispatch and
writeback taken as a whole. The weak fairness of `MemFetch`'s steps is what
the interconnect's fairness has to deliver, and the refinement checks that it
does.

In TopLoop the thread calls `cycle()` as long as `active()` holds, and exits
as soon as it does not, so both are weakly fair. The fairness is stated on
`ClockStep`, the clock advance that every cycle call makes and only a cycle
call makes. With unequal periods (an `ASSUME`) it is the same condition as
fairness of the cycle call, but TLC can evaluate its `ENABLED` without
re-running the recursive sweeps. The cores' choice to retire or stall is not
fair: a core may stall for ever, which is what the deadlock sample exists for.

In SimThread the thread and the host are threads of one process. Whichever is
not blocked on a semaphore, or has had its semaphore posted, is scheduled
eventually. So `WaitStart`, `SessionEnd`, `HostLaunch`, `HostStart`,
`HostWaitFinish` and `ExitWait` are weakly fair. `HostDone` and
`ExitSimulation` are the host's choice to stop and are not fair.

### Mutants

Each property of a passing run is shown to be falsifiable. For each one, a
mapped definition is replaced by a plausible bug defined just before it, and
TLC finds the property violated. `PROJECT.json` lists the mutants, which
include:

- a HasBuffer that looks at the wrong subnet;
- credits that do not gate injection;
- a scoreboard check that ignores source registers;
- a scheduler loop without its `break`;
- an ICNT step that pops the sub-partition even when the push stalls;
- a `set_byte_mask` that replaces the mask instead of ORing into it;
- a `sem_wait(start)` that returns without taking the post.

## Not modelled, and why

- **The caches around `line_cache_block`.** The L1/L2 caches are not in the
  repository. `CacheBlock` drives the block with the steps spec.md describes.
  Its times and `set_last_access_time` carry no control and are abstracted
  away.
- **Per-pair ordering across VCs.** Packets of one source and destination on
  different VCs may be popped out of order. spec.md 4.2 allows this ("no
  cross-VC ordering"), so no property asks for it.
- **The 56- and 110-SM presets of `_CreateNodeMap`.** Their loops are deeper
  than the evaluation stack of a TLC worker.
- **The CTA limit (`gpu_max_cta_opt`).** It is translated in
  `HitMaxCtaCount` and `Active`, across sessions through `totIssued`, but not
  exercised: `MaxCta = 0` in the runs. With a limit, `LaunchIsSynchronous`
  fails by design (kernels are left unfinished) and the next start ends the
  thread; both are listed as hazards.
- **The memory side of `active()`.** Partitions and fabric busy are left
  out; `Interconnect.tla` has the fabric.
- **Kernels launched mid-session.** `SimThread`'s host launches between
  sessions, as the handshake requires.
- **`synchronize()`.** It busy-waits until the stream manager is empty and
  `g_sim_active` is false, or `g_sim_done`. No live code sets `g_sim_active`,
  and the stream manager is not in the repository.
- **`print_simulation_time`.** It is output, except that it divides by
  `cycles_per_sec`, which is 0 when a session simulated fewer cycles than
  seconds have passed. Wall-clock time is not in the model; the hazard is
  listed in `PROJECT.json`.
- **Whether `perf_memcpy_to_gpu` marks every sector it copies.** The code
  comments out `assert(dst_start_addr % 32 == 0)` because a trace may copy
  to any address. An unaligned copy's last sector is never sent.
  `MemcpyCoversCopy` states the property in `SimThread.tla`, and
  `MC_SimThread` makes such a copy (32 bytes at 112). Add the property to
  `sim_thread.cfg` and TLC reports it violated at that copy (sector 0 of
  line 1 is never sent). No run checks it: the project has used all its
  runs, and a run restricted to aligned copies would hide the case the
  code's comment describes. The hazard is listed in `PROJECT.json`.
- **The copy of a histogram.** `CopyKeepsReport` is stated in
  `Histogram.tla`, and TLC violates it at the first copy of a non-empty
  histogram (`histogram.cc:27` zeroes `m_maximum` and `m_sum`). No run
  checks it, because the copy constructor has no caller in the repository.
- **DRAM steps, L1/L2 flushes and `binned_histogram::add2bin`.** The last is
  `assert(0)`.
- **Configuration parsing, display and statistics output.** These are string
  and I/O work with no bearing on the properties.
- **Warp barriers (`waiting()`) and CDP latency.** No trace in the repository
  uses them.
- **The DP/TENSOR/SPEC branches of the scheduler.** They throw.

## Plan

Done:

1. Interconnect.
2. Scheduler.
3. NodeMap.
4. TopLoop, including `simple_cycle`.
5. Histogram.
6. CacheBlock, with its spec-modelled cache.
7. The `MemFetch` abstraction, refined by `Interconnect`.
8. SimThread: the host/thread handshake around TopLoop.
9. The host's `perf_memcpy_to_gpu`, and `CreateInterconnect`'s buffer
   capacity defaults.

Next:

- **Abstract specification of issue.** Instructions leave each warp in
  program order with no outstanding hazard. `Scheduler` is to refine it.
- **Compose TopLoop with the delivery abstraction**, so the memory side of
  `active()` and the ICNT/L2 steps share one clock.
- **Exercise `gpu_max_cta_opt`** (`MaxCta > 0`).
