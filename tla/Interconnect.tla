---------------------------- MODULE Interconnect ----------------------------
(***************************************************************************)
(* The interconnect shim of the simulator (InterconnectInterface in        *)
(* src/playground/sys/src/ref/intersim2/interconnect_interface.cpp) and    *)
(* the two steps of the top cycle loop that move memory fetches between    *)
(* the shim and the memory sub-partitions (trace_gpgpu_sim::cycle).        *)
(*                                                                         *)
(* A packet is pushed as ceil(size/flit_size) flits onto the input queue   *)
(* of its source node, crosses the network on one virtual channel, lands   *)
(* in the ejection buffer of its destination, is moved flit by flit into   *)
(* the boundary buffer, and is popped by the destination device with a     *)
(* per-VC round robin once its tail has arrived.                           *)
(*                                                                         *)
(* The booksim network itself is not in the repository; it is modelled     *)
(* from the spec as FIFO channels per (subnet, destination, vc), with      *)
(* wormhole VC ownership and credit flow control (InjectFlit).             *)
(* The node map is the identity here (use_map = 0); NodeMap.tla models     *)
(* the preset and configured maps.                                         *)
(***************************************************************************)
EXTENDS Naturals, Sequences, SequencesExt, FiniteSets

CONSTANTS
  NShader,                  \* _n_shader: devices 0..NShader-1 are SMs
  NMem,                     \* _n_mem: devices NShader.. are memory sub-partitions
  Subnets,                  \* "subnets" (1 or 2)
  Vcs,                      \* "num_vcs"
  FlitSize,                 \* "flit_size" in bytes
  InputBufferSize,          \* "input_buffer_size" (0: not set)
  EjectionBufferSize,       \* "ejection_buffer_size" (0: not set)
  BoundaryBufferCapacity,   \* "boundary_buffer_size", _boundary_buffer_capacity
  VcBufSize,                \* "vc_buf_size": router credits per output VC
  L2QueueSize,              \* capacity of the sub-partition's icnt->L2 queue
  SectorChunkSize,          \* SECTOR_CHUNCK_SIZE, the room full() asks for
  MaxRequests,              \* bound on the requests the SMs issue
  ReqSize,                  \* [Kinds -> bytes]: size of a request packet
  ReplySize,                \* [Kinds -> bytes]: response_size of its reply
  Kinds                     \* the access types the SMs issue


ASSUME /\ NShader >= 1 /\ NMem >= 1
       /\ Kinds # {} /\ Kinds \subseteq {"READ", "WRITE"}
       /\ Subnets \in {1, 2} /\ Vcs >= 1
       /\ FlitSize >= 1 /\ BoundaryBufferCapacity >= 1
       /\ InputBufferSize \in Nat /\ EjectionBufferSize \in Nat
       /\ ReqSize \in [Kinds -> Nat \ {0}] /\ ReplySize \in [Kinds -> Nat \ {0}]

Shaders == 0 .. NShader - 1
Mems == NShader .. NShader + NMem - 1
Devices == Shaders \cup Mems
SubnetIds == 0 .. Subnets - 1
VcIds == 0 .. Vcs - 1

(* CreateInterconnect: an option left at 0 takes its default, vc_buf_size *)
(* for the ejection buffers and 9 for the input queues.                   *)
EjectionBufferCapacity ==
  IF EjectionBufferSize # 0 THEN EjectionBufferSize ELSE VcBufSize
InputBufferCapacity ==
  IF InputBufferSize # 0 THEN InputBufferSize ELSE 9
MaxPackets == 2 * MaxRequests

VARIABLES
  pkt,      \* pkt[i]: the i-th packet pushed (src, dst, data, subnet, nflits, kind, vc)
  inq,      \* _traffic_manager->_input_queue[subnet][node][0], flits
  net,      \* flits in the network toward [subnet][node][vc]
  credits,  \* router credits toward the ejection buffer [subnet][node][vc]
  owner,    \* packet holding output VC [subnet][node][vc], 0 when free
  ej,       \* _ejection_buffer[subnet][node][vc]
  bb,       \* _boundary_buffer[subnet][node][vc]._buffer / _tail_flag
  packetN,  \* _boundary_buffer[subnet][node][vc]._packet_n
  ejected,  \* _ejected_flit_queue[subnet][node]: VCs awaiting credit return
  rr,       \* _round_robin_turn[subnet][node]
  l2q,      \* memory sub-partition queue of each memory device (packet ids)
  popped,   \* packet ids in the order Pop returned them
  bypass    \* history: pops at a node that passed a VC holding a packet

vars == <<pkt, inq, net, credits, owner, ej, bb, packetN, ejected, rr,
          l2q, popped, bypass>>

Flit == [pid : 1 .. MaxPackets, head : BOOLEAN, tail : BOOLEAN]
PerVc(x) == [SubnetIds -> [Devices -> [VcIds -> x]]]

(* n_flits = size / _flit_size + ((size % _flit_size) ? 1 : 0)             *)
NFlits(size) == size \div FlitSize + (IF size % FlitSize # 0 THEN 1 ELSE 0)

(* The flits _GeneratePacket enqueues for packet i.                        *)
PacketFlits(i, nf) == [k \in 1 .. nf |-> [pid |-> i, head |-> k = 1, tail |-> k = nf]]

Init ==
  /\ pkt = <<>>
  /\ inq = [s \in SubnetIds |-> [n \in Devices |-> <<>>]]
  /\ net = [s \in SubnetIds |-> [n \in Devices |-> [v \in VcIds |-> <<>>]]]
  /\ credits = [s \in SubnetIds |-> [n \in Devices |-> [v \in VcIds |-> VcBufSize]]]
  /\ owner = [s \in SubnetIds |-> [n \in Devices |-> [v \in VcIds |-> 0]]]
  /\ ej = [s \in SubnetIds |-> [n \in Devices |-> [v \in VcIds |-> <<>>]]]
  /\ bb = [s \in SubnetIds |-> [n \in Devices |-> [v \in VcIds |-> <<>>]]]
  /\ packetN = [s \in SubnetIds |-> [n \in Devices |-> [v \in VcIds |-> 0]]]
  /\ ejected = [s \in SubnetIds |-> [n \in Devices |-> <<>>]]
  /\ rr = [s \in SubnetIds |-> [n \in Devices |-> 0]]
  /\ l2q = [m \in Mems |-> <<>>]
  /\ popped = <<>>
  /\ bypass = [s \in SubnetIds |-> [n \in Devices |-> [v \in VcIds |-> 0]]]

-----------------------------------------------------------------------------
(* Mutation: HasBuffer that always looks at the request subnet.          *)
HasBufferSubnet0Only(d, size) == Len(inq[0][d]) + NFlits(size) <= InputBufferCapacity

(* InterconnectInterface::HasBuffer                                        *)
HasBuffer(d, size) ==
  IF Subnets > 1 /\ d >= NShader
  THEN Len(inq[1][d]) + NFlits(size) <= InputBufferCapacity
  ELSE Len(inq[0][d]) + NFlits(size) <= InputBufferCapacity

(* Push: the subnet a packet injected by device d travels on.              *)
PushSubnet(d) == IF Subnets = 1 THEN 0 ELSE IF d < NShader THEN 0 ELSE 1

(* InterconnectInterface::Push (HasBuffer is its asserted precondition).   *)
(* data is the mem_fetch the packet carries, named by the index of the     *)
(* request packet that created it: a reply carries its request's fetch.    *)
Push(src, dst, data, size, kind) ==
  LET i == Len(pkt) + 1
      s == PushSubnet(src)
      nf == NFlits(size)
  IN /\ pkt' = Append(pkt, [src |-> src, dst |-> dst, data |-> data, subnet |-> s,
                            nflits |-> nf, kind |-> kind, vc |-> -1])
     /\ inq' = [inq EXCEPT ![s][src] = @ \o PacketFlits(i, nf)]

PopSubnet(d) == IF d < NShader THEN 1 ELSE 0

HasPacket(s, n, v) == packetN[s][n][v] > 0

(* The VC Pop(d) takes its packet from, or -1 when it returns NULL. A       *)
(* subnet index past the _boundary_buffer vector reads no packet.          *)
PopVc(d) ==
  LET s == PopSubnet(d)
      order == [k \in VcIds |-> (rr[s][d] + k) % Vcs]
      found == {k \in VcIds : HasPacket(s, d, order[k])}
  IN IF s \notin SubnetIds \/ found = {} THEN -1 ELSE order[Min(found)]

(* Mutation: PopPacket that drops only the front flit.                   *)
PopPacketOneFlit(b) == Tail(b)

(* _BoundaryBufferItem::PopPacket: drop flits up to and including the      *)
(* first tail.                                                             *)
PopPacket(b) ==
  LET t == SelectInSeq(b, LAMBDA f : f.tail) IN SubSeq(b, t + 1, Len(b))

PopPacketData(b) == b[SelectInSeq(b, LAMBDA f : f.tail)].pid

(* Mutation: the round-robin turn stays on the VC just served.           *)
PopFromNoAdvance(d, v) ==
  LET s == PopSubnet(d) IN
  /\ bb' = [bb EXCEPT ![s][d][v] = PopPacket(@)]
  /\ packetN' = [packetN EXCEPT ![s][d][v] = @ - 1]
  /\ rr' = [rr EXCEPT ![s][d] = v]
  /\ popped' = Append(popped, PopPacketData(bb[s][d][v]))
  /\ bypass' = [bypass EXCEPT ![s][d] =
                  [u \in VcIds |-> IF u # v /\ HasPacket(s, d, u)
                                   THEN @[u] + 1 ELSE 0]]

(* The state change of a Pop(d) that returns the packet of VC v.           *)
PopFrom(d, v) ==
  LET s == PopSubnet(d) IN
  /\ bb' = [bb EXCEPT ![s][d][v] = PopPacket(@)]
  /\ packetN' = [packetN EXCEPT ![s][d][v] = @ - 1]
  /\ rr' = [rr EXCEPT ![s][d] = (v + 1) % Vcs]
  /\ popped' = Append(popped, PopPacketData(bb[s][d][v]))
  /\ bypass' = [bypass EXCEPT ![s][d] =
                  [u \in VcIds |-> IF u # v /\ HasPacket(s, d, u)
                                   THEN @[u] + 1 ELSE 0]]

-----------------------------------------------------------------------------
(* The network (booksim, modelled from the spec): the front flit of an     *)
(* input queue enters the channel toward its destination on a VC. A head   *)
(* flit needs a free output VC and takes it until its tail passes; every   *)
(* flit needs a credit of that VC.                                         *)
(* Mutation: a flit enters the network without a credit of its VC.      *)
InjectFlitNoCredit(s, n) ==
  /\ inq[s][n] # <<>>
  /\ LET f == Head(inq[s][n])
         dst == pkt[f.pid].dst
     IN \E v \in VcIds :
          /\ IF f.head THEN owner[s][dst][v] = 0 ELSE v = pkt[f.pid].vc
          /\ credits' = [credits EXCEPT ![s][dst][v] = @ - 1]
          /\ owner' = [owner EXCEPT ![s][dst][v] = IF f.tail THEN 0 ELSE f.pid]
          /\ pkt' = [pkt EXCEPT ![f.pid].vc = v]
          /\ net' = [net EXCEPT ![s][dst][v] = Append(@, f)]
          /\ inq' = [inq EXCEPT ![s][n] = Tail(@)]
  /\ UNCHANGED <<ej, bb, packetN, ejected, rr, l2q, popped, bypass>>

InjectFlit(s, n) ==
  /\ inq[s][n] # <<>>
  /\ LET f == Head(inq[s][n])
         dst == pkt[f.pid].dst
     IN \E v \in VcIds :
          /\ IF f.head THEN owner[s][dst][v] = 0 ELSE v = pkt[f.pid].vc
          /\ credits[s][dst][v] > 0
          /\ credits' = [credits EXCEPT ![s][dst][v] = @ - 1]
          /\ owner' = [owner EXCEPT ![s][dst][v] = IF f.tail THEN 0 ELSE f.pid]
          /\ pkt' = [pkt EXCEPT ![f.pid].vc = v]
          /\ net' = [net EXCEPT ![s][dst][v] = Append(@, f)]
          /\ inq' = [inq EXCEPT ![s][n] = Tail(@)]
  /\ UNCHANGED <<ej, bb, packetN, ejected, rr, l2q, popped, bypass>>

(* One node of GPUTrafficManager::_Step: at most one flit is read from the *)
(* network into the ejection buffer (WriteOutBuffer), then                 *)
(* Transfer2BoundaryBuffer moves one flit per VC whose boundary buffer has *)
(* room (PushFlitData counts tails), then GetEjectedFlit returns the       *)
(* credit of one transferred flit.                                         *)
(* Mutation: the flit is copied into the boundary buffer but not popped  *)
(* from the ejection buffer.                                             *)
Transfer2BoundaryBufferNoPop(s, n, e0) ==
  LET moved == {v \in VcIds : e0[v] # <<>> /\ Len(bb[s][n][v]) < BoundaryBufferCapacity}
  IN [ej |-> e0,
      bb |-> [v \in VcIds |-> IF v \in moved THEN Append(bb[s][n][v], Head(e0[v]))
                              ELSE bb[s][n][v]],
      pn |-> [v \in VcIds |-> packetN[s][n][v] +
                              (IF v \in moved /\ Head(e0[v]).tail THEN 1 ELSE 0)],
      q  |-> ejected[s][n] \o SetToSortSeq(moved, <)]

(* Mutation: the credit of every transferred flit goes back to VC 0.    *)
Transfer2BoundaryBufferCreditVc0(s, n, e0) ==
  LET moved == {v \in VcIds : e0[v] # <<>> /\ Len(bb[s][n][v]) < BoundaryBufferCapacity}
  IN [ej |-> [v \in VcIds |-> IF v \in moved THEN Tail(e0[v]) ELSE e0[v]],
      bb |-> [v \in VcIds |-> IF v \in moved THEN Append(bb[s][n][v], Head(e0[v]))
                              ELSE bb[s][n][v]],
      pn |-> [v \in VcIds |-> packetN[s][n][v] +
                              (IF v \in moved /\ Head(e0[v]).tail THEN 1 ELSE 0)],
      q  |-> ejected[s][n] \o [k \in 1 .. Cardinality(moved) |-> 0]]

Transfer2BoundaryBuffer(s, n, e0) ==
  LET moved == {v \in VcIds : e0[v] # <<>> /\ Len(bb[s][n][v]) < BoundaryBufferCapacity}
  IN [ej |-> [v \in VcIds |-> IF v \in moved THEN Tail(e0[v]) ELSE e0[v]],
      bb |-> [v \in VcIds |-> IF v \in moved THEN Append(bb[s][n][v], Head(e0[v]))
                              ELSE bb[s][n][v]],
      pn |-> [v \in VcIds |-> packetN[s][n][v] +
                              (IF v \in moved /\ Head(e0[v]).tail THEN 1 ELSE 0)],
      q  |-> ejected[s][n] \o SetToSortSeq(moved, <)]

(* GetEjectedFlit: the front of _ejected_flit_queue is popped, if any.   *)
GetEjectedFlit(q) == IF q = <<>> THEN <<>> ELSE Tail(q)

NodeStep(s, n) ==
  \E a \in {-1} \cup {v \in VcIds : net[s][n][v] # <<>>} :
    LET e0 == IF a = -1 THEN ej[s][n]
              ELSE [ej[s][n] EXCEPT ![a] = Append(@, Head(net[s][n][a]))]
        t == Transfer2BoundaryBuffer(s, n, e0)
    IN /\ net' = IF a = -1 THEN net ELSE [net EXCEPT ![s][n][a] = Tail(@)]
       /\ ej' = [ej EXCEPT ![s][n] = t.ej]
       /\ bb' = [bb EXCEPT ![s][n] = t.bb]
       /\ packetN' = [packetN EXCEPT ![s][n] = t.pn]
       /\ ejected' = [ejected EXCEPT ![s][n] = GetEjectedFlit(t.q)]
       /\ credits' = IF t.q = <<>> THEN credits
                     ELSE [credits EXCEPT ![s][n][Head(t.q)] = @ + 1]
       /\ UNCHANGED <<pkt, inq, owner, rr, l2q, popped, bypass>>

-----------------------------------------------------------------------------
(* The devices at the edges of the shim.                                   *)

Requests == {i \in DOMAIN pkt : pkt[i].src \in Shaders}

(* An SM sends a request to a memory sub-partition when the shim has room  *)
(* (the SM's memory pipeline is not in the repository; spec-modelled).     *)
ShaderIssue(sh, m, kind) ==
  /\ Cardinality(Requests) < MaxRequests
  /\ HasBuffer(sh, ReqSize[kind])
  /\ Push(sh, m, Len(pkt) + 1, ReqSize[kind], kind)
  /\ UNCHANGED <<net, credits, owner, ej, bb, packetN, ejected, rr, l2q, popped, bypass>>

(* An SM takes a reply out of the shim (cluster icnt_cycle, spec-modelled). *)
ShaderPop(sh) ==
  /\ PopVc(sh) # -1
  /\ PopFrom(sh, PopVc(sh))
  /\ UNCHANGED <<pkt, inq, net, credits, owner, ej, ejected, l2q>>

(* trace_gpgpu_sim::cycle, L2 clock: unless the sub-partition is full for   *)
(* SECTOR_CHUNCK_SIZE requests, pop a request from the shim and push it.   *)
SubPartitionFull(m) == Len(l2q[m]) + SectorChunkSize > L2QueueSize

MemPop(m) ==
  /\ ~SubPartitionFull(m)
  /\ PopVc(m) # -1
  /\ PopFrom(m, PopVc(m))
  /\ l2q' = [l2q EXCEPT ![m] = Append(@, PopPacketData(bb[PopSubnet(m)][m][PopVc(m)]))]
  /\ UNCHANGED <<pkt, inq, net, credits, owner, ej, ejected>>

(* trace_gpgpu_sim::cycle, ICNT clock: the fetch at the top of the          *)
(* sub-partition is pushed back to its SM when the shim has room for       *)
(* response_size; otherwise the step stalls (gpu_stall_icnt2sh).           *)
(* Mutation: the sub-partition queue is popped even when the push stalls. *)
MemReplyDropOnStall(m) ==
  /\ l2q[m] # <<>>
  /\ LET r == pkt[Head(l2q[m])]
     IN IF HasBuffer(m, ReplySize[r.kind])
        THEN Push(m, r.src, Head(l2q[m]), ReplySize[r.kind], r.kind)
        ELSE UNCHANGED <<pkt, inq>>
  /\ l2q' = [l2q EXCEPT ![m] = Tail(@)]
  /\ UNCHANGED <<net, credits, owner, ej, bb, packetN, ejected, rr, popped, bypass>>

MemReply(m) ==
  /\ l2q[m] # <<>>
  /\ LET r == pkt[Head(l2q[m])]
     IN /\ HasBuffer(m, ReplySize[r.kind])
        /\ Push(m, r.src, Head(l2q[m]), ReplySize[r.kind], r.kind)
  /\ l2q' = [l2q EXCEPT ![m] = Tail(@)]
  /\ UNCHANGED <<net, credits, owner, ej, bb, packetN, ejected, rr, popped, bypass>>

(* trace_gpgpu_sim::active() is false: no work is left anywhere.           *)
Busy ==
  \/ \E s \in SubnetIds, n \in Devices :
        inq[s][n] # <<>> \/ \E v \in VcIds : net[s][n][v] # <<>> \/ ej[s][n][v] # <<>>
                                             \/ HasPacket(s, n, v)
  \/ \E m \in Mems : l2q[m] # <<>>

Finished ==
  /\ Cardinality(Requests) = MaxRequests
  /\ ~Busy
  /\ UNCHANGED vars

Next ==
  \/ \E sh \in Shaders, m \in Mems, k \in Kinds : ShaderIssue(sh, m, k)
  \/ \E s \in SubnetIds, n \in Devices : InjectFlit(s, n) \/ NodeStep(s, n)
  \/ \E sh \in Shaders : ShaderPop(sh)
  \/ \E m \in Mems : MemPop(m) \/ MemReply(m)
  \/ Finished

(* Every per-node step is called each cycle by the top loop, so each is    *)
(* weakly fair; the SMs' choice to issue more requests is not.             *)
Fairness ==
  /\ \A s \in SubnetIds, n \in Devices : WF_vars(InjectFlit(s, n)) /\ WF_vars(NodeStep(s, n))
  /\ \A sh \in Shaders : WF_vars(ShaderPop(sh))
  /\ \A m \in Mems : WF_vars(MemPop(m)) /\ WF_vars(MemReply(m))

Spec == Init /\ [][Next]_vars
FairSpec == Spec /\ Fairness

-----------------------------------------------------------------------------
(* Properties                                                              *)

TypeOK ==
  /\ pkt \in Seq([src : Devices, dst : Devices, data : 1 .. MaxPackets, subnet : SubnetIds,
                  nflits : Nat \ {0}, kind : Kinds, vc : {-1} \cup VcIds])
  /\ inq \in [SubnetIds -> [Devices -> Seq(Flit)]]
  /\ net \in PerVc(Seq(Flit)) /\ ej \in PerVc(Seq(Flit)) /\ bb \in PerVc(Seq(Flit))
  /\ credits \in PerVc(0 .. VcBufSize) /\ packetN \in PerVc(Nat)
  /\ owner \in PerVc(0 .. MaxPackets)
  /\ rr \in [SubnetIds -> [Devices -> VcIds]]
  /\ l2q \in [Mems -> Seq(1 .. MaxPackets)]

(* HasBuffer admits a packet only when the input queue of the subnet Push  *)
(* will use has room for all its flits: input queues never exceed          *)
(* _input_buffer_capacity.                                                 *)
InputQueueBound ==
  \A s \in SubnetIds, n \in Devices : Len(inq[s][n]) <= InputBufferCapacity

(* WriteOutBuffer asserts room in the ejection buffer; the credits the     *)
(* router holds (vc_buf_size) must never let more flits arrive than        *)
(* _ejection_buffer_capacity.                                              *)
EjectionBound ==
  \A s \in SubnetIds, n \in Devices, v \in VcIds : Len(ej[s][n][v]) <= EjectionBufferCapacity

(* Packet integrity at the boundary buffer, which PopPacket asserts: the   *)
(* buffer is whole packets followed by the head part of one more, a flit   *)
(* that does not end its packet is followed by a flit of the same packet,  *)
(* and _packet_n counts exactly the tails held.                            *)
BoundaryIntegrity ==
  \A s \in SubnetIds, n \in Devices, v \in VcIds :
    LET b == bb[s][n][v] IN
    /\ Len(b) <= BoundaryBufferCapacity
    /\ \A k \in 1 .. Len(b) : b[k].head <=> (k = 1 \/ b[k - 1].tail)
    /\ \A k \in 1 .. Len(b) - 1 : ~b[k].tail => b[k + 1].pid = b[k].pid
    /\ packetN[s][n][v] = Len(SelectSeq(b, LAMBDA f : f.tail))

(* At most one owner: every flit of a pushed packet is in exactly one      *)
(* container (input queue, network, ejection or boundary buffer) until     *)
(* the packet is popped, after which none is left, and a packet is popped  *)
(* at most once, by its destination.                                       *)
FlitsOf(i, q) == Len(SelectSeq(q, LAMBDA f : f.pid = i))
Idx == SubnetIds \X Devices \X VcIds
InFabric(i) ==
  MapThenSumSet(LAMBDA t : FlitsOf(i, net[t[1]][t[2]][t[3]]) + FlitsOf(i, ej[t[1]][t[2]][t[3]])
                           + FlitsOf(i, bb[t[1]][t[2]][t[3]]), Idx)
  + MapThenSumSet(LAMBDA t : FlitsOf(i, inq[t[1]][t[2]]), SubnetIds \X Devices)

FlitConservation ==
  \A i \in DOMAIN pkt :
    /\ Len(SelectSeq(popped, LAMBDA x : x = i)) <= 1
    /\ InFabric(i) = IF \E k \in DOMAIN popped : popped[k] = i THEN 0 ELSE pkt[i].nflits

(* Round-robin fairness of Pop: a VC that holds a complete packet is       *)
(* passed over by at most num_vcs - 1 pops at its node before it is served. *)
RoundRobinBounded ==
  \A s \in SubnetIds, n \in Devices, v \in VcIds : bypass[s][n][v] <= Vcs - 1

(* Every packet pushed is eventually popped at its destination: requests   *)
(* reach the memory side and replies reach the SM.                         *)
WasPopped(i) == \E k \in DOMAIN popped : popped[k] = i
DeliveredEventually ==
  \A i \in 1 .. MaxPackets : (i <= Len(pkt)) ~> WasPopped(i)

(* The mem_fetch of request i, seen through the packets that carry it:   *)
(* popped at its sub-partition, answered by a reply packet, that reply     *)
(* popped at the SM.                                                       *)
RepliesTo(i) == {j \in DOMAIN pkt : pkt[j].src \in Mems /\ pkt[j].data = i}
FetchStatus(i) ==
  IF RepliesTo(i) = {}
  THEN IF WasPopped(i) THEN "IN_L2" ELSE "IN_ICNT_TO_MEM"
  ELSE IF \E j \in RepliesTo(i) : WasPopped(j) THEN "DONE" ELSE "IN_ICNT_TO_SHADER"
Fetches ==
  [i \in Requests |-> [sm |-> pkt[i].src, mem |-> pkt[i].dst, kind |-> pkt[i].kind,
                       status |-> FetchStatus(i)]]

MF == INSTANCE MemFetch WITH Ids <- 1 .. MaxPackets, MaxFetches <- MaxRequests,
                             mf <- Fetches

(* The shim implements the mem_fetch life cycle of spec.md 3: every fetch *)
(* an SM pushes is popped once at its sub-partition, answered there by     *)
(* exactly one reply (trace_gpgpu_sim::cycle pushes the fetch at the top  *)
(* of the sub-partition queue back), and that reply is consumed by the SM; *)
(* statuses never move backward and none is skipped.                       *)
MemFetchLifecycle == MF!Spec
=============================================================================
