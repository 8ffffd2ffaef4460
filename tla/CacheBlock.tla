----------------------------- MODULE CacheBlock -----------------------------
(***************************************************************************)
(* One line_cache_block (line_cache_block.hpp) and the cache that drives  *)
(* it. The block's methods are translated from the code, each as a        *)
(* function from the block before the call to the block after it, so that *)
(* a step of the cache composes its calls in order. The cache that calls  *)
(* them is not in the repository: its steps follow spec.md 3 (CacheBlock) *)
(* and 4.4, and the comment in fill() that a block whose ignore_on_fill   *)
(* is set may be filled when it is no longer RESERVED.                    *)
(*                                                                         *)
(* Times (alloc, fill, last access) and the sector masks the line cache   *)
(* ignores are left out; a byte mask is a subset of Bytes.                *)
(*                                                                         *)
(* pending (the MSHR entry of the line) and fillMask are the cache's      *)
(* state; written (the bytes stored into the line since its last          *)
(* allocate) is history. A write-back sends get_dirty_byte_mask of a     *)
(* MODIFIED line, so what the properties say of a MODIFIED line's dirty  *)
(* mask is what they say of the write-back.                               *)
(***************************************************************************)
EXTENDS Naturals, FiniteSets

CONSTANTS
  Tags,         \* block tags the cache allocates the line for
  Bytes,        \* the bytes of a line
  MaxAllocs     \* bound on the allocations of the line

States == {"INVALID", "RESERVED", "VALID", "MODIFIED"}
NoTag == "none"
WriteMasks == SUBSET Bytes \ {{}}

VARIABLES
  line,         \* the line_cache_block's fields
  pending,      \* the cache: a fill for the line is outstanding
  fillMask,     \* the cache: byte mask of the request that missed
  written,      \* history: bytes written since the last allocate
  allocs        \* number of allocate calls

vars == <<line, pending, fillMask, written, allocs>>

(* Mutation: a constructor without m_status = INVALID.                   *)
InitStatusUnset ==
  /\ line \in [status: States \cup {"indeterminate"}, tag: {NoTag}, readable: {TRUE},
               ignoreOnFill: {FALSE}, modifiedOnFill: {FALSE},
               readableOnFill: {FALSE}, byteMaskOnFill: BOOLEAN, dirty: {{}}]
  /\ pending = FALSE /\ fillMask = {} /\ written = {} /\ allocs = 0

(* The constructor. It does not set m_set_byte_mask_on_fill, so that bool *)
(* holds whatever the memory held; the bitset m_dirty_byte_mask starts    *)
(* empty. m_tag belongs to the base class (not in the repository).        *)
Init ==
  /\ line \in [status: {"INVALID"}, tag: {NoTag}, readable: {TRUE},
               ignoreOnFill: {FALSE}, modifiedOnFill: {FALSE},
               readableOnFill: {FALSE}, byteMaskOnFill: BOOLEAN, dirty: {{}}]
  /\ pending = FALSE
  /\ fillMask = {}
  /\ written = {}
  /\ allocs = 0

-----------------------------------------------------------------------------
(* The block's methods.                                                   *)

(* allocate: tag, times, status RESERVED and the four on-fill flags.      *)
(* m_readable and m_dirty_byte_mask are left as they were.                *)
AllocateKeepsStatus(l, t) ==
  [l EXCEPT !.tag = t, !.ignoreOnFill = FALSE, !.modifiedOnFill = FALSE,
            !.readableOnFill = FALSE, !.byteMaskOnFill = FALSE]

Allocate(l, t) ==
  [l EXCEPT !.tag = t, !.status = "RESERVED", !.ignoreOnFill = FALSE,
            !.modifiedOnFill = FALSE, !.readableOnFill = FALSE,
            !.byteMaskOnFill = FALSE]

(* Mutation: a fill that leaves a line without the modified flag in its  *)
(* old status.                                                            *)
FillOnlyModified(l, m) ==
  [l EXCEPT !.status = IF l.modifiedOnFill THEN "MODIFIED" ELSE @,
            !.readable = @ \/ l.readableOnFill,
            !.dirty = IF l.byteMaskOnFill THEN @ \cup m ELSE @]

(* fill: MODIFIED or VALID by m_set_modified_on_fill, whatever the status *)
(* was (the assert is commented out); readable and the byte mask as the   *)
(* on-fill flags say.                                                      *)
Fill(l, m) ==
  [l EXCEPT !.status = IF l.modifiedOnFill THEN "MODIFIED" ELSE "VALID",
            !.readable = @ \/ l.readableOnFill,
            !.dirty = IF l.byteMaskOnFill THEN @ \cup m ELSE @]

SetStatus(l, s) == [l EXCEPT !.status = s]

(* set_byte_mask(mf) and set_byte_mask(mask): OR into the dirty mask.     *)
SetByteMaskReplace(l, m) == [l EXCEPT !.dirty = m]

SetByteMask(l, m) == [l EXCEPT !.dirty = @ \cup m]

(* get_dirty_byte_mask.                                                   *)
GetDirtyByteMask(l) == l.dirty

SetIgnoreOnFill(l, b) == [l EXCEPT !.ignoreOnFill = b]
SetModifiedOnFill(l, b) == [l EXCEPT !.modifiedOnFill = b]
SetReadableOnFill(l, b) == [l EXCEPT !.readableOnFill = b]
SetByteMaskOnFill(l, b) == [l EXCEPT !.byteMaskOnFill = b]
SetMReadable(l, b) == [l EXCEPT !.readable = b]

-----------------------------------------------------------------------------
(* The cache (spec-modelled). A miss on the invalid line allocates it for *)
(* tag t, then sets the on-fill flags. A write miss (write-allocate)      *)
(* stores mask m: the fill must make the line MODIFIED and merge m. Either *)
(* miss may ask for the line to be readable on fill.                      *)
MissGuard == line.status = "INVALID" /\ ~pending /\ allocs < MaxAllocs

ReadMiss(t, r) ==
  /\ MissGuard
  /\ line' = SetReadableOnFill(Allocate(line, t), r)
  /\ pending' = TRUE
  /\ fillMask' = {}
  /\ written' = {}
  /\ allocs' = allocs + 1

WriteMiss(t, m, r) ==
  /\ MissGuard
  /\ line' = SetReadableOnFill(SetByteMaskOnFill(SetModifiedOnFill(Allocate(line, t), TRUE), TRUE), r)
  /\ pending' = TRUE
  /\ fillMask' = m
  /\ written' = m
  /\ allocs' = allocs + 1

(* The reply of the outstanding miss arrives and fills the line.         *)
FillArrives ==
  /\ pending
  /\ line' = Fill(line, fillMask)
  /\ pending' = FALSE
  /\ UNCHANGED <<fillMask, written, allocs>>

(* A write hit: set_status(MODIFIED), then set_byte_mask(mf).             *)
WriteHit(m) ==
  /\ line.status \in {"VALID", "MODIFIED"}
  /\ line' = SetByteMask(SetStatus(line, "MODIFIED"), m)
  /\ written' = written \cup m
  /\ UNCHANGED <<pending, fillMask, allocs>>

(* Eviction: a MODIFIED line is written back with get_dirty_byte_mask;    *)
(* then set_status(INVALID).                                              *)
Evict ==
  /\ line.status \in {"VALID", "MODIFIED"}
  /\ line' = SetStatus(line, "INVALID")
  /\ UNCHANGED <<pending, fillMask, written, allocs>>

(* Invalidation of a line whose fill is outstanding: set_ignore_on_fill, *)
(* then set_status(INVALID); the fill still arrives later.               *)
InvalidateReserved ==
  /\ line.status = "RESERVED"
  /\ line' = SetStatus(SetIgnoreOnFill(line, TRUE), "INVALID")
  /\ UNCHANGED <<pending, fillMask, written, allocs>>

(* set_m_readable on a line holding data.                                 *)
MarkReadable(b) ==
  /\ line.status \in {"VALID", "MODIFIED"}
  /\ line' = SetMReadable(line, b)
  /\ UNCHANGED <<pending, fillMask, written, allocs>>

(* The cache stops allocating the line after MaxAllocs misses.           *)
Done ==
  /\ line.status = "INVALID" /\ ~pending /\ allocs = MaxAllocs
  /\ UNCHANGED vars

Next ==
  \/ \E t \in Tags, r \in BOOLEAN : ReadMiss(t, r)
  \/ \E t \in Tags, m \in WriteMasks, r \in BOOLEAN : WriteMiss(t, m, r)
  \/ FillArrives
  \/ \E m \in WriteMasks : WriteHit(m)
  \/ Evict
  \/ InvalidateReserved
  \/ \E b \in BOOLEAN : MarkReadable(b)
  \/ Done

Spec == Init /\ [][Next]_vars

-----------------------------------------------------------------------------
TypeOK ==
  /\ line \in [status: States, tag: Tags \cup {NoTag}, readable: BOOLEAN,
               ignoreOnFill: BOOLEAN, modifiedOnFill: BOOLEAN,
               readableOnFill: BOOLEAN, byteMaskOnFill: BOOLEAN,
               dirty: SUBSET Bytes]
  /\ pending \in BOOLEAN
  /\ fillMask \subseteq Bytes /\ written \subseteq Bytes
  /\ allocs \in 0 .. MaxAllocs

(* spec.md 3: a RESERVED block has a pending fill. allocate makes the     *)
(* line RESERVED and fill must take it out of that state, whatever        *)
(* on-fill flags the miss set.                                            *)
ReservedHasPendingFill == line.status = "RESERVED" => pending

(* No write is lost: every byte stored into the line since it was         *)
(* allocated, by the write miss's fill or by later write hits, is in the  *)
(* dirty mask a write-back of the MODIFIED line sends.                     *)
DirtyCoversWrites == line.status = "MODIFIED" => written \subseteq GetDirtyByteMask(line)

(* The life cycle of spec.md 3 and 4.4: INVALID -> RESERVED ->            *)
(* VALID | MODIFIED -> INVALID, a write hit takes VALID to MODIFIED and an *)
(* invalidation takes RESERVED to INVALID. The only other change allowed  *)
(* is the one the comment in fill() admits: a line invalidated with       *)
(* ignore_on_fill set may be filled when its reply arrives.               *)
Edges ==
  {<<"INVALID", "RESERVED">>, <<"RESERVED", "VALID">>, <<"RESERVED", "MODIFIED">>,
   <<"RESERVED", "INVALID">>, <<"VALID", "MODIFIED">>, <<"VALID", "INVALID">>,
   <<"MODIFIED", "INVALID">>}
IgnoredFill ==
  /\ line.status = "INVALID" /\ line.ignoreOnFill
  /\ line'.status \in {"VALID", "MODIFIED"}
StatusStep == <<line.status, line'.status>> \in Edges \/ IgnoredFill
StatusLifecycle == [][StatusStep \/ line'.status = line.status]_line

(* A write-back sends only bytes of the line being evicted: the dirty     *)
(* mask of a MODIFIED line holds only bytes written since its allocate.   *)
(* allocate leaves m_dirty_byte_mask as it was and nothing else clears it. *)
DirtyOnlyWrittenBytes == line.status = "MODIFIED" => GetDirtyByteMask(line) \subseteq written

====
