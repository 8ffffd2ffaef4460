----------------------------- MODULE Histogram -----------------------------
(***************************************************************************)
(* The statistics histograms of stats/histogram.cc: a pow2_histogram and a *)
(* linear_histogram, each a binned_histogram with bin counts m_bin_cnts,   *)
(* m_maximum and m_sum, and copies made with binned_histogram's copy      *)
(* constructor.                                                            *)
(*                                                                         *)
(* Samples are C ints. m_sum is an int too: its overflow is undefined, and *)
(* the build wraps it modulo 2^32 (WrapAdd, written so that no            *)
(* intermediate leaves TLC's 32-bit integers). A bin index at or past m_nbins *)
(* is an out-of-bounds write into the heap, after which nothing the       *)
(* object reports means anything: status becomes "corrupt". A negative    *)
(* sample fails add2bin's assert: status becomes "aborted".               *)
(*                                                                         *)
(* added[k] is history: the samples handed to add2bin of histogram k.     *)
(***************************************************************************)
EXTENDS Integers, Sequences, SequencesExt, FiniteSets, Bitwise

CONSTANTS
  NBins,        \* m_nbins of both histograms
  Stride,       \* m_stride of the linear histogram
  Samples,      \* the sample values add2bin is called with
  MaxSamples    \* bound on the samples added to one histogram

ASSUME NBins > 0 /\ Stride > 0

Kinds == {"pow2", "linear"}
Bins == 0 .. NBins - 1
IntMax == 2147483647
IntMin == -IntMax - 1
(* a + b for ints a and b >= 0, wrapped modulo 2^32.                       *)
WrapAdd(a, b) == IF a > IntMax - b THEN (a + IntMin) + (b + IntMin) ELSE a + b

VARIABLES
  hist,         \* kind -> [cnts, maximum, sum]
  added,        \* kind -> samples added so far
  copy,         \* kind -> the copy-constructed histogram, or <<>>
  source,       \* kind -> the original as it was when copied, or <<>>
  status        \* "ok", "aborted" or "corrupt"

vars == <<hist, added, copy, source, status>>

(* The constructors: m_bin_cnts zeroed by reset_bins, m_maximum = 0,      *)
(* m_sum = 0.                                                              *)
Empty == [cnts |-> [b \in Bins |-> 0], maximum |-> 0, sum |-> 0]

Init ==
  /\ hist = [k \in Kinds |-> Empty]
  /\ added = [k \in Kinds |-> <<>>]
  /\ copy = [k \in Kinds |-> <<>>]
  /\ source = [k \in Kinds |-> <<>>]
  /\ status = "ok"

-----------------------------------------------------------------------------
(* pow2_histogram::add2bin's branch-free log2: bin is floor(log2 v) + 1   *)
(* for v > 0 and 0 for v = 0.                                              *)
Pow2BinNoTopStep(sample) ==
  LET s1 == IF sample > 255 THEN 8 ELSE 0
      v1 == shiftR(sample, s1)
      s2 == IF v1 > 15 THEN 4 ELSE 0
      v2 == shiftR(v1, s2)
      s3 == IF v2 > 3 THEN 2 ELSE 0
      v3 == shiftR(v2, s3)
  IN (s1 | s2 | s3 | shiftR(v3, 1)) + (IF sample > 0 THEN 1 ELSE 0)

Pow2Bin(sample) ==
  LET s0 == IF sample > 65535 THEN 16 ELSE 0
      v0 == shiftR(sample, s0)
      s1 == IF v0 > 255 THEN 8 ELSE 0
      v1 == shiftR(v0, s1)
      s2 == IF v1 > 15 THEN 4 ELSE 0
      v2 == shiftR(v1, s2)
      s3 == IF v2 > 3 THEN 2 ELSE 0
      v3 == shiftR(v2, s3)
  IN (s0 | s1 | s2 | s3 | shiftR(v3, 1)) + (IF sample > 0 THEN 1 ELSE 0)

(* linear_histogram::add2bin: sample / m_stride, clamped to the last bin. *)
LinearBinUnclamped(sample) == sample \div Stride

LinearBin(sample) ==
  IF sample \div Stride >= NBins THEN NBins - 1 ELSE sample \div Stride

BinOf(k, sample) == IF k = "pow2" THEN Pow2Bin(sample) ELSE LinearBin(sample)

(* The body both add2bin share after the bin is computed.                 *)
RecordCountsSample(h, bin, sample) ==
  [cnts |-> [h.cnts EXCEPT ![bin] = @ + sample],
   maximum |-> IF sample > h.maximum THEN sample ELSE h.maximum,
   sum |-> WrapAdd(h.sum, sample)]

Record(h, bin, sample) ==
  [cnts |-> [h.cnts EXCEPT ![bin] = @ + 1],
   maximum |-> IF sample > h.maximum THEN sample ELSE h.maximum,
   sum |-> WrapAdd(h.sum, sample)]

(* pow2_histogram::add2bin and linear_histogram::add2bin.                 *)
Add2Bin(k) ==
  /\ status = "ok"
  /\ Len(added[k]) < MaxSamples
  /\ \E sample \in Samples :
       /\ added' = [added EXCEPT ![k] = Append(@, sample)]
       /\ IF sample < 0
          THEN status' = "aborted" /\ UNCHANGED hist
          ELSE IF BinOf(k, sample) \notin Bins
          THEN status' = "corrupt" /\ UNCHANGED hist
          ELSE /\ hist' = [hist EXCEPT ![k] = Record(@, BinOf(k, sample), sample)]
               /\ UNCHANGED status
  /\ UNCHANGED <<copy, source>>

(* The copy constructor: m_bin_cnts copied, m_maximum and m_sum set to 0. *)
CopyHistogram(h) == [cnts |-> h.cnts, maximum |-> 0, sum |-> 0]

Copy(k) ==
  /\ status = "ok"
  /\ copy[k] = <<>>
  /\ copy' = [copy EXCEPT ![k] = CopyHistogram(hist[k])]
  /\ source' = [source EXCEPT ![k] = hist[k]]
  /\ UNCHANGED <<hist, added, status>>

Next == \E k \in Kinds : Add2Bin(k) \/ Copy(k)

Spec == Init /\ [][Next]_vars

-----------------------------------------------------------------------------
(* What binned_histogram::fprint prints: the bin counts, max, and avg as  *)
(* m_sum over the total of the counts (0 when there are none).             *)
Report(h) ==
  LET total == SumFunction(h.cnts)
  IN [cnts |-> h.cnts, maximum |-> h.maximum,
      avg |-> IF total > 0 THEN <<h.sum, total>> ELSE <<0, 1>>]

TypeOK ==
  /\ \A k \in Kinds :
       /\ hist[k].cnts \in [Bins -> 0 .. MaxSamples]
       /\ hist[k].maximum \in Samples \cup {0}
       /\ hist[k].sum \in IntMin .. IntMax
       /\ ToSet(added[k]) \subseteq Samples /\ Len(added[k]) <= MaxSamples
       /\ copy[k] = <<>> <=> source[k] = <<>>
  /\ status \in {"ok", "aborted", "corrupt"}

(* Reference bins: pow2 bin b > 0 holds [2^(b-1), 2^b), bin 0 holds 0;    *)
(* linear bin b holds [b * Stride, (b + 1) * Stride), the last bin also   *)
(* everything above.                                                       *)
RefBin(k, s) ==
  IF k = "pow2"
  THEN IF s = 0 THEN 0 ELSE 1 + (CHOOSE b \in 0 .. 30 : 2^b <= s /\ s \div 2 < 2^b)
  ELSE CHOOSE b \in Bins : b * Stride <= s /\ (s < (b + 1) * Stride \/ b = NBins - 1)

(* Whether the running sum of seq stays an int.                           *)
SumFits(seq) ==
  \A i \in 1 .. Len(seq) :
     FoldLeft(LAMBDA a, s : IF a > IntMax - s THEN IntMax ELSE a + s, 0, SubSeq(seq, 1, i - 1))
       <= IntMax - seq[i]

MaxOrZero(seq) == IF ToSet(seq) = {} THEN 0 ELSE Max(ToSet(seq) \cup {0})

(* Whatever sequence of samples each histogram received, its report is   *)
(* the reference histogram of those samples: every add2bin found the bin  *)
(* the sample belongs to (the bit trick of pow2_histogram::add2bin is      *)
(* floor(log2) + 1, linear_histogram::add2bin clamps), no sample was      *)
(* written outside m_bin_cnts, max is the largest sample, and the sum is  *)
(* their sum as long as that fits in an int; once it does not, m_sum (and *)
(* the printed average) has gone negative. An assert fails only on a      *)
(* negative sample.                                                        *)
StatsMatchSamples ==
  /\ status # "corrupt"
  /\ status = "aborted" => \E k \in Kinds : \E i \in DOMAIN added[k] : added[k][i] < 0
  /\ status = "ok" =>
       \A k \in Kinds :
          /\ \A b \in Bins :
                hist[k].cnts[b] = Cardinality({i \in DOMAIN added[k] : RefBin(k, added[k][i]) = b})
          /\ hist[k].maximum = MaxOrZero(added[k])
          /\ IF SumFits(added[k]) THEN hist[k].sum = FoldLeft(+, 0, added[k])
             ELSE hist[k].sum < 0

(* spec.md 4.9: every histogram records {bin[], max, sum}. A copy made    *)
(* by binned_histogram's copy constructor prints what the original        *)
(* printed when it was copied.                                             *)
CopyKeepsReport ==
  \A k \in Kinds : copy[k] # <<>> => Report(copy[k]) = Report(source[k])
====
