--------------------------- MODULE MC_Histogram ---------------------------
(* Model values for Histogram: 0, 1, a value on each side of the first,  *)
(* second and top steps of the bit trick (3/4, 15 and 255, 65536), INT_MAX, *)
(* whose bin is 31, the last of 32, and which overflows m_sum with any     *)
(* positive sample, and                                                    *)
(* a negative sample.                                                      *)
EXTENDS Histogram

MCSamples == {-1, 0, 1, 3, 4, 15, 255, 65536, 2147483647}
MCFewSamples == {0, 5}
====
