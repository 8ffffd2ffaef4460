---------------------------- MODULE MC_CacheBlock ----------------------------
EXTENDS CacheBlock, TLC

CONSTANTS a, b      \* two tags

MCTags == {a, b}
MCSymmetry == Permutations(MCTags)
====
