----------------------------- MODULE MCOffHour -----------------------------
EXTENDS OffHour, TLC

CONSTANTS ann, joe, own, s1, s2

MCDirect == own :> ann
MCMost == [announcements |-> 1, offhours |-> 1, files |-> 2]
MCSymmetry == Permutations(Slots)
=============================================================================
