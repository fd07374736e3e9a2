---------------------------- MODULE MCWritePath ----------------------------
(* Instances of WritePath for TLC.                                         *)
EXTENDS WritePath, TLC

CONSTANTS t1, t2, t3

TwoThreads == {t1, t2}
ThreeThreads == {t1, t2, t3}
NoFaults == {}
Either == BOOLEAN
DiskFaults == {"sync", "build", "manifest", "newlog"}
AppendFaults == {"append"}
DescriptorFaults == {"descriptor"}
Tears == {"tear"}
Never == {FALSE}
Always == {TRUE}

Symmetry == Permutations(Threads)
=============================================================================
