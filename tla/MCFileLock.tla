------------------------------ MODULE MCFileLock ------------------------------
\* Instances of FileLock: one process with three calls, and two with one each.
EXTENDS FileLock
CONSTANTS t1, t2, t3, p1, p2
InOneProcess == [t \in {t1, t2, t3} |-> p1]
InTwoProcesses == [t \in {t1, t2} |-> IF t = t1 THEN p1 ELSE p2]
=============================================================================
