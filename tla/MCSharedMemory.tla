---------------------------- MODULE MCSharedMemory ----------------------------
(* Instances of SharedMemory for TLC.                                        *)
EXTENDS SharedMemory, TLC

\* Processes, the first one aside, and keys are interchangeable.
Symmetry == Permutations(Proc \ {Init0}) \cup Permutations(Key)

\* Programs whose data ends on a page boundary: one that has only what it attaches, and
\* one with a page of its file.
MCExecutables == {[end_data |-> 0, brk |-> 0], [end_data |-> 2, brk |-> 2]}

\* A program with a page of its file and data that ends inside the page behind it, as the
\* linker leaves it: the page where shmat enters the first key may be in use.
MCInsidePage == {[end_data |-> 2, brk |-> 3]}
===============================================================================
