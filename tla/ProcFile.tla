-------------------------------- MODULE ProcFile --------------------------------
(****************************************************************************)
(* Reading the files of /proc in Lab 8: sys_read and sys_lseek of           *)
(* fs/read_write.c and proc_read of fs/proc_dev.c, on top of the names and  *)
(* open files of FileSystem.                                                *)
(*                                                                          *)
(* psinfoBuf and hdinfoBuf hold one text each for all readers.  The text of *)
(* a snapshot is as many bytes as the system state makes it, from 1 to      *)
(* MaxText, and a byte says whose call of refresh_psinfo or refresh_hdinfo  *)
(* wrote it; 0 is the NUL behind the text.  psinfoPid and hdinfoPid are     *)
(* never set to anything but -1, so the test in front of them lets every    *)
(* process pass.  A buffer that no open file will look at before it is      *)
(* refreshed is kept at its initial value.  Positions of other files are    *)
(* left to file_read and its like.                                          *)
(****************************************************************************)
EXTENDS FileSystem

CONSTANTS MaxText,   \* bound on the length of a text (the buffers have 1024)
          MaxCount   \* bound on the bytes asked for in one read

ASSUME ProcFileAssumption == /\ MaxText \in Nat \ {0} /\ MaxCount \in Nat \ {0}
                             /\ 0 \notin Proc

VARIABLES f_pos,     \* f_pos[p]: the position in p's open proc file
          text,      \* text[d]: the buffer of device d
          took,      \* took[p]: the length of the snapshot p took at position 0
          disturbed  \* disturbed[p]: the buffer was refreshed by another since

procVars == <<f_pos, text, took, disturbed>>

Blank == [k \in 0..MaxText |-> 0]

ProcInit == /\ FileSystemInit
            /\ f_pos = [p \in Proc |-> 0]
            /\ text = [d \in Devs |-> Blank]
            /\ took = [p \in Proc |-> 0]
            /\ disturbed = [p \in Proc |-> FALSE]

\* The processes whose open file is the proc node of device d.
OpenOn(d) == {p \in Proc : file[p] # 0 /\ fs.kind[file[p]] = "proc" /\ fs.zone[file[p]] = d}

\* A call of namei.c, open or close: a file that is opened starts at 0.
FileCall == /\ Next
            /\ LET same(p) == file'[p] = file[p]
               IN /\ f_pos' = [p \in Proc |-> IF same(p) THEN f_pos[p] ELSE 0]
                  /\ took' = [p \in Proc |-> IF same(p) THEN took[p] ELSE 0]
                  /\ disturbed' = [p \in Proc |-> same(p) /\ disturbed[p]]
                  /\ text' = [d \in Devs |-> IF \E p \in OpenOn(d) : f_pos'[p] > 0
                                             THEN text[d] ELSE Blank]

\* refresh_psinfo, refresh_hdinfo: n bytes and a NUL; what is behind them stays.
Refreshed(old, p, n) == [k \in DOMAIN old |-> IF k < n THEN p ELSE IF k = n THEN 0 ELSE old[k]]

\* Mutant of Refreshing: each call takes a new snapshot.
RefreshingAlways(p) == TRUE

\* A snapshot is taken at position 0.
Refreshing(p) == f_pos[p] = 0

\* proc_read, of count bytes: up to the NUL.  (Beyond MaxText the model has no
\* text, so that a reader stops there at the latest.)
proc_read(p, d, count) ==
    \E n \in IF Refreshing(p) THEN 1..MaxText ELSE {0} :
        LET buf == IF Refreshing(p) THEN Refreshed(text[d], p, n) ELSE text[d]
            ends == {k \in f_pos[p]..MaxText : buf[k] = 0}
            end == IF ends = {} THEN MaxText ELSE Min(ends)
            pos == IF f_pos[p] + count < end THEN f_pos[p] + count ELSE end
        IN /\ f_pos' = [f_pos EXCEPT ![p] = pos]
           /\ text' = [text EXCEPT ![d] = IF pos > 0 \/ \E q \in OpenOn(d) : f_pos[q] > 0
                                          THEN buf ELSE Blank]
           /\ took' = IF f_pos[p] = 0 THEN [took EXCEPT ![p] = n] ELSE took
           /\ disturbed' = [q \in Proc |->
                              IF q = p THEN disturbed[p] /\ f_pos[p] # 0
                              ELSE disturbed[q] \/ (q \in OpenOn(d) /\ f_pos[q] > 0 /\ Refreshing(p))]

\* sys_read, of a proc node.
sys_read(p) == /\ file[p] # 0 /\ fs.kind[file[p]] = "proc"
               /\ \E count \in 1..MaxCount : proc_read(p, fs.zone[file[p]], count)
               /\ UNCHANGED vars

\* sys_lseek, of a proc node; bound: only back to where the file was read before.
sys_lseek(p) == /\ file[p] # 0 /\ fs.kind[file[p]] = "proc"
                /\ \E pos \in 0..(f_pos[p] - 1) : f_pos' = [f_pos EXCEPT ![p] = pos]
                /\ text' = [d \in Devs |-> IF \E q \in OpenOn(d) : f_pos'[q] > 0
                                           THEN text[d] ELSE Blank]
                /\ took' = IF f_pos'[p] = 0 THEN [took EXCEPT ![p] = 0] ELSE took
                /\ disturbed' = [disturbed EXCEPT ![p] = @ /\ f_pos'[p] > 0]
                /\ UNCHANGED vars

ProcNext == \/ FileCall
            \/ ~panic /\ \E p \in Proc : sys_read(p) \/ sys_lseek(p)

ProcSpec == ProcInit /\ [][ProcNext]_<<vars, procVars>>

----------------------------------------------------------------------------
\* A reader that is alone with its file sees one snapshot from its first byte to
\* its end, however many reads it takes and whatever happens in the system and
\* to the name of the file meanwhile: the bytes before and behind its position
\* are those of the text it took, and the NUL is where that text ended.
LoneReaderSeesOneText ==
    \A d \in Devs : \A p \in OpenOn(d) :
        f_pos[p] > 0 /\ ~disturbed[p] =>
            /\ f_pos[p] <= took[p]
            /\ \A k \in 0..(took[p] - 1) : text[d][k] = p
            /\ text[d][took[p]] = 0
=============================================================================
