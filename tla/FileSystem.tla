------------------------------- MODULE FileSystem -------------------------------
(****************************************************************************)
(* Names and inodes of Lab 8 (fs/namei.c): how a path is followed, and what *)
(* open, mknod, mkdir, rmdir, unlink and link do to directories, link       *)
(* counts and the reference counts of inodes.                               *)
(*                                                                          *)
(* One call is one step: the inodes and blocks it needs are in memory, so   *)
(* that iget and bread do not sleep.  There is one device and nothing is    *)
(* mounted on it.  The modes and owners of files are left open: `deny` says *)
(* what inode refuses the caller what access this time, if any, and the     *)
(* superuser is never refused.  Inodes are kept in `fs`:                    *)
(*   kind[i]    "free", "dir", "reg" or "proc"                              *)
(*   nlinks[i]  i_nlinks          count[i]  i_count                         *)
(*   ent[i]     the entries of a directory, in order: <<name, inode>>, or   *)
(*              Hole where the inode number is 0                            *)
(*   zone[i]    the blocks a directory has; for a proc node, i_zone[0]      *)
(* The last component of a path is `base`; it is "" after a trailing slash. *)
(****************************************************************************)
EXTENDS Integers, Sequences, FiniteSets, FiniteSetsExt

CONSTANTS NInodes,       \* inodes of the device
          NBlocks,       \* blocks for directories
          BlockEntries,  \* DIR_ENTRIES_PER_BLOCK (the code has 64)
          Paths,         \* the paths in calls: [abs, dirs, base]
          NewPaths,      \* those that are the new name of a link
          MayDeny,       \* bound on refusals: the inodes whose mode may refuse somebody
          Devs,          \* the devices of proc nodes: PSINFO (0), HDINFO (1)
          Proc,          \* the processes
          Super          \* those with euid 0

ASSUME FileSystemAssumption ==
    /\ NInodes \in Nat \ {0} /\ NBlocks \in Nat \ {0}
    /\ BlockEntries \in Nat /\ BlockEntries >= 2
    /\ Devs \subseteq {0, 1}
    /\ MayDeny \subseteq 1..NInodes
    /\ IsFiniteSet(Proc) /\ Super \subseteq Proc
    /\ Paths \cup NewPaths \subseteq [abs : BOOLEAN, dirs : Seq(STRING), base : STRING]

Ino == 1..NInodes
Root == 1                                  \* ROOT_INO
Hole == <<"", 0>>
Dots(i, parent) == <<<<".", i>>, <<"..", parent>>>>

VARIABLES fs,
          pwd,     \* pwd[p]: the inode of p's working directory
          file,    \* file[p]: the inode of p's open file, or 0
          panic    \* the kernel has stopped

vars == <<fs, pwd, file, panic>>

\* A new file system: the root directory, held twice by each process.
FileSystemInit ==
    /\ fs = [kind |-> [i \in Ino |-> IF i = Root THEN "dir" ELSE "free"],
             nlinks |-> [i \in Ino |-> IF i = Root THEN 2 ELSE 0],
             count |-> [i \in Ino |-> IF i = Root THEN 2 * Cardinality(Proc) ELSE 0],
             ent |-> [i \in Ino |-> IF i = Root THEN Dots(Root, Root) ELSE <<>>],
             zone |-> [i \in Ino |-> IF i = Root THEN 1 ELSE 0]]
    /\ pwd = [p \in Proc |-> Root]
    /\ file = [p \in Proc |-> 0]
    /\ panic = FALSE

----------------------------------------------------------------------------
\* inode.c, bitmap.c and truncate.c, as namei.c uses them.

iget(f, i) == [f EXCEPT !.count[i] = @ + 1]

\* The last reference to an inode without links frees it.
iput(f, i) ==
    IF f.count[i] > 1 \/ f.nlinks[i] > 0 THEN [f EXCEPT !.count[i] = @ - 1]
    ELSE [f EXCEPT !.count[i] = 0, !.kind[i] = "free", !.ent[i] = <<>>, !.zone[i] = 0]

FreeInodes(f) == {i \in Ino : f.kind[i] = "free"}
FreeBlocks(f) == NBlocks - MapThenSumSet(LAMBDA i : IF f.kind[i] = "dir" THEN f.zone[i] ELSE 0,
                                         Ino)

\* The inode that new_inode takes, and the inode when it is taken.
new_inode(f) == Min(FreeInodes(f))
Taken(f, i, kind, links, ent, zone) ==
    [f EXCEPT !.kind[i] = kind, !.nlinks[i] = links, !.count[i] = 1,
              !.ent[i] = ent, !.zone[i] = zone]

----------------------------------------------------------------------------
\* Directories.

\* permission: not even root may use a deleted file.
permission(f, i, mask, deny) == f.nlinks[i] # 0 /\ <<i, mask>> \notin deny

\* find_entry, with match: the place of an entry, 0 if there is none.  In the
\* root directory ".." means ".".
find_entry(f, d, name) ==
    LET n == IF name = ".." /\ d = Root THEN "." ELSE name
        at == {k \in DOMAIN f.ent[d] : n # "" /\ f.ent[d][k] # Hole /\ f.ent[d][k][1] = n}
    IN IF at = {} THEN 0 ELSE Min(at)

\* add_entry: the first hole, or a place behind the last entry, in a new block
\* when the blocks are full.  No name and no block: at is 0.
add_entry(f, d, name) ==
    LET holes == {k \in DOMAIN f.ent[d] : f.ent[d][k] = Hole}
        n == Len(f.ent[d])
        full == n = f.zone[d] * BlockEntries
    IN IF name = "" \/ (holes = {} /\ full /\ FreeBlocks(f) = 0) THEN [f |-> f, at |-> 0]
       ELSE IF holes # {} THEN [f |-> f, at |-> Min(holes)]
       ELSE [f |-> [f EXCEPT !.ent[d] = Append(@, Hole), !.zone[d] = IF full THEN @ + 1 ELSE @],
             at |-> n + 1]

\* de->inode = i, in the entry that add_entry gave the name.
Entered(a, d, name, i) == [a.f EXCEPT !.ent[d][a.at] = <<name, i>>]

\* empty_dir
empty_dir(f, i) ==
    /\ Len(f.ent[i]) >= 2 /\ f.ent[i][1] = <<".", i>> /\ f.ent[i][2][1] = ".."
    /\ \A k \in 3..Len(f.ent[i]) : f.ent[i][k] = Hole

\* One component of a path, from directory w.dir (0: it has failed before).
Searchable(f, d, deny) == f.kind[d] = "dir" /\ permission(f, d, "x", deny)
Follow(w, name, deny) ==
    LET at == find_entry(w.f, w.dir, name)
        i == w.f.ent[w.dir][at][2]
    IN IF w.dir = 0 THEN w
       ELSE IF ~Searchable(w.f, w.dir, deny) \/ at = 0
       THEN [f |-> iput(w.f, w.dir), dir |-> 0]
       ELSE [f |-> iget(iput(w.f, w.dir), i), dir |-> i]

\* get_dir and dir_namei: the directory that holds path's last component, with a
\* reference to it, or 0.
dir_namei(p, f, path, deny) ==
    LET start == IF path.abs THEN Root ELSE pwd[p]
        walk[k \in 0..Len(path.dirs)] ==
            IF k = 0 THEN [f |-> iget(f, start), dir |-> start]
            ELSE Follow(walk[k - 1], path.dirs[k], deny)
        end == walk[Len(path.dirs)]
    IN IF ~path.abs /\ path.dirs = <<>> /\ path.base = "" THEN [f |-> f, dir |-> 0]
       ELSE IF end.dir # 0 /\ ~Searchable(end.f, end.dir, deny)
       THEN [f |-> iput(end.f, end.dir), dir |-> 0]
       ELSE end

\* namei: the inode that path names.
namei(p, f, path, deny) ==
    LET r == dir_namei(p, f, path, deny)
        at == find_entry(r.f, r.dir, path.base)
        i == r.f.ent[r.dir][at][2]
    IN IF r.dir = 0 \/ path.base = "" THEN r
       ELSE IF at = 0 THEN [f |-> iput(r.f, r.dir), dir |-> 0]
       ELSE [f |-> iget(iput(r.f, r.dir), i), dir |-> i]

----------------------------------------------------------------------------
\* The calls.  r is what dir_namei returns, at the place of the entry there.

\* The masks are "x" (to search a directory), "w" (to change it) and "rw" (to open
\* the file); at most one is refused in a call.
Denials(p) == {{}} \cup (IF p \in Super THEN {}
                         ELSE {{<<i, mask>>} : i \in MayDeny, mask \in {"x", "w", "rw"}})
Unchanged == UNCHANGED <<pwd, file, panic>>

\* open_namei, for a file that is there.  want: "r" (O_RDONLY), "w" (O_WRONLY,
\* O_RDWR or O_TRUNC).
OpenExisting(p, path, deny, r, at) ==
    LET i == r.f.ent[r.dir][at][2]
        g == iget(iput(r.f, r.dir), i)
        may(want) == ~(g.kind[i] = "dir" /\ want = "w") /\ permission(g, i, "rw", deny)
    IN /\ r.dir # 0 /\ path.base # "" /\ at # 0
       /\ \/ fs' = iput(r.f, r.dir) /\ UNCHANGED file               \* O_EXCL
          \/ \E want \in {"r", "w"} :
                IF may(want) THEN fs' = g /\ file' = [file EXCEPT ![p] = i]
                ELSE fs' = iput(g, i) /\ UNCHANGED file

\* open_namei, for a file that is not: O_CREAT makes a regular one.
OpenMissing(p, path, deny, r, at) ==
    LET i == new_inode(r.f)
        g == Taken(r.f, i, "reg", 1, <<>>, 0)
        a == add_entry(g, r.dir, path.base)
    IN /\ r.dir # 0 /\ path.base # "" /\ at = 0
       /\ \/ fs' = iput(r.f, r.dir) /\ UNCHANGED file               \* no O_CREAT
          \/ /\ ~permission(r.f, r.dir, "w", deny) \/ FreeInodes(r.f) = {}
             /\ fs' = iput(r.f, r.dir) /\ UNCHANGED file
          \/ /\ permission(r.f, r.dir, "w", deny) /\ FreeInodes(r.f) # {}
             /\ IF a.at = 0
                THEN /\ fs' = iput(iput([g EXCEPT !.nlinks[i] = @ - 1], i), r.dir)
                     /\ UNCHANGED file
                ELSE /\ fs' = iput(Entered(a, r.dir, path.base, i), r.dir)
                     /\ file' = [file EXCEPT ![p] = i]

\* open_namei: no such directory, or a directory with a trailing slash, which may
\* be read but not written or made.
OpenDirectory(p, path, r) ==
    \/ r.dir = 0 /\ fs' = r.f /\ UNCHANGED file
    \/ /\ r.dir # 0 /\ path.base = ""
       /\ \/ fs' = r.f /\ file' = [file EXCEPT ![p] = r.dir]
          \/ fs' = iput(r.f, r.dir) /\ UNCHANGED file

Open(p, path) ==
    /\ file[p] = 0
    /\ \E deny \in Denials(p) : \E r \in {dir_namei(p, fs, path, deny)} :
       \E at \in {IF r.dir = 0 THEN 0 ELSE find_entry(r.f, r.dir, path.base)} :
          \/ OpenExisting(p, path, deny, r, at)
          \/ OpenMissing(p, path, deny, r, at)
          \/ OpenDirectory(p, path, r)
    /\ UNCHANGED <<pwd, panic>>

\* The refusals that mknod and mkdir have in common: fs as they leave it.
Refused(r, path, deny) ==
    \/ r.dir = 0 /\ fs' = r.f
    \/ /\ r.dir # 0
       /\ \/ path.base = "" \/ ~permission(r.f, r.dir, "w", deny)
          \/ find_entry(r.f, r.dir, path.base) # 0 \/ FreeInodes(r.f) = {}
       /\ fs' = iput(r.f, r.dir)
Creating(r, path, deny) ==
    /\ r.dir # 0 /\ path.base # "" /\ permission(r.f, r.dir, "w", deny)
    /\ find_entry(r.f, r.dir, path.base) = 0 /\ FreeInodes(r.f) # {}

\* Mutant of sys_mknod: no iput(inode) at the end.
sys_mknodKept(p, path, dev) ==
    /\ p \in Super /\ Unchanged
    /\ \E r \in {dir_namei(p, fs, path, {})} :
        LET i == new_inode(r.f)
            a == add_entry(Taken(r.f, i, "proc", 1, <<>>, dev), r.dir, path.base)
        IN \/ Refused(r, path, {})
           \/ /\ Creating(r, path, {})
              /\ fs' = IF a.at = 0
                       THEN iput([iput(a.f, r.dir) EXCEPT !.nlinks[i] = 0], i)
                       ELSE iput(Entered(a, r.dir, path.base, i), r.dir)

\* sys_mknod, of a proc node for device dev.
sys_mknod(p, path, dev) ==
    /\ p \in Super /\ Unchanged
    /\ \E r \in {dir_namei(p, fs, path, {})} :
        LET i == new_inode(r.f)
            a == add_entry(Taken(r.f, i, "proc", 1, <<>>, dev), r.dir, path.base)
        IN \/ Refused(r, path, {})
           \/ /\ Creating(r, path, {})
              /\ fs' = IF a.at = 0
                       THEN iput([iput(a.f, r.dir) EXCEPT !.nlinks[i] = 0], i)
                       ELSE iput(iput(Entered(a, r.dir, path.base, i), r.dir), i)

\* sys_mkdir.  When add_entry fails the new directory's block is freed here and
\* again in the iput of an inode without links: free_block panics.
sys_mkdir(p, path) ==
    /\ p \in Super /\ UNCHANGED <<pwd, file>>
    /\ \E r \in {dir_namei(p, fs, path, {})} :
        LET i == new_inode(r.f)
            g == Taken(r.f, i, "dir", 2, Dots(i, r.dir), 1)
            a == add_entry(g, r.dir, path.base)
        IN \/ Refused(r, path, {}) /\ UNCHANGED panic
           \/ /\ Creating(r, path, {}) /\ FreeBlocks(r.f) = 0
              /\ fs' = iput(Taken(iput(r.f, r.dir), i, "reg", 0, <<>>, 0), i)
              /\ UNCHANGED panic
           \/ /\ Creating(r, path, {}) /\ FreeBlocks(r.f) > 0 /\ a.at = 0
              /\ panic' = TRUE /\ UNCHANGED fs
           \/ /\ Creating(r, path, {}) /\ FreeBlocks(r.f) > 0 /\ a.at # 0
              /\ fs' = iput(iput([Entered(a, r.dir, path.base, i)
                                     EXCEPT !.nlinks[r.dir] = @ + 1], r.dir), i)
              /\ UNCHANGED panic

\* Mutant of Busy: nobody but the caller is looked at.
BusyNever(f, i) == FALSE

\* rmdir: somebody else has the directory open or works in it.
Busy(f, i) == f.count[i] > 1

\* Mutant of Removed: the parent keeps the link of "..".
RemovedLinkKept(g, d, at, i) ==
    iput(iput([g EXCEPT !.ent[d][at] = Hole, !.nlinks[i] = 0], d), i)

\* rmdir, the last part: the entry, the links of ".", ".." and the entry.
Removed(g, d, at, i) ==
    iput(iput([g EXCEPT !.ent[d][at] = Hole, !.nlinks[i] = 0, !.nlinks[d] = @ - 1], d), i)

\* sys_rmdir (the test of the sticky bit is never true for the superuser).
sys_rmdir(p, path) ==
    /\ p \in Super /\ Unchanged
    /\ \E r \in {dir_namei(p, fs, path, {})} :
        LET at == find_entry(r.f, r.dir, path.base)
            i == r.f.ent[r.dir][at][2]
            g == iget(r.f, i)
            refuse == Busy(g, i) \/ i = r.dir \/ g.kind[i] # "dir" \/ ~empty_dir(g, i)
        IN \/ r.dir = 0 /\ fs' = r.f
           \/ /\ r.dir # 0 /\ (path.base = "" \/ ~permission(r.f, r.dir, "w", {}) \/ at = 0)
              /\ fs' = iput(r.f, r.dir)
           \/ /\ r.dir # 0 /\ path.base # "" /\ permission(r.f, r.dir, "w", {}) /\ at # 0
              /\ fs' = IF refuse THEN iput(iput(g, r.dir), i) ELSE Removed(g, r.dir, at, i)

\* sys_unlink; `sticky`: the sticky bit refuses it.  An inode that is named by an
\* entry and has no links is given one first.
sys_unlink(p, path) ==
    /\ Unchanged
    /\ \E deny \in Denials(p) : \E r \in {dir_namei(p, fs, path, deny)} :
        LET at == find_entry(r.f, r.dir, path.base)
            i == r.f.ent[r.dir][at][2]
            g == iget(r.f, i)
            left == IF g.nlinks[i] = 0 THEN 0 ELSE g.nlinks[i] - 1
        IN \/ r.dir = 0 /\ fs' = r.f
           \/ /\ r.dir # 0 /\ (path.base = "" \/ ~permission(r.f, r.dir, "w", deny) \/ at = 0)
              /\ fs' = iput(r.f, r.dir)
           \/ /\ r.dir # 0 /\ path.base # "" /\ permission(r.f, r.dir, "w", deny) /\ at # 0
              /\ \E sticky \in IF p \in Super THEN {FALSE} ELSE BOOLEAN :
                    fs' = IF sticky \/ g.kind[i] = "dir" THEN iput(iput(g, i), r.dir)
                          ELSE iput(iput([g EXCEPT !.ent[r.dir][at] = Hole,
                                                   !.nlinks[i] = left], i), r.dir)

\* sys_link
sys_link(p, old, new) ==
    /\ Unchanged
    /\ \E deny \in Denials(p) : \E o \in {namei(p, fs, old, deny)} :
        LET r == dir_namei(p, o.f, new, deny)
            a == add_entry(r.f, r.dir, new.base)
            i == o.dir
        IN \/ i = 0 /\ fs' = o.f
           \/ i # 0 /\ o.f.kind[i] = "dir" /\ fs' = iput(o.f, i)
           \/ i # 0 /\ o.f.kind[i] # "dir" /\ r.dir = 0 /\ fs' = iput(r.f, i)
           \/ /\ i # 0 /\ o.f.kind[i] # "dir" /\ r.dir # 0
              /\ fs' = IF \/ new.base = "" \/ ~permission(r.f, r.dir, "w", deny)
                          \/ find_entry(r.f, r.dir, new.base) # 0 \/ a.at = 0
                       THEN iput(iput(r.f, r.dir), i)
                       ELSE iput([iput(Entered(a, r.dir, new.base, i), r.dir)
                                     EXCEPT !.nlinks[i] = @ + 1], i)

----------------------------------------------------------------------------
\* open.c: close and chdir.
sys_close(p) == /\ file[p] # 0
                /\ fs' = iput(fs, file[p])
                /\ file' = [file EXCEPT ![p] = 0]
                /\ UNCHANGED <<pwd, panic>>

sys_chdir(p, path) ==
    \E deny \in Denials(p) : \E o \in {namei(p, fs, path, deny)} :
        /\ IF o.dir = 0 THEN fs' = o.f /\ UNCHANGED pwd
           ELSE IF o.f.kind[o.dir] # "dir" THEN fs' = iput(o.f, o.dir) /\ UNCHANGED pwd
           ELSE fs' = iput(o.f, pwd[p]) /\ pwd' = [pwd EXCEPT ![p] = o.dir]
        /\ UNCHANGED <<file, panic>>

Next ==
    /\ ~panic
    /\ \E p \in Proc :
         \/ \E path \in Paths :
               \/ Open(p, path)
               \/ \E dev \in Devs : sys_mknod(p, path, dev)
               \/ sys_mkdir(p, path)
               \/ sys_rmdir(p, path)
               \/ sys_unlink(p, path)
               \/ \E new \in NewPaths : sys_link(p, path, new)
               \/ sys_chdir(p, path)
         \/ sys_close(p)

Spec == FileSystemInit /\ [][Next]_vars

----------------------------------------------------------------------------
\* The entries of the file system that are in use, as <<directory, place>>.
Entries == UNION {{<<d, k>> : k \in {k \in DOMAIN fs.ent[d] : fs.ent[d][k] # Hole}} :
                    d \in {d \in Ino : fs.kind[d] = "dir"}}
EntryOf(e) == fs.ent[e[1]][e[2]]
Naming(i) == {e \in Entries : EntryOf(e)[2] = i}

\* i_nlinks is the number of entries that name the inode, "." and ".." of
\* directories included, after every call and every failure of one.
LinkCountsExact ==
    \A i \in Ino : fs.kind[i] # "free" => fs.nlinks[i] = Cardinality(Naming(i))

\* i_count is the number of references that processes hold on the inode: no path
\* through a call, the early returns included, keeps or drops one too many.
RefsExact ==
    \A i \in Ino : fs.count[i] = Cardinality({p \in Proc : pwd[p] = i})
                                 + Cardinality({p \in Proc : file[p] = i})
                                 + (IF i = Root THEN Cardinality(Proc) ELSE 0)

\* Directories form a tree under the root: an entry names an inode that is in
\* use, no directory has a name twice, and but for "." and ".." a directory is
\* named once, by the directory its ".." names; these do not lead round in a circle,
\* and so to the root.  Working directories are part of the tree, and an open file
\* is not freed.
NamespaceIsTree ==
    /\ \A e \in Entries : fs.kind[EntryOf(e)[2]] # "free"
    /\ \A e1, e2 \in Entries :
          e1[1] = e2[1] /\ EntryOf(e1)[1] = EntryOf(e2)[1] => e1 = e2
    /\ \A d \in Ino \ {Root} : fs.kind[d] = "dir" =>
          \E up \in Ino : /\ {e[1] : e \in {e \in Naming(d) : EntryOf(e)[1] \notin {".", ".."}}} = {up}
                          /\ fs.ent[d][2] = <<"..", up>>
    /\ \A D \in (SUBSET {d \in Ino \ {Root} : fs.kind[d] = "dir"}) \ {{}} :
          \E d \in D : fs.ent[d][2][2] \notin D
    /\ \A p \in Proc : fs.kind[pwd[p]] = "dir" /\ (file[p] # 0 => fs.kind[file[p]] # "free")
=============================================================================
