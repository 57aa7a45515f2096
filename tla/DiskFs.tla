------------------------------- MODULE DiskFs -------------------------------
(***************************************************************************)
(* DiskFs (fs/disk.rs): the server's file system, a directory on disk whose *)
(* files clients address by inode number.  The disk knows files by path,   *)
(* so DiskFs keeps a map from every number it has handed out to a path.    *)
(* This module is about names: which file an inode number leads to, and    *)
(* with which error a call fails.  What read, write and set_attr do to the *)
(* file they reach is in module FileIO.                                    *)
(*                                                                         *)
(* The Mutex of the server runs one call at a time, so a call is one step. *)
(***************************************************************************)
EXTENDS Integers, Sequences

CONSTANTS
    Names,      \* names of files within a directory
    Inodes,     \* the inode numbers the disk can give a file
    ROOT_INODE, \* the number by which clients know the exported directory
    MaxDepth    \* longest path that the disk has room for

ASSUME DiskAssumption ==
    /\ ROOT_INODE \notin Inodes
    /\ MaxDepth \in Nat

VARIABLES
    tree,      \* the disk: path -> the file there
    inode_map  \* DiskFs: inode number -> path

vars == <<tree, inode_map>>

\* A path is relative to the exported directory, which is <<>>.
Path == UNION {[1..k -> Names] : k \in 0..MaxDepth}
File == [ino : Inodes \cup {ROOT_INODE}, is_dir : BOOLEAN]

\* io::ErrorKind.  PermissionDenied stands for all that has to do neither with
\* names nor with space: EACCES, EPERM, EXDEV, EROFS, EIO.  Other stands for
\* NotADirectory, IsADirectory, DirectoryNotEmpty and StorageFull.
ErrorKind ==
    {"NotFound", "AlreadyExists", "InvalidInput", "Unsupported", "PermissionDenied", "Other"}
Result == {"Ok"} \cup ErrorKind

\* Path q is p, or lies below it.
Below(p, q) == Len(p) <= Len(q) /\ SubSeq(q, 1, Len(p)) = p
StrictlyBelow(p, q) == p # q /\ Below(p, q)
Parent(p) == SubSeq(p, 1, Len(p) - 1)

IsDir(t, p) == p \in DOMAIN t /\ t[p].is_dir

\* The numbers in use; that of a removed file is free to be used again.
InodesIn(t) == {t[p].ino : p \in DOMAIN t}

-----------------------------------------------------------------------------
(* The disk, as the system calls that DiskFs makes change it.              *)

Added(t, p, file) == [q \in DOMAIN t \cup {p} |-> IF q = p THEN file ELSE t[q]]

\* remove_file and remove_dir_all.
Without(t, p) == [q \in {r \in DOMAIN t : ~Below(p, r)} |-> t[q]]

\* What a remove_dir_all that fails may leave.
Partly(t, p) ==
    {[q \in DOMAIN t \ gone |-> t[q]] : gone \in
       {s \in SUBSET {q \in DOMAIN t : StrictlyBelow(p, q)} :
          \A q \in s, r \in DOMAIN t : Below(q, r) => r \in s}}

Rebase(p, old, new) == new \o SubSeq(p, Len(old) + 1, Len(p))

\* rename(2) replaces a file by a file and an empty directory by a directory.
\* Bound: no path gets longer than MaxDepth; the disk refuses to move (EIO).
CanMove(t, old, new) ==
    /\ old \in DOMAIN t
    /\ IsDir(t, Parent(new))
    /\ ~StrictlyBelow(old, new)
    /\ \A q \in DOMAIN t : Below(old, q) => Rebase(q, old, new) \in Path
    /\ new \in DOMAIN t /\ new # old =>
         /\ t[old].is_dir = t[new].is_dir
         /\ \A q \in DOMAIN t : ~StrictlyBelow(new, q)

Moved(t, old, new) ==
    LET rest  == {q \in DOMAIN t : ~Below(old, q) /\ q # new}
        moved == {Rebase(q, old, new) : q \in {r \in DOMAIN t : Below(old, r)}}
    IN  [q \in rest \cup moved |-> IF q \in rest THEN t[q] ELSE t[Rebase(q, new, old)]]

-----------------------------------------------------------------------------
(* DiskFs's map.                                                           *)

Child(map, d, name) == Append(map[d], name)

\* inode_map.insert(i, p)
Insert(map, i, p) == [j \in DOMAIN map \cup {i} |-> IF j = i THEN p ELSE map[j]]

\* inode_map.entry(i).or_insert(p): a path that is already there stays.
Remember(map, i, p) == IF i \in DOMAIN map THEN map ELSE Insert(map, i, p)

\* Mutant: the entry of a removed file stays.
ForgetNothing(map, i) == map

\* inode_map.remove(&i)
Forget(map, i) == [j \in DOMAIN map \ {i} |-> map[j]]

\* get_attr(i) succeeds.
Reaches(t, map, i) == i \in DOMAIN map /\ map[i] \in DOMAIN t

\* DiskFs::new
NewMap == [i \in {ROOT_INODE} |-> <<>>]

\* The exported directory is empty.  Its own inode number is never asked for.
Init ==
    /\ tree = [p \in {<<>>} |-> [ino |-> ROOT_INODE, is_dir |-> TRUE]]
    /\ inode_map = NewMap

-----------------------------------------------------------------------------
(* Errors.                                                                 *)

\* How a system call fails on a path at which there is nothing: ENOTDIR if a
\* file stands in the way, ENOENT otherwise.
PathError(t, p) ==
    IF \E q \in DOMAIN t : StrictlyBelow(q, p) /\ ~t[q].is_dir
    THEN "Other" ELSE "NotFound"

\* How get_path, or the system call after it, fails for an inode.
InodeError(t, map, i) == IF i \in DOMAIN map THEN PathError(t, map[i]) ELSE "NotFound"

\* How a call on a name in directory d fails if there is nothing.
ChildError(d, name) ==
    IF d \in DOMAIN inode_map THEN PathError(tree, Child(inode_map, d, name)) ELSE "NotFound"

-----------------------------------------------------------------------------
(* The calls of FsBackend.  The last parameter of each is what it returns. *)

Err(kind, res) == res = kind /\ UNCHANGED vars

\* The disk refuses a system call on a path that comes from the map.  Any of
\* them may be refused; this is a call that has not changed anything by then.
Refused(i, res) == i \in DOMAIN inode_map /\ Err("PermissionDenied", res)

\* get_attr changes nothing, and neither do stats and read_dir; nor does
\* set_attr of permissions or owner, as far as names go.
GetAttr(i, res) ==
    \/ Refused(i, res)
    \/ Err(IF Reaches(tree, inode_map, i) THEN "Ok" ELSE InodeError(tree, inode_map, i), res)

\* read, write, and set_attr of a size or times: directories cannot be opened
\* or read this way.  What happens to a file is in module FileIO.
OpenFile(i, res) ==
    \/ Refused(i, res)
    \/ Err(IF Reaches(tree, inode_map, i)
           THEN IF tree[inode_map[i]].is_dir THEN "Other" ELSE "Ok"
           ELSE InodeError(tree, inode_map, i), res)

Stats(res) == Err("Unsupported", res)

\* read_dir is for directories.
ReadDir(i, res) ==
    \/ Refused(i, res)
    \/ Err(IF Reaches(tree, inode_map, i)
           THEN IF tree[inode_map[i]].is_dir THEN "Ok" ELSE "Other"
           ELSE InodeError(tree, inode_map, i), res)

\* Mutant: the number of a file that is found is not kept.
FoundOnly(path, res) == res = "Ok" /\ UNCHANGED vars

\* A file that is there gets into the map.
Found(path, res) ==
    /\ res = "Ok"
    /\ inode_map' = Remember(inode_map, tree[path].ino, path)
    /\ UNCHANGED tree

Lookup(d, name, res) ==
    \/ Refused(d, res)
    \/ IF d \in DOMAIN inode_map /\ Child(inode_map, d, name) \in DOMAIN tree
       THEN Found(Child(inode_map, d, name), res)
       ELSE Err(ChildError(d, name), res)

\* Mutant: something that is already there is replaced.
CanMakeOver(path) == IsDir(tree, Parent(path))

\* open(2) with O_CREAT or mkdir(2) can make a file at the path.
CanMake(path) == path \notin DOMAIN tree /\ IsDir(tree, Parent(path))

\* The disk makes a file or a directory, with any number that is free, or has
\* no room for it (ENAMETOOLONG, ENOSPC).  If it then refuses to set permissions
\* what was made stays, and is not in the map.
Made(path, is_dir, res) ==
    IF path \in Path /\ Inodes \ InodesIn(tree) # {}
    THEN \E i \in Inodes \ InodesIn(tree) :
           /\ tree' = Added(tree, path, [ino |-> i, is_dir |-> is_dir])
           /\ \/ res = "Ok" /\ inode_map' = Remember(inode_map, i, path)
              \/ res = "PermissionDenied" /\ UNCHANGED inode_map
    ELSE Err("Other", res)

\* create_file, with or without O_EXCL: without, a file that is there is opened.
CreateFile(d, name, excl, res) ==
    LET path == Child(inode_map, d, name) IN
    \/ Refused(d, res)
    \/ IF d \notin DOMAIN inode_map THEN Err("NotFound", res)
       ELSE CASE CanMake(path) -> Made(path, FALSE, res)
              [] ~CanMake(path) /\ path \in DOMAIN tree /\ excl -> Err("AlreadyExists", res)
              [] ~CanMake(path) /\ path \in DOMAIN tree /\ ~excl ->
                   IF tree[path].is_dir THEN Err("Other", res) ELSE Found(path, res)
              [] ~CanMake(path) /\ path \notin DOMAIN tree -> Err(PathError(tree, path), res)

CreateDir(d, name, res) ==
    LET path == Child(inode_map, d, name) IN
    \/ Refused(d, res)
    \/ IF d \notin DOMAIN inode_map THEN Err("NotFound", res)
       ELSE CASE CanMake(path) -> Made(path, TRUE, res)
              [] ~CanMake(path) /\ path \in DOMAIN tree -> Err("AlreadyExists", res)
              [] ~CanMake(path) /\ path \notin DOMAIN tree -> Err(PathError(tree, path), res)

\* A removal that is refused may have removed part of a directory.
RemoveRefused(i, res) ==
    /\ i \in DOMAIN inode_map
    /\ res = "PermissionDenied"
    /\ tree' \in Partly(tree, inode_map[i])
    /\ UNCHANGED inode_map

Remove(i, res) ==
    \/ RemoveRefused(i, res)
    \/ IF Reaches(tree, inode_map, i)
       THEN /\ res = "Ok"
            /\ tree' = Without(tree, inode_map[i])
            /\ inode_map' = Forget(inode_map, i)
       ELSE Err(InodeError(tree, inode_map, i), res)

\* How rename fails in its second half.
MoveError(t, m, i, d, name) ==
    LET new == Child(m, d, name) IN
    IF i \notin DOMAIN m \/ d \notin DOMAIN m THEN "NotFound"
    ELSE CASE ~IsDir(t, Parent(m[i]))                           -> PathError(t, m[i])
           [] IsDir(t, Parent(m[i])) /\ ~IsDir(t, Parent(new)) -> PathError(t, new)
           [] IsDir(t, Parent(m[i])) /\ IsDir(t, Parent(new))  ->
                IF m[i] \notin DOMAIN t THEN "NotFound"
                ELSE IF StrictlyBelow(m[i], new) THEN "InvalidInput" ELSE "Other"

\* The second half of rename, from the disk t and map m that the first half
\* leaves: both paths are taken from the map, and errors undo nothing.  The
\* disk may refuse to move whatever it is (fs::rename, disk.rs:292).
MoveFile(t, m, i, d, name, res) ==
    \/ /\ {i, d} \subseteq DOMAIN m /\ res = "PermissionDenied"
       /\ tree' = t /\ inode_map' = m
    \/ IF i \in DOMAIN m /\ d \in DOMAIN m /\ CanMove(t, m[i], Child(m, d, name))
       THEN LET new == Child(m, d, name) IN
            /\ res = "Ok"
            /\ tree' = Moved(t, m[i], new)
            /\ inode_map' = Insert(m, i, new)
       ELSE res = MoveError(t, m, i, d, name) /\ tree' = t /\ inode_map' = m

\* Mutant: only the types are compared, so a directory replaces a directory.
MayReplaceDir(map, i, j) ==
    /\ Reaches(tree, map, j)
    /\ Reaches(tree, map, i)
    /\ tree[map[i]].is_dir = tree[map[j]].is_dir

\* get_attr of both and the checks of their types: only a file is replaced,
\* and only by a file.
MayReplace(map, i, j) ==
    /\ Reaches(tree, map, j)
    /\ Reaches(tree, map, i)
    /\ ~tree[map[j]].is_dir
    /\ ~tree[map[i]].is_dir

\* The error that keeps a destination from being replaced.
ReplaceError(map, i, j) ==
    CASE ~Reaches(tree, map, j) -> InodeError(tree, map, j)
      [] Reaches(tree, map, j) /\ ~Reaches(tree, map, i) -> InodeError(tree, map, i)
      [] Reaches(tree, map, j) /\ Reaches(tree, map, i) ->
           IF tree[map[j]].is_dir THEN "AlreadyExists" ELSE "InvalidInput"

\* The destination exists.  The disk may refuse its lookup, an error that rename
\* ignores, and then refuses to move to that path too.  Otherwise the lookup has
\* put it into the map, whatever comes after; the disk may refuse to tell
\* attributes or to remove it; and it is removed by its number.
RenameOver(i, d, name, res) ==
    LET dest == Child(inode_map, d, name)
        j    == tree[dest].ino
        map  == Remember(inode_map, j, dest)
    IN  \/ Err(IF i \in DOMAIN inode_map THEN "PermissionDenied" ELSE "NotFound", res)
        \/ res = "PermissionDenied" /\ tree' = tree /\ inode_map' = map
        \/ IF MayReplace(map, i, j)
           THEN MoveFile(Without(tree, map[j]), Forget(map, j), i, d, name, res)
           ELSE res = ReplaceError(map, i, j) /\ tree' = tree /\ inode_map' = map

Rename(i, d, name, res) ==
    IF d \in DOMAIN inode_map /\ Child(inode_map, d, name) \in DOMAIN tree
    THEN RenameOver(i, d, name, res)
    ELSE MoveFile(tree, inode_map, i, d, name, res)

\* The server dies in rename, after it has removed the destination and before
\* it has moved the source, and is started again.
CrashInRename(i, d, name) ==
    /\ d \in DOMAIN inode_map /\ Child(inode_map, d, name) \in DOMAIN tree
    /\ LET dest == Child(inode_map, d, name)
           j    == tree[dest].ino
           map  == Remember(inode_map, j, dest)
       IN  MayReplace(map, i, j) /\ tree' = Without(tree, map[j])
    /\ inode_map' = NewMap

\* The server is stopped and started again on the same directory, unless a
\* client has removed that.
Restart ==
    /\ IsDir(tree, <<>>)
    /\ inode_map' = NewMap
    /\ UNCHANGED tree

\* The numbers a client can put into a request.
Numbers == Inodes \cup {ROOT_INODE}

Next ==
    \/ \E res \in Result :
         \/ \E d \in Numbers, name \in Names :
              \/ Lookup(d, name, res)
              \/ \E excl \in BOOLEAN : CreateFile(d, name, excl, res)
              \/ CreateDir(d, name, res)
         \/ \E i \in Numbers :
              GetAttr(i, res) \/ OpenFile(i, res) \/ ReadDir(i, res) \/ Remove(i, res)
         \/ \E i, d \in Numbers, name \in Names : Rename(i, d, name, res)
         \/ Stats(res)
    \/ \E i, d \in Numbers, name \in Names : CrashInRename(i, d, name)
    \/ Restart

Spec == Init /\ [][Next]_vars

-----------------------------------------------------------------------------
\* The disk is a tree of directories in which every file has a number of its
\* own, and the map is one from numbers to paths.
TypeOK ==
    /\ DOMAIN tree \subseteq Path
    /\ tree \in [DOMAIN tree -> File]
    /\ \A p \in DOMAIN tree \ {<<>>} : IsDir(tree, Parent(p))
    /\ \A p, q \in DOMAIN tree : tree[p].ino = tree[q].ino => p = q
    /\ DOMAIN inode_map \subseteq Numbers
    /\ inode_map \in [DOMAIN inode_map -> Path]

\* Every number in the map leads to the file that has it.
MapAgrees == \A i \in DOMAIN inode_map :
    inode_map[i] \in DOMAIN tree /\ tree[inode_map[i]].ino = i

\* Something below inode i has been handed out as well.
KnownBelow(i) ==
    /\ i \in DOMAIN inode_map
    /\ \E j \in DOMAIN inode_map : StrictlyBelow(inode_map[i], inode_map[j])

\* DiskFs corrects the entry of the inode that a call names (disk.rs:257, 294)
\* and of no other.  The map therefore goes wrong in one way only: a directory
\* is removed or renamed when something below it is in the map.
StaleStep ==
    MapAgrees /\ ~MapAgrees' =>
      \E i \in Numbers :
        /\ KnownBelow(i)
        /\ \E res \in Result :
             Remove(i, res) \/ \E d \in Numbers, name \in Names : Rename(i, d, name, res)

\* No step of DiskFs (remove, disk.rs:257, and rename, 294, included) makes the
\* map wrong in another way.
StaleOnlyByDirectory == [][StaleStep]_vars

\* rename removes the destination (disk.rs:286) before it has tried to move
\* the source (292), which the disk may refuse: then the destination is gone and
\* rename returns an error.  While the map is right and source and destination
\* differ, that is the worst that happens.  If rename changes the disk, it
\* returns Ok with the source where it should be, or that refusal with the
\* source where it was, as it is if the server dies in between; and no file is
\* gone but the destination.
KeepsSource(i, d, name) ==
    LET dest     == Child(inode_map, d, name)
        replaced == {tree[p].ino : p \in {dest} \cap DOMAIN tree}
        LosesNoOther == InodesIn(tree) \ InodesIn(tree') \subseteq replaced
        IsAt(p)  == p \in DOMAIN tree' /\ tree'[p].ino = i
    IN  /\ \A res \in Result : Rename(i, d, name, res) =>
             \/ i \in replaced
             \/ /\ LosesNoOther
                /\ \/ res = "Ok" /\ IsAt(dest)
                   \/ res = "PermissionDenied" /\ IsAt(inode_map[i])
        /\ CrashInRename(i, d, name) =>
             i \in replaced \/ (IsAt(inode_map[i]) /\ LosesNoOther)
RenameStep ==
    tree' # tree /\ MapAgrees => \A i, d \in Numbers, name \in Names : KeepsSource(i, d, name)

\* Every rename (disk.rs:261-297) and every crash in one is of this kind.
RenameLosesOnlyDestination == [][RenameStep]_vars

-----------------------------------------------------------------------------
(* Statements of the repository that the code does not live up to.         *)

\* fs/mod.rs:306: "Removes the given inode. If invoked on a directory, the
\* directory and all its contents are also deleted."  Then no file is deleted
\* but the given one and those below it.
RemovesGivenInode ==
    [][\A i \in Numbers :
         tree' # tree /\ Remove(i, "Ok") =>
           \A p \in DOMAIN tree \ DOMAIN tree' :
             \E q \in DOMAIN tree : tree[q].ino = i /\ Below(q, p)]_vars

\* fs/mod.rs:311: "Moves/renames the given inode. If the destination exists
\* and is a file, it is overwritten."  Then the given inode is never deleted.
RenameKeepsInode ==
    [][\A i, d \in Numbers, name \in Names, res \in Result :
         tree' # tree /\ Rename(i, d, name, res) =>
           (i \in InodesIn(tree) => i \in InodesIn(tree'))]_vars

=============================================================================
