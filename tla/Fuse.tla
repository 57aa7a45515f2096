-------------------------------- MODULE Fuse --------------------------------
(***************************************************************************)
(* FUSEFilesystem (client/fuse.rs): mounts of several clients over the one *)
(* DiskFs of the server.  The kernel sends a mount one request at a time;  *)
(* a request makes one or two calls of the FsBackend and ends with one     *)
(* reply.  Between the two calls other mounts make calls of their own.     *)
(*                                                                         *)
(* That a call of a ClientHandler acts as one call of the server's backend *)
(* is what module Rpc shows.  An error gets from DiskFs to the kernel      *)
(* through ErrorCode (protocol/error.rs) and io_to_errno.  What read, write *)
(* and set_attr do to a file is in module FileIO.                          *)
(***************************************************************************)
EXTENDS DiskFs, FiniteSets

CONSTANTS
    StartTree,   \* the exported directory when the server is started
    Mounts,      \* the mounts
    DirBuffer,   \* directory entries that fit a reply to readdir
    MaxRequests  \* bound: requests made, but for those that go on listing

\* The server is started on a directory tree in which every file has a number
\* of its own.
ASSUME FuseAssumption ==
    /\ DirBuffer \in Nat
    /\ MaxRequests \in Nat
    /\ IsFiniteSet(Names)
    /\ DOMAIN StartTree \subseteq Path
    /\ StartTree \in [DOMAIN StartTree -> File]
    /\ \A p \in DOMAIN StartTree, q \in Path : StrictlyBelow(q, p) => IsDir(StartTree, q)
    /\ \A p, q \in DOMAIN StartTree : StartTree[p].ino = StartTree[q].ino => p = q
    /\ <<>> \in DOMAIN StartTree /\ StartTree[<<>>] = [ino |-> ROOT_INODE, is_dir |-> TRUE]

VARIABLES
    req,     \* per mount: the request that waits to make its second call
    known,   \* per mount: the inode numbers that the kernel has been given
    listing, \* per mount: the listing of a directory that is under way
    count,   \* number of requests made
    last,    \* history: the last call, if it failed, removed or renamed something
    stay     \* history, per mount: names that were there since its listing began

fuseVars == <<req, known, listing, count, last, stay>>
allVars == <<vars, fuseVars>>

NoRequest == [op |-> "none"]
NoCall == [call |-> "none"]
NoListing == [dir |-> ROOT_INODE, next |-> 0, got |-> {}, on |-> FALSE]

-----------------------------------------------------------------------------
(* Errors on their way to the kernel.                                      *)

\* Mutant: a missing file is an internal error.
CodeOfNoNotFound(kind) ==
    CASE kind = "InvalidInput"  -> "Invalid"
      [] kind = "AlreadyExists" -> "Exists"
      [] kind = "Unsupported"   -> "Unsupported"
      [] kind \in {"NotFound", "PermissionDenied", "Other"} -> "Internal"

\* From<ErrorKind> for ErrorCode
CodeOf(kind) ==
    CASE kind = "InvalidInput"  -> "Invalid"
      [] kind = "NotFound"      -> "NotFound"
      [] kind = "AlreadyExists" -> "Exists"
      [] kind = "Unsupported"   -> "Unsupported"
      [] kind \in {"PermissionDenied", "Other"} -> "Internal"

\* From<ErrorCode> for ErrorKind
KindOf(code) ==
    CASE code = "Internal"    -> "Other"
      [] code = "Invalid"     -> "InvalidInput"
      [] code = "NotFound"    -> "NotFound"
      [] code = "Exists"      -> "AlreadyExists"
      [] code = "Unsupported" -> "Unsupported"

io_to_errno(kind) ==
    CASE kind = "NotFound"      -> "ENOENT"
      [] kind = "PermissionDenied" -> "EACCES"
      [] kind = "AlreadyExists" -> "EEXIST"
      [] kind = "InvalidInput"  -> "EINVAL"
      [] kind \in {"Unsupported", "Other"} -> "EIO"

\* How a call that returned res ends for the mount.
Outcome(res) == IF res = "Ok" THEN "Ok" ELSE io_to_errno(KindOf(CodeOf(res)))

-----------------------------------------------------------------------------
StartDirs == {StartTree[p].ino : p \in {q \in DOMAIN StartTree : StartTree[q].is_dir}}

\* The mounts have looked up the directories, and so far nothing else.
FuseInit ==
    /\ tree = StartTree
    /\ inode_map = [i \in StartDirs |-> CHOOSE p \in DOMAIN tree : tree[p].ino = i]
    /\ req = [m \in Mounts |-> NoRequest]
    /\ known = [m \in Mounts |-> StartDirs]
    /\ listing = [m \in Mounts |-> NoListing]
    /\ count = 0
    /\ last = NoCall
    /\ stay = [m \in Mounts |-> {}]

Idle(m) == req[m] = NoRequest

\* What is recorded of a call that has returned.
Failure(call) == last' = IF call.out = "Ok" THEN NoCall ELSE call

\* After its first call a request makes another, or has failed.
Continue(m, res, second) ==
    req' = [req EXCEPT ![m] = IF res = "Ok" THEN second ELSE NoRequest]

\* The inode number that lookup, create_file and create_dir return.
InoAt(d, name) == tree'[Child(inode_map, d, name)].ino

\* lookup, mkdir and create: a call that gives a number, then get_attr of it.
Entry(m, d, name, res) ==
    /\ Continue(m, res, [op |-> "get_attr", ino |-> InoAt(d, name), entry |-> TRUE])
    /\ Failure([call |-> "name", d |-> d, name |-> name, out |-> Outcome(res), res |-> res])
    /\ UNCHANGED <<known, listing>>

lookup(m, d, name, res) == Lookup(d, name, res) /\ Entry(m, d, name, res)
mkdir(m, d, name, res) == CreateDir(d, name, res) /\ Entry(m, d, name, res)
create(m, d, name, excl, res) == CreateFile(d, name, excl, res) /\ Entry(m, d, name, res)

\* unlink, rmdir and rename: lookup, then a call on the number it gave.
FindThen(m, d, name, second, res) ==
    /\ Lookup(d, name, res)
    /\ Continue(m, res, second)
    /\ Failure([call |-> "name", d |-> d, name |-> name, out |-> Outcome(res), res |-> res])
    /\ UNCHANGED <<known, listing>>

\* unlink and rmdir do the same.
unlink(m, d, name, res) ==
    FindThen(m, d, name, [op |-> "remove", ino |-> InoAt(d, name)], res)

\* The kernel answers a rename of a name onto itself by itself.
rename(m, d, name, newparent, newname, res) ==
    /\ <<d, name>> # <<newparent, newname>>
    /\ FindThen(m, d, name,
         [op |-> "rename", ino |-> InoAt(d, name), parent |-> d,
          newparent |-> newparent, newname |-> newname], res)

\* setattr: set_attr, which opens the file if there is a size or a time to set,
\* then get_attr.
setattr(m, i, opens, res) ==
    /\ IF opens THEN OpenFile(i, res) ELSE GetAttr(i, res)
    /\ Continue(m, res, [op |-> "get_attr", ino |-> i, entry |-> FALSE])
    /\ Failure([call |-> IF opens THEN "open" ELSE "get_attr", ino |-> i,
                out |-> Outcome(res), res |-> res])
    /\ UNCHANGED <<known, listing>>

getattr(m, i, res) ==
    /\ GetAttr(i, res)
    /\ Failure([call |-> "get_attr", ino |-> i, out |-> Outcome(res), res |-> res])
    /\ UNCHANGED <<req, known, listing>>

\* read and write, of which the kernel gets data or a count.
ReadOrWrite(m, i, res) ==
    /\ OpenFile(i, res)
    /\ Failure([call |-> "open", ino |-> i, out |-> Outcome(res), res |-> res])
    /\ UNCHANGED <<req, known, listing>>

statfs(m, res) ==
    /\ Stats(res)
    /\ Failure([call |-> "stats", out |-> Outcome(res), res |-> res])
    /\ UNCHANGED <<req, known, listing>>

\* The second call is made, and the kernel gets its answer.
Reply(m) ==
    /\ req' = [req EXCEPT ![m] = NoRequest]
    /\ UNCHANGED <<listing, count>>

\* reply.entry gives the kernel a number to use; reply.attr does not.
FinishAttr(m, res) ==
    LET r == req[m] IN
    /\ r.op = "get_attr"
    /\ GetAttr(r.ino, res)
    /\ known' = [known EXCEPT ![m] = IF r.entry /\ res = "Ok" THEN @ \cup {r.ino} ELSE @]
    /\ Failure([call |-> "get_attr", ino |-> r.ino, out |-> Outcome(res), res |-> res])
    /\ Reply(m)

FinishUnlink(m, res) ==
    LET r == req[m] IN
    /\ r.op = "remove"
    /\ last' = [call |-> "remove", ino |-> r.ino, out |-> Outcome(res), res |-> res]
    /\ Reply(m)
    /\ UNCHANGED known
    /\ Remove(r.ino, res)

\* Mutant: the file stays in the directory it was in.
FinishRenameSameDir(m, res) ==
    LET r == req[m] IN
    /\ r.op = "rename"
    /\ last' = [call |-> "rename", ino |-> r.ino, d |-> r.newparent, name |-> r.newname,
                out |-> Outcome(res), res |-> res]
    /\ Reply(m)
    /\ UNCHANGED known
    /\ Rename(r.ino, r.parent, r.newname, res)

FinishRename(m, res) ==
    LET r == req[m] IN
    /\ r.op = "rename"
    /\ last' = [call |-> "rename", ino |-> r.ino, d |-> r.newparent, name |-> r.newname,
                out |-> Outcome(res), res |-> res]
    /\ Reply(m)
    /\ UNCHANGED known
    /\ Rename(r.ino, r.newparent, r.newname, res)

-----------------------------------------------------------------------------
(* Listing a directory: the kernel sends readdir until a reply is empty.   *)

NamesIn(t, p) == {q[Len(q)] : q \in {r \in DOMAIN t : r # <<>> /\ Parent(r) = p}}

opendir(m, d) ==
    /\ ~listing[m].on
    /\ listing' = [listing EXCEPT ![m] = [dir |-> d, next |-> 0, got |-> {}, on |-> TRUE]]
    /\ last' = NoCall
    /\ UNCHANGED <<vars, req, known>>

\* Mutant: an entry's offset is its own index, not that of the next.
OffsetSame(i) == i

\* (i + 1) as u64, for entry i counted from 0
OffsetAfter(i) == i + 1

\* Mutant: one entry too many is skipped.
SkippedOne(entries, offset) == SubSeq(entries, offset + 2, Len(entries))

\* entries.enumerate().skip(offset)
Skipped(entries, offset) == SubSeq(entries, offset + 1, Len(entries))

\* read_dir's entries: "." and "..", then the children in the disk's order.
Entries(d) ==
    LET names == NamesIn(tree, inode_map[d])
        n     == Cardinality(names)
    IN  {<<".", "..">> \o s : s \in {f \in [1..n -> names] :
           \A j, k \in 1..n : f[j] = f[k] => j = k}}

\* Entries that do not all fit make reply.add return true, and readdir returns
\* without reply.ok(): fuser answers a reply that is dropped with EIO.
ListEnds(m) == listing' = [listing EXCEPT ![m] = NoListing]

readdir(m, res) ==
    LET l == listing[m] IN
    /\ l.on
    /\ Idle(m)
    /\ ReadDir(l.dir, res)
    /\ IF res # "Ok" THEN ListEnds(m) /\ last' = [call |-> "list", m |-> m, out |-> Outcome(res)]
       ELSE \E entries \in Entries(l.dir) :
         LET page == Skipped(entries, l.next) IN
         \/ /\ Len(page) > DirBuffer
            /\ ListEnds(m)
            /\ last' = [call |-> "list", m |-> m, out |-> "EIO"]
         \/ /\ page = <<>>
            /\ ListEnds(m)
            /\ last' = [call |-> "list", m |-> m, out |-> "Ok", got |-> l.got]
         \/ /\ page # <<>> /\ Len(page) <= DirBuffer
            /\ listing' = [listing EXCEPT ![m].got = @ \cup {page[k] : k \in DOMAIN page},
                                          ![m].next = OffsetAfter(Len(entries) - 1)]
            /\ last' = NoCall
    /\ UNCHANGED <<req, known, count>>

-----------------------------------------------------------------------------
\* The numbers that mounts have been given.
Given == (UNION {known[m] : m \in Mounts}) \cup {req[m].ino : m \in {n \in Mounts : ~Idle(n)}}

\* DiskFs finds every file by its number.
MapExact == MapAgrees /\ Given \cap InodesIn(tree) \subseteq DOMAIN inode_map

\* What was in the listed directory from the start of the listing until now;
\* nothing is claimed once the map has gone wrong.
Stay ==
    stay' = [m \in Mounts |->
      LET d   == listing'[m].dir
          now == IF MapExact' /\ d \in DOMAIN inode_map'
                 THEN NamesIn(tree', inode_map'[d]) ELSE {}
      IN  CASE ~listing'[m].on                   -> {}
            [] listing'[m].on /\ ~listing[m].on -> now
            [] listing'[m].on /\ listing[m].on  -> stay[m] \cap now]

\* The mount takes a request from the kernel and makes its first call.
Request(m) ==
    /\ Idle(m)
    /\ count < MaxRequests
    /\ count' = count + 1
    /\ \/ \E d \in known[m], name \in Names, res \in Result :
            \/ lookup(m, d, name, res)
            \/ mkdir(m, d, name, res)
            \/ \E excl \in BOOLEAN : create(m, d, name, excl, res)
            \/ unlink(m, d, name, res)
            \/ \E newparent \in known[m], newname \in Names :
                 rename(m, d, name, newparent, newname, res)
       \/ \E i \in known[m], res \in Result :
            \/ getattr(m, i, res)
            \/ \E opens \in BOOLEAN : setattr(m, i, opens, res)
            \/ ReadOrWrite(m, i, res)
       \/ \E res \in Result : statfs(m, res)
       \/ \E d \in known[m] : opendir(m, d)

\* A request makes its second call and is answered.
Answer(m) ==
    \E res \in Result : FinishAttr(m, res) \/ FinishUnlink(m, res) \/ FinishRename(m, res)

\* The next part of a listing.
GoOn(m) == \E res \in Result : readdir(m, res)

FuseNext == \E m \in Mounts : (Request(m) \/ Answer(m) \/ GoOn(m)) /\ Stay

\* The mount's thread makes its calls, each of which returns while the
\* connection lasts (Rpc), and a program that lists a directory goes on to the
\* end.  Nothing obliges anyone to make requests, or the disk to refuse a call.
FuseSpec ==
    /\ FuseInit /\ [][FuseNext]_allVars
    /\ \A m \in Mounts : WF_<<req, listing>>(
         \E res \in Result \ {"PermissionDenied"} :
           FinishAttr(m, res) \/ FinishUnlink(m, res) \/ FinishRename(m, res) \/ readdir(m, res))

-----------------------------------------------------------------------------
\* DiskFs keeps its types; requests and listings are about numbers that the
\* kernel was given.
FuseTypeOK ==
    /\ TypeOK
    /\ known \in [Mounts -> SUBSET Numbers]
    /\ \A m \in Mounts :
         /\ req[m].op \in {"none", "get_attr", "remove", "rename"}
         /\ req[m] # NoRequest => req[m].ino \in Inodes \cup known[m]
         /\ req[m].op = "rename" => {req[m].parent, req[m].newparent} \subseteq known[m]
         /\ listing[m].dir \in known[m]
         /\ listing[m].got \subseteq Names \cup {".", ".."}
    /\ count \in 0..MaxRequests

\* The path of the file with number i on disk t, which has one.
PathOf(t, i) == CHOOSE p \in DOMAIN t : t[p].ino = i

Exists(i) == i \in InodesIn(tree)
IsDirectory(i) == Exists(i) /\ tree[PathOf(tree, i)].is_dir
Holds(d, name) == IsDirectory(d) /\ Append(PathOf(tree, d), name) \in DOMAIN tree

\* A rename whose file another mount has just given the same new name.  DiskFs
\* removes the destination, which is the file itself (disk.rs:286).
OntoItself(l) == Holds(l.d, l.name) /\ tree[Append(PathOf(tree, l.d), l.name)].ino = l.ino

\* The disk has no room for another file in directory d.
Full(d) == Inodes \subseteq InodesIn(tree) \/ Len(PathOf(tree, d)) = MaxDepth

\* The two properties below hold as long as DiskFs finds every file by its
\* number.  That ends in two ways only, whatever mounts do and in whatever order:
\* a mount's unlink or rename reaches a directory below which something is in
\* the map (disk.rs:257, 294), or a create or mkdir fails with its file made and
\* not in the map (disk.rs:149, 170), and the file has a number that a mount
\* still has from a removed one.  Above all a number that is used again for a
\* file whose create succeeds leads to that file.
ExactStep ==
    MapExact /\ ~MapExact' =>
      \/ \E m \in Mounts :
           /\ req[m].op \in {"remove", "rename"} /\ req'[m] = NoRequest
           /\ KnownBelow(req[m].ino)
      \/ /\ last'.call = "name" /\ last'.res = "PermissionDenied"
         /\ (Given \cap InodesIn(tree')) \ InodesIn(tree) # {}

\* Every step of the mounts (fuse.rs:172-230) is of this kind.
ExactUntilDirectory == [][ExactStep]_allVars

\* Whether the answer `l' is true of the disk as it is.  Protocol.md:338-342:
\* E_NOTFOUND "The requested inode doesn't exist", E_EXISTS "An inode already
\* exists at the requested destination path".  What the disk refuses is none of
\* these: there is no ErrorCode for it, and it becomes EIO.
TrueError(l) ==
    IF l.res = "PermissionDenied" THEN l.out = "EIO" ELSE
    CASE l.call = "name" ->
           /\ l.out = "ENOENT" => ~Holds(l.d, l.name)
           /\ l.out = "EEXIST" => Holds(l.d, l.name)
           /\ l.out = "EIO" => ~IsDirectory(l.d) \/ Holds(l.d, l.name) \/ Full(l.d)
           /\ l.out # "EINVAL"
      [] l.call \in {"get_attr", "remove"} ->
           l.out = "ENOENT" /\ ~Exists(l.ino)
      [] l.call = "open" ->
           IF Exists(l.ino) THEN l.out = "EIO" /\ IsDirectory(l.ino) ELSE l.out = "ENOENT"
      [] l.call = "rename" ->
           /\ l.out = "ENOENT" => ~Exists(l.ino) \/ ~Exists(l.d) \/ OntoItself(l)
           /\ l.out = "EEXIST" => Holds(l.d, l.name)
           /\ l.out = "EINVAL" => IsDirectory(l.ino)
           /\ l.out = "EIO" => ~IsDirectory(l.d) \/ IsDirectory(l.ino) \/ Full(l.d)

\* As long as DiskFs finds every file by its number, an errno tells the truth,
\* in whatever way other mounts' calls fall between the two calls of a request
\* (fuse.rs:181, 199, 220) and through both conversions of the error
\* (error.rs:17-40, fuse.rs:53-61).  Above all a name that is not there gets
\* ENOENT, on which the kernel goes on to create it.  The one exception is a
\* file that two mounts give the same new name at once: it is lost.  This is
\* about calls on a name and on an inode, not about listings, which may end in
\* EIO, nor about statfs, which always does.
ErrorsStep ==
    MapExact /\ last'.call \in {"name", "get_attr", "open", "remove", "rename"}
      /\ last'.out # "Ok" => TrueError(last')

\* Every errno with which a mount answers such a request (fuse.rs:53-61) is true
\* in this sense.
ErrorsTrue == [][ErrorsStep]_allVars

\* As long as DiskFs finds every file by its number, unlink and rename act on
\* the file with the number that their lookup found, wherever other mounts have
\* moved it in between (fuse.rs:181, 220): unlink removes it and what is below
\* it and nothing else, rename leaves it under its new name and removes nothing
\* but what was there.
ActsStep ==
    LET gone == InodesIn(tree) \ InodesIn(tree') IN
    MapExact /\ last'.call \in {"remove", "rename"} /\ last'.out = "Ok" =>
      IF last'.call = "remove"
      THEN gone = {tree[p].ino : p \in
                    {q \in DOMAIN tree : Below(PathOf(tree, last'.ino), q)}}
      ELSE LET dest == Append(PathOf(tree', last'.d), last'.name) IN
           /\ dest \in DOMAIN tree' /\ tree'[dest].ino = last'.ino
           /\ gone \subseteq {tree[p].ino : p \in {dest} \cap DOMAIN tree}

\* Every unlink and rename (fuse.rs:172-230) acts on the file it found.
ActsOnFound == [][ActsStep]_allVars

\* A listing that ends well has every name that was in the directory all the
\* while, and "." and ".." (fuse.rs:302-313).
ListingStep ==
    last'.call = "list" /\ last'.out = "Ok" =>
      stay[last'.m] \cup {".", ".."} \subseteq last'.got

\* Every listing (readdir, fuse.rs:302-313) is complete in this sense.
ListingComplete == [][ListingStep]_allVars

\* Mount m has answered everything.
Done(m) == req[m] = NoRequest /\ ~listing[m].on

\* Every request is answered and every listing comes to an end: the offsets
\* that readdir gives out lead past what has been listed.
RequestsEnd ==
    \A m \in Mounts : []<>Done(m)

=============================================================================
