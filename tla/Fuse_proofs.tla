----------------------------- MODULE Fuse_proofs -----------------------------
(***************************************************************************)
(* The mounts, for any tree, any number of them and any size of a reply:   *)
(* they only ever use numbers that they were given, and a listing of a     *)
(* directory that ends well is complete.                                   *)
(***************************************************************************)
EXTENDS Fuse, DiskFs_proofs, FiniteSetTheorems

LEMMA IntervalSize ==
    ASSUME NEW n \in Nat
    PROVE  Cardinality(1..n) = n
<1>1. Cardinality(1..n) = IF 1 > n THEN 0 ELSE n - 1 + 1
  BY FS_Interval
<1> QED BY <1>1

\* Two entries before others.
LEMMA PairBefore ==
    ASSUME NEW S, NEW a \in Seq(S), Len(a) = 2, NEW b \in Seq(S)
    PROVE  /\ a \o b \in Seq(S)
           /\ Len(a \o b) = Len(b) + 2
           /\ (a \o b)[1] = a[1] /\ (a \o b)[2] = a[2]
           /\ \A k \in 1..Len(b) : (a \o b)[k + 2] = b[k]
<1> DEFINE c == a \o b
<1>1. /\ c \in Seq(S) /\ Len(c) = 2 + Len(b)
      /\ \A k \in 1..(2 + Len(b)) : c[k] = IF k <= 2 THEN a[k] ELSE b[k - 2]
  <2>1. /\ c \in Seq(S) /\ Len(c) = Len(a) + Len(b)
        /\ \A k \in 1..(Len(a) + Len(b)) : c[k] = IF k <= Len(a) THEN a[k] ELSE b[k - Len(a)]
    BY ConcatProperties
  <2> HIDE DEF c
  <2> QED BY <2>1
<1> HIDE DEF c
<1>2. Len(b) \in Nat
  OBVIOUS
<1>3. 1 \in 1..(2 + Len(b)) /\ 2 \in 1..(2 + Len(b))
  BY <1>2
<1>4. \A k \in 1..Len(b) : k + 2 \in 1..(2 + Len(b)) /\ ~(k + 2 <= 2) /\ k + 2 - 2 = k
  BY <1>2
<1>5. c[1] = a[1] /\ c[2] = a[2]
  BY <1>1, <1>3
<1>6. \A k \in 1..Len(b) : c[k + 2] = b[k]
  BY <1>1, <1>4
<1> QED BY <1>1, <1>2, <1>5, <1>6 DEF c

USE FuseAssumption

\* What the requests under way and the listings consist of.
RequestsOf(numbers) ==
    {NoRequest}
      \cup [op : {"get_attr"}, ino : Inodes \cup numbers, entry : BOOLEAN]
      \cup [op : {"remove"}, ino : Inodes]
      \cup [op : {"rename"}, ino : Inodes, parent : numbers, newparent : numbers, newname : Names]

ListingsOf(numbers) ==
    [dir : numbers, next : Nat, got : SUBSET (Names \cup {".", ".."}), on : BOOLEAN]

\* A mount uses numbers it was given.
MountInv(m) ==
    /\ known[m] \subseteq Numbers /\ ROOT_INODE \in known[m]
    /\ req[m] \in RequestsOf(known[m])
    /\ listing[m] \in ListingsOf(known[m])

\* The first reply to readdir has everything, or the listing fails: after it
\* nothing is missing that was there all the while.
ListInv(m) ==
    listing[m].on /\ listing[m].next # 0 => stay[m] \cup {".", ".."} \subseteq listing[m].got

FuseInv ==
    /\ IInv
    /\ known \in [Mounts -> SUBSET Numbers]
    /\ req \in [Mounts -> UNION {RequestsOf(k) : k \in SUBSET Numbers}]
    /\ listing \in [Mounts -> ListingsOf(Numbers)]
    /\ count \in 0..MaxRequests
    /\ \A m \in Mounts : MountInv(m) /\ ListInv(m)

-----------------------------------------------------------------------------
(* The start.                                                              *)

LEMMA FuseInitInv == FuseInit => FuseInv
<1> SUFFICES ASSUME FuseInit PROVE FuseInv
  OBVIOUS
<1>1. tree = StartTree
  BY DEF FuseInit
<1>2. TreeInv(tree)
  BY <1>1 DEF TreeInv
<1>3. StartDirs \subseteq Numbers /\ ROOT_INODE \in StartDirs
  <2>1. \A p \in DOMAIN StartTree : StartTree[p].ino \in Numbers
    BY DEF File, Numbers
  <2>2. <<>> \in DOMAIN StartTree /\ StartTree[<<>>].ino = ROOT_INODE /\ StartTree[<<>>].is_dir
    OBVIOUS
  <2> QED BY <2>1, <2>2 DEF StartDirs
<1>4. MapInv(inode_map)
  <2>1. ASSUME NEW i \in StartDirs
        PROVE  (CHOOSE p \in DOMAIN tree : tree[p].ino = i) \in Path
    <3>1. \E p \in DOMAIN tree : tree[p].ino = i
      BY <1>1 DEF StartDirs
    <3> QED BY <3>1, <1>2 DEF TreeInv
  <2>2. inode_map = [i \in StartDirs |-> CHOOSE p \in DOMAIN tree : tree[p].ino = i]
    BY DEF FuseInit
  <2> QED BY <2>1, <2>2, <1>3 DEF MapInv
<1>5. known \in [Mounts -> SUBSET Numbers] /\ \A m \in Mounts : known[m] = StartDirs
  BY <1>3 DEF FuseInit
<1>6. ASSUME NEW k \in SUBSET Numbers, ROOT_INODE \in k
      PROVE  NoListing \in ListingsOf(k) /\ NoRequest \in RequestsOf(k)
  BY <1>6 DEF NoListing, ListingsOf, RequestsOf
<1>7. /\ req \in [Mounts -> UNION {RequestsOf(k) : k \in SUBSET Numbers}]
      /\ listing \in [Mounts -> ListingsOf(Numbers)]
      /\ \A m \in Mounts : req[m] = NoRequest /\ listing[m] = NoListing
  <2>1. Numbers \in SUBSET Numbers /\ ROOT_INODE \in Numbers
    BY DEF Numbers
  <2>2. NoListing \in ListingsOf(Numbers) /\ NoRequest \in RequestsOf(Numbers)
    BY <2>1, <1>6
  <2> QED BY <2>1, <2>2 DEF FuseInit
<1>8. count \in 0..MaxRequests
  BY DEF FuseInit
<1>9. ASSUME NEW m \in Mounts
      PROVE  MountInv(m) /\ ListInv(m)
  <2>1. MountInv(m)
    BY <1>3, <1>5, <1>6, <1>7 DEF MountInv
  <2>2. ListInv(m)
    BY <1>7 DEF ListInv, NoListing
  <2> QED BY <2>1, <2>2
<1> QED BY <1>2, <1>4, <1>5, <1>7, <1>8, <1>9 DEF FuseInv, IInv

-----------------------------------------------------------------------------
(* Calls of DiskFs.                                                        *)

\* The errors are errors.
LEMMA ErrorsAreErrors ==
    /\ \A t, p : PathError(t, p) # "Ok"
    /\ \A d, name : ChildError(d, name) # "Ok"
BY DEF PathError, ChildError

\* Only the exported directory has the number that stands for it.
LEMMA OwnNumber ==
    ASSUME NEW t, TreeInv(t), NEW p \in DOMAIN t, p # <<>>
    PROVE  t[p].ino \in Inodes
<1>1. p \in Seq(Names)
  BY PathIsSeq DEF TreeInv
<1>2. StrictlyBelow(<<>>, p) /\ <<>> \in Path
  BY <1>1, EmptyBelow, EmptyPath DEF StrictlyBelow
<1>3. <<>> \in DOMAIN t
  BY <1>2 DEF TreeInv, IsDir
<1>4. t[<<>>].ino = ROOT_INODE
  BY <1>3 DEF TreeInv
<1>5. t[p].ino # ROOT_INODE
  BY <1>3, <1>4 DEF TreeInv
<1> QED BY <1>5 DEF TreeInv, File

\* A call that finds or makes a file returns the number of a file that is there.
LEMMA NumberReturned ==
    ASSUME IInv, IInv', NEW d, NEW name \in Names,
           \/ Lookup(d, name, "Ok")
           \/ CreateDir(d, name, "Ok")
           \/ \E excl \in BOOLEAN : CreateFile(d, name, excl, "Ok")
    PROVE  InoAt(d, name) \in Inodes
<1> DEFINE p == Child(inode_map, d, name)
<1>1. d \in DOMAIN inode_map
  BY ErrorsAreErrors DEF Lookup, CreateDir, CreateFile, Refused, Err
<1>2. p \in DOMAIN tree'
  <2>1. ASSUME Found(p, "Ok"), p \in DOMAIN tree
        PROVE  p \in DOMAIN tree'
    BY <2>1 DEF Found
  <2>2. ASSUME NEW dir \in BOOLEAN, Made(p, dir, "Ok")
        PROVE  p \in DOMAIN tree'
    BY <2>2 DEF Made, Added, Err
  <2> HIDE DEF p
  <2>3. CASE Lookup(d, name, "Ok")
    BY <2>1, <2>3, ErrorsAreErrors DEF Lookup, Refused, Err, p
  <2>4. CASE CreateDir(d, name, "Ok")
    BY <1>1, <2>2, <2>4, ErrorsAreErrors DEF CreateDir, Refused, Err, p
  <2>5. ASSUME NEW excl \in BOOLEAN, CreateFile(d, name, excl, "Ok")
        PROVE  p \in DOMAIN tree'
    BY <1>1, <2>1, <2>2, <2>5, ErrorsAreErrors DEF CreateFile, Refused, Err, p
  <2> QED BY <2>3, <2>4, <2>5
<1>3. p # <<>>
  BY <1>1, ChildProperties DEF IInv
<1>4. tree'[p].ino \in Inodes
  BY <1>2, <1>3, OwnNumber DEF IInv
<1> QED BY <1>4 DEF InoAt

-----------------------------------------------------------------------------
(* Steps of a mount, one request at a time.                                *)

\* What is recorded of a call that finds or changes nothing.
LEMMA FailureIsOther ==
    ASSUME NEW c, Failure(c), c.call \notin {"list", "remove", "rename"}
    PROVE  last'.call \notin {"list", "remove", "rename"}
BY DEF Failure, NoCall

\* What a mount does to the disk and to its own state when it takes a request.
LEMMA TakesRequest ==
    ASSUME FuseInv, NEW m \in Mounts, Request(m)
    PROVE  /\ [Next]_vars
           /\ UNCHANGED known
           /\ req'[m] \in RequestsOf(known[m])
           /\ req' = [req EXCEPT ![m] = req'[m]]
           /\ \/ UNCHANGED listing
              \/ \E d \in known[m] :
                   listing' = [listing EXCEPT ![m] =
                                 [dir |-> d, next |-> 0, got |-> {}, on |-> TRUE]]
           /\ last'.call \notin {"list", "remove", "rename"}
           /\ count' \in 0..MaxRequests
<1>1. /\ IInv /\ MountInv(m) /\ known[m] \subseteq Numbers
      /\ DOMAIN req = Mounts
      /\ req \in [Mounts -> UNION {RequestsOf(k) : k \in SUBSET Numbers}]
  BY DEF FuseInv, MountInv
<1>2. count' \in 0..MaxRequests
  BY DEF FuseInv, Request
<1>3. req[m] = NoRequest /\ NoRequest \in RequestsOf(known[m])
  BY DEF Request, Idle, RequestsOf
<1> DEFINE Rest == /\ UNCHANGED <<known, listing>>
                   /\ last'.call \notin {"list", "remove", "rename"}
           Kept == /\ req'[m] \in RequestsOf(known[m])
                   /\ req' = [req EXCEPT ![m] = req'[m]]
<1>4. ASSUME NEW res, NEW second, Continue(m, res, second),
             res = "Ok" => second \in RequestsOf(known[m])
      PROVE  Kept
  BY <1>1, <1>3, <1>4 DEF Continue
<1>5. ASSUME UNCHANGED req
      PROVE  Kept
  BY <1>1, <1>3, <1>5
<1> HIDE DEF Kept
<1>6. ASSUME NEW i \in Inodes
      PROVE  /\ [op |-> "get_attr", ino |-> i, entry |-> TRUE] \in RequestsOf(known[m])
             /\ [op |-> "remove", ino |-> i] \in RequestsOf(known[m])
             /\ \A d, e \in known[m], name \in Names :
                  [op |-> "rename", ino |-> i, parent |-> d, newparent |-> e, newname |-> name]
                    \in RequestsOf(known[m])
  BY DEF RequestsOf
<1>7. ASSUME NEW d \in known[m], NEW name \in Names, NEW res \in Result,
             \/ lookup(m, d, name, res)
             \/ mkdir(m, d, name, res)
             \/ \E excl \in BOOLEAN : create(m, d, name, excl, res)
      PROVE  [Next]_vars /\ Kept /\ Rest
  <2>1. \/ Lookup(d, name, res)
        \/ CreateDir(d, name, res)
        \/ \E excl \in BOOLEAN : CreateFile(d, name, excl, res)
    BY <1>7 DEF lookup, mkdir, create
  <2>2. Entry(m, d, name, res)
    BY <1>7 DEF lookup, mkdir, create
  <2>3. d \in Numbers
    BY <1>1
  <2>4. [Next]_vars
    BY <2>1, <2>3 DEF Next
  <2>5. IInv'
    BY <1>1, <2>4, NextInv
  <2>6. res = "Ok" => InoAt(d, name) \in Inodes
    BY <1>1, <2>1, <2>5, NumberReturned
  <2>7. Kept
    BY <1>4, <1>6, <2>2, <2>6 DEF Entry
  <2>8. Rest
    BY <2>2, FailureIsOther DEF Entry
  <2> QED BY <2>4, <2>7, <2>8
<1>8. ASSUME NEW d \in known[m], NEW name \in Names, NEW res \in Result, NEW second,
             FindThen(m, d, name, second, res),
             InoAt(d, name) \in Inodes => second \in RequestsOf(known[m])
      PROVE  [Next]_vars /\ Kept /\ Rest
  <2>1. Lookup(d, name, res) /\ d \in Numbers
    BY <1>1, <1>8 DEF FindThen
  <2>2. [Next]_vars
    BY <2>1 DEF Next
  <2>3. IInv'
    BY <1>1, <2>2, NextInv
  <2>4. res = "Ok" => second \in RequestsOf(known[m])
    BY <1>1, <1>8, <2>1, <2>3, NumberReturned
  <2>5. Kept
    BY <1>4, <1>8, <2>4 DEF FindThen
  <2>6. Rest
    BY <1>8, FailureIsOther DEF FindThen
  <2> QED BY <2>2, <2>5, <2>6
<1>9. ASSUME NEW d \in known[m], NEW name \in Names, NEW res \in Result,
             \/ unlink(m, d, name, res)
             \/ \E newparent \in known[m], newname \in Names :
                  rename(m, d, name, newparent, newname, res)
      PROVE  [Next]_vars /\ Kept /\ Rest
  <2>1. CASE unlink(m, d, name, res)
    BY <1>6, <1>8, <2>1 DEF unlink
  <2>2. ASSUME NEW e \in known[m], NEW n \in Names, rename(m, d, name, e, n, res)
        PROVE  [Next]_vars /\ Kept /\ Rest
    BY <1>6, <1>8, <2>2 DEF rename
  <2> QED BY <1>9, <2>1, <2>2
<1>10. ASSUME NEW i \in known[m], NEW res \in Result,
              \/ getattr(m, i, res)
              \/ ReadOrWrite(m, i, res)
       PROVE  [Next]_vars /\ Kept /\ Rest
  <2>1. i \in Numbers /\ (GetAttr(i, res) \/ OpenFile(i, res))
    BY <1>1, <1>10 DEF getattr, ReadOrWrite
  <2>2. [Next]_vars
    BY <2>1 DEF Next
  <2>3. Rest /\ UNCHANGED req
    BY <1>10, FailureIsOther DEF getattr, ReadOrWrite
  <2> QED BY <1>5, <2>2, <2>3
<1>11. ASSUME NEW i \in known[m], NEW res \in Result, NEW opens \in BOOLEAN,
              setattr(m, i, opens, res)
       PROVE  [Next]_vars /\ Kept /\ Rest
  <2>1. i \in Numbers /\ (GetAttr(i, res) \/ OpenFile(i, res))
    BY <1>1, <1>11 DEF setattr
  <2>2. [Next]_vars
    BY <2>1 DEF Next
  <2>3. [op |-> "get_attr", ino |-> i, entry |-> FALSE] \in RequestsOf(known[m])
    BY DEF RequestsOf
  <2>4. Kept
    BY <1>4, <1>11, <2>3 DEF setattr
  <2>5. Rest
    BY <1>11, FailureIsOther DEF setattr
  <2> QED BY <2>2, <2>4, <2>5
<1>12. ASSUME NEW res \in Result, statfs(m, res)
       PROVE  [Next]_vars /\ Kept /\ Rest
  <2>1. [Next]_vars
    BY <1>12 DEF statfs, Next
  <2>2. Rest /\ UNCHANGED req
    BY <1>12, FailureIsOther DEF statfs
  <2> QED BY <1>5, <2>1, <2>2
<1>13. ASSUME NEW d \in known[m], opendir(m, d)
       PROVE  /\ [Next]_vars /\ Kept
              /\ UNCHANGED known
              /\ listing' = [listing EXCEPT ![m] =
                               [dir |-> d, next |-> 0, got |-> {}, on |-> TRUE]]
              /\ last'.call \notin {"list", "remove", "rename"}
  BY <1>5, <1>13 DEF opendir, NoCall
<1> QED BY <1>2, <1>7, <1>9, <1>10, <1>11, <1>12, <1>13 DEF Request, Kept

\* What a mount does when it makes the second call of a request.
LEMMA AnswersRequest ==
    ASSUME FuseInv, NEW m \in Mounts, Answer(m)
    PROVE  /\ [Next]_vars
           /\ req' = [req EXCEPT ![m] = NoRequest]
           /\ UNCHANGED <<listing, count>>
           /\ \E new \in SUBSET Numbers :
                known' = [known EXCEPT ![m] = known[m] \cup new]
           /\ last'.call # "list"
           /\ \/ last'.call \notin {"remove", "rename"}
              \/ \E res \in Result, i \in Numbers :
                   /\ Remove(i, res)
                   /\ last' = [call |-> "remove", ino |-> i, out |-> Outcome(res), res |-> res]
              \/ \E res \in Result, i, d \in Numbers, name \in Names :
                   /\ Rename(i, d, name, res)
                   /\ last' = [call |-> "rename", ino |-> i, d |-> d, name |-> name,
                               out |-> Outcome(res), res |-> res]
<1>1. req[m] \in RequestsOf(known[m]) /\ known[m] \subseteq Numbers
  BY DEF FuseInv, MountInv
<1>2. /\ known \in [Mounts -> SUBSET Numbers]
      /\ Inodes \subseteq Numbers
  BY DEF FuseInv, Numbers
<1>3. PICK res \in Result : FinishAttr(m, res) \/ FinishUnlink(m, res) \/ FinishRename(m, res)
  BY DEF Answer
<1>4. CASE FinishAttr(m, res)
  <2>1. req[m].op = "get_attr" /\ req[m].ino \in Numbers
    BY <1>1, <1>2, <1>4 DEF FinishAttr, RequestsOf, NoRequest
  <2>2. [Next]_vars
    BY <1>4, <2>1 DEF FinishAttr, Next
  <2>3. \E new \in SUBSET Numbers : known' = [known EXCEPT ![m] = known[m] \cup new]
    <3>1. CASE req[m].entry /\ res = "Ok"
      <4>1. known' = [known EXCEPT ![m] = known[m] \cup {req[m].ino}]
        BY <1>2, <1>4, <3>1 DEF FinishAttr
      <4> QED BY <2>1, <4>1
    <3>2. CASE ~(req[m].entry /\ res = "Ok")
      <4>1. known' = [known EXCEPT ![m] = known[m] \cup {}]
        BY <1>2, <1>4, <3>2 DEF FinishAttr
      <4> QED BY <4>1
    <3> QED BY <3>1, <3>2
  <2>4. last'.call \notin {"list", "remove", "rename"}
    BY <1>4, FailureIsOther DEF FinishAttr
  <2> QED BY <1>4, <2>2, <2>3, <2>4 DEF FinishAttr, Reply
<1>5. ASSUME UNCHANGED known
      PROVE  \E new \in SUBSET Numbers : known' = [known EXCEPT ![m] = known[m] \cup new]
  <2>1. known' = [known EXCEPT ![m] = known[m] \cup {}]
    BY <1>2, <1>5
  <2> QED BY <2>1
<1>6. CASE FinishUnlink(m, res)
  <2>1. req[m].op = "remove" /\ req[m].ino \in Numbers
    BY <1>1, <1>2, <1>6 DEF FinishUnlink, RequestsOf, NoRequest
  <2>2. [Next]_vars
    BY <1>6, <2>1 DEF FinishUnlink, Next
  <2>3. /\ Remove(req[m].ino, res)
        /\ last' = [call |-> "remove", ino |-> req[m].ino, out |-> Outcome(res), res |-> res]
    BY <1>6 DEF FinishUnlink
  <2>4. last'.call # "list"
    BY <2>3
  <2> QED BY <1>5, <1>6, <2>1, <2>2, <2>3, <2>4 DEF FinishUnlink, Reply
<1>7. CASE FinishRename(m, res)
  <2>1. /\ req[m].op = "rename" /\ req[m].ino \in Numbers
        /\ req[m].newparent \in Numbers /\ req[m].newname \in Names
    BY <1>1, <1>2, <1>7 DEF FinishRename, RequestsOf, NoRequest
  <2>2. [Next]_vars
    BY <1>7, <2>1 DEF FinishRename, Next
  <2>3. /\ Rename(req[m].ino, req[m].newparent, req[m].newname, res)
        /\ last' = [call |-> "rename", ino |-> req[m].ino, d |-> req[m].newparent,
                    name |-> req[m].newname, out |-> Outcome(res), res |-> res]
    BY <1>7 DEF FinishRename
  <2>4. last'.call # "list"
    BY <2>3
  <2> QED BY <1>5, <1>7, <2>1, <2>2, <2>3, <2>4 DEF FinishRename, Reply
<1> QED BY <1>3, <1>4, <1>6, <1>7

-----------------------------------------------------------------------------
(* Listings.                                                               *)

\* Every entry of read_dir is ".", ".." or a name in the directory, and every
\* name in the directory is an entry: as many as there are, and none twice.
LEMMA EntriesAreNames ==
    ASSUME IInv, NEW d \in DOMAIN inode_map, NEW entries \in Entries(d)
    PROVE  /\ entries \in Seq(Names \cup {".", ".."})
           /\ Len(entries) >= 2
           /\ NamesIn(tree, inode_map[d]) \cup {".", ".."} \subseteq
                {entries[k] : k \in 1..Len(entries)}
<1> DEFINE names == NamesIn(tree, inode_map[d])
           n == Cardinality(names)
<1>1. names \subseteq Names
  <2>1. ASSUME NEW q \in DOMAIN tree, q # <<>>
        PROVE  q[Len(q)] \in Names
    <3>1. q \in Seq(Names) /\ Len(q) # 0
      BY <2>1, PathIsSeq, EmptySeq DEF IInv, TreeInv
    <3> QED BY <3>1
  <2> QED BY <2>1 DEF NamesIn
<1>2. IsFiniteSet(names) /\ n \in Nat
  BY <1>1, FS_Subset, FS_CardinalityType
<1>3. PICK f \in [1..n -> names] :
        /\ entries = <<".", "..">> \o f
        /\ \A j, k \in 1..n : f[j] = f[k] => j = k
  BY DEF Entries
<1> HIDE DEF names, n
<1>4. f \in Surjection(1..n, names)
  <2>1. f \in Injection(1..n, names)
    BY <1>3 DEF Injection, IsInjective
  <2>2. Cardinality(1..n) = Cardinality(names)
    <3>1. Cardinality(1..n) = n
      BY <1>2, IntervalSize
    <3> QED BY <3>1 DEF n
  <2> QED BY <1>2, <2>1, <2>2, FS_Injection
<1>5. \A x \in names : \E k \in 1..n : f[k] = x
  BY <1>4 DEF Surjection
<1>6. f \in Seq(Names \cup {".", ".."}) /\ Len(f) = n
  <2>1. f \in [1..n -> Names \cup {".", ".."}]
    BY <1>1, <1>3
  <2> QED BY <1>2, <2>1
<1>7. <<".", "..">> \in Seq(Names \cup {".", ".."}) /\ Len(<<".", "..">>) = 2
  OBVIOUS
<1>8. /\ entries \in Seq(Names \cup {".", ".."})
      /\ Len(entries) = n + 2
      /\ entries[1] = "." /\ entries[2] = ".."
      /\ \A k \in 1..n : entries[k + 2] = f[k]
  <2> DEFINE dots == <<".", "..">>
  <2>1. dots[1] = "." /\ dots[2] = ".."
    OBVIOUS
  <2> HIDE DEF dots
  <2>2. dots \in Seq(Names \cup {".", ".."}) /\ Len(dots) = 2 /\ entries = dots \o f
    BY <1>3, <1>7 DEF dots
  <2> QED BY <1>6, <2>1, <2>2, PairBefore, SMTT(30)
<1>9. ASSUME NEW x \in names
      PROVE  x \in {entries[k] : k \in 1..Len(entries)}
  <2>1. PICK k \in 1..n : f[k] = x
    BY <1>5
  <2>2. k + 2 \in 1..Len(entries) /\ entries[k + 2] = x
    BY <1>2, <1>8, <2>1
  <2> QED BY <2>2
<1>10. 1 \in 1..Len(entries) /\ 2 \in 1..Len(entries) /\ Len(entries) >= 2
  BY <1>2, <1>8
<1>11. {".", ".."} \subseteq {entries[k] : k \in 1..Len(entries)}
  BY <1>8, <1>10
<1> QED BY <1>8, <1>9, <1>10, <1>11 DEF names

\* A page of a listing consists of entries, and the first has them all.
LEMMA PageProperties ==
    ASSUME NEW S, NEW entries \in Seq(S), NEW offset \in Nat
    PROVE  /\ Skipped(entries, offset) \in Seq(S)
           /\ offset = 0 => Skipped(entries, offset) = entries
<1>1. Skipped(entries, offset) \in Seq(S)
  BY DEF Skipped
<1>2. ASSUME offset = 0 PROVE Skipped(entries, offset) = entries
  <2>1. SubSeq(entries, 1, Len(entries)) \in Seq(S)
    OBVIOUS
  <2>2. /\ Len(SubSeq(entries, 1, Len(entries))) = Len(entries)
        /\ \A k \in 1..Len(entries) : SubSeq(entries, 1, Len(entries))[k] = entries[k]
    OBVIOUS
  <2>3. SubSeq(entries, 1, Len(entries)) = entries
    BY <2>1, <2>2, SeqEqual
  <2> QED BY <1>2, <2>3 DEF Skipped
<1> QED BY <1>1, <1>2

\* What was in the directory all the while is in it now.
LEMMA StayShrinks ==
    ASSUME Stay, NEW m \in Mounts, listing'[m].on, listing[m].on
    PROVE  /\ stay'[m] \subseteq stay[m]
           /\ stay'[m] \subseteq NamesIn(tree', inode_map'[listing'[m].dir])
<1> DEFINE names == NamesIn(tree', inode_map'[listing'[m].dir])
           now == IF MapExact' /\ listing'[m].dir \in DOMAIN inode_map' THEN names ELSE {}
<1>1. stay'[m] = stay[m] \cap now
  BY DEF Stay
<1>2. now \subseteq names
  OBVIOUS
<1> QED BY <1>1, <1>2

LEMMA OutcomeNotOk ==
    ASSUME NEW res \in ErrorKind
    PROVE  Outcome(res) # "Ok"
BY DEF ErrorKind, Outcome, io_to_errno, KindOf, CodeOf

\* What a mount does when it asks for a part of a listing.
LEMMA ReadsPage ==
    ASSUME FuseInv, NEW m \in Mounts, GoOn(m), Stay
    PROVE  /\ [Next]_vars
           /\ UNCHANGED <<req, known, count>>
           /\ listing' = [listing EXCEPT ![m] = listing'[m]]
           /\ listing'[m] \in ListingsOf(known[m])
           /\ ListInv(m)'
           /\ ListingStep
<1>1. PICK res \in Result : readdir(m, res)
  BY DEF GoOn
<1> DEFINE l == listing[m]
           Page(entries) ==
             LET page == Skipped(entries, l.next) IN
             \/ /\ Len(page) > DirBuffer
                /\ ListEnds(m)
                /\ last' = [call |-> "list", m |-> m, out |-> "EIO"]
             \/ /\ page = <<>>
                /\ ListEnds(m)
                /\ last' = [call |-> "list", m |-> m, out |-> "Ok", got |-> l.got]
             \/ /\ page # <<>> /\ Len(page) <= DirBuffer
                /\ listing' = [listing EXCEPT ![m].got = @ \cup {page[k] : k \in DOMAIN page},
                                              ![m].next = OffsetAfter(Len(entries) - 1)]
                /\ last' = NoCall
<1>2. res = "Ok" => \E entries \in Entries(l.dir) : Page(entries)
  BY <1>1 DEF readdir
<1>3. l = listing[m]
  OBVIOUS
<1> HIDE DEF l
<1>4. /\ l \in ListingsOf(known[m]) /\ listing \in [Mounts -> ListingsOf(Numbers)]
      /\ ROOT_INODE \in known[m] /\ known[m] \subseteq Numbers
      /\ l.on /\ l.next \in Nat /\ l.dir \in Numbers /\ l.dir \in known[m]
      /\ l.got \subseteq Names \cup {".", ".."}
      /\ l.next # 0 => stay[m] \cup {".", ".."} \subseteq l.got
      /\ IInv
  BY <1>1, <1>3 DEF FuseInv, MountInv, ListInv, ListingsOf, readdir
<1>5. ReadDir(l.dir, res) /\ UNCHANGED <<req, known, count>>
  BY <1>1, <1>3 DEF readdir
<1>6. [Next]_vars /\ UNCHANGED vars
  BY <1>4, <1>5 DEF ReadDir, Refused, Err, Next
<1>7. ASSUME ListEnds(m)
      PROVE  /\ listing' = [listing EXCEPT ![m] = listing'[m]]
             /\ listing'[m] \in ListingsOf(known[m])
             /\ ListInv(m)'
  <2>1. listing' = [listing EXCEPT ![m] = NoListing] /\ listing'[m] = NoListing
    BY <1>4, <1>7 DEF ListEnds
  <2>2. NoListing \in ListingsOf(known[m]) /\ ~NoListing.on
    BY <1>4 DEF NoListing, ListingsOf
  <2> QED BY <2>1, <2>2 DEF ListInv
<1>8. CASE res # "Ok"
  <2>1. ListEnds(m) /\ last' = [call |-> "list", m |-> m, out |-> Outcome(res)]
    BY <1>1, <1>8 DEF readdir
  <2>2. Outcome(res) # "Ok"
    BY <1>8, OutcomeNotOk DEF Result
  <2> QED BY <1>5, <1>6, <1>7, <2>1, <2>2 DEF ListingStep
<1>9. CASE res = "Ok"
  <2>1. l.dir \in DOMAIN inode_map
    BY <1>5, <1>9, ErrorsAreErrors DEF ReadDir, Refused, Err, Reaches, InodeError
  <2>2. PICK entries \in Entries(l.dir) : Page(entries)
    BY <1>9, <1>2
  <2>3. PICK page : page = Skipped(entries, l.next)
    OBVIOUS
  <2>4. /\ entries \in Seq(Names \cup {".", ".."})
        /\ Len(entries) >= 2
        /\ NamesIn(tree, inode_map[l.dir]) \cup {".", ".."} \subseteq
             {entries[k] : k \in 1..Len(entries)}
    BY <1>4, <2>1, EntriesAreNames
  <2>5. /\ page \in Seq(Names \cup {".", ".."})
        /\ {page[k] : k \in DOMAIN page} \subseteq Names \cup {".", ".."}
        /\ l.next = 0 => page = entries
    <3>1. page \in Seq(Names \cup {".", ".."}) /\ (l.next = 0 => page = entries)
      BY <1>4, <2>3, <2>4, PageProperties
    <3>2. DOMAIN page = 1..Len(page) /\ \A k \in 1..Len(page) : page[k] \in Names \cup {".", ".."}
      BY <3>1
    <3> QED BY <3>1, <3>2
  <2>6. Len(page) \in Nat
    BY <2>5
  <2>7. CASE Len(page) > DirBuffer /\ page # <<>>
    <3>1. ListEnds(m) /\ last' = [call |-> "list", m |-> m, out |-> "EIO"]
      BY <2>2, <2>3, <2>6, <2>7
    <3> QED BY <1>5, <1>6, <1>7, <3>1 DEF ListingStep
  <2>8. CASE page = <<>>
    <3>1. Len(page) = 0
      BY <2>8, EmptySeq
    <3>2. l.next # 0
      BY <2>4, <2>5, <3>1
    <3>3. ListEnds(m) /\ last' = [call |-> "list", m |-> m, out |-> "Ok", got |-> l.got]
      BY <2>2, <2>3, <2>6, <2>8, <3>1
    <3> QED BY <1>4, <1>5, <1>6, <1>7, <3>2, <3>3 DEF ListingStep
  <2>9. CASE page # <<>> /\ Len(page) <= DirBuffer
    <3> DEFINE shown == {page[k] : k \in DOMAIN page}
    <3>1. /\ listing' = [listing EXCEPT ![m].got = @ \cup shown,
                                        ![m].next = OffsetAfter(Len(entries) - 1)]
          /\ last' = NoCall
      BY <2>2, <2>3, <2>6, <2>9
    <3> HIDE DEF shown
    <3>2. Len(entries) \in Nat /\ OffsetAfter(Len(entries) - 1) = Len(entries)
      BY <2>4 DEF OffsetAfter
    <3>3. PICK l2 : l2 = [l EXCEPT !.got = l.got \cup shown, !.next = Len(entries)]
      OBVIOUS
    <3>4. listing' = [listing EXCEPT ![m] = l2] /\ listing'[m] = l2
      <4>1. listing' = [listing EXCEPT ![m] = [l EXCEPT !.got = l.got \cup shown,
                                                        !.next = Len(entries)]]
        BY <1>3, <1>4, <3>1, <3>2
      <4> QED BY <1>4, <3>3, <4>1
    <3>5. l.got \cup shown \in SUBSET (Names \cup {".", ".."})
      BY <1>4, <2>5 DEF shown
    <3>6. /\ l2 \in ListingsOf(known[m])
          /\ l2.on /\ l2.dir = l.dir /\ l2.got = l.got \cup shown
      BY <1>4, <3>2, <3>3, <3>5 DEF ListingsOf
    <3>7. /\ stay'[m] \subseteq stay[m]
          /\ stay'[m] \subseteq NamesIn(tree, inode_map[l.dir])
      <4>1. listing'[m].on /\ listing[m].on /\ listing'[m].dir = l.dir
        BY <1>3, <1>4, <3>4, <3>6
      <4>2. tree' = tree /\ inode_map' = inode_map
        BY <1>6 DEF vars
      <4> QED BY <4>1, <4>2, StayShrinks
    <3>8. stay'[m] \cup {".", ".."} \subseteq l.got \cup shown
      <4>1. CASE l.next # 0
        BY <1>4, <3>7, <4>1
      <4>2. CASE l.next = 0
        <5>1. shown = {entries[k] : k \in 1..Len(entries)}
          BY <2>4, <2>5, <4>2 DEF shown
        <5> QED BY <2>4, <3>7, <5>1
      <4> QED BY <4>1, <4>2
    <3>9. ListInv(m)'
      BY <3>4, <3>8, <3>6 DEF ListInv
    <3>10. ListingStep
      BY <3>1 DEF ListingStep, NoCall
    <3>11. listing' = [listing EXCEPT ![m] = listing'[m]] /\ listing'[m] \in ListingsOf(known[m])
      BY <3>4, <3>6
    <3> QED BY <1>5, <1>6, <3>9, <3>10, <3>11
  <2>10. Len(page) > DirBuffer \/ Len(page) <= DirBuffer
    BY <2>6
  <2> QED BY <2>7, <2>8, <2>9, <2>10
<1> QED BY <1>8, <1>9, <1>1

-----------------------------------------------------------------------------
(* The invariant.                                                          *)

\* Mounts other than m are left alone, and m may have been given numbers.
LEMMA MountsKept ==
    ASSUME FuseInv, NEW m \in Mounts, NEW new \in SUBSET Numbers,
           known' = [known EXCEPT ![m] = known[m] \cup new],
           req' = [req EXCEPT ![m] = req'[m]],
           req'[m] \in RequestsOf(known'[m]),
           listing' = [listing EXCEPT ![m] = listing'[m]],
           listing'[m] \in ListingsOf(known'[m])
    PROVE  /\ known' \in [Mounts -> SUBSET Numbers]
           /\ req' \in [Mounts -> UNION {RequestsOf(k) : k \in SUBSET Numbers}]
           /\ listing' \in [Mounts -> ListingsOf(Numbers)]
           /\ \A n \in Mounts : MountInv(n)'
           /\ \A n \in Mounts \ {m} : listing'[n] = listing[n]
<1>1. /\ known \in [Mounts -> SUBSET Numbers]
      /\ req \in [Mounts -> UNION {RequestsOf(k) : k \in SUBSET Numbers}]
      /\ listing \in [Mounts -> ListingsOf(Numbers)]
      /\ \A n \in Mounts : MountInv(n)
  BY DEF FuseInv
<1>2. /\ known' \in [Mounts -> SUBSET Numbers]
      /\ known'[m] = known[m] \cup new
      /\ \A n \in Mounts \ {m} : known'[n] = known[n]
  BY <1>1
<1>3. req' \in [Mounts -> UNION {RequestsOf(k) : k \in SUBSET Numbers}]
  <2>1. req'[m] \in UNION {RequestsOf(k) : k \in SUBSET Numbers}
    BY <1>2
  <2> QED BY <1>1, <2>1
<1>4. listing'[m] \in ListingsOf(Numbers)
  <2>1. known'[m] \subseteq Numbers
    BY <1>2
  <2> QED BY <2>1 DEF ListingsOf
<1>5. listing' \in [Mounts -> ListingsOf(Numbers)]
  BY <1>1, <1>4
<1>6. \A n \in Mounts \ {m} : req'[n] = req[n] /\ listing'[n] = listing[n]
  BY <1>1
<1>7. ASSUME NEW n \in Mounts \ {m} PROVE MountInv(n)'
  BY <1>1, <1>2, <1>6 DEF MountInv
<1>8. MountInv(m)'
  BY <1>1, <1>2 DEF MountInv
<1> QED BY <1>2, <1>3, <1>5, <1>6, <1>7, <1>8

\* A listing on which nothing was done misses nothing.
LEMMA ListingKept ==
    ASSUME FuseInv, Stay, NEW n \in Mounts,
           listing'[n] = listing[n] \/ listing'[n].next = 0
    PROVE  ListInv(n)'
<1> SUFFICES ASSUME listing'[n].on, listing'[n].next # 0
             PROVE  stay'[n] \cup {".", ".."} \subseteq listing'[n].got
  BY DEF ListInv
<1>1. listing'[n] = listing[n] /\ listing[n].on /\ listing[n].next # 0
  OBVIOUS
<1>2. stay[n] \cup {".", ".."} \subseteq listing[n].got
  BY <1>1 DEF FuseInv, ListInv
<1>3. stay'[n] \subseteq stay[n]
  BY <1>1, StayShrinks
<1> QED BY <1>1, <1>2, <1>3

LEMMA FuseNextInv == FuseInv /\ [FuseNext]_allVars => FuseInv' /\ [ListingStep]_allVars
<1> SUFFICES ASSUME FuseInv, [FuseNext]_allVars
             PROVE  FuseInv' /\ [ListingStep]_allVars
  OBVIOUS
<1>1. CASE UNCHANGED allVars
  BY <1>1 DEF allVars, fuseVars, vars, FuseInv, IInv, MountInv, ListInv
<1>2. CASE FuseNext
  <2>1. PICK m \in Mounts : Request(m) \/ Answer(m) \/ GoOn(m)
    BY <1>2 DEF FuseNext
  <2>2. Stay
    BY <1>2 DEF FuseNext
  <2>3. /\ IInv /\ known \in [Mounts -> SUBSET Numbers] /\ listing \in [Mounts -> ListingsOf(Numbers)]
        /\ req \in [Mounts -> UNION {RequestsOf(k) : k \in SUBSET Numbers}]
        /\ count \in 0..MaxRequests
        /\ MountInv(m)
    BY DEF FuseInv
  <2>4. ASSUME [Next]_vars,
               NEW new \in SUBSET Numbers,
               known' = [known EXCEPT ![m] = known[m] \cup new],
               req' = [req EXCEPT ![m] = req'[m]],
               req'[m] \in RequestsOf(known'[m]),
               listing' = [listing EXCEPT ![m] = listing'[m]],
               listing'[m] \in ListingsOf(known'[m]),
               count' \in 0..MaxRequests,
               ListInv(m)'
        PROVE  FuseInv'
    <3>1. IInv'
      BY <2>3, <2>4, NextInv
    <3>2. /\ known' \in [Mounts -> SUBSET Numbers]
          /\ req' \in [Mounts -> UNION {RequestsOf(k) : k \in SUBSET Numbers}]
          /\ listing' \in [Mounts -> ListingsOf(Numbers)]
          /\ \A n \in Mounts : MountInv(n)'
          /\ \A n \in Mounts \ {m} : listing'[n] = listing[n]
      BY <2>4, MountsKept
    <3>3. ASSUME NEW n \in Mounts PROVE ListInv(n)'
      BY <2>2, <2>4, <3>2, ListingKept
    <3> QED BY <2>4, <3>1, <3>2, <3>3 DEF FuseInv
  <2>5. ASSUME UNCHANGED known
        PROVE  {} \in SUBSET Numbers /\ known' = [known EXCEPT ![m] = known[m] \cup {}]
    BY <2>3, <2>5
  <2>6. CASE Request(m)
    <3>1. /\ [Next]_vars
          /\ UNCHANGED known
          /\ req'[m] \in RequestsOf(known[m])
          /\ req' = [req EXCEPT ![m] = req'[m]]
          /\ \/ UNCHANGED listing
             \/ \E d \in known[m] :
                  listing' = [listing EXCEPT ![m] =
                                [dir |-> d, next |-> 0, got |-> {}, on |-> TRUE]]
          /\ last'.call # "list"
          /\ count' \in 0..MaxRequests
      BY <2>6, TakesRequest
    <3>2. /\ listing' = [listing EXCEPT ![m] = listing'[m]]
          /\ listing'[m] \in ListingsOf(known[m])
          /\ listing'[m] = listing[m] \/ listing'[m].next = 0
      <4>1. CASE UNCHANGED listing
        BY <2>3, <4>1 DEF MountInv
      <4>2. ASSUME NEW d \in known[m],
                   listing' = [listing EXCEPT ![m] =
                                 [dir |-> d, next |-> 0, got |-> {}, on |-> TRUE]]
            PROVE  /\ listing' = [listing EXCEPT ![m] = listing'[m]]
                   /\ listing'[m] \in ListingsOf(known[m])
                   /\ listing'[m].next = 0
        <5>1. PICK l : l = [dir |-> d, next |-> 0, got |-> {}, on |-> TRUE]
          OBVIOUS
        <5>2. l \in ListingsOf(known[m]) /\ l.next = 0
          BY <5>1 DEF ListingsOf
        <5>3. listing' = [listing EXCEPT ![m] = l] /\ listing'[m] = l
          BY <2>3, <4>2, <5>1
        <5> QED BY <5>2, <5>3
      <4> QED BY <3>1, <4>1, <4>2
    <3>3. ListInv(m)'
      BY <2>2, <3>2, ListingKept
    <3>4. FuseInv'
      BY <2>4, <2>5, <3>1, <3>2, <3>3
    <3> QED BY <3>1, <3>4 DEF ListingStep
  <2>7. CASE Answer(m)
    <3>1. /\ [Next]_vars
          /\ req' = [req EXCEPT ![m] = NoRequest]
          /\ UNCHANGED <<listing, count>>
          /\ last'.call # "list"
      BY <2>7, AnswersRequest
    <3>2. PICK new \in SUBSET Numbers : known' = [known EXCEPT ![m] = known[m] \cup new]
      BY <2>7, AnswersRequest
    <3>3. known'[m] = known[m] \cup new
      BY <2>3, <3>2
    <3>4. req' = [req EXCEPT ![m] = req'[m]] /\ req'[m] \in RequestsOf(known'[m])
      <4>1. req'[m] = NoRequest
        BY <2>3, <3>1
      <4> QED BY <3>1, <4>1 DEF RequestsOf
    <3>5. listing' = [listing EXCEPT ![m] = listing'[m]] /\ listing'[m] \in ListingsOf(known'[m])
      <4>1. listing[m] \in ListingsOf(known'[m])
        BY <2>3, <3>3 DEF MountInv, ListingsOf
      <4> QED BY <2>3, <3>1, <4>1
    <3>6. ListInv(m)' /\ count' \in 0..MaxRequests
      BY <2>2, <2>3, <3>1, ListingKept
    <3>7. FuseInv'
      BY <2>4, <3>1, <3>2, <3>4, <3>5, <3>6
    <3> QED BY <3>1, <3>7 DEF ListingStep
  <2>8. CASE GoOn(m)
    <3>1. /\ [Next]_vars
          /\ UNCHANGED <<req, known, count>>
          /\ listing' = [listing EXCEPT ![m] = listing'[m]]
          /\ listing'[m] \in ListingsOf(known[m])
          /\ ListInv(m)'
          /\ ListingStep
      BY <2>2, <2>8, ReadsPage
    <3>2. req' = [req EXCEPT ![m] = req'[m]] /\ req'[m] \in RequestsOf(known'[m])
      BY <2>3, <3>1 DEF MountInv
    <3>3. FuseInv'
      BY <2>3, <2>4, <2>5, <3>1, <3>2
    <3> QED BY <3>1, <3>3
  <2> QED BY <2>1, <2>6, <2>7, <2>8
<1> QED BY <1>1, <1>2

LEMMA FuseSpecInv == FuseSpec => []FuseInv
<1>1. FuseInv /\ [FuseNext]_allVars => FuseInv'
  BY FuseNextInv
<1> QED BY <1>1, FuseInitInv, PTL DEF FuseSpec

\* Mounts make requests, also the second halves of them, only about numbers
\* that they were given or that a lookup has just returned (fuse.rs:181, 199,
\* 220), and what they do leaves the disk of the server a tree.
THEOREM FuseTypeCorrect == FuseSpec => []FuseTypeOK
<1>1. FuseInv => FuseTypeOK
  <2> SUFFICES ASSUME FuseInv PROVE FuseTypeOK
    OBVIOUS
  <2>1. TypeOK
    BY IInvTypeOK DEF FuseInv
  <2>2. ASSUME NEW m \in Mounts
        PROVE  /\ req[m].op \in {"none", "get_attr", "remove", "rename"}
               /\ req[m] # NoRequest => req[m].ino \in Inodes \cup known[m]
               /\ req[m].op = "rename" => {req[m].parent, req[m].newparent} \subseteq known[m]
    BY DEF FuseInv, MountInv, RequestsOf, NoRequest
  <2>3. ASSUME NEW m \in Mounts
        PROVE  /\ listing[m].dir \in known[m]
               /\ listing[m].got \subseteq Names \cup {".", ".."}
    BY DEF FuseInv, MountInv, ListingsOf
  <2> QED BY <2>1, <2>2, <2>3 DEF FuseInv, FuseTypeOK
<1> QED BY <1>1, FuseSpecInv, PTL

\* A listing that ends well has everything that was in the directory all the
\* while, whatever the order in which the disk gives the entries each time
\* (disk.rs:215) and whatever other mounts do between two replies
\* (fuse.rs:302-313).
THEOREM ListingsComplete == FuseSpec => ListingComplete
<1>1. FuseInv /\ [FuseNext]_allVars => [ListingStep]_allVars
  BY FuseNextInv
<1> QED BY <1>1, FuseSpecInv, PTL DEF FuseSpec, ListingComplete

-----------------------------------------------------------------------------
(* What unlink and rename act on.                                          *)

\* A file's number leads to the path of the file and no other.
LEMMA PathOfFile ==
    ASSUME NEW t, TreeInv(t), NEW p \in DOMAIN t, NEW i, t[p].ino = i
    PROVE  PathOf(t, i) = p
<1>1. \A q \in DOMAIN t : t[q].ino = i => q = p
  BY DEF TreeInv
<1> QED BY <1>1 DEF PathOf

LEMMA RemovesFound ==
    ASSUME IInv, MapAgrees, NEW i \in Numbers, Remove(i, "Ok")
    PROVE  InodesIn(tree) \ InodesIn(tree') =
             {tree[p].ino : p \in {q \in DOMAIN tree : Below(PathOf(tree, i), q)}}
<1>1. i \in DOMAIN inode_map /\ inode_map[i] \in DOMAIN tree /\ tree' = Without(tree, inode_map[i])
  BY ErrorsAreErrors DEF Remove, RemoveRefused, Reaches, Err, InodeError
<1>2. PICK p : p = inode_map[i]
  OBVIOUS
<1>3. TreeInv(tree) /\ p \in Path /\ p \in DOMAIN tree
  BY <1>1, <1>2 DEF IInv, TreeInv
<1>4. PathOf(tree, i) = p
  BY <1>1, <1>2, <1>3, PathOfFile DEF MapAgrees
<1>5. /\ DOMAIN tree' = {q \in DOMAIN tree : ~Below(p, q)}
      /\ \A q \in DOMAIN tree' : tree'[q] = tree[q]
  <2>1. /\ DOMAIN Without(tree, p) = {q \in DOMAIN tree : ~Below(p, q)}
        /\ \A q \in DOMAIN Without(tree, p) : Without(tree, p)[q] = tree[q]
    BY DEF Without
  <2> QED BY <1>1, <1>2, <2>1
<1>6. InodesIn(tree') = {tree[q].ino : q \in {r \in DOMAIN tree : ~Below(p, r)}}
  BY <1>5 DEF InodesIn
<1>7. \A q, r \in DOMAIN tree : tree[q].ino = tree[r].ino => q = r
  BY <1>3 DEF TreeInv
<1>8. InodesIn(tree) \ InodesIn(tree') = {tree[q].ino : q \in {r \in DOMAIN tree : Below(p, r)}}
  BY <1>6, <1>7, ZenonT(30) DEF InodesIn
<1> QED BY <1>4, <1>8

\* A move leaves the directory it moves to where it was.
LEMMA DirectoryStays ==
    ASSUME NEW t, TreeInv(t), NEW old \in Path, NEW new \in Seq(Names), new # <<>>,
           CanMove(t, old, new)
    PROVE  /\ Parent(new) \in DOMAIN Moved(t, old, new)
           /\ Moved(t, old, new)[Parent(new)] = t[Parent(new)]
<1>1. /\ Parent(new) \in Seq(Names) /\ StrictlyBelow(Parent(new), new) /\ Parent(new) # new
      /\ old \in Seq(Names)
  BY ParentProperties, PathIsSeq DEF StrictlyBelow
<1>2. Parent(new) \in DOMAIN t /\ ~StrictlyBelow(old, new)
  BY DEF CanMove, IsDir
<1>3. ~Below(old, Parent(new))
  <2> SUFFICES ASSUME Below(old, Parent(new)) PROVE FALSE
    OBVIOUS
  <2>1. Below(old, new)
    BY <1>1, BelowTransitive DEF StrictlyBelow
  <2>2. Len(Parent(new)) < Len(new)
    BY <1>1, StrictlyBelowLonger
  <2>3. Len(old) <= Len(Parent(new))
    BY DEF Below
  <2>4. Len(old) \in Nat /\ Len(new) \in Nat /\ Len(Parent(new)) \in Nat
    BY <1>1
  <2>5. old # new
    BY <2>2, <2>3, <2>4
  <2> QED BY <1>2, <2>1, <2>5 DEF StrictlyBelow
<1> QED BY <1>1, <1>2, <1>3, MovedTree

LEMMA RenamesFound ==
    ASSUME IInv, IInv', MapAgrees,
           NEW i \in Numbers, NEW d \in Numbers, NEW name \in Names,
           Rename(i, d, name, "Ok")
    PROVE  LET dest == Append(PathOf(tree', d), name) IN
           /\ dest \in DOMAIN tree' /\ tree'[dest].ino = i
           /\ InodesIn(tree) \ InodesIn(tree') \subseteq
                {tree[p].ino : p \in {dest} \cap DOMAIN tree}
<1> DEFINE dest == Child(inode_map, d, name)
           j    == tree[dest].ino
           map  == Remember(inode_map, j, dest)
           t    == Without(tree, dest)
           m    == Forget(map, j)
           replaced == {tree[p].ino : p \in {dest} \cap DOMAIN tree}
<1>0. TreeInv(tree) /\ MapInv(inode_map) /\ TreeInv(tree')
  BY DEF IInv
<1>1. ASSUME NEW u, NEW n, MoveFile(u, n, i, d, name, "Ok")
      PROVE  /\ i \in DOMAIN n /\ d \in DOMAIN n
             /\ CanMove(u, n[i], Child(n, d, name))
             /\ tree' = Moved(u, n[i], Child(n, d, name))
  BY <1>1, ErrorsAreErrors DEF MoveFile, MoveError
<1>2. d \in DOMAIN inode_map /\ inode_map[d] \in DOMAIN tree /\ tree[inode_map[d]].ino = d
  <2>1. d \in DOMAIN inode_map
    BY <1>1 DEF Rename
  <2> QED BY <2>1 DEF MapAgrees
<1>3. /\ inode_map[d] \in DOMAIN tree' /\ tree'[inode_map[d]].ino = d
      /\ dest \in DOMAIN tree' /\ tree'[dest].ino = i
      /\ InodesIn(tree) \ InodesIn(tree') \subseteq replaced
  <2>0. dest \in Seq(Names) /\ dest # <<>> /\ Parent(dest) = inode_map[d]
    BY <1>0, <1>2, ChildProperties
  <2>1. CASE dest \in DOMAIN tree
    <3>1. map[j] = dest
      BY <1>2, <2>1, ReplaceAgrees
    <3>2. MayReplace(map, i, j) /\ MoveFile(t, m, i, d, name, "Ok")
      <4>1. RenameOver(i, d, name, "Ok")
        BY <1>2, <2>1 DEF Rename
      <4>2. ReplaceError(map, i, j) # "Ok"
        BY ErrorsAreErrors DEF ReplaceError, InodeError
      <4> QED BY <3>1, <4>1, <4>2 DEF RenameOver, Err
    <3>3. i # j
      BY <1>1, <3>2 DEF Forget
    <3>4. /\ i \in DOMAIN m /\ d \in DOMAIN m /\ Child(m, d, name) = dest
          /\ TreeInv(t) /\ m[i] \in DOMAIN t /\ t[m[i]].ino = i
          /\ InodesIn(tree) \ InodesIn(t) \subseteq {j}
          /\ dest \notin DOMAIN t
          /\ CanMove(t, m[i], dest)
      BY <1>2, <2>1, <3>2, <3>3, ReplaceMoves
    <3>5. tree' = Moved(t, m[i], dest) /\ m[i] \in Path
      BY <1>1, <3>2, <3>4 DEF TreeInv
    <3>6. inode_map[d] \in DOMAIN t /\ t[inode_map[d]] = tree[inode_map[d]] /\ replaced = {j}
      <4>1. IsDir(t, Parent(dest))
        BY <3>4 DEF CanMove
      <4>2. \A q \in DOMAIN t : t[q] = tree[q]
        BY DEF Without
      <4> QED BY <2>0, <2>1, <4>1, <4>2 DEF IsDir
    <3> HIDE DEF dest, j, map, t, m, replaced
    <3>7. inode_map[d] \in DOMAIN tree' /\ tree'[inode_map[d]] = t[inode_map[d]]
      BY <2>0, <3>4, <3>5, DirectoryStays
    <3>8. /\ dest \in DOMAIN tree' /\ tree'[dest] = t[m[i]]
          /\ InodesIn(t) \ InodesIn(tree') \subseteq {t[q].ino : q \in {dest} \cap DOMAIN t}
      BY <2>0, <3>4, <3>5, MovedTree
    <3> QED BY <1>2, <3>4, <3>6, <3>7, <3>8
  <2>2. CASE dest \notin DOMAIN tree
    <3>1. MoveFile(tree, inode_map, i, d, name, "Ok")
      BY <2>2 DEF Rename
    <3>2. /\ i \in DOMAIN inode_map /\ CanMove(tree, inode_map[i], dest)
          /\ tree' = Moved(tree, inode_map[i], dest)
      BY <1>1, <3>1
    <3>3. inode_map[i] \in Path /\ tree[inode_map[i]].ino = i
      BY <1>0, <3>2 DEF MapInv, MapAgrees
    <3> HIDE DEF dest
    <3>4. inode_map[d] \in DOMAIN tree' /\ tree'[inode_map[d]] = tree[inode_map[d]]
      BY <1>0, <2>0, <3>2, <3>3, DirectoryStays
    <3>5. /\ dest \in DOMAIN tree' /\ tree'[dest] = tree[inode_map[i]]
          /\ InodesIn(tree) \ InodesIn(tree') \subseteq replaced
      BY <1>0, <2>0, <3>2, <3>3, MovedTree
    <3> QED BY <1>2, <3>3, <3>4, <3>5
  <2> QED BY <2>1, <2>2
<1>4. PathOf(tree', d) = inode_map[d]
  BY <1>0, <1>3, PathOfFile
<1>5. Append(PathOf(tree', d), name) = dest
  BY <1>4 DEF Child
<1> HIDE DEF dest
<1> QED BY <1>3, <1>5

LEMMA FuseNextActs == FuseInv /\ [FuseNext]_allVars => [ActsStep]_allVars
<1> SUFFICES ASSUME FuseInv, FuseNext, MapExact,
                    last'.call \in {"remove", "rename"}, last'.out = "Ok"
             PROVE  ActsStep
  BY DEF ActsStep
<1>1. PICK m \in Mounts : Request(m) \/ Answer(m) \/ GoOn(m)
  BY DEF FuseNext
<1>2. IInv /\ MapAgrees /\ IInv'
  BY FuseNextInv DEF FuseInv, MapExact
<1>3. ~Request(m)
  BY TakesRequest
<1>4. ~GoOn(m)
  BY DEF GoOn, readdir, NoCall
<1>5. Answer(m)
  BY <1>1, <1>3, <1>4
<1>6. \A res \in Result : Outcome(res) = "Ok" => res = "Ok"
  BY OutcomeNotOk DEF Result
<1>7. ASSUME NEW res \in Result, NEW i \in Numbers, Remove(i, res),
             last' = [call |-> "remove", ino |-> i, out |-> Outcome(res), res |-> res]
      PROVE  ActsStep
  BY <1>2, <1>6, <1>7, RemovesFound DEF ActsStep
<1>8. ASSUME NEW res \in Result, NEW i \in Numbers, NEW d \in Numbers, NEW name \in Names,
             Rename(i, d, name, res),
             last' = [call |-> "rename", ino |-> i, d |-> d, name |-> name, out |-> Outcome(res), res |-> res]
      PROVE  ActsStep
  <2>1. /\ last'.call = "rename" /\ last'.ino = i /\ last'.d = d /\ last'.name = name
        /\ Rename(i, d, name, "Ok")
    BY <1>6, <1>8
  <2> QED BY <1>2, <2>1, RenamesFound DEF ActsStep
<1> QED BY <1>5, <1>7, <1>8, AnswersRequest

\* While DiskFs finds every file by its number, unlink and rename act on the
\* file that their lookup found (fuse.rs:181, 220), however many mounts there
\* are and whatever they do between the two calls: unlink removes that file and
\* what is below it and nothing else, rename leaves it under its new name and
\* removes nothing but what had that name.
THEOREM ActsOnWhatWasFound == FuseSpec => ActsOnFound
BY FuseSpecInv, FuseNextActs, PTL DEF FuseSpec, ActsOnFound

-----------------------------------------------------------------------------
(* Errors.                                                                 *)

\* The calls of DiskFs, on numbers that mounts were given, of which the answer
\* is an error.
FailedCall ==
    \/ \E res \in Result, d \in Given \cap Numbers, name \in Names :
         /\ \/ Lookup(d, name, res)
            \/ CreateDir(d, name, res)
            \/ \E excl \in BOOLEAN : CreateFile(d, name, excl, res)
         /\ last' = [call |-> "name", d |-> d, name |-> name, out |-> Outcome(res), res |-> res]
    \/ \E res \in Result, i \in Given \cap Numbers :
         \/ /\ GetAttr(i, res)
            /\ last' = [call |-> "get_attr", ino |-> i, out |-> Outcome(res), res |-> res]
         \/ /\ OpenFile(i, res)
            /\ last' = [call |-> "open", ino |-> i, out |-> Outcome(res), res |-> res]
         \/ /\ Remove(i, res)
            /\ last' = [call |-> "remove", ino |-> i, out |-> Outcome(res), res |-> res]
    \/ \E res \in Result, i, d \in Given \cap Numbers, name \in Names :
         /\ Rename(i, d, name, res)
         /\ last' = [call |-> "rename", ino |-> i, d |-> d, name |-> name, out |-> Outcome(res), res |-> res]

LEMMA WhatFailed ==
    ASSUME FuseInv, FuseNext,
           last'.call \in {"name", "get_attr", "open", "remove", "rename"}, last'.out # "Ok"
    PROVE  FailedCall
<1>1. PICK m \in Mounts : Request(m) \/ Answer(m) \/ GoOn(m)
  BY DEF FuseNext
<1>2. ASSUME NEW c, Failure(c) PROVE last' = c
  BY <1>2 DEF Failure, NoCall
<1>3. /\ known[m] \subseteq Given \cap Numbers
      /\ ~Idle(m) => req[m].ino \in Given
  <2>1. known[m] \subseteq Given /\ (~Idle(m) => req[m].ino \in Given)
    BY DEF Given
  <2>2. known[m] \subseteq Numbers
    BY DEF FuseInv, MountInv
  <2> QED BY <2>1, <2>2
<1>4. CASE Request(m)
  <2>1. ASSUME NEW d \in known[m], NEW name \in Names, NEW res \in Result,
               \/ lookup(m, d, name, res)
               \/ mkdir(m, d, name, res)
               \/ \E excl \in BOOLEAN : create(m, d, name, excl, res)
        PROVE  FailedCall
    <3>1. last' = [call |-> "name", d |-> d, name |-> name, out |-> Outcome(res), res |-> res]
      BY <1>2, <2>1 DEF lookup, mkdir, create, Entry
    <3> QED BY <1>3, <2>1, <3>1 DEF lookup, mkdir, create, FailedCall
  <2>2. ASSUME NEW d \in known[m], NEW name \in Names, NEW res \in Result, NEW second,
               FindThen(m, d, name, second, res)
        PROVE  FailedCall
    <3>1. last' = [call |-> "name", d |-> d, name |-> name, out |-> Outcome(res), res |-> res]
      BY <1>2, <2>2 DEF FindThen
    <3> QED BY <1>3, <2>2, <3>1 DEF FindThen, FailedCall
  <2>3. ASSUME NEW d \in known[m], NEW name \in Names, NEW res \in Result,
               \/ unlink(m, d, name, res)
               \/ \E newparent \in known[m], newname \in Names :
                    rename(m, d, name, newparent, newname, res)
        PROVE  FailedCall
    BY <2>2, <2>3 DEF unlink, rename
  <2>4. ASSUME NEW i \in known[m], NEW res \in Result,
               \/ getattr(m, i, res)
               \/ ReadOrWrite(m, i, res)
               \/ \E opens \in BOOLEAN : setattr(m, i, opens, res)
        PROVE  FailedCall
    <3>1. \/ /\ GetAttr(i, res)
             /\ last' = [call |-> "get_attr", ino |-> i, out |-> Outcome(res), res |-> res]
          \/ /\ OpenFile(i, res)
             /\ last' = [call |-> "open", ino |-> i, out |-> Outcome(res), res |-> res]
      <4>1. CASE getattr(m, i, res)
        BY <1>2, <4>1 DEF getattr
      <4>2. CASE ReadOrWrite(m, i, res)
        BY <1>2, <4>2 DEF ReadOrWrite
      <4>3. ASSUME setattr(m, i, TRUE, res)
            PROVE  /\ OpenFile(i, res)
                   /\ last' = [call |-> "open", ino |-> i, out |-> Outcome(res), res |-> res]
        BY <1>2, <4>3 DEF setattr
      <4>4. ASSUME setattr(m, i, FALSE, res)
            PROVE  /\ GetAttr(i, res)
                   /\ last' = [call |-> "get_attr", ino |-> i, out |-> Outcome(res), res |-> res]
        BY <1>2, <4>4 DEF setattr
      <4> QED BY <2>4, <4>1, <4>2, <4>3, <4>4
    <3> QED BY <1>3, <3>1 DEF FailedCall
  <2>5. ASSUME NEW res \in Result, statfs(m, res)
        PROVE  FALSE
    <3>1. last' = [call |-> "stats", out |-> Outcome(res), res |-> res]
      BY <1>2, <2>5 DEF statfs
    <3> QED BY <3>1
  <2>6. ASSUME NEW d \in known[m], opendir(m, d)
        PROVE  FALSE
    BY <2>6 DEF opendir, NoCall
  <2> QED BY <1>4, <2>1, <2>3, <2>4, <2>5, <2>6 DEF Request
<1>5. CASE Answer(m)
  <2>1. req[m] \in RequestsOf(known[m]) /\ Inodes \subseteq Numbers
    BY DEF FuseInv, MountInv, Numbers
  <2>2. PICK res \in Result : FinishAttr(m, res) \/ FinishUnlink(m, res) \/ FinishRename(m, res)
    BY <1>5 DEF Answer
  <2>3. ~Idle(m)
    BY <2>2 DEF FinishAttr, FinishUnlink, FinishRename, Idle, NoRequest
  <2>4. req[m].ino \in Given \cap Numbers
    BY <1>3, <2>1, <2>3 DEF RequestsOf, Idle
  <2>5. CASE FinishAttr(m, res)
    BY <1>2, <2>4, <2>5 DEF FinishAttr, FailedCall
  <2>6. CASE FinishUnlink(m, res)
    BY <2>4, <2>6 DEF FinishUnlink, FailedCall
  <2>7. CASE FinishRename(m, res)
    <3>1. req[m].newparent \in Given \cap Numbers /\ req[m].newname \in Names
      BY <1>3, <2>1, <2>7 DEF RequestsOf, NoRequest, FinishRename
    <3> QED BY <2>4, <2>7, <3>1 DEF FinishRename, FailedCall
  <2> QED BY <2>2, <2>5, <2>6, <2>7
<1>6. ~GoOn(m)
  BY DEF GoOn, readdir, NoCall
<1> QED BY <1>1, <1>4, <1>5, <1>6

\* While the map is exact, the disk has what the map has.
LEMMA ExactMap ==
    ASSUME IInv, MapExact, NEW i \in Given
    PROVE  /\ Exists(i) <=> i \in DOMAIN inode_map
           /\ i \in DOMAIN inode_map =>
                /\ inode_map[i] \in DOMAIN tree /\ tree[inode_map[i]].ino = i
                /\ Reaches(tree, inode_map, i)
                /\ PathOf(tree, i) = inode_map[i]
                /\ IsDirectory(i) <=> tree[inode_map[i]].is_dir
           /\ i \notin DOMAIN inode_map => ~Reaches(tree, inode_map, i) /\ ~IsDirectory(i)
<1>1. i \in InodesIn(tree) => i \in DOMAIN inode_map
  BY DEF MapExact
<1>2. ASSUME i \in DOMAIN inode_map
      PROVE  /\ inode_map[i] \in DOMAIN tree /\ tree[inode_map[i]].ino = i
             /\ i \in InodesIn(tree)
             /\ PathOf(tree, i) = inode_map[i]
  <2>1. inode_map[i] \in DOMAIN tree /\ tree[inode_map[i]].ino = i
    BY <1>2 DEF MapExact, MapAgrees
  <2>2. PathOf(tree, i) = inode_map[i]
    BY <2>1, PathOfFile DEF IInv
  <2> QED BY <2>1, <2>2 DEF InodesIn
<1> QED BY <1>1, <1>2 DEF Exists, IsDirectory, Reaches

\* What is at a name in a directory, and why there is nothing.
LEMMA ExactChild ==
    ASSUME IInv, MapExact, NEW d \in Given, d \in DOMAIN inode_map, NEW name \in Names
    PROVE  LET p == Child(inode_map, d, name) IN
           /\ p = Append(PathOf(tree, d), name)
           /\ p \in DOMAIN tree <=> Holds(d, name)
           /\ PathError(tree, p) = IF IsDirectory(d) THEN "NotFound" ELSE "Other"
           /\ IsDir(tree, Parent(p)) <=> IsDirectory(d)
           /\ p \notin Path => Full(d)
<1>0. TreeInv(tree) /\ MapInv(inode_map)
  BY DEF IInv
<1>1. /\ inode_map[d] \in DOMAIN tree
      /\ PathOf(tree, d) = inode_map[d]
      /\ IsDirectory(d) <=> tree[inode_map[d]].is_dir
  BY ExactMap
<1>2. PICK p : p = Child(inode_map, d, name)
  OBVIOUS
<1>3. p = Append(inode_map[d], name) /\ p \in Seq(Names) /\ p # <<>> /\ Parent(p) = inode_map[d]
  BY <1>0, <1>2, ChildProperties DEF Child
<1>4. IsDir(tree, Parent(p)) <=> IsDirectory(d)
  BY <1>1, <1>3 DEF IsDir
<1>5. StrictlyBelow(Parent(p), p) /\ \A q \in Seq(Names) : StrictlyBelow(q, p) => Below(q, Parent(p))
  BY <1>3, ParentProperties
<1>6. p \in DOMAIN tree => IsDirectory(d)
  <2>1. Parent(p) \in Path
    BY <1>0, <1>1, <1>3 DEF TreeInv
  <2> QED BY <1>0, <1>4, <1>5, <2>1 DEF TreeInv
<1>7. p \in DOMAIN tree <=> Holds(d, name)
  BY <1>1, <1>3, <1>6 DEF Holds
<1>8. PathError(tree, p) = IF IsDirectory(d) THEN "NotFound" ELSE "Other"
  <2>1. CASE ~IsDirectory(d)
    <3>1. inode_map[d] \in DOMAIN tree /\ StrictlyBelow(inode_map[d], p) /\ ~tree[inode_map[d]].is_dir
      BY <1>1, <1>3, <1>5, <2>1
    <3> QED BY <2>1, <3>1 DEF PathError
  <2>2. CASE IsDirectory(d)
    <3>1. ASSUME NEW q \in DOMAIN tree, StrictlyBelow(q, p)
          PROVE  tree[q].is_dir
      <4>1. q \in Path /\ q \in Seq(Names)
        BY <1>0, PathIsSeq DEF TreeInv
      <4>2. Below(q, inode_map[d])
        BY <1>3, <1>5, <3>1, <4>1
      <4>3. CASE q = inode_map[d]
        BY <1>1, <2>2, <4>3
      <4>4. CASE q # inode_map[d]
        BY <1>0, <1>1, <4>1, <4>2, <4>4 DEF TreeInv, StrictlyBelow, IsDir
      <4> QED BY <4>3, <4>4
    <3> QED BY <2>2, <3>1 DEF PathError
  <2> QED BY <2>1, <2>2
<1>9. ASSUME p \notin Path PROVE Full(d)
  <2>1. inode_map[d] \in Seq(Names) /\ Len(inode_map[d]) <= MaxDepth
    BY <1>0, <1>1, PathIsSeq DEF TreeInv
  <2>2. Len(p) = Len(inode_map[d]) + 1
    BY <1>3, <2>1
  <2>3. ~(Len(p) <= MaxDepth)
    BY <1>3, <1>9, PathIsSeq
  <2>4. Len(inode_map[d]) = MaxDepth
    BY <2>1, <2>2, <2>3, DiskAssumption
  <2> QED BY <1>1, <2>4 DEF Full
<1> QED BY <1>1, <1>2, <1>3, <1>4, <1>7, <1>8, <1>9

\* What errno stands for.
LEMMA Errnos ==
    /\ Outcome("NotFound") = "ENOENT" /\ Outcome("AlreadyExists") = "EEXIST"
    /\ Outcome("InvalidInput") = "EINVAL" /\ Outcome("Other") = "EIO"
    /\ Outcome("Unsupported") = "EIO" /\ Outcome("PermissionDenied") = "EIO"
    /\ Outcome("Ok") = "Ok"
BY DEF Outcome, io_to_errno, KindOf, CodeOf

LEMMA InodeErrorTrue ==
    ASSUME IInv, MapExact, NEW i \in Given, ~Reaches(tree, inode_map, i)
    PROVE  InodeError(tree, inode_map, i) = "NotFound" /\ ~Exists(i)
BY ExactMap DEF InodeError

LEMMA NameErrorTrue ==
    ASSUME IInv, MapExact, NEW d \in Given, NEW name \in Names, NEW res \in Result,
           \/ Lookup(d, name, res)
           \/ CreateDir(d, name, res)
           \/ \E excl \in BOOLEAN : CreateFile(d, name, excl, res)
    PROVE  \/ res = "Ok" \/ res = "PermissionDenied"
           \/ res = "NotFound" /\ ~Holds(d, name)
           \/ res = "AlreadyExists" /\ Holds(d, name)
           \/ res = "Other" /\ (~IsDirectory(d) \/ Holds(d, name) \/ Full(d))
<1>1. CASE d \notin DOMAIN inode_map
  <2>1. res = "NotFound"
    BY <1>1 DEF Lookup, CreateDir, CreateFile, ChildError, Refused, Err
  <2>2. ~Holds(d, name)
    BY <1>1, ExactMap DEF Holds
  <2> QED BY <2>1, <2>2
<1>2. CASE d \in DOMAIN inode_map
  <2>1. PICK p : p = Child(inode_map, d, name)
    OBVIOUS
  <2>2. /\ p \in DOMAIN tree <=> Holds(d, name)
        /\ PathError(tree, p) = IF IsDirectory(d) THEN "NotFound" ELSE "Other"
        /\ IsDir(tree, Parent(p)) <=> IsDirectory(d)
        /\ p \notin Path => Full(d)
    BY <1>2, <2>1, ExactChild
  <2>3. CASE Lookup(d, name, res)
    <3>1. CASE p \in DOMAIN tree
      BY <1>2, <2>1, <2>3, <3>1 DEF Lookup, Found, Refused, Err
    <3>2. CASE p \notin DOMAIN tree
      <4>1. res = PathError(tree, p) \/ res = "PermissionDenied"
        BY <1>2, <2>1, <2>3, <3>2 DEF Lookup, Refused, Err, ChildError
      <4> QED BY <2>2, <3>2, <4>1
    <3> QED BY <3>1, <3>2
  <2>4. ASSUME NEW dir \in BOOLEAN, Made(p, dir, res)
        PROVE  res \in {"Ok", "PermissionDenied"} \/ (res = "Other" /\ Full(d))
    BY <2>2, <2>4 DEF Made, Err, Full
  <2>5. ASSUME CreateDir(d, name, res) \/ \E excl \in BOOLEAN : CreateFile(d, name, excl, res)
        PROVE  \/ res = "PermissionDenied"
               \/ \E dir \in BOOLEAN : Made(p, dir, res)
               \/ p \in DOMAIN tree /\ res \in {"AlreadyExists", "Other", "Ok"}
               \/ p \notin DOMAIN tree /\ res = PathError(tree, p)
    <3>1. CASE CreateDir(d, name, res)
      BY <1>2, <2>1, <3>1 DEF CreateDir, Refused, Err
    <3>2. ASSUME NEW excl \in BOOLEAN, CreateFile(d, name, excl, res)
          PROVE  \/ res = "PermissionDenied"
                 \/ \E dir \in BOOLEAN : Made(p, dir, res)
                 \/ p \in DOMAIN tree /\ res \in {"AlreadyExists", "Other", "Ok"}
                 \/ p \notin DOMAIN tree /\ res = PathError(tree, p)
      BY <1>2, <2>1, <3>2 DEF CreateFile, Refused, Err, Found
    <3> QED BY <2>5, <3>1, <3>2
  <2> QED BY <2>2, <2>3, <2>4, <2>5
<1> QED BY <1>1, <1>2

\* The second half of rename, if there was nothing to replace.
LEMMA MoveErrorTrue ==
    ASSUME IInv, MapExact, NEW i \in Given, NEW d \in Given, NEW name \in Names,
           i \in DOMAIN inode_map, d \in DOMAIN inode_map,
           Child(inode_map, d, name) \notin DOMAIN tree,
           ~CanMove(tree, inode_map[i], Child(inode_map, d, name))
    PROVE  LET res == MoveError(tree, inode_map, i, d, name) IN
           \/ res = "InvalidInput" /\ IsDirectory(i)
           \/ res = "Other" /\ (~IsDirectory(d) \/ IsDirectory(i) \/ Full(d))
<1>0. TreeInv(tree) /\ MapInv(inode_map)
  BY DEF IInv
<1>1. PICK new : new = Child(inode_map, d, name)
  OBVIOUS
<1>2. PICK old : old = inode_map[i]
  OBVIOUS
<1>3. PICK res : res = MoveError(tree, inode_map, i, d, name)
  OBVIOUS
<1>4. /\ PathError(tree, new) = IF IsDirectory(d) THEN "NotFound" ELSE "Other"
      /\ IsDir(tree, Parent(new)) <=> IsDirectory(d)
      /\ new \notin Path => Full(d)
  BY <1>1, ExactChild
<1>5. new \in Seq(Names) /\ new # <<>> /\ new \notin DOMAIN tree
  BY <1>0, <1>1, ChildProperties
<1>6. /\ old \in DOMAIN tree /\ (IsDirectory(i) <=> tree[old].is_dir)
      /\ old \in Path /\ old \in Seq(Names) /\ Len(old) <= MaxDepth
  BY <1>0, <1>2, ExactMap, PathIsSeq DEF TreeInv
<1>7. IsDir(tree, Parent(old))
  <2>1. CASE old = <<>>
    <3>1. Parent(<<>>) = <<>>
      <4>1. ASSUME NEW e \in Seq(Names), Len(e) = 0
            PROVE  Parent(e) \in Seq(Names) /\ Len(Parent(e)) = 0
        BY <4>1 DEF Parent
      <4>2. Parent(<<>>) \in Seq(Names) /\ Len(Parent(<<>>)) = 0
        BY <4>1, EmptyPath
      <4> QED BY <4>2, EmptySeq
    <3> QED BY <1>0, <1>6, <2>1, <3>1 DEF TreeInv, IsDir
  <2>2. CASE old # <<>>
    <3>1. /\ Parent(old) \in Seq(Names) /\ Len(Parent(old)) = Len(old) - 1
          /\ StrictlyBelow(Parent(old), old)
      BY <1>6, <2>2, ParentProperties
    <3>2. Len(Parent(old)) <= MaxDepth
      BY <1>6, <3>1, DiskAssumption
    <3>3. Parent(old) \in Path
      BY <3>1, <3>2, PathIsSeq
    <3> QED BY <1>0, <1>6, <3>1, <3>3 DEF TreeInv
  <2> QED BY <2>1, <2>2
<1>8. CASE ~IsDirectory(d)
  <2>1. res = PathError(tree, new)
    BY <1>1, <1>2, <1>3, <1>4, <1>7, <1>8 DEF MoveError
  <2> QED BY <1>3, <1>4, <1>8, <2>1
<1>9. CASE IsDirectory(d) /\ StrictlyBelow(old, new)
  <2>1. res = "InvalidInput"
    BY <1>1, <1>2, <1>3, <1>4, <1>6, <1>7, <1>9 DEF MoveError
  <2>2. Below(old, Parent(new)) /\ Parent(new) \in DOMAIN tree /\ tree[Parent(new)].is_dir
    BY <1>4, <1>5, <1>6, <1>9, ParentProperties DEF IsDir
  <2>3. tree[old].is_dir
    BY <1>0, <1>6, <2>2 DEF TreeInv, StrictlyBelow, IsDir
  <2> QED BY <1>3, <1>6, <2>1, <2>3
<1>10. CASE IsDirectory(d) /\ ~StrictlyBelow(old, new)
  <2>1. res = "Other"
    BY <1>1, <1>2, <1>3, <1>4, <1>6, <1>7, <1>10 DEF MoveError
  <2>2. PICK q \in DOMAIN tree : Below(old, q) /\ Rebase(q, old, new) \notin Path
    BY <1>1, <1>2, <1>4, <1>5, <1>6, <1>10 DEF CanMove
  <2>3. CASE tree[old].is_dir
    BY <1>3, <1>6, <2>1, <2>3
  <2>4. CASE ~tree[old].is_dir
    <3>1. q = old
      BY <1>0, <1>6, <2>2, <2>4 DEF TreeInv, StrictlyBelow, IsDir
    <3>2. /\ Rebase(old, old, new) \in Seq(Names)
          /\ Len(Rebase(old, old, new)) = Len(new) + Len(old) - Len(old)
      <4>1. Below(old, old)
        BY <1>6, BelowReflexive
      <4> QED BY <1>5, <1>6, <4>1, RebaseProperties, SMTT(30)
    <3>3. Len(Rebase(old, old, new)) = Len(new)
      BY <1>5, <1>6, <3>2
    <3>4. new \notin Path
      BY <1>5, <2>2, <3>1, <3>2, <3>3, PathIsSeq
    <3> QED BY <1>3, <1>4, <2>1, <3>4
  <2> QED BY <2>3, <2>4
<1> QED BY <1>8, <1>9, <1>10

LEMMA RenameErrorTrue ==
    ASSUME IInv, MapExact, NEW i \in Given \cap Numbers, NEW d \in Given \cap Numbers,
           NEW name \in Names, NEW res \in Result, Rename(i, d, name, res)
    PROVE  \/ res = "Ok" \/ res = "PermissionDenied"
           \/ /\ res = "NotFound"
              /\ \/ ~Exists(i) \/ ~Exists(d)
                 \/ Holds(d, name) /\ tree[Append(PathOf(tree, d), name)].ino = i
           \/ res = "AlreadyExists" /\ Holds(d, name)
           \/ res = "InvalidInput" /\ IsDirectory(i)
           \/ res = "Other" /\ (~IsDirectory(d) \/ IsDirectory(i) \/ Full(d))
<1> DEFINE dest == Child(inode_map, d, name)
           j    == tree[dest].ino
           map  == Remember(inode_map, j, dest)
           t    == Without(tree, dest)
           m    == Forget(map, j)
<1>0. MapAgrees
  BY DEF MapExact
<1>1. CASE d \in DOMAIN inode_map /\ dest \in DOMAIN tree
  <2>1. dest = Append(PathOf(tree, d), name) /\ Holds(d, name)
    BY <1>1, ExactChild
  <2>2. /\ map[j] = dest /\ DOMAIN map = DOMAIN inode_map \cup {j}
        /\ \A k \in DOMAIN inode_map : map[k] = inode_map[k]
    BY <1>0, <1>1, ReplaceAgrees
  <2>3. Reaches(tree, map, j)
    BY <1>1, <2>2 DEF Reaches
  <2>4. CASE MayReplace(map, i, j) /\ MoveFile(Without(tree, map[j]), m, i, d, name, res)
    <3>1. MoveFile(t, m, i, d, name, res)
      BY <2>2, <2>4
    <3>2. CASE i # j
      <4>1. i \in DOMAIN m /\ d \in DOMAIN m /\ Child(m, d, name) = dest /\ CanMove(t, m[i], dest)
        BY <1>0, <1>1, <2>4, <3>2, ReplaceMoves
      <4> QED BY <3>1, <4>1 DEF MoveFile
    <3>3. CASE i = j
      <4>1. i \notin DOMAIN m
        BY <3>3 DEF Forget
      <4>2. res = "NotFound"
        BY <3>1, <4>1 DEF MoveFile, MoveError
      <4> QED BY <2>1, <3>3, <4>2
    <3> QED BY <3>2, <3>3
  <2>5. CASE ~MayReplace(map, i, j) /\ res = ReplaceError(map, i, j)
    <3>1. res = ReplaceError(map, i, j)
      BY <2>5
    <3> HIDE DEF dest, j, map, t, m
    <3>2. CASE ~Reaches(tree, map, i)
      <4>1. i \notin DOMAIN map /\ i \notin DOMAIN inode_map
        BY <1>0, <2>2, <2>3, <3>2 DEF Reaches, MapAgrees
      <4>2. res = "NotFound"
        BY <2>3, <3>1, <3>2, <4>1 DEF ReplaceError, InodeError
      <4>3. ~Exists(i)
        BY <4>1, ExactMap
      <4> QED BY <4>2, <4>3
    <3>3. CASE Reaches(tree, map, i)
      <4>1. CASE tree[map[j]].is_dir
        <5>1. res = "AlreadyExists"
          BY <2>3, <3>1, <3>3, <4>1 DEF ReplaceError
        <5> QED BY <2>1, <5>1
      <4>2. CASE ~tree[map[j]].is_dir
        <5>1. res = "InvalidInput"
          BY <2>3, <3>1, <3>3, <4>2 DEF ReplaceError
        <5>2. tree[map[i]].is_dir /\ i # j
          BY <2>3, <2>5, <3>3, <4>2 DEF MayReplace
        <5>3. i \in DOMAIN inode_map /\ map[i] = inode_map[i]
          BY <2>2, <3>3, <5>2 DEF Reaches
        <5>4. IsDirectory(i)
          BY <5>2, <5>3, ExactMap
        <5> QED BY <5>1, <5>4
      <4> QED BY <4>1, <4>2
    <3> QED BY <3>2, <3>3
  <2>6. CASE i \notin DOMAIN inode_map /\ res = "NotFound"
    BY <2>6, ExactMap
  <2> QED BY <1>1, <2>4, <2>5, <2>6 DEF Rename, RenameOver, Err
<1>2. CASE ~(d \in DOMAIN inode_map /\ dest \in DOMAIN tree)
  <2>1. MoveFile(tree, inode_map, i, d, name, res)
    BY <1>2 DEF Rename
  <2>2. CASE i \notin DOMAIN inode_map \/ d \notin DOMAIN inode_map
    <3>1. res = "NotFound"
      BY <2>1, <2>2 DEF MoveFile, MoveError
    <3>2. ~Exists(i) \/ ~Exists(d)
      BY <2>2, ExactMap
    <3> QED BY <3>1, <3>2
  <2>3. CASE i \in DOMAIN inode_map /\ d \in DOMAIN inode_map
    <3>1. CASE CanMove(tree, inode_map[i], dest)
      BY <2>1, <2>3, <3>1 DEF MoveFile
    <3>2. CASE ~CanMove(tree, inode_map[i], dest)
      <4>1. res = MoveError(tree, inode_map, i, d, name) \/ res = "PermissionDenied"
        BY <2>1, <2>3, <3>2 DEF MoveFile
      <4> QED BY <1>2, <2>3, <3>2, <4>1, MoveErrorTrue
    <3> QED BY <3>1, <3>2
  <2> QED BY <2>2, <2>3
<1> QED BY <1>1, <1>2

LEMMA FuseNextErrors == FuseInv /\ [FuseNext]_allVars => [ErrorsStep]_allVars
<1> SUFFICES ASSUME FuseInv, FuseNext, MapExact,
                    last'.call \in {"name", "get_attr", "open", "remove", "rename"},
                    last'.out # "Ok"
             PROVE  TrueError(last')
  BY DEF ErrorsStep
<1>1. IInv
  BY DEF FuseInv
<1>2. FailedCall
  BY WhatFailed
<1>a. ASSUME last'.res = "PermissionDenied", last'.out = Outcome(last'.res)
      PROVE  TrueError(last')
  BY <1>a, Errnos DEF TrueError
<1>3. ASSUME NEW res \in Result, NEW d \in Given \cap Numbers, NEW name \in Names,
             \/ Lookup(d, name, res)
             \/ CreateDir(d, name, res)
             \/ \E excl \in BOOLEAN : CreateFile(d, name, excl, res),
             last' = [call |-> "name", d |-> d, name |-> name, out |-> Outcome(res), res |-> res]
      PROVE  TrueError(last')
  <2>1. /\ last'.call = "name" /\ last'.d = d /\ last'.name = name
        /\ last'.out = Outcome(res) /\ last'.res = res
    BY <1>3
  <2>2. \/ res = "PermissionDenied"
        \/ res = "NotFound" /\ ~Holds(d, name)
        \/ res = "AlreadyExists" /\ Holds(d, name)
        \/ res = "Other" /\ (~IsDirectory(d) \/ Holds(d, name) \/ Full(d))
    BY <1>1, <1>3, <2>1, NameErrorTrue, Errnos
  <2> QED BY <1>a, <2>1, <2>2, Errnos DEF TrueError
<1>4. ASSUME NEW res \in Result, NEW i \in Given \cap Numbers,
             \/ /\ GetAttr(i, res)
                /\ last' = [call |-> "get_attr", ino |-> i, out |-> Outcome(res), res |-> res]
             \/ /\ Remove(i, res)
                /\ last' = [call |-> "remove", ino |-> i, out |-> Outcome(res), res |-> res]
      PROVE  TrueError(last')
  <2>1. /\ last'.call \in {"get_attr", "remove"} /\ last'.ino = i
        /\ last'.out = Outcome(res) /\ last'.res = res
        /\ GetAttr(i, res) \/ Remove(i, res)
    BY <1>4
  <2>2. \/ res = "PermissionDenied"
        \/ ~Reaches(tree, inode_map, i) /\ res = InodeError(tree, inode_map, i)
    BY <2>1, Errnos DEF GetAttr, Remove, RemoveRefused, Refused, Err
  <2>3. res = "PermissionDenied" \/ (res = "NotFound" /\ ~Exists(i))
    BY <1>1, <2>2, InodeErrorTrue
  <2> QED BY <1>a, <2>1, <2>3, Errnos DEF TrueError
<1>5. ASSUME NEW res \in Result, NEW i \in Given \cap Numbers, OpenFile(i, res),
             last' = [call |-> "open", ino |-> i, out |-> Outcome(res), res |-> res]
      PROVE  TrueError(last')
  <2>1. /\ last'.call = "open" /\ last'.ino = i
        /\ last'.out = Outcome(res) /\ last'.res = res
    BY <1>5
  <2>0. CASE res = "PermissionDenied"
    BY <1>a, <2>0, <2>1
  <2>2. CASE res # "PermissionDenied" /\ Reaches(tree, inode_map, i)
    <3>1. res = "Other" /\ tree[inode_map[i]].is_dir /\ i \in DOMAIN inode_map
      BY <1>5, <2>1, <2>2, Errnos DEF OpenFile, Refused, Err, Reaches
    <3>2. Exists(i) /\ IsDirectory(i)
      BY <1>1, <3>1, ExactMap
    <3> QED BY <2>1, <3>1, <3>2, Errnos DEF TrueError
  <2>3. CASE res # "PermissionDenied" /\ ~Reaches(tree, inode_map, i)
    <3>1. res = "NotFound" /\ ~Exists(i)
      BY <1>1, <1>5, <2>3, InodeErrorTrue DEF OpenFile, Refused, Err
    <3> QED BY <2>1, <3>1, Errnos DEF TrueError
  <2> QED BY <2>0, <2>2, <2>3
<1>6. ASSUME NEW res \in Result, NEW i \in Given \cap Numbers, NEW d \in Given \cap Numbers,
             NEW name \in Names, Rename(i, d, name, res),
             last' = [call |-> "rename", ino |-> i, d |-> d, name |-> name, out |-> Outcome(res), res |-> res]
      PROVE  TrueError(last')
  <2>1. /\ last'.call = "rename" /\ last'.ino = i /\ last'.d = d /\ last'.name = name
        /\ last'.out = Outcome(res) /\ last'.res = res
    BY <1>6
  <2>2. res # "Ok"
    BY <2>1, Errnos
  <2>3. \/ res = "PermissionDenied"
        \/ /\ res = "NotFound"
           /\ \/ ~Exists(i) \/ ~Exists(d)
              \/ Holds(d, name) /\ tree[Append(PathOf(tree, d), name)].ino = i
        \/ res = "AlreadyExists" /\ Holds(d, name)
        \/ res = "InvalidInput" /\ IsDirectory(i)
        \/ res = "Other" /\ (~IsDirectory(d) \/ IsDirectory(i) \/ Full(d))
    BY <1>1, <1>6, <2>2, RenameErrorTrue
  <2> QED BY <1>a, <2>1, <2>3, Errnos DEF TrueError, OntoItself
<1> QED BY <1>2, <1>3, <1>4, <1>5, <1>6 DEF FailedCall

\* While DiskFs finds every file by its number, an errno tells the truth about
\* the disk at the time of the call that failed, for both calls of a request
\* (fuse.rs:181, 199, 220), through both conversions of the error (error.rs:17-40,
\* fuse.rs:53-61) and whatever other mounts do in between.
THEOREM ErrorsTellTheTruth == FuseSpec => ErrorsTrue
BY FuseSpecInv, FuseNextErrors, PTL DEF FuseSpec, ErrorsTrue

-----------------------------------------------------------------------------
(* How the map stops being exact.                                          *)

\* A call of DiskFs forgets no number of a file that is still there, and the
\* numbers of new files are in the map.
KeepsNumbers ==
    /\ InodesIn(tree') \subseteq InodesIn(tree) \cup DOMAIN inode_map'
    /\ DOMAIN inode_map \cap InodesIn(tree') \subseteq DOMAIN inode_map'

\* A call that finds or makes a file has its number in the map, unless the disk
\* refuses what comes after it was made.
LEMMA EntryExact ==
    ASSUME IInv, MapAgrees, NEW d \in Numbers, NEW name \in Names, NEW res,
           \/ Lookup(d, name, res)
           \/ CreateDir(d, name, res)
           \/ \E excl \in BOOLEAN : CreateFile(d, name, excl, res)
    PROVE  /\ MapAgrees'
           /\ KeepsNumbers \/ (res = "PermissionDenied" /\ inode_map' = inode_map)
           /\ res = "Ok" => InoAt(d, name) \in DOMAIN inode_map'
<1>1. PICK p : p = Child(inode_map, d, name)
  OBVIOUS
<1>2. ASSUME res # "Ok", UNCHANGED vars
      PROVE  MapAgrees' /\ KeepsNumbers
  BY <1>2 DEF vars, MapAgrees, KeepsNumbers, InodesIn
<1>3. ASSUME d \in DOMAIN inode_map, p \in DOMAIN tree, Found(p, res)
      PROVE  MapAgrees' /\ KeepsNumbers /\ InoAt(d, name) \in DOMAIN inode_map'
  <2>1. MapAgrees'
    BY <1>3, FoundAgrees
  <2>2. tree' = tree /\ DOMAIN inode_map' = DOMAIN inode_map \cup {tree[p].ino}
    <3>1. DOMAIN Remember(inode_map, tree[p].ino, p) = DOMAIN inode_map \cup {tree[p].ino}
      BY DEF Remember, Insert
    <3> QED BY <1>3, <3>1 DEF Found
  <2>3. InoAt(d, name) = tree[p].ino
    BY <1>1, <2>2 DEF InoAt
  <2> QED BY <2>1, <2>2, <2>3 DEF KeepsNumbers, InodesIn
<1>4. ASSUME NEW dir \in BOOLEAN, d \in DOMAIN inode_map, CanMake(p), Made(p, dir, res)
      PROVE  /\ MapAgrees'
             /\ KeepsNumbers \/ (res = "PermissionDenied" /\ inode_map' = inode_map)
             /\ res = "Ok" => InoAt(d, name) \in DOMAIN inode_map'
  <2>1. MapAgrees'
    BY <1>1, <1>4, MadeAgrees
  <2>2. CASE ~(p \in Path /\ Inodes \ InodesIn(tree) # {})
    BY <1>2, <1>4, <2>2 DEF Made, Err
  <2>3. CASE /\ p \in Path /\ Inodes \ InodesIn(tree) # {}
             /\ ~(res = "PermissionDenied" /\ inode_map' = inode_map)
    <3>1. PICK i \in Inodes \ InodesIn(tree) :
            /\ tree' = Added(tree, p, [ino |-> i, is_dir |-> dir])
            /\ inode_map' = Remember(inode_map, i, p)
      BY <1>4, <2>3 DEF Made
    <3>2. DOMAIN inode_map' = DOMAIN inode_map \cup {i}
      <4>1. DOMAIN Remember(inode_map, i, p) = DOMAIN inode_map \cup {i}
        BY DEF Remember, Insert
      <4> QED BY <3>1, <4>1
    <3>3. /\ DOMAIN tree' = DOMAIN tree \cup {p} /\ tree'[p].ino = i
          /\ \A q \in DOMAIN tree : tree'[q] = tree[q]
      <4>1. PICK u : u = Added(tree, p, [ino |-> i, is_dir |-> dir])
        OBVIOUS
      <4>2. /\ DOMAIN u = DOMAIN tree \cup {p} /\ u[p].ino = i
            /\ \A q \in DOMAIN tree : u[q] = tree[q]
        BY <1>4, <4>1 DEF Added, CanMake
      <4> QED BY <3>1, <4>1, <4>2
    <3>4. InodesIn(tree') \subseteq InodesIn(tree) \cup {i}
      BY <3>3 DEF InodesIn
    <3>5. InoAt(d, name) = i
      BY <1>1, <3>3 DEF InoAt
    <3> QED BY <2>1, <3>2, <3>4, <3>5 DEF KeepsNumbers
  <2> QED BY <2>1, <2>2, <2>3
<1>5. CASE Lookup(d, name, res)
  BY <1>1, <1>2, <1>3, <1>5, ErrorsAreErrors DEF Lookup, Refused, Err
<1>6. CASE CreateDir(d, name, res)
  BY <1>1, <1>2, <1>4, <1>6, ErrorsAreErrors DEF CreateDir, Refused, Err
<1>7. ASSUME NEW excl \in BOOLEAN, CreateFile(d, name, excl, res)
      PROVE  /\ MapAgrees'
             /\ KeepsNumbers \/ (res = "PermissionDenied" /\ inode_map' = inode_map)
             /\ res = "Ok" => InoAt(d, name) \in DOMAIN inode_map'
  BY <1>1, <1>2, <1>3, <1>4, <1>7, ErrorsAreErrors DEF CreateFile, Refused, Err
<1> QED BY <1>5, <1>6, <1>7

\* The number that remove forgets is gone from the disk.
LEMMA RemoveKeeps ==
    ASSUME IInv, MapAgrees, NEW i \in Numbers, NEW res, Remove(i, res)
    PROVE  KeepsNumbers
<1>0. CASE RemoveRefused(i, res)
  <2>1. inode_map' = inode_map /\ inode_map[i] \in Path
    BY <1>0 DEF RemoveRefused, IInv, MapInv
  <2>2. DOMAIN tree' \subseteq DOMAIN tree /\ \A q \in DOMAIN tree' : tree'[q] = tree[q]
    BY <1>0, <2>1, PartlyTree DEF RemoveRefused, IInv
  <2> QED BY <2>1, <2>2 DEF KeepsNumbers, InodesIn
<1>1. CASE ~RemoveRefused(i, res) /\ Reaches(tree, inode_map, i)
  <2>1. PICK p : p = inode_map[i]
    OBVIOUS
  <2>2. p \in DOMAIN tree /\ tree[p].ino = i /\ p \in Seq(Names) /\ TreeInv(tree)
    BY <1>1, <2>1, PathIsSeq DEF Reaches, MapAgrees, IInv, TreeInv
  <2>3. /\ DOMAIN tree' = {q \in DOMAIN tree : ~Below(p, q)}
        /\ \A q \in DOMAIN tree' : tree'[q] = tree[q]
    BY <1>1, <2>1 DEF Remove, Without
  <2>4. DOMAIN inode_map' = DOMAIN inode_map \ {i}
    BY <1>1 DEF Remove, Forget
  <2>5. InodesIn(tree') \subseteq InodesIn(tree) \ {i}
    <3>1. Below(p, p)
      BY <2>2, BelowReflexive
    <3>2. \A q \in DOMAIN tree : tree[q].ino = i => q = p
      BY <2>2 DEF TreeInv
    <3> QED BY <2>3, <3>1, <3>2 DEF InodesIn
  <2> QED BY <2>4, <2>5 DEF KeepsNumbers
<1>2. CASE ~RemoveRefused(i, res) /\ ~Reaches(tree, inode_map, i)
  BY <1>2 DEF Remove, Err, vars, KeepsNumbers
<1> QED BY <1>0, <1>1, <1>2

\* A move makes no new files.
LEMMA MovedNumbers ==
    ASSUME NEW t, TreeInv(t), NEW old \in Path, NEW new \in Seq(Names)
    PROVE  InodesIn(Moved(t, old, new)) \subseteq InodesIn(t)
<1> DEFINE u == Moved(t, old, new)
<1>1. ASSUME NEW q \in DOMAIN u
      PROVE  \E r \in DOMAIN t : u[q] = t[r]
  <2>1. CASE q \in DOMAIN t /\ ~Below(old, q) /\ q # new
    BY <2>1 DEF Moved
  <2>2. CASE ~(q \in DOMAIN t /\ ~Below(old, q) /\ q # new)
    <3>1. u[q] = t[Rebase(q, new, old)]
      BY <2>2 DEF Moved
    <3>2. PICK r \in DOMAIN t : Below(old, r) /\ q = Rebase(r, old, new)
      BY <2>2 DEF Moved
    <3>3. r \in Seq(Names) /\ old \in Seq(Names)
      BY PathIsSeq DEF TreeInv
    <3>4. Rebase(q, new, old) = r
      BY <3>2, <3>3, RebaseInverse
    <3> QED BY <3>1, <3>4
  <2> QED BY <2>1, <2>2
<1> HIDE DEF u
<1>2. InodesIn(u) \subseteq InodesIn(t)
  BY <1>1 DEF InodesIn
<1> QED BY <1>2 DEF u

LEMMA MoveKeeps ==
    ASSUME NEW t, TreeInv(t), NEW m, MapInv(m), NEW i, NEW d, NEW name \in Names, NEW res,
           MoveFile(t, m, i, d, name, res)
    PROVE  InodesIn(tree') \subseteq InodesIn(t) /\ DOMAIN inode_map' = DOMAIN m
<1>0. CASE tree' = t /\ inode_map' = m
  BY <1>0
<1>1. CASE /\ i \in DOMAIN m /\ d \in DOMAIN m /\ CanMove(t, m[i], Child(m, d, name))
           /\ ~(tree' = t /\ inode_map' = m)
  <2>1. PICK new : new = Child(m, d, name)
    OBVIOUS
  <2>2. new \in Seq(Names) /\ m[i] \in Path
    BY <1>1, <2>1, ChildProperties DEF MapInv
  <2>3. tree' = Moved(t, m[i], new) /\ DOMAIN inode_map' = DOMAIN m
    BY <1>1, <2>1 DEF MoveFile, Insert
  <2>4. InodesIn(Moved(t, m[i], new)) \subseteq InodesIn(t)
    BY <2>2, MovedNumbers
  <2> QED BY <2>3, <2>4
<1> QED BY <1>0, <1>1 DEF MoveFile

\* The number that rename forgets is that of the file it has replaced.
LEMMA RenameKeeps ==
    ASSUME IInv, MapAgrees, NEW i \in Numbers, NEW d \in Numbers, NEW name \in Names, NEW res,
           Rename(i, d, name, res)
    PROVE  KeepsNumbers
<1>0. TreeInv(tree) /\ MapInv(inode_map)
  BY DEF IInv
<1> DEFINE dest == Child(inode_map, d, name)
           j    == tree[dest].ino
           map  == Remember(inode_map, j, dest)
           t    == Without(tree, dest)
           m    == Forget(map, j)
<1>1. CASE d \in DOMAIN inode_map /\ dest \in DOMAIN tree
  <2>1. map[j] = dest /\ DOMAIN map = DOMAIN inode_map \cup {j}
    BY <1>1, ReplaceAgrees
  <2>2. CASE MayReplace(map, i, j) /\ MoveFile(Without(tree, map[j]), m, i, d, name, res)
    <3>1. MoveFile(t, m, i, d, name, res)
      BY <2>1, <2>2
    <3>2. TreeInv(t) /\ MapInv(m)
      BY <1>1, <2>1, ReplaceInv
    <3>3. ~tree[dest].is_dir
      BY <2>1, <2>2 DEF MayReplace
    <3>4. /\ DOMAIN t = DOMAIN tree \ {dest} /\ \A q \in DOMAIN t : t[q] = tree[q]
          /\ DOMAIN m = DOMAIN inode_map \ {j}
      BY <1>1, <3>3, ReplaceAgrees
    <3>5. \A q \in DOMAIN tree : tree[q].ino = j => q = dest
      BY <1>0, <1>1 DEF TreeInv
    <3> HIDE DEF t, m, map, j, dest
    <3>6. InodesIn(tree') \subseteq InodesIn(t) /\ DOMAIN inode_map' = DOMAIN m
      BY <3>1, <3>2, MoveKeeps
    <3>7. InodesIn(t) \subseteq InodesIn(tree) \ {j}
      BY <3>4, <3>5 DEF InodesIn
    <3> QED BY <3>4, <3>6, <3>7 DEF KeepsNumbers
  <2>3. CASE tree' = tree /\ inode_map' \in {inode_map, map}
    <3> HIDE DEF map, j
    <3> QED BY <2>1, <2>3 DEF KeepsNumbers
  <2> QED BY <1>1, <2>2, <2>3 DEF Rename, RenameOver, Err, vars
<1>2. CASE ~(d \in DOMAIN inode_map /\ dest \in DOMAIN tree)
  <2>1. MoveFile(tree, inode_map, i, d, name, res)
    BY <1>2 DEF Rename
  <2>2. InodesIn(tree') \subseteq InodesIn(tree) /\ DOMAIN inode_map' = DOMAIN inode_map
    BY <1>0, <2>1, MoveKeeps
  <2> QED BY <2>2 DEF KeepsNumbers
<1> QED BY <1>1, <1>2

\* What is asked of a step: mounts learn no number that is not in the map.
LEMMA StaysExact ==
    ASSUME MapExact, MapAgrees', KeepsNumbers, Given' \subseteq Given \cup DOMAIN inode_map'
    PROVE  MapExact'
BY DEF MapExact, KeepsNumbers

\* A create or mkdir has failed with its file made, which has the number of a
\* removed file that a mount knew.
MadeUnknown ==
    /\ last'.call = "name" /\ last'.res = "PermissionDenied"
    /\ (Given \cap InodesIn(tree')) \ InodesIn(tree) # {}

\* A mount that takes a request learns of at most one number.
LEMMA RequestExact ==
    ASSUME FuseInv, MapExact, NEW m \in Mounts, Request(m)
    PROVE  MapExact' \/ MadeUnknown
<1>1. IInv /\ MapAgrees /\ known[m] \subseteq Numbers /\ UNCHANGED known
  BY TakesRequest DEF FuseInv, MapExact, MountInv
<1>2. req' = [req EXCEPT ![m] = req'[m]] /\ DOMAIN req = Mounts
  BY TakesRequest DEF FuseInv
<1>3. ASSUME MapAgrees', KeepsNumbers,
             req'[m] # NoRequest => req'[m].ino \in Given \cup DOMAIN inode_map'
      PROVE  MapExact'
  <2>1. ASSUME NEW i \in Given'
        PROVE  i \in Given \cup DOMAIN inode_map'
    <3>1. CASE \E n \in Mounts : i \in known'[n]
      BY <1>1, <3>1 DEF Given
    <3>2. ASSUME NEW n \in Mounts, req'[n] # NoRequest, i = req'[n].ino
          PROVE  i \in Given \cup DOMAIN inode_map'
      <4>1. CASE n = m
        BY <1>3, <3>2, <4>1
      <4>2. CASE n # m
        <5>1. req'[n] = req[n]
          BY <1>2, <4>2
        <5> QED BY <3>2, <5>1 DEF Given, Idle
      <4> QED BY <4>1, <4>2
    <3> QED BY <2>1, <3>1, <3>2 DEF Given, Idle
  <2> QED BY <1>3, <2>1, StaysExact
<1>4. ASSUME UNCHANGED vars,
             req'[m] # NoRequest => req'[m].ino \in Given
      PROVE  MapExact'
  BY <1>1, <1>3, <1>4 DEF vars, MapAgrees, KeepsNumbers, InodesIn
<1>5. req[m] = NoRequest
  BY DEF Request, Idle
<1>6. ASSUME NEW d \in known[m], NEW name \in Names, NEW res, NEW second,
             \/ Lookup(d, name, res)
             \/ CreateDir(d, name, res)
             \/ \E excl \in BOOLEAN : CreateFile(d, name, excl, res),
             Continue(m, res, second), second.ino = InoAt(d, name),
             Failure([call |-> "name", d |-> d, name |-> name, out |-> Outcome(res), res |-> res])
      PROVE  MapExact' \/ MadeUnknown
  <2>1. d \in Numbers
    BY <1>1
  <2>2. /\ MapAgrees'
        /\ KeepsNumbers \/ (res = "PermissionDenied" /\ inode_map' = inode_map)
        /\ res = "Ok" => InoAt(d, name) \in DOMAIN inode_map'
    BY <1>1, <1>6, <2>1, EntryExact
  <2>3. req'[m] = IF res = "Ok" THEN second ELSE NoRequest
    BY <1>2, <1>6 DEF Continue
  <2>4. CASE KeepsNumbers
    BY <1>3, <1>6, <2>2, <2>3, <2>4
  <2>5. CASE res = "PermissionDenied" /\ inode_map' = inode_map /\ ~MapExact'
    <3>1. last'.call = "name" /\ last'.res = "PermissionDenied"
      <4>1. PICK c : c = [call |-> "name", d |-> d, name |-> name, out |-> Outcome(res), res |-> res]
        OBVIOUS
      <4>2. c.call = "name" /\ c.res = "PermissionDenied" /\ c.out # "Ok" /\ Failure(c)
        BY <1>6, <2>5, <4>1, Errnos
      <4> QED BY <4>2 DEF Failure
    <3>2. Given' = Given
      <4>1. req'[m] = req[m]
        BY <1>5, <2>3, <2>5
      <4>2. \A n \in Mounts : req'[n] = req[n]
        BY <1>2, <4>1
      <4> QED BY <1>1, <4>2 DEF Given, Idle
    <3>3. PICK i \in Given : i \in InodesIn(tree') /\ i \notin DOMAIN inode_map
      BY <2>2, <2>5, <3>2 DEF MapExact
    <3>4. i \notin InodesIn(tree)
      BY <3>3 DEF MapExact
    <3> QED BY <3>1, <3>3, <3>4 DEF MadeUnknown
  <2> QED BY <2>2, <2>4, <2>5
<1>7. ASSUME NEW d \in known[m], NEW name \in Names, NEW res,
             \/ lookup(m, d, name, res)
             \/ mkdir(m, d, name, res)
             \/ \E excl \in BOOLEAN : create(m, d, name, excl, res)
      PROVE  MapExact' \/ MadeUnknown
  <2>1. PICK second : second = [op |-> "get_attr", ino |-> InoAt(d, name), entry |-> TRUE]
    OBVIOUS
  <2>2. /\ Continue(m, res, second) /\ second.ino = InoAt(d, name)
        /\ Failure([call |-> "name", d |-> d, name |-> name, out |-> Outcome(res), res |-> res])
    BY <1>7, <2>1 DEF lookup, mkdir, create, Entry
  <2> QED BY <1>6, <1>7, <2>2 DEF lookup, mkdir, create
<1>8. ASSUME NEW d \in known[m], NEW name \in Names, NEW res,
             \/ unlink(m, d, name, res)
             \/ \E newparent \in known[m], newname \in Names :
                  rename(m, d, name, newparent, newname, res)
      PROVE  MapExact' \/ MadeUnknown
  <2>1. PICK second : second.ino = InoAt(d, name) /\ FindThen(m, d, name, second, res)
    <3>1. CASE unlink(m, d, name, res)
      <4>1. PICK second : second = [op |-> "remove", ino |-> InoAt(d, name)]
        OBVIOUS
      <4> QED BY <3>1, <4>1 DEF unlink
    <3>2. ASSUME NEW e \in known[m], NEW n \in Names, rename(m, d, name, e, n, res)
          PROVE  \E s : s.ino = InoAt(d, name) /\ FindThen(m, d, name, s, res)
      <4>1. PICK second : second = [op |-> "rename", ino |-> InoAt(d, name), parent |-> d,
                                    newparent |-> e, newname |-> n]
        OBVIOUS
      <4> QED BY <3>2, <4>1 DEF rename
    <3> QED BY <1>8, <3>1, <3>2
  <2> QED BY <1>6, <2>1 DEF FindThen
<1>9. ASSUME NEW i \in known[m], NEW res, NEW opens \in BOOLEAN, setattr(m, i, opens, res)
      PROVE  MapExact'
  <2>1. PICK second : second = [op |-> "get_attr", ino |-> i, entry |-> FALSE]
    OBVIOUS
  <2>2. UNCHANGED vars /\ Continue(m, res, second)
    BY <1>9, <2>1 DEF setattr, GetAttr, OpenFile, Refused, Err
  <2>3. req'[m] = second \/ req'[m] = NoRequest
    BY <1>2, <2>2 DEF Continue
  <2>4. second.ino \in Given
    BY <2>1 DEF Given
  <2> QED BY <1>4, <2>2, <2>3, <2>4
<1>10. ASSUME UNCHANGED vars, UNCHANGED req
       PROVE  MapExact'
  BY <1>4, <1>5, <1>10
<1>11. ASSUME NEW i \in known[m], NEW res, getattr(m, i, res) \/ ReadOrWrite(m, i, res)
       PROVE  MapExact'
  BY <1>10, <1>11 DEF getattr, ReadOrWrite, GetAttr, OpenFile, Refused, Err
<1>12. ASSUME NEW res, statfs(m, res)
       PROVE  MapExact'
  BY <1>10, <1>12 DEF statfs, Stats, Err
<1>13. ASSUME NEW d \in known[m], opendir(m, d)
       PROVE  MapExact'
  BY <1>10, <1>13 DEF opendir
<1> QED BY <1>7, <1>8, <1>9, <1>11, <1>12, <1>13 DEF Request

\* A mount that is answered learns of no number but that of its request.
LEMMA AnswerExact ==
    ASSUME FuseInv, MapExact, NEW m \in Mounts, Answer(m), ~MapExact'
    PROVE  /\ req[m].op \in {"remove", "rename"} /\ req'[m] = NoRequest
           /\ KnownBelow(req[m].ino)
<1>1. /\ IInv /\ MapAgrees /\ DOMAIN req = Mounts /\ DOMAIN known = Mounts
      /\ known[m] \subseteq Numbers /\ Inodes \subseteq Numbers
      /\ req[m] \in RequestsOf(known[m])
  BY DEF FuseInv, MapExact, MountInv, Numbers
<1>2. PICK res \in Result : FinishAttr(m, res) \/ FinishUnlink(m, res) \/ FinishRename(m, res)
  BY DEF Answer
<1>3. req' = [req EXCEPT ![m] = NoRequest] /\ req[m] # NoRequest
  BY <1>2 DEF FinishAttr, FinishUnlink, FinishRename, Reply, NoRequest
<1>4. \A n \in Mounts : known'[n] \subseteq known[n] \cup {req[m].ino}
  BY <1>1, <1>2 DEF FinishAttr, FinishUnlink, FinishRename
<1>5. Given' \subseteq Given
  <2>1. req[m].ino \in Given
    BY <1>3 DEF Given, Idle
  <2>2. ASSUME NEW n \in Mounts, req'[n] # NoRequest
        PROVE  req'[n].ino \in Given
    BY <1>1, <1>3, <2>2 DEF Given, Idle
  <2>3. ASSUME NEW n \in Mounts
        PROVE  known'[n] \subseteq Given
    BY <1>4, <2>1 DEF Given
  <2> QED BY <2>2, <2>3 DEF Given, Idle
<1>6. ~(MapAgrees' /\ KeepsNumbers)
  BY <1>5, StaysExact
<1>7. ~FinishAttr(m, res)
  BY <1>1, <1>6 DEF FinishAttr, GetAttr, Refused, Err, vars, MapAgrees, KeepsNumbers, InodesIn
<1>8. CASE FinishUnlink(m, res)
  <2>1. req[m].op = "remove" /\ Remove(req[m].ino, res)
    BY <1>8 DEF FinishUnlink
  <2>2. req[m].ino \in Numbers
    BY <1>1, <2>1 DEF RequestsOf, NoRequest
  <2>3. KnownBelow(req[m].ino)
    BY <1>1, <1>6, <2>1, <2>2, RemoveAgrees, RemoveKeeps
  <2> QED BY <1>1, <1>3, <2>1, <2>3
<1>9. CASE FinishRename(m, res)
  <2>1. req[m].op = "rename" /\ Rename(req[m].ino, req[m].newparent, req[m].newname, res)
    BY <1>9 DEF FinishRename
  <2>2. req[m].ino \in Numbers /\ req[m].newparent \in Numbers /\ req[m].newname \in Names
    BY <1>1, <2>1 DEF RequestsOf, NoRequest
  <2>3. KnownBelow(req[m].ino)
    BY <1>1, <1>6, <2>1, <2>2, RenameAgrees, RenameKeeps
  <2> QED BY <1>1, <1>3, <2>1, <2>3
<1> QED BY <1>2, <1>7, <1>8, <1>9

LEMMA FuseNextExact == FuseInv /\ [FuseNext]_allVars => [ExactStep]_allVars
<1> SUFFICES ASSUME FuseInv, FuseNext, MapExact, ~MapExact'
             PROVE  \/ MadeUnknown
                    \/ \E m \in Mounts :
                         /\ req[m].op \in {"remove", "rename"} /\ req'[m] = NoRequest
                         /\ KnownBelow(req[m].ino)
  BY DEF ExactStep, MadeUnknown
<1>1. PICK m \in Mounts : Request(m) \/ Answer(m) \/ GoOn(m)
  BY DEF FuseNext
<1>2. Request(m) => MadeUnknown
  BY RequestExact
<1>3. ~GoOn(m)
  BY DEF GoOn, readdir, ReadDir, Refused, Err, vars, MapExact, MapAgrees, Given, Idle
<1> QED BY <1>1, <1>2, <1>3, AnswerExact

\* As long as no mount removes or renames a directory below which something is
\* in the map (disk.rs:257, 294), and no create or mkdir fails with its file made
\* under a number that a mount had of another (disk.rs:149, 170), DiskFs finds
\* every file by its number, whatever the mounts do and in whatever order
\* (fuse.rs:172-230), numbers that the disk uses again included.  Until then an
\* errno is true and unlink and rename act on what was found, by the two
\* theorems above.
THEOREM ExactUntilThen == FuseSpec => ExactUntilDirectory
BY FuseSpecInv, FuseNextExact, PTL DEF FuseSpec, ExactUntilDirectory

-----------------------------------------------------------------------------
(* The mounts and DiskFs.                                                  *)

LEMMA FuseNextIsNext == FuseInv /\ [FuseNext]_allVars => [Next]_vars
<1>1. ASSUME FuseInv, UNCHANGED allVars
      PROVE  UNCHANGED vars
  BY <1>1 DEF allVars
<1>2. ASSUME FuseInv, FuseNext
      PROVE  [Next]_vars
  <2>1. PICK m \in Mounts : (Request(m) \/ Answer(m) \/ GoOn(m)) /\ Stay
    BY <1>2 DEF FuseNext
  <2> QED BY <1>2, <2>1, TakesRequest, AnswersRequest, ReadsPage
<1> QED BY <1>1, <1>2

\* What mounts do to the server's file system are calls of DiskFs, one at a time
\* (fuse.rs:75-367), so that what DiskFs promises holds on any tree that the
\* server is started on: the map goes wrong only through directories (disk.rs:257,
\* 294), and while it is right rename loses nothing but its destination, even if
\* the disk refuses to move the source (disk.rs:286, 292).
THEOREM MountsUseDiskFs ==
    FuseSpec => [][Next]_vars /\ StaleOnlyByDirectory /\ RenameLosesOnlyDestination
<1>1. FuseInv /\ [FuseNext]_allVars => [Next]_vars /\ [StaleStep]_vars /\ [RenameStep]_vars
  BY FuseNextIsNext, NextStale, NextRename DEF FuseInv
<1> QED BY <1>1, FuseSpecInv, PTL DEF FuseSpec, StaleOnlyByDirectory, RenameLosesOnlyDestination

=============================================================================
