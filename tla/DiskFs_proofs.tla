---------------------------- MODULE DiskFs_proofs ----------------------------
(***************************************************************************)
(* The disk stays a tree with one number per file, whatever clients ask    *)
(* for and however stale the inode map is; the map goes wrong only when a  *)
(* directory is removed or renamed; and rename does all or nothing while   *)
(* the map is right.                                                       *)
(***************************************************************************)
EXTENDS DiskFs, SequenceTheorems, TLAPS

USE DiskAssumption

-----------------------------------------------------------------------------
(* Paths.                                                                  *)

\* A path is a sequence of names that is not too long.
LEMMA PathIsSeq ==
    \A p : p \in Path <=> p \in Seq(Names) /\ Len(p) <= MaxDepth
<1>1. ASSUME NEW p \in Path
      PROVE  p \in Seq(Names) /\ Len(p) <= MaxDepth
  <2>1. PICK k \in 0..MaxDepth : p \in [1..k -> Names]
    BY DEF Path
  <2>2. p \in Seq(Names) /\ Len(p) = k
    BY <2>1
  <2> QED BY <2>2
<1>2. ASSUME NEW p \in Seq(Names), Len(p) <= MaxDepth
      PROVE  p \in Path
  <2>1. p \in [1..Len(p) -> Names] /\ Len(p) \in 0..MaxDepth
    BY <1>2
  <2> QED BY <2>1 DEF Path
<1> QED BY <1>1, <1>2

\* Below, by positions.
LEMMA BelowIsPrefix ==
    ASSUME NEW p \in Seq(Names), NEW q \in Seq(Names)
    PROVE  Below(p, q) <=> Len(p) <= Len(q) /\ \A k \in 1..Len(p) : q[k] = p[k]
<1>1. ASSUME Len(p) <= Len(q)
      PROVE  /\ SubSeq(q, 1, Len(p)) \in Seq(Names)
             /\ Len(SubSeq(q, 1, Len(p))) = Len(p)
             /\ \A k \in 1..Len(p) : SubSeq(q, 1, Len(p))[k] = q[k]
  BY <1>1
<1>2. ASSUME Len(p) <= Len(q), \A k \in 1..Len(p) : q[k] = p[k]
      PROVE  SubSeq(q, 1, Len(p)) = p
  BY <1>1, <1>2, SeqEqual
<1> QED BY <1>1, <1>2 DEF Below

\* The directories on the way to a path.
LEMMA PrefixProperties ==
    ASSUME NEW p \in Seq(Names), NEW k \in 0..Len(p)
    PROVE  /\ SubSeq(p, 1, k) \in Seq(Names)
           /\ Len(SubSeq(p, 1, k)) = k
           /\ \A n \in 1..k : SubSeq(p, 1, k)[n] = p[n]
           /\ Below(SubSeq(p, 1, k), p)
<1>1. /\ SubSeq(p, 1, k) \in Seq(Names)
      /\ Len(SubSeq(p, 1, k)) = k
      /\ \A n \in 1..k : SubSeq(p, 1, k)[n] = p[n]
  OBVIOUS
<1>2. ASSUME NEW s \in Seq(Names), Len(s) = k, \A n \in 1..k : s[n] = p[n]
      PROVE  Below(s, p)
  BY <1>2, BelowIsPrefix
<1> QED BY <1>1, <1>2

LEMMA BelowReflexive ==
    ASSUME NEW p \in Seq(Names)
    PROVE  Below(p, p)
BY BelowIsPrefix

LEMMA BelowTransitive ==
    ASSUME NEW p \in Seq(Names), NEW q \in Seq(Names), NEW r \in Seq(Names),
           Below(p, q), Below(q, r)
    PROVE  Below(p, r)
BY BelowIsPrefix

\* Moving a path from below old to below new.
LEMMA RebaseProperties ==
    ASSUME NEW p \in Seq(Names), NEW old \in Seq(Names), NEW new \in Seq(Names),
           Below(old, p)
    PROVE  /\ Rebase(p, old, new) \in Seq(Names)
           /\ Len(Rebase(p, old, new)) = Len(new) + Len(p) - Len(old)
           /\ \A k \in 1..Len(new) : Rebase(p, old, new)[k] = new[k]
           /\ \A k \in (Len(new) + 1)..(Len(new) + Len(p) - Len(old)) :
                Rebase(p, old, new)[k] = p[k - Len(new) + Len(old)]
           /\ Below(new, Rebase(p, old, new))
<1> DEFINE s == SubSeq(p, Len(old) + 1, Len(p))
<1>1. Len(old) \in Nat /\ Len(new) \in Nat /\ Len(p) \in Nat /\ Len(old) <= Len(p)
  BY DEF Below
<1>2. /\ s \in Seq(Names)
      /\ Len(s) = Len(p) - Len(old)
      /\ \A k \in 1..(Len(p) - Len(old)) : s[k] = p[Len(old) + k]
  BY <1>1, SubSeqProperties, Len(old) + 1 \in Int, Len(p) \in Int,
     \A k \in (Len(old) + 1)..Len(p) : p[k] \in Names
<1> HIDE DEF s
<1>3. /\ new \o s \in Seq(Names)
      /\ Len(new \o s) = Len(new) + Len(s)
      /\ \A k \in 1..(Len(new) + Len(s)) :
           (new \o s)[k] = IF k <= Len(new) THEN new[k] ELSE s[k - Len(new)]
  BY <1>2, ConcatProperties
<1>4. Rebase(p, old, new) = new \o s
  BY DEF Rebase, s
<1>5. \A k \in 1..Len(new) : (new \o s)[k] = new[k]
  BY <1>1, <1>2, <1>3
<1>6. ASSUME NEW k \in (Len(new) + 1)..(Len(new) + Len(p) - Len(old))
      PROVE  (new \o s)[k] = p[k - Len(new) + Len(old)]
  <2>1. k \in 1..(Len(new) + Len(s)) /\ ~(k <= Len(new))
        /\ k - Len(new) \in 1..(Len(p) - Len(old))
        /\ Len(old) + (k - Len(new)) = k - Len(new) + Len(old)
    BY <1>1, <1>2
  <2> QED BY <2>1, <1>2, <1>3
<1>7. ASSUME NEW q \in Seq(Names), Len(q) >= Len(new), \A k \in 1..Len(new) : q[k] = new[k]
      PROVE  Below(new, q)
  BY <1>7, <1>1, BelowIsPrefix
<1>8. Len(new \o s) = Len(new) + Len(p) - Len(old) /\ Len(new \o s) >= Len(new)
  BY <1>1, <1>2, <1>3
<1>9. Below(new, new \o s)
  BY <1>3, <1>5, <1>7, <1>8, Zenon
<1> QED BY <1>3, <1>4, <1>5, <1>6, <1>8, <1>9

\* Moving there and back.
LEMMA RebaseInverse ==
    ASSUME NEW p \in Seq(Names), NEW old \in Seq(Names), NEW new \in Seq(Names),
           Below(old, p)
    PROVE  Rebase(Rebase(p, old, new), new, old) = p
<1> DEFINE r == Rebase(p, old, new)
           b == Rebase(r, new, old)
<1>1. /\ r \in Seq(Names) /\ Len(r) = Len(new) + Len(p) - Len(old)
      /\ Below(new, r)
      /\ \A k \in (Len(new) + 1)..(Len(new) + Len(p) - Len(old)) :
           r[k] = p[k - Len(new) + Len(old)]
  BY RebaseProperties
<1>a. ASSUME NEW q \in Seq(Names), Below(new, q)
      PROVE  LET c == Rebase(q, new, old) IN
             /\ c \in Seq(Names) /\ Len(c) = Len(old) + Len(q) - Len(new)
             /\ \A k \in 1..Len(old) : c[k] = old[k]
             /\ \A k \in (Len(old) + 1)..(Len(old) + Len(q) - Len(new)) :
                  c[k] = q[k - Len(old) + Len(new)]
  BY <1>a, RebaseProperties, ZenonT(30)
<1> HIDE DEF r
<1>2. /\ b \in Seq(Names) /\ Len(b) = Len(old) + Len(r) - Len(new)
      /\ \A k \in 1..Len(old) : b[k] = old[k]
      /\ \A k \in (Len(old) + 1)..(Len(old) + Len(r) - Len(new)) :
           b[k] = r[k - Len(old) + Len(new)]
  BY <1>1, <1>a
<1> HIDE DEF b
<1>3. /\ Len(old) \in Nat /\ Len(new) \in Nat /\ Len(p) \in Nat /\ Len(old) <= Len(p)
      /\ \A k \in 1..Len(old) : p[k] = old[k]
  BY BelowIsPrefix
<1>4. Len(b) = Len(p)
  BY <1>1, <1>2, <1>3
<1>5. ASSUME NEW k \in 1..Len(p)
      PROVE  b[k] = p[k]
  <2>1. CASE k <= Len(old)
    BY <2>1, <1>2, <1>3
  <2>2. CASE k > Len(old)
    <3>1. /\ k \in (Len(old) + 1)..(Len(old) + Len(r) - Len(new))
          /\ k - Len(old) + Len(new) \in (Len(new) + 1)..(Len(new) + Len(p) - Len(old))
          /\ (k - Len(old) + Len(new)) - Len(new) + Len(old) = k
      BY <2>2, <1>1, <1>3
    <3> QED BY <3>1, <1>1, <1>2
  <2> QED BY <2>1, <2>2, <1>3
<1>6. b = p
  BY <1>2, <1>4, <1>5, SeqEqual
<1> QED BY <1>6 DEF b, r

LEMMA StrictlyBelowLonger ==
    ASSUME NEW p \in Seq(Names), NEW q \in Seq(Names), StrictlyBelow(p, q)
    PROVE  Len(p) < Len(q)
<1>1. ASSUME Len(p) = Len(q) PROVE FALSE
  BY <1>1, BelowIsPrefix, SeqEqual DEF StrictlyBelow
<1> QED BY <1>1 DEF StrictlyBelow, Below

\* What is above a path is above or at its parent.
LEMMA ParentProperties ==
    ASSUME NEW p \in Seq(Names), p # <<>>
    PROVE  /\ Parent(p) \in Seq(Names)
           /\ Len(Parent(p)) = Len(p) - 1
           /\ StrictlyBelow(Parent(p), p)
           /\ \A q \in Seq(Names) : StrictlyBelow(q, p) => Below(q, Parent(p))
<1>1. Len(p) - 1 \in 0..Len(p)
  OBVIOUS
<1>2. /\ Parent(p) \in Seq(Names)
      /\ Len(Parent(p)) = Len(p) - 1
      /\ \A n \in 1..(Len(p) - 1) : Parent(p)[n] = p[n]
      /\ Below(Parent(p), p)
  BY <1>1, PrefixProperties DEF Parent
<1>3. Parent(p) # p
  BY <1>2
<1>4. ASSUME NEW q \in Seq(Names), StrictlyBelow(q, p)
      PROVE  Below(q, Parent(p))
  <2>1. Len(q) < Len(p) /\ Below(q, p)
    BY <1>4, StrictlyBelowLonger DEF StrictlyBelow
  <2>2. \A k \in 1..Len(q) : p[k] = q[k]
    BY <2>1, BelowIsPrefix
  <2>3. Len(q) <= Len(Parent(p)) /\ \A k \in 1..Len(q) : Parent(p)[k] = q[k]
    BY <1>2, <2>1, <2>2
  <2> QED BY <1>2, <2>3, BelowIsPrefix
<1> QED BY <1>2, <1>3, <1>4 DEF StrictlyBelow

\* What is below new and above a path that has moved there, other than what
\* was there before, has moved as well.
LEMMA RebasePrefix ==
    ASSUME NEW p \in Seq(Names), NEW old \in Seq(Names), NEW new \in Seq(Names),
           Below(old, p),
           NEW q \in Seq(Names), StrictlyBelow(q, Rebase(p, old, new)), Below(new, q)
    PROVE  /\ Rebase(q, new, old) \in Seq(Names)
           /\ Below(old, Rebase(q, new, old))
           /\ StrictlyBelow(Rebase(q, new, old), p)
           /\ Rebase(Rebase(q, new, old), old, new) = q
<1> DEFINE r == Rebase(p, old, new)
           b == Rebase(q, new, old)
<1>1. /\ r \in Seq(Names) /\ Len(r) = Len(new) + Len(p) - Len(old)
      /\ \A k \in (Len(new) + 1)..(Len(new) + Len(p) - Len(old)) :
           r[k] = p[k - Len(new) + Len(old)]
  BY RebaseProperties
<1>2. /\ b \in Seq(Names) /\ Len(b) = Len(old) + Len(q) - Len(new)
      /\ Below(old, b)
      /\ \A k \in 1..Len(old) : b[k] = old[k]
      /\ \A k \in (Len(old) + 1)..(Len(old) + Len(q) - Len(new)) :
           b[k] = q[k - Len(old) + Len(new)]
  BY RebaseProperties, ZenonT(30)
<1>3. Rebase(b, old, new) = q
  BY RebaseInverse
<1>4. StrictlyBelow(q, r)
  OBVIOUS
<1> HIDE DEF r, b
<1>5. Len(q) < Len(r) /\ \A k \in 1..Len(q) : r[k] = q[k]
  BY <1>1, <1>4, StrictlyBelowLonger, BelowIsPrefix DEF StrictlyBelow
<1>6. /\ Len(old) \in Nat /\ Len(new) \in Nat /\ Len(p) \in Nat /\ Len(q) \in Nat
      /\ Len(new) <= Len(q) /\ Len(old) <= Len(p)
      /\ \A k \in 1..Len(old) : p[k] = old[k]
  BY BelowIsPrefix
<1>7. Len(b) < Len(p)
  BY <1>1, <1>2, <1>5, <1>6
<1>8. ASSUME NEW k \in 1..Len(b)
      PROVE  p[k] = b[k]
  <2>1. CASE k <= Len(old)
    BY <2>1, <1>2, <1>6
  <2>2. CASE k > Len(old)
    <3> DEFINE n == k - Len(old) + Len(new)
    <3>1. /\ k \in (Len(old) + 1)..(Len(old) + Len(q) - Len(new))
          /\ n \in 1..Len(q)
          /\ n \in (Len(new) + 1)..(Len(new) + Len(p) - Len(old))
          /\ n - Len(new) + Len(old) = k
      BY <2>2, <1>1, <1>2, <1>5, <1>6
    <3> QED BY <3>1, <1>1, <1>2, <1>5
  <2> QED BY <2>1, <2>2, <1>2, <1>6
<1>9. Below(b, p) /\ b # p
  BY <1>2, <1>7, <1>8, <1>6, BelowIsPrefix
<1> QED BY <1>2, <1>3, <1>9 DEF b, StrictlyBelow

-----------------------------------------------------------------------------
(* The inductive invariant.                                                *)

\* TypeOK says that parents are directories.  Here everything above a file is
\* one: without induction over paths, this is what removing and moving whole
\* directories can be seen to preserve.  The exported directory is never
\* replaced.
TreeInv(t) ==
    /\ DOMAIN t \subseteq Path
    /\ t \in [DOMAIN t -> File]
    /\ \A p \in DOMAIN t : \A q \in Path : StrictlyBelow(q, p) => IsDir(t, q)
    /\ \A p, q \in DOMAIN t : t[p].ino = t[q].ino => p = q
    /\ <<>> \in DOMAIN t => t[<<>>].ino = ROOT_INODE /\ t[<<>>].is_dir

MapInv(m) ==
    /\ DOMAIN m \subseteq Numbers
    /\ m \in [DOMAIN m -> Path]

IInv == TreeInv(tree) /\ MapInv(inode_map)

LEMMA EmptyPath == <<>> \in Path /\ <<>> \in Seq(Names) /\ Len(<<>>) = 0
<1>1. <<>> \in Seq(Names) /\ Len(<<>>) = 0
  BY EmptySeq
<1>2. Len(<<>>) <= MaxDepth
  BY <1>1
<1> QED BY <1>1, <1>2, PathIsSeq, Zenon

LEMMA EmptyBelow ==
    ASSUME NEW p \in Seq(Names)
    PROVE  Below(<<>>, p)
<1>1. ASSUME NEW e \in Seq(Names), Len(e) = 0
      PROVE  Below(e, p)
  <2>1. Len(e) <= Len(p) /\ \A k \in 1..Len(e) : p[k] = e[k]
    BY <1>1
  <2> QED BY <2>1, BelowIsPrefix
<1> QED BY <1>1, EmptyPath

LEMMA IInvTypeOK == IInv => TypeOK
<1> SUFFICES ASSUME IInv PROVE TypeOK
  OBVIOUS
<1>1. ASSUME NEW p \in DOMAIN tree \ {<<>>}
      PROVE  IsDir(tree, Parent(p))
  <2>1. p \in Seq(Names) /\ p # <<>> /\ Len(p) <= MaxDepth
    BY PathIsSeq DEF IInv, TreeInv
  <2>2. Parent(p) \in Path /\ StrictlyBelow(Parent(p), p)
    BY <2>1, ParentProperties, PathIsSeq
  <2> QED BY <2>2 DEF IInv, TreeInv
<1> QED BY <1>1 DEF IInv, TreeInv, MapInv, TypeOK

-----------------------------------------------------------------------------
(* What the system calls do to a tree.                                     *)

\* A child of a path is not the exported directory.
LEMMA ChildProperties ==
    ASSUME NEW m, MapInv(m), NEW d \in DOMAIN m, NEW name \in Names
    PROVE  /\ Child(m, d, name) \in Seq(Names)
           /\ Child(m, d, name) # <<>>
           /\ Parent(Child(m, d, name)) = m[d]
<1>1. m[d] \in Seq(Names)
  BY PathIsSeq DEF MapInv
<1>2. /\ Append(m[d], name) \in Seq(Names)
      /\ Len(Append(m[d], name)) = Len(m[d]) + 1
      /\ \A k \in 1..Len(m[d]) : Append(m[d], name)[k] = m[d][k]
  BY <1>1
<1>3. Append(m[d], name) # <<>>
  BY <1>1, <1>2
<1>4. /\ SubSeq(Append(m[d], name), 1, Len(m[d])) \in Seq(Names)
      /\ Len(SubSeq(Append(m[d], name), 1, Len(m[d]))) = Len(m[d])
      /\ \A k \in 1..Len(m[d]) : SubSeq(Append(m[d], name), 1, Len(m[d]))[k] = m[d][k]
  BY <1>1, <1>2
<1>5. SubSeq(Append(m[d], name), 1, Len(m[d])) = m[d]
  BY <1>1, <1>4, SeqEqual
<1>6. Len(Append(m[d], name)) - 1 = Len(m[d])
  BY <1>1, <1>2
<1> QED BY <1>2, <1>3, <1>5, <1>6 DEF Child, Parent

\* Something that is removed takes what is below it with it.
LEMMA WithoutTree ==
    ASSUME NEW t, TreeInv(t), NEW p \in Path
    PROVE  /\ TreeInv(Without(t, p))
           /\ DOMAIN Without(t, p) = {q \in DOMAIN t : ~Below(p, q)}
           /\ \A q \in DOMAIN Without(t, p) : Without(t, p)[q] = t[q]
<1> DEFINE u == Without(t, p)
<1>1. /\ DOMAIN u = {q \in DOMAIN t : ~Below(p, q)}
      /\ \A q \in DOMAIN u : u[q] = t[q]
      /\ u \in [DOMAIN u -> File]
  BY DEF Without, TreeInv
<1> HIDE DEF u
<1>2. ASSUME NEW q \in DOMAIN u, NEW r \in Path, StrictlyBelow(r, q)
      PROVE  IsDir(u, r)
  <2>1. q \in DOMAIN t /\ IsDir(t, r) /\ ~Below(p, q)
    BY <1>1, <1>2 DEF TreeInv
  <2>2. p \in Seq(Names) /\ q \in Seq(Names) /\ r \in Seq(Names)
    BY <2>1, PathIsSeq DEF TreeInv
  <2>3. ~Below(p, r)
    BY <1>2, <2>1, <2>2, BelowTransitive DEF StrictlyBelow
  <2> QED BY <1>1, <2>1, <2>3 DEF IsDir
<1>3. TreeInv(u)
  BY <1>1, <1>2 DEF TreeInv
<1> QED BY <1>1, <1>3 DEF u

\* A directory that is removed in part keeps itself and what is not below it.
LEMMA PartlyTree ==
    ASSUME NEW t, TreeInv(t), NEW p \in Path, NEW u \in Partly(t, p)
    PROVE  /\ TreeInv(u)
           /\ DOMAIN u \subseteq DOMAIN t
           /\ \A q \in DOMAIN u : u[q] = t[q]
           /\ \A q \in DOMAIN t : ~StrictlyBelow(p, q) => q \in DOMAIN u
<1>1. PICK gone \in SUBSET {q \in DOMAIN t : StrictlyBelow(p, q)} :
        /\ \A q \in gone, r \in DOMAIN t : Below(q, r) => r \in gone
        /\ u = [q \in DOMAIN t \ gone |-> t[q]]
  BY DEF Partly
<1>2. /\ DOMAIN u = DOMAIN t \ gone
      /\ \A q \in DOMAIN u : u[q] = t[q]
      /\ u \in [DOMAIN u -> File]
  BY <1>1 DEF TreeInv
<1>3. ASSUME NEW q \in DOMAIN u, NEW r \in Path, StrictlyBelow(r, q)
      PROVE  IsDir(u, r)
  <2>1. q \in DOMAIN t /\ IsDir(t, r)
    BY <1>2, <1>3 DEF TreeInv
  <2>2. r \notin gone
    BY <1>1, <1>2, <1>3, <2>1 DEF StrictlyBelow
  <2> QED BY <1>2, <2>1, <2>2 DEF IsDir
<1>4. TreeInv(u)
  BY <1>2, <1>3 DEF TreeInv
<1> QED BY <1>1, <1>2, <1>4

\* A new file in a directory.
LEMMA AddedTree ==
    ASSUME NEW t, TreeInv(t), NEW p \in Path, p # <<>>, p \notin DOMAIN t,
           IsDir(t, Parent(p)),
           NEW i \in Inodes \ InodesIn(t), NEW dir \in BOOLEAN
    PROVE  LET u == Added(t, p, [ino |-> i, is_dir |-> dir]) IN
           /\ TreeInv(u)
           /\ DOMAIN u = DOMAIN t \cup {p}
           /\ u[p].ino = i
           /\ \A q \in DOMAIN t : u[q] = t[q]
<1> DEFINE f == [ino |-> i, is_dir |-> dir]
           u == Added(t, p, f)
<1>1. f \in File /\ f.ino = i
  BY DEF File
<1> HIDE DEF f
<1>2. /\ DOMAIN u = DOMAIN t \cup {p}
      /\ u[p] = f
      /\ \A q \in DOMAIN t : u[q] = t[q]
      /\ u \in [DOMAIN u -> File]
  BY <1>1 DEF Added, TreeInv
<1> HIDE DEF u
<1>3. ASSUME NEW q \in DOMAIN u, NEW r \in Path, StrictlyBelow(r, q)
      PROVE  IsDir(u, r)
  <2>1. CASE q \in DOMAIN t
    BY <1>2, <1>3, <2>1 DEF TreeInv, IsDir
  <2>2. CASE q = p
    <3>1. p \in Seq(Names) /\ r \in Seq(Names)
      BY PathIsSeq
    <3>2. Below(r, Parent(p)) /\ Parent(p) \in DOMAIN t
      BY <1>3, <2>2, <3>1, ParentProperties DEF IsDir
    <3>3. IsDir(t, r)
      BY <3>2 DEF TreeInv, StrictlyBelow
    <3> QED BY <1>2, <3>3 DEF IsDir
  <2> QED BY <1>2, <2>1, <2>2
<1>4. ASSUME NEW q \in DOMAIN u, NEW r \in DOMAIN u, u[q].ino = u[r].ino
      PROVE  q = r
  <2>1. \A s \in DOMAIN t : t[s].ino # i
    BY DEF InodesIn
  <2> QED BY <1>1, <1>2, <1>4, <2>1 DEF TreeInv
<1>5. <<>> \in DOMAIN u => u[<<>>].ino = ROOT_INODE /\ u[<<>>].is_dir
  BY <1>2 DEF TreeInv
<1>6. DOMAIN u \subseteq Path
  BY <1>2 DEF TreeInv
<1>7. TreeInv(u)
  BY <1>2, <1>3, <1>4, <1>5, <1>6 DEF TreeInv
<1> QED BY <1>1, <1>2, <1>7 DEF u, f

\* A file or a directory with all that is below it, at its new place.  Nothing
\* is lost but what was at that place.
LEMMA MovedTree ==
    ASSUME NEW t, TreeInv(t), NEW old \in Path, NEW new \in Seq(Names), new # <<>>,
           CanMove(t, old, new)
    PROVE  LET u == Moved(t, old, new) IN
           /\ TreeInv(u)
           /\ new \in Path /\ new \in DOMAIN u /\ u[new] = t[old]
           /\ \A q \in DOMAIN t :
                ~Below(old, q) /\ q # new => q \in DOMAIN u /\ u[q] = t[q]
           /\ InodesIn(t) \ InodesIn(u) \subseteq {t[q].ino : q \in {new} \cap DOMAIN t}
<1> DEFINE u == Moved(t, old, new)
           rest == {q \in DOMAIN t : ~Below(old, q) /\ q # new}
           moved == {Rebase(q, old, new) : q \in {r \in DOMAIN t : Below(old, r)}}
           Back(q) == Rebase(q, new, old)
<1>0. /\ old \in Seq(Names)
      /\ \A q \in DOMAIN t : q \in Path /\ q \in Seq(Names)
      /\ \A q \in Path : q \in Seq(Names)
  BY PathIsSeq DEF TreeInv
<1>1. Rebase(old, old, new) = new
  <2>1. /\ Rebase(old, old, new) \in Seq(Names)
        /\ Len(Rebase(old, old, new)) = Len(new) + Len(old) - Len(old)
        /\ \A k \in 1..Len(new) : Rebase(old, old, new)[k] = new[k]
    BY <1>0, BelowReflexive, RebaseProperties
  <2>2. Len(Rebase(old, old, new)) = Len(new)
    BY <1>0, <2>1
  <2> QED BY <2>1, <2>2, SeqEqual
<1>2. old \in DOMAIN t /\ new \in Path
  BY <1>0, <1>1, BelowReflexive DEF CanMove
<1>3. ASSUME NEW q \in moved
      PROVE  /\ q \in Path /\ Below(new, q) /\ Back(q) \in DOMAIN t
             /\ Below(old, Back(q)) /\ Rebase(Back(q), old, new) = q
  <2>1. PICK r \in DOMAIN t : Below(old, r) /\ q = Rebase(r, old, new)
    BY <1>3
  <2>2. Back(q) = r
    BY <1>0, <2>1, RebaseInverse
  <2>3. Below(new, q)
    BY <1>0, <2>1, RebaseProperties
  <2>4. q \in Path
    BY <2>1 DEF CanMove
  <2> QED BY <2>1, <2>2, <2>3, <2>4
<1>4. ASSUME NEW q \in DOMAIN t, Below(old, q)
      PROVE  Rebase(q, old, new) \in moved /\ Back(Rebase(q, old, new)) = q
  BY <1>0, <1>4, RebaseInverse
<1>5. \A q \in rest : q \in DOMAIN t /\ ~Below(old, q) /\ q # new
  OBVIOUS
<1>6. ASSUME NEW q \in DOMAIN t, q # new, Below(new, q)
      PROVE  Below(old, q)
  <2>1. StrictlyBelow(new, q)
    BY <1>6 DEF StrictlyBelow
  <2>2. new \in DOMAIN t
    BY <1>2, <2>1 DEF TreeInv, IsDir
  <2>3. new = old
    BY <2>1, <2>2 DEF CanMove
  <2> QED BY <1>6, <2>3
<1>7. rest \cap moved = {}
  BY <1>3, <1>5, <1>6
<1>8. /\ DOMAIN u = rest \cup moved
      /\ \A q \in rest : u[q] = t[q]
      /\ \A q \in moved : u[q] = t[Back(q)]
  BY <1>7 DEF Moved
<1>9. new \in moved /\ Back(new) = old
  BY <1>0, <1>1, <1>2, <1>4, BelowReflexive
<1>10. \A q \in DOMAIN t : ~Below(old, q) /\ q # new => q \in rest
  OBVIOUS
<1>11. u = [q \in DOMAIN u |-> u[q]]
  BY DEF Moved
<1> HIDE DEF u, rest, moved, Back
<1>12. DOMAIN u \subseteq Path
  BY <1>0, <1>3, <1>5, <1>8
<1>13. u \in [DOMAIN u -> File]
  <2>1. \A q \in DOMAIN u : u[q] \in File
    BY <1>3, <1>5, <1>8 DEF TreeInv
  <2> QED BY <2>1, <1>11
\* No directory on the way to the new place moves.
<1>14. ASSUME NEW r \in Path, StrictlyBelow(r, new)
       PROVE  IsDir(u, r)
  <2>1. /\ Parent(new) \in Seq(Names) /\ Below(r, Parent(new))
        /\ Len(Parent(new)) < Len(new)
    BY <1>0, <1>14, ParentProperties
  <2>2. IsDir(t, Parent(new))
    BY DEF CanMove
  <2>3. IsDir(t, r)
    <3>1. CASE r = Parent(new)
      BY <2>2, <3>1
    <3>2. CASE r # Parent(new)
      BY <2>1, <2>2, <3>2 DEF TreeInv, IsDir, StrictlyBelow
    <3> QED BY <3>1, <3>2
  <2>4. ~Below(old, r)
    <3> SUFFICES ASSUME Below(old, r) PROVE FALSE
      OBVIOUS
    <3>1. Below(old, new) /\ Len(r) < Len(new)
      BY <1>0, <1>14, BelowTransitive, StrictlyBelowLonger DEF StrictlyBelow
    <3>2. old = new
      BY <3>1 DEF CanMove, StrictlyBelow
    <3> QED BY <3>1, <3>2, <1>0 DEF Below
  <2>5. r # new
    BY <1>14 DEF StrictlyBelow
  <2>6. r \in rest
    BY <1>10, <2>3, <2>4, <2>5 DEF IsDir
  <2> QED BY <1>8, <2>3, <2>6 DEF IsDir
<1>15. ASSUME NEW q \in DOMAIN u, NEW r \in Path, StrictlyBelow(r, q)
       PROVE  IsDir(u, r)
  <2>1. CASE q \in rest
    <3>1. q \in DOMAIN t /\ ~Below(old, q) /\ q # new /\ IsDir(t, r) /\ Below(r, q)
      BY <1>5, <1>15, <2>1 DEF TreeInv, StrictlyBelow
    <3>2. ~Below(old, r)
      BY <1>0, <3>1, BelowTransitive
    <3>3. r # new
      BY <1>6, <3>1
    <3> QED BY <1>8, <1>10, <3>1, <3>2, <3>3 DEF IsDir
  <2>2. CASE q \in moved /\ Below(new, r)
    <3>1. Below(old, Back(q)) /\ q = Rebase(Back(q), old, new) /\ Back(q) \in DOMAIN t
      BY <1>3, <2>2
    <3>2. /\ Back(r) \in Seq(Names) /\ Below(old, Back(r))
          /\ StrictlyBelow(Back(r), Back(q)) /\ Rebase(Back(r), old, new) = r
      BY <1>0, <1>15, <2>2, <3>1, RebasePrefix DEF Back
    <3>3. Back(r) \in Path
      BY <1>0, <3>1, <3>2, PathIsSeq, StrictlyBelowLonger
    <3>4. IsDir(t, Back(r))
      BY <3>1, <3>2, <3>3 DEF TreeInv
    <3>5. r \in moved
      BY <1>4, <3>2, <3>4 DEF IsDir
    <3> QED BY <1>8, <3>4, <3>5 DEF IsDir
  <2>3. CASE q \in moved /\ ~Below(new, r)
    <3>1. Below(new, q) /\ q \in Seq(Names) /\ r \in Seq(Names)
      BY <1>0, <1>3, <2>3
    <3>2. Below(r, new)
      BY <1>15, <2>3, <3>1, BelowIsPrefix DEF StrictlyBelow
    <3>3. r # new
      BY <2>3, <3>1, BelowReflexive
    <3> QED BY <1>14, <3>2, <3>3 DEF StrictlyBelow
  <2> QED BY <1>8, <2>1, <2>2, <2>3
\* u at q is t at At(q), and no two places of u are the same place of t.
<1>16. ASSUME NEW q \in DOMAIN u, NEW r \in DOMAIN u, u[q].ino = u[r].ino
       PROVE  q = r
  <2> DEFINE At(s) == IF s \in rest THEN s ELSE Back(s)
  <2>1. \A s \in DOMAIN u : At(s) \in DOMAIN t /\ u[s] = t[At(s)]
    BY <1>3, <1>5, <1>8
  <2>2. At(q) = At(r)
    BY <1>16, <2>1 DEF TreeInv
  <2>3. CASE q \in rest /\ r \in rest
    BY <2>2, <2>3
  <2>4. CASE q \in moved /\ r \in moved
    BY <2>2, <2>4, <1>3, <1>7
  <2>5. CASE (q \in rest /\ r \in moved) \/ (q \in moved /\ r \in rest)
    BY <2>2, <2>5, <1>3, <1>5, <1>7
  <2> QED BY <1>8, <2>3, <2>4, <2>5
<1>17. <<>> \in DOMAIN u => u[<<>>].ino = ROOT_INODE /\ u[<<>>].is_dir
  <2>1. <<>> \notin moved
    BY <1>3, EmptyPath DEF Below
  <2> QED BY <2>1, <1>5, <1>8 DEF TreeInv
<1>18. TreeInv(u)
  BY <1>12, <1>13, <1>15, <1>16, <1>17 DEF TreeInv
<1>19. ASSUME NEW q \in DOMAIN t, q # new \/ Below(old, q)
       PROVE  t[q].ino \in InodesIn(u)
  <2>1. CASE Below(old, q)
    BY <1>4, <1>8, <2>1 DEF InodesIn
  <2>2. CASE ~Below(old, q)
    BY <1>8, <1>10, <1>19, <2>2 DEF InodesIn
  <2> QED BY <2>1, <2>2
<1>20. InodesIn(t) \ InodesIn(u) \subseteq {t[q].ino : q \in {new} \cap DOMAIN t}
  BY <1>19 DEF InodesIn
<1>21. new \in DOMAIN u /\ u[new] = t[old]
  BY <1>8, <1>9
<1>22. \A q \in DOMAIN t : ~Below(old, q) /\ q # new => q \in DOMAIN u /\ u[q] = t[q]
  BY <1>8, <1>10
<1> QED BY <1>2, <1>18, <1>20, <1>21, <1>22 DEF u

-----------------------------------------------------------------------------
(* The calls keep the tree a tree and the map a map.                       *)

LEMMA InsertMap ==
    ASSUME NEW m, MapInv(m), NEW i \in Numbers, NEW p \in Path
    PROVE  /\ MapInv(Insert(m, i, p))
           /\ DOMAIN Insert(m, i, p) = DOMAIN m \cup {i}
           /\ Insert(m, i, p)[i] = p
           /\ \A j \in DOMAIN m \ {i} : Insert(m, i, p)[j] = m[j]
BY DEF MapInv, Insert

LEMMA RememberMap ==
    ASSUME NEW m, MapInv(m), NEW i \in Numbers, NEW p \in Path
    PROVE  /\ MapInv(Remember(m, i, p))
           /\ DOMAIN Remember(m, i, p) = DOMAIN m \cup {i}
           /\ i \notin DOMAIN m => Remember(m, i, p)[i] = p
           /\ \A j \in DOMAIN m : Remember(m, i, p)[j] = m[j]
<1>1. CASE i \in DOMAIN m
  BY <1>1 DEF Remember
<1>2. CASE i \notin DOMAIN m
  BY <1>2, InsertMap DEF Remember
<1> QED BY <1>1, <1>2

LEMMA ForgetMap ==
    ASSUME NEW m, MapInv(m), NEW i
    PROVE  /\ MapInv(Forget(m, i))
           /\ DOMAIN Forget(m, i) = DOMAIN m \ {i}
           /\ \A j \in DOMAIN m \ {i} : Forget(m, i)[j] = m[j]
BY DEF MapInv, Forget

LEMMA NewMapInv == MapInv(NewMap) /\ DOMAIN NewMap = {ROOT_INODE} /\ NewMap[ROOT_INODE] = <<>>
BY EmptyPath DEF MapInv, NewMap, Numbers

LEMMA InodeOfFile ==
    ASSUME NEW t, TreeInv(t), NEW p \in DOMAIN t
    PROVE  p \in Path /\ t[p].ino \in Numbers
BY DEF TreeInv, File, Numbers

LEMMA FoundInv ==
    ASSUME IInv, NEW p \in DOMAIN tree, NEW res, Found(p, res)
    PROVE  IInv'
BY InodeOfFile, RememberMap DEF IInv, Found

LEMMA MadeInv ==
    ASSUME IInv, NEW d \in DOMAIN inode_map, NEW name \in Names, NEW dir \in BOOLEAN, NEW res,
           CanMake(Child(inode_map, d, name)), Made(Child(inode_map, d, name), dir, res)
    PROVE  IInv'
<1> DEFINE p == Child(inode_map, d, name)
<1>1. p # <<>> /\ p \notin DOMAIN tree /\ IsDir(tree, Parent(p))
  BY ChildProperties DEF IInv, CanMake
<1> HIDE DEF p
<1>2. CASE p \in Path /\ Inodes \ InodesIn(tree) # {}
  <2>1. PICK i \in Inodes \ InodesIn(tree) :
          /\ tree' = Added(tree, p, [ino |-> i, is_dir |-> dir])
          /\ inode_map' = Remember(inode_map, i, p) \/ inode_map' = inode_map
    BY <1>2 DEF Made, p
  <2>2. TreeInv(tree')
    BY <1>1, <1>2, <2>1, AddedTree DEF IInv
  <2>3. MapInv(inode_map')
    <3>1. MapInv(inode_map) /\ i \in Numbers
      BY DEF IInv, Numbers
    <3>2. MapInv(Remember(inode_map, i, p))
      BY <1>2, <3>1, RememberMap
    <3> QED BY <2>1, <3>1, <3>2
  <2> QED BY <2>2, <2>3 DEF IInv
<1>3. CASE ~(p \in Path /\ Inodes \ InodesIn(tree) # {})
  BY <1>3 DEF Made, Err, vars, IInv, p
<1> QED BY <1>2, <1>3

LEMMA MoveFileInv ==
    ASSUME NEW t, TreeInv(t), NEW m, MapInv(m),
           NEW i \in Numbers, NEW d \in Numbers, NEW name \in Names, NEW res,
           MoveFile(t, m, i, d, name, res)
    PROVE  IInv'
<1> DEFINE new == Child(m, d, name)
<1>0. CASE tree' = t /\ inode_map' = m
  BY <1>0 DEF IInv
<1>1. CASE /\ i \in DOMAIN m /\ d \in DOMAIN m /\ CanMove(t, m[i], new)
           /\ ~(tree' = t /\ inode_map' = m)
  <2>1. tree' = Moved(t, m[i], new) /\ inode_map' = Insert(m, i, new)
    BY <1>1 DEF MoveFile
  <2>2. new \in Seq(Names) /\ new # <<>> /\ m[i] \in Path
    BY <1>1, ChildProperties DEF MapInv
  <2> HIDE DEF new
  <2>3. TreeInv(tree') /\ new \in Path
    BY <1>1, <2>1, <2>2, MovedTree
  <2>4. MapInv(inode_map')
    BY <2>1, <2>3, InsertMap
  <2> QED BY <2>3, <2>4 DEF IInv
<1> QED BY <1>0, <1>1 DEF MoveFile

\* The map after the lookup of a rename onto something, the disk after the
\* removal of that and the map after it.
LEMMA ReplaceInv ==
    ASSUME IInv, NEW d \in DOMAIN inode_map, NEW name \in Names,
           Child(inode_map, d, name) \in DOMAIN tree
    PROVE  LET dest == Child(inode_map, d, name)
               j    == tree[dest].ino
               map  == Remember(inode_map, j, dest)
           IN  /\ j \in DOMAIN map
               /\ MapInv(map) /\ MapInv(Forget(map, j))
               /\ TreeInv(Without(tree, map[j]))
<1> DEFINE dest == Child(inode_map, d, name)
           j == tree[dest].ino
           map == Remember(inode_map, j, dest)
<1>1. dest \in Path /\ j \in Numbers
  BY InodeOfFile DEF IInv
<1> HIDE DEF dest, j
<1>2. MapInv(map) /\ j \in DOMAIN map
  <2>1. MapInv(inode_map)
    BY DEF IInv
  <2>2. MapInv(map) /\ DOMAIN map = DOMAIN inode_map \cup {j}
    BY <1>1, <2>1, RememberMap
  <2> QED BY <2>2
<1> HIDE DEF map
<1>3. MapInv(Forget(map, j)) /\ map[j] \in Path
  BY <1>2, ForgetMap DEF MapInv
<1>4. TreeInv(Without(tree, map[j]))
  BY <1>3, WithoutTree DEF IInv
<1> QED BY <1>2, <1>3, <1>4 DEF dest, j, map

LEMMA RenameInv ==
    ASSUME IInv, NEW i \in Numbers, NEW d \in Numbers, NEW name \in Names, NEW res,
           Rename(i, d, name, res)
    PROVE  IInv'
<1> DEFINE dest == Child(inode_map, d, name)
           j == tree[dest].ino
           map == Remember(inode_map, j, dest)
<1>1. CASE d \in DOMAIN inode_map /\ dest \in DOMAIN tree
  <2>1. /\ MapInv(map) /\ MapInv(Forget(map, j))
        /\ TreeInv(Without(tree, map[j]))
    BY <1>1, ReplaceInv
  <2>2. \/ MoveFile(Without(tree, map[j]), Forget(map, j), i, d, name, res)
        \/ tree' = tree /\ inode_map' = map
        \/ tree' = tree /\ inode_map' = inode_map
    BY <1>1 DEF Rename, RenameOver, Err, vars
  <2> HIDE DEF j, map
  <2> QED BY <2>1, <2>2, MoveFileInv DEF IInv
<1>2. CASE ~(d \in DOMAIN inode_map /\ dest \in DOMAIN tree)
  BY <1>2, MoveFileInv DEF Rename, IInv
<1> QED BY <1>1, <1>2

LEMMA CrashInv ==
    ASSUME IInv, NEW i \in Numbers, NEW d \in Numbers, NEW name \in Names,
           CrashInRename(i, d, name)
    PROVE  IInv'
<1>1. d \in DOMAIN inode_map /\ Child(inode_map, d, name) \in DOMAIN tree
  BY DEF CrashInRename
<1>2. TreeInv(tree')
  BY <1>1, ReplaceInv DEF CrashInRename
<1> QED BY <1>2, NewMapInv DEF CrashInRename, IInv

LEMMA CreateInv ==
    ASSUME IInv, NEW d \in Numbers, NEW name \in Names, NEW res,
           CreateDir(d, name, res) \/ \E excl \in BOOLEAN : CreateFile(d, name, excl, res)
    PROVE  IInv'
<1> DEFINE p == Child(inode_map, d, name)
<1>1. \/ UNCHANGED vars
      \/ d \in DOMAIN inode_map /\ p \in DOMAIN tree /\ Found(p, res)
      \/ /\ d \in DOMAIN inode_map /\ CanMake(p)
         /\ \E dir \in BOOLEAN : Made(p, dir, res)
  BY DEF CreateDir, CreateFile, Refused, Err
<1>2. CASE UNCHANGED vars
  BY <1>2 DEF vars, IInv
<1> QED BY <1>1, <1>2, FoundInv, MadeInv

\* Every call, crash and restart keeps the invariant.
LEMMA NextInv == IInv /\ [Next]_vars => IInv'
<1> SUFFICES ASSUME IInv, [Next]_vars PROVE IInv'
  OBVIOUS
<1>1. CASE UNCHANGED vars
  BY <1>1 DEF vars, IInv
<1>2. ASSUME NEW d \in Numbers, NEW name \in Names, NEW res, Lookup(d, name, res)
      PROVE  IInv'
  BY <1>1, <1>2, FoundInv DEF Lookup, Refused, Err
<1>3. ASSUME NEW i \in Numbers, NEW res, Remove(i, res)
      PROVE  IInv'
  <2>0. CASE RemoveRefused(i, res)
    <3>1. inode_map[i] \in Path
      BY <2>0 DEF RemoveRefused, IInv, MapInv
    <3> QED BY <2>0, <3>1, PartlyTree DEF RemoveRefused, IInv
  <2>1. CASE ~RemoveRefused(i, res) /\ Reaches(tree, inode_map, i)
    <3>1. inode_map[i] \in Path
      BY <2>1 DEF Reaches, IInv, MapInv
    <3>2. TreeInv(Without(tree, inode_map[i])) /\ MapInv(Forget(inode_map, i))
      BY <3>1, WithoutTree, ForgetMap DEF IInv
    <3> QED BY <1>3, <2>1, <3>2 DEF Remove, IInv
  <2>2. CASE ~RemoveRefused(i, res) /\ ~Reaches(tree, inode_map, i)
    BY <1>1, <1>3, <2>2 DEF Remove, Err
  <2> QED BY <2>0, <2>1, <2>2
<1>4. ASSUME NEW i \in Numbers, NEW res,
             GetAttr(i, res) \/ OpenFile(i, res) \/ ReadDir(i, res)
      PROVE  IInv'
  BY <1>1, <1>4 DEF GetAttr, OpenFile, ReadDir, Refused, Err
<1>5. CASE Restart
  BY <1>5, NewMapInv DEF Restart, IInv
<1>6. ASSUME NEW res, Stats(res) PROVE IInv'
  BY <1>1, <1>6 DEF Stats, Err
<1> QED BY <1>1, <1>2, <1>3, <1>4, <1>5, <1>6, CreateInv, RenameInv, CrashInv DEF Next

LEMMA InitInv == Init => IInv
<1> SUFFICES ASSUME Init PROVE IInv
  OBVIOUS
<1>1. TreeInv(tree)
  <2>1. /\ DOMAIN tree = {<<>>}
        /\ tree[<<>>] = [ino |-> ROOT_INODE, is_dir |-> TRUE]
        /\ tree \in [DOMAIN tree -> File]
    BY DEF Init, File
  <2>2. \A q \in Path : ~StrictlyBelow(q, <<>>)
    BY EmptyPath, PathIsSeq, StrictlyBelowLonger
  <2> QED BY <2>1, <2>2, EmptyPath DEF TreeInv
<1> QED BY <1>1, NewMapInv DEF Init, IInv

LEMMA SpecInv == Spec => []IInv
BY InitInv, NextInv, PTL DEF Spec

\* Whatever clients ask for and wherever the server dies in a rename, the disk
\* is a tree of directories with a number of its own for every file, and every
\* number that DiskFs has handed out stands for a path (fs/disk.rs).
THEOREM TypeCorrect == Spec => []TypeOK
BY SpecInv, IInvTypeOK, PTL

-----------------------------------------------------------------------------
(* When the map goes wrong.                                                *)

\* MapAgrees, of any tree and map.
Agrees(t, m) == \A i \in DOMAIN m : m[i] \in DOMAIN t /\ t[m[i]].ino = i

LEMMA FoundAgrees ==
    ASSUME IInv, MapAgrees, NEW p \in DOMAIN tree, NEW res, Found(p, res)
    PROVE  MapAgrees'
<1>1. /\ DOMAIN inode_map' = DOMAIN inode_map \cup {tree[p].ino}
      /\ tree[p].ino \notin DOMAIN inode_map => inode_map'[tree[p].ino] = p
      /\ \A j \in DOMAIN inode_map : inode_map'[j] = inode_map[j]
  BY InodeOfFile, RememberMap DEF IInv, Found
<1> QED BY <1>1 DEF MapAgrees, Found

\* A number that is free on the disk is not in a map that is right.
LEMMA MadeAgrees ==
    ASSUME IInv, MapAgrees,
           NEW d \in DOMAIN inode_map, NEW name \in Names, NEW dir \in BOOLEAN, NEW res,
           CanMake(Child(inode_map, d, name)), Made(Child(inode_map, d, name), dir, res)
    PROVE  MapAgrees'
<1> DEFINE p == Child(inode_map, d, name)
<1>1. p # <<>> /\ p \notin DOMAIN tree /\ IsDir(tree, Parent(p))
  BY ChildProperties DEF IInv, CanMake
<1> HIDE DEF p
<1>2. CASE p \in Path /\ Inodes \ InodesIn(tree) # {}
  <2>1. PICK i \in Inodes \ InodesIn(tree) :
          /\ tree' = Added(tree, p, [ino |-> i, is_dir |-> dir])
          /\ inode_map' = Remember(inode_map, i, p) \/ inode_map' = inode_map
    BY <1>2 DEF Made, p
  <2>2. /\ DOMAIN tree' = DOMAIN tree \cup {p}
        /\ tree'[p].ino = i
        /\ \A q \in DOMAIN tree : tree'[q] = tree[q]
    <3> DEFINE u == Added(tree, p, [ino |-> i, is_dir |-> dir])
    <3>1. /\ DOMAIN u = DOMAIN tree \cup {p}
          /\ u[p].ino = i
          /\ \A q \in DOMAIN tree : u[q] = tree[q]
      BY <1>1 DEF Added
    <3>2. tree' = u
      BY <2>1
    <3> HIDE DEF u
    <3> QED BY <3>1, <3>2
  <2>3. i \notin DOMAIN inode_map
    BY DEF MapAgrees, InodesIn
  <2>4. \/ inode_map' = inode_map
        \/ /\ DOMAIN inode_map' = DOMAIN inode_map \cup {i}
           /\ inode_map'[i] = p
           /\ \A j \in DOMAIN inode_map : inode_map'[j] = inode_map[j]
    BY <2>1, <2>3 DEF Remember, Insert
  <2> QED BY <2>2, <2>4 DEF MapAgrees
<1>3. CASE ~(p \in Path /\ Inodes \ InodesIn(tree) # {})
  BY <1>3 DEF Made, Err, vars, MapAgrees, p
<1> QED BY <1>2, <1>3

LEMMA RemoveAgrees ==
    ASSUME IInv, MapAgrees, NEW i \in Numbers, NEW res, Remove(i, res), ~KnownBelow(i)
    PROVE  MapAgrees'
<1>0. CASE RemoveRefused(i, res)
  <2>1. i \in DOMAIN inode_map /\ inode_map[i] \in Path /\ inode_map' = inode_map
    BY <1>0 DEF RemoveRefused, IInv, MapInv
  <2>2. /\ \A q \in DOMAIN tree' : tree'[q] = tree[q]
        /\ \A q \in DOMAIN tree : ~StrictlyBelow(inode_map[i], q) => q \in DOMAIN tree'
    BY <1>0, <2>1, PartlyTree DEF RemoveRefused, IInv
  <2>3. \A j \in DOMAIN inode_map : ~StrictlyBelow(inode_map[i], inode_map[j])
    BY <2>1 DEF KnownBelow
  <2> QED BY <2>1, <2>2, <2>3 DEF MapAgrees
<1>1. CASE ~RemoveRefused(i, res) /\ Reaches(tree, inode_map, i)
  <2>1. i \in DOMAIN inode_map /\ inode_map[i] \in Path
    BY <1>1 DEF Reaches, IInv, MapInv
  <2>2. /\ DOMAIN tree' = {q \in DOMAIN tree : ~Below(inode_map[i], q)}
        /\ \A q \in DOMAIN tree' : tree'[q] = tree[q]
    <3> DEFINE u == Without(tree, inode_map[i])
    <3>1. DOMAIN u = {q \in DOMAIN tree : ~Below(inode_map[i], q)} /\ \A q \in DOMAIN u : u[q] = tree[q]
      BY <2>1, WithoutTree DEF IInv
    <3>2. tree' = u
      BY <1>1 DEF Remove
    <3> HIDE DEF u
    <3> QED BY <3>1, <3>2
  <2>3. /\ DOMAIN inode_map' = DOMAIN inode_map \ {i}
        /\ \A j \in DOMAIN inode_map \ {i} : inode_map'[j] = inode_map[j]
    <3>1. inode_map' = Forget(inode_map, i)
      BY <1>1 DEF Remove
    <3>2. /\ DOMAIN Forget(inode_map, i) = DOMAIN inode_map \ {i}
          /\ \A j \in DOMAIN inode_map \ {i} : Forget(inode_map, i)[j] = inode_map[j]
      BY ForgetMap DEF IInv
    <3> QED BY <3>1, <3>2
  <2>4. ASSUME NEW j \in DOMAIN inode_map \ {i}
        PROVE  ~Below(inode_map[i], inode_map[j])
    <3>1. inode_map[j] # inode_map[i]
      BY <2>1 DEF MapAgrees
    <3> QED BY <2>1, <3>1 DEF KnownBelow, StrictlyBelow
  <2> QED BY <2>2, <2>3, <2>4 DEF MapAgrees
<1>2. CASE ~RemoveRefused(i, res) /\ ~Reaches(tree, inode_map, i)
  BY <1>2 DEF Remove, Err, vars, MapAgrees
<1> QED BY <1>0, <1>1, <1>2

LEMMA MoveFileAgrees ==
    ASSUME NEW t, TreeInv(t), NEW m, MapInv(m), Agrees(t, m),
           NEW i \in Numbers, NEW d \in Numbers, NEW name \in Names, NEW res,
           d \in DOMAIN m => Child(m, d, name) \notin DOMAIN t,
           i \in DOMAIN m => \A j \in DOMAIN m : ~StrictlyBelow(m[i], m[j]),
           MoveFile(t, m, i, d, name, res)
    PROVE  MapAgrees'
<1> DEFINE new == Child(m, d, name)
<1>0. CASE tree' = t /\ inode_map' = m
  BY <1>0 DEF MapAgrees, Agrees
<1>1. CASE /\ i \in DOMAIN m /\ d \in DOMAIN m /\ CanMove(t, m[i], new)
           /\ ~(tree' = t /\ inode_map' = m)
  <2>1. tree' = Moved(t, m[i], new) /\ inode_map' = Insert(m, i, new)
    BY <1>1 DEF MoveFile
  <2>2. new \in Seq(Names) /\ new # <<>> /\ m[i] \in Path /\ new \notin DOMAIN t
    BY <1>1, ChildProperties DEF MapInv
  <2> HIDE DEF new
  <2>3. /\ new \in Path /\ new \in DOMAIN tree' /\ tree'[new] = t[m[i]]
        /\ \A q \in DOMAIN t : ~Below(m[i], q) /\ q # new => q \in DOMAIN tree' /\ tree'[q] = t[q]
    BY <1>1, <2>1, <2>2, MovedTree
  <2>4. /\ DOMAIN inode_map' = DOMAIN m \cup {i}
        /\ inode_map'[i] = new
        /\ \A j \in DOMAIN m \ {i} : inode_map'[j] = m[j]
    <3> DEFINE n == Insert(m, i, new)
    <3>1. /\ DOMAIN n = DOMAIN m \cup {i} /\ n[i] = new
          /\ \A j \in DOMAIN m \ {i} : n[j] = m[j]
      BY DEF Insert
    <3> HIDE DEF n
    <3> QED BY <2>1, <3>1 DEF n
  <2>5. ASSUME NEW j \in DOMAIN m \ {i}
        PROVE  ~Below(m[i], m[j]) /\ m[j] # new /\ m[j] \in DOMAIN t
    <3>1. m[j] # m[i] /\ m[j] \in DOMAIN t
      BY <1>1 DEF Agrees
    <3> QED BY <1>1, <2>2, <3>1 DEF StrictlyBelow
  <2> QED BY <1>1, <2>3, <2>4, <2>5 DEF MapAgrees, Agrees
<1> QED BY <1>0, <1>1 DEF MoveFile

\* If the map is right, rename removes the destination and nothing else, as
\* there is nothing below a file, and the map is right in between.
LEMMA ReplaceAgrees ==
    ASSUME IInv, MapAgrees, NEW d \in DOMAIN inode_map, NEW name \in Names,
           Child(inode_map, d, name) \in DOMAIN tree
    PROVE  LET dest == Child(inode_map, d, name)
               j    == tree[dest].ino
               map  == Remember(inode_map, j, dest)
               t    == Without(tree, dest)
               m    == Forget(map, j)
           IN  /\ map[j] = dest
               /\ DOMAIN map = DOMAIN inode_map \cup {j}
               /\ \A k \in DOMAIN inode_map : map[k] = inode_map[k]
               /\ Agrees(tree, map)
               /\ ~tree[dest].is_dir =>
                    /\ DOMAIN t = DOMAIN tree \ {dest}
                    /\ \A q \in DOMAIN t : t[q] = tree[q]
                    /\ DOMAIN m = DOMAIN inode_map \ {j}
                    /\ \A k \in DOMAIN m : m[k] = inode_map[k]
                    /\ Agrees(t, m)
                    /\ d \in DOMAIN m
<1> DEFINE dest == Child(inode_map, d, name)
           j    == tree[dest].ino
           map  == Remember(inode_map, j, dest)
           t    == Without(tree, dest)
           m    == Forget(map, j)
<1>1. /\ dest \in Path /\ dest \in Seq(Names) /\ j \in Numbers
      /\ inode_map[d] \in DOMAIN tree /\ dest \in DOMAIN tree
  BY InodeOfFile, PathIsSeq DEF IInv, MapAgrees
<1>2. inode_map[d] = Parent(dest) /\ dest # <<>>
  BY ChildProperties DEF IInv
<1>a. \A q \in DOMAIN tree : tree[q].ino = j => q = dest
  BY <1>1 DEF IInv, TreeInv
<1> HIDE DEF dest
<1>3. MapInv(inode_map) /\ TreeInv(tree)
  BY DEF IInv
<1>b. tree[dest].ino = j
  OBVIOUS
<1> HIDE DEF j
<1>4. /\ DOMAIN map = DOMAIN inode_map \cup {j}
      /\ j \notin DOMAIN inode_map => map[j] = dest
      /\ \A k \in DOMAIN inode_map : map[k] = inode_map[k]
      /\ MapInv(map)
  BY <1>1, <1>3, RememberMap
<1>5. map[j] = dest
  BY <1>4, <1>a DEF MapAgrees
<1>6. Agrees(tree, map)
  BY <1>1, <1>b, <1>4, <1>5 DEF Agrees, MapAgrees
<1>7. /\ DOMAIN t = {q \in DOMAIN tree : ~Below(dest, q)}
      /\ \A q \in DOMAIN t : t[q] = tree[q]
  BY <1>1, <1>3, WithoutTree
<1> HIDE DEF map
<1>8. /\ DOMAIN m = DOMAIN map \ {j}
      /\ \A k \in DOMAIN map \ {j} : m[k] = map[k]
  BY <1>4, ForgetMap
<1> HIDE DEF t, m
<1>9. ASSUME ~tree[dest].is_dir
      PROVE  /\ DOMAIN t = DOMAIN tree \ {dest}
             /\ DOMAIN m = DOMAIN inode_map \ {j}
             /\ \A k \in DOMAIN m : m[k] = inode_map[k]
             /\ Agrees(t, m)
             /\ d \in DOMAIN m
  <2>1. \A q \in DOMAIN tree : ~StrictlyBelow(dest, q)
    BY <1>1, <1>3, <1>9 DEF TreeInv, IsDir
  <2>2. DOMAIN t = DOMAIN tree \ {dest}
    BY <1>1, <1>7, <2>1, BelowReflexive DEF StrictlyBelow
  <2>3. DOMAIN m = DOMAIN inode_map \ {j} /\ \A k \in DOMAIN m : m[k] = inode_map[k]
    BY <1>4, <1>8
  <2>4. \A k \in DOMAIN m : inode_map[k] # dest
    BY <1>b, <2>3 DEF MapAgrees
  <2>5. Agrees(t, m)
    BY <1>7, <2>2, <2>3, <2>4 DEF MapAgrees, Agrees
  <2>6. Parent(dest) # dest
    BY <1>1, <1>2, ParentProperties DEF StrictlyBelow
  <2>7. d # j
    BY <1>2, <1>4, <1>5, <2>6
  <2> QED BY <2>2, <2>3, <2>5, <2>7
<1> QED BY <1>4, <1>5, <1>6, <1>7, <1>9 DEF dest, j, map, t, m

LEMMA RenameAgrees ==
    ASSUME IInv, MapAgrees, NEW i \in Numbers, NEW d \in Numbers, NEW name \in Names, NEW res,
           Rename(i, d, name, res), ~KnownBelow(i)
    PROVE  MapAgrees'
<1> DEFINE dest == Child(inode_map, d, name)
           j    == tree[dest].ino
           map  == Remember(inode_map, j, dest)
           t    == Without(tree, dest)
           m    == Forget(map, j)
<1>0. TreeInv(tree) /\ MapInv(inode_map) /\ Agrees(tree, inode_map)
  BY DEF IInv, MapAgrees, Agrees
<1>1. CASE d \in DOMAIN inode_map /\ dest \in DOMAIN tree
  <2>1. map[j] = dest /\ Agrees(tree, map)
    BY <1>1, ReplaceAgrees
  <2>2. CASE MayReplace(map, i, j) /\ MoveFile(Without(tree, map[j]), m, i, d, name, res)
    <3>1. MoveFile(Without(tree, map[j]), m, i, d, name, res)
      BY <2>2
    <3>2. MoveFile(t, m, i, d, name, res)
      BY <3>1, <2>1
    <3>3. ~tree[dest].is_dir
      BY <2>1, <2>2 DEF MayReplace
    <3>4. /\ DOMAIN t = DOMAIN tree \ {dest}
          /\ DOMAIN m = DOMAIN inode_map \ {j}
          /\ \A k \in DOMAIN m : m[k] = inode_map[k]
          /\ Agrees(t, m)
      BY <1>1, <3>3, ReplaceAgrees
    <3>5. MapInv(m) /\ TreeInv(t)
      BY <1>1, <2>1, ReplaceInv
    <3>6. d \in DOMAIN m => Child(m, d, name) \notin DOMAIN t
      BY <3>4 DEF Child
    <3>7. i \in DOMAIN m => \A k \in DOMAIN m : ~StrictlyBelow(m[i], m[k])
      BY <3>4 DEF KnownBelow
    <3> HIDE DEF t, m
    <3> QED BY <3>2, <3>4, <3>5, <3>6, <3>7, MoveFileAgrees
  <2>3. CASE tree' = tree /\ inode_map' \in {inode_map, map}
    BY <2>1, <2>3 DEF Agrees, MapAgrees
  <2> QED BY <1>1, <2>2, <2>3 DEF Rename, RenameOver, Err, vars
<1>2. CASE ~(d \in DOMAIN inode_map /\ dest \in DOMAIN tree)
  <2>1. MoveFile(tree, inode_map, i, d, name, res)
    BY <1>2 DEF Rename
  <2>2. i \in DOMAIN inode_map =>
          \A k \in DOMAIN inode_map : ~StrictlyBelow(inode_map[i], inode_map[k])
    BY DEF KnownBelow
  <2> QED BY <1>0, <1>2, <2>1, <2>2, MoveFileAgrees
<1> QED BY <1>1, <1>2

\* A new server's map has the exported directory only, which is still there.
LEMMA CrashAgrees ==
    ASSUME IInv, MapAgrees, NEW i \in Numbers, NEW d \in Numbers, NEW name \in Names,
           CrashInRename(i, d, name)
    PROVE  MapAgrees'
<1> DEFINE dest == Child(inode_map, d, name)
           j    == tree[dest].ino
           map  == Remember(inode_map, j, dest)
<1>1. d \in DOMAIN inode_map /\ dest \in DOMAIN tree /\ inode_map' = NewMap
  BY DEF CrashInRename
<1>2. map[j] = dest
  BY <1>1, ReplaceAgrees
<1>3. tree' = Without(tree, dest)
  BY <1>2 DEF CrashInRename
<1>4. dest \in Path /\ dest \in Seq(Names) /\ dest # <<>> /\ TreeInv(tree)
  BY <1>1, ChildProperties, InodeOfFile DEF IInv
<1> HIDE DEF dest
<1>5. DOMAIN tree' = {q \in DOMAIN tree : ~Below(dest, q)} /\ \A q \in DOMAIN tree' : tree'[q] = tree[q]
  <2> DEFINE u == Without(tree, dest)
  <2>1. DOMAIN u = {q \in DOMAIN tree : ~Below(dest, q)} /\ \A q \in DOMAIN u : u[q] = tree[q]
    BY <1>4, WithoutTree
  <2> HIDE DEF u
  <2> QED BY <1>3, <2>1 DEF u
<1>6. <<>> \in DOMAIN tree /\ tree[<<>>].ino = ROOT_INODE
  <2>1. StrictlyBelow(<<>>, dest)
    BY <1>4, EmptyBelow DEF StrictlyBelow
  <2> QED BY <1>1, <1>4, <2>1, EmptyPath DEF TreeInv, IsDir
<1>7. ~Below(dest, <<>>)
  BY <1>4, EmptyPath DEF Below
<1> QED BY <1>1, <1>5, <1>6, <1>7, NewMapInv DEF MapAgrees

LEMMA NextStale == IInv /\ [Next]_vars => [StaleStep]_vars
<1> SUFFICES ASSUME IInv, Next, MapAgrees, ~MapAgrees'
             PROVE  \E i \in Numbers :
                      /\ KnownBelow(i)
                      /\ \E res \in Result :
                           \/ Remove(i, res)
                           \/ \E d \in Numbers, name \in Names : Rename(i, d, name, res)
  BY DEF StaleStep
<1>1. ~UNCHANGED vars
  BY DEF vars, MapAgrees
<1>2. ASSUME NEW d \in Numbers, NEW name \in Names, NEW res, Lookup(d, name, res)
      PROVE  FALSE
  BY <1>1, <1>2, FoundAgrees DEF Lookup, Refused, Err
<1>3. ASSUME NEW d \in Numbers, NEW name \in Names, NEW res,
             CreateDir(d, name, res) \/ \E excl \in BOOLEAN : CreateFile(d, name, excl, res)
      PROVE  FALSE
  <2> DEFINE p == Child(inode_map, d, name)
  <2>1. \/ d \in DOMAIN inode_map /\ p \in DOMAIN tree /\ Found(p, res)
        \/ /\ d \in DOMAIN inode_map /\ CanMake(p)
           /\ \E dir \in BOOLEAN : Made(p, dir, res)
    BY <1>1, <1>3 DEF CreateDir, CreateFile, Refused, Err
  <2> QED BY <2>1, FoundAgrees, MadeAgrees
<1>4. ASSUME NEW i \in Numbers, NEW res,
             GetAttr(i, res) \/ OpenFile(i, res) \/ ReadDir(i, res)
      PROVE  FALSE
  BY <1>1, <1>4 DEF GetAttr, OpenFile, ReadDir, Refused, Err
<1>5. ASSUME NEW res, Stats(res) PROVE FALSE
  BY <1>1, <1>5 DEF Stats, Err
<1>6. ~Restart
  <2> SUFFICES ASSUME Restart PROVE FALSE
    OBVIOUS
  <2>1. tree' = tree /\ inode_map' = NewMap /\ <<>> \in DOMAIN tree
    BY DEF Restart, IsDir
  <2>2. tree[<<>>].ino = ROOT_INODE
    BY <2>1 DEF IInv, TreeInv
  <2> QED BY <2>1, <2>2, NewMapInv DEF MapAgrees
<1>7. ASSUME NEW i \in Numbers, NEW d \in Numbers, NEW name \in Names
      PROVE  ~CrashInRename(i, d, name)
  BY CrashAgrees
<1>8. PICK res \in Result, i \in Numbers :
        Remove(i, res) \/ \E d \in Numbers, name \in Names : Rename(i, d, name, res)
  BY <1>2, <1>3, <1>4, <1>5, <1>6, <1>7 DEF Next
<1>9. KnownBelow(i)
  BY <1>8, RemoveAgrees, RenameAgrees
<1> QED BY <1>8, <1>9

\* Of all that clients can do, and of crashes and restarts, only the removal or
\* the renaming of a directory below which something is in the map can turn a
\* map that is right into one that is not (disk.rs:257, 294).
THEOREM MapStaysRight == Spec => StaleOnlyByDirectory
BY SpecInv, NextStale, PTL DEF Spec, StaleOnlyByDirectory

-----------------------------------------------------------------------------
(* What rename can lose.                                                   *)

\* A file that is replaced is the only one gone once it has been removed, and
\* then nothing but a refusal of the disk keeps the source from being moved: it
\* is a file, so nothing is below it, and the directory of the destination is
\* still there.
LEMMA ReplaceMoves ==
    ASSUME IInv, MapAgrees, NEW i \in Numbers, NEW d \in DOMAIN inode_map, NEW name \in Names,
           Child(inode_map, d, name) \in DOMAIN tree
    PROVE  LET dest == Child(inode_map, d, name)
               j    == tree[dest].ino
               map  == Remember(inode_map, j, dest)
               t    == Without(tree, dest)
               m    == Forget(map, j)
           IN  MayReplace(map, i, j) /\ i # j =>
                 /\ i \in DOMAIN m /\ d \in DOMAIN m
                 /\ m[i] = inode_map[i] /\ Child(m, d, name) = dest
                 /\ TreeInv(t) /\ m[i] \in DOMAIN t /\ t[m[i]].ino = i
                 /\ InodesIn(tree) \ InodesIn(t) \subseteq {j}
                 /\ dest \notin DOMAIN t
                 /\ CanMove(t, m[i], dest)
<1> DEFINE dest == Child(inode_map, d, name)
           j    == tree[dest].ino
           map  == Remember(inode_map, j, dest)
           t    == Without(tree, dest)
           m    == Forget(map, j)
<1> SUFFICES ASSUME MayReplace(map, i, j), i # j
             PROVE  /\ i \in DOMAIN m /\ d \in DOMAIN m
                    /\ m[i] = inode_map[i] /\ Child(m, d, name) = dest
                    /\ TreeInv(t) /\ m[i] \in DOMAIN t /\ t[m[i]].ino = i
                    /\ InodesIn(tree) \ InodesIn(t) \subseteq {j}
                    /\ dest \notin DOMAIN t
                    /\ CanMove(t, m[i], dest)
  OBVIOUS
<1>1. /\ map[j] = dest /\ DOMAIN map = DOMAIN inode_map \cup {j}
      /\ \A k \in DOMAIN inode_map : map[k] = inode_map[k]
  BY ReplaceAgrees
<1>2. ~tree[dest].is_dir
  BY <1>1 DEF MayReplace
<1>3. /\ DOMAIN t = DOMAIN tree \ {dest}
      /\ \A q \in DOMAIN t : t[q] = tree[q]
      /\ DOMAIN m = DOMAIN inode_map \ {j}
      /\ \A k \in DOMAIN m : m[k] = inode_map[k]
      /\ Agrees(t, m)
      /\ d \in DOMAIN m
  BY <1>2, ReplaceAgrees
<1>4. i \in DOMAIN inode_map /\ ~tree[inode_map[i]].is_dir
  BY <1>1 DEF MayReplace, Reaches
<1>5. TreeInv(t) /\ TreeInv(tree)
  BY <1>1, ReplaceInv DEF IInv
<1>6. dest \in Path /\ dest \in Seq(Names) /\ dest # <<>> /\ dest \in DOMAIN tree
  BY <1>5, ChildProperties, InodeOfFile DEF IInv
<1>7. Child(m, d, name) = dest
  BY <1>3 DEF Child
<1>8. j = tree[dest].ino
  OBVIOUS
<1> HIDE DEF dest, j, map, t, m
<1>9. i \in DOMAIN m /\ m[i] = inode_map[i] /\ m[i] \in DOMAIN t /\ t[m[i]].ino = i
  BY <1>3, <1>4 DEF Agrees
<1>10. ~t[m[i]].is_dir /\ \A q \in DOMAIN t : ~StrictlyBelow(m[i], q)
  <2>1. ~t[m[i]].is_dir
    BY <1>3, <1>4, <1>9
  <2>2. m[i] \in Path
    BY <1>5, <1>9 DEF TreeInv
  <2> QED BY <1>5, <2>1, <2>2 DEF TreeInv, IsDir
<1>11. ~StrictlyBelow(m[i], dest)
  <2>1. m[i] \in Path /\ m[i] \in DOMAIN tree
    BY <1>3, <1>5, <1>9 DEF TreeInv
  <2> QED BY <1>4, <1>5, <1>6, <1>9, <2>1 DEF TreeInv, IsDir
<1>12. IsDir(t, Parent(dest))
  <2>1. /\ Parent(dest) \in Seq(Names) /\ Len(Parent(dest)) < Len(dest)
        /\ StrictlyBelow(Parent(dest), dest)
    BY <1>6, ParentProperties
  <2>2. Parent(dest) \in Path
    BY <1>6, <2>1, PathIsSeq
  <2>3. IsDir(tree, Parent(dest)) /\ Parent(dest) # dest
    BY <1>5, <1>6, <2>1, <2>2 DEF TreeInv
  <2> QED BY <1>3, <2>3 DEF IsDir
<1>13. ASSUME NEW q \in DOMAIN t, Below(m[i], q)
       PROVE  Rebase(q, m[i], dest) \in Path
  <2>1. q = m[i] /\ q \in Seq(Names)
    BY <1>5, <1>10, <1>13, PathIsSeq DEF StrictlyBelow, TreeInv
  <2>2. /\ Rebase(q, q, dest) \in Seq(Names)
        /\ Len(Rebase(q, q, dest)) = Len(dest) + Len(q) - Len(q)
    BY <1>6, <2>1, BelowReflexive, RebaseProperties
  <2>3. Len(Rebase(q, q, dest)) <= MaxDepth
    BY <1>6, <2>1, <2>2, PathIsSeq
  <2> QED BY <2>1, <2>2, <2>3, PathIsSeq
<1>14. dest \notin DOMAIN t
  BY <1>3
<1>15. CanMove(t, m[i], dest)
  BY <1>9, <1>11, <1>12, <1>13, <1>14 DEF CanMove
<1>16. InodesIn(tree) \ InodesIn(t) \subseteq {j}
  BY <1>3, <1>8 DEF InodesIn
<1> QED BY <1>3, <1>5, <1>7, <1>9, <1>14, <1>15, <1>16

LEMMA RenameKeepsOrMoves ==
    ASSUME IInv, MapAgrees, tree' # tree,
           NEW i \in Numbers, NEW d \in Numbers, NEW name \in Names, NEW res,
           Rename(i, d, name, res)
    PROVE  LET dest == Child(inode_map, d, name)
               replaced == {tree[p].ino : p \in {dest} \cap DOMAIN tree}
           IN  \/ i \in replaced
               \/ /\ InodesIn(tree) \ InodesIn(tree') \subseteq replaced
                  /\ \/ res = "Ok" /\ dest \in DOMAIN tree' /\ tree'[dest].ino = i
                     \/ /\ res = "PermissionDenied"
                        /\ inode_map[i] \in DOMAIN tree' /\ tree'[inode_map[i]].ino = i
<1> DEFINE dest == Child(inode_map, d, name)
           replaced == {tree[p].ino : p \in {dest} \cap DOMAIN tree}
           j    == tree[dest].ino
           map  == Remember(inode_map, j, dest)
           t    == Without(tree, dest)
           m    == Forget(map, j)
<1>0. TreeInv(tree) /\ MapInv(inode_map)
  BY DEF IInv
<1>1. CASE d \in DOMAIN inode_map /\ dest \in DOMAIN tree
  <2>1. replaced = {j} /\ dest \in Seq(Names) /\ dest # <<>>
    BY <1>0, <1>1, ChildProperties
  <2>2. map[j] = dest
    BY <1>1, ReplaceAgrees
  <2>3. MayReplace(map, i, j) /\ MoveFile(t, m, i, d, name, res)
    BY <1>1, <2>2 DEF Rename, RenameOver, Err, vars
  <2>4. CASE i # j
    <3>1. /\ i \in DOMAIN m /\ d \in DOMAIN m /\ Child(m, d, name) = dest
          /\ m[i] = inode_map[i]
          /\ TreeInv(t) /\ m[i] \in DOMAIN t /\ t[m[i]].ino = i
          /\ InodesIn(tree) \ InodesIn(t) \subseteq {j}
          /\ dest \notin DOMAIN t
          /\ CanMove(t, m[i], dest)
      BY <1>1, <2>3, <2>4, ReplaceMoves
    <3>2. \/ res = "Ok" /\ tree' = Moved(t, m[i], dest)
          \/ res = "PermissionDenied" /\ tree' = t
      BY <2>3, <3>1 DEF MoveFile
    <3>3. m[i] \in Path
      BY <3>1 DEF TreeInv
    <3> HIDE DEF dest, replaced, j, map, t, m
    <3> DEFINE u == Moved(t, m[i], dest)
    <3>4. /\ dest \in DOMAIN u /\ u[dest] = t[m[i]]
          /\ InodesIn(t) \ InodesIn(u) \subseteq {t[q].ino : q \in {dest} \cap DOMAIN t}
      BY <2>1, <3>1, <3>3, MovedTree
    <3> HIDE DEF u
    <3>5. InodesIn(tree) \ InodesIn(u) \subseteq {j}
      BY <3>1, <3>4
    <3>6. CASE res = "Ok" /\ tree' = u
      BY <2>1, <3>1, <3>4, <3>5, <3>6 DEF dest, replaced
    <3>7. CASE res = "PermissionDenied" /\ tree' = t
      BY <2>1, <3>1, <3>7 DEF dest, replaced
    <3> QED BY <3>2, <3>6, <3>7 DEF u
  <2> QED BY <2>1, <2>4
<1>2. CASE ~(d \in DOMAIN inode_map /\ dest \in DOMAIN tree)
  <2>1. MoveFile(tree, inode_map, i, d, name, res)
    BY <1>2 DEF Rename
  <2>2. /\ i \in DOMAIN inode_map /\ d \in DOMAIN inode_map
        /\ CanMove(tree, inode_map[i], dest)
        /\ res = "Ok" /\ tree' = Moved(tree, inode_map[i], dest)
    BY <2>1 DEF MoveFile
  <2>3. dest \in Seq(Names) /\ dest # <<>> /\ inode_map[i] \in Path
    BY <1>0, <2>2, ChildProperties DEF MapInv
  <2> HIDE DEF dest
  <2> DEFINE u == Moved(tree, inode_map[i], dest)
  <2>4. /\ dest \in DOMAIN u /\ u[dest] = tree[inode_map[i]]
        /\ InodesIn(tree) \ InodesIn(u) \subseteq {tree[q].ino : q \in {dest} \cap DOMAIN tree}
    BY <1>0, <2>2, <2>3, MovedTree
  <2>5. tree[inode_map[i]].ino = i
    BY <2>2 DEF MapAgrees
  <2> HIDE DEF u
  <2> QED BY <2>2, <2>4, <2>5 DEF u, dest
<1> QED BY <1>1, <1>2

LEMMA CrashLosesOne ==
    ASSUME IInv, MapAgrees,
           NEW i \in Numbers, NEW d \in Numbers, NEW name \in Names,
           CrashInRename(i, d, name)
    PROVE  LET dest == Child(inode_map, d, name)
               replaced == {tree[p].ino : p \in {dest} \cap DOMAIN tree}
           IN  \/ i \in replaced
               \/ /\ inode_map[i] \in DOMAIN tree' /\ tree'[inode_map[i]].ino = i
                  /\ InodesIn(tree) \ InodesIn(tree') \subseteq replaced
<1> DEFINE dest == Child(inode_map, d, name)
           replaced == {tree[p].ino : p \in {dest} \cap DOMAIN tree}
           j    == tree[dest].ino
           map  == Remember(inode_map, j, dest)
           t    == Without(tree, dest)
           m    == Forget(map, j)
<1>1. d \in DOMAIN inode_map /\ dest \in DOMAIN tree /\ replaced = {j}
  BY DEF CrashInRename
<1>2. map[j] = dest
  BY <1>1, ReplaceAgrees
<1>3. MayReplace(map, i, j) /\ tree' = t
  BY <1>2 DEF CrashInRename
<1>4. CASE i # j
  <2>1. /\ m[i] = inode_map[i] /\ m[i] \in DOMAIN t /\ t[m[i]].ino = i
        /\ InodesIn(tree) \ InodesIn(t) \subseteq {j}
    BY <1>1, <1>3, <1>4, ReplaceMoves
  <2> QED BY <1>1, <1>3, <2>1
<1> QED BY <1>1, <1>4

LEMMA NextRename == IInv /\ [Next]_vars => [RenameStep]_vars
<1> SUFFICES ASSUME IInv, tree' # tree, MapAgrees,
                    NEW i \in Numbers, NEW d \in Numbers, NEW name \in Names
             PROVE  KeepsSource(i, d, name)
  BY DEF RenameStep
<1> QED BY RenameKeepsOrMoves, CrashLosesOne DEF KeepsSource

\* rename removes the destination (disk.rs:286) before it moves the source, and
\* the disk may refuse to move it (disk.rs:292) or the server may die before.
\* While the map is right, the destination is all that is lost then, and the
\* source is where it was; and a rename that changes the disk and is not refused
\* succeeds, with the source at the destination.
THEOREM RenameKeepsSource == Spec => RenameLosesOnlyDestination
BY SpecInv, NextRename, PTL DEF Spec, RenameLosesOnlyDestination

=============================================================================
