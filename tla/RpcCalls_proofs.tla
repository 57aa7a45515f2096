--------------------------- MODULE RpcCalls_proofs ---------------------------
(***************************************************************************)
(* The calls of a ClientHandler from beginning to end, for any number of   *)
(* clients, calls, request IDs and chunks, with cancelled calls, IDs that  *)
(* come round again and lost connections: a call returns what the server's *)
(* file system answered to it and leaves nothing behind.                   *)
(*                                                                         *)
(* The inductive invariant says where the request and the replies of a     *)
(* call can be, each in one place, and that they are those of the call in  *)
(* progress unless a call with the same ID was cancelled.  For a call that *)
(* has replies outstanding it counts them: together with the chunks        *)
(* received they are never more than the payload has.  So the chunk that   *)
(* completes the count is the last one, and nothing stays on its way.      *)
(***************************************************************************)
EXTENDS Rpc_proofs, FiniteSetTheorems

\* The elements of a sequence; and that it has none of them twice.
Elements(s) == {s[i] : i \in 1..Len(s)}
Distinct(s) == \A i, j \in 1..Len(s) : s[i] = s[j] => i = j

\* Call k has the ID of call n, or is n itself.
SameId(k, n) == k <= n /\ k % IdSpace = n % IdSpace

\* A call with the ID of call n was cancelled: replies to it may reach n.
Tainted(c, n) == \E k \in Calls : SameId(k, n) /\ outcome[c][k] = "cancelled"

\* Call n can be given a reply to call k.
MayAnswer(c, k, n) == k = n \/ (SameId(k, n) /\ Tainted(c, k))

\* The IDs that are given out, and the listeners registered under them.
IdInv(c) ==
    /\ next_id[c] = calls[c] % IdSpace
    /\ \A i \in Ids : reply_listeners[c][i] # NoCall =>
         reply_listeners[c][i] < calls[c] /\ reply_listeners[c][i] % IdSpace = i

\* The calls are made one after the other, the handshake first.
HistoryInv(c) ==
    /\ pending[c] # NoCall => pending[c] = calls[c] - 1
    /\ \A n \in Calls : outcome[c][n] = "idle" <=> n >= calls[c]
    /\ \A n \in Calls : outcome[c][n] = "pending" <=> n = pending[c]
    /\ session[c] = "new" => calls[c] <= 1 /\ (pending[c] = NoCall => calls[c] = 0)
    /\ session[c] # "new" => calls[c] >= 1
    /\ pending[c] # NoCall =>
         /\ op[c] = "InitReq" <=> pending[c] = 0
         /\ session[c] = "new" <=> pending[c] = 0
    /\ outcome[c][0] # "cancelled"

\* A request is in one place until the server gives it a task.
OnTheWay(c) == Elements(c2s[c]) \cup Elements(outbuf[c])

RequestInv(c) ==
    /\ Distinct(c2s[c]) /\ Distinct(outbuf[c])
    /\ Elements(c2s[c]) \cap Elements(outbuf[c]) = {}
    /\ \A m \in OnTheWay(c) :
         /\ m.call < calls[c]
         /\ m.request_id = m.call % IdSpace
         /\ m.type = "InitReq" <=> m.call = 0
         /\ task[c][m.call].pc = "none"
    /\ \A m, k \in OnTheWay(c) : m.call = k.call => m = k
    /\ pending[c] # NoCall /\ outbuf[c] # <<>> => outbuf[c][Len(outbuf[c])].call = pending[c]

\* A task executes its request once and then has the replies to send.
TasksInv(c) ==
    \A n \in Calls :
      /\ task[c][n].pc # "none" =>
           /\ n < calls[c]
           /\ task[c][n].request_id = n % IdSpace
           /\ task[c][n].type = "InitReq" <=> n = 0
      /\ executed[c][n] = "no" <=> task[c][n].pc \in {"none", "spawned", "queued"}
      /\ task[c][n].pc = "queued" => n # 0
      /\ task[c][n].pc # "sending" => task[c][n].out = {}

\* What the file system answered, going by a reply.
AnswerIn(m) ==
    IF m.type = "Error" \/ (m.type = "InitRes" /\ ~m.accepted) THEN "err" ELSE "ok"

\* A reply is an answer to its call.
Genuine(c, m) ==
    /\ m.request_id = m.call % IdSpace
    /\ executed[c][m.call] = AnswerIn(m)
    /\ m.type = "InitRes" <=> m.call = 0
    /\ m.type # "ReadRes" => m.total = 0
    /\ m.total = 0 <=> m.part = 0

Underway(c) == Elements(s2c[c]) \cup Elements(chan[c])
Replies(c) == Elements(inbox[c]) \cup Underway(c)

\* A reply is in one place until it is consumed.
ReplyInv(c) ==
    /\ Distinct(inbox[c]) /\ Distinct(s2c[c]) /\ Distinct(chan[c])
    /\ Elements(inbox[c]) \cap Underway(c) = {}
    /\ Elements(s2c[c]) \cap Elements(chan[c]) = {}
    /\ \A m \in Replies(c) : Genuine(c, m)
    /\ \A n \in Calls : \A m \in task[c][n].out :
         Genuine(c, m) /\ m.call = n /\ m \notin Replies(c)

\* What is under way belongs to the call in progress, or to a call that may
\* find replies to another.
FlightInv(c) ==
    /\ \A m \in Elements(c2s[c]) : m.call = pending[c] \/ Tainted(c, m.call)
    /\ \A m \in Elements(outbuf[c]) : m.call = pending[c] \/ Tainted(c, m.call) \/ lost[c]
    /\ \A n \in Calls : task[c][n].pc \in {"spawned", "queued"} \/ task[c][n].out # {} =>
         n = pending[c] \/ Tainted(c, n)
    /\ \A m \in Underway(c) : m.call = pending[c] \/ Tainted(c, m.call)
    /\ \A m \in Elements(inbox[c]) : MayAnswer(c, m.call, pending[c])

\* The replies that the call in progress has yet to consume.
Awaited(c) ==
    {m \in Replies(c) \cup task[c][pending[c]].out : m.call = pending[c]}

CountInv(c) ==
    pending[c] # NoCall /\ ~Tainted(c, pending[c]) =>
      /\ executed[c][pending[c]] = "no" => received[c] = 0
      /\ IsFiniteSet(Awaited(c))
      /\ \A m \in Awaited(c) :
           Cardinality(Awaited(c)) + received[c] <= IF m.total = 0 THEN 1 ELSE m.total

CallInv(c) ==
    /\ IdInv(c) /\ HistoryInv(c) /\ RequestInv(c) /\ TasksInv(c) /\ ReplyInv(c)
    /\ FlightInv(c) /\ CountInv(c)

CallsInv == \A c \in Clients : CallInv(c)

-----------------------------------------------------------------------------
(* Remainders.                                                             *)

LEMMA DivisionAlgorithm ==
    ASSUME NEW d \in Nat \ {0}, NEW a \in Nat
    PROVE  /\ a % d \in Nat /\ a % d < d
           /\ a \div d \in Nat
           /\ a = d * (a \div d) + (a % d)
<1>1. a % d \in 0..(d - 1)
  OBVIOUS
<1>2. a \div d \in Int
  OBVIOUS
<1>3. a = d * (a \div d) + (a % d)
  OBVIOUS
<1>4. a \div d >= 0
  OBVIOUS
<1> QED BY <1>1, <1>2, <1>3, <1>4

LEMMA RemainderUnique ==
    ASSUME NEW d \in Nat \ {0}, NEW a \in Nat, NEW q \in Int, NEW r \in Nat, r < d, a = d * q + r
    PROVE  a % d = r
<1> DEFINE p == a \div d
           s == a % d
<1>1. s \in Nat /\ s < d /\ p \in Nat /\ a = d * p + s
  BY DivisionAlgorithm
<1> HIDE DEF p, s
<1>2. d * (p - q) = r - s
  BY <1>1
<1>3. ASSUME p - q >= 1 PROVE FALSE
  <2>1. d * (p - q) >= d
    BY <1>1, <1>3
  <2> QED BY <1>1, <1>2, <2>1
<1>4. ASSUME p - q <= -1 PROVE FALSE
  <2>1. d * (p - q) <= -d
    BY <1>1, <1>4
  <2> QED BY <1>1, <1>2, <2>1
<1>5. p = q
  BY <1>1, <1>3, <1>4
<1> QED BY <1>1, <1>5 DEF s

\* The next ID of an allocator that wraps around.
LEMMA NextRemainder ==
    ASSUME NEW d \in Nat \ {0}, NEW a \in Nat
    PROVE  ((a % d) + 1) % d = (a + 1) % d
<1> DEFINE q == a \div d
           r == a % d
<1>1. r \in Nat /\ r < d /\ q \in Nat /\ a = d * q + r
  BY DivisionAlgorithm
<1> HIDE DEF q, r
<1>2. CASE r + 1 < d
  <2>1. (a + 1) % d = r + 1
    BY <1>1, <1>2, RemainderUnique
  <2>2. (r + 1) % d = r + 1
    <3>1. r + 1 = d * 0 + (r + 1)
      BY <1>1
    <3> QED BY <1>1, <1>2, <3>1, RemainderUnique
  <2> QED BY <2>1, <2>2 DEF r
<1>3. CASE r + 1 = d
  <2>1. a + 1 = d * (q + 1) + 0
    BY <1>1, <1>3
  <2>2. (a + 1) % d = 0
    BY <1>1, <2>1, RemainderUnique
  <2>3. r + 1 = d * 1 + 0
    BY <1>1, <1>3
  <2>4. (r + 1) % d = 0
    BY <1>1, <2>3, RemainderUnique
  <2> QED BY <2>2, <2>4 DEF r
<1> QED BY <1>1, <1>2, <1>3

\* Calls with the same ID are a multiple of the number of IDs apart.
LEMMA SameRemainder ==
    ASSUME NEW d \in Nat \ {0}, NEW a \in Nat, NEW b \in Nat, b <= a
    PROVE  a % d = b % d <=> (a - b) % d = 0
<1> DEFINE p == a \div d
           q == b \div d
           r == a % d
           s == b % d
<1>1. r \in Nat /\ r < d /\ p \in Nat /\ a = d * p + r
  BY DivisionAlgorithm
<1>2. s \in Nat /\ s < d /\ q \in Nat /\ b = d * q + s
  BY DivisionAlgorithm
<1> HIDE DEF p, q, r, s
<1>3. a - b \in Nat
  OBVIOUS
<1>4. ASSUME r = s PROVE (a - b) % d = 0
  <2>1. a - b = d * (p - q) + 0
    BY <1>1, <1>2, <1>4
  <2> QED BY <1>1, <1>2, <1>3, <2>1, RemainderUnique
<1>5. ASSUME (a - b) % d = 0 PROVE r = s
  <2> DEFINE t == (a - b) \div d
  <2>1. t \in Nat /\ a - b = d * t
    BY <1>3, <1>5, DivisionAlgorithm
  <2> HIDE DEF t
  <2>2. a = d * (q + t) + s
    BY <1>2, <2>1
  <2> QED BY <1>2, <2>1, <2>2, RemainderUnique DEF r
<1> QED BY <1>4, <1>5 DEF r, s

-----------------------------------------------------------------------------
(* Sequences and their elements.                                           *)

LEMMA ElementsEmpty ==
    Elements(<<>>) = {} /\ Distinct(<<>>)
  BY EmptySeq DEF Elements, Distinct

LEMMA ElementsAppend ==
    ASSUME NEW S, NEW s \in Seq(S), NEW x \in S
    PROVE  /\ Elements(Append(s, x)) = Elements(s) \cup {x}
           /\ Distinct(s) /\ x \notin Elements(s) => Distinct(Append(s, x))
<1> DEFINE t == Append(s, x)
           n == Len(s)
<1>1. n \in Nat /\ Len(t) = n + 1 /\ t[n + 1] = x /\ \A i \in 1..n : t[i] = s[i]
  BY AppendProperties, LenProperties
<1> HIDE DEF t, n
<1>2. Elements(s) = {s[i] : i \in 1..n} /\ Elements(t) = {t[i] : i \in 1..(n + 1)}
  BY <1>1 DEF Elements, n
<1>3. Elements(t) = Elements(s) \cup {x}
  BY <1>1, <1>2
<1>4. ASSUME Distinct(s), x \notin Elements(s), NEW i \in 1..(n + 1), NEW j \in 1..(n + 1), t[i] = t[j]
      PROVE  i = j
  <2>1. \A k \in 1..n : s[k] # x
    BY <1>2, <1>4
  <2>2. \A k, l \in 1..n : s[k] = s[l] => k = l
    BY <1>4 DEF Distinct, n
  <2>3. CASE i \in 1..n /\ j \in 1..n
    BY <1>1, <1>4, <2>2, <2>3
  <2>4. CASE i = n + 1 /\ j \in 1..n
    BY <1>1, <1>4, <2>1, <2>4
  <2>5. CASE j = n + 1 /\ i \in 1..n
    BY <1>1, <1>4, <2>1, <2>5
  <2>6. (i = n + 1 \/ i \in 1..n) /\ (j = n + 1 \/ j \in 1..n)
    BY <1>1
  <2> QED BY <2>3, <2>4, <2>5, <2>6
<1>5. Distinct(s) /\ x \notin Elements(s) => Distinct(t)
  BY <1>1, <1>4 DEF Distinct
<1> QED BY <1>3, <1>5 DEF t

LEMMA ElementsTail ==
    ASSUME NEW S, NEW s \in Seq(S), s # <<>>
    PROVE  /\ Tail(s) \in Seq(S) /\ Len(Tail(s)) = Len(s) - 1
           /\ Head(s) \in S
           /\ Head(s) \in Elements(s)
           /\ Elements(s) = Elements(Tail(s)) \cup {Head(s)}
           /\ Distinct(s) => Distinct(Tail(s)) /\ Head(s) \notin Elements(Tail(s))
<1> DEFINE t == Tail(s)
           n == Len(s)
<1>1. /\ n \in Nat /\ n >= 1 /\ t \in Seq(S) /\ Len(t) = n - 1 /\ Head(s) = s[1]
      /\ \A i \in 1..(n - 1) : t[i] = s[i + 1]
  BY HeadTailProperties, EmptySeq
<1>2. Head(s) \in S
  BY HeadTailProperties
<1> HIDE DEF t, n
<1>3. Elements(s) = {s[i] : i \in 1..n} /\ Elements(t) = {t[i] : i \in 1..(n - 1)}
  BY <1>1 DEF Elements, n
<1>4. Head(s) \in Elements(s)
  <2>1. 1 \in 1..n
    BY <1>1
  <2> QED BY <1>1, <1>3, <2>1
<1>5. ASSUME NEW x \in Elements(s) PROVE x \in Elements(t) \cup {Head(s)}
  <2>1. PICK i \in 1..n : x = s[i]
    BY <1>3
  <2>2. CASE i = 1
    BY <1>1, <2>1, <2>2
  <2>3. CASE i # 1
    <3>1. i - 1 \in 1..(n - 1) /\ (i - 1) + 1 = i
      BY <1>1, <2>3
    <3> QED BY <1>1, <1>3, <2>1, <3>1
  <2> QED BY <2>2, <2>3
<1>6. ASSUME NEW x \in Elements(t) PROVE x \in Elements(s)
  <2>1. PICK i \in 1..(n - 1) : x = t[i]
    BY <1>3
  <2>2. i + 1 \in 1..n
    BY <1>1
  <2> QED BY <1>1, <1>3, <2>1, <2>2
<1>7. ASSUME Distinct(s) PROVE Distinct(t) /\ Head(s) \notin Elements(t)
  <2>1. \A k, l \in 1..n : s[k] = s[l] => k = l
    BY <1>7 DEF Distinct, n
  <2>2. ASSUME NEW i \in 1..(n - 1), NEW j \in 1..(n - 1), t[i] = t[j] PROVE i = j
    <3>1. i + 1 \in 1..n /\ j + 1 \in 1..n /\ s[i + 1] = s[j + 1]
      BY <1>1, <2>2
    <3>2. i + 1 = j + 1
      BY <2>1, <3>1
    <3> QED BY <1>1, <3>2
  <2>3. ASSUME NEW i \in 1..(n - 1) PROVE t[i] # s[1]
    <3>1. i + 1 \in 1..n /\ 1 \in 1..n /\ i + 1 # 1
      BY <1>1
    <3> QED BY <1>1, <2>1, <3>1
  <2>4. Head(s) \notin Elements(t)
    BY <1>1, <1>3, <2>3
  <2>5. Distinct(t)
    BY <1>1, <2>2 DEF Distinct
  <2> QED BY <2>4, <2>5
<1> QED BY <1>1, <1>2, <1>4, <1>5, <1>6, <1>7 DEF t, n

LEMMA ElementsPrefix ==
    ASSUME NEW S, NEW s \in Seq(S), NEW k \in 0..Len(s)
    PROVE  /\ Elements(SubSeq(s, 1, k)) \subseteq Elements(s)
           /\ Distinct(s) => Distinct(SubSeq(s, 1, k))
<1> DEFINE t == SubSeq(s, 1, k)
           n == Len(s)
<1>1. n \in Nat /\ k \in Nat /\ k <= n
  BY LenProperties
<1>2. \A i \in 1..k : s[i] \in S
  BY <1>1, ElementOfSeq
<1>3. Len(t) = k /\ \A i \in 1..k : t[i] = s[i]
  BY <1>1, <1>2, SubSeqProperties
<1>4. \A i \in 1..k : i \in 1..n
  BY <1>1
<1> HIDE DEF t, n
<1>5. Elements(t) \subseteq Elements(s)
  BY <1>3, <1>4 DEF Elements, n
<1>6. Distinct(s) => Distinct(t)
  BY <1>3, <1>4 DEF Distinct, n
<1> QED BY <1>5, <1>6 DEF t

LEMMA NoElements ==
    ASSUME NEW S, NEW s \in Seq(S)
    PROVE  /\ Elements(s) \subseteq S
           /\ Elements(s) = {} => s = <<>>
<1>1. Elements(s) \subseteq S
  BY ElementOfSeq DEF Elements
<1>2. CASE s # <<>>
  <2>1. Head(s) \in Elements(s)
    BY <1>2, ElementsTail
  <2> QED BY <1>1, <2>1
<1> QED BY <1>1, <1>2

-----------------------------------------------------------------------------
(* What a client's variables hold, and what cancelled calls do.            *)

LEMMA Numbers ==
    /\ IdSpace \in Nat \ {0} /\ MaxCalls \in Nat
    /\ Calls \subseteq Nat /\ NoCall \notin Calls /\ NoCall \notin Nat
    /\ \A n \in Nat : n % IdSpace \in Ids
    /\ Ids \subseteq Nat
<1>1. \A n \in Nat : n % IdSpace \in Nat /\ n % IdSpace < IdSpace
  BY MessageAssumption, DivisionAlgorithm
<1> QED BY <1>1, MessageAssumption DEF Calls, NoCall, Ids

LEMMA ClientTypes ==
    ASSUME TypeOK, NEW c \in Clients
    PROVE  /\ c2s[c] \in Seq(Request) /\ s2c[c] \in Seq(Reply) /\ lost[c] \in BOOLEAN
           /\ next_id[c] \in Ids /\ calls[c] \in Nat /\ calls[c] <= MaxCalls
           /\ pending[c] \in Calls \cup {NoCall} /\ op[c] \in RequestTypes
           /\ outbuf[c] \in Seq(Request) /\ inbox[c] \in Seq(Reply) /\ chan[c] \in Seq(Reply)
           /\ received[c] \in Nat
           /\ outcome[c] \in [Calls -> {"idle", "pending", "ok", "err", "cancelled"}]
           /\ reply_listeners[c] \in [Ids -> Calls \cup {NoCall}]
           /\ task[c] \in [Calls -> Task]
           /\ executed[c] \in [Calls -> {"no", "ok", "err"}]
<1>1. calls[c] \in 0..MaxCalls
  BY DEF TypeOK, ClientTypeOK
<1>2. /\ outbuf[c] \in Seq(Request) /\ inbox[c] \in Seq(Reply) /\ received[c] \in Nat
      /\ next_id[c] \in Ids /\ pending[c] \in Calls \cup {NoCall} /\ op[c] \in RequestTypes
      /\ outcome[c] \in [Calls -> {"idle", "pending", "ok", "err", "cancelled"}]
      /\ reply_listeners[c] \in [Ids -> Calls \cup {NoCall}]
  BY DEF TypeOK, ClientTypeOK
<1>3. c2s[c] \in Seq(Request) /\ s2c[c] \in Seq(Reply) /\ lost[c] \in BOOLEAN
  BY DEF TypeOK, TransportTypeOK
<1>4. /\ chan[c] \in Seq(Reply) /\ task[c] \in [Calls -> Task]
      /\ executed[c] \in [Calls -> {"no", "ok", "err"}]
  BY DEF TypeOK, ServerTypeOK
<1> QED BY <1>1, <1>2, <1>3, <1>4

\* The messages that a client's sequences hold.
LEMMA MessageTypes ==
    ASSUME TypeOK, NEW c \in Clients
    PROVE  /\ OnTheWay(c) \subseteq Request
           /\ Replies(c) \subseteq Reply
           /\ \A m \in OnTheWay(c) \cup Replies(c) : m.call \in Calls /\ m.request_id \in Ids
           /\ \A n \in Calls : task[c][n].out \subseteq Reply
<1>1. OnTheWay(c) \subseteq Request
  BY ClientTypes, NoElements DEF OnTheWay
<1>2. Replies(c) \subseteq Reply
  BY ClientTypes, NoElements DEF Replies, Underway
<1>3. \A n \in Calls : task[c][n].out \subseteq Reply
  BY ClientTypes DEF Task
<1> QED BY <1>1, <1>2, <1>3 DEF Request, Reply

LEMMA SameIdProperties ==
    ASSUME NEW k \in Nat, NEW l \in Nat, NEW n \in Nat
    PROVE  /\ SameId(n, n)
           /\ SameId(k, l) /\ SameId(l, n) => SameId(k, n)
  BY DEF SameId

LEMMA TaintSpreads ==
    ASSUME NEW c, NEW k \in Calls, NEW n \in Calls, SameId(k, n), Tainted(c, k)
    PROVE  Tainted(c, n)
  BY Numbers, SameIdProperties DEF Tainted

\* Cancelled calls stay cancelled.
LEMMA TaintKept ==
    ASSUME NEW c, \A k \in Calls : outcome[c][k] = "cancelled" => outcome'[c][k] = "cancelled"
    PROVE  /\ \A n : Tainted(c, n) => Tainted(c, n)'
           /\ \A k, n : MayAnswer(c, k, n) => MayAnswer(c, k, n)'
<1>1. \A n : Tainted(c, n) => Tainted(c, n)'
  BY DEF Tainted
<1> QED BY <1>1 DEF MayAnswer

LEMMA TaintSame ==
    ASSUME NEW c, outcome'[c] = outcome[c]
    PROVE  /\ \A n : Tainted(c, n)' <=> Tainted(c, n)
           /\ \A k, n : MayAnswer(c, k, n)' <=> MayAnswer(c, k, n)
<1>1. \A n : Tainted(c, n)' <=> Tainted(c, n)
  BY DEF Tainted
<1> QED BY <1>1 DEF MayAnswer

\* A call that is not tainted is given nothing but replies to itself.
LEMMA OwnReplies ==
    ASSUME NEW c, NEW k \in Calls, NEW n \in Calls, MayAnswer(c, k, n), ~Tainted(c, n)
    PROVE  k = n
  BY TaintSpreads DEF MayAnswer

-----------------------------------------------------------------------------
(* A step of one client leaves the others alone.                           *)

SameRest(d) ==
    /\ c2s'[d] = c2s[d] /\ s2c'[d] = s2c[d] /\ lost'[d] = lost[d]
    /\ session'[d] = session[d] /\ next_id'[d] = next_id[d]
    /\ reply_listeners'[d] = reply_listeners[d] /\ calls'[d] = calls[d]
    /\ pending'[d] = pending[d] /\ op'[d] = op[d] /\ outbuf'[d] = outbuf[d]
    /\ inbox'[d] = inbox[d] /\ received'[d] = received[d] /\ outcome'[d] = outcome[d]
    /\ task'[d] = task[d] /\ chan'[d] = chan[d] /\ executed'[d] = executed[d]

\* Each part of the invariant depends on some of the variables only.
LEMMA SameParts ==
    ASSUME NEW d, CallInv(d)
    PROVE  /\ /\ next_id'[d] = next_id[d] /\ reply_listeners'[d] = reply_listeners[d]
              /\ calls'[d] = calls[d]
              => IdInv(d)'
           /\ /\ pending'[d] = pending[d] /\ calls'[d] = calls[d] /\ outcome'[d] = outcome[d]
              /\ session'[d] = session[d] /\ op'[d] = op[d]
              => HistoryInv(d)'
           /\ /\ c2s'[d] = c2s[d] /\ outbuf'[d] = outbuf[d] /\ calls'[d] = calls[d]
              /\ task'[d] = task[d] /\ pending'[d] = pending[d]
              => RequestInv(d)'
           /\ /\ calls'[d] = calls[d] /\ task'[d] = task[d] /\ executed'[d] = executed[d]
              => TasksInv(d)'
           /\ /\ inbox'[d] = inbox[d] /\ s2c'[d] = s2c[d] /\ chan'[d] = chan[d]
              /\ task'[d] = task[d] /\ executed'[d] = executed[d]
              => ReplyInv(d)'
           /\ /\ pending'[d] = pending[d] /\ outcome'[d] = outcome[d] /\ executed'[d] = executed[d]
              /\ received'[d] = received[d] /\ inbox'[d] = inbox[d] /\ s2c'[d] = s2c[d]
              /\ chan'[d] = chan[d] /\ task'[d] = task[d]
              => CountInv(d)'
<1>1. ASSUME next_id'[d] = next_id[d], reply_listeners'[d] = reply_listeners[d], calls'[d] = calls[d]
      PROVE  IdInv(d)'
  BY <1>1 DEF CallInv, IdInv
<1>2. ASSUME pending'[d] = pending[d], calls'[d] = calls[d], outcome'[d] = outcome[d],
             session'[d] = session[d], op'[d] = op[d]
      PROVE  HistoryInv(d)'
  BY <1>2 DEF CallInv, HistoryInv
<1>3. ASSUME c2s'[d] = c2s[d], outbuf'[d] = outbuf[d], calls'[d] = calls[d], task'[d] = task[d],
             pending'[d] = pending[d]
      PROVE  RequestInv(d)'
  BY <1>3 DEF CallInv, RequestInv, OnTheWay
<1>4. ASSUME calls'[d] = calls[d], task'[d] = task[d], executed'[d] = executed[d]
      PROVE  TasksInv(d)'
  BY <1>4 DEF CallInv, TasksInv
<1>5. ASSUME inbox'[d] = inbox[d], s2c'[d] = s2c[d], chan'[d] = chan[d], task'[d] = task[d],
             executed'[d] = executed[d]
      PROVE  ReplyInv(d)'
  BY <1>5 DEF CallInv, ReplyInv, Replies, Underway, Genuine
<1>6. ASSUME pending'[d] = pending[d], outcome'[d] = outcome[d], executed'[d] = executed[d],
             received'[d] = received[d], inbox'[d] = inbox[d], s2c'[d] = s2c[d],
             chan'[d] = chan[d], task'[d] = task[d]
      PROVE  CountInv(d)'
  <2>1. Tainted(d, pending[d])' <=> Tainted(d, pending[d])
    BY <1>6 DEF Tainted
  <2>2. Awaited(d)' = Awaited(d)
    BY <1>6 DEF Awaited, Replies, Underway
  <2> QED BY <1>6, <2>1, <2>2 DEF CallInv, CountInv
<1> QED BY <1>1, <1>2, <1>3, <1>4, <1>5, <1>6

LEMMA OtherClient ==
    ASSUME NEW d, CallInv(d), SameRest(d)
    PROVE  CallInv(d)'
<1>1. IdInv(d)' /\ HistoryInv(d)'
  BY SameParts DEF SameRest
<1>2. RequestInv(d)' /\ TasksInv(d)' /\ ReplyInv(d)' /\ CountInv(d)'
  BY SameParts DEF SameRest
<1>3. FlightInv(d)'
  <2>1. /\ \A n : Tainted(d, n)' <=> Tainted(d, n)
        /\ \A k, n : MayAnswer(d, k, n)' <=> MayAnswer(d, k, n)
    BY TaintSame DEF SameRest
  <2> QED BY <2>1 DEF SameRest, CallInv, FlightInv, Underway
<1> QED BY <1>1, <1>2, <1>3 DEF CallInv

LEMMA LocalStep ==
    ASSUME TypeOK, NEW c \in Clients,
           \/ User(c) \/ Network(c) \/ CallStep(c) \/ LoopStep(c)
           \/ ReaderStep(c) \/ (\E n \in Calls : TaskStep(c, n)) \/ WriterStep(c),
           NEW d \in Clients \ {c}
    PROVE  SameRest(d)
<1> USE DEF SameRest, transportVars, clientVars, serverVars
<1>0. /\ DOMAIN c2s = Clients /\ DOMAIN s2c = Clients /\ DOMAIN lost = Clients
      /\ DOMAIN session = Clients /\ DOMAIN next_id = Clients /\ DOMAIN reply_listeners = Clients
      /\ DOMAIN calls = Clients /\ DOMAIN pending = Clients /\ DOMAIN op = Clients
      /\ DOMAIN outbuf = Clients /\ DOMAIN inbox = Clients /\ DOMAIN received = Clients
      /\ DOMAIN outcome = Clients /\ DOMAIN task = Clients /\ DOMAIN chan = Clients
      /\ DOMAIN executed = Clients
  BY DEF TypeOK, TransportTypeOK, ClientTypeOK, ServerTypeOK
<1>1. CASE User(c)
  <2>1. CASE \E type \in {"InitReq"} \cup Ops[c] : StartCall(c, type)
    BY <1>0, <1>1, <2>1 DEF User, StartCall, SendMsg, Register
  <2>2. CASE CancelCall(c)
    BY <1>0, <1>1, <2>2 DEF User, CancelCall, EndCall
  <2>3. CASE CloseSession(c)
    BY <1>0, <1>1, <2>3 DEF User, CloseSession
  <2> QED BY <1>1, <2>1, <2>2, <2>3 DEF User
<1>2. CASE Network(c)
  BY <1>0, <1>2 DEF Network, LoseConnection
<1>3. CASE CallStep(c)
  <2>1. CASE Flush(c) \/ FlushLost(c)
    BY <1>0, <1>3, <2>1 DEF CallStep, Flush, FlushLost
  <2>2. CASE FlushErr(c)
    BY <1>0, <1>3, <2>2 DEF CallStep, FlushErr, EndCall, FailSession
  <2>3. CASE ConsumeInit(c)
    BY <1>0, <1>3, <2>3 DEF CallStep, ConsumeInit, EndCall, FailSession
  <2>4. CASE ConsumeError(c) \/ ConsumeReply(c)
    BY <1>0, <1>3, <2>4 DEF CallStep, ConsumeError, ConsumeReply, EndCall
  <2>5. CASE ConsumeChunk(c) \/ ConsumeOther(c)
    BY <1>0, <1>3, <2>5 DEF CallStep, ConsumeChunk, ConsumeOther, EndCall
  <2> QED BY <1>3, <2>1, <2>2, <2>3, <2>4, <2>5 DEF CallStep
<1>4. CASE LoopStep(c)
  BY <1>0, <1>4 DEF LoopStep, Deliver, DropStale, DropUnknown, ReceiveEof
<1>5. CASE ReaderStep(c)
  BY <1>0, <1>5 DEF ReaderStep, ReadRequest, ReadEof
<1>6. ASSUME NEW n \in Calls, TaskStep(c, n) PROVE SameRest(d)
  BY <1>0, <1>6 DEF TaskStep, HandleInit, LockFs, Execute, SendReply, EndTask, Advance
<1>7. CASE WriterStep(c)
  BY <1>0, <1>7 DEF WriterStep, WriterSend, WriterSendErr, WriterExit
<1> QED BY <1>1, <1>2, <1>3, <1>4, <1>5, <1>6, <1>7

-----------------------------------------------------------------------------
(* The way of a request.                                                   *)

LEMMA InitCalls == Init => CallsInv
<1> SUFFICES ASSUME Init, NEW c \in Clients PROVE CallInv(c)
  BY DEF CallsInv
<1>1. /\ next_id[c] = 0 /\ reply_listeners[c] = [i \in Ids |-> NoCall] /\ calls[c] = 0
      /\ pending[c] = NoCall /\ outcome[c] = [n \in Calls |-> "idle"] /\ session[c] = "new"
      /\ c2s[c] = <<>> /\ outbuf[c] = <<>> /\ s2c[c] = <<>> /\ inbox[c] = <<>> /\ chan[c] = <<>>
      /\ task[c] = [n \in Calls |-> NoTask] /\ executed[c] = [n \in Calls |-> "no"]
  BY DEF Init, TransportInit, ClientInit, ServerInit
<1>2. /\ Elements(c2s[c]) = {} /\ Elements(outbuf[c]) = {} /\ Elements(s2c[c]) = {}
      /\ Elements(inbox[c]) = {} /\ Elements(chan[c]) = {}
      /\ Distinct(c2s[c]) /\ Distinct(outbuf[c]) /\ Distinct(s2c[c]) /\ Distinct(inbox[c])
      /\ Distinct(chan[c])
  BY <1>1, ElementsEmpty
<1>3. OnTheWay(c) = {} /\ Replies(c) = {} /\ Underway(c) = {}
  BY <1>2 DEF OnTheWay, Replies, Underway
<1>4. \A n \in Calls : task[c][n].pc = "none" /\ task[c][n].out = {} /\ executed[c][n] = "no"
  BY <1>1 DEF NoTask
<1>5. IdInv(c)
  <2>1. 0 % IdSpace = 0
    BY MessageAssumption
  <2> QED BY <1>1, <2>1 DEF IdInv
<1>6. HistoryInv(c)
  <2>1. 0 \in Calls
    BY MessageAssumption DEF Calls
  <2>2. \A n \in Calls : n >= 0 /\ n # NoCall
    BY Numbers
  <2> QED BY <1>1, <2>1, <2>2 DEF HistoryInv
<1>7. RequestInv(c)
  BY <1>1, <1>2, <1>3 DEF RequestInv
<1>8. TasksInv(c)
  BY <1>4 DEF TasksInv
<1>9. ReplyInv(c)
  BY <1>2, <1>3, <1>4 DEF ReplyInv
<1>10. FlightInv(c)
  BY <1>2, <1>3, <1>4 DEF FlightInv
<1>11. CountInv(c)
  BY <1>1 DEF CountInv
<1> QED BY <1>5, <1>6, <1>7, <1>8, <1>9, <1>10, <1>11 DEF CallInv

\* Of what is answered, nothing is on its way any more.
LEMMA Answered ==
    ASSUME TypeOK, NEW c \in Clients, CallInv(c), NEW m \in Reply, Genuine(c, m)
    PROVE  /\ m.call \in Calls /\ executed[c][m.call] # "no"
           /\ task[c][m.call].pc \in {"sending", "done"}
           /\ m.call < calls[c]
           /\ \A k \in OnTheWay(c) : k.call # m.call
<1>1. m.call \in Calls
  BY DEF Reply
<1>2. executed[c][m.call] # "no"
  BY DEF Genuine, AnswerIn
<1>3. task[c][m.call] \in Task
  BY <1>1, ClientTypes
<1>4. task[c][m.call].pc \in {"sending", "done"}
  BY <1>1, <1>2, <1>3 DEF CallInv, TasksInv, Task
<1>5. m.call < calls[c]
  BY <1>1, <1>4 DEF CallInv, TasksInv
<1>6. \A k \in OnTheWay(c) : k.call # m.call
  BY <1>4 DEF CallInv, RequestInv
<1> QED BY <1>1, <1>2, <1>4, <1>5, <1>6

LEMMA StartCalls ==
    ASSUME TypeOK, NEW c \in Clients, CallInv(c), NEW type \in RequestTypes,
           StartCall(c, type), UNCHANGED serverVars
    PROVE  CallInv(c)'
<1> DEFINE n == calls[c]
           id == next_id[c]
           r == [type |-> type, request_id |-> id, call |-> n]
<1>1. /\ pending[c] = NoCall /\ n < MaxCalls
      /\ (session[c] = "new" /\ type = "InitReq") \/ (session[c] = "ready" /\ type # "InitReq")
  <2>1. Ops[c] \subseteq RequestTypes \ {"InitReq"}
    BY ClientAssumption
  <2> QED BY <2>1 DEF StartCall
<1>2. /\ reply_listeners'[c] = [reply_listeners[c] EXCEPT ![id] = n]
      /\ next_id'[c] = (id + 1) % IdSpace
      /\ outbuf'[c] = Append(outbuf[c], r)
      /\ pending'[c] = n /\ op'[c] = type /\ inbox'[c] = <<>> /\ received'[c] = 0
      /\ calls'[c] = n + 1 /\ outcome'[c] = [outcome[c] EXCEPT ![n] = "pending"]
      /\ session'[c] = session[c] /\ c2s'[c] = c2s[c] /\ s2c'[c] = s2c[c] /\ lost'[c] = lost[c]
  BY DEF StartCall, SendMsg, Register, transportVars, TypeOK, ClientTypeOK
<1>3. task'[c] = task[c] /\ chan'[c] = chan[c] /\ executed'[c] = executed[c]
  BY DEF serverVars
<1>4. n \in Nat /\ n \in Calls /\ NoCall # n
  <2>1. n \in Nat /\ MaxCalls \in Nat
    BY ClientTypes, Numbers
  <2>2. n \in Calls
    BY <1>1, <2>1 DEF Calls
  <2> QED BY <2>1, <2>2, Numbers
<1>5. id = n % IdSpace /\ id \in Ids
  BY ClientTypes DEF CallInv, IdInv
<1>6. IdInv(c)'
  <2>1. next_id'[c] = (n + 1) % IdSpace
    BY <1>2, <1>4, <1>5, NextRemainder, MessageAssumption
  <2>2. ASSUME NEW i \in Ids, reply_listeners'[c][i] # NoCall
        PROVE  reply_listeners'[c][i] < n + 1 /\ reply_listeners'[c][i] % IdSpace = i
    <3>1. CASE i = id
      BY <1>2, <1>4, <1>5, <3>1, ClientTypes
    <3>2. CASE i # id
      <4>1. reply_listeners'[c][i] = reply_listeners[c][i]
        BY <1>2, <3>2, ClientTypes
      <4>2. reply_listeners[c][i] \in Calls
        BY <2>2, <4>1, ClientTypes
      <4>3. reply_listeners[c][i] < n /\ reply_listeners[c][i] % IdSpace = i
        BY <2>2, <4>1 DEF CallInv, IdInv
      <4>4. reply_listeners[c][i] \in Nat
        BY <4>2, Numbers
      <4>5. reply_listeners[c][i] < n + 1
        BY <1>4, <4>3, <4>4
      <4> QED BY <4>1, <4>3, <4>5
    <3> QED BY <3>1, <3>2
  <2> QED BY <1>2, <2>1, <2>2 DEF IdInv
<1>7. /\ \A k \in Calls : outcome[c][k] = "idle" <=> k >= n
      /\ \A k \in Calls : outcome[c][k] # "pending"
      /\ session[c] = "new" => n = 0
      /\ session[c] # "new" => n >= 1
      /\ outcome[c][0] # "cancelled"
  BY <1>1, <1>4, Numbers DEF CallInv, HistoryInv
<1>8. /\ \A k \in Calls : k # n => outcome'[c][k] = outcome[c][k]
      /\ outcome'[c][n] = "pending"
  BY <1>2, <1>4, ClientTypes
<1>9. HistoryInv(c)'
  <2>1. pending'[c] = calls'[c] - 1 /\ pending'[c] # NoCall
    BY <1>2, <1>4
  <2>2. ASSUME NEW k \in Calls PROVE outcome'[c][k] = "idle" <=> k >= calls'[c]
    <3>1. CASE k = n
      BY <1>2, <1>4, <1>8, <3>1
    <3>2. CASE k # n
      <4>1. k \in Nat
        BY Numbers
      <4> QED BY <1>2, <1>4, <1>7, <1>8, <3>2, <4>1
    <3> QED BY <3>1, <3>2
  <2>3. ASSUME NEW k \in Calls PROVE outcome'[c][k] = "pending" <=> k = pending'[c]
    BY <1>2, <1>7, <1>8
  <2>4. /\ session'[c] = "new" => calls'[c] <= 1
        /\ calls'[c] >= 1
        /\ op'[c] = "InitReq" <=> pending'[c] = 0
        /\ session'[c] = "new" <=> pending'[c] = 0
    BY <1>1, <1>2, <1>4, <1>7
  <2>5. outcome'[c][0] # "cancelled"
    <3>1. 0 \in Calls
      BY MessageAssumption DEF Calls
    <3> QED BY <1>7, <1>8, <3>1
  <2> QED BY <2>1, <2>2, <2>3, <2>4, <2>5 DEF HistoryInv
<1>10. /\ r \in Request /\ r.call = n /\ r.request_id = n % IdSpace /\ r.type = type
       /\ task[c][n].pc = "none" /\ task[c][n].out = {} /\ executed[c][n] = "no"
  <2>1. r \in Request
    BY <1>4, <1>5 DEF Request
  <2>2. task[c][n].pc = "none"
    BY <1>4 DEF CallInv, TasksInv
  <2> QED BY <1>4, <1>5, <2>1, <2>2 DEF CallInv, TasksInv
<1> HIDE DEF r
<1>11. r \notin OnTheWay(c)
  BY <1>4, <1>10 DEF CallInv, RequestInv
<1>12. /\ Elements(outbuf'[c]) = Elements(outbuf[c]) \cup {r}
       /\ Distinct(outbuf'[c])
       /\ outbuf'[c][Len(outbuf'[c])] = r
  <2>1. outbuf[c] \in Seq(Request) /\ Distinct(outbuf[c]) /\ r \notin Elements(outbuf[c])
    BY <1>11, ClientTypes DEF CallInv, RequestInv, OnTheWay
  <2>2. /\ Elements(Append(outbuf[c], r)) = Elements(outbuf[c]) \cup {r}
        /\ Distinct(Append(outbuf[c], r))
    BY <1>10, <2>1, ElementsAppend
  <2>3. Append(outbuf[c], r)[Len(Append(outbuf[c], r))] = r
    BY <1>10, <2>1, AppendProperties
  <2> QED BY <1>2, <2>2, <2>3
<1>13. OnTheWay(c)' = OnTheWay(c) \cup {r}
  BY <1>2, <1>12 DEF OnTheWay
<1>14. RequestInv(c)'
  <2>1. /\ Distinct(c2s[c])' /\ Distinct(outbuf[c])'
        /\ (Elements(c2s[c]) \cap Elements(outbuf[c]))' = {}
    BY <1>2, <1>11, <1>12 DEF CallInv, RequestInv, OnTheWay
  <2>2. ASSUME NEW m \in OnTheWay(c)
        PROVE  /\ m.call < n /\ m.call \in Nat
               /\ m.request_id = m.call % IdSpace
               /\ m.type = "InitReq" <=> m.call = 0
               /\ task[c][m.call].pc = "none"
    BY MessageTypes, Numbers DEF CallInv, RequestInv
  <2>3. ASSUME NEW m \in OnTheWay(c)'
        PROVE  /\ m.call < calls'[c]
               /\ m.request_id = m.call % IdSpace
               /\ m.type = "InitReq" <=> m.call = 0
               /\ task'[c][m.call].pc = "none"
    <3>1. CASE m = r
      BY <1>1, <1>2, <1>3, <1>4, <1>7, <1>10, <3>1
    <3>2. CASE m \in OnTheWay(c)
      BY <1>2, <1>3, <1>4, <2>2, <3>2
    <3> QED BY <1>13, <3>1, <3>2
  <2>4. ASSUME NEW m \in OnTheWay(c)', NEW k \in OnTheWay(c)', m.call = k.call PROVE m = k
    <3>1. \A j \in OnTheWay(c) : j.call # n
      BY <1>4, <2>2
    <3> QED BY <1>10, <1>13, <2>4, <3>1 DEF CallInv, RequestInv
  <2>5. outbuf'[c][Len(outbuf'[c])].call = pending'[c]
    BY <1>2, <1>10, <1>12
  <2> QED BY <2>1, <2>3, <2>4, <2>5 DEF RequestInv
<1>15. TasksInv(c)'
  <2>1. ASSUME NEW k \in Calls, k < n PROVE k < calls'[c]
    <3>1. k \in Nat
      BY Numbers
    <3>2. k < n + 1
      BY <1>4, <2>1, <3>1
    <3> QED BY <1>2, <3>2
  <2> QED BY <1>3, <2>1 DEF CallInv, TasksInv
<1>16. /\ Elements(inbox'[c]) = {} /\ Distinct(inbox'[c])
       /\ Underway(c)' = Underway(c) /\ Replies(c)' = Underway(c) /\ Underway(c) \subseteq Replies(c)
  BY <1>2, <1>3, ElementsEmpty DEF Replies, Underway
<1>17. ReplyInv(c)'
  BY <1>2, <1>3, <1>16 DEF CallInv, ReplyInv, Genuine
<1>18. \A k : Tainted(c, k) => Tainted(c, k)'
  <2>1. \A k \in Calls : outcome[c][k] = "cancelled" => outcome'[c][k] = "cancelled"
    BY <1>4, <1>7, <1>8, Numbers
  <2> QED BY <2>1, TaintKept
<1>19. FlightInv(c)'
  <2>1. \A m \in OnTheWay(c) \cup Underway(c) : m.call # NoCall
    BY <1>16, MessageTypes, Numbers
  <2>2. /\ \A m \in Elements(c2s[c]) : Tainted(c, m.call)
        /\ \A m \in Elements(outbuf[c]) : Tainted(c, m.call) \/ lost[c]
        /\ \A m \in Underway(c) : Tainted(c, m.call)
    BY <1>1, <2>1 DEF CallInv, FlightInv, OnTheWay
  <2>3. \A k \in Calls : task[c][k].pc \in {"spawned", "queued"} \/ task[c][k].out # {} => Tainted(c, k)
    BY <1>1, Numbers DEF CallInv, FlightInv
  <2> QED BY <1>2, <1>3, <1>10, <1>12, <1>16, <1>18, <2>2, <2>3 DEF FlightInv
<1>20. CountInv(c)'
  <2>1. ASSUME NEW m \in Underway(c) PROVE m.call # n
    <3>1. m \in Reply /\ Genuine(c, m)
      BY <1>16, MessageTypes DEF CallInv, ReplyInv
    <3> QED BY <1>10, <3>1, Answered
  <2>2. Awaited(c)' = {}
    BY <1>2, <1>3, <1>10, <1>16, <2>1 DEF Awaited
  <2> QED BY <1>2, <2>2, FS_EmptySet DEF CountInv
<1> QED BY <1>6, <1>9, <1>14, <1>15, <1>17, <1>19, <1>20 DEF CallInv

-----------------------------------------------------------------------------
(* Steps that move messages on or lose them.                               *)

\* Replies are moved on or lost.
LEMMA FewerReplies ==
    ASSUME NEW c, CallInv(c), task'[c] = task[c], executed'[c] = executed[c],
           Distinct(inbox[c])', Distinct(s2c[c])', Distinct(chan[c])',
           (Elements(inbox[c]) \cap Underway(c) = {})',
           (Elements(s2c[c]) \cap Elements(chan[c]) = {})',
           Replies(c)' \subseteq Replies(c)
    PROVE  ReplyInv(c)'
<1>1. \A m : Genuine(c, m)' <=> Genuine(c, m)
  BY DEF Genuine
<1>2. /\ \A m \in Replies(c) : Genuine(c, m)
      /\ \A n \in Calls : \A m \in task[c][n].out :
           Genuine(c, m) /\ m.call = n /\ m \notin Replies(c)
  BY DEF CallInv, ReplyInv
<1>3. \A m \in Replies(c)' : Genuine(c, m)'
  BY <1>1, <1>2
<1>4. \A n \in Calls : \A m \in task'[c][n].out :
        Genuine(c, m)' /\ m.call = n /\ m \notin Replies(c)'
  BY <1>1, <1>2
<1> QED BY <1>3, <1>4 DEF ReplyInv

\* Messages come no nearer to a call than they were, but for its inbox.
LEMMA FewerUnderway ==
    ASSUME NEW c, CallInv(c), pending'[c] = pending[c], outcome'[c] = outcome[c],
           task'[c] = task[c], lost[c] => lost'[c],
           \A m \in Elements(c2s[c])' : m \in Elements(c2s[c]) \/ (m \in Elements(outbuf[c]) /\ ~lost[c]),
           Elements(outbuf[c])' \subseteq Elements(outbuf[c]),
           Underway(c)' \subseteq Underway(c),
           \A m \in Elements(inbox[c])' : m \in Elements(inbox[c]) \/ MayAnswer(c, m.call, pending[c])
    PROVE  FlightInv(c)'
<1>1. /\ \A n : Tainted(c, n)' <=> Tainted(c, n)
      /\ \A k, n : MayAnswer(c, k, n)' <=> MayAnswer(c, k, n)
  BY TaintSame
<1>2. \A m \in Elements(c2s[c])' : m.call = pending'[c] \/ Tainted(c, m.call)'
  BY <1>1 DEF CallInv, FlightInv
<1>3. \A m \in Elements(outbuf[c])' : m.call = pending'[c] \/ Tainted(c, m.call)' \/ lost'[c]
  BY <1>1 DEF CallInv, FlightInv
<1>4. \A n \in Calls : task'[c][n].pc \in {"spawned", "queued"} \/ task'[c][n].out # {} =>
         n = pending'[c] \/ Tainted(c, n)'
  BY <1>1 DEF CallInv, FlightInv
<1>5. \A m \in Underway(c)' : m.call = pending'[c] \/ Tainted(c, m.call)'
  BY <1>1 DEF CallInv, FlightInv
<1>6. \A m \in Elements(inbox[c])' : MayAnswer(c, m.call, pending[c])'
  BY <1>1 DEF CallInv, FlightInv
<1> QED BY <1>2, <1>3, <1>4, <1>5, <1>6 DEF FlightInv

\* Fewer replies are awaited.
LEMMA FewerAwaited ==
    ASSUME TypeOK, NEW c \in Clients, CallInv(c), pending'[c] = pending[c], outcome'[c] = outcome[c],
           executed'[c] = executed[c], task'[c] = task[c], received'[c] = received[c],
           Replies(c)' \subseteq Replies(c)
    PROVE  CountInv(c)'
<1> SUFFICES ASSUME pending[c] # NoCall, ~Tainted(c, pending[c])
             PROVE  /\ executed[c][pending[c]] = "no" => received[c] = 0
                    /\ IsFiniteSet(Awaited(c)')
                    /\ \A m \in Awaited(c)' :
                         Cardinality(Awaited(c)') + received[c] <= IF m.total = 0 THEN 1 ELSE m.total
  BY TaintSame DEF CountInv
<1>1. /\ executed[c][pending[c]] = "no" => received[c] = 0
      /\ IsFiniteSet(Awaited(c))
      /\ \A m \in Awaited(c) :
           Cardinality(Awaited(c)) + received[c] <= IF m.total = 0 THEN 1 ELSE m.total
  BY DEF CallInv, CountInv
<1>2. Awaited(c)' \subseteq Awaited(c)
  BY DEF Awaited
<1>3. /\ IsFiniteSet(Awaited(c)') /\ Cardinality(Awaited(c)') <= Cardinality(Awaited(c))
      /\ Cardinality(Awaited(c)') \in Nat /\ Cardinality(Awaited(c)) \in Nat
  BY <1>1, <1>2, FS_Subset, FS_CardinalityType
<1>4. ASSUME NEW m \in Awaited(c)'
      PROVE  Cardinality(Awaited(c)') + received[c] <= IF m.total = 0 THEN 1 ELSE m.total
  <2>1. pending[c] \in Calls
    BY ClientTypes
  <2>2. m \in Reply
    BY <1>2, <2>1, MessageTypes DEF Awaited
  <2>3. m.total \in Nat
    BY <2>2, MessageAssumption DEF Reply
  <2>4. Cardinality(Awaited(c)) + received[c] <= IF m.total = 0 THEN 1 ELSE m.total
    BY <1>1, <1>2
  <2>5. received[c] \in Nat
    BY ClientTypes
  <2> DEFINE t == IF m.total = 0 THEN 1 ELSE m.total
  <2>6. t \in Nat
    BY <2>3
  <2> HIDE DEF t
  <2>7. Cardinality(Awaited(c)) + received[c] <= t
    BY <2>4 DEF t
  <2>8. Cardinality(Awaited(c)') + received[c] <= t
    BY <1>3, <2>5, <2>6, <2>7
  <2> QED BY <2>8 DEF t
<1> QED BY <1>1, <1>3, <1>4

LEMMA FlushCalls ==
    ASSUME TypeOK, NEW c \in Clients, CallInv(c), Flush(c) \/ FlushLost(c), UNCHANGED serverVars
    PROVE  CallInv(c)'
<1> DEFINE m == Head(outbuf[c])
<1>1. /\ pending[c] # NoCall /\ outbuf[c] # <<>>
      /\ outbuf'[c] = Tail(outbuf[c])
      /\ \/ ~lost[c] /\ c2s'[c] = Append(c2s[c], m)
         \/ lost[c] /\ c2s'[c] = c2s[c]
      /\ s2c'[c] = s2c[c] /\ lost'[c] = lost[c]
  BY DEF Flush, FlushLost, Sending, transportVars, TypeOK, ClientTypeOK, TransportTypeOK
<1>2. /\ next_id'[c] = next_id[c] /\ reply_listeners'[c] = reply_listeners[c]
      /\ calls'[c] = calls[c] /\ pending'[c] = pending[c] /\ outcome'[c] = outcome[c]
      /\ session'[c] = session[c] /\ op'[c] = op[c] /\ inbox'[c] = inbox[c]
      /\ received'[c] = received[c]
      /\ task'[c] = task[c] /\ chan'[c] = chan[c] /\ executed'[c] = executed[c]
  BY DEF Flush, FlushLost, serverVars
<1>3. IdInv(c)' /\ HistoryInv(c)'
  BY <1>2, SameParts
<1>4. TasksInv(c)' /\ ReplyInv(c)' /\ CountInv(c)'
  BY <1>1, <1>2, SameParts
<1>5. /\ outbuf[c] \in Seq(Request) /\ c2s[c] \in Seq(Request)
      /\ Distinct(outbuf[c]) /\ Distinct(c2s[c])
      /\ Elements(c2s[c]) \cap Elements(outbuf[c]) = {}
  BY ClientTypes DEF CallInv, RequestInv
<1>6. /\ m \in Elements(outbuf[c]) /\ m \in Request
      /\ Elements(outbuf[c]) = Elements(outbuf'[c]) \cup {m}
      /\ Distinct(outbuf'[c]) /\ m \notin Elements(outbuf'[c])
      /\ outbuf'[c] \in Seq(Request) /\ Len(outbuf'[c]) = Len(outbuf[c]) - 1
  BY <1>1, <1>5, ElementsTail
<1> HIDE DEF m
<1>7. /\ Distinct(c2s'[c]) /\ Elements(c2s'[c]) \cap Elements(outbuf'[c]) = {}
      /\ \A k \in Elements(c2s'[c]) : k \in Elements(c2s[c]) \/ (k \in Elements(outbuf[c]) /\ ~lost[c])
      /\ OnTheWay(c)' \subseteq OnTheWay(c)
  <2>1. CASE ~lost[c] /\ c2s'[c] = Append(c2s[c], m)
    <3>1. Elements(c2s'[c]) = Elements(c2s[c]) \cup {m} /\ Distinct(c2s'[c])
      <4>1. m \notin Elements(c2s[c])
        BY <1>5, <1>6
      <4> QED BY <1>5, <1>6, <2>1, <4>1, ElementsAppend
    <3> QED BY <1>5, <1>6, <2>1, <3>1 DEF OnTheWay
  <2>2. CASE lost[c] /\ c2s'[c] = c2s[c]
    BY <1>5, <1>6, <2>2 DEF OnTheWay
  <2> QED BY <1>1, <2>1, <2>2 DEF m
<1>8. RequestInv(c)'
  <2>1. ASSUME outbuf'[c] # <<>> PROVE outbuf'[c][Len(outbuf'[c])].call = pending'[c]
    <3>1. Len(outbuf[c]) \in Nat /\ Len(outbuf'[c]) \in Nat /\ Len(outbuf'[c]) # 0
      BY <1>5, <1>6, <2>1, LenProperties, EmptySeq
    <3>2. outbuf'[c][Len(outbuf'[c])] = outbuf[c][Len(outbuf'[c]) + 1]
      <4>1. \A i \in 1..Len(outbuf'[c]) : outbuf'[c][i] = outbuf[c][i + 1]
        BY <1>1, <1>5, HeadTailProperties
      <4>2. Len(outbuf'[c]) \in 1..Len(outbuf'[c])
        BY <3>1
      <4> QED BY <4>1, <4>2
    <3>3. Len(outbuf'[c]) + 1 = Len(outbuf[c])
      BY <1>6, <3>1
    <3> QED BY <1>1, <1>2, <3>2, <3>3 DEF CallInv, RequestInv
  <2> QED BY <1>2, <1>6, <1>7, <2>1 DEF CallInv, RequestInv
<1>9. FlightInv(c)'
  <2>1. Underway(c)' = Underway(c) /\ Elements(inbox[c])' = Elements(inbox[c])
    BY <1>1, <1>2 DEF Underway
  <2>2. Elements(outbuf[c])' \subseteq Elements(outbuf[c])
    BY <1>6
  <2> QED BY <1>1, <1>2, <1>7, <2>1, <2>2, FewerUnderway
<1> QED BY <1>3, <1>4, <1>8, <1>9 DEF CallInv

LEMMA CloseCalls ==
    ASSUME TypeOK, NEW c \in Clients, CallInv(c), CloseSession(c), UNCHANGED serverVars
    PROVE  CallInv(c)'
<1>1. /\ pending[c] = NoCall /\ session[c] = "ready" /\ session'[c] = "closed" /\ outbuf'[c] = <<>>
  BY DEF CloseSession, TypeOK, ClientTypeOK
<1>2. /\ next_id'[c] = next_id[c] /\ reply_listeners'[c] = reply_listeners[c]
      /\ calls'[c] = calls[c] /\ pending'[c] = pending[c] /\ outcome'[c] = outcome[c]
      /\ op'[c] = op[c] /\ inbox'[c] = inbox[c] /\ received'[c] = received[c]
      /\ c2s'[c] = c2s[c] /\ s2c'[c] = s2c[c] /\ lost'[c] = lost[c]
      /\ task'[c] = task[c] /\ chan'[c] = chan[c] /\ executed'[c] = executed[c]
  BY DEF CloseSession, serverVars
<1>3. IdInv(c)' /\ TasksInv(c)' /\ ReplyInv(c)'
  BY <1>2, SameParts
<1>4. CountInv(c)'
  BY <1>2, SameParts
<1>5. HistoryInv(c)'
  BY <1>1, <1>2 DEF CallInv, HistoryInv
<1>6. Elements(outbuf'[c]) = {} /\ Distinct(outbuf'[c])
  BY <1>1, ElementsEmpty
<1>7. OnTheWay(c)' \subseteq OnTheWay(c)
  BY <1>2, <1>6 DEF OnTheWay
<1>8. RequestInv(c)'
  BY <1>1, <1>2, <1>6, <1>7 DEF CallInv, RequestInv
<1>9. FlightInv(c)'
  <2>1. Underway(c)' = Underway(c) /\ Elements(inbox[c])' = Elements(inbox[c])
    BY <1>2 DEF Underway
  <2> QED BY <1>2, <1>6, <2>1, FewerUnderway
<1> QED BY <1>3, <1>4, <1>5, <1>8, <1>9 DEF CallInv

LEMMA LoseCalls ==
    ASSUME TypeOK, NEW c \in Clients, CallInv(c), LoseConnection(c),
           UNCHANGED <<clientVars, serverVars>>
    PROVE  CallInv(c)'
<1>1. PICK i \in 0..Len(c2s[c]), j \in 0..Len(s2c[c]) :
        /\ c2s'[c] = SubSeq(c2s[c], 1, i)
        /\ s2c'[c] = SubSeq(s2c[c], 1, j)
        /\ lost'[c] = TRUE
  BY DEF LoseConnection, TypeOK, TransportTypeOK
<1>2. /\ next_id'[c] = next_id[c] /\ reply_listeners'[c] = reply_listeners[c]
      /\ calls'[c] = calls[c] /\ pending'[c] = pending[c] /\ outcome'[c] = outcome[c]
      /\ session'[c] = session[c] /\ op'[c] = op[c] /\ inbox'[c] = inbox[c]
      /\ received'[c] = received[c] /\ outbuf'[c] = outbuf[c]
      /\ task'[c] = task[c] /\ chan'[c] = chan[c] /\ executed'[c] = executed[c]
  BY DEF clientVars, serverVars
<1>3. IdInv(c)' /\ HistoryInv(c)' /\ TasksInv(c)'
  BY <1>2, SameParts
<1>4. Elements(c2s'[c]) \subseteq Elements(c2s[c]) /\ Distinct(c2s'[c])
  <2>1. c2s[c] \in Seq(Request) /\ Distinct(c2s[c])
    BY ClientTypes DEF CallInv, RequestInv
  <2> QED BY <1>1, <2>1, ElementsPrefix
<1>5. Elements(s2c'[c]) \subseteq Elements(s2c[c]) /\ Distinct(s2c'[c])
  <2>1. s2c[c] \in Seq(Reply) /\ Distinct(s2c[c])
    BY ClientTypes DEF CallInv, ReplyInv
  <2> QED BY <1>1, <2>1, ElementsPrefix
<1>6. OnTheWay(c)' \subseteq OnTheWay(c)
  BY <1>2, <1>4 DEF OnTheWay
<1>7. RequestInv(c)'
  BY <1>2, <1>4, <1>6 DEF CallInv, RequestInv
<1>8. Underway(c)' \subseteq Underway(c) /\ Replies(c)' \subseteq Replies(c)
  BY <1>2, <1>5 DEF Underway, Replies
<1>9. ReplyInv(c)'
  <2>1. /\ Distinct(inbox[c]) /\ Distinct(chan[c]) /\ Elements(inbox[c]) \cap Underway(c) = {}
        /\ Elements(s2c[c]) \cap Elements(chan[c]) = {}
    BY DEF CallInv, ReplyInv
  <2>2. /\ (Elements(inbox[c]) \cap Underway(c) = {})'
        /\ (Elements(s2c[c]) \cap Elements(chan[c]) = {})'
        /\ Distinct(inbox[c])' /\ Distinct(s2c[c])' /\ Distinct(chan[c])'
    BY <1>2, <1>5, <1>8, <2>1
  <2> QED BY <1>2, <1>8, <2>2, FewerReplies
<1>10. FlightInv(c)'
  BY <1>1, <1>2, <1>4, <1>8, FewerUnderway
<1>11. CountInv(c)'
  BY <1>2, <1>8, FewerAwaited
<1> QED BY <1>3, <1>7, <1>9, <1>10, <1>11 DEF CallInv

LEMMA ReadRequestCalls ==
    ASSUME TypeOK, NEW c \in Clients, CallInv(c), ReadRequest(c), UNCHANGED clientVars
    PROVE  CallInv(c)'
<1> DEFINE m == Head(c2s[c])
           n == m.call
<1>1. c2s[c] \in Seq(Request) /\ c2s[c] # <<>> /\ Distinct(c2s[c])
  BY ClientTypes DEF ReadRequest, CallInv, RequestInv
<1>2. /\ m \in Elements(c2s[c]) /\ m \in Request
      /\ Elements(c2s[c]) = Elements(Tail(c2s[c])) \cup {m}
      /\ Distinct(Tail(c2s[c])) /\ m \notin Elements(Tail(c2s[c]))
  BY <1>1, ElementsTail
<1>3. n \in Calls
  BY <1>2 DEF Request
<1>4. /\ c2s'[c] = Tail(c2s[c])
      /\ task'[c] = [task[c] EXCEPT ![n] =
           [pc |-> "spawned", type |-> m.type, request_id |-> m.request_id, out |-> {}]]
      /\ s2c'[c] = s2c[c] /\ lost'[c] = lost[c] /\ chan'[c] = chan[c] /\ executed'[c] = executed[c]
  BY DEF ReadRequest, TypeOK, TransportTypeOK, ServerTypeOK
<1>5. /\ next_id'[c] = next_id[c] /\ reply_listeners'[c] = reply_listeners[c]
      /\ calls'[c] = calls[c] /\ pending'[c] = pending[c] /\ outcome'[c] = outcome[c]
      /\ session'[c] = session[c] /\ op'[c] = op[c] /\ inbox'[c] = inbox[c]
      /\ received'[c] = received[c] /\ outbuf'[c] = outbuf[c]
  BY DEF clientVars
<1> HIDE DEF m
<1>6. /\ task'[c][n].pc = "spawned" /\ task'[c][n].type = m.type
      /\ task'[c][n].request_id = m.request_id /\ task'[c][n].out = {}
      /\ \A k \in Calls : k # n => task'[c][k] = task[c][k]
  BY <1>3, <1>4, ClientTypes
<1>7. m \in OnTheWay(c)
  BY <1>2 DEF OnTheWay
<1>8. /\ task[c][n].pc = "none" /\ n < calls[c] /\ m.request_id = n % IdSpace
      /\ m.type = "InitReq" <=> n = 0
  BY <1>7 DEF CallInv, RequestInv
<1>9. task[c][n].out = {} /\ executed[c][n] = "no"
  BY <1>3, <1>8 DEF CallInv, TasksInv
<1>10. \A k \in Calls : task'[c][k].out = task[c][k].out
  BY <1>6, <1>9
<1>11. IdInv(c)' /\ HistoryInv(c)'
  BY <1>5, SameParts
<1>12. OnTheWay(c)' \subseteq OnTheWay(c) /\ \A k \in OnTheWay(c)' : k # m
  BY <1>2, <1>4, <1>5 DEF OnTheWay, CallInv, RequestInv
<1>13. RequestInv(c)'
  <2>1. \A k \in OnTheWay(c)' : k.call # n /\ k.call \in Calls
    BY <1>7, <1>12, MessageTypes DEF CallInv, RequestInv
  <2>2. \A k \in OnTheWay(c)' : task'[c][k.call].pc = "none"
    BY <1>6, <1>12, <2>1 DEF CallInv, RequestInv
  <2>3. \A k \in OnTheWay(c)' : /\ k.call < calls'[c]
                                /\ k.request_id = k.call % IdSpace
                                /\ k.type = "InitReq" <=> k.call = 0
    BY <1>5, <1>12 DEF CallInv, RequestInv
  <2>4. \A k, l \in OnTheWay(c)' : k.call = l.call => k = l
    BY <1>12 DEF CallInv, RequestInv
  <2>5. Elements(c2s'[c]) \cap Elements(outbuf'[c]) = {} /\ Distinct(c2s'[c]) /\ Distinct(outbuf'[c])
    BY <1>2, <1>4, <1>5 DEF CallInv, RequestInv
  <2> QED BY <1>5, <2>2, <2>3, <2>4, <2>5 DEF CallInv, RequestInv
<1>14. TasksInv(c)'
  <2> SUFFICES ASSUME NEW k \in Calls
               PROVE  /\ task'[c][k].pc # "none" =>
                           /\ k < calls'[c]
                           /\ task'[c][k].request_id = k % IdSpace
                           /\ task'[c][k].type = "InitReq" <=> k = 0
                      /\ executed'[c][k] = "no" <=> task'[c][k].pc \in {"none", "spawned", "queued"}
                      /\ task'[c][k].pc = "queued" => k # 0
                      /\ task'[c][k].pc # "sending" => task'[c][k].out = {}
    BY DEF TasksInv
  <2>1. CASE k = n
    BY <1>4, <1>5, <1>6, <1>8, <1>9, <2>1
  <2>2. CASE k # n
    BY <1>4, <1>5, <1>6, <2>2 DEF CallInv, TasksInv
  <2> QED BY <2>1, <2>2
<1>15. Underway(c)' = Underway(c) /\ Replies(c)' = Replies(c)
  BY <1>4, <1>5 DEF Underway, Replies
<1>16. ReplyInv(c)'
  <2>1. \A k : Genuine(c, k)' <=> Genuine(c, k)
    BY <1>4 DEF Genuine
  <2>2. \A k \in Calls : \A l \in task'[c][k].out :
          Genuine(c, l)' /\ l.call = k /\ l \notin Replies(c)'
    BY <1>10, <1>15, <2>1 DEF CallInv, ReplyInv
  <2> QED BY <1>4, <1>5, <1>15, <2>1, <2>2 DEF CallInv, ReplyInv
<1>17. FlightInv(c)'
  <2>1. /\ \A k : Tainted(c, k)' <=> Tainted(c, k)
        /\ \A k, l : MayAnswer(c, k, l)' <=> MayAnswer(c, k, l)
    BY <1>5, TaintSame
  <2>2. n = pending[c] \/ Tainted(c, n)
    BY <1>2 DEF CallInv, FlightInv
  <2>3. \A k \in Calls : task'[c][k].pc \in {"spawned", "queued"} \/ task'[c][k].out # {} =>
          k = pending'[c] \/ Tainted(c, k)'
    <3> SUFFICES ASSUME NEW k \in Calls, k # n,
                        task'[c][k].pc \in {"spawned", "queued"} \/ task'[c][k].out # {}
                 PROVE  k = pending[c] \/ Tainted(c, k)
      BY <1>5, <2>1, <2>2
    <3> QED BY <1>6 DEF CallInv, FlightInv
  <2>4. \A k \in Elements(c2s'[c]) : k.call = pending'[c] \/ Tainted(c, k.call)'
    BY <1>2, <1>4, <1>5, <2>1 DEF CallInv, FlightInv
  <2>5. \A k \in Elements(outbuf'[c]) : k.call = pending'[c] \/ Tainted(c, k.call)' \/ lost'[c]
    BY <1>4, <1>5, <2>1 DEF CallInv, FlightInv
  <2>6. /\ \A k \in Underway(c)' : k.call = pending'[c] \/ Tainted(c, k.call)'
        /\ \A k \in Elements(inbox'[c]) : MayAnswer(c, k.call, pending[c])'
    BY <1>5, <1>15, <2>1 DEF CallInv, FlightInv
  <2> QED BY <2>3, <2>4, <2>5, <2>6 DEF FlightInv
<1>18. CountInv(c)'
  <2> SUFFICES ASSUME pending[c] # NoCall, ~Tainted(c, pending[c])
               PROVE  /\ executed'[c][pending[c]] = "no" => received'[c] = 0
                      /\ IsFiniteSet(Awaited(c)')
                      /\ \A l \in Awaited(c)' :
                           Cardinality(Awaited(c)') + received'[c] <= IF l.total = 0 THEN 1 ELSE l.total
    BY <1>5, TaintSame DEF CountInv
  <2>1. pending[c] \in Calls
    BY ClientTypes
  <2>2. Awaited(c)' = Awaited(c)
    BY <1>5, <1>10, <1>15, <2>1 DEF Awaited
  <2> QED BY <1>4, <1>5, <2>2 DEF CallInv, CountInv
<1> QED BY <1>11, <1>13, <1>14, <1>16, <1>17, <1>18 DEF CallInv

LEMMA WriterCalls ==
    ASSUME TypeOK, NEW c \in Clients, CallInv(c), WriterSend(c) \/ WriterSendErr(c),
           UNCHANGED clientVars
    PROVE  CallInv(c)'
<1> DEFINE m == Head(chan[c])
<1>1. /\ chan[c] # <<>> /\ chan'[c] = Tail(chan[c])
      /\ s2c'[c] = Append(s2c[c], m) \/ s2c'[c] = s2c[c]
      /\ c2s'[c] = c2s[c] /\ lost'[c] = lost[c] /\ task'[c] = task[c] /\ executed'[c] = executed[c]
  BY DEF WriterSend, WriterSendErr, transportVars, TypeOK, TransportTypeOK, ServerTypeOK
<1>2. /\ next_id'[c] = next_id[c] /\ reply_listeners'[c] = reply_listeners[c]
      /\ calls'[c] = calls[c] /\ pending'[c] = pending[c] /\ outcome'[c] = outcome[c]
      /\ session'[c] = session[c] /\ op'[c] = op[c] /\ inbox'[c] = inbox[c]
      /\ received'[c] = received[c] /\ outbuf'[c] = outbuf[c]
  BY DEF clientVars
<1>3. /\ s2c[c] \in Seq(Reply) /\ chan[c] \in Seq(Reply)
      /\ Distinct(s2c[c]) /\ Distinct(chan[c]) /\ Distinct(inbox[c])
      /\ Elements(s2c[c]) \cap Elements(chan[c]) = {}
      /\ Elements(inbox[c]) \cap Underway(c) = {}
  BY ClientTypes DEF CallInv, ReplyInv
<1>4. /\ m \in Elements(chan[c]) /\ m \in Reply
      /\ Elements(chan[c]) = Elements(chan'[c]) \cup {m}
      /\ Distinct(chan'[c]) /\ m \notin Elements(chan'[c])
  BY <1>1, <1>3, ElementsTail
<1>5. /\ Elements(s2c'[c]) \subseteq Elements(s2c[c]) \cup {m}
      /\ Distinct(s2c'[c])
  <2>1. m \notin Elements(s2c[c])
    BY <1>3, <1>4
  <2>2. /\ Elements(Append(s2c[c], m)) = Elements(s2c[c]) \cup {m}
        /\ Distinct(Append(s2c[c], m))
    BY <1>3, <1>4, <2>1, ElementsAppend
  <2> QED BY <1>1, <1>3, <2>2
<1> HIDE DEF m
<1>6. Underway(c)' \subseteq Underway(c) /\ Replies(c)' \subseteq Replies(c)
  BY <1>2, <1>4, <1>5 DEF Underway, Replies
<1>7. IdInv(c)' /\ HistoryInv(c)' /\ RequestInv(c)' /\ TasksInv(c)'
  BY <1>1, <1>2, SameParts
<1>8. ReplyInv(c)'
  <2>1. /\ (Elements(inbox[c]) \cap Underway(c) = {})'
        /\ (Elements(s2c[c]) \cap Elements(chan[c]) = {})'
        /\ Distinct(inbox[c])' /\ Distinct(s2c[c])' /\ Distinct(chan[c])'
    BY <1>2, <1>3, <1>4, <1>5, <1>6
  <2> QED BY <1>1, <1>6, <2>1, FewerReplies
<1>9. FlightInv(c)'
  BY <1>1, <1>2, <1>6, FewerUnderway
<1>10. CountInv(c)'
  BY <1>1, <1>2, <1>6, FewerAwaited
<1> QED BY <1>7, <1>8, <1>9, <1>10 DEF CallInv

\* A listener is the last call that was made with its ID: a reply that it is
\* given belongs to it, or to an earlier call with this ID that is tainted.
LEMMA Routed ==
    ASSUME TypeOK, NEW c \in Clients, CallInv(c), s2c[c] # <<>>, Listener(c) # NoCall,
           Listener(c) = pending[c]
    PROVE  MayAnswer(c, Head(s2c[c]).call, pending[c])
<1> DEFINE m == Head(s2c[c])
           n == m.call
           p == pending[c]
<1>1. m \in Elements(s2c[c]) /\ m \in Reply
  BY ClientTypes, ElementsTail
<1>2. m \in Underway(c) /\ m \in Replies(c)
  BY <1>1 DEF Underway, Replies
<1>3. Genuine(c, m) /\ (n = p \/ Tainted(c, n))
  BY <1>2 DEF CallInv, ReplyInv, FlightInv
<1>4. n \in Calls /\ m.request_id \in Ids /\ n \in Nat /\ p \in Nat /\ calls[c] \in Nat
  BY <1>1, ClientTypes, Numbers DEF Reply
<1>5. p = calls[c] - 1
  BY DEF CallInv, HistoryInv
<1>6. n < calls[c]
  BY <1>1, <1>3, Answered
<1>7. n <= p
  BY <1>4, <1>5, <1>6
<1>8. p % IdSpace = m.request_id
  BY <1>4 DEF Listener, CallInv, IdInv
<1>9. SameId(n, p)
  BY <1>3, <1>7, <1>8 DEF SameId, Genuine
<1> QED BY <1>3, <1>9 DEF MayAnswer

LEMMA LoopCalls ==
    ASSUME TypeOK, NEW c \in Clients, CallInv(c), Deliver(c) \/ DropStale(c) \/ DropUnknown(c),
           UNCHANGED serverVars
    PROVE  CallInv(c)'
<1> DEFINE m == Head(s2c[c])
           i == m.request_id
<1>1. /\ s2c[c] # <<>> /\ s2c'[c] = Tail(s2c[c])
      /\ c2s'[c] = c2s[c] /\ lost'[c] = lost[c]
  BY DEF Deliver, DropStale, DropUnknown, Receiving, TypeOK, TransportTypeOK
<1>2. /\ \/ /\ inbox'[c] = Append(inbox[c], m)
            /\ Listener(c) # NoCall /\ Listener(c) = pending[c]
         \/ inbox'[c] = inbox[c]
      /\ \/ reply_listeners'[c] = reply_listeners[c]
         \/ reply_listeners'[c] = [reply_listeners[c] EXCEPT ![i] = NoCall]
  BY DEF Deliver, DropStale, DropUnknown, clientVars, TypeOK, ClientTypeOK
<1>3. /\ next_id'[c] = next_id[c]
      /\ calls'[c] = calls[c] /\ pending'[c] = pending[c] /\ outcome'[c] = outcome[c]
      /\ session'[c] = session[c] /\ op'[c] = op[c] /\ received'[c] = received[c]
      /\ outbuf'[c] = outbuf[c]
      /\ task'[c] = task[c] /\ chan'[c] = chan[c] /\ executed'[c] = executed[c]
  BY DEF Deliver, DropStale, DropUnknown, clientVars, serverVars
<1>4. /\ s2c[c] \in Seq(Reply) /\ inbox[c] \in Seq(Reply)
      /\ Distinct(s2c[c]) /\ Distinct(chan[c]) /\ Distinct(inbox[c])
      /\ Elements(s2c[c]) \cap Elements(chan[c]) = {}
      /\ Elements(inbox[c]) \cap Underway(c) = {}
  BY ClientTypes DEF CallInv, ReplyInv
<1>5. /\ m \in Elements(s2c[c]) /\ m \in Reply
      /\ Elements(s2c[c]) = Elements(s2c'[c]) \cup {m}
      /\ Distinct(s2c'[c]) /\ m \notin Elements(s2c'[c])
  BY <1>1, <1>4, ElementsTail
<1>6. m \in Underway(c) /\ m \notin Elements(inbox[c])
  BY <1>4, <1>5 DEF Underway
<1>7. /\ Distinct(inbox'[c])
      /\ \A k \in Elements(inbox'[c]) :
           k \in Elements(inbox[c]) \/ (k = m /\ MayAnswer(c, k.call, pending[c]))
  <2>1. CASE inbox'[c] = inbox[c]
    BY <1>4, <2>1
  <2>2. CASE /\ inbox'[c] = Append(inbox[c], m)
             /\ Listener(c) # NoCall /\ Listener(c) = pending[c]
    <3>1. MayAnswer(c, m.call, pending[c])
      BY <1>1, <2>2, Routed
    <3>2. Elements(inbox'[c]) = Elements(inbox[c]) \cup {m} /\ Distinct(inbox'[c])
      BY <1>4, <1>5, <1>6, <2>2, ElementsAppend
    <3> QED BY <3>1, <3>2
  <2> QED BY <1>2, <2>1, <2>2
<1>8. IdInv(c)'
  <2> SUFFICES ASSUME NEW j \in Ids, reply_listeners'[c][j] # NoCall
               PROVE  reply_listeners'[c][j] = reply_listeners[c][j]
    BY <1>3 DEF CallInv, IdInv
  <2>1. i \in Ids
    BY <1>5 DEF Reply
  <2> HIDE DEF i
  <2> QED BY <1>2, <2>1, ClientTypes
<1> HIDE DEF m
<1>9. Underway(c)' \subseteq Underway(c) /\ Replies(c)' \subseteq Replies(c)
  BY <1>3, <1>5, <1>6, <1>7 DEF Underway, Replies
<1>10. HistoryInv(c)' /\ RequestInv(c)' /\ TasksInv(c)'
  BY <1>1, <1>3, SameParts
<1>11. ReplyInv(c)'
  <2>1. m \notin Underway(c)'
    BY <1>3, <1>4, <1>5 DEF Underway
  <2>2. (Elements(inbox[c]) \cap Underway(c) = {})'
    BY <1>4, <1>7, <1>9, <2>1
  <2>3. /\ (Elements(s2c[c]) \cap Elements(chan[c]) = {})'
        /\ Distinct(inbox[c])' /\ Distinct(s2c[c])' /\ Distinct(chan[c])'
    BY <1>3, <1>4, <1>5, <1>7
  <2> QED BY <1>3, <1>9, <2>2, <2>3, FewerReplies
<1>12. FlightInv(c)'
  BY <1>1, <1>3, <1>7, <1>9, FewerUnderway
<1>13. CountInv(c)'
  BY <1>3, <1>9, FewerAwaited
<1> QED BY <1>8, <1>10, <1>11, <1>12, <1>13 DEF CallInv

-----------------------------------------------------------------------------
(* The call in progress takes a reply from its inbox.                      *)

\* The reply at the head of the inbox.  If the call is not tainted it is one
\* of the awaited replies, each of which says how many they can be.
LEMMA Taken ==
    ASSUME TypeOK, NEW c \in Clients, CallInv(c), pending[c] # NoCall, inbox[c] # <<>>,
           NEW m, m = Head(inbox[c])
    PROVE  /\ m \in Reply /\ m \in Elements(inbox[c]) /\ m \in Replies(c)
           /\ Genuine(c, m) /\ MayAnswer(c, m.call, pending[c])
           /\ pending[c] \in Calls
           /\ ~Tainted(c, pending[c]) =>
                /\ m.call = pending[c] /\ m \in Awaited(c)
                /\ executed[c][pending[c]] # "no"
                /\ IsFiniteSet(Awaited(c)) /\ Cardinality(Awaited(c)) \in Nat
                /\ \A k \in Awaited(c) :
                     Cardinality(Awaited(c)) + received[c] <= IF k.total = 0 THEN 1 ELSE k.total
<1>1. m \in Reply /\ m \in Elements(inbox[c])
  BY ClientTypes, ElementsTail
<1>2. m \in Replies(c)
  BY <1>1 DEF Replies
<1>3. Genuine(c, m) /\ MayAnswer(c, m.call, pending[c])
  BY <1>1, <1>2 DEF CallInv, ReplyInv, FlightInv
<1>4. pending[c] \in Calls /\ m.call \in Calls
  BY <1>1, ClientTypes DEF Reply
<1>5. ASSUME ~Tainted(c, pending[c])
      PROVE  /\ m.call = pending[c] /\ m \in Awaited(c)
             /\ executed[c][pending[c]] # "no"
             /\ IsFiniteSet(Awaited(c)) /\ Cardinality(Awaited(c)) \in Nat
             /\ \A k \in Awaited(c) :
                  Cardinality(Awaited(c)) + received[c] <= IF k.total = 0 THEN 1 ELSE k.total
  <2>1. m.call = pending[c]
    BY <1>3, <1>4, <1>5, OwnReplies
  <2>2. m \in Awaited(c)
    BY <1>2, <2>1 DEF Awaited
  <2>3. executed[c][pending[c]] # "no"
    BY <1>1, <1>3, <2>1, Answered
  <2>4. /\ IsFiniteSet(Awaited(c))
        /\ \A k \in Awaited(c) :
             Cardinality(Awaited(c)) + received[c] <= IF k.total = 0 THEN 1 ELSE k.total
    BY <1>5 DEF CallInv, CountInv
  <2> QED BY <2>1, <2>2, <2>3, <2>4, FS_CardinalityType
<1> QED BY <1>1, <1>2, <1>3, <1>4, <1>5

\* It takes the reply and waits for more.
LEMMA TakeCalls ==
    ASSUME TypeOK, NEW c \in Clients, CallInv(c), pending[c] # NoCall, inbox[c] # <<>>,
           inbox'[c] = Tail(inbox[c]),
           received'[c] = received[c] \/ received'[c] = received[c] + 1,
           next_id'[c] = next_id[c], reply_listeners'[c] = reply_listeners[c],
           calls'[c] = calls[c], pending'[c] = pending[c], outcome'[c] = outcome[c],
           session'[c] = session[c], op'[c] = op[c], outbuf'[c] = outbuf[c],
           UNCHANGED <<transportVars, serverVars>>
    PROVE  CallInv(c)'
<1> DEFINE m == Head(inbox[c])
<1>1. /\ c2s'[c] = c2s[c] /\ s2c'[c] = s2c[c] /\ lost'[c] = lost[c]
      /\ task'[c] = task[c] /\ chan'[c] = chan[c] /\ executed'[c] = executed[c]
  BY DEF transportVars, serverVars
<1>2. IdInv(c)' /\ HistoryInv(c)' /\ RequestInv(c)' /\ TasksInv(c)'
  BY <1>1, SameParts
<1>3. /\ inbox[c] \in Seq(Reply)
      /\ Distinct(s2c[c]) /\ Distinct(chan[c]) /\ Distinct(inbox[c])
      /\ Elements(s2c[c]) \cap Elements(chan[c]) = {}
      /\ Elements(inbox[c]) \cap Underway(c) = {}
  BY ClientTypes DEF CallInv, ReplyInv
<1>4. /\ Elements(inbox[c]) = Elements(inbox'[c]) \cup {m}
      /\ Distinct(inbox'[c]) /\ m \notin Elements(inbox'[c])
  BY <1>3, ElementsTail
<1>5. Underway(c)' = Underway(c)
  BY <1>1 DEF Underway
<1>6. Replies(c)' \subseteq Replies(c)
  BY <1>4, <1>5 DEF Replies
<1>7. ReplyInv(c)'
  <2>1. /\ (Elements(inbox[c]) \cap Underway(c) = {})'
        /\ (Elements(s2c[c]) \cap Elements(chan[c]) = {})'
        /\ Distinct(inbox[c])' /\ Distinct(s2c[c])' /\ Distinct(chan[c])'
    BY <1>1, <1>3, <1>4, <1>5
  <2> QED BY <1>1, <1>6, <2>1, FewerReplies
<1>8. FlightInv(c)'
  BY <1>1, <1>4, <1>5, FewerUnderway
<1>9. CountInv(c)'
  <2> SUFFICES ASSUME ~Tainted(c, pending[c])
               PROVE  /\ executed[c][pending[c]] = "no" => received'[c] = 0
                      /\ IsFiniteSet(Awaited(c)')
                      /\ \A k \in Awaited(c)' :
                           Cardinality(Awaited(c)') + received'[c] <= IF k.total = 0 THEN 1 ELSE k.total
    BY <1>1, TaintSame DEF CountInv
  <2>1. /\ m \in Awaited(c) /\ pending[c] \in Calls
        /\ executed[c][pending[c]] # "no"
        /\ IsFiniteSet(Awaited(c)) /\ Cardinality(Awaited(c)) \in Nat
        /\ \A k \in Awaited(c) :
             Cardinality(Awaited(c)) + received[c] <= IF k.total = 0 THEN 1 ELSE k.total
    BY Taken
  <2>2. m \notin Replies(c)' /\ m \notin task[c][pending[c]].out
    <3>1. m \in Elements(inbox[c]) /\ m \in Replies(c)
      BY Taken
    <3>2. m \notin Underway(c)
      BY <1>3, <3>1
    <3>3. m \notin Replies(c)'
      BY <1>4, <1>5, <3>2 DEF Replies
    <3> QED BY <2>1, <3>1, <3>3 DEF CallInv, ReplyInv
  <2>3. Awaited(c)' \subseteq Awaited(c) \ {m}
    BY <1>1, <1>6, <2>2 DEF Awaited
  <2>4. /\ IsFiniteSet(Awaited(c) \ {m})
        /\ Cardinality(Awaited(c) \ {m}) = Cardinality(Awaited(c)) - 1
    BY <2>1, FS_RemoveElement
  <2>5. /\ IsFiniteSet(Awaited(c)') /\ Cardinality(Awaited(c)') \in Nat
        /\ Cardinality(Awaited(c)') <= Cardinality(Awaited(c)) - 1
    BY <2>3, <2>4, FS_Subset, FS_CardinalityType
  <2>6. ASSUME NEW k \in Awaited(c)'
        PROVE  Cardinality(Awaited(c)') + received'[c] <= IF k.total = 0 THEN 1 ELSE k.total
    <3> DEFINE t == IF k.total = 0 THEN 1 ELSE k.total
    <3>1. k \in Awaited(c)
      BY <2>3
    <3>2. k \in Reply
      BY <2>1, <3>1, MessageTypes DEF Awaited
    <3>3. t \in Nat
      BY <3>2, MessageAssumption DEF Reply
    <3>4. received[c] \in Nat
      BY ClientTypes
    <3>5. Cardinality(Awaited(c)) + received[c] <= t
      BY <2>1, <3>1
    <3> HIDE DEF t
    <3>6. Cardinality(Awaited(c)') + received'[c] <= t
      BY <2>1, <2>5, <3>3, <3>4, <3>5
    <3> QED BY <3>6 DEF t
  <2> QED BY <2>1, <2>5, <2>6
<1> QED BY <1>2, <1>7, <1>8, <1>9 DEF CallInv

\* Nothing of the call in progress is under way.
Clear(c) ==
    /\ \A m \in Elements(c2s[c]) : m.call # pending[c]
    /\ \A m \in Elements(outbuf[c]) : m.call # pending[c] \/ lost[c]
    /\ task[c][pending[c]].pc \notin {"spawned", "queued"} /\ task[c][pending[c]].out = {}
    /\ \A m \in Underway(c) : m.call # pending[c]

LEMMA EndCalls ==
    ASSUME TypeOK, NEW c \in Clients, CallInv(c), pending[c] # NoCall,
           NEW result \in {"ok", "err", "cancelled"},
           pending'[c] = NoCall, inbox'[c] = <<>>,
           outcome'[c] = [outcome[c] EXCEPT ![pending[c]] = result],
           next_id'[c] = next_id[c], reply_listeners'[c] = reply_listeners[c],
           calls'[c] = calls[c], outbuf'[c] = outbuf[c], c2s'[c] = c2s[c], s2c'[c] = s2c[c],
           lost'[c] = lost[c], UNCHANGED serverVars,
           session'[c] # "new",
           result = "cancelled" => pending[c] # 0,
           result = "cancelled" \/ Tainted(c, pending[c]) \/ Clear(c)
    PROVE  CallInv(c)'
<1>0. PICK p : p = pending[c]
  OBVIOUS
<1>1. task'[c] = task[c] /\ chan'[c] = chan[c] /\ executed'[c] = executed[c]
  BY DEF serverVars
<1>2. p \in Calls /\ p \in Nat /\ calls[c] \in Nat /\ p = calls[c] - 1 /\ outcome[c][p] = "pending"
  BY <1>0, ClientTypes, Numbers DEF CallInv, HistoryInv
<1>3. /\ outcome'[c][p] = result
      /\ \A k \in Calls : k # p => outcome'[c][k] = outcome[c][k]
  BY <1>0, <1>2, ClientTypes
<1>4. IdInv(c)' /\ TasksInv(c)'
  BY <1>1, SameParts
<1>5. HistoryInv(c)'
  <2>1. \A k \in Calls : outcome'[c][k] = "idle" <=> k >= calls'[c]
    <3>1. ~(p >= calls[c])
      BY <1>2
    <3> QED BY <1>3, <3>1 DEF CallInv, HistoryInv
  <2>2. \A k \in Calls : k # pending'[c] /\ outcome'[c][k] # "pending"
    BY <1>0, <1>3, Numbers DEF CallInv, HistoryInv
  <2>3. calls'[c] >= 1
    BY <1>2
  <2>4. outcome'[c][0] # "cancelled"
    <3>1. 0 \in Calls
      BY MessageAssumption DEF Calls
    <3> QED BY <1>0, <1>3, <3>1 DEF CallInv, HistoryInv
  <2> QED BY <2>1, <2>2, <2>3, <2>4 DEF HistoryInv
<1>6. RequestInv(c)'
  <2>1. OnTheWay(c)' = OnTheWay(c)
    BY DEF OnTheWay
  <2> QED BY <1>1, <2>1 DEF CallInv, RequestInv
<1>7. Elements(inbox'[c]) = {} /\ Distinct(inbox'[c]) /\ Underway(c)' = Underway(c)
  BY <1>1, ElementsEmpty DEF Underway
<1>8. ReplyInv(c)'
  <2>1. Replies(c)' \subseteq Replies(c)
    BY <1>7 DEF Replies
  <2>2. /\ (Elements(inbox[c]) \cap Underway(c) = {})'
        /\ (Elements(s2c[c]) \cap Elements(chan[c]) = {})'
        /\ Distinct(inbox[c])' /\ Distinct(s2c[c])' /\ Distinct(chan[c])'
    BY <1>1, <1>7 DEF CallInv, ReplyInv
  <2> QED BY <1>1, <2>1, <2>2, FewerReplies
<1>9. FlightInv(c)'
  <2>1. \A k : Tainted(c, k) => Tainted(c, k)'
    <3>1. \A k \in Calls : outcome[c][k] = "cancelled" => outcome'[c][k] = "cancelled"
      BY <1>2, <1>3
    <3> QED BY <3>1, TaintKept
  <2>2. CASE Tainted(c, p)'
    <3>1. /\ \A m \in Elements(c2s[c]) : Tainted(c, m.call)'
          /\ \A m \in Elements(outbuf[c]) : Tainted(c, m.call)' \/ lost[c]
      BY <1>0, <2>1, <2>2 DEF CallInv, FlightInv
    <3>2. \A k \in Calls : task[c][k].pc \in {"spawned", "queued"} \/ task[c][k].out # {} =>
            Tainted(c, k)'
      BY <1>0, <2>1, <2>2 DEF CallInv, FlightInv
    <3>3. \A m \in Underway(c) : Tainted(c, m.call)'
      BY <1>0, <2>1, <2>2 DEF CallInv, FlightInv
    <3> QED BY <1>1, <1>7, <3>1, <3>2, <3>3 DEF FlightInv
  <2>3. CASE Clear(c)
    <3>1. /\ \A m \in Elements(c2s[c]) : Tainted(c, m.call)'
          /\ \A m \in Elements(outbuf[c]) : Tainted(c, m.call)' \/ lost[c]
      BY <1>0, <2>1, <2>3 DEF CallInv, FlightInv, Clear
    <3>2. \A k \in Calls : task[c][k].pc \in {"spawned", "queued"} \/ task[c][k].out # {} =>
            Tainted(c, k)'
      BY <1>0, <2>1, <2>3 DEF CallInv, FlightInv, Clear
    <3>3. \A m \in Underway(c) : Tainted(c, m.call)'
      BY <1>0, <2>1, <2>3 DEF CallInv, FlightInv, Clear
    <3> QED BY <1>1, <1>7, <3>1, <3>2, <3>3 DEF FlightInv
  <2>4. result = "cancelled" => Tainted(c, p)'
    <3>1. SameId(p, p)
      BY <1>2, SameIdProperties
    <3> QED BY <1>2, <1>3, <3>1 DEF Tainted
  <2> QED BY <1>0, <2>1, <2>2, <2>3, <2>4
<1>10. CountInv(c)'
  BY DEF CountInv
<1> QED BY <1>4, <1>5, <1>6, <1>8, <1>9, <1>10 DEF CallInv

\* What taking a reply does: the call goes on, or it returns what the reply
\* says, and if the reply is the call's own it is the only or the last one.
LEMMA ConsumeEffect ==
    ASSUME TypeOK, NEW c \in Clients, CallInv(c), NEW m, m = Head(inbox[c]),
           ConsumeInit(c) \/ ConsumeError(c) \/ ConsumeReply(c) \/ ConsumeChunk(c) \/ ConsumeOther(c)
    PROVE  /\ pending[c] # NoCall /\ inbox[c] # <<>> /\ outbuf[c] = <<>>
           /\ UNCHANGED <<next_id, reply_listeners, calls, op, outbuf, c2s, s2c, lost>>
           /\ \/ /\ inbox'[c] = Tail(inbox[c])
                 /\ received'[c] = received[c] \/ received'[c] = received[c] + 1
                 /\ UNCHANGED <<session, pending, outcome, transportVars>>
              \/ /\ EndCall(c, AnswerIn(m))
                 /\ session'[c] # "new"
                 /\ ~Tainted(c, pending[c]) => m.total = 0 \/ received[c] + 1 = m.total
<1>1. pending[c] # NoCall /\ inbox[c] # <<>> /\ outbuf[c] = <<>>
  BY DEF ConsumeInit, ConsumeError, ConsumeReply, ConsumeChunk, ConsumeOther, Consuming
<1>2. /\ m \in Reply /\ Genuine(c, m) /\ MayAnswer(c, m.call, pending[c])
      /\ pending[c] \in Calls /\ m.call \in Calls
      /\ ~Tainted(c, pending[c]) => m.call = pending[c]
  <2>1. m \in Reply /\ Genuine(c, m) /\ MayAnswer(c, m.call, pending[c])
    BY <1>1, Taken
  <2>2. pending[c] \in Calls
    BY <1>1, Taken
  <2>3. ~Tainted(c, pending[c]) => m.call = pending[c]
    BY <1>1, Taken
  <2> QED BY <2>1, <2>2, <2>3 DEF Reply
<1>3. /\ op[c] = "InitReq" <=> pending[c] = 0
      /\ session[c] = "new" <=> pending[c] = 0
  BY <1>1 DEF CallInv, HistoryInv
<1>4. m.type # "ReadRes" => m.total = 0
  BY <1>2 DEF Genuine
<1>5. received[c] \in Nat /\ op[c] \in RequestTypes
  BY ClientTypes
<1>6. CASE ConsumeInit(c)
  <2>1. pending[c] = 0
    BY <1>3, <1>6 DEF ConsumeInit
  <2>2. m.call = 0
    <3>1. m.call \in Nat
      BY <1>2, Numbers
    <3>2. m.call = 0 \/ m.call <= 0
      BY <1>2, <2>1 DEF MayAnswer, SameId
    <3> QED BY <3>1, <3>2
  <2>3. m.type = "InitRes"
    BY <1>2, <2>2 DEF Genuine
  <2>4. /\ UNCHANGED <<next_id, reply_listeners, calls, op, outbuf, c2s, s2c, lost>>
        /\ session'[c] # "new"
        /\ m.accepted => EndCall(c, "ok")
        /\ ~m.accepted => EndCall(c, "err")
    BY <1>6, <2>3 DEF ConsumeInit, FailSession, TypeOK, ClientTypeOK
  <2>5. EndCall(c, AnswerIn(m))
    BY <2>3, <2>4 DEF AnswerIn
  <2> QED BY <1>1, <1>4, <2>3, <2>4, <2>5
<1>7. CASE ConsumeError(c)
  <2>1. /\ UNCHANGED <<next_id, reply_listeners, calls, op, outbuf, c2s, s2c, lost, session>>
        /\ EndCall(c, "err") /\ m.type = "Error" /\ op[c] # "InitReq"
    BY <1>7 DEF ConsumeError, transportVars
  <2>2. EndCall(c, AnswerIn(m))
    BY <2>1 DEF AnswerIn
  <2> QED BY <1>1, <1>3, <1>4, <2>1, <2>2
<1>8. CASE ConsumeReply(c)
  <2>1. /\ UNCHANGED <<next_id, reply_listeners, calls, op, outbuf, c2s, s2c, lost, session>>
        /\ EndCall(c, "ok") /\ m.type = ReplyTo(op[c]) /\ op[c] \notin ChunkedOps \cup {"InitReq"}
    BY <1>8 DEF ConsumeReply, transportVars
  <2>2. m.type \in {"LookupRes", "FileAttrRes", "StatsRes", "SuccessRes"}
    BY <1>5, <2>1 DEF ReplyTo, RequestTypes, DataReply, SuccessOps, ChunkedOps
  <2>3. EndCall(c, AnswerIn(m))
    BY <2>1, <2>2 DEF AnswerIn
  <2> QED BY <1>1, <1>3, <1>4, <2>1, <2>2, <2>3
<1>9. CASE ConsumeChunk(c)
  <2>1. /\ UNCHANGED <<next_id, reply_listeners, calls, op, outbuf, c2s, s2c, lost, session, transportVars>>
        /\ m.type = "ReadRes" /\ op[c] \in ChunkedOps
        /\ received'[c] = received[c] + DataLen(m)
        /\ IF received[c] + DataLen(m) = m.total
           THEN EndCall(c, "ok")
           ELSE inbox' = [inbox EXCEPT ![c] = Tail(@)] /\ UNCHANGED <<pending, outcome>>
    BY <1>9 DEF ConsumeChunk, transportVars, TypeOK, ClientTypeOK
  <2>2. session'[c] # "new"
    BY <1>3, <2>1 DEF ChunkedOps
  <2>3. DataLen(m) \in {0, 1} /\ (m.part # 0 => DataLen(m) = 1)
    BY DEF DataLen
  <2>4. m.total = 0 <=> m.part = 0
    BY <1>2 DEF Genuine
  <2>5. CASE received[c] + DataLen(m) = m.total
    <3>1. EndCall(c, AnswerIn(m))
      BY <2>1, <2>5 DEF AnswerIn
    <3>2. m.total = 0 \/ received[c] + 1 = m.total
      BY <2>3, <2>4, <2>5
    <3> QED BY <1>1, <2>1, <2>2, <3>1, <3>2
  <2>6. CASE received[c] + DataLen(m) # m.total
    <3>1. inbox'[c] = Tail(inbox[c]) /\ UNCHANGED <<session, pending, outcome, transportVars>>
      BY <2>1, <2>6 DEF TypeOK, ClientTypeOK
    <3>2. received'[c] = received[c] \/ received'[c] = received[c] + 1
      BY <1>5, <2>1, <2>3
    <3> QED BY <1>1, <2>1, <3>1, <3>2
  <2> QED BY <2>5, <2>6
<1>10. CASE ConsumeOther(c)
  BY <1>1, <1>10 DEF ConsumeOther, transportVars, TypeOK, ClientTypeOK
<1> QED BY <1>6, <1>7, <1>8, <1>9, <1>10

\* A call that returns on a reply of its own leaves nothing behind.
LEMMA LastReply ==
    ASSUME TypeOK, NEW c \in Clients, CallInv(c), pending[c] # NoCall, inbox[c] # <<>>,
           outbuf[c] = <<>>, NEW m, m = Head(inbox[c]), ~Tainted(c, pending[c]),
           m.total = 0 \/ received[c] + 1 = m.total
    PROVE  Clear(c)
<1> DEFINE p == pending[c]
           A == Awaited(c)
<1>1. m \in Reply /\ m \in Elements(inbox[c]) /\ m \in Replies(c) /\ Genuine(c, m) /\ p \in Calls
  BY Taken
<1>2. /\ m.call = p /\ m \in A /\ IsFiniteSet(A) /\ Cardinality(A) \in Nat
      /\ Cardinality(A) + received[c] <= IF m.total = 0 THEN 1 ELSE m.total
  BY Taken
<1>3. Cardinality(A) <= 1
  <2>1. received[c] \in Nat /\ m.total \in Nat
    BY <1>1, ClientTypes, MessageAssumption DEF Reply
  <2> HIDE DEF A
  <2> QED BY <1>2, <2>1
<1>4. \A k \in A : k = m
  <2> SUFFICES ASSUME NEW k \in A, k # m PROVE FALSE
    OBVIOUS
  <2>1. IsFiniteSet(A \ {m}) /\ Cardinality(A \ {m}) = Cardinality(A) - 1
    BY <1>2, FS_RemoveElement
  <2>2. Cardinality(A \ {m}) \in Nat
    BY <2>1, FS_CardinalityType
  <2> HIDE DEF A
  <2>3. Cardinality(A \ {m}) = 0
    BY <1>2, <1>3, <2>1, <2>2
  <2>4. A \ {m} = {}
    BY <2>1, <2>3, FS_EmptySet
  <2> QED BY <2>4
<1>5. \A k \in Underway(c) : k.call # p
  <2> SUFFICES ASSUME NEW k \in Underway(c), k.call = p PROVE FALSE
    OBVIOUS
  <2>1. k \in A
    BY DEF Awaited, Replies
  <2>2. k = m
    BY <1>4, <2>1
  <2> QED BY <1>1, <2>2 DEF CallInv, ReplyInv
<1>6. task[c][p].out = {}
  <2> SUFFICES ASSUME NEW k \in task[c][p].out PROVE FALSE
    OBVIOUS
  <2>1. k.call = p /\ k \notin Replies(c)
    BY <1>1 DEF CallInv, ReplyInv
  <2>2. k \in A
    BY <2>1 DEF Awaited
  <2> QED BY <1>1, <1>4, <2>1, <2>2
<1>7. /\ task[c][p].pc \notin {"spawned", "queued"}
      /\ \A k \in OnTheWay(c) : k.call # p
  BY <1>1, <1>2, Answered
<1> QED BY <1>5, <1>6, <1>7 DEF Clear, OnTheWay

LEMMA ConsumeCalls ==
    ASSUME TypeOK, NEW c \in Clients, CallInv(c),
           ConsumeInit(c) \/ ConsumeError(c) \/ ConsumeReply(c) \/ ConsumeChunk(c) \/ ConsumeOther(c),
           UNCHANGED serverVars
    PROVE  CallInv(c)'
<1>1. PICK m : m = Head(inbox[c])
  OBVIOUS
<1>2. /\ pending[c] # NoCall /\ inbox[c] # <<>> /\ outbuf[c] = <<>>
      /\ UNCHANGED <<next_id, reply_listeners, calls, op, outbuf, c2s, s2c, lost>>
      /\ \/ /\ inbox'[c] = Tail(inbox[c])
            /\ received'[c] = received[c] \/ received'[c] = received[c] + 1
            /\ UNCHANGED <<session, pending, outcome, transportVars>>
         \/ /\ EndCall(c, AnswerIn(m))
            /\ session'[c] # "new"
            /\ ~Tainted(c, pending[c]) => m.total = 0 \/ received[c] + 1 = m.total
  BY <1>1, ConsumeEffect
<1>3. CASE /\ inbox'[c] = Tail(inbox[c])
           /\ received'[c] = received[c] \/ received'[c] = received[c] + 1
           /\ UNCHANGED <<session, pending, outcome, transportVars>>
  BY <1>2, <1>3, TakeCalls
<1>4. CASE /\ EndCall(c, AnswerIn(m))
           /\ session'[c] # "new"
           /\ ~Tainted(c, pending[c]) => m.total = 0 \/ received[c] + 1 = m.total
  <2>1. Tainted(c, pending[c]) \/ Clear(c)
    BY <1>1, <1>2, <1>4, LastReply
  <2>2. AnswerIn(m) \in {"ok", "err"}
    BY DEF AnswerIn
  <2>3. /\ pending'[c] = NoCall /\ inbox'[c] = <<>>
        /\ outcome'[c] = [outcome[c] EXCEPT ![pending[c]] = AnswerIn(m)]
    BY <1>4 DEF EndCall, TypeOK, ClientTypeOK
  <2> QED BY <1>2, <1>4, <2>1, <2>2, <2>3, EndCalls
<1> QED BY <1>2, <1>3, <1>4

\* A call whose request could not be written has not left the client.
LEMMA FlushErrCalls ==
    ASSUME TypeOK, NEW c \in Clients, CallInv(c), FlushErr(c), UNCHANGED serverVars
    PROVE  CallInv(c)'
<1> DEFINE p == pending[c]
           m == outbuf[c][Len(outbuf[c])]
<1>1. /\ p # NoCall /\ outbuf[c] # <<>> /\ lost[c]
      /\ pending'[c] = NoCall /\ inbox'[c] = <<>>
      /\ outcome'[c] = [outcome[c] EXCEPT ![p] = "err"]
      /\ UNCHANGED <<next_id, reply_listeners, calls, outbuf, c2s, s2c, lost>>
      /\ session'[c] # "new"
  BY DEF FlushErr, Sending, EndCall, FailSession, TypeOK, ClientTypeOK
<1>2. p \in Calls
  BY <1>1, ClientTypes
<1>3. m \in Elements(outbuf[c])
  <2>1. Len(outbuf[c]) \in Nat /\ Len(outbuf[c]) # 0
    BY <1>1, ClientTypes, LenProperties, EmptySeq
  <2> QED BY <2>1 DEF Elements
<1>4. m \in OnTheWay(c) /\ m.call = p /\ task[c][p].pc = "none"
  BY <1>1, <1>3 DEF CallInv, RequestInv, OnTheWay
<1>5. task[c][p].out = {} /\ executed[c][p] = "no"
  BY <1>2, <1>4 DEF CallInv, TasksInv
<1>6. \A k \in Underway(c) : k.call # p
  <2> SUFFICES ASSUME NEW k \in Underway(c), k.call = p PROVE FALSE
    OBVIOUS
  <2>1. k \in Replies(c)
    BY DEF Replies
  <2>2. k \in Reply /\ Genuine(c, k)
    BY <2>1, MessageTypes DEF CallInv, ReplyInv
  <2> QED BY <1>5, <2>2, Answered
<1>7. \A k \in Elements(c2s[c]) : k.call # p
  <2> SUFFICES ASSUME NEW k \in Elements(c2s[c]), k.call = p PROVE FALSE
    OBVIOUS
  <2>1. k \in OnTheWay(c)
    BY DEF OnTheWay
  <2>2. k = m
    BY <1>4, <2>1 DEF CallInv, RequestInv
  <2> QED BY <1>3, <2>2 DEF CallInv, RequestInv
<1>8. Clear(c)
  BY <1>1, <1>4, <1>5, <1>6, <1>7 DEF Clear
<1> QED BY <1>1, <1>8, EndCalls

LEMMA CancelCalls ==
    ASSUME TypeOK, NEW c \in Clients, CallInv(c), CancelCall(c), UNCHANGED serverVars
    PROVE  CallInv(c)'
<1>1. /\ pending[c] # NoCall /\ session[c] = "ready"
      /\ pending'[c] = NoCall /\ inbox'[c] = <<>>
      /\ outcome'[c] = [outcome[c] EXCEPT ![pending[c]] = "cancelled"]
      /\ UNCHANGED <<next_id, reply_listeners, calls, outbuf, c2s, s2c, lost, session>>
  BY DEF CancelCall, EndCall, transportVars, TypeOK, ClientTypeOK
<1>2. pending[c] # 0
  BY <1>1 DEF CallInv, HistoryInv
<1> QED BY <1>1, <1>2, EndCalls

-----------------------------------------------------------------------------
(* The steps of a request's task.                                          *)

\* Only the task of call n changes, and it has been spawned before.
TaskMoves(c, n) ==
    /\ UNCHANGED <<clientVars, transportVars>>
    /\ task[c][n].pc # "none" /\ task'[c][n].pc # "none"
    /\ task'[c][n].type = task[c][n].type /\ task'[c][n].request_id = task[c][n].request_id
    /\ \A k \in Calls : k # n => task'[c][k] = task[c][k]

LEMMA AdvanceMoves ==
    ASSUME TypeOK, NEW c \in Clients, NEW n \in Calls, NEW pc, NEW out, Advance(c, n, pc, out)
    PROVE  /\ task'[c][n].pc = pc /\ task'[c][n].out = out
           /\ task'[c][n].type = task[c][n].type /\ task'[c][n].request_id = task[c][n].request_id
           /\ \A k \in Calls : k # n => task'[c][k] = task[c][k]
<1>1. task \in [Clients -> [Calls -> Task]]
  BY DEF TypeOK, ServerTypeOK
<1> QED BY <1>1 DEF Advance

\* The client's part and the requests are not concerned.
LEMMA TaskMovesParts ==
    ASSUME TypeOK, NEW c \in Clients, CallInv(c), NEW n \in Calls, TaskMoves(c, n)
    PROVE  /\ IdInv(c)' /\ HistoryInv(c)' /\ RequestInv(c)'
           /\ next_id'[c] = next_id[c] /\ calls'[c] = calls[c] /\ pending'[c] = pending[c]
           /\ outcome'[c] = outcome[c] /\ inbox'[c] = inbox[c] /\ received'[c] = received[c]
           /\ outbuf'[c] = outbuf[c] /\ c2s'[c] = c2s[c] /\ s2c'[c] = s2c[c] /\ lost'[c] = lost[c]
           /\ \A k : Tainted(c, k)' <=> Tainted(c, k)
           /\ \A k, l : MayAnswer(c, k, l)' <=> MayAnswer(c, k, l)
<1>1. /\ next_id'[c] = next_id[c] /\ reply_listeners'[c] = reply_listeners[c]
      /\ calls'[c] = calls[c] /\ pending'[c] = pending[c] /\ outcome'[c] = outcome[c]
      /\ session'[c] = session[c] /\ op'[c] = op[c] /\ inbox'[c] = inbox[c]
      /\ received'[c] = received[c] /\ outbuf'[c] = outbuf[c]
      /\ c2s'[c] = c2s[c] /\ s2c'[c] = s2c[c] /\ lost'[c] = lost[c]
  BY DEF TaskMoves, clientVars, transportVars
<1>2. IdInv(c)' /\ HistoryInv(c)'
  BY <1>1, SameParts
<1>3. RequestInv(c)'
  <2>1. OnTheWay(c)' = OnTheWay(c)
    BY <1>1 DEF OnTheWay
  <2>2. \A m \in OnTheWay(c) : m.call \in Calls /\ task[c][m.call].pc = "none"
    BY MessageTypes DEF CallInv, RequestInv
  <2>3. \A m \in OnTheWay(c) : task'[c][m.call].pc = "none"
    BY <2>2 DEF TaskMoves
  <2> QED BY <1>1, <2>1, <2>3 DEF CallInv, RequestInv
<1>4. /\ \A k : Tainted(c, k)' <=> Tainted(c, k)
      /\ \A k, l : MayAnswer(c, k, l)' <=> MayAnswer(c, k, l)
  BY <1>1, TaintSame
<1> QED BY <1>1, <1>2, <1>3, <1>4

\* What the other tasks' entries, and n's with them, are worth afterwards.
LEMMA TaskMovesTasks ==
    ASSUME TypeOK, NEW c \in Clients, CallInv(c), NEW n \in Calls, TaskMoves(c, n),
           \A k \in Calls : k # n => executed'[c][k] = executed[c][k],
           executed'[c][n] = "no" <=> task'[c][n].pc \in {"none", "spawned", "queued"},
           task'[c][n].pc = "queued" => n # 0,
           task'[c][n].pc # "sending" => task'[c][n].out = {}
    PROVE  TasksInv(c)'
<1> SUFFICES ASSUME NEW k \in Calls
             PROVE  /\ task'[c][k].pc # "none" =>
                         /\ k < calls'[c]
                         /\ task'[c][k].request_id = k % IdSpace
                         /\ task'[c][k].type = "InitReq" <=> k = 0
                    /\ executed'[c][k] = "no" <=> task'[c][k].pc \in {"none", "spawned", "queued"}
                    /\ task'[c][k].pc = "queued" => k # 0
                    /\ task'[c][k].pc # "sending" => task'[c][k].out = {}
  BY DEF TasksInv
<1>1. calls'[c] = calls[c]
  BY DEF TaskMoves, clientVars
<1>2. CASE k = n
  BY <1>1, <1>2 DEF TaskMoves, CallInv, TasksInv
<1>3. CASE k # n
  BY <1>1, <1>3 DEF TaskMoves, CallInv, TasksInv
<1> QED BY <1>2, <1>3

\* LockFs and EndTask: the replies stay as they are.
LEMMA IdleMoveCalls ==
    ASSUME TypeOK, NEW c \in Clients, CallInv(c), NEW n \in Calls, LockFs(c, n) \/ EndTask(c, n),
           UNCHANGED clientVars
    PROVE  CallInv(c)'
<1>1. \/ task[c][n].pc = "spawned" /\ task[c][n].type # "InitReq" /\ Advance(c, n, "queued", {})
      \/ task[c][n].pc = "sending" /\ task[c][n].out = {} /\ Advance(c, n, "done", {})
  BY DEF LockFs, EndTask
<1>2. UNCHANGED <<clientVars, transportVars, chan, executed>>
  BY DEF LockFs, EndTask
<1>3. /\ \/ task[c][n].pc = "spawned" /\ task'[c][n].pc = "queued"
         \/ task[c][n].pc = "sending" /\ task'[c][n].pc = "done"
      /\ task[c][n].out = {} /\ task'[c][n].out = {}
      /\ task'[c][n].type = task[c][n].type /\ task'[c][n].request_id = task[c][n].request_id
      /\ \A k \in Calls : k # n => task'[c][k] = task[c][k]
  BY <1>1, AdvanceMoves DEF CallInv, TasksInv
<1>4. TaskMoves(c, n)
  BY <1>2, <1>3 DEF TaskMoves
<1>5. /\ IdInv(c)' /\ HistoryInv(c)' /\ RequestInv(c)'
      /\ pending'[c] = pending[c] /\ inbox'[c] = inbox[c] /\ received'[c] = received[c]
      /\ outbuf'[c] = outbuf[c] /\ c2s'[c] = c2s[c] /\ s2c'[c] = s2c[c] /\ lost'[c] = lost[c]
      /\ \A k : Tainted(c, k)' <=> Tainted(c, k)
      /\ \A k, l : MayAnswer(c, k, l)' <=> MayAnswer(c, k, l)
  BY <1>4, TaskMovesParts
<1>6. TasksInv(c)'
  <2>1. executed'[c][n] = "no" <=> task'[c][n].pc \in {"none", "spawned", "queued"}
    BY <1>2, <1>3 DEF CallInv, TasksInv
  <2>2. task'[c][n].pc = "queued" => n # 0
    BY <1>1, <1>3 DEF CallInv, TasksInv
  <2> QED BY <1>2, <1>3, <1>4, <2>1, <2>2, TaskMovesTasks
<1>7. /\ \A k \in Calls : task'[c][k].out = task[c][k].out
      /\ \A k \in Calls : task'[c][k].pc \in {"spawned", "queued"} => task[c][k].pc \in {"spawned", "queued"}
  BY <1>3
<1>8. Underway(c)' = Underway(c) /\ Replies(c)' = Replies(c)
  BY <1>2, <1>5 DEF Underway, Replies
<1>9. ReplyInv(c)'
  <2>1. \A k : Genuine(c, k)' <=> Genuine(c, k)
    BY <1>2 DEF Genuine
  <2>2. \A k \in Calls : \A l \in task'[c][k].out :
          Genuine(c, l)' /\ l.call = k /\ l \notin Replies(c)'
    BY <1>7, <1>8, <2>1 DEF CallInv, ReplyInv
  <2> QED BY <1>2, <1>5, <1>8, <2>1, <2>2 DEF CallInv, ReplyInv
<1>10. FlightInv(c)'
  <2>1. \A k \in Calls : task'[c][k].pc \in {"spawned", "queued"} \/ task'[c][k].out # {} =>
          k = pending'[c] \/ Tainted(c, k)'
    BY <1>5, <1>7 DEF CallInv, FlightInv
  <2>2. /\ \A k \in Elements(c2s'[c]) : k.call = pending'[c] \/ Tainted(c, k.call)'
        /\ \A k \in Elements(outbuf'[c]) : k.call = pending'[c] \/ Tainted(c, k.call)' \/ lost'[c]
    BY <1>5 DEF CallInv, FlightInv
  <2>3. /\ \A k \in Underway(c)' : k.call = pending'[c] \/ Tainted(c, k.call)'
        /\ \A k \in Elements(inbox'[c]) : MayAnswer(c, k.call, pending[c])'
    BY <1>5, <1>8 DEF CallInv, FlightInv
  <2> QED BY <2>1, <2>2, <2>3 DEF FlightInv
<1>11. CountInv(c)'
  <2> SUFFICES ASSUME pending[c] # NoCall, ~Tainted(c, pending[c])
               PROVE  /\ executed'[c][pending[c]] = "no" => received'[c] = 0
                      /\ IsFiniteSet(Awaited(c)')
                      /\ \A l \in Awaited(c)' :
                           Cardinality(Awaited(c)') + received'[c] <= IF l.total = 0 THEN 1 ELSE l.total
    BY <1>5 DEF CountInv
  <2>1. pending[c] \in Calls
    BY ClientTypes
  <2>2. Awaited(c)' = Awaited(c)
    BY <1>5, <1>7, <1>8, <2>1 DEF Awaited
  <2> QED BY <1>2, <1>5, <2>2 DEF CallInv, CountInv
<1> QED BY <1>5, <1>6, <1>9, <1>10, <1>11 DEF CallInv

\* The replies to call n that tell of answer r.
AnswersOf(n, r, out) ==
    /\ IsFiniteSet(out)
    /\ \A m \in out :
         /\ m.call = n /\ m.request_id = n % IdSpace /\ AnswerIn(m) = r
         /\ m.type = "InitRes" <=> n = 0
         /\ m.type # "ReadRes" => m.total = 0
         /\ m.total = 0 <=> m.part = 0
         /\ Cardinality(out) <= IF m.total = 0 THEN 1 ELSE m.total

\* HandleInit and Execute: the request takes effect and its replies exist.
LEMMA AnswerCalls ==
    ASSUME TypeOK, NEW c \in Clients, CallInv(c), NEW n \in Calls,
           task[c][n].pc \in {"spawned", "queued"},
           NEW r \in {"ok", "err"}, NEW out, AnswersOf(n, r, out),
           Advance(c, n, "sending", out), executed' = [executed EXCEPT ![c][n] = r],
           UNCHANGED <<clientVars, transportVars, chan>>
    PROVE  CallInv(c)'
<1>1. /\ task'[c][n].pc = "sending" /\ task'[c][n].out = out
      /\ task'[c][n].type = task[c][n].type /\ task'[c][n].request_id = task[c][n].request_id
      /\ \A k \in Calls : k # n => task'[c][k] = task[c][k]
  BY AdvanceMoves
<1>2. TaskMoves(c, n)
  BY <1>1 DEF TaskMoves
<1>3. /\ IdInv(c)' /\ HistoryInv(c)' /\ RequestInv(c)'
      /\ pending'[c] = pending[c] /\ inbox'[c] = inbox[c] /\ received'[c] = received[c]
      /\ outbuf'[c] = outbuf[c] /\ c2s'[c] = c2s[c] /\ s2c'[c] = s2c[c] /\ lost'[c] = lost[c]
      /\ \A k : Tainted(c, k)' <=> Tainted(c, k)
      /\ \A k, l : MayAnswer(c, k, l)' <=> MayAnswer(c, k, l)
  BY <1>2, TaskMovesParts
<1>4. /\ executed'[c][n] = r /\ executed[c][n] = "no"
      /\ \A k \in Calls : k # n => executed'[c][k] = executed[c][k]
  <2>1. executed \in [Clients -> [Calls -> {"no", "ok", "err"}]]
    BY DEF TypeOK, ServerTypeOK
  <2> QED BY <2>1 DEF CallInv, TasksInv
<1>5. TasksInv(c)'
  BY <1>1, <1>2, <1>4, TaskMovesTasks
<1>6. Underway(c)' = Underway(c) /\ Replies(c)' = Replies(c) /\ chan'[c] = chan[c]
  BY <1>3 DEF Underway, Replies
<1>7. \A m \in Replies(c) : m.call # n /\ m.call \in Calls
  BY <1>4, MessageTypes, Answered DEF CallInv, ReplyInv
<1>8. ReplyInv(c)'
  <2>1. \A m \in Replies(c) : Genuine(c, m)'
    BY <1>4, <1>7 DEF CallInv, ReplyInv, Genuine
  <2>2. ASSUME NEW k \in Calls, NEW m \in task'[c][k].out
        PROVE  Genuine(c, m)' /\ m.call = k /\ m \notin Replies(c)
    <3>1. CASE k = n
      <4>1. /\ m.call = n /\ m.request_id = n % IdSpace /\ AnswerIn(m) = r
            /\ m.type = "InitRes" <=> n = 0
            /\ m.type # "ReadRes" => m.total = 0
            /\ m.total = 0 <=> m.part = 0
        BY <1>1, <2>2, <3>1 DEF AnswersOf
      <4> QED BY <1>4, <1>7, <3>1, <4>1 DEF Genuine
    <3>2. CASE k # n
      <4>1. Genuine(c, m) /\ m.call = k /\ m \notin Replies(c)
        BY <1>1, <2>2, <3>2 DEF CallInv, ReplyInv
      <4> QED BY <1>4, <3>2, <4>1 DEF Genuine
    <3> QED BY <3>1, <3>2
  <2> QED BY <1>3, <1>6, <2>1, <2>2 DEF CallInv, ReplyInv
<1>9. FlightInv(c)'
  <2>1. \A k \in Calls : task'[c][k].pc \in {"spawned", "queued"} \/ task'[c][k].out # {} =>
          k = pending'[c] \/ Tainted(c, k)'
    <3>1. n = pending[c] \/ Tainted(c, n)
      BY DEF CallInv, FlightInv
    <3> SUFFICES ASSUME NEW k \in Calls, k # n,
                        task'[c][k].pc \in {"spawned", "queued"} \/ task'[c][k].out # {}
                 PROVE  k = pending[c] \/ Tainted(c, k)
      BY <1>3, <3>1
    <3> QED BY <1>1 DEF CallInv, FlightInv
  <2>2. /\ \A k \in Elements(c2s'[c]) : k.call = pending'[c] \/ Tainted(c, k.call)'
        /\ \A k \in Elements(outbuf'[c]) : k.call = pending'[c] \/ Tainted(c, k.call)' \/ lost'[c]
    BY <1>3 DEF CallInv, FlightInv
  <2>3. /\ \A k \in Underway(c)' : k.call = pending'[c] \/ Tainted(c, k.call)'
        /\ \A k \in Elements(inbox'[c]) : MayAnswer(c, k.call, pending[c])'
    BY <1>3, <1>6 DEF CallInv, FlightInv
  <2> QED BY <2>1, <2>2, <2>3 DEF FlightInv
<1>10. CountInv(c)'
  <2> SUFFICES ASSUME pending[c] # NoCall, ~Tainted(c, pending[c])
               PROVE  /\ executed'[c][pending[c]] = "no" => received'[c] = 0
                      /\ IsFiniteSet(Awaited(c)')
                      /\ \A l \in Awaited(c)' :
                           Cardinality(Awaited(c)') + received'[c] <= IF l.total = 0 THEN 1 ELSE l.total
    BY <1>3 DEF CountInv
  <2>1. pending[c] \in Calls
    BY ClientTypes
  <2>2. CASE pending[c] = n
    <3>1. Awaited(c)' = out
      <4>1. \A m \in out : m.call = n
        BY DEF AnswersOf
      <4> QED BY <1>1, <1>3, <1>6, <1>7, <2>2, <4>1 DEF Awaited
    <3>2. received'[c] = 0
      BY <1>3, <1>4, <2>2 DEF CallInv, CountInv
    <3>3. IsFiniteSet(out) /\ Cardinality(out) \in Nat
      BY FS_CardinalityType DEF AnswersOf
    <3>4. Cardinality(out) + received'[c] = Cardinality(out)
      BY <3>2, <3>3
    <3>5. \A l \in out : Cardinality(out) + received'[c] <= IF l.total = 0 THEN 1 ELSE l.total
      BY <3>4 DEF AnswersOf
    <3> QED BY <1>4, <2>2, <3>1, <3>3, <3>5
  <2>3. CASE pending[c] # n
    <3>1. Awaited(c)' = Awaited(c)
      BY <1>1, <1>3, <1>6, <2>1, <2>3 DEF Awaited
    <3>2. executed'[c][pending[c]] = executed[c][pending[c]]
      BY <1>4, <2>1, <2>3
    <3> QED BY <1>3, <3>1, <3>2 DEF CallInv, CountInv
  <2> QED BY <2>2, <2>3
<1> QED BY <1>3, <1>5, <1>8, <1>9, <1>10 DEF CallInv

\* Every operation but a read is answered by one message.
LEMMA OneReply ==
    ASSUME NEW c, NEW n, task[c][n].request_id = n % IdSpace,
           NEW type, type # "ReadRes", type = "InitRes" <=> n = 0, NEW accepted,
           NEW r, r = IF type = "Error" \/ (type = "InitRes" /\ ~accepted) THEN "err" ELSE "ok"
    PROVE  AnswersOf(n, r, {ReplyMsg(c, n, type, 0, 0, accepted)})
<1> DEFINE m == ReplyMsg(c, n, type, 0, 0, accepted)
<1>1. /\ m.call = n /\ m.request_id = n % IdSpace /\ m.type = type /\ m.total = 0 /\ m.part = 0
      /\ m.accepted = accepted
  BY DEF ReplyMsg
<1> HIDE DEF m
<1>2. IsFiniteSet({m}) /\ Cardinality({m}) = 1
  BY FS_Singleton
<1>3. AnswerIn(m) = r
  BY <1>1 DEF AnswerIn
<1>4. AnswersOf(n, r, {m})
  BY <1>1, <1>2, <1>3 DEF AnswersOf
<1> QED BY <1>4 DEF m

\* A read is answered by as many chunks as its payload has, or an empty one.
LEMMA ChunkReplies ==
    ASSUME NEW c, NEW n, task[c][n].request_id = n % IdSpace, n # 0, NEW total \in Nat
    PROVE  AnswersOf(n, "ok", ReadReplies(c, n, total))
<1>1. CASE total = 0
  <2> DEFINE m == ReplyMsg(c, n, "ReadRes", 0, 0, FALSE)
  <2>1. /\ m.call = n /\ m.request_id = n % IdSpace /\ m.type = "ReadRes"
        /\ m.total = 0 /\ m.part = 0
    BY DEF ReplyMsg
  <2>2. ReadReplies(c, n, total) = {m}
    BY <1>1 DEF ReadReplies
  <2> HIDE DEF m
  <2>3. IsFiniteSet({m}) /\ Cardinality({m}) = 1
    BY FS_Singleton
  <2>4. AnswersOf(n, "ok", {m})
    BY <2>1, <2>3 DEF AnswersOf, AnswerIn
  <2> QED BY <2>2, <2>4
<1>2. CASE total # 0
  <2> DEFINE f == [part \in 1..total |-> ReplyMsg(c, n, "ReadRes", total, part, FALSE)]
             R == ReadReplies(c, n, total)
  <2>1. R = {f[part] : part \in 1..total}
    BY <1>2 DEF ReadReplies
  <2>2. \A part \in 1..total :
          /\ f[part].call = n /\ f[part].request_id = n % IdSpace /\ f[part].type = "ReadRes"
          /\ f[part].total = total /\ f[part].part = part
    BY DEF ReplyMsg
  <2>3. f \in [1..total -> R]
    BY <2>1
  <2> HIDE DEF f, R
  <2>4. f \in Surjection(1..total, R)
    BY <2>1, <2>3 DEF Surjection
  <2>5. IsFiniteSet(1..total) /\ Cardinality(1..total) = total
    BY <1>2, FS_Interval
  <2>6. IsFiniteSet(R) /\ Cardinality(R) <= total
    BY <2>4, <2>5, FS_Surjection
  <2>7. ASSUME NEW m \in R
        PROVE  /\ m.call = n /\ m.request_id = n % IdSpace /\ m.type = "ReadRes"
               /\ m.total = total /\ m.part # 0
    BY <2>1, <2>2
  <2>8. AnswersOf(n, "ok", R)
    BY <1>2, <2>6, <2>7 DEF AnswersOf, AnswerIn
  <2> QED BY <2>8 DEF R
<1> QED BY <1>1, <1>2

LEMMA AnswerEffect ==
    ASSUME TypeOK, NEW c \in Clients, CallInv(c), NEW n \in Calls, HandleInit(c, n) \/ Execute(c, n)
    PROVE  /\ task[c][n].pc \in {"spawned", "queued"}
           /\ UNCHANGED <<transportVars, chan>>
           /\ \E r \in {"ok", "err"} : \E out :
                /\ AnswersOf(n, r, out)
                /\ Advance(c, n, "sending", out)
                /\ executed' = [executed EXCEPT ![c][n] = r]
<1>1. task[c][n].pc \in {"spawned", "queued"} /\ UNCHANGED <<transportVars, chan>>
  BY DEF HandleInit, Execute
<1>2. /\ task[c][n].request_id = n % IdSpace
      /\ task[c][n].type = "InitReq" <=> n = 0
      /\ task[c][n].pc = "queued" => n # 0
  BY <1>1 DEF CallInv, TasksInv
<1>3. task[c][n].type \in RequestTypes
  BY ClientTypes DEF Task
<1>4. CASE HandleInit(c, n)
  <2>1. PICK accepted \in BOOLEAN :
          /\ Advance(c, n, "sending", {ReplyMsg(c, n, "InitRes", 0, 0, accepted)})
          /\ executed' = [executed EXCEPT ![c][n] = IF accepted THEN "ok" ELSE "err"]
    BY <1>4 DEF HandleInit
  <2>2. n = 0
    BY <1>2, <1>4 DEF HandleInit
  <2>3. PICK r \in {"ok", "err"} : r = IF accepted THEN "ok" ELSE "err"
    OBVIOUS
  <2>4. r = IF "InitRes" = "Error" \/ ("InitRes" = "InitRes" /\ ~accepted) THEN "err" ELSE "ok"
    BY <2>3
  <2>5. AnswersOf(n, r, {ReplyMsg(c, n, "InitRes", 0, 0, accepted)})
    BY <1>2, <2>2, <2>4, OneReply
  <2>6. executed' = [executed EXCEPT ![c][n] = r]
    BY <2>1, <2>3
  <2> QED BY <1>1, <2>1, <2>5, <2>6
<1>5. CASE Execute(c, n)
  <2>1. n # 0 /\ task[c][n].type # "InitReq"
    BY <1>2, <1>5 DEF Execute
  <2>2. CASE /\ Advance(c, n, "sending", {ErrorReply(c, n)})
             /\ executed' = [executed EXCEPT ![c][n] = "err"]
    <3>1. AnswersOf(n, "err", {ReplyMsg(c, n, "Error", 0, 0, FALSE)})
      BY <1>2, <2>1, OneReply
    <3> QED BY <1>1, <2>2, <3>1 DEF ErrorReply
  <2>3. CASE /\ \E out \in OkReplies(c, n) : Advance(c, n, "sending", out)
             /\ executed' = [executed EXCEPT ![c][n] = "ok"]
    <3>1. PICK out \in OkReplies(c, n) : Advance(c, n, "sending", out)
      BY <2>3
    <3>2. CASE task[c][n].type \in ChunkedOps
      <4>1. PICK total \in 0..MaxParts : out = ReadReplies(c, n, total)
        BY <3>1, <3>2 DEF OkReplies
      <4>2. total \in Nat
        BY MessageAssumption
      <4>3. AnswersOf(n, "ok", out)
        BY <1>2, <2>1, <4>1, <4>2, ChunkReplies
      <4> QED BY <1>1, <2>3, <3>1, <4>3
    <3>3. CASE task[c][n].type \notin ChunkedOps
      <4> DEFINE type == ReplyTo(task[c][n].type)
      <4>1. out = {ReplyMsg(c, n, type, 0, 0, FALSE)}
        BY <3>1, <3>3 DEF OkReplies
      <4>2. type \in {"LookupRes", "FileAttrRes", "StatsRes", "SuccessRes"}
        BY <1>3, <2>1, <3>3 DEF ReplyTo, RequestTypes, DataReply, SuccessOps, ChunkedOps
      <4> HIDE DEF type
      <4>3. "ok" = IF type = "Error" \/ (type = "InitRes" /\ ~FALSE) THEN "err" ELSE "ok"
        BY <4>2
      <4>4. AnswersOf(n, "ok", out)
        BY <1>2, <2>1, <4>1, <4>2, <4>3, OneReply
      <4> QED BY <1>1, <2>3, <3>1, <4>4
    <3> QED BY <3>2, <3>3
  <2> QED BY <1>5, <2>2, <2>3 DEF Execute
<1> QED BY <1>4, <1>5

\* A reply goes from its task into the channel.
LEMMA SendReplyCalls ==
    ASSUME TypeOK, NEW c \in Clients, CallInv(c), NEW n \in Calls, SendReply(c, n),
           UNCHANGED clientVars
    PROVE  CallInv(c)'
<1>1. PICK m \in task[c][n].out :
        /\ Advance(c, n, "sending", task[c][n].out \ {m})
        /\ chan'[c] = Append(chan[c], m)
  BY DEF SendReply, TypeOK, ServerTypeOK
<1>2. UNCHANGED <<clientVars, transportVars, executed>> /\ task[c][n].pc = "sending"
  BY DEF SendReply
<1>3. /\ task'[c][n].pc = "sending" /\ task'[c][n].out = task[c][n].out \ {m}
      /\ task'[c][n].type = task[c][n].type /\ task'[c][n].request_id = task[c][n].request_id
      /\ \A k \in Calls : k # n => task'[c][k] = task[c][k]
  BY <1>1, AdvanceMoves
<1>4. TaskMoves(c, n)
  BY <1>2, <1>3 DEF TaskMoves
<1>5. /\ IdInv(c)' /\ HistoryInv(c)' /\ RequestInv(c)'
      /\ pending'[c] = pending[c] /\ inbox'[c] = inbox[c] /\ received'[c] = received[c]
      /\ outbuf'[c] = outbuf[c] /\ c2s'[c] = c2s[c] /\ s2c'[c] = s2c[c] /\ lost'[c] = lost[c]
      /\ \A k : Tainted(c, k)' <=> Tainted(c, k)
      /\ \A k, l : MayAnswer(c, k, l)' <=> MayAnswer(c, k, l)
  BY <1>4, TaskMovesParts
<1>6. TasksInv(c)'
  <2>1. executed'[c][n] = "no" <=> task'[c][n].pc \in {"none", "spawned", "queued"}
    BY <1>2, <1>3 DEF CallInv, TasksInv
  <2> QED BY <1>2, <1>3, <1>4, <2>1, TaskMovesTasks
<1>7. m \in Reply /\ Genuine(c, m) /\ m.call = n /\ m \notin Replies(c)
  BY MessageTypes DEF CallInv, ReplyInv
<1>8. Elements(chan'[c]) = Elements(chan[c]) \cup {m} /\ Distinct(chan'[c])
  <2>1. chan[c] \in Seq(Reply) /\ Distinct(chan[c]) /\ m \notin Elements(chan[c])
    BY <1>7, ClientTypes DEF CallInv, ReplyInv, Replies, Underway
  <2> QED BY <1>1, <1>7, <2>1, ElementsAppend
<1>9. Underway(c)' = Underway(c) \cup {m} /\ Replies(c)' = Replies(c) \cup {m}
  BY <1>5, <1>8 DEF Underway, Replies
<1>10. ReplyInv(c)'
  <2>1. \A k : Genuine(c, k)' <=> Genuine(c, k)
    BY <1>2 DEF Genuine
  <2>2. \A k \in Replies(c)' : Genuine(c, k)'
    BY <1>7, <1>9, <2>1 DEF CallInv, ReplyInv
  <2>3. ASSUME NEW k \in Calls, NEW l \in task'[c][k].out
        PROVE  Genuine(c, l)' /\ l.call = k /\ l \notin Replies(c)'
    <3>1. l \in task[c][k].out /\ (k = n => l # m)
      BY <1>3, <2>3
    <3>2. Genuine(c, l) /\ l.call = k /\ l \notin Replies(c)
      BY <3>1 DEF CallInv, ReplyInv
    <3> QED BY <1>7, <1>9, <2>1, <3>1, <3>2
  <2>4. /\ (Elements(inbox[c]) \cap Underway(c) = {})'
        /\ (Elements(s2c[c]) \cap Elements(chan[c]) = {})'
    BY <1>5, <1>7, <1>8, <1>9 DEF CallInv, ReplyInv, Replies, Underway
  <2>5. Distinct(inbox[c])' /\ Distinct(s2c[c])' /\ Distinct(chan[c])'
    BY <1>5, <1>8 DEF CallInv, ReplyInv
  <2> QED BY <2>2, <2>3, <2>4, <2>5 DEF ReplyInv
<1>11. FlightInv(c)'
  <2>1. n = pending[c] \/ Tainted(c, n)
    BY DEF CallInv, FlightInv
  <2>2. \A k \in Calls : task'[c][k].pc \in {"spawned", "queued"} \/ task'[c][k].out # {} =>
          k = pending'[c] \/ Tainted(c, k)'
    <3> SUFFICES ASSUME NEW k \in Calls, k # n,
                        task'[c][k].pc \in {"spawned", "queued"} \/ task'[c][k].out # {}
                 PROVE  k = pending[c] \/ Tainted(c, k)
      BY <1>5, <2>1
    <3> QED BY <1>3 DEF CallInv, FlightInv
  <2>3. /\ \A k \in Elements(c2s'[c]) : k.call = pending'[c] \/ Tainted(c, k.call)'
        /\ \A k \in Elements(outbuf'[c]) : k.call = pending'[c] \/ Tainted(c, k.call)' \/ lost'[c]
    BY <1>5 DEF CallInv, FlightInv
  <2>4. \A k \in Underway(c)' : k.call = pending'[c] \/ Tainted(c, k.call)'
    BY <1>5, <1>7, <1>9, <2>1 DEF CallInv, FlightInv
  <2>5. \A k \in Elements(inbox'[c]) : MayAnswer(c, k.call, pending[c])'
    BY <1>5 DEF CallInv, FlightInv
  <2> QED BY <2>2, <2>3, <2>4, <2>5 DEF FlightInv
<1>12. CountInv(c)'
  <2> SUFFICES ASSUME pending[c] # NoCall, ~Tainted(c, pending[c])
               PROVE  /\ executed'[c][pending[c]] = "no" => received'[c] = 0
                      /\ IsFiniteSet(Awaited(c)')
                      /\ \A l \in Awaited(c)' :
                           Cardinality(Awaited(c)') + received'[c] <= IF l.total = 0 THEN 1 ELSE l.total
    BY <1>5 DEF CountInv
  <2>1. pending[c] \in Calls
    BY ClientTypes
  <2>2. Awaited(c)' = Awaited(c)
    <3>1. CASE pending[c] = n
      BY <1>3, <1>5, <1>9, <3>1 DEF Awaited
    <3>2. CASE pending[c] # n
      BY <1>3, <1>5, <1>7, <1>9, <2>1, <3>2 DEF Awaited
    <3> QED BY <3>1, <3>2
  <2> QED BY <1>2, <1>5, <2>2 DEF CallInv, CountInv
<1> QED BY <1>5, <1>6, <1>10, <1>11, <1>12 DEF CallInv

-----------------------------------------------------------------------------
(* The calls keep their invariant.                                         *)

LEMMA OwnStep ==
    ASSUME TypeOK, NEW c \in Clients, CallInv(c),
           \/ User(c) \/ Network(c) \/ CallStep(c) \/ LoopStep(c)
           \/ ReaderStep(c) \/ (\E n \in Calls : TaskStep(c, n)) \/ WriterStep(c)
    PROVE  CallInv(c)'
<1>1. CASE User(c)
  <2>1. ASSUME NEW type \in {"InitReq"} \cup Ops[c], StartCall(c, type) PROVE CallInv(c)'
    <3>1. type \in RequestTypes
      BY ClientAssumption DEF RequestTypes
    <3> QED BY <1>1, <2>1, <3>1, StartCalls DEF User
  <2> QED BY <1>1, <2>1, CancelCalls, CloseCalls DEF User
<1>2. CASE Network(c)
  BY <1>2, LoseCalls DEF Network
<1>3. CASE CallStep(c)
  BY <1>3, FlushCalls, FlushErrCalls, ConsumeCalls DEF CallStep
<1>4. CASE LoopStep(c)
  <2>1. CASE ReceiveEof(c)
    BY <1>4, <2>1, OtherClient DEF LoopStep, ReceiveEof, SameRest, transportVars, serverVars
  <2> QED BY <1>4, <2>1, LoopCalls DEF LoopStep
<1>5. CASE ReaderStep(c)
  <2>1. CASE ReadEof(c)
    BY <1>5, <2>1, OtherClient DEF ReaderStep, ReadEof, SameRest, transportVars, clientVars
  <2> QED BY <1>5, <2>1, ReadRequestCalls DEF ReaderStep
<1>6. ASSUME NEW n \in Calls, TaskStep(c, n) PROVE CallInv(c)'
  <2>1. CASE HandleInit(c, n) \/ Execute(c, n)
    <3>1. /\ task[c][n].pc \in {"spawned", "queued"}
          /\ UNCHANGED <<transportVars, chan>>
          /\ \E r \in {"ok", "err"} : \E out :
               /\ AnswersOf(n, r, out)
               /\ Advance(c, n, "sending", out)
               /\ executed' = [executed EXCEPT ![c][n] = r]
      BY <2>1, AnswerEffect
    <3>2. PICK r \in {"ok", "err"} :
            \E out :
               /\ AnswersOf(n, r, out)
               /\ Advance(c, n, "sending", out)
               /\ executed' = [executed EXCEPT ![c][n] = r]
      BY <3>1
    <3> QED BY <1>6, <3>1, <3>2, AnswerCalls DEF TaskStep
  <2>2. CASE LockFs(c, n) \/ EndTask(c, n)
    BY <1>6, <2>2, IdleMoveCalls DEF TaskStep
  <2>3. CASE SendReply(c, n)
    BY <1>6, <2>3, SendReplyCalls DEF TaskStep
  <2> QED BY <1>6, <2>1, <2>2, <2>3 DEF TaskStep
<1>7. CASE WriterStep(c)
  <2>1. CASE WriterExit(c)
    BY <1>7, <2>1, OtherClient DEF WriterStep, WriterExit, SameRest, clientVars, serverVars
  <2> QED BY <1>7, <2>1, WriterCalls DEF WriterStep
<1> QED BY <1>1, <1>2, <1>3, <1>4, <1>5, <1>6, <1>7

LEMMA NextCalls == TypeOK /\ CallsInv /\ [Next]_vars => CallsInv'
<1> SUFFICES ASSUME TypeOK, CallsInv, [Next]_vars, NEW d \in Clients PROVE CallInv(d)'
  BY DEF CallsInv
<1>1. CallInv(d)
  BY DEF CallsInv
<1>2. CASE UNCHANGED vars
  BY <1>1, <1>2, OtherClient DEF vars, SameRest, transportVars, clientVars, serverVars
<1>3. CASE Next
  <2>1. PICK c \in Clients :
          \/ User(c) \/ Network(c) \/ CallStep(c) \/ LoopStep(c)
          \/ ReaderStep(c) \/ (\E n \in Calls : TaskStep(c, n)) \/ WriterStep(c)
    BY <1>3 DEF Next
  <2>2. CASE d = c
    BY <1>1, <2>1, <2>2, OwnStep
  <2>3. CASE d # c
    BY <1>1, <2>1, <2>3, LocalStep, OtherClient
  <2> QED BY <2>2, <2>3
<1> QED BY <1>2, <1>3

LEMMA CallsInvariance == SafeSpec => [](TypeOK /\ CallsInv)
<1>1. SafeSpec => []TypeOK
  BY TypeCorrect
<1> QED BY <1>1, InitCalls, NextCalls, PTL DEF SafeSpec

-----------------------------------------------------------------------------
(* What follows.                                                           *)

\* The abstract specification goes by the distance of two calls.
LEMMA TaintIsReuse ==
    ASSUME NEW c, NEW n \in Calls
    PROVE  /\ \A k \in Calls : SameId(k, n) <=> k <= n /\ (n - k) % IdSpace = 0
           /\ Tainted(c, n) <=> B!ReusesCancelled(c, n)
<1>1. ASSUME NEW k \in Calls PROVE SameId(k, n) <=> k <= n /\ (n - k) % IdSpace = 0
  <2>1. k \in Nat /\ n \in Nat /\ IdSpace \in Nat \ {0}
    BY Numbers
  <2>2. CASE k <= n
    <3>1. n % IdSpace = k % IdSpace <=> (n - k) % IdSpace = 0
      BY <2>1, <2>2, SameRemainder
    <3> QED BY <2>2, <3>1 DEF SameId
  <2>3. CASE ~(k <= n)
    BY <2>3 DEF SameId
  <2> QED BY <2>2, <2>3
<1> QED BY <1>1 DEF Tainted, B!ReusesCancelled

LEMMA AnswerersMayAnswer ==
    ASSUME NEW c, NEW k \in Calls, NEW n \in Calls, MayAnswer(c, k, n)
    PROVE  k \in B!Answerers(c, n)
<1>1. CASE k = n
  BY <1>1 DEF B!Answerers
<1>2. CASE k # n
  <2>1. SameId(k, n) /\ Tainted(c, k)
    BY <1>2 DEF MayAnswer
  <2>2. k <= n /\ (n - k) % IdSpace = 0 /\ B!ReusesCancelled(c, k)
    BY <2>1, TaintIsReuse
  <2>3. k < n
    BY <1>2, <2>2, Numbers
  <2> QED BY <2>2, <2>3 DEF B!Answerers
<1> QED BY <1>1, <1>2

\* Whatever the number of request IDs: a message waiting in the inbox of the
\* call in progress is a reply to that call, or to an earlier call with its
\* ID that comes after a cancelled call with this ID, or is one.
THEOREM RepliesMatchCalls == SafeSpec => []RepliesMatchCall
<1>1. TypeOK /\ CallsInv => RepliesMatchCall
  <2> SUFFICES ASSUME TypeOK, CallsInv, NEW c \in Clients, NEW i \in 1..Len(inbox[c])
               PROVE  inbox[c][i].call \in B!Answerers(c, pending[c])
    BY DEF RepliesMatchCall
  <2> DEFINE m == inbox[c][i]
  <2>1. m \in Elements(inbox[c])
    BY DEF Elements
  <2>2. m \in Replies(c) /\ CallInv(c)
    BY <2>1 DEF Replies, CallsInv
  <2>3. m.call \in Calls
    BY <2>2, MessageTypes
  <2>4. MayAnswer(c, m.call, pending[c])
    BY <2>1, <2>2 DEF CallInv, FlightInv
  <2>5. pending[c] \in Calls
    <3>1. pending[c] \in Calls \cup {NoCall}
      BY ClientTypes
    <3>2. m.call \in Nat
      BY <2>3, Numbers
    <3>3. m.call = pending[c] \/ m.call <= pending[c]
      BY <2>4 DEF MayAnswer, SameId
    <3> HIDE DEF m
    <3>4. pending[c] # NoCall
      BY <3>2, <3>3 DEF NoCall
    <3> QED BY <3>1, <3>4
  <2> HIDE DEF m
  <2>6. m.call \in B!Answerers(c, pending[c])
    BY <2>3, <2>4, <2>5, AnswerersMayAnswer
  <2> QED BY <2>6 DEF m
<1> QED BY <1>1, CallsInvariance, PTL

\* Between the calls of a user who cancels none of them nothing is left on
\* its way in either direction, as long as the connection holds.
THEOREM QuietBetweenCalls == SafeSpec => []QuiescentBetweenCalls
<1>1. TypeOK /\ CallsInv => QuiescentBetweenCalls
  <2> SUFFICES ASSUME TypeOK, CallsInv, NEW c \in Clients, pending[c] = NoCall, ~lost[c],
                      \A n \in Calls : outcome[c][n] # "cancelled"
               PROVE  /\ c2s[c] = <<>> /\ s2c[c] = <<>> /\ chan[c] = <<>> /\ outbuf[c] = <<>>
                      /\ \A n \in Calls : task[c][n].pc \in {"spawned", "queued", "sending"} =>
                           task[c][n].out = {} /\ executed[c][n] # "no"
    BY DEF QuiescentBetweenCalls
  <2>1. CallInv(c)
    BY DEF CallsInv
  <2>2. \A n : ~Tainted(c, n)
    BY DEF Tainted
  <2>3. \A m \in OnTheWay(c) \cup Replies(c) : m.call # pending[c]
    BY MessageTypes, Numbers
  <2>4. Elements(c2s[c]) = {} /\ Elements(outbuf[c]) = {}
    BY <2>1, <2>2, <2>3 DEF CallInv, FlightInv, OnTheWay
  <2>5. Elements(s2c[c]) = {} /\ Elements(chan[c]) = {}
    BY <2>1, <2>2, <2>3 DEF CallInv, FlightInv, Replies, Underway
  <2>6. c2s[c] = <<>> /\ s2c[c] = <<>> /\ chan[c] = <<>> /\ outbuf[c] = <<>>
    BY <2>4, <2>5, ClientTypes, NoElements
  <2>7. ASSUME NEW n \in Calls, task[c][n].pc \in {"spawned", "queued", "sending"}
        PROVE  task[c][n].out = {} /\ executed[c][n] # "no"
    <3>1. n # pending[c] /\ ~Tainted(c, n)
      BY <2>2, Numbers
    <3>2. task[c][n].pc = "sending" /\ task[c][n].out = {}
      BY <2>1, <2>7, <3>1 DEF CallInv, FlightInv
    <3> QED BY <2>1, <3>2 DEF CallInv, TasksInv
  <2> QED BY <2>6, <2>7
<1> QED BY <1>1, CallsInvariance, PTL

-----------------------------------------------------------------------------
(* The refinement: every step of clients and server is a step of the       *)
(* abstract FsBackend or leaves it as it is.                               *)

Abstract == <<executed, outcome, lost>>

LEMMA UserRefines ==
    ASSUME TypeOK, NEW c \in Clients, CallInv(c), User(c)
    PROVE  B!Next \/ UNCHANGED Abstract
<1> USE DEF Abstract
<1>1. UNCHANGED executed
  BY DEF User, serverVars
<1>2. ASSUME NEW type \in {"InitReq"} \cup Ops[c], StartCall(c, type)
      PROVE  B!Next
  <2> DEFINE n == calls[c]
  <2>1. /\ pending[c] = NoCall /\ n < MaxCalls /\ UNCHANGED lost
        /\ outcome' = [outcome EXCEPT ![c][n] = "pending"]
    BY <1>2 DEF StartCall, transportVars
  <2>2. n \in Nat /\ MaxCalls \in Nat
    BY ClientTypes, Numbers
  <2>3. n \in Calls /\ n >= n
    BY <2>1, <2>2 DEF Calls
  <2>4. outcome[c][n] = "idle"
    BY <2>3 DEF CallInv, HistoryInv
  <2>5. \A k \in Calls : outcome[c][k] # "pending"
    BY <2>1, Numbers DEF CallInv, HistoryInv
  <2>6. B!Issue(c, n)
    BY <1>1, <2>1, <2>4, <2>5 DEF B!Issue
  <2> HIDE DEF n
  <2> QED BY <2>3, <2>6 DEF B!Next
<1>3. CASE CancelCall(c)
  <2> DEFINE n == pending[c]
  <2>1. /\ n # NoCall /\ UNCHANGED lost
        /\ outcome' = [outcome EXCEPT ![c][n] = "cancelled"]
    BY <1>3 DEF CancelCall, EndCall, transportVars
  <2>2. n \in Calls
    BY <2>1, ClientTypes
  <2>3. outcome[c][n] = "pending"
    BY <2>2 DEF CallInv, HistoryInv
  <2>4. B!Cancel(c, n)
    BY <1>1, <2>1, <2>3 DEF B!Cancel
  <2> HIDE DEF n
  <2> QED BY <2>2, <2>4 DEF B!Next
<1>4. CASE CloseSession(c)
  BY <1>1, <1>4 DEF CloseSession
<1> QED BY <1>2, <1>3, <1>4 DEF User

LEMMA CallRefines ==
    ASSUME TypeOK, NEW c \in Clients, CallInv(c), CallStep(c)
    PROVE  B!Next \/ UNCHANGED Abstract
<1> USE DEF Abstract
<1> DEFINE n == pending[c]
<1>1. UNCHANGED executed
  BY DEF CallStep, serverVars
<1>2. CASE Flush(c) \/ FlushLost(c)
  BY <1>1, <1>2 DEF Flush, FlushLost, transportVars
<1>3. n # NoCall => n \in Calls /\ outcome[c][n] = "pending"
  BY ClientTypes DEF CallInv, HistoryInv
<1>4. CASE FlushErr(c)
  <2>1. /\ n # NoCall /\ lost[c] /\ UNCHANGED lost
        /\ outcome' = [outcome EXCEPT ![c][n] = "err"]
    BY <1>4 DEF FlushErr, Sending, EndCall
  <2>2. B!Fail(c, n)
    BY <1>1, <1>3, <2>1 DEF B!Fail
  <2> HIDE DEF n
  <2> QED BY <1>3, <2>1, <2>2 DEF B!Next
<1>5. CASE ConsumeInit(c) \/ ConsumeError(c) \/ ConsumeReply(c) \/ ConsumeChunk(c) \/ ConsumeOther(c)
  <2>1. PICK m : m = Head(inbox[c])
    OBVIOUS
  <2>2. /\ n # NoCall /\ inbox[c] # <<>> /\ UNCHANGED lost
        /\ UNCHANGED outcome \/ EndCall(c, AnswerIn(m))
    BY <1>5, <2>1, ConsumeEffect
  <2>3. CASE UNCHANGED outcome
    BY <1>1, <2>2, <2>3
  <2>4. CASE EndCall(c, AnswerIn(m))
    <3>1. m \in Reply /\ Genuine(c, m) /\ MayAnswer(c, m.call, n)
      BY <2>1, <2>2, Taken
    <3>2. m.call \in Calls
      BY <3>1 DEF Reply
    <3>3. m.call \in B!Answerers(c, n)
      BY <1>3, <2>2, <3>1, <3>2, AnswerersMayAnswer
    <3>4. executed[c][m.call] = AnswerIn(m) /\ executed[c][m.call] # "no"
      BY <3>1 DEF Genuine, AnswerIn
    <3>5. outcome' = [outcome EXCEPT ![c][n] = executed[c][m.call]]
      BY <2>4, <3>4 DEF EndCall
    <3>6. B!Return(c, n)
      BY <1>1, <1>3, <2>2, <3>3, <3>4, <3>5 DEF B!Return
    <3> HIDE DEF n
    <3> QED BY <1>3, <2>2, <3>6 DEF B!Next
  <2> QED BY <2>2, <2>3, <2>4
<1> QED BY <1>2, <1>4, <1>5 DEF CallStep

LEMMA TaskRefines ==
    ASSUME TypeOK, NEW c \in Clients, CallInv(c), NEW n \in Calls, TaskStep(c, n)
    PROVE  B!Next \/ UNCHANGED Abstract
<1> USE DEF Abstract
<1>1. UNCHANGED outcome
  BY DEF TaskStep, clientVars
<1>2. CASE HandleInit(c, n) \/ Execute(c, n)
  <2>1. /\ task[c][n].pc \in {"spawned", "queued"} /\ UNCHANGED transportVars
        /\ \E r \in {"ok", "err"} : executed' = [executed EXCEPT ![c][n] = r]
    BY <1>2, AnswerEffect
  <2>2. executed[c][n] = "no" /\ outcome[c][n] # "idle"
    <3>1. executed[c][n] = "no" /\ n < calls[c]
      BY <2>1 DEF CallInv, TasksInv
    <3>2. n \in Nat /\ calls[c] \in Nat
      BY ClientTypes, Numbers
    <3>3. ~(n >= calls[c])
      BY <3>1, <3>2
    <3> QED BY <3>1, <3>3 DEF CallInv, HistoryInv
  <2>3. n = pending[c] \/ Tainted(c, n)
    BY <2>1 DEF CallInv, FlightInv
  <2>4. outcome[c][n] = "pending" \/ B!ReusesCancelled(c, n)
    BY <2>3, TaintIsReuse DEF CallInv, HistoryInv
  <2>5. B!TakeEffect(c, n)
    BY <1>1, <2>1, <2>2, <2>4 DEF B!TakeEffect, transportVars
  <2> QED BY <2>5 DEF B!Next
<1>3. CASE LockFs(c, n) \/ SendReply(c, n) \/ EndTask(c, n)
  BY <1>1, <1>3 DEF LockFs, SendReply, EndTask, transportVars
<1> QED BY <1>2, <1>3 DEF TaskStep

LEMMA NextRefines == TypeOK /\ CallsInv /\ [Next]_vars => [B!Next]_(B!vars)
<1> SUFFICES ASSUME TypeOK, CallsInv, [Next]_vars PROVE B!Next \/ UNCHANGED Abstract
  BY DEF B!vars, Abstract
<1>1. CASE UNCHANGED vars
  BY <1>1 DEF vars, Abstract, transportVars, clientVars, serverVars
<1>2. CASE Next
  <2>1. PICK c \in Clients :
          \/ User(c) \/ Network(c) \/ CallStep(c) \/ LoopStep(c)
          \/ ReaderStep(c) \/ (\E n \in Calls : TaskStep(c, n)) \/ WriterStep(c)
    BY <1>2 DEF Next
  <2>2. CallInv(c)
    BY DEF CallsInv
  <2>3. CASE Network(c)
    <3>1. B!Break(c)
      BY <2>3 DEF Network, LoseConnection, clientVars, serverVars, B!Break
    <3> QED BY <3>1 DEF B!Next
  <2>4. CASE LoopStep(c)
    BY <2>4 DEF LoopStep, Deliver, DropStale, DropUnknown, ReceiveEof, Abstract,
                serverVars, clientVars, transportVars
  <2>5. CASE ReaderStep(c)
    BY <2>5 DEF ReaderStep, ReadRequest, ReadEof, Abstract, clientVars, transportVars
  <2>6. CASE WriterStep(c)
    BY <2>6 DEF WriterStep, WriterSend, WriterSendErr, WriterExit, Abstract,
                serverVars, clientVars, transportVars
  <2> QED BY <2>1, <2>2, <2>3, <2>4, <2>5, <2>6, UserRefines, CallRefines, TaskRefines
<1> QED BY <1>1, <1>2

LEMMA InitRefines == Init => B!Init
  BY DEF Init, TransportInit, ClientInit, ServerInit, B!Init

\* ClientHandler and server together implement the FsBackend of the abstract
\* specification: a call takes effect at most once, between its issue and its
\* return, and returns the file system's answer to it.
THEOREM Refinement == SafeSpec => ImplementsBackend
  BY InitRefines, NextRefines, CallsInvariance, PTL DEF SafeSpec, ImplementsBackend, B!Spec

=============================================================================
