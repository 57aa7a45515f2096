------------------------------ MODULE Backend -------------------------------
(***************************************************************************)
(* What a ClientHandler promises its user: a FsBackend whose calls run on  *)
(* the server's file system.  A call is issued, takes effect at most once  *)
(* between its issue and its return, and returns what the file system      *)
(* answered; an error that the file system did not report is returned only *)
(* over a broken connection.  A user who drops a call learns nothing of    *)
(* it: it may still take effect, and a call that reuses its request ID may *)
(* be given its answer.                                                    *)
(***************************************************************************)
EXTENDS Integers

CONSTANTS Clients, Calls, IdSpace

VARIABLES
    answer,  \* what the file system answered to a call, or "no"
    outcome, \* what the user of a call knows of it
    broken   \* the client's connection is broken

vars == <<answer, outcome, broken>>

Init ==
    /\ answer = [c \in Clients |-> [n \in Calls |-> "no"]]
    /\ outcome = [c \in Clients |-> [n \in Calls |-> "idle"]]
    /\ broken = [c \in Clients |-> FALSE]

\* A client makes one call at a time.
Issue(c, n) ==
    /\ outcome[c][n] = "idle"
    /\ \A k \in Calls : outcome[c][k] # "pending"
    /\ outcome' = [outcome EXCEPT ![c][n] = "pending"]
    /\ UNCHANGED <<answer, broken>>

\* Call n uses the request ID of a call that was cancelled, itself or earlier.
ReusesCancelled(c, n) ==
    \E k \in Calls :
      k <= n /\ (n - k) % IdSpace = 0 /\ outcome[c][k] = "cancelled"

\* A call takes effect before it returns, unless the answer to another call
\* made it return.
TakeEffect(c, n) ==
    /\ answer[c][n] = "no"
    /\ \/ outcome[c][n] = "pending"
       \/ outcome[c][n] # "idle" /\ ReusesCancelled(c, n)
    /\ \E r \in {"ok", "err"} : answer' = [answer EXCEPT ![c][n] = r]
    /\ UNCHANGED <<outcome, broken>>

\* The calls whose answer call n can return: its own and, when request IDs
\* have wrapped around after a cancellation, that of an earlier call with the
\* same ID.
Answerers(c, n) ==
    {n} \cup
    {k \in Calls : k < n /\ (n - k) % IdSpace = 0 /\ ReusesCancelled(c, k)}

Return(c, n) ==
    /\ outcome[c][n] = "pending"
    /\ \E k \in Answerers(c, n) :
         /\ answer[c][k] # "no"
         /\ outcome' = [outcome EXCEPT ![c][n] = answer[c][k]]
    /\ UNCHANGED <<answer, broken>>

Fail(c, n) ==
    /\ outcome[c][n] = "pending"
    /\ broken[c]
    /\ outcome' = [outcome EXCEPT ![c][n] = "err"]
    /\ UNCHANGED <<answer, broken>>

Cancel(c, n) ==
    /\ outcome[c][n] = "pending"
    /\ outcome' = [outcome EXCEPT ![c][n] = "cancelled"]
    /\ UNCHANGED <<answer, broken>>

Break(c) ==
    /\ ~broken[c]
    /\ broken' = [broken EXCEPT ![c] = TRUE]
    /\ UNCHANGED <<answer, outcome>>

Next ==
    \E c \in Clients :
      \/ Break(c)
      \/ \E n \in Calls : \/ Issue(c, n)
                          \/ TakeEffect(c, n)
                          \/ Return(c, n)
                          \/ Fail(c, n)
                          \/ Cancel(c, n)

Spec == Init /\ [][Next]_vars

=============================================================================
