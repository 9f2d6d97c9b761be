------------------------------ MODULE SharedStore ------------------------------
(***************************************************************************)
(* How the handlers of Store share one database file.  A handler holds the *)
(* s.mu of its own process from its first statement to its last, but every *)
(* SELECT and every write is a statement of its own, and "the persist is   *)
(* one working copy shared by every process that opened it" (GDK-1180): a  *)
(* handler of another process may run between any two of them.  Three      *)
(* handlers stand for all: AddComment (read the row, mint an id, write the *)
(* row), Claim (the same with a condition on the row) and CreateIssue      *)
(* (mint an id, read all keys, write a new row).                           *)
(*                                                                         *)
(* An issue key is its number.  A thread is also the account it acts for.  *)
(***************************************************************************)
EXTENDS Integers, FiniteSets, FiniteSetsExt

CONSTANTS
  Process,      \* processes that have the file open
  Thread,       \* request goroutines, each of one process
  None,         \* no thread, no holder, no result
  MaxRequests   \* bound: requests handled in all

ASSUME SharedStoreAssumption ==
  /\ None \notin Thread \cup Process
  /\ MaxRequests \in Nat

VARIABLES
  home,      \* the process of every thread
  mu,        \* the holder of every process's s.mu
  pc,        \* where every thread is in its handler
  request,   \* what it was asked to do
  copy,      \* the row it has decoded and will write back
  minted,    \* store_meta: the seq: counters
  issues,    \* rows of the issues table
  acked,     \* observation: what clients were told has been done
  requests   \* requests taken so far

local == <<mu, pc, request, copy>>
vars == <<home, local, minted, issues, acked, requests>>

Counter == {"issue", "comment", "hist"}
Mark == [counter: Counter, n: Nat]
Row == [id: Nat, holder: Thread \cup {None}, marks: SUBSET Mark]
Request == [kind: {"comment", "claim"}, key: Nat] \cup [kind: {"create"}]
Ack == [kind: {"row"}, key: Nat, id: Nat]
       \cup [kind: {"mark"}, key: Nat, mark: Mark]
       \cup [kind: {"claim"}, key: Nat, holder: Thread]

\* The one type invariant.
TypeOK ==
  /\ home \in [Thread -> Process]
  /\ mu \in [Process -> Thread \cup {None}]
  /\ pc \in [Thread -> {"idle", "lock", "read", "keys", "mint", "write", "reply", "refuse"}]
  /\ request \in [Thread -> Request \cup {None}]
  /\ \A t \in Thread : copy[t] = None \/ (copy[t].key \in Nat /\ copy[t].row \in Row
                                             /\ copy[t].mark \in Mark \cup {None})
  /\ minted \in [Counter -> Nat]
  /\ DOMAIN issues \subseteq Nat /\ \A k \in DOMAIN issues : issues[k] \in Row
  /\ acked \subseteq Ack
  /\ requests \in 0..MaxRequests

Init ==
  /\ home \in [Thread -> Process]
  /\ mu = [p \in Process |-> None]
  /\ pc = [t \in Thread |-> "idle"]
  /\ request = [t \in Thread |-> None]
  /\ copy = [t \in Thread |-> None]
  /\ minted = [c \in Counter |-> IF c = "issue" THEN 1 ELSE 0]
  /\ issues = [k \in {1} |-> [id |-> 1, holder |-> None, marks |-> {}]]
  /\ acked = {}
  /\ requests = 0

-----------------------------------------------------------------------------
Goto(t, from, to) == pc[t] = from /\ pc' = [pc EXCEPT ![t] = to]
Unlock(t) == mu' = [mu EXCEPT ![home[t]] = None]

Begin(t, r) ==
  /\ requests < MaxRequests
  /\ Goto(t, "idle", "lock")
  /\ request' = [request EXCEPT ![t] = r]
  /\ requests' = requests + 1
  /\ UNCHANGED <<home, mu, copy, minted, issues, acked>>

MutReadLock(t) ==
  /\ pc[t] = "lock"
  /\ mu' = [mu EXCEPT ![home[t]] = t]
  /\ Goto(t, "lock", IF request[t].kind = "create" THEN "mint" ELSE "read")
  /\ UNCHANGED <<home, request, copy, minted, issues, acked, requests>>

\* s.mu.Lock of the thread's own process.
Lock(t) ==
  /\ pc[t] = "lock" /\ mu[home[t]] = None
  /\ mu' = [mu EXCEPT ![home[t]] = t]
  /\ Goto(t, "lock", IF request[t].kind = "create" THEN "mint" ELSE "read")
  /\ UNCHANGED <<home, request, copy, minted, issues, acked, requests>>

Found(t) == request[t].key \in DOMAIN issues
HeldByOther(t, row) == request[t].kind = "claim" /\ row.holder \notin {None, t}
AlreadyHeld(t, row) == request[t].kind = "claim" /\ row.holder = t

\* issueByKeyLocked, and what the handler decides on the row it read.
Read(t) ==
  /\ pc[t] = "read"
  /\ IF ~Found(t) \/ HeldByOther(t, issues[request[t].key])
     THEN Goto(t, "read", "refuse") /\ UNCHANGED copy
     ELSE LET row == issues[request[t].key]
          IN  /\ Goto(t, "read", IF AlreadyHeld(t, row) THEN "reply" ELSE "mint")
              /\ copy' = [copy EXCEPT ![t] = [key |-> request[t].key, mark |-> None, row |-> row]]
  /\ UNCHANGED <<home, mu, request, minted, issues, acked, requests>>

CounterOf(kind) ==
  CASE kind = "create" -> "issue" [] kind = "comment" -> "comment" [] kind = "claim" -> "hist"

MutMintFromRows(c) ==
  LET taken == UNION {{m.n : m \in {m \in issues[k].marks : m.counter = c}} : k \in DOMAIN issues}
  IN  Max(taken \cup {0}) + 1

\* nextSeqLocked: UPSERT .. RETURNING is one statement.
Minted(c) == minted[c] + 1

MutClaimedByServer(t, row, m) ==
  [row EXCEPT !.marks = @ \cup {m}, !.holder = IF request[t].kind = "claim" THEN home[t] ELSE @]

\* The handler's change to its copy of the row.
Marked(t, row, m) ==
  [row EXCEPT !.marks = @ \cup {m}, !.holder = IF request[t].kind = "claim" THEN t ELSE @]

\* Every handler but CreateIssue mints for the row it has read.
MintMark(t) ==
  /\ pc[t] = "mint" /\ request[t].kind # "create"
  /\ LET c == CounterOf(request[t].kind)
         m == [counter |-> c, n |-> Minted(c)]
     IN  /\ minted' = [minted EXCEPT ![c] = Minted(c)]
         /\ copy' = [copy EXCEPT ![t].row = Marked(t, @, m), ![t].mark = m]
  /\ Goto(t, "mint", "write")
  /\ UNCHANGED <<home, mu, request, issues, acked, requests>>

MintIssue(t) ==
  /\ pc[t] = "mint" /\ request[t].kind = "create"
  /\ minted' = [minted EXCEPT !["issue"] = Minted("issue")]
  /\ copy' = [copy EXCEPT ![t] =
       [key |-> 0, mark |-> None,
        row |-> [id |-> Minted("issue"), holder |-> None, marks |-> {}]]]
  /\ Goto(t, "mint", "keys")
  /\ UNCHANGED <<home, mu, request, issues, acked, requests>>

\* nextKeyNum: one more than the highest number of a key in the table.
ReadKeys(t) ==
  /\ Goto(t, "keys", "write")
  /\ copy' = [copy EXCEPT ![t].key = Max(DOMAIN issues) + 1]
  /\ UNCHANGED <<home, mu, request, minted, issues, acked, requests>>

\* putIssueLocked is INSERT OR REPLACE on the key.
Replaced(rows, key, row) == [k \in DOMAIN rows \cup {key} |-> IF k = key THEN row ELSE rows[k]]

Write(t) ==
  /\ Goto(t, "write", "reply")
  /\ issues' = Replaced(issues, copy[t].key, copy[t].row)
  /\ UNCHANGED <<home, mu, request, copy, minted, acked, requests>>

Acks(t) ==
  CASE request[t].kind = "create" ->
         {[kind |-> "row", key |-> copy[t].key, id |-> copy[t].row.id]}
    [] request[t].kind = "comment" ->
         {[kind |-> "mark", key |-> copy[t].key, mark |-> copy[t].mark]}
    [] request[t].kind = "claim" ->
         {[kind |-> "claim", key |-> copy[t].key, holder |-> t]}

\* The handler returns: the lock goes and the client is told.
Reply(t) ==
  /\ Goto(t, "reply", "idle")
  /\ Unlock(t)
  /\ acked' = acked \cup Acks(t)
  /\ request' = [request EXCEPT ![t] = None]
  /\ copy' = [copy EXCEPT ![t] = None]
  /\ UNCHANGED <<home, minted, issues, requests>>

MutRefuseLocked(t) ==
  /\ Goto(t, "refuse", "idle")
  /\ request' = [request EXCEPT ![t] = None]
  /\ UNCHANGED <<home, mu, copy, minted, issues, acked, requests>>

\* An early return: 404 or 409, through the deferred Unlock.
Refuse(t) ==
  /\ Goto(t, "refuse", "idle")
  /\ Unlock(t)
  /\ request' = [request EXCEPT ![t] = None]
  /\ UNCHANGED <<home, copy, minted, issues, acked, requests>>

\* A statement fails: the helper panics, the deferred Unlock runs, no answer is sent.
Abort(t) ==
  /\ pc[t] \in {"read", "mint", "keys", "write"}
  /\ pc' = [pc EXCEPT ![t] = "idle"]
  /\ Unlock(t)
  /\ request' = [request EXCEPT ![t] = None]
  /\ copy' = [copy EXCEPT ![t] = None]
  /\ UNCHANGED <<home, minted, issues, acked, requests>>

Handle(t) ==
  \/ Lock(t) \/ Read(t) \/ MintMark(t) \/ MintIssue(t) \/ ReadKeys(t) \/ Write(t)
  \/ Reply(t) \/ Refuse(t)

Requests ==
  [kind: {"comment", "claim"}, key: 1..(MaxRequests + 1)] \cup [kind: {"create"}]

Next ==
  \/ \E t \in Thread, r \in Requests : Begin(t, r)
  \/ \E t \in Thread : Handle(t) \/ Abort(t)

Spec == Init /\ [][Next]_vars

\* A goroutine that can take its next step is scheduled in the end; as requests
\* are bounded, no one overtakes a waiter at the mutex for ever.
ThreadsKeepGoing == \A t \in Thread : WF_vars(Handle(t))

-----------------------------------------------------------------------------
(* Properties.                                                             *)

\* "ACK is durable": what a client was told has been done is in the database,
\* whoever else writes: the issue it filed under its key, its comment, its claim.
AckIsDurable ==
  \A a \in acked :
    /\ a.key \in DOMAIN issues
    /\ CASE a.kind = "row" -> issues[a.key].id = a.id
         [] a.kind = "mark" -> a.mark \in issues[a.key].marks
         [] a.kind = "claim" -> issues[a.key].holder = a.holder

\* Between the threads of one process s.mu makes every acknowledged write last;
\* in particular of two threads that claim one issue at most one is told it won.
DurableWithinProcess == (\A t, u \in Thread : home[t] = home[u]) => AckIsDurable

\* Whichever processes they went to, no two requests are answered with the same
\* issue id or the same comment id (GDK-1180).
IdsMintedOnce ==
  \A a, b \in acked :
    /\ a.kind = "row" /\ b.kind = "row" /\ a.id = b.id => a = b
    /\ a.kind = "mark" /\ b.kind = "mark" /\ a.mark = b.mark => a = b

\* Every request comes to an end: no early return and no failed statement leaves
\* a mutex locked behind it.
RequestsEnd == \A t \in Thread : pc[t] # "idle" ~> pc[t] = "idle"
=============================================================================
