--------------------------------- MODULE Gateway ---------------------------------
(***************************************************************************)
(* Every request passes api.wrap (internal/api/server.go): the fault       *)
(* engine (internal/faults/faults.go) decides once, on arrival, what       *)
(* happens to it; it may be delayed, and be given up by its client during  *)
(* the delay; the handler runs unless the fault answers in its place; the  *)
(* answer may be cut short; at the end the request is traced               *)
(* (internal/api/trace.go).  Requests overlap; the engine and the trace    *)
(* have a mutex each.                                                      *)
(*                                                                         *)
(* A fault is [kinds, after, times, skip, delay, truncate, drift]; its     *)
(* method and path filters are the set of request kinds they let through,  *)
(* skip stands for a status or a malformed body.                           *)
(***************************************************************************)
EXTENDS Lists, FiniteSetsExt, SequencesExt

CONSTANTS
  Client,      \* clients, each with one request at a time
  Kind,        \* kinds of requests the faults' filters tell apart
  FaultList,   \* the fault lists an admin may load: a set of sequences of faults
  RingMax,     \* newLog's bound on the trace, 1000 in the code
  MaxAdmin     \* bound: resets and replacements

Fault == [kinds : SUBSET Kind, after : Nat, times : Nat,
          skip : BOOLEAN, delay : BOOLEAN, truncate : BOOLEAN, drift : BOOLEAN]

ASSUME GatewayAssumption ==
  /\ FaultList \subseteq Seq(Fault)
  /\ RingMax \in Nat \ {0}
  /\ MaxAdmin \in Nat

VARIABLES
  faults,     \* Engine.faults
  seen,       \* Engine.seen: how many requests have matched each fault
  applied,    \* Engine.applied: how many times each fault has fired
  call,       \* the request each client has under way
  ring,       \* Log.all
  nextId,     \* Log.next
  admin,      \* resets and replacements so far
  decided,    \* observation: [kind, fired] of every request since the counters were zeroed
  finished    \* observation: every request that ended, in that order

engine == <<faults, seen, applied, decided, admin>>
trace == <<ring, nextId, finished>>
gatewayVars == <<engine, call, trace>>

NoHit == [kinds |-> {}, after |-> 0, times |-> 0,
          skip |-> FALSE, delay |-> FALSE, truncate |-> FALSE, drift |-> FALSE]
NoCall == [stage |-> "none", kind |-> "none", fired |-> 0, hit |-> NoHit]

ZeroFor(list) == [i \in DOMAIN list |-> 0]

GatewayInit ==
  /\ faults \in FaultList
  /\ seen = ZeroFor(faults) /\ applied = ZeroFor(faults)
  /\ call = [c \in Client |-> NoCall]
  /\ ring = <<>> /\ nextId = 0 /\ admin = 0
  /\ decided = <<>> /\ finished = <<>>

(* ---- the engine ---- *)
Start(f) == IF f.after = 0 THEN 1 ELSE f.after

Matching(kind) == { i \in DOMAIN faults : kind \in faults[i].kinds }

\* The fault fires on the request that makes this its count.
Fires(i) ==
  /\ seen[i] + 1 >= Start(faults[i])
  /\ faults[i].times = 0 \/ applied[i] < faults[i].times

\* The first matching, active fault; 0 for none.
Fired(kind) ==
  LET active == { i \in Matching(kind) : Fires(i) }
  IN  IF active = {} THEN 0 ELSE CHOOSE i \in active : \A j \in active : i <= j

\* A plausible bug: only the fault that fires counts the request.
MutApply(kind) ==
  /\ seen' = [i \in DOMAIN faults |-> IF i = Fired(kind) THEN seen[i] + 1 ELSE seen[i]]
  /\ applied' = [i \in DOMAIN faults |-> IF i = Fired(kind) THEN applied[i] + 1 ELSE applied[i]]
  /\ decided' = Append(decided, [kind |-> kind, fired |-> Fired(kind)])

\* Apply: a request counts for every matching fault up to the one that fires.
Apply(kind) ==
  /\ seen' = [i \in DOMAIN faults |->
       IF i \in Matching(kind) /\ (Fired(kind) = 0 \/ i <= Fired(kind)) THEN seen[i] + 1 ELSE seen[i]]
  /\ applied' = [i \in DOMAIN faults |-> IF i = Fired(kind) THEN applied[i] + 1 ELSE applied[i]]
  /\ decided' = Append(decided, [kind |-> kind, fired |-> Fired(kind)])

\* A plausible bug: the new list goes on with the counters of the old one.
MutZeroed(list) ==
  /\ admin < MaxAdmin
  /\ faults' = list
  /\ UNCHANGED <<seen, applied>>
  /\ decided' = <<>>
  /\ admin' = admin + 1
  /\ UNCHANGED <<call, trace>>

Zeroed(list) ==
  /\ admin < MaxAdmin
  /\ faults' = list
  /\ seen' = ZeroFor(list) /\ applied' = ZeroFor(list)
  /\ decided' = <<>>
  /\ admin' = admin + 1
  /\ UNCHANGED <<call, trace>>

Reset == Zeroed(faults)
Replace(list) == list # faults /\ Zeroed(list)

(* ---- the trace ---- *)
\* The entry of a request: what it was and the fault it met, by its own copy of it.
Entry(c) == [client |-> c, kind |-> call[c].kind, fired |-> call[c].fired]

Kept(list) == IF Len(list) > RingMax THEN SubSeq(list, Len(list) - RingMax + 1, Len(list)) ELSE list

\* A plausible bug: the ring drops its newest entry when it is full.
MutAdd(c) ==
  /\ nextId' = nextId + 1
  /\ ring' = IF Len(ring) = RingMax THEN ring
             ELSE Append(ring, [id |-> nextId + 1, of |-> Entry(c)])
  /\ finished' = Append(finished, Entry(c))

Add(c) ==
  /\ nextId' = nextId + 1
  /\ ring' = Kept(Append(ring, [id |-> nextId + 1, of |-> Entry(c)]))
  /\ finished' = Append(finished, Entry(c))

\* list: the newest entries first, all of them for a limit of 0 or beyond the ring.
List(limit) ==
  LET n == IF limit = 0 \/ limit > Len(ring) THEN Len(ring) ELSE limit
  IN  [i \in 1..n |-> ring[Len(ring) + 1 - i]]

(* ---- a request: wrap ---- *)
Arrive(c, kind) ==
  /\ call[c].stage = "none"
  /\ Apply(kind)
  /\ LET hit == IF Fired(kind) = 0 THEN NoHit ELSE faults[Fired(kind)]
     IN  call' = [call EXCEPT ![c] =
           [stage |-> IF hit.delay THEN "delayed" ELSE "running",
            kind |-> kind, fired |-> Fired(kind), hit |-> hit]]
  /\ UNCHANGED <<faults, admin, trace>>

DelayEnds(c) ==
  /\ call[c].stage = "delayed"
  /\ call' = [call EXCEPT ![c].stage = "running"]
  /\ UNCHANGED <<engine, trace>>

\* The client is gone before the timer fires: no handler, no answer, no trace.
GivenUp(c) ==
  /\ call[c].stage = "delayed"
  /\ call' = [call EXCEPT ![c] = NoCall]
  /\ UNCHANGED <<engine, trace>>

\* A plausible bug: what was buffered to be cut short is never flushed.
MutHandled(c) ==
  /\ call[c].stage = "running" /\ ~call[c].hit.truncate
  /\ call' = [call EXCEPT ![c].stage = "answered"]
  /\ UNCHANGED <<engine, trace>>

\* writeFaultOrNext: the handler runs, or the fault answers without it.
Handled(c) ==
  /\ call[c].stage = "running"
  /\ call' = [call EXCEPT ![c].stage = "answered"]
  /\ UNCHANGED <<engine, trace>>

Finish(c) ==
  /\ call[c].stage = "answered"
  /\ Add(c)
  /\ call' = [call EXCEPT ![c] = NoCall]
  /\ UNCHANGED engine

\* The client got the whole answer of the handler.
Whole(c) == ~call[c].hit.skip /\ ~call[c].hit.truncate

GatewayNext ==
  \/ \E c \in Client :
       \/ \E kind \in Kind : Arrive(c, kind)
       \/ DelayEnds(c) \/ GivenUp(c) \/ Handled(c) \/ Finish(c)
  \/ Reset
  \/ \E list \in FaultList : Replace(list)

GatewaySpec == GatewayInit /\ [][GatewayNext]_gatewayVars

(* ---- properties ---- *)
Stage == {"none", "delayed", "running", "answered"}

\* Types: of the engine's counters there is one for each fault.
GatewayTypeOK ==
  /\ faults \in Seq(Fault)
  /\ seen \in [DOMAIN faults -> Nat] /\ applied \in [DOMAIN faults -> Nat]
  /\ call \in [Client -> [stage : Stage, kind : Kind \cup {"none"}, fired : Nat, hit : Fault]]

\* The requests since the counters were zeroed that fault i could have met, by their places
\* in the order they arrived.
OpenTo(i) ==
  { n \in DOMAIN decided :
      decided[n].kind \in faults[i].kinds /\ (decided[n].fired = 0 \/ decided[n].fired >= i) }

\* Of the matching requests that no earlier fault of the list took, each fault takes exactly
\* those from number After to number After + Times - 1 (faults.go: Apply), whatever order
\* they arrive in, and nothing it must not.
FaultWindow ==
  \A i \in DOMAIN faults :
    /\ \A n \in OpenTo(i) :
         LET count == Place(OpenTo(i), n)
         IN  decided[n].fired = i <=>
               /\ count >= Start(faults[i])
               /\ faults[i].times = 0 \/ count < Start(faults[i]) + faults[i].times
    /\ \A n \in DOMAIN decided : decided[n].fired = i => decided[n].kind \in faults[i].kinds

\* The dashboard's list (trace.go: add, list) is the end of the history of requests that
\* ended, newest first, under ascending ids, however many have been dropped.
TraceIsNewest ==
  /\ nextId = Len(finished)
  /\ Len(ring) = (IF nextId < RingMax THEN nextId ELSE RingMax)
  /\ \A limit \in 0..(RingMax + 1) : \A i \in DOMAIN List(limit) :
       List(limit)[i] = [id |-> nextId + 1 - i, of |-> finished[nextId + 1 - i]]
=============================================================================
