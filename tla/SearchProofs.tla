------------------------------ MODULE SearchProofs ------------------------------
(***************************************************************************)
(* What every request through the gateway can rely on, the windows of the  *)
(* faults and the trace, and what a search adds to it: its types, an       *)
(* answer in its order, and a walk that misses nothing (PagedWalk).        *)
(***************************************************************************)
EXTENDS Search, FiniteNats

\* A fault has been met by as many requests as could have met it, and has fired on those of
\* them that its window holds.
Within(n, f) == IF n < Start(f) THEN 0
                ELSE IF f.times = 0 \/ n < Start(f) + f.times THEN n - Start(f) + 1 ELSE f.times

CountersOK ==
  \A i \in DOMAIN faults :
    /\ IsFiniteSet(OpenTo(i)) /\ seen[i] = Cardinality(OpenTo(i))
    /\ applied[i] = Within(seen[i], faults[i])

DecidedOK == decided \in Seq([kind : Kind, fired : Nat])

EngineInv == GatewayTypeOK /\ DecidedOK /\ CountersOK /\ FaultWindow

EntryRow == [client : Client, kind : Kind \cup {"none"}, fired : Nat]

\* The trace is the end of the history.
RingInv ==
  /\ finished \in Seq(EntryRow) /\ nextId = Len(finished)
  /\ ring \in Seq([id : Nat, of : EntryRow])
  /\ Len(ring) = IF nextId < RingMax THEN nextId ELSE RingMax
  /\ \A j \in DOMAIN ring :
       ring[j] = [id |-> nextId - Len(ring) + j, of |-> finished[nextId - Len(ring) + j]]
-----------------------------------------------------------------------------
(* The engine.                                                             *)

LEMMA FaultIs ==
  ASSUME NEW f \in Fault
  PROVE  /\ f.kinds \in SUBSET Kind /\ f.after \in Nat /\ f.times \in Nat
         /\ Start(f) \in Nat \ {0}
BY DEF Fault, Start

LEMMA LoadedFault ==
  ASSUME GatewayTypeOK, NEW i \in DOMAIN faults
  PROVE  faults[i] \in Fault /\ i \in Nat \ {0} /\ seen[i] \in Nat /\ applied[i] \in Nat
<1>1. faults \in Seq(Fault) /\ seen \in [DOMAIN faults -> Nat] /\ applied \in [DOMAIN faults -> Nat]
  BY DEF GatewayTypeOK
<1>2. i \in 1..Len(faults)
  BY <1>1
<1> QED BY <1>1, <1>2

\* The window, in numbers: a fault fires on the next request if that is one it holds.
LEMMA FiresInWindow ==
  ASSUME GatewayTypeOK, NEW i \in DOMAIN faults, applied[i] = Within(seen[i], faults[i])
  PROVE  /\ Fires(i) <=> /\ seen[i] + 1 >= Start(faults[i])
                         /\ faults[i].times = 0 \/ seen[i] + 1 < Start(faults[i]) + faults[i].times
         /\ Within(seen[i] + 1, faults[i]) = IF Fires(i) THEN applied[i] + 1 ELSE applied[i]
<1> DEFINE f == faults[i]
           s == seen[i]
           b == Start(f)
           m == f.times
           a == applied[i]
<1>1. s \in Nat /\ b \in Nat \ {0} /\ m \in Nat /\ a \in Nat
  BY LoadedFault, FaultIs
<1>2. Fires(i) <=> s + 1 >= b /\ (m = 0 \/ a < m)
  BY DEF Fires
<1>3. /\ a = IF s < b THEN 0 ELSE IF m = 0 \/ s < b + m THEN s - b + 1 ELSE m
      /\ Within(s + 1, f) = IF s + 1 < b THEN 0 ELSE IF m = 0 \/ s + 1 < b + m THEN (s + 1) - b + 1 ELSE m
  BY DEF Within
<1> HIDE DEF f, s, b, m, a
<1>4. Fires(i) <=> s + 1 >= b /\ (m = 0 \/ s + 1 < b + m)
  BY <1>1, <1>2, <1>3
<1>5. Within(s + 1, f) = IF Fires(i) THEN a + 1 ELSE a
  BY <1>1, <1>2, <1>3
<1> QED BY <1>4, <1>5 DEF f, s, b, m, a

\* The fault that takes a request is the first of those that match and fire.
LEMMA FiredIs ==
  ASSUME GatewayTypeOK, NEW kind
  PROVE  /\ Fired(kind) \in DOMAIN faults \cup {0}
         /\ Fired(kind) # 0 => Fired(kind) \in Matching(kind) /\ Fires(Fired(kind))
         /\ \A i \in Matching(kind) : Fires(i) => Fired(kind) # 0 /\ Fired(kind) <= i
         /\ Fired(kind) \in Nat
<1> DEFINE active == { i \in Matching(kind) : Fires(i) }
<1>1. active \subseteq DOMAIN faults
  BY DEF Matching
<1>2. \A i \in DOMAIN faults : i \in Nat \ {0}
  BY LoadedFault
<1>3. CASE active = {}
  BY <1>3 DEF Fired
<1>4. CASE active # {}
  <2>1. PICK n \in active : \A m \in active : ~(<<m, n>> \in OpToRel(<, Nat))
    <3>1. active \subseteq Nat
      BY <1>1, <1>2
    <3> HIDE DEF active
    <3> QED BY <1>4, <3>1, NatLessThanWellFounded, WFMin
  <2>2. \A m \in active : ~(m < n)
    BY <2>1, <1>1, <1>2 DEF OpToRel
  <2>3. \A m \in active : n <= m
    BY <2>2, <1>1, <1>2
  <2>4. Fired(kind) \in active /\ \A m \in active : Fired(kind) <= m
    BY <1>4, <2>3 DEF Fired
  <2> QED BY <1>1, <1>2, <2>4
<1> QED BY <1>3, <1>4

LEMMA ApplySteps ==
  ASSUME EngineInv, NEW kind \in Kind, Apply(kind), UNCHANGED faults
  PROVE  /\ seen' \in [DOMAIN faults -> Nat] /\ applied' \in [DOMAIN faults -> Nat]
         /\ DecidedOK' /\ CountersOK' /\ FaultWindow'
<1> DEFINE fired == Fired(kind)
           new == [kind |-> kind, fired |-> fired]
           at == Len(decided) + 1
<1>a. GatewayTypeOK /\ DecidedOK /\ CountersOK /\ FaultWindow
  BY DEF EngineInv
<1>1. /\ seen' = [i \in DOMAIN faults |->
           IF i \in Matching(kind) /\ (fired = 0 \/ i <= fired) THEN seen[i] + 1 ELSE seen[i]]
      /\ applied' = [i \in DOMAIN faults |-> IF i = fired THEN applied[i] + 1 ELSE applied[i]]
      /\ decided' = Append(decided, new) /\ faults' = faults
  BY DEF Apply
<1>2. /\ fired \in Nat /\ fired \in DOMAIN faults \cup {0}
      /\ fired # 0 => fired \in Matching(kind) /\ Fires(fired)
      /\ \A i \in Matching(kind) : Fires(i) => fired # 0 /\ fired <= i
  BY <1>a, FiredIs
<1> HIDE DEF fired
<1>3. new \in [kind : Kind, fired : Nat] /\ new.kind = kind /\ new.fired = fired
  BY <1>2
<1> HIDE DEF new
<1>4. /\ DecidedOK' /\ at \in Nat \ {0} /\ DOMAIN decided = 1..Len(decided) /\ Len(decided) \in Nat
      /\ DOMAIN decided' = DOMAIN decided \cup {at} /\ decided'[at] = new
      /\ \A n \in DOMAIN decided : decided'[n] = decided[n] /\ n < at /\ n \in Nat
  <2>1. decided \in Seq([kind : Kind, fired : Nat])
    BY <1>a DEF DecidedOK
  <2> QED BY <1>1, <1>3, <2>1 DEF DecidedOK
<1> HIDE DEF at
<1>5. ASSUME NEW i \in DOMAIN faults
      PROVE  /\ i \in Nat \ {0} /\ seen[i] \in Nat /\ applied[i] \in Nat /\ faults[i] \in Fault
             /\ IsFiniteSet(OpenTo(i)) /\ seen[i] = Cardinality(OpenTo(i))
             /\ applied[i] = Within(seen[i], faults[i])
             /\ OpenTo(i) \in SUBSET Nat /\ \A n \in OpenTo(i) : n < at /\ n \in DOMAIN decided
  <2>1. \A n \in OpenTo(i) : n \in DOMAIN decided
    BY DEF OpenTo
  <2> QED BY <2>1, <1>4, <1>a, LoadedFault DEF CountersOK
<1>6. ASSUME NEW i \in DOMAIN faults, i \in Matching(kind) /\ (fired = 0 \/ i <= fired)
      PROVE  /\ OpenTo(i)' = OpenTo(i) \cup {at}
             /\ IsFiniteSet(OpenTo(i)') /\ Cardinality(OpenTo(i)') = seen[i] + 1
             /\ Place(OpenTo(i)', at) = seen[i] + 1
             /\ \A n \in OpenTo(i) : Place(OpenTo(i)', n) = Place(OpenTo(i), n)
             /\ fired = i <=> Fires(i)
  <2>1. OpenTo(i)' = OpenTo(i) \cup {at}
    <3>1. kind \in faults[i].kinds /\ (fired = 0 \/ fired >= i)
      BY <1>2, <1>5, <1>6 DEF Matching
    <3> QED BY <1>1, <1>3, <1>4, <3>1 DEF OpenTo
  <2>2. fired = i <=> Fires(i)
    BY <1>2, <1>5, <1>6
  <2>3. /\ IsFiniteSet(OpenTo(i) \cup {at}) /\ Cardinality(OpenTo(i) \cup {at}) = seen[i] + 1
        /\ Place(OpenTo(i) \cup {at}, at) = seen[i] + 1
        /\ \A n \in OpenTo(i) : Place(OpenTo(i) \cup {at}, n) = Place(OpenTo(i), n)
    <3> DEFINE S == OpenTo(i)
    <3>1. S \in SUBSET Nat /\ IsFiniteSet(S) /\ seen[i] = Cardinality(S) /\ \A m \in S : m < at
      BY <1>5
    <3>2. at \in Nat
      BY <1>4
    <3> HIDE DEF S
    <3>3. /\ IsFiniteSet(S \cup {at}) /\ Cardinality(S \cup {at}) = Cardinality(S) + 1
          /\ Place(S \cup {at}, at) = Cardinality(S) + 1
          /\ \A n \in S : Place(S \cup {at}, n) = Place(S, n)
      BY <3>1, <3>2, PlacesGrow
    <3> QED BY <3>1, <3>3 DEF S
  <2> QED BY <2>1, <2>2, <2>3
<1>7. ASSUME NEW i \in DOMAIN faults, ~(i \in Matching(kind) /\ (fired = 0 \/ i <= fired))
      PROVE  OpenTo(i)' = OpenTo(i) /\ fired # i
  <2>1. ~(kind \in faults[i].kinds /\ (fired = 0 \/ fired >= i))
    BY <1>2, <1>5, <1>7 DEF Matching
  <2>2. fired # i
    BY <1>2, <1>5, <1>7
  <2> QED BY <1>1, <1>3, <1>4, <2>1, <2>2 DEF OpenTo
<1>8. seen' \in [DOMAIN faults -> Nat] /\ applied' \in [DOMAIN faults -> Nat]
  BY <1>1, <1>5
<1>9. CountersOK'
  <2>1. ASSUME NEW i \in DOMAIN faults
        PROVE  /\ IsFiniteSet(OpenTo(i)') /\ seen'[i] = Cardinality(OpenTo(i)')
               /\ applied'[i] = Within(seen'[i], faults[i])
    <3>1. CASE i \in Matching(kind) /\ (fired = 0 \/ i <= fired)
      <4>1. seen'[i] = seen[i] + 1 /\ applied'[i] = IF Fires(i) THEN applied[i] + 1 ELSE applied[i]
        BY <1>1, <1>6, <3>1
      <4>2. Within(seen[i] + 1, faults[i]) = IF Fires(i) THEN applied[i] + 1 ELSE applied[i]
        BY <1>5, <1>a, FiresInWindow
      <4> QED BY <4>1, <4>2, <1>6, <3>1
    <3>2. CASE ~(i \in Matching(kind) /\ (fired = 0 \/ i <= fired))
      <4>1. seen'[i] = seen[i] /\ applied'[i] = applied[i] /\ OpenTo(i)' = OpenTo(i)
        BY <1>1, <1>7, <3>2
      <4> QED BY <4>1, <1>5
    <3> QED BY <3>1, <3>2
  <2> QED BY <2>1, <1>1 DEF CountersOK, OpenTo, Within, Start
<1>10. FaultWindow'
  <2> DEFINE In(count, i) == count >= Start(faults[i])
                            /\ (faults[i].times = 0 \/ count < Start(faults[i]) + faults[i].times)
  <2>1. ASSUME NEW i \in DOMAIN faults, NEW n \in OpenTo(i)'
        PROVE  decided'[n].fired = i <=> In(Place(OpenTo(i)', n), i)
    <3>1. CASE n \in OpenTo(i)
      <4>1. decided[n].fired = i <=> In(Place(OpenTo(i), n), i)
        BY <3>1, <1>a DEF FaultWindow
      <4>2. Place(OpenTo(i)', n) = Place(OpenTo(i), n)
        BY <1>6, <1>7, <3>1
      <4>3. decided'[n] = decided[n]
        BY <1>4, <1>5, <3>1
      <4> QED BY <4>1, <4>2, <4>3
    <3>2. CASE n \notin OpenTo(i)
      <4>1. n = at /\ i \in Matching(kind) /\ (fired = 0 \/ i <= fired)
        BY <1>6, <1>7, <2>1, <3>2
      <4>2. Place(OpenTo(i)', n) = seen[i] + 1 /\ (fired = i <=> Fires(i))
        BY <1>6, <4>1
      <4>3. Fires(i) <=> In(seen[i] + 1, i)
        BY <1>5, <1>a, FiresInWindow
      <4>4. decided'[n].fired = fired
        BY <1>3, <1>4, <4>1
      <4> QED BY <4>2, <4>3, <4>4
    <3> QED BY <3>1, <3>2
  <2>2. ASSUME NEW i \in DOMAIN faults, NEW n \in DOMAIN decided', decided'[n].fired = i
        PROVE  decided'[n].kind \in faults[i].kinds
    <3>1. CASE n \in DOMAIN decided
      BY <1>4, <2>2, <3>1, <1>a DEF FaultWindow
    <3>2. CASE n = at
      <4>1. fired = i /\ decided'[n].kind = kind
        BY <1>3, <1>4, <2>2, <3>2
      <4> QED BY <4>1, <1>2, <1>5 DEF Matching
    <3> QED BY <1>4, <3>1, <3>2
  <2> QED BY <2>1, <2>2, <1>1 DEF FaultWindow, Start
<1> QED BY <1>4, <1>8, <1>9, <1>10
-----------------------------------------------------------------------------
(* The trace.                                                              *)

\* The end of a list, at most RingMax long.
LEMMA KeptIs ==
  ASSUME NEW X, NEW list \in Seq(X), Len(list) <= RingMax + 1
  PROVE  /\ Kept(list) \in Seq(X)
         /\ Len(Kept(list)) = IF Len(list) > RingMax THEN RingMax ELSE Len(list)
         /\ \A j \in 1..Len(Kept(list)) :
              Kept(list)[j] = list[Len(list) - Len(Kept(list)) + j]
<1>1. RingMax \in Nat \ {0} /\ Len(list) \in Nat
  BY GatewayAssumption
<1>2. CASE Len(list) > RingMax
  <2>1. Len(list) = RingMax + 1
    BY <1>1, <1>2
  <2>2. Kept(list) = SubSeq(list, 2, RingMax + 1)
    <3>1. Len(list) - RingMax + 1 = 2
      BY <1>1, <2>1
    <3> QED BY <1>2, <2>1, <3>1 DEF Kept
  <2>3. /\ SubSeq(list, 2, RingMax + 1) \in Seq(X)
        /\ Len(SubSeq(list, 2, RingMax + 1)) = RingMax
        /\ \A j \in 1..RingMax : SubSeq(list, 2, RingMax + 1)[j] = list[1 + j]
    <3>1. \A i \in 2..(RingMax + 1) : list[i] \in X
      BY <1>1, <2>1
    <3>2. 2 \in Int /\ RingMax + 1 \in Int
      BY <1>1
    <3> QED BY <1>1, <2>1, <3>1, <3>2
  <2> QED BY <1>1, <1>2, <2>1, <2>2, <2>3
<1>3. CASE ~(Len(list) > RingMax)
  <2>1. Kept(list) = list
    BY <1>3 DEF Kept
  <2> QED BY <1>1, <1>3, <2>1
<1> QED BY <1>2, <1>3

LEMMA AddSteps ==
  ASSUME RingInv, NEW c, Entry(c) \in EntryRow, Add(c)
  PROVE  RingInv'
<1> DEFINE new == [id |-> nextId + 1, of |-> Entry(c)]
           RingRow == [id : Nat, of : EntryRow]
           longer == Append(ring, new)
           hist == Append(finished, Entry(c))
<1>1. /\ nextId' = nextId + 1 /\ ring' = Kept(longer) /\ finished' = hist
      /\ finished \in Seq(EntryRow) /\ nextId = Len(finished) /\ ring \in Seq(RingRow)
      /\ Len(ring) = IF nextId < RingMax THEN nextId ELSE RingMax
      /\ \A j \in DOMAIN ring :
           ring[j] = [id |-> nextId - Len(ring) + j, of |-> finished[nextId - Len(ring) + j]]
  BY DEF Add, RingInv
<1>2. nextId \in Nat /\ Len(ring) \in Nat /\ RingMax \in Nat \ {0} /\ Len(ring) <= RingMax
      /\ Len(ring) <= nextId
  <2>1. Len(finished) \in Nat /\ Len(ring) \in Nat
    BY <1>1
  <2>2. RingMax \in Nat \ {0}
    BY GatewayAssumption
  <2> QED BY <1>1, <2>1, <2>2
<1>3. new \in RingRow
  <2>1. nextId + 1 \in Nat
    BY <1>2
  <2> QED BY <2>1
<1> DEFINE r == Len(ring)
<1>4. /\ longer \in Seq(RingRow) /\ Len(longer) = r + 1 /\ longer[r + 1] = new
      /\ \A j \in 1..r : longer[j] = ring[j]
      /\ DOMAIN ring = 1..r
  <2> HIDE DEF RingRow, new
  <2> QED BY <1>1, <1>3
<1>5. /\ hist \in Seq(EntryRow) /\ Len(hist) = nextId + 1 /\ hist[nextId + 1] = Entry(c)
      /\ \A j \in 1..nextId : hist[j] = finished[j]
  BY <1>1
<1> HIDE DEF longer, hist, RingRow
<1>6. \A j \in 1..(r + 1) : longer[j] = [id |-> nextId - r + j, of |-> hist[nextId - r + j]]
  <2> TAKE j \in 1..(r + 1)
  <2>1. CASE j = r + 1
    <3>1. nextId - r + j = nextId + 1
      BY <1>2, <2>1
    <3> QED BY <1>4, <1>5, <2>1, <3>1
  <2>2. CASE j \in 1..r
    <3>1. nextId - r + j \in 1..nextId
      BY <1>2, <2>2
    <3> QED BY <1>1, <1>4, <1>5, <2>2, <3>1
  <2> QED BY <1>2, <2>1, <2>2
<1>7. /\ ring' \in Seq(RingRow)
      /\ Len(ring') = IF r + 1 > RingMax THEN RingMax ELSE r + 1
      /\ \A j \in 1..Len(ring') : ring'[j] = longer[r + 1 - Len(ring') + j]
  <2>1. Len(longer) <= RingMax + 1
    BY <1>2, <1>4
  <2> QED BY <1>1, <1>4, <2>1, KeptIs
<1> DEFINE q == Len(ring')
<1>8. q = IF nextId' < RingMax THEN nextId' ELSE RingMax
  BY <1>1, <1>2, <1>7
<1>9. q \in Nat /\ q <= r + 1
  BY <1>2, <1>7
<1> HIDE DEF r, q, new
<1>10. \A j \in 1..q : ring'[j] = [id |-> nextId' - q + j, of |-> finished'[nextId' - q + j]]
  <2> TAKE j \in 1..q
  <2> DEFINE i == r + 1 - q + j
  <2>1. i \in 1..(r + 1) /\ nextId - r + i = (nextId + 1) - q + j
    BY <1>2, <1>9 DEF r
  <2>2. ring'[j] = longer[i]
    BY <1>7 DEF q
  <2> HIDE DEF i
  <2>3. longer[i] = [id |-> nextId - r + i, of |-> hist[nextId - r + i]]
    BY <1>6, <2>1
  <2> QED BY <1>1, <2>1, <2>2, <2>3
<1>11. DOMAIN ring' = 1..q
  BY <1>7 DEF q
<1>12. finished' \in Seq(EntryRow) /\ nextId' = Len(finished')
  BY <1>1, <1>5
<1> QED BY <1>7, <1>8, <1>10, <1>11, <1>12 DEF RingInv, q, RingRow

LEMMA TraceIsNewestHolds == ASSUME RingInv PROVE TraceIsNewest
<1>1. /\ finished \in Seq(EntryRow) /\ nextId = Len(finished)
      /\ ring \in Seq([id : Nat, of : EntryRow])
      /\ Len(ring) = IF nextId < RingMax THEN nextId ELSE RingMax
      /\ \A j \in DOMAIN ring :
           ring[j] = [id |-> nextId - Len(ring) + j, of |-> finished[nextId - Len(ring) + j]]
  BY DEF RingInv
<1>2. RingMax \in Nat \ {0} /\ nextId \in Nat /\ Len(ring) \in Nat /\ DOMAIN ring = 1..Len(ring)
  BY <1>1, GatewayAssumption
<1>3. ASSUME NEW limit \in 0..(RingMax + 1), NEW i \in DOMAIN List(limit)
      PROVE  List(limit)[i] = [id |-> nextId + 1 - i, of |-> finished[nextId + 1 - i]]
  <2> DEFINE n == IF limit = 0 \/ limit > Len(ring) THEN Len(ring) ELSE limit
  <2>1. List(limit) = [j \in 1..n |-> ring[Len(ring) + 1 - j]]
    BY DEF List
  <2>2. n \in 0..Len(ring)
    BY <1>2
  <2> HIDE DEF n
  <2>3. i \in 1..n /\ List(limit)[i] = ring[Len(ring) + 1 - i]
    BY <2>1
  <2> DEFINE j == Len(ring) + 1 - i
  <2>4. j \in 1..Len(ring) /\ nextId - Len(ring) + j = nextId + 1 - i
    BY <1>2, <2>2, <2>3
  <2> HIDE DEF j
  <2>5. ring[j] = [id |-> nextId - Len(ring) + j, of |-> finished[nextId - Len(ring) + j]]
    BY <1>1, <1>2, <2>4
  <2> QED BY <2>3, <2>4, <2>5 DEF j
<1> QED BY <1>1, <1>3 DEF TraceIsNewest
-----------------------------------------------------------------------------
(* The specification.                                                      *)

GatewayInv == EngineInv /\ RingInv

CallRow == [stage : Stage, kind : Kind \cup {"none"}, fired : Nat, hit : Fault]

LEMMA NoCallIs == NoHit \in Fault /\ NoCall \in CallRow
<1>1. NoHit \in Fault
  BY DEF NoHit, Fault
<1> QED BY <1>1 DEF NoCall, CallRow, Stage

\* Counters at zero, before any request has been decided.
LEMMA CountersAtZero ==
  ASSUME faults \in Seq(Fault), seen = ZeroFor(faults), applied = ZeroFor(faults), decided = <<>>
  PROVE  /\ seen \in [DOMAIN faults -> Nat] /\ applied \in [DOMAIN faults -> Nat]
         /\ DecidedOK /\ CountersOK /\ FaultWindow
<1>1. seen = [i \in DOMAIN faults |-> 0] /\ applied = [i \in DOMAIN faults |-> 0]
  BY DEF ZeroFor
<1>2. \A i \in DOMAIN faults : OpenTo(i) = {}
  BY DEF OpenTo
<1>3. CountersOK
  <2> SUFFICES ASSUME NEW i \in DOMAIN faults
               PROVE  IsFiniteSet(OpenTo(i)) /\ seen[i] = Cardinality(OpenTo(i))
                      /\ applied[i] = Within(seen[i], faults[i])
    BY DEF CountersOK
  <2>1. OpenTo(i) = {} /\ seen[i] = 0 /\ applied[i] = 0
    BY <1>1, <1>2
  <2>2. Start(faults[i]) \in Nat \ {0}
    <3>1. faults[i] \in Fault
      OBVIOUS
    <3> QED BY <3>1, FaultIs
  <2>3. Within(0, faults[i]) = 0
    BY <2>2 DEF Within
  <2> QED BY <2>1, <2>3, FS_EmptySet
<1>4. FaultWindow
  BY <1>2 DEF FaultWindow
<1>5. DecidedOK
  BY DEF DecidedOK
<1>6. seen \in [DOMAIN faults -> Nat] /\ applied \in [DOMAIN faults -> Nat]
  BY <1>1
<1> QED BY <1>3, <1>4, <1>5, <1>6

LEMMA GatewayInvInitially == GatewayInit => GatewayInv
<1> SUFFICES ASSUME GatewayInit
             PROVE  GatewayInv
  OBVIOUS
<1>1. faults \in Seq(Fault) /\ RingMax \in Nat \ {0}
  BY GatewayAssumption DEF GatewayInit
<1>2. /\ seen \in [DOMAIN faults -> Nat] /\ applied \in [DOMAIN faults -> Nat]
      /\ DecidedOK /\ CountersOK /\ FaultWindow
  BY <1>1, CountersAtZero DEF GatewayInit
<1>3. call \in [Client -> CallRow]
  BY NoCallIs DEF GatewayInit
<1>4. RingInv
  BY <1>1 DEF GatewayInit, RingInv
<1> QED BY <1>1, <1>2, <1>3, <1>4 DEF GatewayInv, EngineInv, GatewayTypeOK, CallRow

\* Steps of a request after it was decided: the engine stays, and the trace may grow.
LEMMA EngineStays ==
  ASSUME EngineInv, UNCHANGED engine, call' \in [Client -> CallRow]
  PROVE  EngineInv'
<1>1. faults' = faults /\ seen' = seen /\ applied' = applied /\ decided' = decided
  BY DEF engine
<1>2. \A i : OpenTo(i)' = OpenTo(i)
  BY <1>1 DEF OpenTo
<1>3. CountersOK' /\ DecidedOK'
  BY <1>1, <1>2 DEF EngineInv, CountersOK, DecidedOK, Within, Start
<1>4. FaultWindow'
  BY <1>1, <1>2 DEF EngineInv, FaultWindow, Start
<1> QED BY <1>1, <1>3, <1>4 DEF EngineInv, GatewayTypeOK, CallRow

LEMMA TraceStays ==
  ASSUME RingInv, UNCHANGED trace
  PROVE  RingInv'
BY DEF RingInv, trace

LEMMA ArriveSteps ==
  ASSUME GatewayInv, NEW c \in Client, NEW kind \in Kind, Arrive(c, kind)
  PROVE  GatewayInv'
<1>a. EngineInv /\ RingInv /\ GatewayTypeOK
  BY DEF GatewayInv, EngineInv
<1> DEFINE hit == IF Fired(kind) = 0 THEN NoHit ELSE faults[Fired(kind)]
           new == [stage |-> IF hit.delay THEN "delayed" ELSE "running",
                   kind |-> kind, fired |-> Fired(kind), hit |-> hit]
<1>1. Apply(kind) /\ faults' = faults /\ call' = [call EXCEPT ![c] = new] /\ UNCHANGED trace
  BY DEF Arrive
<1>2. /\ seen' \in [DOMAIN faults -> Nat] /\ applied' \in [DOMAIN faults -> Nat]
      /\ DecidedOK' /\ CountersOK' /\ FaultWindow'
  BY <1>1, <1>a, ApplySteps
<1>3. Fired(kind) \in Nat /\ Fired(kind) \in DOMAIN faults \cup {0}
  BY <1>a, FiredIs
<1>4. hit \in Fault
  BY <1>3, <1>a, NoCallIs, LoadedFault
<1> HIDE DEF hit
<1>5. new \in CallRow
  BY <1>3, <1>4 DEF CallRow, Stage
<1> HIDE DEF new
<1>6. call' \in [Client -> CallRow]
  BY <1>1, <1>5, <1>a DEF GatewayTypeOK, CallRow
<1>7. GatewayTypeOK'
  BY <1>1, <1>2, <1>6, <1>a DEF GatewayTypeOK, CallRow
<1>8. RingInv'
  BY <1>1, <1>a, TraceStays
<1> QED BY <1>2, <1>7, <1>8 DEF GatewayInv, EngineInv

LEMMA OtherCallSteps ==
  ASSUME GatewayInv, NEW c \in Client, DelayEnds(c) \/ GivenUp(c) \/ Handled(c)
  PROVE  GatewayInv'
<1>a. EngineInv /\ RingInv /\ call \in [Client -> CallRow]
  BY DEF GatewayInv, EngineInv, GatewayTypeOK, CallRow
<1>1. UNCHANGED engine /\ UNCHANGED trace
  BY DEF DelayEnds, GivenUp, Handled
<1>2. ASSUME NEW stage \in Stage
      PROVE  [call EXCEPT ![c].stage = stage] \in [Client -> CallRow]
  <2>1. [call[c] EXCEPT !.stage = stage] \in CallRow
    BY <1>a DEF CallRow
  <2> QED BY <2>1, <1>a
<1>3. [call EXCEPT ![c] = NoCall] \in [Client -> CallRow]
  BY <1>a, NoCallIs
<1>4. call' \in [Client -> CallRow]
  BY <1>2, <1>3 DEF DelayEnds, GivenUp, Handled, Stage
<1> QED BY <1>1, <1>4, <1>a, EngineStays, TraceStays DEF GatewayInv

LEMMA FinishSteps ==
  ASSUME GatewayInv, NEW c \in Client, Finish(c)
  PROVE  GatewayInv'
<1>a. EngineInv /\ RingInv /\ call \in [Client -> CallRow]
  BY DEF GatewayInv, EngineInv, GatewayTypeOK, CallRow
<1>1. Add(c) /\ call' = [call EXCEPT ![c] = NoCall] /\ UNCHANGED engine
  BY DEF Finish
<1>2. call' \in [Client -> CallRow]
  BY <1>1, <1>a, NoCallIs
<1>3. Entry(c) \in EntryRow
  <2>1. call[c] \in CallRow
    BY <1>a
  <2> QED BY <2>1 DEF Entry, EntryRow, CallRow
<1>4. RingInv'
  BY <1>1, <1>3, <1>a, AddSteps
<1> QED BY <1>1, <1>2, <1>4, <1>a, EngineStays DEF GatewayInv

LEMMA ZeroedSteps ==
  ASSUME GatewayInv, NEW list \in Seq(Fault), Zeroed(list)
  PROVE  GatewayInv'
<1>a. EngineInv /\ RingInv /\ call \in [Client -> CallRow]
  BY DEF GatewayInv, EngineInv, GatewayTypeOK, CallRow
<1>1. /\ faults' = list /\ seen' = ZeroFor(list) /\ applied' = ZeroFor(list)
      /\ decided' = <<>> /\ call' = call /\ UNCHANGED trace
  BY DEF Zeroed
<1>2. (faults \in Seq(Fault) /\ seen = ZeroFor(faults) /\ applied = ZeroFor(faults) /\ decided = <<>>)'
  BY <1>1 DEF ZeroFor
<1>3. (/\ seen \in [DOMAIN faults -> Nat] /\ applied \in [DOMAIN faults -> Nat]
       /\ DecidedOK /\ CountersOK /\ FaultWindow)'
  BY <1>2, CountersAtZero, PTL
<1>4. GatewayTypeOK'
  BY <1>1, <1>3, <1>a DEF GatewayTypeOK, CallRow
<1>5. RingInv'
  BY <1>1, <1>a, TraceStays
<1> QED BY <1>3, <1>4, <1>5 DEF GatewayInv, EngineInv

LEMMA GatewaySteps ==
  ASSUME GatewayInv, [GatewayNext]_gatewayVars
  PROVE  GatewayInv'
<1>1. faults \in Seq(Fault) /\ \A list \in FaultList : list \in Seq(Fault)
  BY GatewayAssumption DEF GatewayInv, EngineInv, GatewayTypeOK
<1>2. ASSUME NEW c \in Client, NEW kind \in Kind, Arrive(c, kind)
      PROVE  GatewayInv'
  BY <1>2, ArriveSteps
<1>3. ASSUME NEW c \in Client, DelayEnds(c) \/ GivenUp(c) \/ Handled(c)
      PROVE  GatewayInv'
  BY <1>3, OtherCallSteps
<1>4. ASSUME NEW c \in Client, Finish(c)
      PROVE  GatewayInv'
  BY <1>4, FinishSteps
<1>5. ASSUME NEW list \in Seq(Fault), Zeroed(list)
      PROVE  GatewayInv'
  BY <1>5, ZeroedSteps
<1>6. CASE UNCHANGED gatewayVars
  <2>1. UNCHANGED engine /\ UNCHANGED trace /\ call' = call
    BY <1>6 DEF gatewayVars
  <2>2. call' \in [Client -> CallRow]
    BY <2>1 DEF GatewayInv, EngineInv, GatewayTypeOK, CallRow
  <2> QED BY <2>1, <2>2, EngineStays, TraceStays DEF GatewayInv
<1> QED BY <1>1, <1>2, <1>3, <1>4, <1>5, <1>6 DEF GatewayNext, Reset, Replace

\* One counter for each fault, and every call at one of its stages.
THEOREM GatewayTypesCorrect == GatewaySpec => []GatewayTypeOK
<1>1. GatewayInv /\ [GatewayNext]_gatewayVars => GatewayInv'
  BY GatewaySteps
<1>2. GatewayInv => GatewayTypeOK
  BY DEF GatewayInv, EngineInv
<1> QED BY <1>1, <1>2, GatewayInvInitially, PTL DEF GatewaySpec

\* Every fault takes the requests of its window and no other, whatever the order in which
\* overlapping requests arrive, and however long the list of faults is.
THEOREM FaultWindowsHold == GatewaySpec => []FaultWindow
<1>1. GatewayInv /\ [GatewayNext]_gatewayVars => GatewayInv'
  BY GatewaySteps
<1>2. GatewayInv => FaultWindow
  BY DEF GatewayInv, EngineInv
<1> QED BY <1>1, <1>2, GatewayInvInitially, PTL DEF GatewaySpec

\* The trace lists the newest requests under ascending ids, whatever its bound.
THEOREM TraceAlwaysNewest == GatewaySpec => []TraceIsNewest
<1>1. GatewayInv /\ [GatewayNext]_gatewayVars => GatewayInv'
  BY GatewaySteps
<1>2. GatewayInv => TraceIsNewest
  BY TraceIsNewestHolds DEF GatewayInv
<1> QED BY <1>1, <1>2, GatewayInvInitially, PTL DEF GatewaySpec
-----------------------------------------------------------------------------
(* The order of an answer.                                                 *)

\* Strings compared character by character: no two different ones are alike.
LEMMA TextOrder ==
  /\ \A a \in Seq(Int) : ~TextLess(a, a)
  /\ \A a, b \in Seq(Int) : a # b => TextLess(a, b) \/ TextLess(b, a)
  /\ \A a, b, c \in Seq(Int) : TextLess(a, b) /\ TextLess(b, c) => TextLess(a, c)
<1>1. ASSUME NEW a \in Seq(Int), TextLess(a, a)
      PROVE  FALSE
  <2>1. PICK n \in 1..Len(a) : n = Len(a) + 1 \/ a[n] < a[n]
    BY <1>1 DEF TextLess
  <2>2. n \in Nat /\ Len(a) \in Nat /\ a[n] \in Int
    OBVIOUS
  <2> QED BY <2>1, <2>2
<1>2. ASSUME NEW a \in Seq(Int), NEW b \in Seq(Int), a # b
      PROVE  TextLess(a, b) \/ TextLess(b, a)
  <2> DEFINE Ends(n) == n = Len(a) + 1 \/ n = Len(b) + 1 \/ a[n] # b[n]
             ends == { n \in Nat \ {0} : Ends(n) }
  <2>1. Len(a) \in Nat /\ Len(b) \in Nat
    OBVIOUS
  <2>2. Len(a) + 1 \in ends
    BY <2>1
  <2>3. PICK n \in ends : \A m \in ends : n <= m
    BY <2>2, LeastExists
  <2>4. \A m \in 1..(n - 1) : m <= Len(a) /\ m <= Len(b) /\ a[m] = b[m]
    <3> SUFFICES ASSUME NEW m \in 1..(n - 1) PROVE m <= Len(a) /\ m <= Len(b) /\ a[m] = b[m]
      OBVIOUS
    <3>1. m \in Nat \ {0} /\ m < n /\ n <= Len(a) + 1 /\ n <= Len(b) + 1
      <4>1. Len(b) + 1 \in ends
        BY <2>1
      <4> QED BY <2>2, <2>3, <4>1
    <3>2. m \notin ends
      <4> HIDE DEF Ends
      <4>1. n \in Nat /\ m \in Nat /\ (m \in ends => n <= m)
        BY <2>3, <3>1
      <4> QED BY <3>1, <4>1
    <3>3. ~Ends(m)
      BY <3>1, <3>2
    <3> QED BY <2>1, <3>1, <3>3
  <2>5. n \in Nat \ {0} /\ n <= Len(a) + 1 /\ n <= Len(b) + 1 /\ Ends(n)
    <3>1. Len(b) + 1 \in ends
      BY <2>1
    <3> QED BY <2>2, <2>3, <3>1
  <2>6. CASE n <= Len(a) /\ n <= Len(b)
    <3>1. a[n] \in Int /\ b[n] \in Int /\ a[n] # b[n]
      BY <2>1, <2>5, <2>6
    <3>2. a[n] < b[n] \/ b[n] < a[n]
      BY <3>1
    <3> QED BY <2>1, <2>4, <2>5, <2>6, <3>2 DEF TextLess
  <2>7. CASE n = Len(a) + 1 /\ n <= Len(b)
    BY <2>1, <2>4, <2>5, <2>7 DEF TextLess
  <2>8. CASE n = Len(b) + 1 /\ n <= Len(a)
    BY <2>1, <2>4, <2>5, <2>8 DEF TextLess
  <2>9. CASE n = Len(a) + 1 /\ n = Len(b) + 1
    <3>1. Len(a) = Len(b) /\ \A m \in 1..Len(a) : a[m] = b[m]
      BY <2>1, <2>4, <2>9
    <3>2. a = b
      BY <3>1, SeqEqual
    <3> QED BY <1>2, <3>2
  <2> HIDE DEF Ends
  <2> QED BY <2>1, <2>5, <2>6, <2>7, <2>8, <2>9
<1>3. ASSUME NEW a \in Seq(Int), NEW b \in Seq(Int), NEW c \in Seq(Int), TextLess(a, b), TextLess(b, c)
      PROVE  TextLess(a, c)
  <2>1. PICK m \in 1..Len(b) : /\ m <= Len(a) + 1 /\ \A i \in 1..(m - 1) : a[i] = b[i]
                               /\ m = Len(a) + 1 \/ a[m] < b[m]
    BY <1>3 DEF TextLess
  <2>2. PICK n \in 1..Len(c) : /\ n <= Len(b) + 1 /\ \A i \in 1..(n - 1) : b[i] = c[i]
                               /\ n = Len(b) + 1 \/ b[n] < c[n]
    BY <1>3 DEF TextLess
  <2>3. Len(a) \in Nat /\ Len(b) \in Nat /\ Len(c) \in Nat /\ m \in Nat /\ n \in Nat
    OBVIOUS
  <2>4. CASE m < n
    <3>1. b[m] = c[m] /\ m \in 1..Len(c) /\ \A i \in 1..(m - 1) : a[i] = c[i]
      BY <2>1, <2>2, <2>3, <2>4
    <3> QED BY <2>1, <3>1 DEF TextLess
  <2>5. CASE m >= n
    <3>1. b[n] < c[n] /\ n <= Len(a) + 1 /\ \A i \in 1..(n - 1) : a[i] = c[i]
      BY <2>1, <2>2, <2>3, <2>5
    <3>2. n = Len(a) + 1 \/ a[n] < c[n]
      <4>1. CASE n = Len(a) + 1
        BY <4>1
      <4>2. CASE n # Len(a) + 1
        <5>1. n \in 1..Len(a) /\ n \in 1..Len(b)
          BY <2>1, <2>3, <2>5, <3>1, <4>2
        <5>2. a[n] \in Int /\ b[n] \in Int /\ c[n] \in Int
          BY <5>1
        <5>3. a[n] = b[n] \/ a[n] < b[n]
          BY <2>1, <2>3, <2>5, <5>1, <4>2
        <5> QED BY <3>1, <5>2, <5>3
      <4> QED BY <4>1, <4>2
    <3> QED BY <3>1, <3>2 DEF TextLess
  <2> QED BY <2>3, <2>4, <2>5
<1> QED BY <1>1, <1>2, <1>3

\* A recursive definition says what it seems to: there is such a function up to every number,
\* for of the numbers up to which there is none take the least.
LEMMA PowerIs ==
  /\ Power = [n \in 0..Digits |-> IF n = 0 THEN 1 ELSE Radix * Power[n - 1]]
  /\ \A n \in 0..Digits : Power[n] \in Nat \ {0}
<1> DEFINE Good(f, m) == f = [n \in 0..m |-> IF n = 0 THEN 1 ELSE Radix * f[n - 1]]
           missing == { m \in Nat : ~\E f : Good(f, m) }
<1>1. Digits \in Nat /\ Radix \in Nat \ {0, 1}
  BY AnswersAssumption
<1>2. missing = {}
  <2> SUFFICES ASSUME missing # {} PROVE FALSE
    OBVIOUS
  <2>1. PICK m \in missing : \A n \in missing : m <= n
    BY LeastExists
  <2>2. m # 0
    <3> DEFINE f == [n \in {0} |-> 1]
    <3>1. Good(f, 0)
      <4>1. 0..0 = {0}
        OBVIOUS
      <4> QED BY <4>1
    <3> HIDE DEF Good, f
    <3> QED BY <3>1, <2>1
  <2>3. m - 1 \in Nat /\ m - 1 \notin missing
    <3> HIDE DEF Good
    <3>1. m \in Nat
      BY <2>1
    <3> QED BY <2>1, <2>2, <3>1
  <2>4. PICK f : Good(f, m - 1)
    <3> HIDE DEF Good
    <3> QED BY <2>3
  <2> DEFINE g == [n \in 0..m |-> IF n = 0 THEN 1 ELSE Radix * f[n - 1]]
  <2>5. m \in Nat \ {0}
    BY <2>1, <2>2
  <2>6. \A n \in 0..(m - 1) : g[n] = f[n]
    BY <2>4, <2>5
  <2>7. \A n \in 0..m : n # 0 => g[n - 1] = f[n - 1]
    <3> SUFFICES ASSUME NEW n \in 0..m, n # 0 PROVE n - 1 \in 0..(m - 1)
      BY <2>6
    <3> QED BY <2>5
  <2>8. Good(g, m)
    BY <2>7
  <2> HIDE DEF Good, g
  <2> QED BY <2>8, <2>1
<1>3. \E f : Good(f, Digits)
  <2> HIDE DEF Good
  <2> QED BY <1>1, <1>2
<1>4. Good(Power, Digits)
  BY <1>3 DEF Power
<1> DEFINE bad == { n \in 0..Digits : Power[n] \notin Nat \ {0} }
<1>5. bad = {}
  <2> SUFFICES ASSUME bad # {} PROVE FALSE
    OBVIOUS
  <2>1. PICK n \in bad : \A k \in bad : n <= k
    <3>1. bad \subseteq Nat
      BY <1>1
    <3> HIDE DEF bad
    <3> QED BY <3>1, LeastExists
  <2>2. n \in 0..Digits /\ Power[n] \notin Nat \ {0}
    OBVIOUS
  <2>3. n # 0
    BY <1>1, <1>4, <2>2
  <2>4. n - 1 \in 0..Digits /\ ~(n <= n - 1)
    BY <1>1, <2>2, <2>3
  <2>5. Power[n - 1] \in Nat \ {0}
    BY <2>1, <2>4
  <2>6. Power[n] = Radix * Power[n - 1]
    BY <1>4, <2>2, <2>3
  <2> DEFINE p == Power[n - 1]
  <2>7. p \in Nat \ {0} /\ Power[n] = Radix * p
    BY <2>5, <2>6
  <2> HIDE DEF p
  <2>8. Radix * p \in Nat /\ Radix * p # 0
    BY <1>1, <2>7
  <2> QED BY <2>2, <2>7, <2>8
<1> QED BY <1>4, <1>5

\* A stamp is a string: what is left of its fraction ends at its last digit that is not zero.
LEMMA StampText ==
  ASSUME NEW t \in Nat
  PROVE  OrderText(t) \in Seq(Int)
<1> DEFINE digits == [d \in 1..Digits |-> (t \div Power[Digits - d]) % Radix]
           Ends(n) == n = 0 \/ digits[n] # 0
           Used(n) == Ends(n) /\ \A d \in (n + 1)..Digits : digits[d] = 0
           used == CHOOSE n \in 0..Digits : Used(n)
           lasts == { n \in 0..Digits : Ends(n) }
<1>1. Digits \in Nat /\ Radix \in Nat \ {0, 1}
  BY AnswersAssumption
<1>2. \A p \in Nat \ {0} : t \div p \in Nat /\ (t \div p) % Radix \in Nat
  BY <1>1
<1>3. \A d \in 1..Digits : (t \div Power[Digits - d]) % Radix \in Nat
  <2> TAKE d \in 1..Digits
  <2>1. Digits - d \in 0..Digits
    BY <1>1
  <2>2. Power[Digits - d] \in Nat \ {0}
    BY <2>1, PowerIs
  <2> QED BY <1>2, <2>2
<1>4. digits \in [1..Digits -> Nat]
  BY <1>3
<1>5. t \div Power[Digits] \in Nat
  <2>1. Power[Digits] \in Nat \ {0}
    BY <1>1, PowerIs
  <2> QED BY <1>2, <2>1
<1>6. Fraction(t) = SubSeq(digits, 1, used)
  BY DEF Fraction
<1> HIDE DEF digits
<1>7. lasts \subseteq Nat /\ IsFiniteSet(lasts) /\ 0 \in lasts
  <2>1. IsFiniteSet(0..Digits) /\ lasts \subseteq 0..Digits
    BY <1>1, FS_Interval
  <2>2. 0..Digits \subseteq Nat /\ 0 \in 0..Digits
    BY <1>1
  <2>3. 0 \in lasts
    BY <2>2
  <2> HIDE DEF lasts
  <2> QED BY <2>1, <2>2, <2>3, FS_Subset
<1>8. PICK n \in lasts : \A m \in lasts : n >= m
  <2> HIDE DEF lasts
  <2> QED BY <1>7, GreatestExists
<1>9. n \in 0..Digits /\ Used(n)
  <2>1. \A d \in (n + 1)..Digits : digits[d] = 0
    <3> SUFFICES ASSUME NEW d \in (n + 1)..Digits, digits[d] # 0 PROVE FALSE
      OBVIOUS
    <3>1. n \in Nat /\ d \in 0..Digits /\ d > n
      BY <1>1, <1>7
    <3>2. d \in lasts
      BY <3>1
    <3>3. n >= d
      BY <1>8, <3>2
    <3> QED BY <3>1, <3>3
  <2> QED BY <2>1
<1>10. used \in 0..Digits
  <2> HIDE DEF Used
  <2> QED BY <1>9
<1> HIDE DEF used, lasts
<1>11. Fraction(t) \in Seq(Int)
  <2>1. \A i \in 1..used : digits[i] \in Int
    BY <1>1, <1>4, <1>10
  <2>2. digits \in Seq(Int)
    BY <1>1, <1>4
  <2> QED BY <1>1, <1>6, <1>10, <2>1, <2>2
<1>12. Dot \in Int /\ Zulu \in Int
  BY <1>1 DEF Dot, Zulu
<1>13. <<t \div Power[Digits]>> \in Seq(Int) /\ <<Zulu>> \in Seq(Int)
       /\ (IF Fraction(t) = <<>> THEN <<>> ELSE <<Dot>>) \in Seq(Int)
  BY <1>5, <1>12
<1>14. \A a, b, c, d \in Seq(Int) : a \o b \o c \o d \in Seq(Int)
  OBVIOUS
<1> QED BY <1>11, <1>13, <1>14 DEF OrderText

\* Issues that can be put in order: no two have the same key.
Orderable(S) ==
  /\ \A x \in S : x.rank \in Int /\ x.updated \in Nat
  /\ \A x, y \in S : x.rank = y.rank => x = y

LEMMA OrderValIs ==
  ASSUME NEW x, x.rank \in Int, x.updated \in Nat, NEW field
  PROVE  OrderVal(x, field) \in Seq(Int)
BY StampText DEF OrderVal

\* The key decides when nothing else does, so of two issues one is less, whatever the terms.
LEMMA LessOrder ==
  ASSUME NEW S, Orderable(S), NEW order \in Seq(OrderTerm)
  PROVE  /\ \A x \in S : ~Less(x, x, order)
         /\ \A x, y \in S : x # y => Less(x, y, order) \/ Less(y, x, order)
         /\ \A x, y, z \in S : Less(x, y, order) /\ Less(y, z, order) => Less(x, z, order)
<1> DEFINE val(x, n) == OrderVal(x, order[n].field)
           last == Len(order) + 1
           Wins(x, y, n) == IF n = last THEN x.rank < y.rank
                            ELSE IF order[n].desc THEN TextLess(val(y, n), val(x, n))
                            ELSE TextLess(val(x, n), val(y, n))
<1>1. Len(order) \in Nat /\ last \in Nat \ {0}
  OBVIOUS
<1>2. \A x, y : Less(x, y, order) <=>
        \E n \in 1..last : (\A m \in 1..(n - 1) : val(x, m) = val(y, m)) /\ Wins(x, y, n)
  BY DEF Less
<1>3. ASSUME NEW x \in S, NEW n
      PROVE  val(x, n) \in Seq(Int) /\ x.rank \in Int
  BY OrderValIs DEF Orderable
<1>4. ASSUME NEW x \in S, NEW n
      PROVE  ~Wins(x, x, n)
  BY <1>3, TextOrder
<1>5. ASSUME NEW x \in S, NEW y \in S, NEW n, IF n = last THEN x # y ELSE val(x, n) # val(y, n)
      PROVE  Wins(x, y, n) \/ Wins(y, x, n)
  <2>1. CASE n = last
    <3>1. x.rank # y.rank
      BY <1>5, <2>1 DEF Orderable
    <3>2. x.rank < y.rank \/ y.rank < x.rank
      BY <1>3, <3>1
    <3> QED BY <2>1, <3>2
  <2>2. CASE n # last
    BY <1>3, <1>5, <2>2, TextOrder
  <2> QED BY <2>1, <2>2
<1>6. ASSUME NEW x \in S, NEW y \in S, NEW z \in S, NEW n, Wins(x, y, n), Wins(y, z, n)
      PROVE  Wins(x, z, n)
  <2>1. CASE n = last
    <3>1. x.rank < y.rank /\ y.rank < z.rank
      BY <1>6, <2>1
    <3>2. x.rank < z.rank
      BY <1>3, <3>1
    <3> QED BY <2>1, <3>2
  <2>2. CASE n # last
    BY <1>3, <1>6, <2>2, TextOrder
  <2> QED BY <2>1, <2>2
<1>7. ASSUME NEW x \in S, NEW y \in S, NEW z \in S, NEW n,
             n # last, val(x, n) = val(y, n), Wins(y, z, n)
      PROVE  Wins(x, z, n)
  BY <1>7
<1>8. ASSUME NEW x \in S, NEW y \in S, NEW z \in S, NEW n,
             n # last, Wins(x, y, n), val(y, n) = val(z, n)
       PROVE  Wins(x, z, n)
  BY <1>8
<1> HIDE DEF val, Wins
<1>9. ASSUME NEW x \in S, Less(x, x, order) PROVE FALSE
  BY <1>2, <1>4, <1>9
<1>10. ASSUME NEW x \in S, NEW y \in S, x # y
       PROVE  Less(x, y, order) \/ Less(y, x, order)
  <2> DEFINE differ == { n \in 1..last : n = last \/ val(x, n) # val(y, n) }
  <2>1. differ \subseteq Nat /\ last \in differ
    BY <1>1
  <2>2. PICK n \in differ : \A m \in differ : n <= m
    <3> HIDE DEF differ
    <3> QED BY <2>1, LeastExists
  <2>3. n \in 1..last
    BY <2>2
  <2>4. \A m \in 1..(n - 1) : val(x, m) = val(y, m)
    <3> SUFFICES ASSUME NEW m \in 1..(n - 1), val(x, m) # val(y, m) PROVE FALSE
      OBVIOUS
    <3>1. m \in 1..last /\ ~(n <= m)
      BY <1>1, <2>3
    <3>2. m \in differ
      BY <3>1
    <3> QED BY <2>2, <3>1, <3>2
  <2>5. Wins(x, y, n) \/ Wins(y, x, n)
    <3>1. n = last \/ val(x, n) # val(y, n)
      BY <2>2
    <3>2. IF n = last THEN x # y ELSE val(x, n) # val(y, n)
      BY <1>10, <3>1
    <3> HIDE DEF last, differ
    <3> QED BY <1>5, <3>2
  <2> HIDE DEF differ
  <2> QED BY <1>2, <2>3, <2>4, <2>5
<1>11. ASSUME NEW x \in S, NEW y \in S, NEW z \in S, Less(x, y, order), Less(y, z, order)
       PROVE  Less(x, z, order)
  <2>1. PICK m \in 1..last : (\A i \in 1..(m - 1) : val(x, i) = val(y, i)) /\ Wins(x, y, m)
    BY <1>2, <1>11
  <2>2. PICK n \in 1..last : (\A i \in 1..(n - 1) : val(y, i) = val(z, i)) /\ Wins(y, z, n)
    BY <1>2, <1>11
  <2>3. m \in Nat /\ n \in Nat /\ m <= last /\ n <= last
    BY <1>1
  <2>4. CASE m < n
    <3>1. m # last /\ val(y, m) = val(z, m) /\ \A i \in 1..(m - 1) : val(x, i) = val(z, i)
      BY <1>1, <2>1, <2>2, <2>3, <2>4
    <3>2. Wins(x, z, m)
      <4> HIDE DEF last
      <4> QED BY <1>8, <2>1, <3>1
    <3> QED BY <1>2, <3>1, <3>2
  <2>5. CASE n < m
    <3>1. n # last /\ val(x, n) = val(y, n) /\ \A i \in 1..(n - 1) : val(x, i) = val(z, i)
      BY <1>1, <2>1, <2>2, <2>3, <2>5
    <3>2. Wins(x, z, n)
      <4> HIDE DEF last
      <4> QED BY <1>7, <2>2, <3>1
    <3> QED BY <1>2, <3>1, <3>2
  <2>6. CASE m = n
    <3>1. \A i \in 1..(m - 1) : val(x, i) = val(z, i)
      BY <2>1, <2>2, <2>6
    <3>2. Wins(x, z, m)
      <4> HIDE DEF last
      <4> QED BY <1>6, <2>1, <2>2, <2>6
    <3> QED BY <1>2, <3>1, <3>2
  <2> QED BY <2>3, <2>4, <2>5, <2>6
<1> QED BY <1>9, <1>10, <1>11

\* There is a list in the order, and it has every issue once.
LEMMA SortedIs ==
  ASSUME NEW S, IsFiniteSet(S), Orderable(S), NEW order \in Seq(OrderTerm)
  PROVE  /\ Sorted(S, order) \in Seq(S)
         /\ \A x \in S : \E n \in DOMAIN Sorted(S, order) : Sorted(S, order)[n] = x
         /\ \A m, n \in DOMAIN Sorted(S, order) :
              /\ Sorted(S, order)[m] = Sorted(S, order)[n] => m = n
              /\ m < n <=> Less(Sorted(S, order)[m], Sorted(S, order)[n], order)
<1> DEFINE c == Cardinality(S)
           R == { p \in S \X S : Less(p[1], p[2], order) }
           Rises(list) == \A i, j \in DOMAIN list : i < j => Less(list[i], list[j], order)
           list == Sorted(S, order)
<1>1. \A x, y \in S : <<x, y>> \in R <=> Less(x, y, order)
  OBVIOUS
<1> HIDE DEF R
<1>2. StrictOrder(S, R)
  BY <1>1, LessOrder DEF StrictOrder
<1>3. c \in Nat
  BY FS_CardinalityType
<1>4. InOrder(S, R) \in [1..c -> S] /\ Rises(InOrder(S, R))
  <2> DEFINE known == InOrder(S, R)
  <2>1. known \in Seq(S) /\ Len(known) = c
        /\ \A m, n \in DOMAIN known : m < n <=> <<known[m], known[n]>> \in R
    BY <1>2, OrderedList
  <2> HIDE DEF known
  <2>2. known \in [1..c -> S] /\ DOMAIN known = 1..c
    BY <2>1
  <2>3. \A i, j \in DOMAIN known : i < j => Less(known[i], known[j], order)
    <3> SUFFICES ASSUME NEW i \in 1..c, NEW j \in 1..c, i < j PROVE Less(known[i], known[j], order)
      BY <2>2
    <3>1. known[i] \in S /\ known[j] \in S /\ <<known[i], known[j]>> \in R
      BY <2>1, <2>2
    <3> QED BY <1>1, <3>1
  <2> QED BY <2>2, <2>3 DEF known
<1>5. list \in [1..c -> S] /\ Rises(list)
  <2>1. list = CHOOSE l \in [1..c -> S] : Rises(l)
    BY DEF Sorted
  <2> HIDE DEF list, Rises
  <2> QED BY <1>4, <2>1
<1> HIDE DEF list, c
<1>6. \A m, n \in 1..c : list[m] \in S /\ list[n] \in S
                         /\ (m < n => Less(list[m], list[n], order))
  BY <1>5
<1>7. ASSUME NEW m \in 1..c, NEW n \in 1..c
      PROVE  (list[m] = list[n] => m = n) /\ (m < n <=> Less(list[m], list[n], order))
  <2>1. m < n \/ m = n \/ n < m
    BY <1>3
  <2>2. ~(m < n /\ m = n) /\ ~(m < n /\ n < m)
    BY <1>3
  <2> QED BY <1>6, <2>1, <2>2, LessOrder
<1>8. \A x \in S : \E n \in 1..c : list[n] = x
  <2>1. list \in Injection(1..c, S)
    BY <1>5, <1>7 DEF Injection, IsInjective
  <2>2. IsFiniteSet(1..c) /\ Cardinality(1..c) = c
    BY <1>3, FS_Interval
  <2>3. list \in Surjection(1..c, S)
    BY <2>1, <2>2, FS_Injection DEF c
  <2> QED BY <2>3 DEF Surjection
<1>9. list \in Seq(S) /\ DOMAIN list = 1..c
  BY <1>3, <1>5
<1> QED BY <1>7, <1>8, <1>9 DEF list
-----------------------------------------------------------------------------
(* Answers and pages.                                                      *)

AskedOK ==
  /\ query.ok \in BOOLEAN /\ query.order \in Seq(OrderTerm)
  /\ max \in Nat \ {0} /\ dialect \in {"cloud", "dc"}

LEMMA RowIs ==
  ASSUME NEW rows, IsTable(rows), NEW k \in DOMAIN rows
  PROVE  /\ k \in Key /\ rows[k] \in IssueRow /\ rows[k].key = k /\ rows[k].rank = Rank[k]
         /\ rows[k].rank \in Int /\ rows[k].updated \in Nat
BY SearchAssumption DEF IsTable, IssueRow

LEMMA RowsOrderable ==
  ASSUME NEW rows, IsTable(rows)
  PROVE  /\ Orderable(Present(rows)) /\ IsFiniteSet(Present(rows))
         /\ \A row \in Present(rows) : row.key \in DOMAIN rows /\ row.key \in Key /\ rows[row.key] = row
<1>1. IsFiniteSet(Present(rows))
  <2>1. IsFiniteSet(DOMAIN rows)
    BY SearchAssumption, FS_Subset DEF IsTable
  <2>2. rows \in Surjection(DOMAIN rows, Present(rows))
    <3>1. rows \in [DOMAIN rows -> Present(rows)]
      BY DEF IsTable, Present
    <3> QED BY <3>1 DEF Surjection, Present
  <2> QED BY <2>1, <2>2, FS_Surjection
<1>2. \A row \in Present(rows) : \E k \in DOMAIN rows : row = rows[k]
  BY DEF Present
<1>3. \A x, y \in Present(rows) : x.rank = y.rank => x = y
  <2> SUFFICES ASSUME NEW x \in Present(rows), NEW y \in Present(rows), x.rank = y.rank PROVE x = y
    OBVIOUS
  <2>1. PICK j \in DOMAIN rows : x = rows[j]
    BY <1>2
  <2>2. PICK k \in DOMAIN rows : y = rows[k]
    BY <1>2
  <2>3. Rank[j] = Rank[k] /\ j \in Key /\ k \in Key
    BY <2>1, <2>2, RowIs
  <2> QED BY <2>1, <2>2, <2>3, SearchAssumption
<1>4. \A row \in Present(rows) : row.rank \in Int /\ row.updated \in Nat
                                 /\ row.key \in DOMAIN rows /\ row.key \in Key /\ rows[row.key] = row
  BY <1>2, RowIs
<1> QED BY <1>1, <1>3, <1>4 DEF Orderable

LEMMA OrderOfIs == AskedOK => OrderOf(query) \in Seq(OrderTerm)
<1>1. DefaultOrder \in Seq(OrderTerm)
  <2>1. [field |-> "updated", desc |-> TRUE] \in OrderTerm /\ [field |-> "key", desc |-> FALSE] \in OrderTerm
    BY DEF OrderTerm
  <2> QED BY <2>1 DEF DefaultOrder
<1> QED BY <1>1 DEF AskedOK, OrderOf

\* The answer is a list of some of the rows, each once, in the order asked for.
LEMMA ResultIs ==
  ASSUME NEW rows, IsTable(rows), AskedOK
  PROVE  /\ ResultOf(rows) \in Seq(Present(rows))
         /\ \A m, n \in DOMAIN ResultOf(rows) :
              /\ ResultOf(rows)[m] = ResultOf(rows)[n] => m = n
              /\ m < n <=> Less(ResultOf(rows)[m], ResultOf(rows)[n], OrderOf(query))
<1> DEFINE chosen == { iss \in Present(rows) : Satisfies(query.root, iss) }
           list == Sorted(chosen, OrderOf(query))
<1>1. CASE ~query.ok
  <2>1. ResultOf(rows) = <<>>
    BY <1>1 DEF ResultOf
  <2> QED BY <2>1
<1>2. CASE query.ok
  <2>1. ResultOf(rows) = list
    BY <1>2 DEF ResultOf, Filter
  <2>2. chosen \subseteq Present(rows)
    OBVIOUS
  <2> HIDE DEF chosen
  <2>3. IsFiniteSet(chosen) /\ Orderable(chosen)
    BY <2>2, RowsOrderable, FS_Subset DEF Orderable
  <2>4. /\ list \in Seq(chosen)
        /\ \A m, n \in DOMAIN list : (list[m] = list[n] => m = n)
                                     /\ (m < n <=> Less(list[m], list[n], OrderOf(query)))
    BY <2>3, OrderOfIs, SortedIs
  <2> HIDE DEF list
  <2>5. list \in Seq(Present(rows))
    BY <2>2, <2>4
  <2> QED BY <2>1, <2>4, <2>5
<1> QED BY <1>1, <1>2 DEF AskedOK

\* The same of the keys, each of which stands for its row.
LEMMA KeysAre ==
  ASSUME NEW rows, IsTable(rows), AskedOK
  PROVE  /\ KeysOf(ResultOf(rows)) \in Seq(Key)
         /\ Len(KeysOf(ResultOf(rows))) = Len(ResultOf(rows))
         /\ \A n \in DOMAIN KeysOf(ResultOf(rows)) :
              /\ n \in DOMAIN ResultOf(rows)
              /\ KeysOf(ResultOf(rows))[n] \in DOMAIN rows
              /\ ResultOf(rows)[n] = rows[KeysOf(ResultOf(rows))[n]]
         /\ \A m, n \in DOMAIN KeysOf(ResultOf(rows)) :
              /\ KeysOf(ResultOf(rows))[m] = KeysOf(ResultOf(rows))[n] => m = n
              /\ m < n <=> Less(rows[KeysOf(ResultOf(rows))[m]], rows[KeysOf(ResultOf(rows))[n]],
                                OrderOf(query))
<1> DEFINE result == ResultOf(rows)
           keys == KeysOf(result)
<1>1. /\ result \in Seq(Present(rows))
      /\ \A m, n \in DOMAIN result : (result[m] = result[n] => m = n)
                                     /\ (m < n <=> Less(result[m], result[n], OrderOf(query)))
  BY ResultIs
<1> HIDE DEF result
<1>2. Len(result) \in Nat /\ DOMAIN result = 1..Len(result)
  BY <1>1
<1>3. ASSUME NEW n \in DOMAIN result
      PROVE  /\ result[n].key \in Key /\ result[n].key \in DOMAIN rows
             /\ rows[result[n].key] = result[n]
  <2>1. result[n] \in Present(rows)
    BY <1>1
  <2> QED BY <2>1, RowsOrderable
<1>4. keys = [n \in 1..Len(result) |-> result[n].key]
  BY <1>2 DEF KeysOf
<1>5. keys \in Seq(Key) /\ Len(keys) = Len(result) /\ DOMAIN keys = DOMAIN result
  BY <1>2, <1>3, <1>4
<1>6. \A n \in DOMAIN keys : keys[n] = result[n].key
  BY <1>4, <1>5, <1>2
<1> HIDE DEF keys
<1>7. \A n \in DOMAIN keys : keys[n] \in DOMAIN rows /\ result[n] = rows[keys[n]]
  BY <1>3, <1>5, <1>6
<1>8. \A m, n \in DOMAIN keys : (keys[m] = keys[n] => m = n)
                                /\ (m < n <=> Less(rows[keys[m]], rows[keys[n]], OrderOf(query)))
  BY <1>1, <1>5, <1>7
<1> QED BY <1>5, <1>7, <1>8 DEF keys, result

LEMMA NoAnswerIs ==
  /\ NoAnswer.status = "none" /\ NoAnswer.rows = <<>> /\ NoAnswer.next = 0 /\ NoAnswer.isLast = FALSE
  /\ BadRequest.status = "refused" /\ BadRequest.rows = <<>> /\ BadRequest.next = 0
  /\ BadRequest.isLast = FALSE
BY DEF NoAnswer, BadRequest

\* A page is what there is from its offset on, and it says truly whether that is all; one that
\* holds nothing is the last.
LEMMA PageIs ==
  ASSUME NEW rows, IsTable(rows), AskedOK, NEW offset \in Nat
  PROVE  LET keys == KeysOf(ResultOf(rows))
             page == PageFrom(ResultOf(rows), offset)
         IN  \E n \in 0..Len(keys) :
               /\ n = 0 \/ offset + n <= Len(keys)
               /\ page = [status |-> "ok", rows |-> page.rows, next |-> offset + n,
                          isLast |-> offset + n >= Len(keys)]
               /\ page.rows \in Seq(Key)
               /\ ToSet(page.rows) = { keys[i] : i \in (offset + 1)..(offset + n) }
               /\ page.isLast \/ page.rows # <<>>
<1> DEFINE result == ResultOf(rows)
           keys == KeysOf(result)
           page == PageFrom(result, offset)
           most == IF offset + max < Len(result) THEN offset + max ELSE Len(result)
           n == IF offset > Len(result) THEN 0 ELSE most - offset
           some == SearchRows(result, offset, max)
<1>1. /\ keys \in Seq(Key) /\ Len(keys) = Len(result) /\ result \in Seq(Present(rows))
      /\ max \in Nat \ {0}
  BY KeysAre, ResultIs DEF AskedOK
<1> HIDE DEF result
<1>2. Len(result) \in Nat /\ DOMAIN result = 1..Len(result)
      /\ keys = [i \in 1..Len(result) |-> result[i].key]
  BY <1>1 DEF KeysOf
<1>3. n \in 0..Len(result) /\ (n = 0 \/ offset + n <= Len(result))
      /\ (n = 0 => offset >= Len(result))
  <2> DEFINE len == Len(result)
  <2>1. len \in Nat /\ max \in Nat \ {0}
    BY <1>1, <1>2
  <2>2. n = IF offset > len THEN 0 ELSE (IF offset + max < len THEN offset + max ELSE len) - offset
    OBVIOUS
  <2> HIDE DEF len, most, n
  <2>3. n \in 0..len /\ (n = 0 \/ offset + n <= len) /\ (n = 0 => offset >= len)
    BY <2>1, <2>2
  <2> QED BY <2>3 DEF len
<1>4. /\ some \in Seq(Present(rows)) /\ Len(some) = n
      /\ \A i \in 1..n : some[i] = result[offset + i]
  <2>1. CASE offset > Len(result)
    <3>1. some = <<>> /\ n = 0
      BY <2>1 DEF SearchRows
    <3> QED BY <3>1
  <2>2. CASE ~(offset > Len(result))
    <3>1. some = SubSeq(result, offset + 1, most)
      BY <2>2 DEF SearchRows
    <3>2. most \in Nat /\ offset <= most /\ most <= Len(result) /\ n = most - offset
      BY <1>1, <1>2, <2>2
    <3> HIDE DEF some, n, most
    <3>3. /\ SubSeq(result, offset + 1, most) \in Seq(Present(rows))
          /\ Len(SubSeq(result, offset + 1, most)) = most - offset
          /\ \A i \in 1..(most - offset) : SubSeq(result, offset + 1, most)[i] = result[offset + i]
      <4>1. \A i \in (offset + 1)..most : result[i] \in Present(rows)
        <5> TAKE i \in (offset + 1)..most
        <5>1. i \in 1..Len(result)
          BY <1>2, <3>2
        <5> QED BY <1>1, <5>1
      <4>2. offset + 1 \in Int /\ most \in Int
        BY <3>2
      <4> QED BY <1>1, <1>2, <3>2, <4>1, <4>2
    <3> QED BY <3>1, <3>2, <3>3
  <2> QED BY <2>1, <2>2
<1> HIDE DEF some, most
<1>5. page = [status |-> "ok", rows |-> KeysOf(some), next |-> offset + n,
              isLast |-> offset + n >= Len(result)]
  BY <1>4 DEF PageFrom, some
<1> HIDE DEF page, n, keys
<1>6. KeysOf(some) = [i \in 1..n |-> keys[offset + i]]
  <2>1. DOMAIN some = 1..n
    BY <1>3, <1>4
  <2>2. \A i \in 1..n : some[i].key = keys[offset + i]
    <3> TAKE i \in 1..n
    <3>1. offset + i \in 1..Len(result)
      BY <1>2, <1>3
    <3> QED BY <1>2, <1>4, <3>1
  <2> QED BY <2>1, <2>2 DEF KeysOf
<1>7. \A i \in 1..n : keys[offset + i] \in Key
  <2> TAKE i \in 1..n
  <2>1. offset + i \in 1..Len(keys)
    BY <1>1, <1>2, <1>3
  <2> QED BY <1>1, <2>1
<1>8. page.rows \in Seq(Key) /\ Len(page.rows) = n /\ DOMAIN page.rows = 1..n
      /\ \A i \in 1..n : page.rows[i] = keys[offset + i]
  <2>1. n \in Nat /\ page.rows = [i \in 1..n |-> keys[offset + i]]
    BY <1>2, <1>3, <1>5, <1>6
  <2> QED BY <1>7, <2>1
<1>9. ToSet(page.rows) = { keys[i] : i \in (offset + 1)..(offset + n) }
  <2>1. ToSet(page.rows) = { page.rows[i] : i \in 1..n }
    BY <1>8 DEF ToSet
  <2>2. n \in Nat
    BY <1>2, <1>3
  <2>3. ASSUME NEW i \in (offset + 1)..(offset + n)
        PROVE  \E j \in 1..n : page.rows[j] = keys[i]
    <3>1. i - offset \in 1..n /\ offset + (i - offset) = i
      BY <2>2
    <3> QED BY <1>8, <3>1
  <2>4. ASSUME NEW j \in 1..n
        PROVE  \E i \in (offset + 1)..(offset + n) : page.rows[j] = keys[i]
    <3>1. offset + j \in (offset + 1)..(offset + n)
      BY <2>2
    <3> QED BY <1>8, <3>1
  <2> QED BY <2>1, <2>3, <2>4
<1>10. page.isLast \/ page.rows # <<>>
  <2>1. CASE n = 0
    <3>1. page.isLast <=> offset + n >= Len(result)
      BY <1>5
    <3>2. offset + n >= Len(result)
      BY <1>2, <1>3, <2>1
    <3> QED BY <3>1, <3>2
  <2>2. CASE n # 0
    <3>1. Len(page.rows) # 0
      BY <1>8, <2>2
    <3> QED BY <3>1
  <2> QED BY <2>1, <2>2
<1>11. /\ n \in 0..Len(keys) /\ (n = 0 \/ offset + n <= Len(keys))
       /\ page = [status |-> "ok", rows |-> page.rows, next |-> offset + n,
                  isLast |-> offset + n >= Len(keys)]
  BY <1>1, <1>3, <1>5
<1> QED BY <1>8, <1>9, <1>10, <1>11 DEF page, keys, result
-----------------------------------------------------------------------------
(* What holds of every search.                                             *)

TableOK ==
  /\ IsTable(issue) /\ clock \in Nat
  /\ \A k \in DOMAIN issue : issue[k].updated <= clock

WalkRow == [state : {"walking", "done", "refused"}, token : Nat, got : Seq(Key)]
AnswerRow == [status : {"none", "ok", "refused"}, rows : Seq(Key), next : Nat, isLast : BOOLEAN]

\* A request of the walker is under way only while it walks, and one that is answered has an
\* answer, unless the fault answered in place of the handler.
WalkerOK ==
  /\ walk \in WalkRow /\ answer \in AnswerRow
  /\ call[Walker].stage # "none" => walk.state = "walking"
  /\ call[Walker].stage = "answered" /\ ~call[Walker].hit.skip => answer.status # "none"
  /\ answer.status = "ok" => answer.isLast \/ answer.rows # <<>>

ObservedOK ==
  /\ current = KeysOf(ResultOf(issue))
  /\ left \in BOOLEAN /\ drifted \in BOOLEAN

SearchInv == GatewayInv /\ AskedOK /\ TableOK /\ WalkerOK /\ ObservedOK

LEMMA WalkerIs == Walker \in Client /\ Writers = Client \ {Walker}
BY SearchAssumption DEF Walker, Writers

LEMMA CallIs ==
  ASSUME GatewayInv, NEW c \in Client
  PROVE  /\ call[c] \in CallRow /\ call[c].stage \in Stage /\ call[c].hit \in Fault
         /\ call[c].hit.skip \in BOOLEAN /\ call[c].hit.truncate \in BOOLEAN
         /\ call[c].hit.drift \in BOOLEAN /\ DOMAIN call = Client
<1>1. call \in [Client -> CallRow]
  BY DEF GatewayInv, EngineInv, GatewayTypeOK, CallRow
<1>2. call[c] \in CallRow /\ DOMAIN call = Client
  BY <1>1
<1> QED BY <1>2 DEF CallRow, Fault

\* What a step of a client's request does to the requests.
LEMMA CallSteps ==
  ASSUME GatewayInv, NEW c \in Client
  PROVE  /\ \A kind : Arrive(c, kind) => /\ call[c].stage = "none" /\ call'[c].stage \in {"delayed", "running"}
                                         /\ \A d \in Client \ {c} : call'[d] = call[d]
         /\ DelayEnds(c) => /\ call[c].stage = "delayed" /\ call'[c].stage = "running"
                            /\ \A d \in Client \ {c} : call'[d] = call[d]
         /\ GivenUp(c) => /\ call[c].stage = "delayed" /\ call'[c].stage = "none"
                          /\ \A d \in Client \ {c} : call'[d] = call[d]
         /\ Handled(c) => /\ call[c].stage = "running" /\ call'[c].stage = "answered"
                          /\ call'[c].hit = call[c].hit
                          /\ \A d \in Client \ {c} : call'[d] = call[d]
         /\ Finish(c) => /\ call[c].stage = "answered" /\ call'[c].stage = "none"
                         /\ \A d \in Client \ {c} : call'[d] = call[d]
<1>1. call[c] \in CallRow /\ DOMAIN call = Client /\ call \in [Client -> CallRow]
  BY CallIs DEF GatewayInv, EngineInv, GatewayTypeOK, CallRow
<1>2. ASSUME NEW new, call' = [call EXCEPT ![c] = new]
      PROVE  call'[c] = new /\ \A d \in Client \ {c} : call'[d] = call[d]
  BY <1>1, <1>2
<1>3. ASSUME NEW stage
      PROVE  /\ [call EXCEPT ![c].stage = stage] = [call EXCEPT ![c] = [call[c] EXCEPT !.stage = stage]]
             /\ [call[c] EXCEPT !.stage = stage].stage = stage
             /\ [call[c] EXCEPT !.stage = stage].hit = call[c].hit
  BY <1>1 DEF CallRow
<1>4. NoCall.stage = "none"
  BY DEF NoCall
<1>5. ASSUME NEW kind, Arrive(c, kind)
      PROVE  /\ call[c].stage = "none" /\ call'[c].stage \in {"delayed", "running"}
             /\ \A d \in Client \ {c} : call'[d] = call[d]
  <2> DEFINE hit == IF Fired(kind) = 0 THEN NoHit ELSE faults[Fired(kind)]
             new == [stage |-> IF hit.delay THEN "delayed" ELSE "running",
                     kind |-> kind, fired |-> Fired(kind), hit |-> hit]
  <2>1. call[c].stage = "none" /\ call' = [call EXCEPT ![c] = new]
    BY <1>5 DEF Arrive
  <2>2. new.stage \in {"delayed", "running"}
    OBVIOUS
  <2> HIDE DEF new
  <2> QED BY <1>2, <2>1, <2>2
<1>6. DelayEnds(c) => /\ call[c].stage = "delayed" /\ call'[c].stage = "running"
                      /\ \A d \in Client \ {c} : call'[d] = call[d]
  BY <1>2, <1>3 DEF DelayEnds
<1>7. GivenUp(c) => /\ call[c].stage = "delayed" /\ call'[c].stage = "none"
                    /\ \A d \in Client \ {c} : call'[d] = call[d]
  BY <1>2, <1>4 DEF GivenUp
<1>8. ASSUME Handled(c)
      PROVE  /\ call[c].stage = "running" /\ call'[c].stage = "answered"
             /\ call'[c].hit = call[c].hit
             /\ \A d \in Client \ {c} : call'[d] = call[d]
  <2> DEFINE new == [call[c] EXCEPT !.stage = "answered"]
  <2>1. call[c].stage = "running" /\ call' = [call EXCEPT ![c] = new]
    BY <1>3, <1>8 DEF Handled
  <2>2. new.stage = "answered" /\ new.hit = call[c].hit
    BY <1>3
  <2> HIDE DEF new
  <2> QED BY <1>2, <2>1, <2>2
<1>9. Finish(c) => /\ call[c].stage = "answered" /\ call'[c].stage = "none"
                   /\ \A d \in Client \ {c} : call'[d] = call[d]
  BY <1>2, <1>4 DEF Finish
<1> QED BY <1>5, <1>6, <1>7, <1>8, <1>9

\* Every step of a search is one of the gateway.
LEMMA SearchStepsGateway == [Next]_vars => [GatewayNext]_gatewayVars
<1> SUFFICES ASSUME [Next]_vars PROVE [GatewayNext]_gatewayVars
  OBVIOUS
<1>1. Walker \in Client /\ Writers = Client \ {Walker} /\ "search" \in Kind /\ "write" \in Kind
  BY WalkerIs, SearchAssumption
<1>2. CASE UNCHANGED vars
  BY <1>2 DEF vars
<1>3. CASE AskPage
  BY <1>1, <1>3 DEF AskPage, GatewayNext
<1>4. CASE WalkerWaits
  BY <1>1, <1>4 DEF WalkerWaits, GatewayNext
<1>5. CASE AnswerPage
  BY <1>1, <1>5 DEF AnswerPage, GatewayNext
<1>6. CASE ReceivePage
  BY <1>1, <1>6 DEF ReceivePage, GatewayNext
<1>7. ASSUME NEW c \in Writers, AskWrite(c) \/ WriterWaits(c) \/ AnswerWrite(c)
      PROVE  GatewayNext
  BY <1>1, <1>7 DEF AskWrite, WriterWaits, AnswerWrite, GatewayNext
<1>8. CASE Admin
  BY <1>8 DEF Admin, GatewayNext
<1> QED BY <1>2, <1>3, <1>4, <1>5, <1>6, <1>7, <1>8 DEF Next

LEMMA SearchInvInitially == Init => SearchInv
<1> SUFFICES ASSUME Init PROVE SearchInv
  OBVIOUS
<1>1. GatewayInv
  BY GatewayInvInitially DEF Init
<1>2. AskedOK
  BY SearchAssumption DEF Init, SearchInit, AskedOK
<1>3. TableOK
  <2>1. clock \in Nat
    BY SearchAssumption, FS_CardinalityType DEF Init, SearchInit
  <2> QED BY <2>1, SearchAssumption DEF Init, SearchInit, TableOK
<1>4. WalkerOK
  <2>1. call[Walker].stage = "none"
    BY WalkerIs DEF Init, GatewayInit, NoCall
  <2>2. NoAnswer \in AnswerRow /\ NoAnswer.status = "none"
    BY DEF NoAnswer, AnswerRow
  <2>3. [state |-> "walking", token |-> 0, got |-> <<>>] \in WalkRow
    BY DEF WalkRow
  <2> QED BY <2>1, <2>2, <2>3 DEF Init, SearchInit, WalkerOK
<1>5. ObservedOK
  BY DEF Init, SearchInit, ObservedOK
<1> QED BY <1>1, <1>2, <1>3, <1>4, <1>5 DEF SearchInv

LEMMA AskedStays == AskedOK /\ UNCHANGED asked => AskedOK'
BY DEF AskedOK, asked

LEMMA ResultStays ==
  ASSUME UNCHANGED <<query, issue>>
  PROVE  ResultOf(issue)' = ResultOf(issue)
BY DEF ResultOf

\* The answer of the handler, if it ran; the page is from where the walker asks, unless the
\* drift fault is on.
LEMMA HandlerIs ==
  ASSUME SearchInv, AnswerPage
  PROVE  LET hit == call[Walker].hit
         IN  /\ hit.skip => answer' = NoAnswer
             /\ ~hit.skip /\ ~query.ok => answer' = BadRequest
             /\ ~hit.skip /\ query.ok =>
                  \E offset \in Nat : /\ answer' = PageFrom(ResultOf(issue), offset)
                                      /\ ~(dialect = "dc" /\ hit.drift) => offset = walk.token
<1> DEFINE hit == call[Walker].hit
           token == walk.token
           late == IF hit.drift /\ token > 0 THEN token + 1 ELSE token
<1>1. answer' = IF hit.skip THEN NoAnswer
                ELSE IF dialect = "cloud" THEN PostSearchJQL(ResultOf(issue), token)
                ELSE LegacySearch(ResultOf(issue), token, hit.drift)
  BY DEF AnswerPage
<1>2. token \in Nat /\ dialect \in {"cloud", "dc"} /\ late \in Nat
  <2>1. token \in Nat
    BY DEF SearchInv, WalkerOK, WalkRow
  <2> QED BY <2>1 DEF SearchInv, AskedOK
<1> HIDE DEF hit, token
<1>3. ASSUME ~hit.skip, query.ok, dialect = "cloud"
      PROVE  answer' = PageFrom(ResultOf(issue), token)
  BY <1>1, <1>3 DEF PostSearchJQL
<1>4. ASSUME ~hit.skip, query.ok, dialect = "dc"
      PROVE  answer' = PageFrom(ResultOf(issue), late) /\ (~hit.drift => late = token)
  BY <1>1, <1>4 DEF LegacySearch
<1>5. ~hit.skip /\ ~query.ok => answer' = BadRequest
  BY <1>1 DEF PostSearchJQL, LegacySearch
<1>6. hit.skip => answer' = NoAnswer
  BY <1>1
<1>7. ASSUME ~hit.skip, query.ok
      PROVE  \E offset \in Nat : /\ answer' = PageFrom(ResultOf(issue), offset)
                                 /\ ~(dialect = "dc" /\ hit.drift) => offset = token
  <2>1. CASE dialect = "cloud"
    BY <1>2, <1>3, <1>7, <2>1
  <2>2. CASE dialect = "dc"
    BY <1>2, <1>4, <1>7, <2>2
  <2> QED BY <1>2, <2>1, <2>2
<1> QED BY <1>5, <1>6, <1>7 DEF hit, token

LEMMA AnswerTyped ==
  ASSUME SearchInv, AnswerPage
  PROVE  /\ answer' \in AnswerRow
         /\ ~call[Walker].hit.skip => answer'.status # "none"
         /\ answer'.status = "ok" => answer'.isLast \/ answer'.rows # <<>>
<1>1. NoAnswer \in AnswerRow /\ BadRequest \in AnswerRow
  BY DEF NoAnswer, BadRequest, AnswerRow
<1>2. ASSUME NEW offset \in Nat
      PROVE  LET page == PageFrom(ResultOf(issue), offset)
             IN  page \in AnswerRow /\ page.status = "ok" /\ (page.isLast \/ page.rows # <<>>)
  <2> DEFINE keys == KeysOf(ResultOf(issue))
             page == PageFrom(ResultOf(issue), offset)
  <2>1. PICK n \in 0..Len(keys) :
          /\ page = [status |-> "ok", rows |-> page.rows, next |-> offset + n,
                     isLast |-> offset + n >= Len(keys)]
          /\ page.rows \in Seq(Key) /\ (page.isLast \/ page.rows # <<>>)
    BY PageIs DEF SearchInv, TableOK
  <2>2. n \in Nat /\ Len(keys) \in Nat
    BY KeysAre DEF SearchInv, TableOK
  <2>3. offset + n \in Nat /\ (offset + n >= Len(keys)) \in BOOLEAN
    BY <2>2
  <2> HIDE DEF keys, page
  <2> DEFINE some == page.rows
  <2>4. page = [status |-> "ok", rows |-> some, next |-> offset + n, isLast |-> offset + n >= Len(keys)]
        /\ some \in Seq(Key)
    BY <2>1
  <2> HIDE DEF some
  <2>5. page.status = "ok"
    BY <2>4
  <2>6. page \in AnswerRow
    BY <2>3, <2>4 DEF AnswerRow
  <2> QED BY <2>1, <2>5, <2>6 DEF page
<1>3. call[Walker].hit.skip \in BOOLEAN /\ query.ok \in BOOLEAN
  BY CallIs, WalkerIs DEF SearchInv, AskedOK
<1>4. CASE call[Walker].hit.skip
  <2>1. answer' = NoAnswer
    BY <1>4, HandlerIs
  <2> QED BY <1>1, <1>4, <2>1, NoAnswerIs
<1>5. CASE ~call[Walker].hit.skip /\ ~query.ok
  <2>1. answer' = BadRequest
    BY <1>5, HandlerIs
  <2> QED BY <1>1, <2>1, NoAnswerIs
<1>6. CASE ~call[Walker].hit.skip /\ query.ok
  <2>1. PICK offset \in Nat : answer' = PageFrom(ResultOf(issue), offset)
    BY <1>6, HandlerIs
  <2> QED BY <1>2, <2>1
<1> QED BY <1>4, <1>5, <1>6

\* A write changes one row, which is now the one written last.
LEMMA RowWritten ==
  ASSUME TableOK, NEW k \in Key, NEW labels \in SUBSET Label, EditRow(k, labels) \/ NewRow(k, labels)
  PROVE  /\ TableOK' /\ clock' = clock + 1
         /\ DOMAIN issue' = DOMAIN issue \cup {k} /\ issue'[k].updated = clock + 1
         /\ \A j \in DOMAIN issue \ {k} : issue'[j] = issue[j]
<1>1. /\ clock \in Nat /\ DOMAIN issue \subseteq Key /\ issue \in [DOMAIN issue -> IssueRow]
      /\ \A j \in DOMAIN issue : issue[j].key = j /\ issue[j].rank = Rank[j] /\ issue[j].updated <= clock
  BY DEF TableOK, IsTable
<1>2. clock' = clock + 1 /\ labels \in SUBSET FieldText /\ Rank[k] \in Int /\ "" \in FieldText /\ "todo" \in FieldText
  BY SearchAssumption DEF EditRow, NewRow
<1>3. PICK row \in IssueRow :
        /\ row.key = k /\ row.rank = Rank[k] /\ row.updated = clock + 1
        /\ issue' = [j \in DOMAIN issue \cup {k} |-> IF j = k THEN row ELSE issue[j]]
  <2>1. CASE EditRow(k, labels)
    <3> DEFINE row == [issue[k] EXCEPT !.labels = labels, !.updated = clock + 1]
    <3>1. k \in DOMAIN issue /\ issue' = [issue EXCEPT ![k].labels = labels, ![k].updated = clock + 1]
      BY <2>1 DEF EditRow
    <3>2. issue[k] \in IssueRow
      BY <1>1, <3>1
    <3>3. row \in IssueRow /\ row.key = issue[k].key /\ row.rank = issue[k].rank /\ row.updated = clock + 1
      <4> DEFINE now == clock + 1
      <4>1. now \in Nat
        BY <1>1
      <4> HIDE DEF now
      <4>2. /\ [issue[k] EXCEPT !.labels = labels, !.updated = now] \in IssueRow
            /\ [issue[k] EXCEPT !.labels = labels, !.updated = now].key = issue[k].key
            /\ [issue[k] EXCEPT !.labels = labels, !.updated = now].rank = issue[k].rank
            /\ [issue[k] EXCEPT !.labels = labels, !.updated = now].updated = now
        BY <1>2, <3>2, <4>1 DEF IssueRow
      <4> QED BY <4>2 DEF now
    <3>4. issue' = [j \in DOMAIN issue \cup {k} |-> IF j = k THEN row ELSE issue[j]]
      <4>1. DOMAIN issue \cup {k} = DOMAIN issue
        BY <3>1
      <4>2. issue' = [issue EXCEPT ![k] = row]
        BY <1>1, <3>1, <3>2 DEF IssueRow
      <4> HIDE DEF row
      <4> QED BY <1>1, <4>1, <4>2
    <3> HIDE DEF row
    <3> QED BY <1>1, <3>1, <3>3, <3>4
  <2>2. CASE NewRow(k, labels)
    <3> DEFINE row == [key |-> k, rank |-> Rank[k], updated |-> clock + 1, status |-> "todo",
                       assignee |-> "", labels |-> labels, sprint |-> ""]
    <3>1. row \in IssueRow /\ row.key = k /\ row.rank = Rank[k] /\ row.updated = clock + 1
      <4> DEFINE now == clock + 1
      <4>1. now \in Nat
        BY <1>1
      <4>2. row.key = k /\ row.rank = Rank[k] /\ row.updated = now
        OBVIOUS
      <4> HIDE DEF now
      <4>3. [key |-> k, rank |-> Rank[k], updated |-> now, status |-> "todo",
             assignee |-> "", labels |-> labels, sprint |-> ""] \in IssueRow
        BY <1>2, <4>1 DEF IssueRow
      <4> QED BY <4>2, <4>3 DEF now
    <3>2. issue' = [j \in DOMAIN issue \cup {k} |-> IF j = k THEN row ELSE issue[j]]
      BY <2>2 DEF NewRow
    <3> HIDE DEF row
    <3> QED BY <3>1, <3>2
  <2> QED BY <2>1, <2>2
<1>4. /\ DOMAIN issue' = DOMAIN issue \cup {k} /\ issue'[k] = row
      /\ \A j \in DOMAIN issue \ {k} : issue'[j] = issue[j]
  BY <1>3
<1>5. issue' \in [DOMAIN issue' -> IssueRow]
  BY <1>1, <1>3
<1>6. clock \in Nat /\ clock' = clock + 1
  BY <1>1, <1>2
<1>7. \A j \in DOMAIN issue' : /\ issue'[j].key = j /\ issue'[j].rank = Rank[j]
                               /\ issue'[j].updated <= clock'
  <2> TAKE j \in DOMAIN issue'
  <2>1. CASE j = k
    <3>1. issue'[j].key = j /\ issue'[j].rank = Rank[j] /\ issue'[j].updated = clock + 1
      BY <1>3, <1>4, <2>1
    <3> QED BY <1>6, <3>1
  <2>2. CASE j # k
    <3>1. j \in DOMAIN issue
      BY <1>4, <2>2
    <3>2. issue'[j] = issue[j] /\ issue[j] \in IssueRow
      BY <1>1, <1>4, <2>2, <3>1
    <3>3. issue[j].updated \in Nat /\ issue[j].updated <= clock
      BY <1>1, <3>1, <3>2 DEF IssueRow
    <3>4. issue[j].updated <= clock'
      BY <1>6, <3>3
    <3> QED BY <1>1, <3>1, <3>2, <3>4
  <2> QED BY <2>1, <2>2
<1>8. IsTable(issue') /\ clock' \in Nat
  <2>1. DOMAIN issue' \subseteq Key
    BY <1>1, <1>4
  <2> QED BY <1>6, <1>5, <1>7, <2>1 DEF IsTable
<1>9. TableOK'
  BY <1>7, <1>8 DEF TableOK, IsTable
<1> QED BY <1>2, <1>3, <1>4, <1>9

LEMMA WalkerStays ==
  ASSUME WalkerOK, UNCHANGED <<walk, answer>>, call'[Walker] = call[Walker]
  PROVE  WalkerOK'
BY DEF WalkerOK, WalkRow, AnswerRow

LEMMA SearchVarsStay ==
  ASSUME SearchInv, UNCHANGED searchVars
  PROVE  AskedOK' /\ TableOK' /\ ObservedOK' /\ UNCHANGED <<walk, answer>>
<1>1. UNCHANGED <<issue, clock, walk, answer, current, left, drifted, query>> /\ UNCHANGED asked
  BY DEF searchVars, observed, asked
<1> QED BY <1>1, AskedStays, ResultStays DEF SearchInv, TableOK, ObservedOK, KeysOf

LEMMA WalkerAsks ==
  ASSUME SearchInv, AskPage \/ WalkerWaits
  PROVE  AskedOK' /\ TableOK' /\ ObservedOK' /\ WalkerOK'
<1>1. UNCHANGED searchVars /\ Walker \in Client /\ GatewayInv /\ WalkerOK
  BY WalkerIs DEF AskPage, WalkerWaits, SearchInv
<1>2. AskedOK' /\ TableOK' /\ ObservedOK' /\ UNCHANGED <<walk, answer>>
  BY <1>1, SearchVarsStay
<1>3. call'[Walker].stage # "answered" /\ (call'[Walker].stage # "none" => walk.state = "walking")
  <2>1. CASE AskPage
    BY <1>1, <2>1, CallSteps DEF AskPage
  <2>2. CASE WalkerWaits
    BY <1>1, <2>2, CallSteps DEF WalkerWaits, WalkerOK
  <2> QED BY <2>1, <2>2
<1> QED BY <1>1, <1>2, <1>3 DEF WalkerOK, WalkRow, AnswerRow

LEMMA WalkerAnswered ==
  ASSUME SearchInv, AnswerPage
  PROVE  AskedOK' /\ TableOK' /\ ObservedOK' /\ WalkerOK'
<1>1. /\ Handled(Walker) /\ Walker \in Client /\ GatewayInv /\ WalkerOK
      /\ UNCHANGED <<issue, clock, walk, current, left, query>> /\ UNCHANGED asked
      /\ drifted' = (drifted \/ (dialect = "dc" /\ call[Walker].hit.drift))
  BY WalkerIs DEF AnswerPage, SearchInv, asked
<1>2. AskedOK' /\ TableOK' /\ ObservedOK'
  BY <1>1, AskedStays, ResultStays DEF SearchInv, TableOK, ObservedOK, KeysOf
<1>3. /\ call[Walker].stage = "running" /\ call'[Walker].hit = call[Walker].hit
  BY <1>1, CallSteps
<1>4. /\ answer' \in AnswerRow
      /\ ~call[Walker].hit.skip => answer'.status # "none"
      /\ answer'.status = "ok" => answer'.isLast \/ answer'.rows # <<>>
  BY AnswerTyped
<1> QED BY <1>1, <1>2, <1>3, <1>4 DEF WalkerOK, WalkRow, AnswerRow

LEMMA WalkerReceives ==
  ASSUME SearchInv, ReceivePage
  PROVE  AskedOK' /\ TableOK' /\ ObservedOK' /\ WalkerOK'
<1>1. /\ Finish(Walker) /\ Walker \in Client /\ GatewayInv /\ WalkerOK
      /\ UNCHANGED <<issue, clock, current, left, drifted, query>> /\ UNCHANGED asked
      /\ answer' = NoAnswer
  BY WalkerIs DEF ReceivePage, SearchInv, observed, asked
<1>2. AskedOK' /\ TableOK' /\ ObservedOK'
  BY <1>1, AskedStays, ResultStays DEF SearchInv, TableOK, ObservedOK, KeysOf
<1>3. call'[Walker].stage = "none"
  BY <1>1, CallSteps
<1>4. NoAnswer \in AnswerRow /\ NoAnswer.status = "none"
  BY DEF NoAnswer, AnswerRow
<1>5. walk \in WalkRow /\ walk.got \in Seq(Key) /\ answer.rows \in Seq(Key) /\ answer.next \in Nat
  BY <1>1 DEF WalkerOK, WalkRow, AnswerRow
<1>6. walk' \in WalkRow
  <2>1. [walk EXCEPT !.state = "refused"] \in WalkRow
    BY <1>5 DEF WalkRow
  <2>2. walk.got \o answer.rows \in Seq(Key)
    BY <1>5
  <2>3. [state |-> IF answer.isLast THEN "done" ELSE "walking",
         token |-> answer.next, got |-> walk.got \o answer.rows] \in WalkRow
    BY <1>5, <2>2 DEF WalkRow
  <2> QED BY <1>5, <2>1, <2>3 DEF ReceivePage
<1> QED BY <1>1, <1>2, <1>3, <1>4, <1>6 DEF WalkerOK, WalkRow, AnswerRow

LEMMA WriterSteps ==
  ASSUME SearchInv, NEW c \in Writers, AskWrite(c) \/ WriterWaits(c) \/ AnswerWrite(c)
  PROVE  AskedOK' /\ TableOK' /\ ObservedOK' /\ WalkerOK'
<1>1. c \in Client /\ Walker \in Client \ {c} /\ GatewayInv /\ WalkerOK /\ TableOK
  BY WalkerIs DEF SearchInv
<1>2. call'[Walker] = call[Walker]
  BY <1>1, CallSteps DEF AskWrite, WriterWaits, AnswerWrite
<1>3. UNCHANGED <<walk, answer, query, drifted>> /\ UNCHANGED asked
  BY DEF AskWrite, WriterWaits, AnswerWrite, searchVars, observed, asked
<1>4. WalkerOK' /\ AskedOK'
  BY <1>1, <1>2, <1>3, WalkerStays, AskedStays DEF SearchInv
<1>5. CASE UNCHANGED <<issue, clock, current, left>>
  BY <1>3, <1>4, <1>5, ResultStays DEF SearchInv, TableOK, ObservedOK, KeysOf
<1>6. CASE \E k \in Key, labels \in SUBSET Label :
              /\ EditRow(k, labels) \/ NewRow(k, labels)
              /\ current' = KeysOf(ResultOf(issue'))
              /\ left' = (left \/ ~(ToSet(current) \subseteq ToSet(current')))
  <2>1. PICK k \in Key, labels \in SUBSET Label :
              /\ EditRow(k, labels) \/ NewRow(k, labels)
              /\ current' = KeysOf(ResultOf(issue'))
              /\ left' = (left \/ ~(ToSet(current) \subseteq ToSet(current')))
    BY <1>6
  <2>2. TableOK'
    BY <1>1, <2>1, RowWritten
  <2>3. ResultOf(issue)' = ResultOf(issue')
    BY <1>3 DEF ResultOf
  <2>4. ObservedOK'
    BY <1>3, <2>1, <2>3 DEF SearchInv, ObservedOK, KeysOf
  <2> QED BY <1>4, <2>2, <2>4
<1>7. UNCHANGED <<issue, clock, current, left>> \/
      \E k \in Key, labels \in SUBSET Label :
              /\ EditRow(k, labels) \/ NewRow(k, labels)
              /\ current' = KeysOf(ResultOf(issue'))
              /\ left' = (left \/ ~(ToSet(current) \subseteq ToSet(current')))
  BY DEF AskWrite, WriterWaits, AnswerWrite, searchVars, observed
<1> QED BY <1>5, <1>6, <1>7

LEMMA SearchSteps == SearchInv /\ [Next]_vars => SearchInv'
<1> SUFFICES ASSUME SearchInv, [Next]_vars PROVE SearchInv'
  OBVIOUS
<1>1. GatewayInv'
  BY GatewaySteps, SearchStepsGateway DEF SearchInv
<1>2. ASSUME UNCHANGED searchVars, call' = call
      PROVE  AskedOK' /\ TableOK' /\ ObservedOK' /\ WalkerOK'
  <2>1. call'[Walker] = call[Walker]
    BY <1>2
  <2> QED BY <1>2, <2>1, SearchVarsStay, WalkerStays DEF SearchInv
<1>3. CASE UNCHANGED vars
  BY <1>1, <1>2, <1>3 DEF vars, gatewayVars, SearchInv
<1>4. CASE AskPage \/ WalkerWaits
  BY <1>1, <1>4, WalkerAsks DEF SearchInv
<1>5. CASE AnswerPage
  BY <1>1, <1>5, WalkerAnswered DEF SearchInv
<1>6. CASE ReceivePage
  BY <1>1, <1>6, WalkerReceives DEF SearchInv
<1>7. ASSUME NEW c \in Writers, AskWrite(c) \/ WriterWaits(c) \/ AnswerWrite(c) PROVE SearchInv'
  BY <1>1, <1>7, WriterSteps DEF SearchInv
<1>8. CASE Admin
  <2>1. UNCHANGED searchVars /\ call' = call
    BY <1>8 DEF Admin, Reset, Replace, Zeroed
  <2> QED BY <1>1, <1>2, <2>1 DEF SearchInv
<1> QED BY <1>3, <1>4, <1>5, <1>6, <1>7, <1>8 DEF Next

\* Types, whoever asks and writes what, and however many digits the clock has.
THEOREM SearchTypes == Spec => []TypeOK
<1>1. SearchInv => TypeOK
  BY DEF SearchInv, TableOK, WalkerOK, WalkRow, AnswerRow, GatewayInv, EngineInv, TypeOK
<1> QED BY <1>1, SearchInvInitially, SearchSteps, PTL DEF Spec

\* Whatever else a search does, of its requests the gateway's properties hold.
THEOREM SearchIsGateway == Spec => GatewaySpec
<1>1. Init => GatewayInit
  BY DEF Init
<1> QED BY <1>1, SearchStepsGateway, PTL DEF Spec, GatewaySpec
-----------------------------------------------------------------------------
(* What holds with the deterministic clock, whose stamps have no fraction: *)
(* with a wall clock neither does (MCWallOrder).                           *)

LEMMA StampNumber ==
  ASSUME Digits = 0, NEW t \in Nat
  PROVE  OrderText(t) = <<t, Radix>>
<1>1. Power[Digits] = 1
  BY PowerIs
<1>2. Fraction(t) = <<>>
  <2> DEFINE digits == [d \in 1..Digits |-> (t \div Power[Digits - d]) % Radix]
             Used(n) == /\ n = 0 \/ digits[n] # 0
                        /\ \A d \in (n + 1)..Digits : digits[d] = 0
             used == CHOOSE n \in 0..Digits : Used(n)
  <2>1. Fraction(t) = SubSeq(digits, 1, used)
    BY DEF Fraction
  <2>2. Used(0) /\ 0..Digits = {0}
    OBVIOUS
  <2>3. used = 0
    <3> HIDE DEF Used
    <3> QED BY <2>2
  <2> HIDE DEF digits, used
  <2>4. SubSeq(digits, 1, 0) = <<>>
    OBVIOUS
  <2> QED BY <2>1, <2>3, <2>4
<1>3. t \div Power[Digits] = t
  BY <1>1
<1>4. (IF Fraction(t) = <<>> THEN <<>> ELSE <<Dot>>) = <<>>
  BY <1>2
<1>5. OrderText(t) = <<t \div Power[Digits]>> \o (IF Fraction(t) = <<>> THEN <<>> ELSE <<Dot>>)
                       \o Fraction(t) \o <<Radix>>
  BY DEF OrderText, Zulu
<1>6. <<t>> \o <<>> \o <<>> \o <<Radix>> = <<t, Radix>>
  <2>1. <<t>> \in Seq(Int) /\ <<Radix>> \in Seq(Int) /\ <<>> \in Seq(Int)
    BY AnswersAssumption
  <2>2. <<t>> \o <<>> = <<t>>
    BY <2>1, ConcatEmptySeq
  <2>3. <<t>> \o <<Radix>> = <<t, Radix>>
    <3> DEFINE one == <<t>>
               two == <<Radix>>
               both == one \o two
    <3>1. one \in Seq(Int) /\ two \in Seq(Int) /\ Len(one) = 1 /\ Len(two) = 1 /\ one[1] = t /\ two[1] = Radix
      BY <2>1
    <3> HIDE DEF one, two
    <3>2. both \in Seq(Int) /\ Len(both) = 2 /\ both[1] = t /\ both[2] = Radix
      <4>1. /\ both \in Seq(Int) /\ Len(both) = Len(one) + Len(two)
            /\ \A i \in 1..(Len(one) + Len(two)) :
                 both[i] = IF i <= Len(one) THEN one[i] ELSE two[i - Len(one)]
        BY <3>1, ConcatProperties
      <4>2. 1 \in 1..2 /\ 2 \in 1..2 /\ ~(2 <= 1) /\ 2 - 1 = 1
        OBVIOUS
      <4> HIDE DEF both
      <4> QED BY <3>1, <4>1, <4>2
    <3> HIDE DEF both
    <3>3. <<t, Radix>> \in Seq(Int) /\ Len(<<t, Radix>>) = 2 /\ \A i \in 1..2 : both[i] = <<t, Radix>>[i]
      BY <3>2, AnswersAssumption
    <3>4. both = <<t, Radix>>
      BY <3>2, <3>3, SeqEqual
    <3> QED BY <3>4 DEF both, one, two
  <2> QED BY <2>2, <2>3
<1> QED BY <1>2, <1>3, <1>4, <1>5, <1>6

LEMMA TextLessNumber ==
  ASSUME Digits = 0, NEW s \in Nat, NEW t \in Nat
  PROVE  /\ TextLess(OrderText(s), OrderText(t)) <=> s < t
         /\ OrderText(s) = OrderText(t) <=> s = t
<1>1. OrderText(s) = <<s, Radix>> /\ OrderText(t) = <<t, Radix>> /\ Radix \in Nat
  BY StampNumber, AnswersAssumption
<1>2. TextLess(<<s, Radix>>, <<t, Radix>>) <=> s < t
  <2>1. ASSUME s < t PROVE TextLess(<<s, Radix>>, <<t, Radix>>)
    <3>1. 1 \in 1..2 /\ 1 <= 3 /\ \A i \in 1..(1 - 1) : <<s, Radix>>[i] = <<t, Radix>>[i]
      OBVIOUS
    <3> QED BY <2>1, <3>1 DEF TextLess
  <2>2. ASSUME TextLess(<<s, Radix>>, <<t, Radix>>) PROVE s < t
    <3>1. PICK n \in 1..2 : /\ \A i \in 1..(n - 1) : <<s, Radix>>[i] = <<t, Radix>>[i]
                            /\ n = 3 \/ <<s, Radix>>[n] < <<t, Radix>>[n]
      BY <2>2 DEF TextLess
    <3>2. n = 1 \/ n = 2
      OBVIOUS
    <3> QED BY <1>1, <3>1, <3>2
  <2> QED BY <2>1, <2>2
<1> QED BY <1>1, <1>2

\* What the order says in numbers.
LEMMA LessNumber ==
  ASSUME Digits = 0, NEW order \in Seq(OrderTerm), NEW n \in DOMAIN order,
         NEW a, a.rank \in Int, a.updated \in Nat, NEW b, b.rank \in Int, b.updated \in Nat
  PROVE  LET va == OrderVal(a, order[n].field)
             vb == OrderVal(b, order[n].field)
         IN  /\ order[n].field = "updated" => (TextLess(va, vb) <=> a.updated < b.updated)
                                              /\ (va = vb <=> a.updated = b.updated)
             /\ order[n].field = "key" => (TextLess(va, vb) <=> a.rank < b.rank)
                                          /\ (va = vb <=> a.rank = b.rank)
             /\ order[n].field \in {"updated", "key"} /\ order[n].desc \in BOOLEAN
<1>1. order[n] \in OrderTerm
  OBVIOUS
<1>2. order[n].field \in {"updated", "key"} /\ order[n].desc \in BOOLEAN
  BY <1>1 DEF OrderTerm
<1>3. CASE order[n].field = "updated"
  <2>1. OrderVal(a, order[n].field) = OrderText(a.updated) /\ OrderVal(b, order[n].field) = OrderText(b.updated)
    BY <1>3 DEF OrderVal
  <2>2. /\ TextLess(OrderText(a.updated), OrderText(b.updated)) <=> a.updated < b.updated
        /\ OrderText(a.updated) = OrderText(b.updated) <=> a.updated = b.updated
    BY TextLessNumber
  <2> QED BY <1>2, <1>3, <2>1, <2>2
<1>4. CASE order[n].field = "key"
  <2>1. OrderVal(a, order[n].field) = <<a.rank>> /\ OrderVal(b, order[n].field) = <<b.rank>>
    BY <1>4 DEF OrderVal
  <2>2. TextLess(<<a.rank>>, <<b.rank>>) <=> a.rank < b.rank
    <3>1. ASSUME a.rank < b.rank PROVE TextLess(<<a.rank>>, <<b.rank>>)
      <4>1. 1 \in 1..1 /\ \A i \in 1..(1 - 1) : <<a.rank>>[i] = <<b.rank>>[i]
        OBVIOUS
      <4> QED BY <3>1, <4>1 DEF TextLess
    <3>2. ASSUME TextLess(<<a.rank>>, <<b.rank>>) PROVE a.rank < b.rank
      BY <3>2 DEF TextLess
    <3> QED BY <3>1, <3>2
  <2>3. <<a.rank>> = <<b.rank>> <=> a.rank = b.rank
    OBVIOUS
  <2>4. order[n].field # "updated"
    BY <1>4
  <2> QED BY <1>2, <1>4, <2>1, <2>2, <2>3, <2>4
<1> QED BY <1>2, <1>3, <1>4

\* An issue that is written moves ahead of those that were behind it, unless an older stamp
\* is asked for first.
LEMMA WrittenStaysAhead ==
  ASSUME Digits = 0, NEW order \in Seq(OrderTerm),
         ~\E n \in DOMAIN order : order[n] = [field |-> "updated", desc |-> FALSE],
         NEW a, a.rank \in Int, a.updated \in Nat, NEW b, b.rank \in Int, b.updated \in Nat,
         NEW new, new.rank = a.rank, new.updated \in Nat, b.updated < new.updated,
         Less(a, b, order)
  PROVE  Less(new, b, order)
<1> DEFINE last == Len(order) + 1
           Same(x, n) == OrderVal(x, order[n].field) = OrderVal(b, order[n].field)
           Wins(x, n) == IF n = last THEN x.rank < b.rank
                         ELSE IF order[n].desc THEN TextLess(OrderVal(b, order[n].field), OrderVal(x, order[n].field))
                         ELSE TextLess(OrderVal(x, order[n].field), OrderVal(b, order[n].field))
           stamps == { n \in 1..Len(order) : order[n].field = "updated" }
<1>1. \A x : Less(x, b, order) <=>
        \E n \in 1..last : (\A m \in 1..(n - 1) : Same(x, m)) /\ Wins(x, n)
  BY DEF Less
<1>2. Len(order) \in Nat /\ DOMAIN order = 1..Len(order) /\ new.rank \in Int
  OBVIOUS
<1>3. ASSUME NEW n \in 1..Len(order), order[n].field = "updated"
      PROVE  Wins(new, n)
  <2>1. order[n] \in OrderTerm
    OBVIOUS
  <2>2. order[n].desc
    <3>1. ASSUME order[n].desc = FALSE PROVE FALSE
      <4>1. order[n] = [field |-> "updated", desc |-> FALSE]
        BY <1>3, <2>1, <3>1 DEF OrderTerm
      <4> QED BY <1>2, <4>1
    <3> QED BY <2>1, <3>1 DEF OrderTerm
  <2>3. TextLess(OrderVal(b, order[n].field), OrderVal(new, order[n].field))
    BY <1>2, <1>3, LessNumber
  <2>4. n # last
    BY <1>2
  <2> QED BY <2>2, <2>3, <2>4
<1>4. ASSUME NEW n \in 1..last, n = last \/ order[n].field # "updated"
      PROVE  (Wins(new, n) <=> Wins(a, n)) /\ (n # last => (Same(new, n) <=> Same(a, n)))
  <2>1. n # last => OrderVal(new, order[n].field) = OrderVal(a, order[n].field)
    BY <1>4 DEF OrderVal
  <2> QED BY <2>1
<1>5. PICK n \in 1..last : (\A m \in 1..(n - 1) : Same(a, m)) /\ Wins(a, n)
  BY <1>1
<1> HIDE DEF Same, Wins
<1>6. CASE \E m \in stamps : m <= n
  <2>1. stamps \subseteq Nat
    BY <1>2
  <2>2. PICK m \in stamps : \A k \in stamps : m <= k
    <3> HIDE DEF stamps
    <3> QED BY <1>6, <2>1, LeastExists
  <2>3. m \in 1..Len(order) /\ order[m].field = "updated"
    BY <2>2
  <2>4. m <= n
    <3>1. PICK k \in stamps : k <= n
      BY <1>6
    <3>2. m <= k /\ m \in Nat /\ k \in Nat /\ n \in Nat
      BY <1>2, <2>1, <2>2, <3>1
    <3> QED BY <3>1, <3>2
  <2>5. \A k \in 1..(m - 1) : Same(new, k)
    <3> TAKE k \in 1..(m - 1)
    <3>1. k \in 1..(n - 1) /\ k \in 1..Len(order) /\ k # last /\ k \in 1..last /\ ~(m <= k)
      BY <1>2, <2>3, <2>4
    <3>2. order[k].field # "updated"
      BY <2>2, <3>1
    <3> QED BY <1>4, <1>5, <3>1, <3>2
  <2>6. m \in 1..last
    BY <1>2, <2>3
  <2> QED BY <1>1, <1>3, <2>3, <2>5, <2>6
<1>7. CASE ~\E m \in stamps : m <= n
  <2>1. \A k \in 1..last : k <= n => k = last \/ order[k].field # "updated"
    <3> TAKE k \in 1..last
    <3>1. k = last \/ k \in 1..Len(order)
      BY <1>2
    <3> QED BY <1>7, <3>1
  <2>2. \A k \in 1..(n - 1) : Same(new, k)
    <3> TAKE k \in 1..(n - 1)
    <3>1. k \in 1..last /\ k <= n /\ k # last
      BY <1>2
    <3> HIDE DEF last, stamps
    <3> QED BY <1>4, <1>5, <2>1, <3>1
  <2>3. Wins(new, n)
    <3>1. n <= n
      BY <1>2
    <3> HIDE DEF last, stamps
    <3> QED BY <1>4, <1>5, <2>1, <3>1
  <2> QED BY <1>1, <2>2, <2>3
<1> QED BY <1>6, <1>7

LEMMA OrderedByNumbers ==
  ASSUME Digits = 0, NEW order \in Seq(OrderTerm),
         NEW a, a.rank \in Int, a.updated \in Nat, NEW b, b.rank \in Int, b.updated \in Nat,
         a.rank # b.rank, Less(a, b, order)
  PROVE  Before(a, b, order)
<1> DEFINE last == Len(order) + 1
<1>1. PICK n \in 1..last :
        /\ \A m \in 1..(n - 1) : OrderVal(a, order[m].field) = OrderVal(b, order[m].field)
        /\ IF n = last THEN a.rank < b.rank
           ELSE IF order[n].desc THEN TextLess(OrderVal(b, order[n].field), OrderVal(a, order[n].field))
           ELSE TextLess(OrderVal(a, order[n].field), OrderVal(b, order[n].field))
  BY DEF Less
<1>2. \A m \in 1..(n - 1) : order[m].field = "updated" /\ a.updated = b.updated
  <2> TAKE m \in 1..(n - 1)
  <2>1. m \in DOMAIN order
    OBVIOUS
  <2> QED BY <1>1, <2>1, LessNumber
<1>3. CASE n = last
  BY <1>1, <1>2, <1>3 DEF Before
<1>4. CASE n # last
  <2>1. n \in DOMAIN order
    BY <1>4
  <2>2. /\ order[n].field \in {"updated", "key"} /\ order[n].desc \in BOOLEAN
        /\ order[n].field = "updated" =>
             /\ TextLess(OrderVal(a, order[n].field), OrderVal(b, order[n].field)) <=> a.updated < b.updated
             /\ TextLess(OrderVal(b, order[n].field), OrderVal(a, order[n].field)) <=> b.updated < a.updated
        /\ order[n].field = "key" =>
             /\ TextLess(OrderVal(a, order[n].field), OrderVal(b, order[n].field)) <=> a.rank < b.rank
             /\ TextLess(OrderVal(b, order[n].field), OrderVal(a, order[n].field)) <=> b.rank < a.rank
    BY <2>1, LessNumber
  <2>3. /\ order[n].field = "updated" /\ order[n].desc => a.updated > b.updated
        /\ order[n].field = "updated" /\ ~order[n].desc => a.updated < b.updated
        /\ order[n].field = "key" /\ order[n].desc => a.rank > b.rank
        /\ order[n].field = "key" /\ ~order[n].desc => a.rank < b.rank
    BY <1>1, <1>4, <2>2
  <2>4. CASE order[n].field = "updated" /\ order[n].desc
    BY <1>2, <1>4, <2>3, <2>4 DEF Before
  <2>5. CASE order[n].field = "updated" /\ ~order[n].desc
    BY <1>2, <1>4, <2>3, <2>5 DEF Before
  <2>6. CASE order[n].field = "key" /\ order[n].desc
    BY <1>2, <1>4, <2>3, <2>6 DEF Before
  <2>7. CASE order[n].field = "key" /\ ~order[n].desc
    BY <1>2, <1>4, <2>3, <2>7 DEF Before
  <2> QED BY <2>2, <2>4, <2>5, <2>6, <2>7
<1> QED BY <1>3, <1>4

LEMMA NewestFirstHolds == ASSUME Digits = 0, SearchInv PROVE NewestFirst
<1> DEFINE result == ResultOf(issue)
           keys == KeysOf(result)
<1>1. IsTable(issue) /\ AskedOK
  BY DEF SearchInv, TableOK
<1>2. ASSUME NEW i \in DOMAIN result, NEW j \in DOMAIN result, i < j
      PROVE  Before(result[i], result[j], OrderOf(query))
  <2>1. /\ result \in Seq(Present(issue)) /\ Less(result[i], result[j], OrderOf(query))
        /\ (result[i] = result[j] => i = j)
    BY <1>1, <1>2, ResultIs
  <2> HIDE DEF result
  <2>2. i \in Nat /\ j \in Nat /\ result[i] \in Present(issue) /\ result[j] \in Present(issue)
    BY <2>1
  <2>3. result[i] # result[j]
    BY <1>2, <2>1, <2>2
  <2>4. /\ result[i].rank \in Int /\ result[i].updated \in Nat
        /\ result[j].rank \in Int /\ result[j].updated \in Nat
        /\ result[i].rank # result[j].rank
    BY <1>1, <2>2, <2>3, RowsOrderable DEF Orderable
  <2>5. OrderOf(query) \in Seq(OrderTerm)
    BY <1>1, OrderOfIs
  <2> QED BY <2>1, <2>4, <2>5, OrderedByNumbers
<1> QED BY <1>2 DEF NewestFirst

\* With stamps that are read as numbers, an answer is in the order asked for, the last updated
\* first by default, after any writes (jql.go: sortIssues, less, orderVal).
THEOREM AnswersNewestFirst == ASSUME Digits = 0 PROVE Spec => []NewestFirst
<1>1. SearchInv => NewestFirst
  BY NewestFirstHolds
<1> QED BY <1>1, SearchInvInitially, SearchSteps, PTL DEF Spec
-----------------------------------------------------------------------------
(* The walk.                                                               *)

LEMMA ToSetOfConcat ==
  ASSUME NEW X, NEW a \in Seq(X), NEW b \in Seq(X)
  PROVE  ToSet(a \o b) = ToSet(a) \cup ToSet(b)
<1> DEFINE ab == a \o b
<1>1. /\ ab \in Seq(X) /\ Len(ab) = Len(a) + Len(b)
      /\ \A i \in 1..(Len(a) + Len(b)) : ab[i] = IF i <= Len(a) THEN a[i] ELSE b[i - Len(a)]
  BY ConcatProperties
<1> HIDE DEF ab
<1>2. Len(a) \in Nat /\ Len(b) \in Nat
  BY <1>1
<1>3. ASSUME NEW x \in ToSet(ab) PROVE x \in ToSet(a) \cup ToSet(b)
  <2>1. PICK i \in 1..(Len(a) + Len(b)) : x = ab[i]
    BY <1>1 DEF ToSet
  <2>2. CASE i <= Len(a)
    BY <1>1, <1>2, <2>1, <2>2 DEF ToSet
  <2>3. CASE ~(i <= Len(a))
    <3>1. i - Len(a) \in 1..Len(b) /\ x = b[i - Len(a)]
      BY <1>1, <1>2, <2>1, <2>3
    <3> QED BY <1>1, <3>1 DEF ToSet
  <2> QED BY <2>2, <2>3
<1>4. ASSUME NEW x \in ToSet(a) PROVE x \in ToSet(ab)
  <2>1. PICK i \in 1..Len(a) : x = a[i]
    BY <1>1, <1>4 DEF ToSet
  <2>2. i \in 1..(Len(a) + Len(b)) /\ i <= Len(a)
    BY <1>2
  <2>3. i \in DOMAIN ab /\ ab[i] = x
    BY <1>1, <2>1, <2>2
  <2> QED BY <2>3 DEF ToSet
<1>5. ASSUME NEW x \in ToSet(b) PROVE x \in ToSet(ab)
  <2>1. PICK i \in 1..Len(b) : x = b[i]
    BY <1>1, <1>5 DEF ToSet
  <2>2. /\ Len(a) + i \in 1..(Len(a) + Len(b)) /\ ~(Len(a) + i <= Len(a))
        /\ (Len(a) + i) - Len(a) = i
    BY <1>2
  <2>3. Len(a) + i \in DOMAIN ab /\ ab[Len(a) + i] = x
    BY <1>1, <2>1, <2>2
  <2> QED BY <2>3 DEF ToSet
<1> QED BY <1>3, <1>4, <1>5 DEF ab

LEMMA CurrentIsAnswer ==
  ASSUME NEW rows, IsTable(rows), AskedOK
  PROVE  Walk!IsAnswer(KeysOf(ResultOf(rows)))
BY KeysAre DEF Walk!IsAnswer, Walk!IsInjective

LEMMA WalkBegins == Init => Walk!Init
<1> SUFFICES ASSUME Init PROVE Walk!Init
  OBVIOUS
<1>1. IsTable(issue) /\ AskedOK
  BY SearchInvInitially DEF SearchInv, TableOK
<1>2. Walk!IsAnswer(current)
  BY <1>1, CurrentIsAnswer DEF Init, SearchInit
<1>3. ToSet(<<>>) = {}
  BY DEF ToSet
<1>4. /\ walk.token = 0 /\ walk.state = "walking" /\ walk.got = <<>>
      /\ answer.rows = <<>> /\ answer.next = 0 /\ answer.isLast = FALSE
      /\ base = ToSet(current) /\ touched = {}
  BY DEF Init, SearchInit, NoAnswer
<1> QED BY <1>2, <1>3, <1>4 DEF Walk!Init, Walk!NoPage, Walk!Items, ToSet

LEMMA WalkerIsServed ==
  ASSUME SearchInv, AnswerPage
  PROVE  Walk!Next
<1> DEFINE hit == call[Walker].hit
           held == [items |-> ToSet(answer.rows), next |-> answer.next, last |-> answer.isLast]
<1>1. /\ UNCHANGED <<walk, current, base, touched, left, query>>
      /\ drifted' = (drifted \/ (dialect = "dc" /\ hit.drift))
  BY DEF AnswerPage, asked
<1>2. UNCHANGED <<walk.token, ToSet(walk.got), walk.state, base, touched, current>>
      /\ SortsOldestFirst' = SortsOldestFirst
  BY <1>1 DEF SortsOldestFirst
<1>3. /\ hit.skip \in BOOLEAN /\ hit.drift \in BOOLEAN /\ query.ok \in BOOLEAN
      /\ drifted \in BOOLEAN /\ left \in BOOLEAN
      /\ current = KeysOf(ResultOf(issue)) /\ IsTable(issue) /\ AskedOK
  BY CallIs, WalkerIs DEF SearchInv, AskedOK, ObservedOK, TableOK
<1>4. CASE dialect = "dc" /\ hit.drift
  <2>1. held' \in Walk!Page
    <3>1. answer' \in AnswerRow
      BY AnswerTyped
    <3>2. ToSet(answer'.rows) \subseteq Key
      BY <3>1 DEF AnswerRow, ToSet
    <3> QED BY <3>1, <3>2 DEF Walk!Page, AnswerRow
  <2>2. drifted' = TRUE
    BY <1>1, <1>4
  <2>3. Walk!Spoil
    BY <1>2, <2>1, <2>2 DEF Walk!Spoil
  <2> QED BY <2>3 DEF Walk!Next
<1>5. CASE ~(dialect = "dc" /\ hit.drift) /\ (hit.skip \/ ~query.ok)
  <2>1. answer' = NoAnswer \/ answer' = BadRequest
    BY <1>3, <1>5, HandlerIs
  <2>2. answer'.rows = <<>> /\ answer'.next = 0 /\ answer'.isLast = FALSE
    BY <2>1, NoAnswerIs
  <2>3. ToSet(answer'.rows) = {}
    BY <2>2 DEF ToSet
  <2>4. held' = Walk!NoPage
    BY <2>2, <2>3 DEF Walk!NoPage
  <2>5. drifted' = drifted
    BY <1>1, <1>3, <1>5
  <2>6. Walk!Lose
    BY <1>1, <1>2, <2>4, <2>5 DEF Walk!Lose
  <2> QED BY <2>6 DEF Walk!Next
<1>6. CASE ~(dialect = "dc" /\ hit.drift) /\ ~hit.skip /\ query.ok
  <2> DEFINE token == walk.token
             page == PageFrom(ResultOf(issue), token)
  <2>1. answer' = page
    BY <1>6, HandlerIs
  <2>2. token \in Nat
    BY DEF SearchInv, WalkerOK, WalkRow
  <2>3. PICK n \in 0..Len(current) :
          /\ n = 0 \/ token + n <= Len(current)
          /\ page = [status |-> "ok", rows |-> page.rows, next |-> token + n,
                     isLast |-> token + n >= Len(current)]
          /\ ToSet(page.rows) = { current[i] : i \in (token + 1)..(token + n) }
    <3> DEFINE keys == KeysOf(ResultOf(issue))
    <3>1. \E n \in 0..Len(keys) :
            /\ n = 0 \/ token + n <= Len(keys)
            /\ page = [status |-> "ok", rows |-> page.rows, next |-> token + n,
                       isLast |-> token + n >= Len(keys)]
            /\ ToSet(page.rows) = { keys[i] : i \in (token + 1)..(token + n) }
      <4> HIDE DEF token
      <4> QED BY <1>3, <2>2, PageIs
    <3>2. current = keys
      BY <1>3
    <3> HIDE DEF keys, page, token
    <3> QED BY <3>1, <3>2
  <2> HIDE DEF page
  <2>4. page.next = token + n /\ page.isLast = (token + n >= Len(current))
    BY <2>3
  <2>5. held' = [items |-> { current[i] : i \in (token + 1)..(token + n) },
                 next |-> token + n, last |-> token + n >= Len(current)]
    BY <2>1, <2>3, <2>4
  <2>6. drifted' = drifted
    BY <1>1, <1>3, <1>6
  <2>7. Walk!Serve(n)
    BY <1>1, <1>2, <2>3, <2>5, <2>6 DEF Walk!Serve
  <2> QED BY <2>7 DEF Walk!Next
<1> QED BY <1>3, <1>4, <1>5, <1>6

LEMMA WalkerGoesOn ==
  ASSUME SearchInv, ReceivePage
  PROVE  Walk!Next
<1> DEFINE held == [items |-> ToSet(answer.rows), next |-> answer.next, last |-> answer.isLast]
<1>1. /\ Finish(Walker) /\ answer' = NoAnswer
      /\ UNCHANGED <<current, base, touched, left, drifted, query>>
      /\ walk' = IF ~Whole(Walker) THEN walk
                 ELSE IF answer.status = "refused" THEN [walk EXCEPT !.state = "refused"]
                 ELSE [state |-> IF answer.isLast THEN "done" ELSE "walking",
                       token |-> answer.next, got |-> walk.got \o answer.rows]
  BY DEF ReceivePage, observed, asked
<1>2. SortsOldestFirst' = SortsOldestFirst
  BY <1>1 DEF SortsOldestFirst
<1>3. held' = Walk!NoPage
  <2>1. ToSet(answer'.rows) = {}
    BY <1>1, NoAnswerIs DEF ToSet
  <2> QED BY <1>1, <2>1, NoAnswerIs DEF Walk!NoPage
<1>4. walk \in WalkRow /\ answer \in AnswerRow
  BY DEF SearchInv, WalkerOK
<1>5. CASE ~Whole(Walker)
  <2>1. walk' = walk
    BY <1>1, <1>5
  <2>2. Walk!Lose
    BY <1>1, <1>2, <1>3, <2>1 DEF Walk!Lose
  <2> QED BY <2>2 DEF Walk!Next
<1>6. CASE Whole(Walker)
  <2>1. call[Walker].stage = "answered" /\ walk.state = "walking" /\ answer.status # "none"
    <3>1. call[Walker].stage = "answered"
      BY <1>1, WalkerIs, CallSteps DEF SearchInv
    <3> QED BY <1>6, <3>1 DEF Whole, SearchInv, WalkerOK
  <2>2. CASE answer.status = "refused"
    <3>1. walk' = [walk EXCEPT !.state = "refused"]
      BY <1>1, <1>6, <2>2
    <3>2. walk'.state = "refused" /\ walk'.token = walk.token /\ walk'.got = walk.got
      BY <1>4, <3>1 DEF WalkRow
    <3>3. Walk!Refuse
      BY <1>1, <1>2, <1>3, <2>1, <3>2 DEF Walk!Refuse
    <3> QED BY <3>3 DEF Walk!Next
  <2>3. CASE answer.status = "ok"
    <3>1. walk' = [state |-> IF answer.isLast THEN "done" ELSE "walking",
                   token |-> answer.next, got |-> walk.got \o answer.rows]
      BY <1>1, <1>6, <2>3
    <3>2. /\ walk'.state = IF answer.isLast THEN "done" ELSE "walking"
          /\ walk'.token = answer.next /\ walk'.got = walk.got \o answer.rows
      BY <3>1
    <3>3. answer.rows \in Seq(Key) /\ walk.got \in Seq(Key)
      BY <1>4 DEF AnswerRow, WalkRow
    <3>4. ToSet(walk.got \o answer.rows) = ToSet(walk.got) \cup ToSet(answer.rows)
      BY <3>3, ToSetOfConcat
    <3>5. held # Walk!NoPage
      <4>1. answer.isLast \/ answer.rows # <<>>
        BY <2>3 DEF SearchInv, WalkerOK
      <4>2. CASE answer.isLast
        <5>1. held.last = TRUE /\ Walk!NoPage.last = FALSE
          BY <1>4, <4>2 DEF Walk!NoPage, AnswerRow
        <5> QED BY <5>1
      <4>3. CASE answer.rows # <<>>
        <5>1. 1 \in DOMAIN answer.rows
          BY <3>3, <4>3
        <5>2. ToSet(answer.rows) # {}
          BY <5>1 DEF ToSet
        <5>3. held.items # {} /\ Walk!NoPage.items = {}
          BY <5>2 DEF Walk!NoPage
        <5> QED BY <5>3
      <4> QED BY <4>1, <4>2, <4>3
    <3>6. Walk!Receive
      BY <1>1, <1>2, <1>3, <2>1, <3>2, <3>4, <3>5 DEF Walk!Receive
    <3> QED BY <3>6 DEF Walk!Next
  <2> QED BY <1>4, <2>1, <2>2, <2>3 DEF AnswerRow
<1> QED BY <1>5, <1>6

\* Nobody comes to be behind an issue that it was ahead of: only the written one moves, and
\* it moves ahead.
LEMMA WriteKeepsBehind ==
  ASSUME Digits = 0, AskedOK, TableOK, ~SortsOldestFirst,
         NEW k \in Key, NEW labels \in SUBSET Label, EditRow(k, labels) \/ NewRow(k, labels),
         NEW x \in Key \ {k}, NEW y \in Key,
         ToSet(KeysOf(ResultOf(issue))) \subseteq ToSet(KeysOf(ResultOf(issue'))),
         Walk!Ahead(KeysOf(ResultOf(issue)), y, x)
  PROVE  Walk!Ahead(KeysOf(ResultOf(issue')), y, x)
<1> DEFINE old == KeysOf(ResultOf(issue))
           new == KeysOf(ResultOf(issue'))
           order == OrderOf(query)
<1>1. /\ IsTable(issue) /\ IsTable(issue') /\ clock \in Nat /\ DOMAIN issue' = DOMAIN issue \cup {k}
      /\ issue'[k].updated = clock + 1 /\ \A j \in DOMAIN issue \ {k} : issue'[j] = issue[j]
      /\ \A j \in DOMAIN issue : issue[j].updated <= clock
  BY RowWritten DEF TableOK
<1>2. /\ old \in Seq(Key) /\ new \in Seq(Key)
      /\ \A n \in DOMAIN old : old[n] \in DOMAIN issue
      /\ \A n \in DOMAIN new : new[n] \in DOMAIN issue'
      /\ \A m, n \in DOMAIN old : m < n <=> Less(issue[old[m]], issue[old[n]], order)
      /\ \A m, n \in DOMAIN new : m < n <=> Less(issue'[new[m]], issue'[new[n]], order)
  BY <1>1, KeysAre
<1> HIDE DEF old, new
<1>3. PICK m, n \in DOMAIN old : m < n /\ old[m] = y /\ old[n] = x
  BY DEF Walk!Ahead, old
<1>4. y \in ToSet(new) /\ x \in ToSet(new)
  BY <1>3 DEF ToSet, old, new
<1>5. PICK i \in DOMAIN new, j \in DOMAIN new : new[i] = y /\ new[j] = x
  BY <1>4 DEF ToSet
<1>6. x \in DOMAIN issue /\ y \in DOMAIN issue /\ Less(issue[y], issue[x], order) /\ issue'[x] = issue[x]
  BY <1>1, <1>2, <1>3
<1>7. Less(issue'[y], issue[x], order)
  <2>1. CASE y # k
    BY <1>1, <1>6, <2>1
  <2>2. CASE y = k
    <3>1. order \in Seq(OrderTerm) /\ ~\E t \in DOMAIN order : order[t] = [field |-> "updated", desc |-> FALSE]
      <4>1. CASE query.order = <<>>
        <5>1. order = DefaultOrder
          BY <4>1 DEF OrderOf
        <5>2. /\ DOMAIN DefaultOrder = {1, 2}
              /\ DefaultOrder[1] = [field |-> "updated", desc |-> TRUE]
              /\ DefaultOrder[2] = [field |-> "key", desc |-> FALSE]
          BY DEF DefaultOrder
        <5>3. /\ [field |-> "updated", desc |-> TRUE] # [field |-> "updated", desc |-> FALSE]
              /\ [field |-> "key", desc |-> FALSE] # [field |-> "updated", desc |-> FALSE]
          <6>1. /\ [field |-> "updated", desc |-> TRUE].desc # [field |-> "updated", desc |-> FALSE].desc
                /\ [field |-> "key", desc |-> FALSE].field # [field |-> "updated", desc |-> FALSE].field
            OBVIOUS
          <6> QED BY <6>1
        <5> QED BY <5>1, <5>2, <5>3, OrderOfIs
      <4>2. CASE query.order # <<>>
        BY <4>2, OrderOfIs DEF OrderOf, SortsOldestFirst
      <4> QED BY <4>1, <4>2
    <3>2. /\ issue[y].rank \in Int /\ issue[y].updated \in Nat /\ issue[y].rank = Rank[y]
          /\ issue[x].rank \in Int /\ issue[x].updated \in Nat
          /\ issue'[y].rank = Rank[y] /\ issue'[y].updated \in Nat
      BY <1>1, <1>6, RowIs
    <3>3. issue[x].updated < issue'[y].updated
      <4>1. issue[x].updated <= clock /\ issue'[y].updated = clock + 1
        BY <1>1, <1>6, <2>2
      <4> QED BY <1>1, <3>2, <4>1
    <3> HIDE DEF order
    <3> QED BY <1>6, <3>1, <3>2, <3>3, WrittenStaysAhead
  <2> QED BY <2>1, <2>2
<1>8. i < j
  BY <1>2, <1>5, <1>6, <1>7
<1> QED BY <1>5, <1>8 DEF Walk!Ahead, new

LEMMA RowIsWritten ==
  ASSUME Digits = 0, SearchInv, NEW c \in Writers, AnswerWrite(c)
  PROVE  Walk!Next \/ UNCHANGED Walk!vars
<1>1. UNCHANGED <<walk, answer, base, drifted, query>> /\ SortsOldestFirst' = SortsOldestFirst
  BY DEF AnswerWrite, asked, SortsOldestFirst
<1>2. AskedOK /\ TableOK /\ current = KeysOf(ResultOf(issue)) /\ left \in BOOLEAN /\ drifted \in BOOLEAN
  BY DEF SearchInv, ObservedOK
<1>3. CASE UNCHANGED <<issue, clock, current, touched, left>>
  BY <1>1, <1>3 DEF Walk!vars
<1>4. ASSUME NEW k \in Key, NEW labels \in SUBSET Label, EditRow(k, labels) \/ NewRow(k, labels),
             touched' = touched \cup {k}, current' = KeysOf(ResultOf(issue')),
             left' = (left \/ ~(ToSet(current) \subseteq ToSet(current')))
      PROVE  Walk!Write(k)
  <2>1. IsTable(issue')
    BY <1>2, <1>4, RowWritten DEF TableOK
  <2>2. Walk!IsAnswer(current')
    BY <1>2, <1>4, <2>1, CurrentIsAnswer
  <2>3. left' \in BOOLEAN /\ (left => left')
    BY <1>2, <1>4
  <2>4. ASSUME ~left', ~SortsOldestFirst,
               NEW x \in Walk!Items(current) \ touched'
        PROVE  x \in Walk!Items(current') /\ Walk!StaysBehind(x, current, current')
    <3>1. ToSet(current) \subseteq ToSet(current') /\ x \in ToSet(current) /\ x # k
      BY <1>4, <2>4 DEF Walk!Items, ToSet
    <3>2. x \in Key
      <4>1. current \in Seq(Key)
        BY <1>2, KeysAre DEF TableOK
      <4> QED BY <3>1, <4>1 DEF ToSet
    <3>3. ASSUME NEW y \in Key, Walk!Ahead(current, y, x)
          PROVE  Walk!Ahead(current', y, x)
      BY <1>2, <1>4, <2>4, <3>1, <3>2, <3>3, WriteKeepsBehind
    <3> QED BY <3>1, <3>3 DEF Walk!Items, Walk!StaysBehind, ToSet
  <2>5. /\ (left \/ drifted \/ SortsOldestFirst)' \in BOOLEAN
        /\ (left \/ drifted \/ SortsOldestFirst) => (left \/ drifted \/ SortsOldestFirst)'
        /\ ~(left \/ drifted \/ SortsOldestFirst)' => ~left' /\ ~SortsOldestFirst
    BY <1>1, <1>2, <2>3
  <2> QED BY <1>1, <1>4, <2>2, <2>4, <2>5 DEF Walk!Write
<1>5. \/ UNCHANGED <<issue, clock, current, touched, left>>
      \/ \E k \in Key, labels \in SUBSET Label :
           /\ EditRow(k, labels) \/ NewRow(k, labels)
           /\ touched' = touched \cup {k} /\ current' = KeysOf(ResultOf(issue'))
           /\ left' = (left \/ ~(ToSet(current) \subseteq ToSet(current')))
  BY DEF AnswerWrite
<1>6. CASE \E k \in Key : Walk!Write(k)
  BY <1>6 DEF Walk!Next
<1> QED BY <1>3, <1>4, <1>5, <1>6

LEMMA WalkIsWalked ==
  ASSUME Digits = 0, SearchInv, [Next]_vars
  PROVE  [Walk!Next]_(Walk!vars)
<1>1. ASSUME UNCHANGED searchVars PROVE UNCHANGED Walk!vars
  BY <1>1 DEF searchVars, observed, asked, Walk!vars, SortsOldestFirst
<1>2. CASE UNCHANGED vars
  BY <1>1, <1>2 DEF vars
<1>3. CASE AskPage \/ WalkerWaits \/ Admin
  BY <1>1, <1>3 DEF AskPage, WalkerWaits, Admin
<1>4. CASE AnswerPage
  BY <1>4, WalkerIsServed
<1>5. CASE ReceivePage
  BY <1>5, WalkerGoesOn
<1>6. ASSUME NEW c \in Writers, AskWrite(c)
      PROVE  UNCHANGED Walk!vars
  BY <1>6 DEF AskWrite, observed, asked, Walk!vars, SortsOldestFirst
<1>7. ASSUME NEW c \in Writers, WriterWaits(c)
      PROVE  UNCHANGED Walk!vars
  BY <1>1, <1>7 DEF WriterWaits
<1>8. ASSUME NEW c \in Writers, AnswerWrite(c)
      PROVE  [Walk!Next]_(Walk!vars)
  BY <1>8, RowIsWritten
<1> QED BY <1>2, <1>3, <1>4, <1>5, <1>6, <1>7, <1>8 DEF Next

\* The handlers, the retries and the writers are a walk by offsets, whatever the query, the
\* faults, the pages' size, the number of clients and their writes, with the deterministic
\* clock (jira.go: postSearchJQL, legacySearch; store.go: Search; jql.go: Filter).
THEOREM SearchIsAWalk == ASSUME Digits = 0 PROVE Spec => ImplementsWalk
<1>1. SearchInv /\ [Next]_vars => [Walk!Next]_(Walk!vars)
  BY WalkIsWalked
<1> QED BY <1>1, WalkBegins, SearchInvInitially, SearchSteps, PTL DEF Spec, ImplementsWalk, Walk!Spec

\* And so a client that reads all pages misses no issue that nobody wrote meanwhile, unless
\* one left the answer, the drift fault was on, or the oldest stamps came first.
THEOREM SearchMissesNothing == ASSUME Digits = 0 PROVE Spec => []WalkMissesNothing
<1>1. Walk!MissesNothing => WalkMissesNothing
  BY DEF Walk!MissesNothing, WalkMissesNothing
<1> QED BY <1>1, SearchIsAWalk, Walk!PagedWalksMissNothing, PTL DEF ImplementsWalk
=============================================================================
