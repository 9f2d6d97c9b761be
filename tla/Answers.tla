--------------------------------- MODULE Answers ---------------------------------
(***************************************************************************)
(* The answer to a query of internal/jql/jql.go: the issues that satisfy   *)
(* it, in its order.  What a condition says of an issue is a parameter;    *)
(* Jql has it.  An issue is [key, rank, updated, ...]: rank is the place   *)
(* of the key among the keys, updated a number of the clock's units.       *)
(***************************************************************************)
EXTENDS Integers, Sequences, FiniteSets

CONSTANTS
  Digits,          \* digits of the second's fraction a stamp may have: 0 for the deterministic
                   \* clock, which steps by minutes; 3 in the code's wall clock
  Radix,           \* the number of digits, 10 in the code
  Satisfies(_, _)  \* whether a parsed condition holds for an issue

ASSUME AnswersAssumption == Digits \in Nat /\ Radix \in Nat \ {0, 1}

Power[n \in 0..Digits] == IF n = 0 THEN 1 ELSE Radix * Power[n - 1]

Dot == -1    \* the characters around the digits compare this way: '.' < '0' and '9' < 'Z'
Zulu == Radix

\* RFC3339Nano drops the zeros at the end of the fraction, and the dot with the last digit.
Fraction(t) ==
  LET digits == [d \in 1..Digits |-> (t \div Power[Digits - d]) % Radix]
      used == CHOOSE n \in 0..Digits :
                /\ n = 0 \/ digits[n] # 0
                /\ \A d \in (n + 1)..Digits : digits[d] = 0
  IN  SubSeq(digits, 1, used)

OrderText(t) ==
  <<t \div Power[Digits]>> \o (IF Fraction(t) = <<>> THEN <<>> ELSE <<Dot>>) \o Fraction(t) \o <<Zulu>>

\* Go compares strings byte by byte.
TextLess(a, b) ==
  \E n \in 1..Len(b) :
    /\ n <= Len(a) + 1
    /\ \A i \in 1..(n - 1) : a[i] = b[i]
    /\ n = Len(a) + 1 \/ a[n] < b[n]

OrderTerm == [field : {"updated", "key"}, desc : BOOLEAN]
DefaultOrder == << [field |-> "updated", desc |-> TRUE], [field |-> "key", desc |-> FALSE] >>

OrderVal(iss, field) == IF field = "updated" THEN OrderText(iss.updated) ELSE <<iss.rank>>

\* less: the first term on which two issues differ decides, and if there is none the key.
Less(a, b, order) ==
  \E n \in 1..(Len(order) + 1) :
    /\ \A m \in 1..(n - 1) : OrderVal(a, order[m].field) = OrderVal(b, order[m].field)
    /\ IF n = Len(order) + 1 THEN a.rank < b.rank
       ELSE IF order[n].desc THEN TextLess(OrderVal(b, order[n].field), OrderVal(a, order[n].field))
       ELSE TextLess(OrderVal(a, order[n].field), OrderVal(b, order[n].field))

\* sortIssues: the list that leaves no issue before one that is less.
Sorted(issues, order) ==
  CHOOSE list \in [1..Cardinality(issues) -> issues] :
    \A i, j \in DOMAIN list : i < j => Less(list[i], list[j], order)

OrderOf(query) == IF query.order = <<>> THEN DefaultOrder ELSE query.order

\* A plausible bug: ORDER BY of the query is dropped.
MutFilterUnordered(issues, query) ==
  Sorted({ iss \in issues : Satisfies(query.root, iss) }, DefaultOrder)

Filter(issues, query) ==
  Sorted({ iss \in issues : Satisfies(query.root, iss) }, OrderOf(query))
=============================================================================
