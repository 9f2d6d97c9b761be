------------------------------- MODULE JqlGrammar -------------------------------
(***************************************************************************)
(* What a JQL text means, by its grammar, as the package comment of        *)
(* internal/jql/jql.go and docs/COMPATIBILITY.md:86 describe it: the set   *)
(* of truth values a text denotes for an issue, empty when it is no query. *)
(* The grammar says nothing of positions, of look-ahead or of trees; Jql   *)
(* is shown to agree with it.                                              *)
(*                                                                         *)
(*   or   ::= and | or OR and          atom ::= ( or ) | pred              *)
(*   and  ::= not | and AND not        pred ::= field op value             *)
(*   not  ::= NOT not | atom                  | field [NOT] IN values      *)
(*                                            | field IS [NOT] EMPTY       *)
(***************************************************************************)
EXTENDS Jql

Upto(ts, k) == SubSeq(ts, 1, k - 1)
After(ts, k) == SubSeq(ts, k + 1, Len(ts))
Places(ts, word) == { k \in DOMAIN ts : ts[k] = Word(word) }

\* The issue has this value in this field; EMPTY asks for an issue that has none.
Has(field, value, iss, sprints) ==
  CASE value = "" -> field \in {"assignee", "sprint"} /\ iss[field] = ""
    [] field = "labels" -> value \in iss.labels
    [] field = "updated" -> TimeText[iss.updated] = value
    [] field = "assignee" ->
         \/ value = iss.assignee
         \/ iss.assignee \in DOMAIN UserName /\ UserName[iss.assignee] = value
         \/ iss.assignee = "" /\ value = "unassigned"
    [] field = "sprint" /\ value \in FunctionValues ->
         iss.sprint \in DOMAIN sprints
         /\ value = "fn:" \o (CHOOSE f \in DOMAIN SprintFunction : SprintFunction[f] = sprints[iss.sprint])
    [] OTHER -> iss[field] = value

\* The values a text denotes: one, or none if it is not a value.
ValueText(ts) ==
  IF Len(ts) = 1 /\ IsName(ts[1]) THEN { IF ts[1].val \in {"empty", "null"} THEN "" ELSE ts[1].val }
  ELSE { "fn:" \o f : f \in { g \in DOMAIN SprintFunction : ts = <<Word(g), LParen, RParen>> } }

\* The value sets a text denotes: a value, or a list with an optional comma at its end.
RECURSIVE ListText(_)
ListText(ts) ==
  IF ts = <<>> THEN {{}}
  ELSE { {v} : v \in ValueText(ts) } \cup
       UNION { { {v} \cup rest : v \in ValueText(Upto(ts, k)), rest \in ListText(After(ts, k)) } :
                 k \in { i \in DOMAIN ts : ts[i] = Comma } }

ValuesText(ts) ==
  { {v} : v \in ValueText(ts) } \cup
  (IF Len(ts) >= 2 /\ ts[1] = LParen /\ ts[Len(ts)] = RParen
   THEN ListText(SubSeq(ts, 2, Len(ts) - 1)) ELSE {})

OnSprintOnly(field, vals) == vals \cap FunctionValues # {} => field = "sprint"

Relates(op, iss, field, value) ==
  /\ field = "updated"
  /\ \E n \in DOMAIN TimeText :
       /\ TimeText[n] = value
       /\ CASE op = ">" -> iss.updated > n
            [] op = ">=" -> iss.updated >= n
            [] op = "<" -> iss.updated < n
            [] op = "<=" -> iss.updated <= n

PredMeans(ts, iss, sprints) ==
  IF ts = <<>> \/ At(ts, 1).val \notin SearchableFields THEN {}
  ELSE
    LET field == ts[1].val
        rest == After(ts, 1)
        HasOne(vals) == \E v \in vals : Has(field, v, iss, sprints)
        Allowed(valueSets) == { vals \in valueSets : OnSprintOnly(field, vals) }
    IN  CASE rest \in { <<Word("is"), Word(w)>> : w \in {"empty", "null"} } -> {HasOne({""})}
          [] rest \in { <<Word("is"), Word("not"), Word(w)>> : w \in {"empty", "null"} } -> {~HasOne({""})}
          [] At(rest, 1) = Word("in") -> { HasOne(vals) : vals \in Allowed(ValuesText(After(rest, 1))) }
          [] At(rest, 1) = Word("not") /\ At(rest, 2) = Word("in") ->
               { ~HasOne(vals) : vals \in Allowed(ValuesText(After(rest, 2))) }
          [] At(rest, 1) = Sign("=") ->
               { HasOne({v}) : v \in { w \in ValueText(After(rest, 1)) : OnSprintOnly(field, {w}) } }
          [] At(rest, 1) = Sign("!=") ->
               { ~HasOne({v}) : v \in { w \in ValueText(After(rest, 1)) : OnSprintOnly(field, {w}) } }
          [] At(rest, 1) \in { Sign(op) : op \in {">", ">=", "<", "<="} } ->
               { Relates(rest[1].val, iss, field, v) :
                   v \in { w \in ValueText(After(rest, 1)) : OnSprintOnly(field, {w}) } }
          [] OTHER -> {}

RECURSIVE OrMeans(_, _, _), AndMeans(_, _, _), NotMeans(_, _, _)

NotMeans(ts, iss, sprints) ==
  PredMeans(ts, iss, sprints) \cup
  (IF At(ts, 1) = Word("not") THEN { ~a : a \in NotMeans(After(ts, 1), iss, sprints) } ELSE {}) \cup
  (IF Len(ts) >= 2 /\ ts[1] = LParen /\ ts[Len(ts)] = RParen
   THEN OrMeans(SubSeq(ts, 2, Len(ts) - 1), iss, sprints) ELSE {})

AndMeans(ts, iss, sprints) ==
  NotMeans(ts, iss, sprints) \cup
  UNION { { a /\ b : a \in AndMeans(Upto(ts, k), iss, sprints), b \in NotMeans(After(ts, k), iss, sprints) } :
            k \in Places(ts, "and") }

OrMeans(ts, iss, sprints) ==
  AndMeans(ts, iss, sprints) \cup
  UNION { { a \/ b : a \in OrMeans(Upto(ts, k), iss, sprints), b \in AndMeans(After(ts, k), iss, sprints) } :
            k \in Places(ts, "or") }

\* A whole query: every issue, or what the text before ORDER BY says.
QueryMeans(ts, iss, sprints) ==
  LET body == IF OrderAt(ts) = {} THEN ts
              ELSE Upto(ts, CHOOSE i \in OrderAt(ts) : \A j \in OrderAt(ts) : i <= j)
  IN  IF body = <<>> THEN {TRUE} ELSE OrMeans(body, iss, sprints)
=============================================================================
