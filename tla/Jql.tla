----------------------------------- MODULE Jql -----------------------------------
(***************************************************************************)
(* The query language of internal/jql/jql.go: the parser over tokens, and  *)
(* the evaluation of a parsed query on an issue.  Answers has the order.   *)
(*                                                                         *)
(* A token is a word, a quoted string, an operator, a parenthesis or a     *)
(* comma.  Letter case is left out (every comparison of the code folds     *)
(* it), and so are the fields that go the way of another one here: type,   *)
(* priority and reporter go like status and assignee, fixVersion and       *)
(* component like labels, created like updated.                            *)
(***************************************************************************)
EXTENDS Integers, Sequences, FiniteSets, SequencesExt

CONSTANTS
  TimeText,   \* the text of each instant: a sequence of strings
  UserName    \* display name of each account id

(* ---- tokens ---- *)
Word(w) == [kind |-> "word", val |-> w]
Quoted(s) == [kind |-> "string", val |-> s]
Sign(o) == [kind |-> "op", val |-> o]
LParen == [kind |-> "(", val |-> "("]
RParen == [kind |-> ")", val |-> ")"]
Comma == [kind |-> ",", val |-> ","]
EndOfText == [kind |-> "eof", val |-> ""]

\* A quoted string with a quote in it; lex reads the escape.
Escaped == "escaped quote"

\* splitOrder writes the tokens before ORDER BY out as text again and Parse lexes that
\* text.  joinToks does not escape, so a string with a quote in it comes back in pieces
\* and the stray quote swallows the rest of the text.
Relexed(ts) ==
  IF \E i \in DOMAIN ts : ts[i] = Quoted(Escaped)
  THEN LET cut == CHOOSE i \in DOMAIN ts :
                    ts[i] = Quoted(Escaped) /\ \A j \in 1..(i - 1) : ts[j] # ts[i]
       IN  SubSeq(ts, 1, cut - 1) \o <<Quoted("escaped"), Word("quote"), Word("rest")>>
  ELSE ts

At(ts, i) == IF i \in DOMAIN ts THEN ts[i] ELSE EndOfText
Takes(ts, i, word) == At(ts, i) = Word(word)
IsName(t) == t.kind \in {"word", "string"}

(* ---- results of the parser: a tree and the next position, or an error ---- *)
Parsed(tree, i) == [ok |-> TRUE, tree |-> tree, next |-> i]
Refused == [ok |-> FALSE, tree |-> <<>>, next |-> 0]

SearchableFields == {"key", "updated", "status", "assignee", "labels", "sprint"}
SortableFields == {"updated", "key"}
SprintFunction == [opensprints |-> "active", futuresprints |-> "future", closedsprints |-> "closed"]
FunctionValues == { "fn:opensprints", "fn:futuresprints", "fn:closedsprints" }

(* ---- ORDER BY ---- *)
RECURSIVE OrderTerms(_, _, _)
OrderTerms(ts, i, order) ==
  IF At(ts, i).kind = "eof" THEN Parsed(order, i)
  ELSE IF ~IsName(At(ts, i)) \/ At(ts, i).val \notin SortableFields THEN Refused
  ELSE LET desc == Takes(ts, i + 1, "desc")
           afterDir == IF desc \/ Takes(ts, i + 1, "asc") THEN i + 2 ELSE i + 1
           afterComma == IF At(ts, afterDir).kind = "," THEN afterDir + 1 ELSE afterDir
       IN  OrderTerms(ts, afterComma,
                      Append(order, [field |-> At(ts, i).val, desc |-> desc]))

OrderAt(ts) ==
  { i \in DOMAIN ts : Takes(ts, i, "order") /\ Takes(ts, i + 1, "by") }

SplitOrder(ts) ==
  IF OrderAt(ts) = {} THEN [body |-> Relexed(ts), order |-> Parsed(<<>>, 0)]
  ELSE LET first == CHOOSE i \in OrderAt(ts) : \A j \in OrderAt(ts) : i <= j
       IN  [body |-> Relexed(SubSeq(ts, 1, first - 1)), order |-> OrderTerms(ts, first + 2, <<>>)]

(* ---- values ---- *)
Value(ts, i) ==
  LET t == At(ts, i)
  IN  IF ~IsName(t) THEN Refused
      ELSE IF t.val \in {"empty", "null"} THEN Parsed("", i + 1)
      ELSE IF t.kind = "word" /\ At(ts, i + 1) = LParen
           THEN IF t.val \in DOMAIN SprintFunction /\ At(ts, i + 2) = RParen
                THEN Parsed("fn:" \o t.val, i + 3)
                ELSE Refused
      ELSE Parsed(t.val, i + 1)

RECURSIVE ListRest(_, _, _)
ListRest(ts, i, vals) ==
  IF At(ts, i) = RParen THEN Parsed(vals, i + 1)
  ELSE LET v == Value(ts, i)
       IN  IF ~v.ok THEN Refused
           ELSE IF At(ts, v.next) = Comma
                THEN ListRest(ts, v.next + 1, vals \cup {v.tree})
           ELSE IF At(ts, v.next) = RParen
                THEN Parsed(vals \cup {v.tree}, v.next + 1)
           ELSE Refused

OneValue(ts, i) ==
  LET v == Value(ts, i) IN IF v.ok THEN Parsed({v.tree}, v.next) ELSE Refused

ListOrVal(ts, i) ==
  IF At(ts, i) = LParen THEN ListRest(ts, i + 1, {}) ELSE OneValue(ts, i)

(* ---- predicates ---- *)
Pred(field, op, vals) == [kind |-> "pred", field |-> field, op |-> op, vals |-> vals]

\* fnCheck: a sprint function is a value of the sprint field only.
FnCheck(field, vals) == field = "sprint" \/ vals \cap FunctionValues = {}

PredOf(field, op, vals) ==
  IF vals.ok /\ FnCheck(field, vals.tree)
  THEN Parsed(Pred(field, op, vals.tree), vals.next)
  ELSE Refused

NullTest(ts, i, field, op) ==
  IF At(ts, i) \in {Word("empty"), Word("null")}
  THEN Parsed(Pred(field, op, {""}), i + 1)
  ELSE Refused

ParsePred(ts, i) ==
  LET field == At(ts, i).val
  IN  IF ~IsName(At(ts, i)) \/ field \notin SearchableFields THEN Refused
      ELSE IF Takes(ts, i + 1, "not")
           THEN IF Takes(ts, i + 2, "in")
                THEN PredOf(field, "not in", ListOrVal(ts, i + 3))
                ELSE Refused
      ELSE IF Takes(ts, i + 1, "in") THEN PredOf(field, "in", ListOrVal(ts, i + 2))
      ELSE IF Takes(ts, i + 1, "is")
           THEN IF Takes(ts, i + 2, "not")
                THEN NullTest(ts, i + 3, field, "!=")
                ELSE NullTest(ts, i + 2, field, "=")
      ELSE IF At(ts, i + 1).val \in {"=", "!=", ">", ">=", "<", "<="}
           THEN PredOf(field, At(ts, i + 1).val, OneValue(ts, i + 2))
      ELSE Refused

(* ---- the boolean structure ---- *)
Branch(kind, kids) == [kind |-> kind, kids |-> kids]

\* A chain of one connective is one node: parseOr and parseAnd grow the left one.
Joined(kind, left, right) ==
  IF left.kind = kind THEN [left EXCEPT !.kids = Append(@, right)]
  ELSE Branch(kind, <<left, right>>)

RECURSIVE ParseOr(_, _), ParseAnd(_, _), ParseNot(_, _), ParseAtom(_, _), OrRest(_, _), AndRest(_, _)

ParseOr(ts, i) == OrRest(ts, ParseAnd(ts, i))
OrRest(ts, left) ==
  IF ~left.ok \/ ~Takes(ts, left.next, "or") THEN left
  ELSE LET right == ParseAnd(ts, left.next + 1)
       IN  IF ~right.ok THEN right
           ELSE OrRest(ts, [right EXCEPT !.tree = Joined("or", left.tree, right.tree)])

ParseAnd(ts, i) == AndRest(ts, ParseNot(ts, i))
AndRest(ts, left) ==
  IF ~left.ok \/ ~Takes(ts, left.next, "and") THEN left
  ELSE LET right == ParseNot(ts, left.next + 1)
       IN  IF ~right.ok THEN right
           ELSE AndRest(ts, [right EXCEPT !.tree = Joined("and", left.tree, right.tree)])

\* A plausible bug: NOT takes everything up to the next OR.
MutNotTakesAnd(ts, i) ==
  IF Takes(ts, i, "not")
  THEN LET kid == ParseAnd(ts, i + 1)
       IN  IF kid.ok THEN [kid EXCEPT !.tree = Branch("not", <<kid.tree>>)] ELSE kid
  ELSE ParseAtom(ts, i)

ParseNot(ts, i) ==
  IF Takes(ts, i, "not")
  THEN LET kid == ParseNot(ts, i + 1)
       IN  IF kid.ok THEN [kid EXCEPT !.tree = Branch("not", <<kid.tree>>)] ELSE kid
  ELSE ParseAtom(ts, i)

ParseAtom(ts, i) ==
  IF At(ts, i) = LParen
  THEN LET inner == ParseOr(ts, i + 1)
       IN  IF inner.ok /\ At(ts, inner.next) = RParen
           THEN [inner EXCEPT !.next = @ + 1]
           ELSE Refused
  ELSE ParsePred(ts, i)

(* ---- Parse: a query is a tree, or none for every issue, and an order ---- *)
MatchAll == [kind |-> "all"]
Unparsed == [ok |-> FALSE, root |-> MatchAll, order |-> <<>>]

\* A plausible bug: what follows a complete query is ignored.
MutParseLeftover(ts) ==
  LET split == SplitOrder(ts)
      body == ParseOr(split.body, 1)
  IN  IF ~split.order.ok THEN Unparsed
      ELSE IF split.body = <<>> THEN [ok |-> TRUE, root |-> MatchAll, order |-> split.order.tree]
      ELSE IF body.ok THEN [ok |-> TRUE, root |-> body.tree, order |-> split.order.tree]
      ELSE Unparsed

Parse(ts) ==
  LET split == SplitOrder(ts)
      body == ParseOr(split.body, 1)
  IN  IF ~split.order.ok THEN Unparsed
      ELSE IF split.body = <<>> THEN [ok |-> TRUE, root |-> MatchAll, order |-> split.order.tree]
      ELSE IF body.ok /\ At(split.body, body.next).kind = "eof"
           THEN [ok |-> TRUE, root |-> body.tree, order |-> split.order.tree]
      ELSE Unparsed

(* ---- evaluation: an issue is [key, updated, status, assignee, labels, sprint] ---- *)
UserVals(id) ==
  IF id = "" THEN {"", "unassigned", "null"}
  ELSE {id} \cup { UserName[u] : u \in {id} \cap DOMAIN UserName }

Values(field, iss) ==
  CASE field = "key" -> {iss.key}
    [] field = "updated" -> {TimeText[iss.updated]}
    [] field = "status" -> {iss.status}
    [] field = "assignee" -> UserVals(iss.assignee)
    [] field = "labels" -> iss.labels
    [] field = "sprint" -> {iss.sprint}

\* The sprint functions read the states of the sprints when the query runs.
ExpandFns(vals, sprintState) ==
  (vals \ FunctionValues) \cup
  { s \in DOMAIN sprintState :
      \E f \in DOMAIN SprintFunction :
        ("fn:" \o f) \in vals /\ SprintFunction[f] = sprintState[s] }

AnyIn(got, want) == got \cap want # {}

\* The instant a text denotes, 0 for none.
ParseTime(text) ==
  IF \E n \in DOMAIN TimeText : TimeText[n] = text
  THEN CHOOSE n \in DOMAIN TimeText : TimeText[n] = text
  ELSE 0

CompareTime(op, left, right) ==
  /\ left # 0 /\ right # 0
  /\ CASE op = ">" -> left > right
       [] op = ">=" -> left >= right
       [] op = "<" -> left < right
       [] op = "<=" -> left <= right

MatchPred(p, iss, sprintState) ==
  LET got == Values(p.field, iss)
      vals == ExpandFns(p.vals, sprintState)
  IN  CASE p.op \in {"=", "in"} -> AnyIn(got, vals)
        [] p.op \in {"!=", "not in"} -> ~AnyIn(got, vals)
        [] OTHER -> \E g \in got, v \in vals : CompareTime(p.op, ParseTime(g), ParseTime(v))

RECURSIVE Matches(_, _, _)
Matches(tree, iss, sprintState) ==
  CASE tree.kind = "all" -> TRUE
    [] tree.kind = "pred" -> MatchPred(tree, iss, sprintState)
    [] tree.kind = "not" -> ~Matches(tree.kids[1], iss, sprintState)
    [] tree.kind = "and" -> \A i \in DOMAIN tree.kids : Matches(tree.kids[i], iss, sprintState)
    [] tree.kind = "or" -> \E i \in DOMAIN tree.kids : Matches(tree.kids[i], iss, sprintState)
=============================================================================
