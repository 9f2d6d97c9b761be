-------------------------------- MODULE MCSearch --------------------------------
(* One client walks, another writes.  A walk with faults and writes asks for a  *)
(* page of one row at a time; every text of the grammar is asked once, without. *)
(* The language of Search is that of Jql.                                       *)
EXTENDS Search, JqlGrammar

CONSTANTS walker, writer

MCKey == {"A-1", "A-2", "A-3"}
MCRank == [k \in MCKey |-> CASE k = "A-1" -> 1 [] k = "A-2" -> 2 [] k = "A-3" -> 3]
MCTimeText == <<"t1", "t2", "t3", "t4", "t5">>
MCUserName == [u \in {"u1"} |-> "Dana"]
MCSprintState == [s \in {"s1", "s2"} |-> IF s = "s1" THEN "active" ELSE "closed"]

MCSatisfies(root, row) == Matches(root, row, MCSprintState)

MCFieldText == {"", "todo", "done", "u1", "s1", "s2", "x", "y"}

Issue(k, updated, status, assignee, labels, sprint) ==
  [key |-> k, rank |-> MCRank[k], updated |-> updated, status |-> status,
   assignee |-> assignee, labels |-> labels, sprint |-> sprint]

A1 == Issue("A-1", 2, "todo", "u1", {"x"}, "s1")
A2 == Issue("A-2", 1, "done", "", {}, "")
A3 == Issue("A-3", 2, "todo", "", {"x", "y"}, "s2")

TwoRows == [k \in {"A-1", "A-2"} |-> IF k = "A-1" THEN A1 ELSE A2]
AllRows == [k \in MCKey |-> CASE k = "A-1" -> A1 [] k = "A-2" -> A2 [] k = "A-3" -> A3]
MCRow == {TwoRows, AllRows}

(* ---- texts ---- *)
OrderBy(terms) == <<Word("order"), Word("by")>> \o terms
IsX == <<Word("labels"), Sign("="), Word("x")>>
IsTodo == <<Word("status"), Sign("!="), Quoted("todo")>>
NoSprint == <<Word("sprint"), Word("is"), Word("empty")>>

WalkText == { <<>>, OrderBy(<<Word("key"), Word("desc")>>), IsX,
              OrderBy(<<Word("updated"), Word("asc")>>) }

List3(a, b, c) == <<LParen, a, Comma, b, Comma, c, RParen>>
Call(f) == <<Word(f), LParen, RParen>>

PredText ==
  { IsX, IsTodo, NoSprint } \cup
  { <<Word(f), Sign("="), Word(v)>> :
      f \in {"key", "assignee", "sprint", "colour"}, v \in {"A-1", "u1", "Dana", "empty", "unassigned", "s2"} } \cup
  { <<Word("updated"), Sign(op), Quoted(t)>> : op \in {"=", ">", ">=", "<", "<="}, t \in {"t1", "t2", "soon"} } \cup
  { <<Word("sprint"), Word("is"), Word("not"), Word("null")>>, <<Word("assignee"), Word("is"), Word("not"), Word("empty")>>,
    <<Word("sprint"), Word("is"), Word("s1")>>, <<Word("sprint"), Word("not"), Word("s1")>>,
    <<Word("labels"), Word("in"), LParen, RParen>>, <<Word("labels"), Word("in"), Word("y")>>,
    <<Word("labels"), Word("in"), LParen, Word("y"), Comma, RParen>>,
    <<Word("labels"), Word("in"), LParen, Word("y"), Word("x"), RParen>>,
    <<Word("labels"), Word("in"), LParen, Word("y")>>,
    <<Word("key"), Word("not"), Word("in")>> \o List3(Word("A-1"), Quoted("A-2"), Word("B-9")),
    <<Word("assignee"), Word("in")>> \o List3(Quoted("Dana"), Word("empty"), Word("u1")) } \cup
  { <<Word(f), Word("in")>> \o Call(g) : f \in {"sprint", "labels"}, g \in {"opensprints", "closedsprints", "futuresprints", "now"} } \cup
  { <<Word("sprint"), Word("not"), Word("in"), LParen>> \o Call("opensprints") \o <<Comma, Word("empty"), RParen>>,
    <<Word("sprint"), Sign("!=")>> \o Call("opensprints"), <<Word("status"), Sign("=")>> \o Call("opensprints") }

Leaf == { IsX, IsTodo, NoSprint }
Not(a) == <<Word("not")>> \o a
Group(a) == <<LParen>> \o a \o <<RParen>>
Link2(a, w, b) == a \o <<Word(w)>> \o b

PairText == { Link2(a, w, b) : a \in Leaf \cup { Not(l) : l \in Leaf } \cup {Group(IsX)},
                               w \in {"and", "or"}, b \in Leaf \cup { Not(l) : l \in Leaf } }

MCAskText ==
  PredText \cup PairText
  \cup { Not(p) : p \in PairText } \cup { Not(Group(p)) : p \in PairText }
  \cup { Link2(p, w, a) : p \in PairText \cup { Group(q) : q \in PairText }, w \in {"and", "or"}, a \in Leaf }
  \cup { Link2(a, w, Group(p)) : p \in PairText, w \in {"and", "or"}, a \in {IsX} }
  \cup { <<LParen>> \o p : p \in PairText } \cup { p \o <<RParen>> : p \in PairText }
  \cup { p \o <<Word("and")>> : p \in PairText } \cup { p \o IsX : p \in PairText }
  \cup { p \o OrderBy(<<Word("updated"), Comma, Word("key"), Word("desc")>>) : p \in PairText }
  \cup { OrderBy(<<Word("updated"), Word("asc"), Word("key")>>) }

MCText == WalkText \cup MCAskText

(* ---- faults ---- *)
F(kinds, after, times, what) ==
  [kinds |-> kinds, after |-> after, times |-> times, skip |-> what = "skip",
   delay |-> what = "delay", truncate |-> what = "truncate", drift |-> what = "drift"]

Both == {"search", "write"}
MCFaultList ==
  { <<>>,
    << F({"search"}, 2, 1, "skip"), F(Both, 0, 1, "delay"), F(Both, 2, 1, "truncate") >>,
    << F(Both, 1, 1, "truncate"), F({"search"}, 2, 1, "drift"), F(Both, 2, 1, "skip") >> }

\* Walks with faults and writes, or one undisturbed question for each text.
MCInit ==
  /\ Init
  /\ \/ text \in WalkText /\ max = 1
     \/ text \in MCAskText /\ max = 3 /\ faults = <<>> /\ dialect = "cloud" /\ issue = AllRows

\* Nobody disturbs a question; a walk without faults meets two writes, one with faults a
\* write or an administrator.
MCNext ==
  /\ Next
  /\ writes' + admin' <= (IF text \notin WalkText THEN 0 ELSE IF faults = <<>> THEN MaxWrites ELSE 1)
  /\ faults = <<>> => admin' = admin

MCSpec == MCInit /\ [][MCNext]_vars /\ Fairness

Quiet == touched = {} /\ ~drifted

\* Jql's parser and evaluator, with the pages and the retries between them, answer an
\* undisturbed walk with exactly the issues for which the grammar says the text is true,
\* each once; a text that the grammar does not know is refused, and no other one is.
AnswerMeansText ==
  /\ walk.state = "refused" => \A k \in DOMAIN issue : QueryMeans(text, issue[k], MCSprintState) = {}
  /\ walk.state = "done" /\ Quiet =>
       /\ \A k \in DOMAIN issue :
            QueryMeans(text, issue[k], MCSprintState) = {k \in ToSet(walk.got)}
       /\ IsInjective(walk.got)
=============================================================================
