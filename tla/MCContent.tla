------------------------------- MODULE MCContent -------------------------------
(* What a store holds beside the workflow of its issues: parents, links and     *)
(* records of issues, sprints, pages, attachments, and the document that        *)
(* carries them from one store to another.  They share no state but the file    *)
(* and the lock, so a behaviour exercises one of these parts and leaves the     *)
(* others alone.                                                                *)
EXTENDS IssueGraph, MCSprints, Pages, Attachments, Snapshot

VARIABLE part

mcVars == <<graphVars, sprintsVars, pagesVars, uploadVars, snapshotVars, part>>

MCKeyOf == <<"A-1", "A-2", "A-3">>
MCLevel == [t \in {"epic", "story", "sub"} |-> CASE t = "epic" -> 1 [] t = "story" -> 0 [] t = "sub" -> -1]
MCDevState == [kind \in Kind |-> IF kind = "pullrequest" THEN {"", "MERGED"} ELSE {"successful"}]

MCPageId == <<"20001", "20002">>
MCFixture == [p \in {"20001"} |-> 3]
PageForm(title, space, parent, body) == [title |-> title, space |-> space, parent |-> parent, body |-> body]
MCForm == { PageForm("T", "S", "", "adf"), PageForm("", "S", "", "adf"), PageForm("T", "", "20002", "") }

MCBucket == [c \in {"aa1", "aa2", "big"} |-> IF c = "big" THEN "bb" ELSE "aa"]

\* A status before the initial one, as a fixture with a backlog has it.
MCStatusById == <<"1", "10000", "3">>

\* A document that leaves ids, a stamp, the changelog and a file's content to Apply, and lists
\* versions in no order.
MCAuthored ==
  { [home |-> 0,
     issues |-> << [key |-> 1, status |-> "3", updated |-> 0, history |-> <<>>,
                    comments |-> << [id |-> 0, internal |-> ""] >>,
                    attachments |-> << [id |-> 0, text |-> "", base64 |-> ""] >>] >>,
     pages |-> << [id |-> 1, version |-> 3, versions |-> <<>>,
                   comments |-> << [id |-> 2, reply |-> FALSE], [id |-> 0, reply |-> TRUE] >>],
                  [id |-> 2, version |-> 0, versions |-> <<2, 0>>, comments |-> <<>>] >>] }

MCInit ==
  /\ GraphInit /\ SprintsInit /\ PagesInit /\ UploadsInit /\ SnapshotInit
  /\ part \in {"parents", "links", "records", "sprints", "pages", "uploads", "document"}
  /\ part = "document" \/ graph = Empty
  /\ part = "sprints" \/ issueRows = Unplanned.issues

GraphStep ==
  \/ part = "parents" /\ ParentStep
  \/ part = "links" /\ (CreateIssue("", NoParent) \/ LinkStep)
  \/ part = "records" /\ ((issue = << >> /\ CreateIssue("", NoParent)) \/ RecordStep)

\* Three page edits in all; one document is saved.
EditsInAll == { w \in Editor \X (1..MaxEdits) : w[2] <= editor'[w[1]].edits }

MCNext ==
  /\ UNCHANGED part
  /\ \/ GraphStep /\ UNCHANGED <<sprintsVars, pagesVars, uploadVars, snapshotVars>>
     \/ part = "sprints" /\ SprintsNext /\ UNCHANGED <<graphVars, pagesVars, uploadVars, snapshotVars>>
     \/ part = "pages" /\ PagesNext /\ Cardinality(EditsInAll) <= 3
        /\ UNCHANGED <<graphVars, sprintsVars, uploadVars, snapshotVars>>
     \/ part = "uploads" /\ UploadsNext /\ UNCHANGED <<graphVars, sprintsVars, pagesVars, snapshotVars>>
     \/ part = "document" /\ SnapshotNext /\ doc \in {NoDoc, doc'}
        /\ UNCHANGED <<graphVars, sprintsVars, pagesVars, uploadVars>>

MCSpec == MCInit /\ [][MCNext]_mcVars

\* The types of the parts but the sprints, which have theirs.
TypeOK == GraphTypeOK /\ PagesTypeOK /\ UploadsTypeOK /\ SnapshotTypeOK
=============================================================================
