------------------------------ MODULE BatchRow ------------------------------
(***************************************************************************)
(* The row of a deferred-action batch and what the deferred-action manager *)
(* commits to it.  A batch is a run's questions and approvals, persisted   *)
(* as one unit.  Every manager call reads the row in a session, decides on *)
(* what it read, and writes back only the columns it changed: `seen` below *)
(* is the row as the call read it, `stored` the row as it is at the commit.*)
(* The two differ when another call committed in between.                  *)
(***************************************************************************)

CONSTANTS
  Questions,   \* the questions of a batch
  Approvals,   \* its approvals
  Replies      \* who may answer: one value per reply of a human

ASSUME KindsAreDisjoint == Questions \cap Approvals = {}
ASSUME RepliesAreNotStates == Replies \cap {"pending", "expired", "failed"} = {}

Actions == Questions \cup Approvals

BatchStatus == {"pending", "resolved", "resuming", "completed",
                "expired", "superseded", "failed"}

\* An answered, approved or denied action is the reply that settled it.
ActionState == {"pending", "expired", "failed"} \cup Replies

\* "absent" is the status of a batch that has no row yet.
Row == [status : BatchStatus \cup {"absent"}, acts : [Actions -> ActionState]]

NoRow  == [status |-> "absent",  acts |-> [a \in Actions |-> "pending"]]
NewRow == [status |-> "pending", acts |-> [a \in Actions |-> "pending"]]

Closed(row) == row.status # "pending"

\* Every action has been resolved, whatever the status column says.
Completed(row) == \A a \in Actions : row.acts[a] # "pending"

\* Statuses on which a reply returns the batch as it is, and on which it raises.
Settled == {"resolved", "completed", "resuming"}
Refused == {"expired", "superseded", "failed"}

\* An answer may replace an earlier one while the batch is open; an approval
\* is given once.
Answerable(row, a) ==
  \/ row.acts[a] = "pending"
  \/ a \in Questions /\ row.acts[a] \in Replies

\* resolve_batch: the row after `reply` settled the actions `as`.
Resolved(seen, stored, reply, as) ==
  LET hit   == {a \in as : Answerable(seen, a)}
      whole == \A a \in Actions : a \in hit \/ seen.acts[a] # "pending"
  IN  [status |-> IF whole THEN "resolved" ELSE stored.status,
       acts   |-> [a \in Actions |-> IF a \in hit THEN reply ELSE stored.acts[a]]]

\* mark_batch: the status is overwritten whatever it was; a terminal one
\* closes the actions nobody settled.
Marked(seen, stored, status) ==
  LET ends == status \in {"completed", "expired", "superseded", "failed"}
      left == IF status = "failed" THEN "failed" ELSE "expired"
  IN  [status |-> status,
       acts   |-> [a \in Actions |->
                     IF ends /\ seen.acts[a] = "pending" THEN left
                                                         ELSE stored.acts[a]]]
=============================================================================
