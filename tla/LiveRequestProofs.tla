------------------------- MODULE LiveRequestProofs -------------------------
(***************************************************************************)
(* Proofs about LiveRequest, for any replies and presses, whatever the     *)
(* batch asks, with and without a timeout.                                 *)
(***************************************************************************)
EXTENDS LiveRequest, TLAPS

-----------------------------------------------------------------------------
(* Rows.                                                                   *)

LEMMA RowsAreTyped == NoRow \in Row /\ NewRow \in Row /\ NewRow.status = "pending"
BY DEF NoRow, NewRow, Row, ActionState, BatchStatus

\* A reply that answers everything resolves the batch, whatever its handler saw and
\* whatever was committed meanwhile.
LEMMA ResolvedWhole ==
  ASSUME NEW seen \in Row, NEW stored \in Row, NEW r \in Replies
  PROVE  /\ Resolved(seen, stored, r, Actions) \in Row
         /\ Resolved(seen, stored, r, Actions).status = "resolved"
BY DEF Resolved, Answerable, Row, ActionState, BatchStatus

\* On an untouched row it settles every action.
LEMMA ResolvedNew ==
  ASSUME NEW stored \in Row, NEW r \in Replies
  PROVE  \A a \in Actions : Resolved(NewRow, stored, r, Actions).acts[a] = r
BY DEF Resolved, Answerable, NewRow

LEMMA ExpiredIsRow ==
  ASSUME NEW seen \in Row, NEW stored \in Row
  PROVE  Marked(seen, stored, "expired") \in Row
         /\ Marked(seen, stored, "expired").status = "expired"
BY DEF Marked, Row, ActionState, BatchStatus

-----------------------------------------------------------------------------
(* The inductive invariant.                                                *)

\* A run that goes on with an answer has one.
HasAnswer == agent.pc \in {"resolving", "committing", "answered"} => agent.got \in Replies

\* A run that moved on is not registered.
Unheard == agent.pc \in Ended \cup {"resolving", "committing"} => ~registered

\* No card is open before the batch is persisted, and a press saw one.
CardFirst ==
  /\ agent.pc = "pausing" => row = NoRow /\ Unpressed
  /\ \A r \in Replies : reply[r].pc = "pressing" => r \in Presses /\ reply[r].seen # NoRow

\* Where the process died the run is over.
Fallen == host = "down" => agent.pc \in Ended

\* What ended otherwise than by a cancellation closed its card, and what the process
\* took with it has its card closed at the next start.
CardClosed ==
  agent.pc \in {"marked", "answered", "denied", "raised"} \/ (agent.pc = "lost" /\ host # "down")
    => row.status # "pending"

\* Where no button was pressed, the row is what the run made of it.
OwnRow == Unpressed =>
  /\ agent.pc \in {"persisted", "waiting", "expiring", "marking", "resolving", "committing"}
       => row = NewRow
  /\ agent.pc \in {"marking", "committing"} => agent.seen = NewRow
  /\ agent.pc \in {"marked", "denied"} => row.status = "expired"
  /\ agent.pc = "answered" =>
       row.status = "resolved" /\ \A a \in Actions : row.acts[a] = agent.got

Inv == TypeOK /\ HasAnswer /\ Unheard /\ CardFirst /\ Fallen /\ CardClosed /\ OwnRow

LEMMA InitInv == ASSUME Init PROVE Inv
<1>1. TypeOK
  BY RowsAreTyped DEF Init, TypeOK, Parked
<1>2. HasAnswer /\ Unheard /\ CardFirst /\ Fallen /\ CardClosed /\ OwnRow
  BY PressesReply
     DEF Init, HasAnswer, Unheard, CardFirst, Fallen, CardClosed, OwnRow, Unpressed, Ended
<1> QED
  BY <1>1, <1>2 DEF Inv

-----------------------------------------------------------------------------
(* The steps of the run.                                                   *)

\* What the parts of the state are.
LEMMA RunTypes ==
  ASSUME TypeOK
  PROVE  /\ row \in Row /\ agent.seen \in Row /\ agent.cancelled \in BOOLEAN
         /\ agent.got \in Replies \cup {Nobody} /\ agent.pc \in Parked \cup Ended
         /\ \A r \in Replies : reply[r].seen \in Row
BY DEF TypeOK

LEMMA PersistInv == ASSUME Inv, Persist PROVE Inv'
<1>1. TypeOK'
  BY RowsAreTyped DEF Inv, TypeOK, Persist, Goto, Parked
<1>2. agent'.pc = "persisted" /\ row' = NewRow /\ agent.pc = "pausing"
      /\ UNCHANGED <<registered, reply, host>>
  BY DEF Inv, TypeOK, Persist, Goto
<1>3. HasAnswer' /\ Unheard' /\ CardFirst' /\ CardClosed' /\ OwnRow'
  BY <1>2 DEF Inv, HasAnswer, Unheard, CardFirst, CardClosed, OwnRow, Unpressed, Ended
<1>4. Fallen'
  BY <1>2 DEF Inv, Fallen, Ended
<1> QED
  BY <1>1, <1>3, <1>4 DEF Inv

\* The steps that leave the row alone.
LEMMA RunInv ==
  ASSUME Inv, Present \/ CancelPause \/ Wake \/ Timeout \/ Cancel \/ WakeCancelled
              \/ ExpireRead \/ Unregister \/ ResolveRead \/ CancelResolve
  PROVE  Inv'
<1>1. UNCHANGED <<row, reply, host>> /\ host # "down"
  BY DEF Present, CancelPause, Wake, Timeout, Cancel, WakeCancelled, ExpireRead, Unregister,
         ResolveRead, CancelResolve, Inv, Fallen, Ended
<1>2. TypeOK'
  <2>1. CASE Present \/ CancelPause \/ Timeout \/ CancelResolve
    BY <2>1 DEF Present, CancelPause, Timeout, CancelResolve, Goto, Inv, TypeOK, Parked, Ended
  <2>2. CASE Wake \/ WakeCancelled \/ Cancel
    BY <2>2 DEF Wake, WakeCancelled, Cancel, Inv, TypeOK, Parked, Ended
  <2>3. CASE ExpireRead \/ ResolveRead
    BY <2>3 DEF ExpireRead, ResolveRead, Inv, TypeOK, Parked, Ended
  <2>4. CASE Unregister
    BY <2>4 DEF Unregister, Goto, Inv, TypeOK, Parked, Ended
  <2> QED
    BY <2>1, <2>2, <2>3, <2>4
<1>3. CASE Present \/ Timeout \/ WakeCancelled \/ Cancel
  <2>1. /\ agent.pc \in {"persisted", "waiting", "expiring", "marking", "marked"}
        /\ \/ agent'.pc \in {"waiting", "expiring"} /\ agent.pc \in {"persisted", "waiting"}
           \/ agent'.pc = agent.pc
        /\ agent'.seen = agent.seen
    BY <1>3 DEF Present, Timeout, WakeCancelled, Cancel, Goto, Inv, TypeOK
  <2>2. HasAnswer' /\ Unheard' /\ CardFirst' /\ Fallen' /\ CardClosed' /\ OwnRow'
    BY <1>1, <2>1 DEF Inv, HasAnswer, Unheard, CardFirst, Fallen, CardClosed, OwnRow,
                      Unpressed, Ended
  <2> QED
    BY <1>2, <2>2 DEF Inv
<1>4. CASE CancelPause \/ CancelResolve
  <2>1. agent'.pc = "cancelled" /\ ~registered'
    BY <1>4 DEF CancelPause, CancelResolve, Goto, Inv, TypeOK, Unheard
  <2>2. HasAnswer' /\ Unheard' /\ CardFirst' /\ Fallen' /\ CardClosed' /\ OwnRow'
    BY <1>1, <2>1 DEF Inv, HasAnswer, Unheard, CardFirst, Fallen, CardClosed, OwnRow,
                      Unpressed, Ended
  <2> QED
    BY <1>2, <2>2 DEF Inv
<1>5. CASE Wake
  <2>1. agent.pc = "waiting" /\ agent'.pc = "resolving" /\ agent'.got \in Replies /\ ~registered'
    BY <1>5 DEF Wake, Inv, TypeOK
  <2>2. HasAnswer' /\ Unheard' /\ CardFirst' /\ Fallen' /\ CardClosed' /\ OwnRow'
    BY <1>1, <2>1 DEF Inv, HasAnswer, Unheard, CardFirst, Fallen, CardClosed, OwnRow,
                      Unpressed, Ended
  <2> QED
    BY <1>2, <2>2 DEF Inv
<1>6. CASE ExpireRead
  <2>1. agent.pc = "expiring" /\ agent'.pc = "marking" /\ agent'.seen = row
    BY <1>6 DEF ExpireRead, Inv, TypeOK
  <2>2. HasAnswer' /\ Unheard' /\ CardFirst' /\ Fallen' /\ CardClosed' /\ OwnRow'
    BY <1>1, <2>1 DEF Inv, HasAnswer, Unheard, CardFirst, Fallen, CardClosed, OwnRow,
                      Unpressed, Ended
  <2> QED
    BY <1>2, <2>2 DEF Inv
<1>7. CASE Unregister
  <2>1. agent.pc = "marked" /\ agent'.pc \in {"cancelled", "denied"} /\ ~registered'
    BY <1>7 DEF Unregister, Goto, Inv, TypeOK
  <2>2. HasAnswer' /\ Unheard' /\ CardFirst' /\ Fallen' /\ CardClosed' /\ OwnRow'
    BY <1>1, <2>1 DEF Inv, HasAnswer, Unheard, CardFirst, Fallen, CardClosed, OwnRow,
                      Unpressed, Ended
  <2> QED
    BY <1>2, <2>2 DEF Inv
<1>8. CASE ResolveRead
  <2>1. /\ agent.pc = "resolving" /\ agent'.seen = row /\ agent'.got = agent.got
        /\ UNCHANGED registered
        /\ \/ row.status \in Settled /\ agent'.pc = "answered"
           \/ row.status \in Refused /\ agent'.pc = "raised"
           \/ agent'.pc = "committing"
    BY <1>8 DEF ResolveRead, Inv, TypeOK
  <2>2. HasAnswer' /\ Unheard' /\ CardFirst' /\ Fallen'
    BY <1>1, <2>1 DEF Inv, HasAnswer, Unheard, CardFirst, Fallen, Ended
  <2>3. CardClosed'
    BY <1>1, <2>1 DEF CardClosed, Settled, Refused
  <2>4. OwnRow'
    BY <1>1, <2>1, RowsAreTyped DEF Inv, OwnRow, Unpressed, Settled, Refused
  <2> QED
    BY <1>2, <2>2, <2>3, <2>4 DEF Inv
<1> QED
  BY <1>3, <1>4, <1>5, <1>6, <1>7, <1>8

\* The run closes its card.
LEMMA ExpireCommitInv == ASSUME Inv, ExpireCommit PROVE Inv'
<1>1. /\ agent.pc = "marking" /\ agent'.pc = "marked"
      /\ row' = Marked(agent.seen, row, "expired")
      /\ UNCHANGED <<future, registered, reply, lock, host>>
  BY DEF ExpireCommit, Goto, Inv, TypeOK
<1>2. row' \in Row /\ row'.status = "expired"
  BY <1>1, ExpiredIsRow, RunTypes DEF Inv
<1>3. TypeOK'
  BY <1>2 DEF ExpireCommit, Goto, Inv, TypeOK, Parked
<1>4. HasAnswer' /\ Unheard' /\ CardFirst' /\ Fallen' /\ CardClosed' /\ OwnRow'
  BY <1>1, <1>2 DEF Inv, HasAnswer, Unheard, CardFirst, Fallen, CardClosed, OwnRow,
                    Unpressed, Ended
<1> QED
  BY <1>3, <1>4 DEF Inv

LEMMA ResolveCommitInv == ASSUME Inv, ResolveCommit PROVE Inv'
<1>1. /\ agent.pc = "committing" /\ agent'.pc = "answered" /\ agent'.got = agent.got
      /\ row' = Resolved(agent.seen, row, agent.got, Actions)
      /\ UNCHANGED <<future, registered, reply, lock, host>>
  BY DEF ResolveCommit, Goto, Inv, TypeOK
<1>2. agent.got \in Replies
  BY <1>1 DEF Inv, HasAnswer
<1>3. row' \in Row /\ row'.status = "resolved"
  BY <1>1, <1>2, ResolvedWhole, RunTypes DEF Inv
<1>4. TypeOK'
  BY <1>3 DEF ResolveCommit, Goto, Inv, TypeOK, Parked, Ended
<1>5. Unpressed => \A a \in Actions : row'.acts[a] = agent.got
  <2>1. Unpressed => agent.seen = NewRow
    BY <1>1 DEF Inv, OwnRow
  <2> QED
    BY <1>1, <1>2, <2>1, ResolvedNew, RunTypes DEF Inv
<1>6. Unpressed' => Unpressed
  BY <1>1 DEF Unpressed
<1>7. HasAnswer' /\ Unheard' /\ CardFirst' /\ Fallen' /\ CardClosed'
  BY <1>1, <1>2, <1>3 DEF Inv, HasAnswer, Unheard, CardFirst, Fallen, CardClosed, Ended
<1>8. OwnRow'
  BY <1>1, <1>3, <1>5, <1>6 DEF OwnRow
<1> QED
  BY <1>4, <1>7, <1>8 DEF Inv

-----------------------------------------------------------------------------
(* The steps of the humans and of the process.                             *)

LEMMA KickInv == ASSUME Inv, NEW r \in Replies, Kick(r) \/ Deliver(r) PROVE Inv'
<1>1. UNCHANGED <<row, agent, registered, host>>
  BY DEF Kick, Deliver
<1>2. TypeOK'
  BY DEF Kick, Deliver, Reply, Inv, TypeOK
<1>3. \A q \in Replies : /\ reply'[q].seen = reply[q].seen
                         /\ reply'[q].pc = "pressing" => reply[q].pc = "pressing"
  BY DEF Kick, Deliver, Reply, Inv, TypeOK
<1>4. Unpressed' <=> Unpressed
  BY <1>3, PressesReply DEF Unpressed
<1>5. HasAnswer' /\ Unheard' /\ CardFirst' /\ Fallen' /\ CardClosed' /\ OwnRow'
  BY <1>1, <1>3, <1>4 DEF Inv, HasAnswer, Unheard, CardFirst, Fallen, CardClosed, OwnRow
<1> QED
  BY <1>2, <1>5 DEF Inv

\* A press that found the card open is remembered.
LEMMA PressInv == ASSUME Inv, NEW r \in Replies, Press(r) PROVE Inv'
<1>1. UNCHANGED <<row, agent, future, registered, host>> /\ r \in Presses /\ row # NoRow
  BY DEF Press, NoRow
<1>2. TypeOK'
  BY <1>1 DEF Press, Reply, Inv, TypeOK
<1>3. /\ \A q \in Replies : q # r => reply'[q] = reply[q]
      /\ \/ reply'[r].pc = "pressing" /\ reply'[r].seen = row
         \/ reply'[r].pc = "refused" /\ reply'[r].seen = reply[r].seen
  BY DEF Press, Reply, Inv, TypeOK
<1>4. Unpressed' => Unpressed
  BY <1>1, <1>3, PressesReply DEF Unpressed
<1>5. HasAnswer' /\ Unheard' /\ CardFirst' /\ Fallen' /\ CardClosed' /\ OwnRow'
  BY <1>1, <1>3, <1>4 DEF Inv, HasAnswer, Unheard, CardFirst, Fallen, CardClosed, OwnRow
<1> QED
  BY <1>2, <1>5 DEF Inv

LEMMA PressCommitInv == ASSUME Inv, NEW r \in Replies, PressCommit(r) PROVE Inv'
<1>1. /\ row' = Resolved(reply[r].seen, row, r, Actions)
      /\ UNCHANGED <<agent, future, registered, host>>
  BY DEF PressCommit
<1>2. row' \in Row /\ row'.status = "resolved"
  BY <1>1, ResolvedWhole, RunTypes DEF Inv
<1>3. TypeOK'
  BY <1>2 DEF PressCommit, Reply, Inv, TypeOK
<1>4. r \in Presses /\ reply[r].pc = "pressing" /\ reply[r].seen # NoRow
  BY DEF PressCommit, Inv, CardFirst
<1>5. \A q \in Replies : /\ reply'[q].seen = reply[q].seen
                         /\ reply'[q].pc = "pressing" => reply[q].pc = "pressing"
  BY DEF PressCommit, Reply, Inv, TypeOK
<1>6. ~Unpressed'
  BY <1>4, <1>5 DEF Unpressed
<1>7. agent.pc # "pausing"
  <2>1. ASSUME agent.pc = "pausing" PROVE FALSE
    BY <2>1, <1>4 DEF Inv, CardFirst, Unpressed
  <2> QED
    BY <2>1
<1>8. HasAnswer' /\ Unheard' /\ CardFirst' /\ Fallen' /\ CardClosed' /\ OwnRow'
  BY <1>1, <1>2, <1>5, <1>6, <1>7
     DEF Inv, HasAnswer, Unheard, CardFirst, Fallen, CardClosed, OwnRow
<1> QED
  BY <1>3, <1>8 DEF Inv

LEMMA ProcessInv == ASSUME Inv, Shutdown \/ Crash \/ Restart PROVE Inv'
<1>1. CASE Shutdown
  <2>1. UNCHANGED <<row, agent, reply, lock>> /\ ~registered' /\ host = "up" /\ host' = "stopping"
    BY <1>1 DEF Shutdown
  <2>2. TypeOK'
    BY <1>1 DEF Shutdown, Inv, TypeOK
  <2>3. HasAnswer' /\ Unheard' /\ CardFirst' /\ Fallen' /\ CardClosed' /\ OwnRow'
    BY <2>1 DEF Inv, HasAnswer, Unheard, CardFirst, Fallen, CardClosed, OwnRow, Unpressed
  <2> QED
    BY <2>2, <2>3 DEF Inv
<1>2. CASE Crash
  <2>1. /\ UNCHANGED row /\ ~registered' /\ host' = "down"
        /\ agent'.got = agent.got
        /\ agent'.pc = IF agent.pc \in Ended THEN agent.pc ELSE "lost"
    BY <1>2 DEF Crash, Inv, TypeOK
  <2>2. TypeOK'
    BY <1>2 DEF Crash, Inv, TypeOK, Ended
  <2>3. \A q \in Replies : reply'[q].seen = reply[q].seen /\ reply'[q].pc # "pressing"
    BY <1>2 DEF Crash, Inv, TypeOK
  <2>4. Unpressed' => Unpressed
    BY <2>3, PressesReply DEF Unpressed
  <2>5. agent'.pc \in Ended
    BY <2>1 DEF Ended
  <2>6. HasAnswer' /\ Unheard' /\ CardFirst' /\ Fallen' /\ CardClosed' /\ OwnRow'
    BY <2>1, <2>3, <2>4, <2>5
       DEF Inv, HasAnswer, Unheard, CardFirst, Fallen, CardClosed, OwnRow, Ended
  <2> QED
    BY <2>2, <2>6 DEF Inv
<1>3. CASE Restart
  <2>1. /\ UNCHANGED <<agent, future, registered, reply, lock>> /\ host = "down"
        /\ agent.pc \in Ended
        /\ row' = IF row.status = "pending" THEN Marked(row, row, "expired") ELSE row
    BY <1>3 DEF Restart, Inv, Fallen
  <2>2. row' \in Row /\ row'.status # "pending" /\ (row.status # "pending" => row' = row)
    BY <2>1, ExpiredIsRow, RunTypes DEF Inv
  <2>3. TypeOK'
    BY <2>2, <1>3 DEF Restart, Inv, TypeOK
  <2>4. HasAnswer' /\ Unheard' /\ CardFirst' /\ Fallen' /\ CardClosed'
    BY <2>1, <2>2 DEF Inv, HasAnswer, Unheard, CardFirst, Fallen, CardClosed, Ended
  <2>5. OwnRow'
    BY <2>1, <2>2 DEF Inv, OwnRow, CardClosed, Unpressed, Ended
  <2> QED
    BY <2>3, <2>4, <2>5 DEF Inv
<1> QED
  BY <1>1, <1>2, <1>3

LEMMA StepInv == Inv /\ [Next]_vars => Inv'
<1> SUFFICES ASSUME Inv, [Next]_vars PROVE Inv'
  OBVIOUS
<1>1. CASE UNCHANGED vars
  BY <1>1 DEF vars, Inv, TypeOK, HasAnswer, Unheard, CardFirst, Fallen, CardClosed, OwnRow,
              Unpressed
<1> QED
  BY <1>1, PersistInv, RunInv, ExpireCommitInv, ResolveCommitInv, KickInv, PressInv,
     PressCommitInv, ProcessInv DEF Next

\* The invariant of every reachable state.
THEOREM Invariant == Spec => []Inv
<1>1. Init => Inv
  BY InitInv
<1> QED
  BY <1>1, StepInv, PTL DEF Spec

-----------------------------------------------------------------------------
(* The theorems.                                                           *)

\* Every reachable state is well typed.
THEOREM TypeCorrect == Spec => []TypeOK
<1>1. Inv => TypeOK
  BY DEF Inv
<1> QED
  BY <1>1, Invariant, PTL

\* Whatever races the timer, the run was told what its row says, where no button was
\* pressed on the open card (_await_human).
THEOREM AgreesWithRow == Spec => []RunAgreesWithRow
<1>1. Inv => RunAgreesWithRow
  BY DEF Inv, OwnRow, RunAgreesWithRow
<1> QED
  BY <1>1, Invariant, PTL

\* An open card has a run waiting for it, or its run was cancelled: nothing else that
\* ends a run, and no restart, leaves one behind (expire_live).
THEOREM OpenCardsAreAwaited == Spec => []PendingIsAwaited
<1>1. Inv => PendingIsAwaited
  BY DEF Inv, CardClosed, PendingIsAwaited, TypeOK, Parked, Ended
<1> QED
  BY <1>1, Invariant, PTL

\* Once the run went on, a reply is told that nobody waits for it (kick).
THEOREM RefusesLateReplies == Spec => LateReplyRefused
<1>1. ASSUME Inv, [Next]_vars, NEW r \in Replies,
             agent.pc \in Ended \cup {"resolving", "committing"}, reply[r].pc = "kicking"
      PROVE  reply'[r].pc # "accepted"
  <2>1. ~registered
    BY <1>1 DEF Inv, Unheard
  <2>2. ASSUME NEW q \in Replies, Kick(q) \/ Press(q) \/ PressCommit(q) \/ Deliver(q)
        PROVE  reply'[r].pc # "accepted"
    <3>1. CASE q = r
      BY <1>1, <2>1, <2>2, <3>1 DEF Kick, Press, PressCommit, Deliver, Reply, Inv, TypeOK
    <3>2. CASE q # r
      BY <1>1, <2>2, <3>2 DEF Kick, Press, PressCommit, Deliver, Reply, Inv, TypeOK
    <3> QED
      BY <3>1, <3>2
  <2>3. CASE Crash
    BY <1>1, <2>3 DEF Crash, Inv, TypeOK
  <2>4. CASE UNCHANGED reply
    BY <1>1, <2>4
  <2>5. Persist \/ Present \/ CancelPause \/ Wake \/ Timeout \/ Cancel \/ WakeCancelled
          \/ ExpireRead \/ ExpireCommit \/ Unregister \/ ResolveRead \/ ResolveCommit
          \/ CancelResolve \/ Shutdown \/ Restart \/ UNCHANGED vars
        => UNCHANGED reply
    BY DEF Persist, Present, CancelPause, Wake, Timeout, Cancel, WakeCancelled, ExpireRead,
           ExpireCommit, Unregister, ResolveRead, ResolveCommit, CancelResolve, Shutdown,
           Restart, vars
  <2> QED
    BY <1>1, <2>2, <2>3, <2>4, <2>5 DEF Next
<1>2. Inv /\ [Next]_vars =>
        [\A r \in Replies :
           agent.pc \in Ended \cup {"resolving", "committing"} /\ reply[r].pc = "kicking"
             => reply'[r].pc # "accepted"]_vars
  BY <1>1
<1> QED
  BY <1>2, Invariant, PTL DEF Spec, LateReplyRefused

\* What was answered stays answered: neither the timer nor a restart, nor a reply that
\* is no press, replaces or expires it (mark_batch, expire_live).
THEOREM AnswersStand == Spec => AnswerStands
<1>1. ASSUME Inv, [Next]_vars, row.status = "resolved", Unpressed
      PROVE  row' = row
  <2>1. ~Persist /\ ~ExpireCommit /\ ~ResolveCommit
    BY <1>1, RowsAreTyped
       DEF Persist, ExpireCommit, ResolveCommit, Inv, CardFirst, OwnRow, NoRow
  <2>2. ASSUME NEW q \in Replies, Kick(q) \/ Press(q) \/ PressCommit(q) \/ Deliver(q)
        PROVE  row' = row
    <3>1. ~PressCommit(q)
      BY <1>1 DEF PressCommit, Inv, CardFirst, Unpressed
    <3> QED
      BY <2>2, <3>1 DEF Kick, Press, Deliver
  <2>3. Present \/ CancelPause \/ Wake \/ Timeout \/ Cancel \/ WakeCancelled
          \/ ExpireRead \/ Unregister \/ ResolveRead
          \/ CancelResolve \/ Shutdown \/ Crash \/ Restart \/ UNCHANGED vars
        => row' = row
    BY <1>1 DEF Present, CancelPause, Wake, Timeout, Cancel, WakeCancelled, ExpireRead,
           Unregister, ResolveRead, CancelResolve, Shutdown, Crash, Restart, vars
  <2> QED
    BY <1>1, <2>1, <2>2, <2>3 DEF Next
<1>2. Inv /\ [Next]_vars => [row.status = "resolved" /\ Unpressed => row' = row]_vars
  BY <1>1
<1> QED
  BY <1>2, Invariant, PTL DEF Spec, AnswerStands
=============================================================================
