---------------------------- MODULE ReflexProofs ----------------------------
(***************************************************************************)
(* Proofs about Reflex, for every set of threads, kicks and batches and    *)
(* every number of faults.                                                 *)
(***************************************************************************)
EXTENDS Reflex, TLAPS

-----------------------------------------------------------------------------
(* Rows.                                                                   *)

\* What resolve_batch commits is a row.
LEMMA ResolvedIsRow ==
  ASSUME NEW seen \in Row, NEW stored \in Row, NEW reply \in Replies, NEW as
  PROVE  Resolved(seen, stored, reply, as) \in Row
BY DEF Resolved, Row, ActionState, BatchStatus

\* What mark_batch commits is a row.
LEMMA MarkedIsRow ==
  ASSUME NEW seen \in Row, NEW stored \in Row, NEW status \in BatchStatus
  PROVE  Marked(seen, stored, status) \in Row
BY DEF Marked, Row, ActionState, BatchStatus

\* resolve_batch writes the status "resolved" exactly when, in the caller's
\* view of the row, every action has an answer.
LEMMA ResolvedWhenWhole ==
  ASSUME NEW seen \in Row, NEW stored \in Row, NEW reply \in Replies, NEW as
  PROVE  Resolved(seen, stored, reply, as).status
           = IF Completed(Resolved(seen, seen, reply, as)) THEN "resolved"
                                                           ELSE stored.status
<1>1. reply # "pending"
  BY RepliesAreNotStates
<1> QED
  BY <1>1 DEF Resolved, Completed, Row

\* The initial row, and the one of a new batch, are rows.
LEMMA RowsAreTyped == NoRow \in Row /\ NewRow \in Row
BY DEF NoRow, NewRow, Row, ActionState, BatchStatus

\* So is a kick that has not begun.
LEMMA IdleIsTyped == Idle \in Kick
<1>1. (CHOOSE t \in Threads : TRUE) \in Threads
  BY SomeThread
<1> QED
  BY <1>1, RowsAreTyped DEF Idle, Kick

-----------------------------------------------------------------------------
(* Type correctness.                                                       *)

\* What PressCommit, CommitRow, Claim and Record write goes to the batch in the
\* kick's hands, so that types alone are not inductive: a kick that works on a
\* row is a reply and has a batch.
InHand(k, s) ==
  /\ s.pc \in {"pressing", "waiting", "reading", "committing", "claiming"}
       => k \in Replies /\ s.batch \in Batches
  /\ s.pc = "created" /\ k \in Replies => s.batch \in Batches
  /\ s.pc = "recording" => s.batch \in Batches

KicksOK == kick \in [Kicks -> Kick] /\ \A k \in Kicks : InHand(k, kick[k])
TInv == TypeOK /\ KicksOK

\* A kick takes a new, well typed state.
LEMMA BecomeIsTyped ==
  ASSUME KicksOK, NEW k \in Kicks, NEW state \in Kick, InHand(k, state), Become(k, state)
  PROVE  KicksOK'
<1>1. kick' \in [Kicks -> Kick]
  BY DEF Become, KicksOK
<1>2. ASSUME NEW j \in Kicks PROVE InHand(j, kick[j])'
  <2>1. kick'[j] = IF j = k THEN state ELSE kick[j]
    BY DEF Become, KicksOK
  <2> QED
    BY <2>1 DEF KicksOK, InHand
<1> QED
  BY <1>1, <1>2 DEF KicksOK

\* Moving a kick's program counter keeps its type.
LEMMA GotoIsTyped ==
  ASSUME KicksOK, NEW k \in Kicks, NEW pc,
         pc \in {"idle", "refused", "draining"} \cup Calling \cup Awake \cup Finished,
         InHand(k, [kick[k] EXCEPT !.pc = pc]),
         Goto(k, pc)
  PROVE  KicksOK'
<1>1. kick[k] \in Kick
  BY DEF KicksOK
<1>2. [kick[k] EXCEPT !.pc = pc] \in Kick
  BY <1>1 DEF Kick
<1> QED
  BY <1>2, BecomeIsTyped DEF Goto

\* So does the end of a call or a task.
LEMMA GoneIsTyped ==
  ASSUME KicksOK, NEW k \in Kicks, NEW pc, pc \in {"refused", "done"}, Gone(k, pc)
  PROVE  KicksOK'
<1>1. [Idle EXCEPT !.pc = pc] \in Kick
  BY IdleIsTyped DEF Kick, Finished
<1>2. InHand(k, [Idle EXCEPT !.pc = pc])
  BY DEF InHand, Idle
<1> QED
  BY <1>1, <1>2, BecomeIsTyped DEF Gone

\* The steps of a call of Octomate.kick keep every type.
LEMMA CallKeepsTypes ==
  ASSUME TInv, NEW k \in Kicks, Call(k)
  PROVE  TInv'
<1>k. KicksOK /\ kick[k] \in Kick /\ InHand(k, kick[k])
  BY DEF TInv, KicksOK
<1>1. ASSUME NEW t \in Threads, AskTurn(k, t) PROVE TInv'
  <2>1. [kick[k] EXCEPT !.pc = "created", !.on = t, !.source = t, !.conv = t] \in Kick
    BY <1>k, <1>1 DEF Kick, Calling, Awake, Running, Finished, TInv, TypeOK
  <2>2. InHand(k, [kick[k] EXCEPT !.pc = "created", !.on = t, !.source = t, !.conv = t])
    BY <1>k, <1>1, TurnsAreNoReplies DEF AskTurn, Kick, InHand
  <2>3. KicksOK'
    BY <2>1, <2>2, <1>1, <1>k, BecomeIsTyped, GoneIsTyped DEF AskTurn, Goto
  <2> QED
    BY <2>3, <1>1 DEF AskTurn, TInv, TypeOK, KicksOK
<1>2. ASSUME NEW b \in Batches, NEW as \in SUBSET Actions, Answer(k, b, as) PROVE TInv'
  <2>1. [kick[k] EXCEPT !.pc = "waiting", !.on = asked[b].source,
                        !.batch = b, !.acts = as] \in Kick
    BY <1>k, <1>2 DEF Kick, Calling, Awake, Running, Finished, TInv, TypeOK
  <2>2. InHand(k, [kick[k] EXCEPT !.pc = "waiting", !.on = asked[b].source,
                        !.batch = b, !.acts = as])
    BY <1>k, <1>2 DEF Answer, Kick, InHand, Kicks
  <2>3. KicksOK'
    BY <2>1, <2>2, <1>2, <1>k, BecomeIsTyped DEF Answer, Goto
  <2> QED
    BY <2>3, <1>2 DEF Answer, TInv, TypeOK, KicksOK
<1>3. ASSUME NEW b \in Batches, NEW a \in Actions, Press(k, b, a) PROVE TInv'
  <2>1. [kick[k] EXCEPT !.pc = "pressing", !.on = asked[b].source,
                        !.batch = b, !.acts = {a}, !.seen = row[b]] \in Kick
    BY <1>k, <1>3 DEF Kick, Calling, Awake, Running, Finished, TInv, TypeOK
  <2>2. InHand(k, [kick[k] EXCEPT !.pc = "pressing", !.on = asked[b].source,
                        !.batch = b, !.acts = {a}, !.seen = row[b]])
    BY <1>k, <1>3, ReflexPressesReply DEF Press, Kick, InHand
  <2>3. KicksOK'
    BY <2>1, <2>2, <1>3, <1>k, BecomeIsTyped DEF Press, Goto
  <2> QED
    BY <2>3, <1>3 DEF Press, TInv, TypeOK, KicksOK
<1>4. ASSUME Watch(k) PROVE TInv'
  <2>1. [kick[k] EXCEPT !.watch = awakes[kick[k].on]] \in Kick
    BY <1>k, <1>4 DEF Kick, Calling, Awake, Running, Finished, TInv, TypeOK
  <2>2. InHand(k, [kick[k] EXCEPT !.watch = awakes[kick[k].on]])
    BY <1>k, <1>4 DEF Watch, Kick, InHand, Kicks
  <2>3. KicksOK'
    BY <2>1, <2>2, <1>4, <1>k, BecomeIsTyped DEF Watch, Goto
  <2> QED
    BY <2>3, <1>4 DEF Watch, TInv, TypeOK, KicksOK
<1>5. ASSUME Admit(k) PROVE TInv'
  <2>1. [kick[k] EXCEPT !.pc = "created", !.watch = Nobody, !.source = kick[k].on] \in Kick
    BY <1>k, <1>5 DEF Kick, Calling, Awake, Running, Finished, TInv, TypeOK
  <2>2. InHand(k, [kick[k] EXCEPT !.pc = "created", !.watch = Nobody, !.source = kick[k].on])
    BY <1>k, <1>5 DEF Admit, Kick, InHand, Kicks
  <2>3. KicksOK'
    BY <2>1, <2>2, <1>5, <1>k, BecomeIsTyped DEF Admit, Goto
  <2> QED
    BY <2>3, <1>5 DEF Admit, TInv, TypeOK, KicksOK
<1>6. ASSUME PressCommit(k) PROVE TInv'
  <2>1. k \in Replies /\ kick[k].batch \in Batches
    BY <1>6, <1>k DEF PressCommit, InHand
  <2>2. row' \in [Batches -> Row]
    BY <1>6, <2>1, <1>k, ResolvedIsRow DEF PressCommit, TInv, TypeOK, Kick
  <2>3. InHand(k, [kick[k] EXCEPT !.pc = "waiting"])
    BY <2>1, <1>k DEF InHand, Kick
  <2>4. KicksOK'
    BY <2>3, <1>6, <1>k, GotoIsTyped, GoneIsTyped DEF PressCommit, Calling
  <2> QED
    BY <2>2, <2>4, <1>6 DEF PressCommit, TInv, TypeOK, KicksOK
<1> QED
  BY <1>1, <1>2, <1>3, <1>4, <1>5, <1>6 DEF Call

\* So do the steps of ResumeDeferred.
LEMMA ResumeKeepsTypes ==
  ASSUME TInv, NEW k \in Kicks, Resume(k)
  PROVE  TInv'
<1>k. KicksOK /\ kick[k] \in Kick /\ InHand(k, kick[k])
  BY DEF TInv, KicksOK
<1>1. ASSUME ReadRow(k) PROVE TInv'
  <2> DEFINE b == kick[k].batch
             pc == IF row[b].status \in Refused \cup {"completed", "resuming"} THEN "leaving"
                   ELSE IF row[b].status = "resolved" THEN "claiming"
                   ELSE "committing"
             state == [kick[k] EXCEPT !.seen = row[b], !.pc = pc]
  <2>1. k \in Replies /\ b \in Batches
    BY <1>1, <1>k DEF ReadRow, InHand
  <2>2. pc \in {"leaving", "claiming", "committing"}
    OBVIOUS
  <2>3. Become(k, state)
    BY <1>1 DEF ReadRow
  <2> HIDE DEF pc
  <2>4. row[b] \in Row
    BY <2>1 DEF TInv, TypeOK
  <2>5. state \in Kick
    BY <2>2, <2>4, <1>k DEF Kick, Awake, Running
  <2>6. InHand(k, state)
    BY <2>1, <2>2, <1>k DEF InHand, Kick
  <2>7. KicksOK'
    BY <2>3, <2>5, <2>6, <1>k, BecomeIsTyped
  <2> QED
    BY <2>7, <1>1 DEF ReadRow, TInv, TypeOK, KicksOK
<1>2. ASSUME CommitRow(k) PROVE TInv'
  <2>1. k \in Replies /\ kick[k].batch \in Batches
    BY <1>2, <1>k DEF CommitRow, InHand
  <2>2. row' \in [Batches -> Row]
    BY <1>2, <2>1, <1>k, ResolvedIsRow DEF CommitRow, TInv, TypeOK, Kick
  <2>3. /\ InHand(k, [kick[k] EXCEPT !.pc = "claiming"])
        /\ InHand(k, [kick[k] EXCEPT !.pc = "leaving"])
    BY <2>1, <1>k DEF InHand, Kick
  <2>4. KicksOK'
    BY <2>3, <1>2, <1>k, GotoIsTyped DEF CommitRow, Awake, Running
  <2> QED
    BY <2>2, <2>4, <1>2 DEF CommitRow, TInv, TypeOK, KicksOK
<1>3. ASSUME Claim(k) PROVE TInv'
  <2>1. k \in Replies /\ kick[k].batch \in Batches
    BY <1>3, <1>k DEF Claim, InHand
  <2>2. row' \in [Batches -> Row]
    BY <1>3, <2>1, MarkedIsRow DEF Claim, TInv, TypeOK, BatchStatus
  <2>3. [kick[k] EXCEPT !.pc = "entering", !.conv = asked[kick[k].batch].conv] \in Kick
    BY <2>1, <1>k DEF Kick, Awake, Running, TInv, TypeOK
  <2>4. InHand(k, [kick[k] EXCEPT !.pc = "entering", !.conv = asked[kick[k].batch].conv])
    BY <1>k DEF InHand, Kick
  <2>5. KicksOK'
    BY <2>3, <2>4, <1>3, <1>k, BecomeIsTyped DEF Claim
  <2> QED
    BY <2>2, <2>5, <1>3 DEF Claim, TInv, TypeOK, KicksOK
<1> QED
  BY <1>1, <1>2, <1>3 DEF Resume

\* A run's conversations are released and stay typed.
LEMMA ReleasedIsTyped ==
  ASSUME TInv, NEW k \in Kicks
  PROVE  Released(k) \in [Threads -> Kicks \cup {Nobody}]
BY DEF Released, TInv, TypeOK

\* So do the steps of React, its run included.
LEMMA RunKeepsTypes ==
  ASSUME TInv, NEW k \in Kicks, Run(k)
  PROVE  TInv'
<1>k. KicksOK /\ kick[k] \in Kick /\ InHand(k, kick[k])
  BY DEF TInv, KicksOK
<1>1. ASSUME Enter(k) PROVE TInv'
  <2>1. InHand(k, [kick[k] EXCEPT !.pc = "driving"])
    BY <1>k DEF InHand, Kick
  <2>2. KicksOK'
    BY <2>1, <1>1, <1>k, GotoIsTyped DEF Enter, Awake, Running
  <2>3. sessions' \in [Threads -> Kicks \cup {Nobody}]
    BY <1>1 DEF Enter, TInv, TypeOK
  <2>4. resumed' \in [Batches -> Nat]
    BY <1>1, <1>k DEF Enter, TInv, TypeOK, Kick
  <2> QED
    BY <2>2, <2>3, <2>4, <1>1 DEF Enter, TInv, TypeOK, KicksOK
<1>2. ASSUME EnterRefused(k) PROVE TInv'
  <2>1. InHand(k, [kick[k] EXCEPT !.pc = "leaving"])
    BY <1>k DEF InHand, Kick
  <2>2. KicksOK'
    BY <2>1, <1>2, <1>k, GotoIsTyped DEF EnterRefused, Awake
  <2> QED
    BY <2>2, <1>2 DEF EnterRefused, TInv, TypeOK, KicksOK
<1>3. ASSUME Driven(k) PROVE TInv'
  <2>1. kick[k].batch # Nothing => InHand(k, [kick[k] EXCEPT !.pc = "recording"])
    BY <1>k DEF InHand, Kick
  <2>2. InHand(k, [kick[k] EXCEPT !.pc = "finishing"])
    BY <1>k DEF InHand, Kick
  <2>3. KicksOK'
    BY <2>1, <2>2, <1>3, <1>k, GotoIsTyped DEF Driven, Awake, Running
  <2> QED
    BY <2>3, <1>3 DEF Driven, TInv, TypeOK, KicksOK
<1>4. ASSUME Record(k) PROVE TInv'
  <2>1. kick[k].batch \in Batches
    BY <1>4, <1>k DEF Record, InHand
  <2>2. row' \in [Batches -> Row]
    BY <2>1, <1>4, MarkedIsRow DEF Record, TInv, TypeOK, BatchStatus
  <2>3. [kick[k] EXCEPT !.pc = "finishing", !.batch = Nothing] \in Kick
    BY <1>k DEF Kick, Awake, Running
  <2>4. InHand(k, [kick[k] EXCEPT !.pc = "finishing", !.batch = Nothing])
    BY <1>k DEF InHand, Kick
  <2>5. KicksOK'
    BY <2>3, <2>4, <1>4, <1>k, BecomeIsTyped DEF Record
  <2> QED
    BY <2>2, <2>5, <1>4 DEF Record, TInv, TypeOK, KicksOK
<1>5. ASSUME Finish(k) PROVE TInv'
  <2>1. InHand(k, [kick[k] EXCEPT !.pc = "leaving"])
    BY <1>k DEF InHand, Kick
  <2>2. KicksOK'
    BY <2>1, <1>5, <1>k, GotoIsTyped DEF Finish, Awake
  <2> QED
    BY <2>2, <1>5, ReleasedIsTyped DEF Finish, TInv, TypeOK, KicksOK
<1>6. ASSUME NEW b \in Batches, Ask(k, b) PROVE TInv'
  <2>1. row' \in [Batches -> Row]
    BY <1>6, RowsAreTyped DEF Ask, TInv, TypeOK
  <2>2. asked' \in [Batches -> [source : Threads, conv : Threads]]
    BY <1>6, <1>k DEF Ask, TInv, TypeOK, Kick
  <2> QED
    BY <2>1, <2>2, <1>6 DEF Ask, TInv, TypeOK, KicksOK
<1>7. ASSUME NEW t \in Threads, Teleport(k, t) PROVE TInv'
  <2>1. PICK s \in {kick[k].source, t} :
          Become(k, [kick[k] EXCEPT !.pc = "entering", !.conv = t, !.source = s])
    BY <1>7 DEF Teleport
  <2>2. [kick[k] EXCEPT !.pc = "entering", !.conv = t, !.source = s] \in Kick
    BY <1>k DEF Kick, Awake, Running
  <2>3. InHand(k, [kick[k] EXCEPT !.pc = "entering", !.conv = t, !.source = s])
    BY <1>k DEF InHand, Kick
  <2>4. KicksOK'
    BY <2>1, <2>2, <2>3, <1>k, BecomeIsTyped
  <2> QED
    BY <2>4, <1>7, ReleasedIsTyped DEF Teleport, TInv, TypeOK, KicksOK
<1> QED
  BY <1>1, <1>2, <1>3, <1>4, <1>5, <1>6, <1>7 DEF Run

\* So do the steps of the task and of its done callback.
LEMMA TaskKeepsTypes ==
  ASSUME TInv, NEW k \in Kicks, Task(k)
  PROVE  TInv'
<1>k. KicksOK /\ kick[k] \in Kick /\ InHand(k, kick[k])
  BY DEF TInv, KicksOK
<1>p. \A pc \in {"over", "leaving", "draining", "entering"} :
        InHand(k, [kick[k] EXCEPT !.pc = pc])
  BY <1>k DEF InHand, Kick
<1>1. ASSUME CancelCreated(k) PROVE TInv'
  <2>1. KicksOK'
    BY <1>1, <1>p, <1>k, GotoIsTyped DEF CancelCreated, Finished
  <2> QED
    BY <2>1, <1>1 DEF CancelCreated, TInv, TypeOK, KicksOK
<1>2. ASSUME Start(k) PROVE TInv'
  <2>1. k \notin Turns => InHand(k, [kick[k] EXCEPT !.pc = "reading"])
    BY <1>2, <1>k DEF InHand, Kick, Start, Kicks
  <2>2. KicksOK'
    BY <2>1, <1>2, <1>p, <1>k, GotoIsTyped DEF Start, Awake, Running
  <2> QED
    BY <2>2, <1>2 DEF Start, TInv, TypeOK, KicksOK
<1>3. ASSUME Fail(k) PROVE TInv'
  <2>1. KicksOK'
    BY <1>3, <1>p, <1>k, GotoIsTyped DEF Fail, Awake
  <2> QED
    BY <2>1, <1>3, ReleasedIsTyped DEF Fail, TInv, TypeOK, KicksOK
<1>4. ASSUME Leave(k) PROVE TInv'
  <2>1. KicksOK'
    BY <1>4, <1>p, <1>k, GotoIsTyped DEF Leave
  <2> QED
    BY <2>1, <1>4, <1>k DEF Leave, TInv, TypeOK, KicksOK
<1>5. ASSUME Drained(k) PROVE TInv'
  <2>1. KicksOK'
    BY <1>5, <1>p, <1>k, GotoIsTyped DEF Drained, Finished
  <2> QED
    BY <2>1, <1>5 DEF Drained, TInv, TypeOK, KicksOK
<1>6. ASSUME Release(k) PROVE TInv'
  <2>1. KicksOK'
    BY <1>6, <1>k, GoneIsTyped DEF Release
  <2> QED
    BY <2>1, <1>6, <1>k DEF Release, TInv, TypeOK, KicksOK
<1> QED
  BY <1>1, <1>2, <1>3, <1>4, <1>5, <1>6 DEF Task

\* So does the death and restart of the process.
LEMMA RestartKeepsTypes ==
  ASSUME TInv, Restart
  PROVE  TInv'
<1>1. [Idle EXCEPT !.pc = "done"] \in Kick
  BY IdleIsTyped DEF Kick, Finished
<1>2. kick' \in [Kicks -> Kick]
  BY <1>1 DEF Restart, TInv, KicksOK
<1>3. ASSUME NEW k \in Kicks PROVE InHand(k, kick'[k])
  BY DEF Restart, TInv, KicksOK, InHand, Idle
<1> QED
  BY <1>2, <1>3, SMTT(30) DEF Restart, TInv, TypeOK, KicksOK

\* The initial state is well typed.
LEMMA InitIsTyped == Init => TInv
<1> SUFFICES ASSUME Init PROVE TInv
  OBVIOUS
<1>1. kick \in [Kicks -> Kick]
  BY IdleIsTyped DEF Init
<1>2. \A k \in Kicks : InHand(k, kick[k])
  BY DEF Init, InHand, Idle
<1>3. Idle.on \in Threads
  BY IdleIsTyped DEF Kick
<1> QED
  BY <1>1, <1>2, <1>3, RowsAreTyped DEF Init, TInv, TypeOK, KicksOK

\* Every step keeps every type.
LEMMA StepsKeepTypes == TInv /\ [Next]_vars => TInv'
<1>1. ASSUME TInv, UNCHANGED vars PROVE TInv'
  BY <1>1 DEF vars, TInv, TypeOK, KicksOK, InHand
<1> QED
  BY <1>1, CallKeepsTypes, ResumeKeepsTypes, RunKeepsTypes, TaskKeepsTypes,
     RestartKeepsTypes DEF Next

\* The types hold in every behaviour.
LEMMA Typed == Spec => []TInv
BY InitIsTyped, StepsKeepTypes, PTL DEF Spec

\* Every variable keeps its type, in every behaviour.
THEOREM TypeCorrect == Spec => []TypeOK
<1>1. TInv => TypeOK
  BY DEF TInv
<1> QED
  BY <1>1, Typed, PTL

-----------------------------------------------------------------------------
(* Mutual exclusion.                                                       *)

\* The locks say who holds them: a reflex that is awake is the one its thread
\* maps to, a run at the gateway the one its conversation maps to.  Two holders
\* of one lock would both be its value.
ThreadHeld == \A k \in Kicks : kick[k].pc \in Awake => awakes[kick[k].on] = k
ConversationHeld == \A k \in Kicks : kick[k].pc \in Driving => sessions[kick[k].conv] = k
Held == ThreadHeld /\ ConversationHeld

\* What a kick is after Goto, and what the others are.
LEMMA GotoMoves ==
  ASSUME KicksOK, NEW k \in Kicks, NEW pc, Goto(k, pc)
  PROVE  /\ \A j \in Kicks \ {k} : kick'[j] = kick[j]
         /\ kick'[k] = [kick[k] EXCEPT !.pc = pc]
         /\ kick'[k].pc = pc
         /\ kick'[k].on = kick[k].on
         /\ kick'[k].conv = kick[k].conv
         /\ kick'[k].source = kick[k].source
         /\ kick'[k].batch = kick[k].batch
         /\ kick'[k].acts = kick[k].acts
         /\ kick'[k].seen = kick[k].seen
<1>1. kick[k] \in Kick /\ kick \in [Kicks -> Kick]
  BY DEF KicksOK
<1>2. kick' = [kick EXCEPT ![k] = [kick[k] EXCEPT !.pc = pc]]
  BY DEF Goto, Become
<1> QED
  BY <1>1, <1>2 DEF Kick

\* What it is after Gone.
LEMMA GoneMoves ==
  ASSUME KicksOK, NEW k \in Kicks, NEW pc, Gone(k, pc)
  PROVE  /\ \A j \in Kicks \ {k} : kick'[j] = kick[j]
         /\ kick'[k].pc = pc
         /\ kick'[k].batch = Nothing
<1>1. Idle \in Kick /\ kick \in [Kicks -> Kick] /\ Idle.batch = Nothing
  BY IdleIsTyped DEF KicksOK, Idle
<1>2. kick' = [kick EXCEPT ![k] = [Idle EXCEPT !.pc = pc]]
  BY DEF Gone, Become
<1> QED
  BY <1>1, <1>2 DEF Kick

\* Steps that take and give no lock, and bring no kick to where it needs one.
LEMMA QuietStepsKeepHeld ==
  ASSUME Held, UNCHANGED <<awakes, sessions>>,
         \A j \in Kicks :
           /\ kick'[j].pc \in Awake => kick[j].pc \in Awake /\ kick'[j].on = kick[j].on
           /\ kick'[j].pc \in Driving =>
                kick[j].pc \in Driving /\ kick'[j].conv = kick[j].conv
  PROVE  Held'
BY DEF Held, ThreadHeld, ConversationHeld

\* The steps of a call of Octomate.kick: a thread is taken only when it is free.
LEMMA CallKeepsHeld ==
  ASSUME TInv, Held, NEW k \in Kicks, Call(k)
  PROVE  Held'
<1>k. KicksOK /\ kick[k] \in Kick /\ kick \in [Kicks -> Kick]
  BY DEF TInv, KicksOK
<1>1. ASSUME NEW t \in Threads, AskTurn(k, t) PROVE Held'
  <2>1. CASE awakes[t] # Nobody
    <3>1. Gone(k, "refused") /\ UNCHANGED <<awakes, sessions>>
      BY <1>1, <2>1 DEF AskTurn
    <3> QED
      BY <3>1, <1>k, GoneMoves, QuietStepsKeepHeld DEF Awake, Running, Driving
  <2>2. CASE awakes[t] = Nobody
    <3>1. awakes' = [awakes EXCEPT ![t] = k] /\ sessions' = sessions
      BY <1>1, <2>2 DEF AskTurn
    <3>2. /\ \A j \in Kicks \ {k} : kick'[j] = kick[j]
          /\ kick'[k].pc = "created" /\ kick'[k].on = t
      BY <1>1, <2>2, <1>k DEF AskTurn, Become, Kick
    <3> QED
      BY <3>1, <3>2, <2>2, <1>k, NobodyIsNoKick
         DEF Held, ThreadHeld, ConversationHeld, TInv, TypeOK, Kick, Driving
  <2> QED
    BY <2>1, <2>2
<1>2. ASSUME NEW b \in Batches, NEW as \in SUBSET Actions, Answer(k, b, as) PROVE Held'
  <2>1. (\A j \in Kicks \ {k} : kick'[j] = kick[j]) /\ kick'[k].pc = "waiting"
    BY <1>2, <1>k DEF Answer, Become, Kick
  <2> QED
    BY <2>1, <1>2, QuietStepsKeepHeld DEF Answer, Awake, Running, Driving
<1>3. ASSUME NEW b \in Batches, NEW a \in Actions, Press(k, b, a) PROVE Held'
  <2>1. (\A j \in Kicks \ {k} : kick'[j] = kick[j]) /\ kick'[k].pc = "pressing"
    BY <1>3, <1>k DEF Press, Become, Kick
  <2> QED
    BY <2>1, <1>3, QuietStepsKeepHeld DEF Press, Awake, Running, Driving
<1>4. ASSUME Watch(k) PROVE Held'
  <2>1. (\A j \in Kicks \ {k} : kick'[j] = kick[j]) /\ kick'[k].pc = "waiting"
    BY <1>4, <1>k DEF Watch, Become, Kick
  <2> QED
    BY <2>1, <1>4, QuietStepsKeepHeld DEF Watch, Awake, Running, Driving
<1>5. ASSUME Admit(k) PROVE Held'
  <2>1. /\ \A j \in Kicks \ {k} : kick'[j] = kick[j]
        /\ kick'[k].pc = "created" /\ kick'[k].on = kick[k].on
    BY <1>5, <1>k DEF Admit, Become, Kick
  <2>2. /\ awakes[kick[k].on] = Nobody
        /\ awakes' = [awakes EXCEPT ![kick[k].on] = k]
        /\ sessions' = sessions
    BY <1>5 DEF Admit
  <2> QED
    BY <2>1, <2>2, <1>k, NobodyIsNoKick
       DEF Held, ThreadHeld, ConversationHeld, TInv, TypeOK, Kick, Driving
<1>6. ASSUME PressCommit(k) PROVE Held'
  <2>1. (\A j \in Kicks \ {k} : kick'[j] = kick[j]) /\ kick'[k].pc \in {"waiting", "done"}
    BY <1>6, <1>k, GotoMoves, GoneMoves DEF PressCommit
  <2> QED
    BY <2>1, <1>6, QuietStepsKeepHeld DEF PressCommit, Awake, Running, Driving
<1> QED
  BY <1>1, <1>2, <1>3, <1>4, <1>5, <1>6 DEF Call

\* ResumeDeferred holds its thread and does not touch the gateway.
LEMMA ResumeKeepsHeld ==
  ASSUME TInv, Held, NEW k \in Kicks, Resume(k)
  PROVE  Held'
<1>k. KicksOK /\ kick[k] \in Kick /\ kick \in [Kicks -> Kick]
  BY DEF TInv, KicksOK
<1>1. ASSUME ReadRow(k) PROVE Held'
  <2>1. /\ \A j \in Kicks \ {k} : kick'[j] = kick[j]
        /\ kick'[k].pc \in {"leaving", "claiming", "committing"}
        /\ kick'[k].on = kick[k].on
    BY <1>1, <1>k DEF ReadRow, Become, Kick
  <2> QED
    BY <2>1, <1>1, QuietStepsKeepHeld DEF ReadRow, Awake, Running, Driving
<1>2. ASSUME CommitRow(k) PROVE Held'
  <2>1. /\ \A j \in Kicks \ {k} : kick'[j] = kick[j]
        /\ kick'[k].pc \in {"leaving", "claiming"}
        /\ kick'[k].on = kick[k].on
    BY <1>2, <1>k, GotoMoves DEF CommitRow
  <2> QED
    BY <2>1, <1>2, QuietStepsKeepHeld DEF CommitRow, Awake, Running, Driving
<1>3. ASSUME Claim(k) PROVE Held'
  <2>1. /\ \A j \in Kicks \ {k} : kick'[j] = kick[j]
        /\ kick'[k].pc = "entering" /\ kick'[k].on = kick[k].on
    BY <1>3, <1>k DEF Claim, Become, Kick
  <2> QED
    BY <2>1, <1>3, QuietStepsKeepHeld DEF Claim, Awake, Running, Driving
<1> QED
  BY <1>1, <1>2, <1>3 DEF Resume

\* Only the conversations of the kick that releases them are let go.
LEMMA ReleasingKeepsOthers ==
  ASSUME TInv, Held, NEW k \in Kicks, sessions' = Released(k), awakes' = awakes,
         \A j \in Kicks \ {k} : kick'[j] = kick[j],
         kick[k].pc \in Awake, kick'[k].pc \in Awake \ Driving,
         kick'[k].on = kick[k].on
  PROVE  Held'
<1>1. \A j \in Kicks : kick[j].conv \in Threads
  BY DEF TInv, TypeOK, Kick
<1> QED
  BY <1>1 DEF Held, ThreadHeld, ConversationHeld, Released

\* A conversation is entered only when it is free, and left by the run in it.
LEMMA RunKeepsHeld ==
  ASSUME TInv, Held, NEW k \in Kicks, Run(k)
  PROVE  Held'
<1>k. KicksOK /\ kick[k] \in Kick /\ kick \in [Kicks -> Kick]
  BY DEF TInv, KicksOK
<1>1. ASSUME Enter(k) PROVE Held'
  <2>1. /\ \A j \in Kicks \ {k} : kick'[j] = kick[j]
        /\ kick'[k].pc = "driving" /\ kick'[k].on = kick[k].on
        /\ kick'[k].conv = kick[k].conv
    BY <1>1, <1>k, GotoMoves DEF Enter
  <2>2. /\ sessions[kick[k].conv] = Nobody
        /\ sessions' = [sessions EXCEPT ![kick[k].conv] = k]
        /\ awakes' = awakes
        /\ kick[k].pc = "entering"
    BY <1>1 DEF Enter
  <2>3. ThreadHeld'
    BY <2>1, <2>2 DEF Held, ThreadHeld, Awake, Running
  <2>4. ConversationHeld'
    BY <2>1, <2>2, <1>k, NobodyIsNoKick DEF Held, ConversationHeld, TInv, TypeOK, Kick
  <2> QED
    BY <2>3, <2>4 DEF Held
<1>2. ASSUME EnterRefused(k) PROVE Held'
  <2>1. /\ \A j \in Kicks \ {k} : kick'[j] = kick[j]
        /\ kick'[k].pc = "leaving" /\ kick'[k].on = kick[k].on
    BY <1>2, <1>k, GotoMoves DEF EnterRefused
  <2> QED
    BY <2>1, <1>2, QuietStepsKeepHeld DEF EnterRefused, Awake, Running, Driving
<1>3. ASSUME Driven(k) PROVE Held'
  <2>1. /\ \A j \in Kicks \ {k} : kick'[j] = kick[j]
        /\ kick'[k].pc \in {"finishing", "recording"}
        /\ kick'[k].on = kick[k].on /\ kick'[k].conv = kick[k].conv
    BY <1>3, <1>k, GotoMoves DEF Driven
  <2> QED
    BY <2>1, <1>3, QuietStepsKeepHeld DEF Driven, Awake, Running, Driving
<1>4. ASSUME Record(k) PROVE Held'
  <2>1. /\ \A j \in Kicks \ {k} : kick'[j] = kick[j]
        /\ kick'[k].pc = "finishing"
        /\ kick'[k].on = kick[k].on /\ kick'[k].conv = kick[k].conv
    BY <1>4, <1>k DEF Record, Become, Kick
  <2> QED
    BY <2>1, <1>4, QuietStepsKeepHeld DEF Record, Awake, Running, Driving
<1>5. ASSUME Finish(k) PROVE Held'
  <2>1. /\ \A j \in Kicks \ {k} : kick'[j] = kick[j]
        /\ kick'[k].pc = "leaving" /\ kick'[k].on = kick[k].on
    BY <1>5, <1>k, GotoMoves DEF Finish
  <2> QED
    BY <2>1, <1>5, ReleasingKeepsOthers DEF Finish, Awake, Running, Driving
<1>6. ASSUME NEW b \in Batches, Ask(k, b) PROVE Held'
  BY <1>6, QuietStepsKeepHeld DEF Ask
<1>7. ASSUME NEW t \in Threads, Teleport(k, t) PROVE Held'
  <2>1. PICK s \in {kick[k].source, t} :
          Become(k, [kick[k] EXCEPT !.pc = "entering", !.conv = t, !.source = s])
    BY <1>7 DEF Teleport
  <2>2. /\ \A j \in Kicks \ {k} : kick'[j] = kick[j]
        /\ kick'[k].pc = "entering" /\ kick'[k].on = kick[k].on
    BY <2>1, <1>k DEF Become, Kick
  <2> QED
    BY <2>2, <1>7, ReleasingKeepsOthers DEF Teleport, Awake, Running, Driving
<1> QED
  BY <1>1, <1>2, <1>3, <1>4, <1>5, <1>6, <1>7 DEF Run

\* A task lets its own thread go: reflex()'s `del` while it still holds it, the
\* done callback only when it does.
LEMMA TaskKeepsHeld ==
  ASSUME TInv, Held, NEW k \in Kicks, Task(k)
  PROVE  Held'
<1>k. KicksOK /\ kick[k] \in Kick /\ kick \in [Kicks -> Kick]
  BY DEF TInv, KicksOK
<1>1. ASSUME CancelCreated(k) PROVE Held'
  <2>1. (\A j \in Kicks \ {k} : kick'[j] = kick[j]) /\ kick'[k].pc = "over"
    BY <1>1, <1>k, GotoMoves DEF CancelCreated
  <2> QED
    BY <2>1, <1>1, QuietStepsKeepHeld DEF CancelCreated, Awake, Running, Driving
<1>2. ASSUME Start(k) PROVE Held'
  <2>1. /\ \A j \in Kicks \ {k} : kick'[j] = kick[j]
        /\ kick'[k].pc \in {"entering", "reading"} /\ kick'[k].on = kick[k].on
    BY <1>2, <1>k, GotoMoves DEF Start
  <2> QED
    BY <2>1, <1>2, QuietStepsKeepHeld DEF Start, Awake, Running, Driving
<1>3. ASSUME Fail(k) PROVE Held'
  <2>1. /\ \A j \in Kicks \ {k} : kick'[j] = kick[j]
        /\ kick'[k].pc = "leaving" /\ kick'[k].on = kick[k].on
    BY <1>3, <1>k, GotoMoves DEF Fail
  <2> QED
    BY <2>1, <1>3, ReleasingKeepsOthers DEF Fail, Awake, Running, Driving
<1>4. ASSUME Leave(k) PROVE Held'
  <2>1. (\A j \in Kicks \ {k} : kick'[j] = kick[j]) /\ kick'[k].pc = "draining"
    BY <1>4, <1>k, GotoMoves DEF Leave
  <2>2. awakes[kick[k].on] = k
    BY <1>4 DEF Leave, Held, ThreadHeld, Awake
  <2>3. awakes' = [awakes EXCEPT ![kick[k].on] = Nobody] /\ sessions' = sessions
    BY <1>4 DEF Leave
  <2>4. ThreadHeld'
    <3>1. \A j \in Kicks \ {k} : kick[j].pc \in Awake => kick[j].on # kick[k].on
      BY <2>2 DEF Held, ThreadHeld
    <3> QED
      BY <3>1, <2>1, <2>3 DEF Held, ThreadHeld, TInv, TypeOK, Kick, Awake, Running
  <2>5. ConversationHeld'
    BY <2>1, <2>3 DEF Held, ConversationHeld, Driving
  <2> QED
    BY <2>4, <2>5 DEF Held
<1>5. ASSUME Drained(k) PROVE Held'
  <2>1. (\A j \in Kicks \ {k} : kick'[j] = kick[j]) /\ kick'[k].pc = "over"
    BY <1>5, <1>k, GotoMoves DEF Drained
  <2> QED
    BY <2>1, <1>5, QuietStepsKeepHeld DEF Drained, Awake, Running, Driving
<1>6. ASSUME Release(k) PROVE Held'
  <2>1. (\A j \in Kicks \ {k} : kick'[j] = kick[j]) /\ kick'[k].pc = "done"
    BY <1>6, <1>k, GoneMoves DEF Release
  <2>2. /\ awakes' = IF awakes[kick[k].on] = k
                       THEN [awakes EXCEPT ![kick[k].on] = Nobody] ELSE awakes
        /\ sessions' = sessions
    BY <1>6 DEF Release
  <2> QED
    BY <2>1, <2>2 DEF Held, ThreadHeld, ConversationHeld, TInv, TypeOK, Kick,
       Awake, Running, Driving
<1> QED
  BY <1>1, <1>2, <1>3, <1>4, <1>5, <1>6 DEF Task

\* Nothing holds a lock in a process that has just started.
LEMMA RestartKeepsHeld ==
  ASSUME TInv, Held, Restart
  PROVE  Held'
<1>1. \A k \in Kicks : kick'[k].pc \in {"idle", "refused", "done"}
  BY IdleIsTyped DEF Restart, Kick
<1> QED
  BY <1>1 DEF Held, ThreadHeld, ConversationHeld, Awake, Running, Driving

\* The locks say who holds them, in every behaviour.
LEMMA LocksAreHeld == Spec => []Held
<1>1. Init => Held
  <2>1. Init => \A k \in Kicks : kick[k].pc = "idle"
    BY DEF Init, Idle
  <2> QED
    BY <2>1 DEF Held, ThreadHeld, ConversationHeld, Awake, Running, Driving
<1>2. TInv /\ Held /\ [Next]_vars => Held'
  <2>1. ASSUME Held, UNCHANGED vars PROVE Held'
    BY <2>1 DEF vars, Held, ThreadHeld, ConversationHeld
  <2> QED
    BY <2>1, CallKeepsHeld, ResumeKeepsHeld, RunKeepsHeld, TaskKeepsHeld,
       RestartKeepsHeld DEF Next
<1> QED
  BY <1>1, <1>2, Typed, PTL DEF Spec

\* A thread holds one reflex at a time, whatever its kicks and cancellations.
THEOREM OneReflex == Spec => []OneReflexPerThread
<1>1. Held => OneReflexPerThread
  BY DEF Held, ThreadHeld, OneReflexPerThread
<1> QED
  BY <1>1, LocksAreHeld, PTL

\* A conversation is driven by one run at a time, teleports included.
THEOREM OneRun == Spec => []OneRunPerConversation
<1>1. Held => OneRunPerConversation
  BY DEF Held, ConversationHeld, OneRunPerConversation
<1> QED
  BY <1>1, LocksAreHeld, PTL

-----------------------------------------------------------------------------
(* Resumption, where no Discord button settles rows (Presses = {}).        *)

\* A row's status and the runs that were handed its results move together.
RowShape(b) ==
  /\ row[b].status \in {"absent", "pending", "resolved", "resuming", "completed"}
  /\ row[b].status \in {"absent", "pending", "resolved"} => resumed[b] = 0
  /\ row[b].status = "resuming" => resumed[b] \in {0, 1}
  /\ row[b].status = "completed" => resumed[b] = 1
  /\ row[b].status \in {"resolved", "resuming", "completed"} => Completed(row[b])
  /\ row[b].status = "pending" /\ Actions # {} => ~Completed(row[b])

\* A reflex that answers a batch is on the thread the batch was asked on, so the
\* thread's lock serializes what every reflex reads and writes of the row.
KickShape(k) ==
  LET b == kick[k].batch  pc == kick[k].pc IN
  /\ pc # "pressing"
  /\ k \in Turns => b = Nothing
  /\ b # Nothing /\ pc \in Awake \cup {"waiting"} =>
       kick[k].on = asked[b].source /\ row[b].status # "absent"
  /\ pc = "committing" => row[b].status = "pending" /\ kick[k].seen = row[b]
  /\ pc = "claiming" => row[b].status = "resolved"
  /\ pc = "entering" /\ b # Nothing => row[b].status = "resuming" /\ resumed[b] = 0
  /\ pc \in {"driving", "recording"} /\ b # Nothing =>
       row[b].status = "resuming" /\ resumed[b] = 1
  /\ pc = "finishing" => b = Nothing

RowsMatch == (\A b \in Batches : RowShape(b)) /\ (\A k \in Kicks : KickShape(k))
LInv == TInv /\ Held /\ RowsMatch

\* One reflex at a time works on a batch.
LEMMA AloneOnTheBatch ==
  ASSUME LInv, NEW j \in Kicks, NEW k \in Kicks,
         kick[j].pc \in Awake, kick[k].pc \in Awake,
         kick[j].batch = kick[k].batch, kick[k].batch # Nothing
  PROVE  j = k
BY DEF LInv, Held, ThreadHeld, RowsMatch, KickShape

\* Steps of one kick that leave the rows alone.
LEMMA RowsStay ==
  ASSUME LInv, NEW k \in Kicks, \A j \in Kicks \ {k} : kick'[j] = kick[j],
         UNCHANGED <<row, asked, resumed>>, KickShape(k)'
  PROVE  RowsMatch'
<1>1. ASSUME NEW b \in Batches PROVE RowShape(b)'
  BY DEF LInv, RowsMatch, RowShape, Completed
<1>2. ASSUME NEW j \in Kicks, j # k PROVE KickShape(j)'
  BY <1>2 DEF LInv, RowsMatch, KickShape
<1> QED
  BY <1>1, <1>2 DEF RowsMatch

\* Steps of a reflex that write the row of its batch, or hand it over.
LEMMA RowMoves ==
  ASSUME LInv, NEW k \in Kicks, \A j \in Kicks \ {k} : kick'[j] = kick[j],
         kick[k].pc \in Awake, NEW b \in Batches, b = kick[k].batch, asked' = asked,
         \A c \in Batches \ {b} : row'[c] = row[c] /\ resumed'[c] = resumed[c],
         row'[b].status # "absent",
         RowShape(b)', KickShape(k)'
  PROVE  RowsMatch'
<1>1. ASSUME NEW c \in Batches, c # b PROVE RowShape(c)'
  BY <1>1 DEF LInv, RowsMatch, RowShape, Completed
<1>2. ASSUME NEW j \in Kicks, j # k PROVE KickShape(j)'
  <2>1. kick'[j] = kick[j] /\ KickShape(j) /\ InHand(j, kick[j]) /\ kick[j] \in Kick
    BY <1>2 DEF LInv, RowsMatch, TInv, KicksOK
  <2>2. CASE kick[j].batch # b
    BY <2>1, <2>2 DEF KickShape, InHand, Kick
  <2>3. CASE kick[j].batch = b
    <3>1. kick[j].pc \notin Awake
      BY <1>2, <2>3, AloneOnTheBatch, NothingIsNoBatch
    <3> QED
      BY <2>1, <2>3, <3>1 DEF KickShape, Awake, Running
  <2> QED
    BY <2>2, <2>3
<1> QED
  BY <1>1, <1>2 DEF RowsMatch

\* A call of Octomate.kick touches no row.
LEMMA CallKeepsRows ==
  ASSUME Presses = {}, LInv, NEW k \in Kicks, Call(k)
  PROVE  RowsMatch'
<1>k. KicksOK /\ kick[k] \in Kick /\ kick \in [Kicks -> Kick] /\ KickShape(k)
      /\ InHand(k, kick[k])
  BY DEF LInv, TInv, KicksOK, RowsMatch
<1>1. ASSUME NEW t \in Threads, AskTurn(k, t) PROVE RowsMatch'
  <2>1. CASE awakes[t] # Nobody
    <3>1. /\ \A j \in Kicks \ {k} : kick'[j] = kick[j]
          /\ kick'[k].pc = "refused" /\ kick'[k].batch = Nothing
      BY <1>1, <2>1, <1>k, GoneMoves DEF AskTurn
    <3>2. KickShape(k)'
      BY <3>1 DEF KickShape
    <3> QED
      BY <3>1, <3>2, <1>1, RowsStay DEF AskTurn
  <2>2. CASE awakes[t] = Nobody
    <3>1. /\ \A j \in Kicks \ {k} : kick'[j] = kick[j]
          /\ kick'[k].pc = "created" /\ kick'[k].batch = kick[k].batch
      BY <1>1, <2>2, <1>k, ZenonT(60) DEF AskTurn, Become, Kick
    <3>2. KickShape(k)'
      BY <3>1, <1>1, <1>k DEF KickShape, AskTurn
    <3> QED
      BY <3>1, <3>2, <1>1, RowsStay DEF AskTurn
  <2> QED
    BY <2>1, <2>2
<1>2. ASSUME NEW b \in Batches, NEW as \in SUBSET Actions, Answer(k, b, as) PROVE RowsMatch'
  <2>1. /\ \A j \in Kicks \ {k} : kick'[j] = kick[j]
        /\ kick'[k].pc = "waiting" /\ kick'[k].batch = b
        /\ kick'[k].on = asked[b].source
    BY <1>2, <1>k DEF Answer, Become, Kick
  <2>2. KickShape(k)'
    BY <2>1, <1>2, TurnsAreNoReplies DEF KickShape, Answer
  <2> QED
    BY <2>1, <2>2, <1>2, RowsStay DEF Answer
<1>3. ASSUME NEW b \in Batches, NEW a \in Actions, Press(k, b, a) PROVE RowsMatch'
  BY <1>3 DEF Press
<1>4. ASSUME Watch(k) PROVE RowsMatch'
  <2>1. /\ \A j \in Kicks \ {k} : kick'[j] = kick[j]
        /\ kick'[k].pc = "waiting" /\ kick'[k].batch = kick[k].batch
        /\ kick'[k].on = kick[k].on
    BY <1>4, <1>k DEF Watch, Become, Kick
  <2>2. KickShape(k)'
    BY <2>1, <1>4, <1>k DEF KickShape, Watch
  <2> QED
    BY <2>1, <2>2, <1>4, RowsStay DEF Watch
<1>5. ASSUME Admit(k) PROVE RowsMatch'
  <2>1. /\ \A j \in Kicks \ {k} : kick'[j] = kick[j]
        /\ kick'[k].pc = "created" /\ kick'[k].batch = kick[k].batch
        /\ kick'[k].on = kick[k].on
    BY <1>5, <1>k DEF Admit, Become, Kick
  <2>2. KickShape(k)'
    BY <2>1, <1>5, <1>k DEF KickShape, Admit
  <2> QED
    BY <2>1, <2>2, <1>5, RowsStay DEF Admit
<1>6. ASSUME PressCommit(k) PROVE RowsMatch'
  BY <1>6, <1>k DEF PressCommit, KickShape
<1> QED
  BY <1>1, <1>2, <1>3, <1>4, <1>5, <1>6 DEF Call

\* ResumeDeferred commits what it read: the thread is its own in between.
LEMMA ResumeKeepsRows ==
  ASSUME LInv, NEW k \in Kicks, Resume(k)
  PROVE  RowsMatch'
<1>k. KicksOK /\ kick[k] \in Kick /\ kick \in [Kicks -> Kick] /\ KickShape(k)
      /\ InHand(k, kick[k])
  BY DEF LInv, TInv, KicksOK, RowsMatch
<1>1. ASSUME ReadRow(k) PROVE RowsMatch'
  <2>1. k \in Replies /\ kick[k].batch \in Batches /\ kick[k].pc = "reading"
    BY <1>1, <1>k DEF ReadRow, InHand
  <2>2. row[kick[k].batch].status \in {"pending", "resolved", "resuming", "completed"}
    BY <2>1, <1>k, NothingIsNoBatch DEF KickShape, LInv, RowsMatch, RowShape, Awake, Running
  <2>3. /\ \A j \in Kicks \ {k} : kick'[j] = kick[j]
        /\ kick'[k].batch = kick[k].batch /\ kick'[k].on = kick[k].on
        /\ kick'[k].seen = row[kick[k].batch]
        /\ kick'[k].pc \in {"leaving", "claiming", "committing"}
        /\ kick'[k].pc = "claiming" => row[kick[k].batch].status = "resolved"
        /\ kick'[k].pc = "committing" => row[kick[k].batch].status = "pending"
    BY <1>1, <2>2, <1>k DEF ReadRow, Become, Kick, Refused
  <2>4. UNCHANGED <<row, asked, resumed>>
    BY <1>1 DEF ReadRow
  <2>5. KickShape(k)'
    BY <2>1, <2>3, <2>4, <1>k DEF KickShape, Awake, Running
  <2> QED
    BY <2>3, <2>4, <2>5, RowsStay
<1>2. ASSUME CommitRow(k) PROVE RowsMatch'
  <2>1. k \in Replies /\ kick[k].pc = "committing" /\ kick[k].batch \in Batches
    BY <1>2, <1>k DEF CommitRow, InHand
  <2>2. PICK b \in Batches : b = kick[k].batch
    BY <2>1
  <2>3. PICK new \in Row : new = Resolved(row[b], row[b], k, kick[k].acts)
    BY <2>1, ResolvedIsRow DEF LInv, TInv, TypeOK
  <2>4. row[b] \in Row /\ kick[k].seen = row[b] /\ row[b].status = "pending" /\ resumed[b] = 0
    BY <2>1, <2>2, <1>k DEF KickShape, LInv, RowsMatch, RowShape, TInv, TypeOK
  <2>5. /\ row' = [row EXCEPT ![b] = new]
        /\ Goto(k, IF Completed(new) THEN "claiming" ELSE "leaving")
        /\ UNCHANGED <<asked, resumed>>
    BY <1>2, <2>2, <2>3, <2>4 DEF CommitRow
  <2>6. new.status = IF Completed(new) THEN "resolved" ELSE "pending"
    BY <2>1, <2>3, <2>4, ResolvedWhenWhole
  <2>7. row'[b] = new /\ \A c \in Batches \ {b} : row'[c] = row[c]
    BY <2>5 DEF LInv, TInv, TypeOK
  <2>8. RowShape(b)'
    BY <2>4, <2>5, <2>6, <2>7 DEF RowShape, Completed
  <2>9. KickShape(k)'
    <3>1. /\ kick'[k].pc = IF Completed(new) THEN "claiming" ELSE "leaving"
          /\ kick'[k].batch = b /\ kick'[k].on = kick[k].on
      BY <2>2, <2>5, <1>k, GotoMoves
    <3>2. kick[k].on = asked[b].source /\ b # Nothing /\ k \notin Turns
      BY <2>1, <2>2, <1>k, NothingIsNoBatch, TurnsAreNoReplies DEF KickShape, Awake, Running
    <3> QED
      BY <3>1, <3>2, <2>5, <2>6, <2>7 DEF KickShape
  <2> QED
    BY <2>1, <2>2, <2>5, <2>6, <2>7, <2>8, <2>9, <1>k, GotoMoves, RowMoves
       DEF Awake, Running
<1>3. ASSUME Claim(k) PROVE RowsMatch'
  <2>1. k \in Replies /\ kick[k].pc = "claiming" /\ kick[k].batch \in Batches
    BY <1>3, <1>k DEF Claim, InHand
  <2>2. PICK b \in Batches : b = kick[k].batch
    BY <2>1
  <2>3. /\ row[b] \in Row /\ row[b].status = "resolved" /\ resumed[b] = 0
        /\ Completed(row[b])
    BY <2>1, <2>2, <1>k DEF KickShape, LInv, RowsMatch, RowShape, TInv, TypeOK
  <2>4. /\ row'[b] = Marked(row[b], row[b], "resuming")
        /\ \A c \in Batches \ {b} : row'[c] = row[c]
        /\ UNCHANGED <<asked, resumed>>
    BY <1>3, <2>2 DEF Claim, LInv, TInv, TypeOK
  <2>5. row'[b].status = "resuming" /\ row'[b].acts = row[b].acts
    BY <2>3, <2>4 DEF Marked, Row
  <2>6. RowShape(b)'
    BY <2>3, <2>4, <2>5 DEF RowShape, Completed
  <2>7. /\ \A j \in Kicks \ {k} : kick'[j] = kick[j]
        /\ kick'[k].pc = "entering" /\ kick'[k].batch = b /\ kick'[k].on = kick[k].on
    BY <1>3, <2>2, <1>k DEF Claim, Become, Kick
  <2>8. KickShape(k)'
    <3>1. kick[k].on = asked[b].source /\ b # Nothing /\ k \notin Turns
      BY <2>1, <2>2, <1>k, NothingIsNoBatch, TurnsAreNoReplies DEF KickShape, Awake, Running
    <3> QED
      BY <3>1, <2>3, <2>4, <2>5, <2>7 DEF KickShape
  <2> QED
    BY <2>1, <2>2, <2>4, <2>5, <2>6, <2>7, <2>8, RowMoves DEF Awake, Running
<1> QED
  BY <1>1, <1>2, <1>3 DEF Resume

\* A new row is nobody's yet.
LEMMA AskKeepsRows ==
  ASSUME LInv, NEW k \in Kicks, NEW b \in Batches, Ask(k, b)
  PROVE  RowsMatch'
<1>1. /\ row[b].status = "absent" /\ row'[b] = NewRow
      /\ \A c \in Batches \ {b} : row'[c] = row[c] /\ asked'[c] = asked[c]
      /\ UNCHANGED <<kick, resumed>>
  BY DEF Ask, LInv, TInv, TypeOK
<1>2. ASSUME NEW c \in Batches PROVE RowShape(c)'
  <2>1. CASE c = b
    BY <2>1, <1>1 DEF LInv, RowsMatch, RowShape, NewRow, Completed
  <2>2. CASE c # b
    BY <2>2, <1>1 DEF LInv, RowsMatch, RowShape, Completed
  <2> QED
    BY <2>1, <2>2
<1>3. ASSUME NEW j \in Kicks PROVE KickShape(j)'
  <2>1. kick'[j] = kick[j] /\ KickShape(j) /\ InHand(j, kick[j]) /\ kick[j] \in Kick
    BY <1>1 DEF LInv, RowsMatch, TInv, KicksOK
  <2>2. CASE kick[j].batch # b
    BY <2>1, <2>2, <1>1 DEF KickShape, InHand, Kick
  <2>3. CASE kick[j].batch = b
    BY <2>1, <2>3, <1>1, NothingIsNoBatch DEF KickShape, Awake, Running
  <2> QED
    BY <2>2, <2>3
<1> QED
  BY <1>2, <1>3 DEF RowsMatch

\* A run is handed the results of a batch it claimed, and records the end.
LEMMA RunKeepsRows ==
  ASSUME LInv, NEW k \in Kicks, Run(k)
  PROVE  RowsMatch'
<1>k. KicksOK /\ kick[k] \in Kick /\ kick \in [Kicks -> Kick] /\ KickShape(k)
      /\ InHand(k, kick[k])
  BY DEF LInv, TInv, KicksOK, RowsMatch
<1>1. ASSUME Enter(k) PROVE RowsMatch'
  <2>0. /\ \A j \in Kicks \ {k} : kick'[j] = kick[j]
        /\ kick'[k].pc = "driving" /\ kick'[k].on = kick[k].on
        /\ kick'[k].batch = kick[k].batch
    BY <1>1, <1>k, GotoMoves DEF Enter
  <2>1. CASE kick[k].batch = Nothing
    <3>1. UNCHANGED <<row, asked, resumed>>
      BY <1>1, <2>1 DEF Enter
    <3>2. KickShape(k)'
      BY <2>0, <2>1 DEF KickShape
    <3> QED
      BY <2>0, <3>1, <3>2, RowsStay
  <2>2. CASE kick[k].batch # Nothing
    <3>1. PICK b \in Batches : b = kick[k].batch
      BY <2>2, <1>k DEF Kick
    <3>2. /\ row[b].status = "resuming" /\ resumed[b] = 0
          /\ kick[k].on = asked[b].source /\ k \notin Turns
      BY <1>1, <2>2, <3>1, <1>k DEF Enter, KickShape, Awake, Running
    <3>3. /\ UNCHANGED <<row, asked>>
          /\ resumed'[b] = 1 /\ \A c \in Batches \ {b} : resumed'[c] = resumed[c]
      BY <1>1, <2>2, <3>1, <3>2 DEF Enter, LInv, TInv, TypeOK
    <3>4. RowShape(b)'
      BY <3>2, <3>3 DEF RowShape, Completed, LInv, RowsMatch
    <3>5. KickShape(k)'
      BY <2>0, <3>1, <3>2, <3>3 DEF KickShape
    <3> QED
      BY <1>1, <2>0, <3>1, <3>2, <3>3, <3>4, <3>5, RowMoves DEF Enter, Awake, Running
  <2> QED
    BY <2>1, <2>2
<1>2. ASSUME EnterRefused(k) PROVE RowsMatch'
  <2>1. /\ \A j \in Kicks \ {k} : kick'[j] = kick[j]
        /\ kick'[k].pc = "leaving" /\ kick'[k].on = kick[k].on
        /\ kick'[k].batch = kick[k].batch
    BY <1>2, <1>k, GotoMoves DEF EnterRefused
  <2>2. KickShape(k)'
    BY <2>1, <1>2, <1>k DEF KickShape, EnterRefused, Awake, Running
  <2> QED
    BY <2>1, <2>2, <1>2, RowsStay DEF EnterRefused
<1>3. ASSUME Driven(k) PROVE RowsMatch'
  <2>1. /\ \A j \in Kicks \ {k} : kick'[j] = kick[j]
        /\ kick'[k].pc = (IF kick[k].batch = Nothing THEN "finishing" ELSE "recording")
        /\ kick'[k].on = kick[k].on /\ kick'[k].batch = kick[k].batch
    BY <1>3, <1>k, GotoMoves DEF Driven
  <2>2. KickShape(k)'
    BY <2>1, <1>3, <1>k DEF KickShape, Driven, Awake, Running
  <2> QED
    BY <2>1, <2>2, <1>3, RowsStay DEF Driven
<1>4. ASSUME Record(k) PROVE RowsMatch'
  <2>1. kick[k].pc = "recording" /\ kick[k].batch \in Batches
    BY <1>4, <1>k DEF Record, InHand
  <2>2. PICK b \in Batches : b = kick[k].batch
    BY <2>1
  <2>3. row[b] \in Row /\ resumed[b] = 1 /\ Completed(row[b])
    BY <2>1, <2>2, <1>k, NothingIsNoBatch
       DEF KickShape, LInv, RowsMatch, RowShape, TInv, TypeOK
  <2>4. /\ row'[b] = Marked(row[b], row[b], "completed")
        /\ \A c \in Batches \ {b} : row'[c] = row[c]
        /\ UNCHANGED <<asked, resumed>>
    BY <1>4, <2>2 DEF Record, LInv, TInv, TypeOK
  <2>5. row'[b].status = "completed" /\ \A a \in Actions : row'[b].acts[a] = row[b].acts[a]
    BY <2>3, <2>4 DEF Marked, Row, Completed
  <2>6. RowShape(b)'
    BY <2>3, <2>4, <2>5 DEF RowShape, Completed
  <2>7. /\ \A j \in Kicks \ {k} : kick'[j] = kick[j]
        /\ kick'[k].pc = "finishing" /\ kick'[k].batch = Nothing
    BY <1>4, <1>k DEF Record, Become, Kick
  <2>8. KickShape(k)'
    BY <2>7 DEF KickShape
  <2> QED
    BY <2>1, <2>2, <2>4, <2>5, <2>6, <2>7, <2>8, RowMoves DEF Awake, Running
<1>5. ASSUME Finish(k) PROVE RowsMatch'
  <2>1. /\ \A j \in Kicks \ {k} : kick'[j] = kick[j]
        /\ kick'[k].pc = "leaving" /\ kick'[k].batch = kick[k].batch
    BY <1>5, <1>k, GotoMoves DEF Finish
  <2>2. KickShape(k)'
    BY <2>1, <1>5, <1>k DEF KickShape, Finish
  <2> QED
    BY <2>1, <2>2, <1>5, RowsStay DEF Finish
<1>6. ASSUME NEW b \in Batches, Ask(k, b) PROVE RowsMatch'
  BY <1>6, AskKeepsRows
<1>7. ASSUME NEW t \in Threads, Teleport(k, t) PROVE RowsMatch'
  <2>1. PICK s \in {kick[k].source, t} :
          Become(k, [kick[k] EXCEPT !.pc = "entering", !.conv = t, !.source = s])
    BY <1>7 DEF Teleport
  <2>2. /\ \A j \in Kicks \ {k} : kick'[j] = kick[j]
        /\ kick'[k].pc = "entering" /\ kick'[k].batch = kick[k].batch
    BY <2>1, <1>k DEF Become, Kick
  <2>3. KickShape(k)'
    BY <2>2, <1>7, <1>k DEF KickShape, Teleport
  <2> QED
    BY <2>2, <2>3, <1>7, RowsStay DEF Teleport
<1> QED
  BY <1>1, <1>2, <1>3, <1>4, <1>5, <1>6, <1>7 DEF Run

\* The task's own steps touch no row.
LEMMA TaskKeepsRows ==
  ASSUME LInv, NEW k \in Kicks, Task(k)
  PROVE  RowsMatch'
<1>k. KicksOK /\ kick[k] \in Kick /\ KickShape(k) /\ InHand(k, kick[k])
  BY DEF LInv, TInv, KicksOK, RowsMatch
<1>1. UNCHANGED <<row, asked, resumed>>
  BY DEF Task, CancelCreated, Start, Fail, Leave, Drained, Release
<1>2. CASE Release(k)
  <2>1. /\ \A j \in Kicks \ {k} : kick'[j] = kick[j]
        /\ kick'[k].pc = "done" /\ kick'[k].batch = Nothing
    BY <1>2, <1>k, GoneMoves DEF Release
  <2>2. KickShape(k)'
    BY <2>1 DEF KickShape
  <2> QED
    BY <2>1, <2>2, <1>1, RowsStay
<1>3. CASE Start(k)
  <2>1. /\ \A j \in Kicks \ {k} : kick'[j] = kick[j]
        /\ kick'[k].pc = (IF k \in Turns THEN "entering" ELSE "reading")
        /\ kick'[k].on = kick[k].on /\ kick'[k].batch = kick[k].batch
    BY <1>3, <1>k, GotoMoves DEF Start
  <2>2. KickShape(k)'
    BY <2>1, <1>1, <1>3, <1>k DEF KickShape, Start, Awake, Running
  <2> QED
    BY <2>1, <2>2, <1>1, RowsStay
<1>4. CASE CancelCreated(k) \/ Fail(k) \/ Leave(k) \/ Drained(k)
  <2>1. /\ \A j \in Kicks \ {k} : kick'[j] = kick[j]
        /\ kick'[k].pc \in {"over", "leaving", "draining"}
        /\ kick'[k].pc = "leaving" => kick[k].pc \in Running
        /\ kick'[k].on = kick[k].on /\ kick'[k].batch = kick[k].batch
    <3>1. PICK pc \in {"over", "leaving", "draining"} :
            Goto(k, pc) /\ (pc = "leaving" => kick[k].pc \in Running)
      BY <1>4 DEF CancelCreated, Fail, Leave, Drained
    <3> QED
      BY <3>1, <1>k, GotoMoves
  <2>2. KickShape(k)'
    BY <2>1, <1>1, <1>k DEF KickShape, Awake, Running
  <2> QED
    BY <2>1, <2>2, <1>1, RowsStay
<1> QED
  BY <1>2, <1>3, <1>4 DEF Task

\* The rows outlive the process, and no kick works on them after it.
LEMMA RestartKeepsRows ==
  ASSUME LInv, Restart
  PROVE  RowsMatch'
<1>1. UNCHANGED <<row, asked, resumed>>
  BY DEF Restart
<1>2. ASSUME NEW b \in Batches PROVE RowShape(b)'
  BY <1>1 DEF LInv, RowsMatch, RowShape, Completed
<1>3. ASSUME NEW k \in Kicks PROVE KickShape(k)'
  <2>1. CASE kick[k].pc \in {"idle", "refused"}
    BY <1>1, <2>1 DEF Restart, LInv, RowsMatch, KickShape, TInv, KicksOK
  <2>2. CASE kick[k].pc \notin {"idle", "refused"}
    <3>1. kick'[k] = [Idle EXCEPT !.pc = "done"]
      BY <2>2 DEF Restart
    <3>2. kick'[k].pc = "done" /\ kick'[k].batch = Nothing
      BY <3>1 DEF Idle
    <3> QED
      BY <3>2 DEF KickShape
  <2> QED
    BY <2>1, <2>2
<1> QED
  BY <1>2, <1>3 DEF RowsMatch

\* Rows and kicks match, in every behaviour without buttons.
LEMMA RowsAlwaysMatch ==
  ASSUME Presses = {}
  PROVE  Spec => []LInv
<1>1. Init => LInv
  <2> SUFFICES ASSUME Init PROVE LInv
    OBVIOUS
  <2>1. \A k \in Kicks : kick[k].pc = "idle" /\ kick[k].batch = Nothing
    BY DEF Init, Idle
  <2>2. \A b \in Batches : row[b] = NoRow /\ resumed[b] = 0
    BY DEF Init
  <2>3. \A k \in Kicks : KickShape(k)
    BY <2>1 DEF KickShape
  <2>4. \A b \in Batches : RowShape(b)
    BY <2>2 DEF RowShape, NoRow
  <2>5. Held
    BY <2>1 DEF Held, ThreadHeld, ConversationHeld, Awake, Running, Driving
  <2> QED
    BY <2>3, <2>4, <2>5, InitIsTyped DEF LInv, RowsMatch
<1>2. LInv /\ [Next]_vars => RowsMatch'
  <2>1. ASSUME LInv, UNCHANGED vars PROVE RowsMatch'
    BY <2>1 DEF vars, LInv, RowsMatch, RowShape, KickShape, Completed
  <2> QED
    BY <2>1, CallKeepsRows, ResumeKeepsRows, RunKeepsRows, TaskKeepsRows,
       RestartKeepsRows DEF Next
<1>3. TInv /\ Held /\ RowsMatch => LInv
  BY DEF LInv
<1>4. Init => RowsMatch
  BY <1>1 DEF LInv
<1>5. TInv /\ Held /\ RowsMatch /\ [Next]_vars => RowsMatch'
  BY <1>2, <1>3
<1> QED
  BY <1>3, <1>4, <1>5, Typed, LocksAreHeld, PTL DEF Spec

\* A run is resumed at most once from its batch, whatever is retried, fails or
\* dies, and however many replies its humans send (resume_deferred.py).
THEOREM ResumesOnce ==
  ASSUME Presses = {}
  PROVE  Spec => []ResumedOnce
<1>1. LInv => ResumedOnce
  BY DEF LInv, RowsMatch, RowShape, ResumedOnce, TInv, TypeOK
<1> QED
  BY <1>1, RowsAlwaysMatch, PTL

\* A row whose actions are all settled says so (resolve_batch).
THEOREM SettlesKnowingly ==
  ASSUME Presses = {}, Actions # {}
  PROVE  Spec => []SettledIsKnown
<1>1. LInv => SettledIsKnown
  BY DEF LInv, RowsMatch, RowShape, SettledIsKnown
<1> QED
  BY <1>1, RowsAlwaysMatch, PTL

\* No run is handed the results of a batch that lacks an answer (build_results).
THEOREM ResumesWhole ==
  ASSUME Presses = {}
  PROVE  Spec => ResumedWhole
<1>1. LInv /\ [Next]_vars =>
        [\A b \in Batches : resumed'[b] # resumed[b] => Completed(row[b])]_vars
  <2> SUFFICES ASSUME LInv, Next, NEW b \in Batches, resumed'[b] # resumed[b]
               PROVE  Completed(row[b])
    OBVIOUS
  <2>1. PICK k \in Kicks : Enter(k)
    BY ZenonT(60) DEF Next, Call, AskTurn, Answer, Press, Watch, Admit, PressCommit, Resume, ReadRow,
       CommitRow, Claim, Run, EnterRefused, Ask, Driven, Record, Finish, Teleport, Task,
       CancelCreated, Start, Fail, Leave, Drained, Release, Restart
  <2>2. kick[k].pc = "entering" /\ kick[k].batch = b /\ b # Nothing
    BY <2>1, NothingIsNoBatch DEF Enter, LInv, TInv, TypeOK
  <2> QED
    BY <2>2 DEF LInv, RowsMatch, KickShape, RowShape
<1> QED
  BY <1>1, RowsAlwaysMatch, PTL DEF Spec, ResumedWhole

-----------------------------------------------------------------------------
(* Reflex implements SuspendedRun.                                         *)

\* Steps that neither write a status nor hand a batch over are stutters.
LEMMA StatusStays ==
  ASSUME \A b \in Batches : row'[b].status = row[b].status, resumed' = resumed
  PROVE  LifeOf' = LifeOf
BY DEF LifeOf

\* A step that moves one batch's life.
LEMMA LifeMoves ==
  ASSUME NEW b \in Batches, NEW from, NEW to,
         \A c \in Batches \ {b} : row'[c].status = row[c].status /\ resumed'[c] = resumed[c],
         LifeOf[b] = from, LifeOf'[b] = to
  PROVE  Life!Step(b, from, to)
BY DEF LifeOf, Life!Step

\* Every step of the reflex is a step of the life of one batch, or none.
LEMMA StepsOfALife ==
  ASSUME LInv, LInv', Presses = {}, [Next]_vars
  PROVE  [Life!Next]_LifeOf
<1>t. row \in [Batches -> Row] /\ resumed \in [Batches -> Nat]
  BY DEF LInv, TInv, TypeOK
<1>1. CASE UNCHANGED <<row, resumed>>
  BY <1>1, StatusStays
<1>2. ASSUME NEW k \in Kicks, NEW b \in Batches, Ask(k, b) PROVE Life!Next
  <2>1. /\ row[b].status = "absent" /\ row'[b] = NewRow
        /\ \A c \in Batches \ {b} : row'[c] = row[c]
        /\ resumed' = resumed
    BY <1>2, <1>t DEF Ask
  <2>2. LifeOf[b] = "absent" /\ LifeOf'[b] = "pending"
    BY <2>1 DEF LifeOf, NewRow
  <2> QED
    BY <2>1, <2>2, LifeMoves DEF Life!Next, Life!Suspend
<1>3. ASSUME NEW k \in Kicks, CommitRow(k) PROVE [Life!Next]_LifeOf
  <2>1. k \in Replies /\ kick[k].pc = "committing" /\ kick[k].batch \in Batches
    BY <1>3 DEF CommitRow, InHand, LInv, TInv, KicksOK
  <2>2. PICK b \in Batches : b = kick[k].batch
    BY <2>1
  <2>3. row[b].status = "pending" /\ resumed[b] = 0 /\ kick[k].seen = row[b]
    BY <2>1, <2>2 DEF LInv, RowsMatch, RowShape, KickShape
  <2>4. /\ row'[b] = Resolved(row[b], row[b], k, kick[k].acts)
        /\ \A c \in Batches \ {b} : row'[c] = row[c]
        /\ resumed' = resumed
    BY <1>3, <1>t, <2>2, <2>3 DEF CommitRow
  <2>5. row'[b].status \in {"pending", "resolved"}
    BY <2>3, <2>4 DEF Resolved
  <2>6. CASE row'[b].status = "pending"
    BY <2>3, <2>4, <2>6, StatusStays
  <2>7. CASE row'[b].status = "resolved"
    <3>1. LifeOf[b] = "pending" /\ LifeOf'[b] = "resolved"
      BY <2>3, <2>7 DEF LifeOf
    <3> QED
      BY <3>1, <2>4, LifeMoves DEF Life!Next, Life!Settle
  <2> QED
    BY <2>5, <2>6, <2>7
<1>4. ASSUME NEW k \in Kicks, Claim(k) PROVE Life!Next
  <2>1. kick[k].pc = "claiming" /\ kick[k].batch \in Batches
    BY <1>4 DEF Claim, InHand, LInv, TInv, KicksOK
  <2>2. PICK b \in Batches : b = kick[k].batch
    BY <2>1
  <2>3. row[b].status = "resolved" /\ resumed[b] = 0
    BY <2>1, <2>2 DEF LInv, RowsMatch, RowShape, KickShape
  <2>4. /\ row'[b].status = "resuming"
        /\ \A c \in Batches \ {b} : row'[c] = row[c]
        /\ resumed' = resumed
    BY <1>4, <1>t, <2>2 DEF Claim, Marked
  <2>5. LifeOf[b] = "resolved" /\ LifeOf'[b] = "claimed"
    BY <2>3, <2>4 DEF LifeOf
  <2> QED
    BY <2>4, <2>5, LifeMoves DEF Life!Next, Life!Claim
<1>5. ASSUME NEW k \in Kicks, Enter(k), kick[k].batch # Nothing PROVE Life!Next
  <2>1. kick[k].pc = "entering" /\ kick[k].batch \in Batches
    BY <1>5 DEF Enter, LInv, TInv, TypeOK, Kick
  <2>2. PICK b \in Batches : b = kick[k].batch
    BY <2>1
  <2>3. row[b].status = "resuming" /\ resumed[b] = 0
    BY <1>5, <2>1, <2>2 DEF LInv, RowsMatch, KickShape
  <2>4. /\ row' = row /\ resumed'[b] = 1
        /\ \A c \in Batches \ {b} : resumed'[c] = resumed[c]
    BY <1>5, <1>t, <2>2, <2>3 DEF Enter
  <2>5. LifeOf[b] = "claimed" /\ LifeOf'[b] = "resumed"
    BY <2>3, <2>4 DEF LifeOf
  <2> QED
    BY <2>4, <2>5, LifeMoves DEF Life!Next, Life!Resume
<1>6. ASSUME NEW k \in Kicks, Record(k) PROVE Life!Next
  <2>1. kick[k].pc = "recording" /\ kick[k].batch \in Batches
    BY <1>6 DEF Record, InHand, LInv, TInv, KicksOK
  <2>2. PICK b \in Batches : b = kick[k].batch
    BY <2>1
  <2>3. row[b].status = "resuming" /\ resumed[b] = 1
    BY <2>1, <2>2, NothingIsNoBatch DEF LInv, RowsMatch, KickShape
  <2>4. /\ row'[b].status = "completed"
        /\ \A c \in Batches \ {b} : row'[c] = row[c]
        /\ resumed' = resumed
    BY <1>6, <1>t, <2>2 DEF Record, Marked
  <2>5. LifeOf[b] = "resumed" /\ LifeOf'[b] = "completed"
    BY <2>3, <2>4 DEF LifeOf
  <2> QED
    BY <2>4, <2>5, LifeMoves DEF Life!Next, Life!Complete
<1>7. ASSUME NEW k \in Kicks, PressCommit(k) PROVE FALSE
  BY <1>7 DEF PressCommit, LInv, RowsMatch, KickShape
<1>8. ASSUME NEW k \in Kicks, Enter(k), kick[k].batch = Nothing PROVE UNCHANGED <<row, resumed>>
  BY <1>8 DEF Enter
<1> QED
  BY <1>1, <1>2, <1>3, <1>4, <1>5, <1>6, <1>7, <1>8, ZenonT(60)
  DEF Next, vars, Call, AskTurn, Answer, Press, Watch, Admit, Resume, ReadRow,
      Run, EnterRefused, Driven, Finish, Teleport, Task,
      CancelCreated, Start, Fail, Leave, Drained, Release, Restart

\* A suspended run is asked, settled, claimed, resumed and completed in this
\* order, each once: the reflex implements the abstract specification.
THEOREM Implements ==
  ASSUME Presses = {}
  PROVE  Spec => SuspendsAndResumes
<1>1. Init => Life!Init
  BY DEF Init, Life!Init, LifeOf, NoRow
<1>2. LInv /\ LInv' /\ [Next]_vars => [Life!Next]_LifeOf
  BY StepsOfALife
<1> QED
  BY <1>1, <1>2, RowsAlwaysMatch, PTL DEF Spec, SuspendsAndResumes, Life!Spec

-----------------------------------------------------------------------------
(* A claimed batch is carried to its run, where nothing fails or teleports.    *)

Teleports == \E k \in Kicks, t \in Threads : Teleport(k, t)

\* An answer is at the thread its batch was asked on, and a run in the
\* conversation of its own thread.
AtHome(k) ==
  LET s == kick[k] IN
  /\ s.pc \in {"pressing", "waiting", "reading", "committing", "claiming"}
       => s.on = asked[s.batch].source /\ row[s.batch].status # "absent"
  /\ s.pc = "created" /\ k \in Replies
       => s.on = asked[s.batch].source /\ row[s.batch].status # "absent"
  /\ s.pc \in Running \cup {"created"} => s.source = s.on
  /\ s.pc \in Driving \cup {"entering"} \/ (s.pc = "created" /\ k \in Turns) => s.conv = s.on

\* A conversation that is not free is one a run is in.
SessionsOwned ==
  \A t \in Threads : sessions[t] # Nobody =>
    kick[sessions[t]].pc \in Driving /\ kick[sessions[t]].conv = t

Carried ==
  /\ \A k \in Kicks : AtHome(k)
  /\ \A b \in Batches : asked[b].source = asked[b].conv
  /\ SessionsOwned
  /\ ClaimIsCarried

\* A step of one kick that brings none elsewhere.
LEMMA HomeMoves ==
  ASSUME TInv, Carried, NEW k \in Kicks, \A j \in Kicks \ {k} : kick'[j] = kick[j], AtHome(k)',
         \A b \in Batches : row[b].status # "absent" =>
           row'[b].status # "absent" /\ asked'[b] = asked[b]
  PROVE  \A j \in Kicks : AtHome(j)'
<1> SUFFICES ASSUME NEW j \in Kicks, j # k PROVE AtHome(j)'
  OBVIOUS
<1>1. kick'[j] = kick[j] /\ AtHome(j) /\ InHand(j, kick[j])
  BY DEF Carried, TInv, KicksOK
<1> QED
  BY <1>1 DEF AtHome, InHand

\* No session changes hands, and who is in one stays.
LEMMA SessionsStay ==
  ASSUME TInv, Carried, NEW k \in Kicks, \A j \in Kicks \ {k} : kick'[j] = kick[j],
         sessions' = sessions,
         kick[k].pc \in Driving => kick'[k].pc \in Driving /\ kick'[k].conv = kick[k].conv
  PROVE  SessionsOwned'
<1>1. \A t \in Threads : sessions[t] \in Kicks \cup {Nobody}
  BY DEF TInv, TypeOK
<1> QED
  BY <1>1 DEF Carried, SessionsOwned

\* Nothing is claimed, and who is about to enter stays.
LEMMA ClaimsStay ==
  ASSUME Carried, NEW k \in Kicks, \A j \in Kicks \ {k} : kick'[j] = kick[j],
         kick[k].pc # "entering",
         \A b \in Batches : row'[b].status = "resuming" /\ resumed'[b] = 0 =>
           row[b].status = "resuming" /\ resumed[b] = 0
  PROVE  ClaimIsCarried'
<1> SUFFICES ASSUME NEW b \in Batches, row'[b].status = "resuming", resumed'[b] = 0
             PROVE  \E j \in Kicks : kick'[j].pc = "entering" /\ kick'[j].batch = b
  BY DEF ClaimIsCarried
<1>1. PICK j \in Kicks : kick[j].pc = "entering" /\ kick[j].batch = b
  BY DEF Carried, ClaimIsCarried
<1> QED
  BY <1>1

\* A call of Octomate.kick leaves runs and claims alone.
LEMMA CallCarries ==
  ASSUME TInv, Held, Carried, NEW k \in Kicks, Call(k)
  PROVE  Carried'
<1>k. KicksOK /\ kick[k] \in Kick /\ kick \in [Kicks -> Kick] /\ AtHome(k) /\ InHand(k, kick[k])
  BY DEF TInv, KicksOK, Carried
<1>1. UNCHANGED <<sessions, asked, resumed>>
  BY DEF Call, AskTurn, Answer, Press, Watch, Admit, PressCommit
<1>2. \A j \in Kicks \ {k} : kick'[j] = kick[j]
  BY <1>k, GoneMoves, GotoMoves DEF Call, AskTurn, Answer, Press, Watch, Admit, PressCommit, Become
<1>3. kick[k].pc \notin Driving \cup {"entering"}
  BY DEF Call, AskTurn, Answer, Press, Watch, Admit, PressCommit, Driving
<1>4. ASSUME NEW b \in Batches
      PROVE  /\ row[b].status # "absent" => row'[b].status # "absent"
             /\ row'[b].status = "resuming" => row[b].status = "resuming"
  <2>1. CASE row' = row
    BY <2>1
  <2>2. CASE PressCommit(k)
    BY <2>2 DEF PressCommit, Resolved, TInv, TypeOK
  <2> QED
    BY <2>1, <2>2 DEF Call, AskTurn, Answer, Press, Watch, Admit
<1>5. AtHome(k)'
  <2>1. ASSUME NEW t \in Threads, AskTurn(k, t) PROVE AtHome(k)'
    <3>1. CASE awakes[t] # Nobody
      <4>1. kick'[k].pc = "refused"
        BY <1>k, <2>1, <3>1, GoneMoves DEF AskTurn
      <4> QED
        BY <4>1 DEF AtHome, Running, Driving
    <3>2. CASE awakes[t] = Nobody
      <4>1. /\ kick'[k].pc = "created" /\ k \in Turns /\ kick'[k].on = t
            /\ kick'[k].source = t /\ kick'[k].conv = t
        BY <1>k, <2>1, <3>2 DEF AskTurn, Become, Kick
      <4> QED
        BY <4>1, TurnsAreNoReplies DEF AtHome
    <3> QED
      BY <3>1, <3>2
  <2>2. ASSUME NEW b \in Batches, NEW as, Answer(k, b, as) PROVE AtHome(k)'
    <3>1. /\ kick'[k].pc = "waiting" /\ kick'[k].on = asked[b].source /\ kick'[k].batch = b
          /\ row[b].status # "absent"
      BY <1>k, <2>2 DEF Answer, Become, Kick
    <3> QED
      BY <1>1, <1>4, <3>1 DEF AtHome, Running, Driving
  <2>3. ASSUME NEW b \in Batches, NEW a, Press(k, b, a) PROVE AtHome(k)'
    <3>1. /\ kick'[k].pc = "pressing" /\ kick'[k].on = asked[b].source /\ kick'[k].batch = b
          /\ row[b].status # "absent"
      BY <1>k, <2>3 DEF Press, Become, Kick
    <3> QED
      BY <1>1, <1>4, <3>1 DEF AtHome, Running, Driving
  <2>4. ASSUME Watch(k) PROVE AtHome(k)'
    <3>1. /\ kick'[k].pc = "waiting" /\ kick[k].pc = "waiting" /\ kick'[k].on = kick[k].on
          /\ kick'[k].batch = kick[k].batch
      BY <1>k, <2>4 DEF Watch, Become, Kick
    <3> QED
      BY <1>1, <1>4, <1>k, <3>1 DEF AtHome, InHand, Running, Driving
  <2>5. ASSUME Admit(k) PROVE AtHome(k)'
    <3>1. /\ kick'[k].pc = "created" /\ kick[k].pc = "waiting" /\ kick'[k].on = kick[k].on
          /\ kick'[k].batch = kick[k].batch /\ kick'[k].source = kick[k].on
      BY <1>k, <2>5 DEF Admit, Become, Kick
    <3>2. k \notin Turns /\ kick[k].batch \in Batches
      BY <1>k, <3>1, TurnsAreNoReplies DEF InHand
    <3>3. kick[k].on = asked[kick[k].batch].source /\ row[kick[k].batch].status # "absent"
      BY <1>k, <3>1 DEF AtHome
    <3> QED
      BY <1>1, <1>4, <3>1, <3>2, <3>3 DEF AtHome, Driving
  <2>6. ASSUME PressCommit(k) PROVE AtHome(k)'
    <3>1. /\ kick[k].pc = "pressing"
          /\ \/ kick'[k].pc = "done"
             \/ /\ kick'[k].pc = "waiting" /\ kick'[k].on = kick[k].on
                /\ kick'[k].batch = kick[k].batch
      BY <1>k, <2>6, GotoMoves, GoneMoves DEF PressCommit
    <3> QED
      BY <1>1, <1>4, <1>k, <3>1 DEF AtHome, InHand, Running, Driving
  <2> QED
    BY <2>1, <2>2, <2>3, <2>4, <2>5, <2>6 DEF Call
<1>6. \A j \in Kicks : AtHome(j)'
  BY <1>1, <1>2, <1>4, <1>5, HomeMoves
<1>7. SessionsOwned'
  BY <1>1, <1>2, <1>3, SessionsStay
<1>8. ClaimIsCarried'
  BY <1>1, <1>2, <1>3, <1>4, ClaimsStay
<1> QED
  BY <1>1, <1>6, <1>7, <1>8 DEF Carried

\* From the answer to the claim: the run is to go on where it was asked.
LEMMA ResumeCarries ==
  ASSUME TInv, Held, Carried, NEW k \in Kicks, Resume(k)
  PROVE  Carried'
<1> DEFINE b == kick[k].batch
<1>k. /\ KicksOK /\ kick[k] \in Kick /\ kick \in [Kicks -> Kick]
      /\ AtHome(k) /\ k \in Replies /\ b \in Batches
      /\ kick[k].pc \in {"reading", "committing", "claiming"}
      /\ row \in [Batches -> Row]
  BY DEF TInv, TypeOK, KicksOK, InHand, Carried, Resume, ReadRow, CommitRow, Claim
<1>h. /\ kick[k].on = asked[b].source /\ row[b].status # "absent"
      /\ kick[k].source = kick[k].on /\ asked[b].conv = kick[k].on
  BY <1>k DEF AtHome, Running, Carried
<1>1. UNCHANGED <<sessions, asked, resumed>>
  BY DEF Resume, ReadRow, CommitRow, Claim
<1>2. \A j \in Kicks \ {k} : kick'[j] = kick[j]
  BY <1>k, GotoMoves DEF Resume, ReadRow, CommitRow, Claim, Become
<1>3. ASSUME ReadRow(k) \/ CommitRow(k) PROVE Carried'
  <2>1. /\ kick'[k].pc \in {"leaving", "claiming", "committing"}
        /\ kick'[k].on = kick[k].on /\ kick'[k].batch = b /\ kick'[k].source = kick[k].source
    <3>1. CASE ReadRow(k)
      BY <3>1, <1>k DEF ReadRow, Become, Kick
    <3>2. CASE CommitRow(k)
      BY <3>2, <1>k, GotoMoves DEF CommitRow
    <3> QED
      BY <1>3, <3>1, <3>2
  <2>2. \A c \in Batches : /\ row[c].status # "absent" => row'[c].status # "absent"
                           /\ row'[c].status = "resuming" => row[c].status = "resuming"
    <3>1. CASE ReadRow(k)
      BY <3>1 DEF ReadRow
    <3>2. CASE CommitRow(k)
      BY <3>2, <1>k DEF CommitRow, Resolved
    <3> QED
      BY <1>3, <3>1, <3>2
  <2>3. AtHome(k)'
    BY <1>1, <1>k, <1>h, <2>1, <2>2 DEF AtHome, Driving
  <2>4. \A j \in Kicks : AtHome(j)'
    BY <1>1, <1>2, <2>2, <2>3, HomeMoves
  <2>5. kick[k].pc \notin Driving \cup {"entering"}
    BY <1>k DEF Driving
  <2>6. SessionsOwned'
    BY <1>1, <1>2, <2>5, SessionsStay
  <2>7. ClaimIsCarried'
    BY <1>1, <1>2, <2>2, <2>5, ClaimsStay
  <2> QED
    BY <1>1, <2>4, <2>6, <2>7 DEF Carried
<1>4. ASSUME Claim(k) PROVE Carried'
  <2>1. /\ kick'[k].pc = "entering" /\ kick'[k].on = kick[k].on /\ kick'[k].batch = b
        /\ kick'[k].source = kick[k].source /\ kick'[k].conv = asked[b].conv
    BY <1>4, <1>k DEF Claim, Become, Kick
  <2>2. row'[b].status = "resuming" /\ \A c \in Batches \ {b} : row'[c] = row[c]
    BY <1>4, <1>k DEF Claim, Marked
  <2>3. AtHome(k)'
    BY <1>h, <2>1 DEF AtHome
  <2>4. \A j \in Kicks : AtHome(j)'
    BY <1>1, <1>2, <2>2, <2>3, HomeMoves
  <2>5. SessionsOwned'
    BY <1>1, <1>2, <1>k, SessionsStay DEF Driving
  <2>6. ClaimIsCarried'
    <3> SUFFICES ASSUME NEW c \in Batches, row'[c].status = "resuming", resumed'[c] = 0
                 PROVE  \E j \in Kicks : kick'[j].pc = "entering" /\ kick'[j].batch = c
      BY DEF ClaimIsCarried
    <3>1. CASE c = b
      BY <2>1, <3>1
    <3>2. CASE c # b
      <4>1. PICK j \in Kicks : kick[j].pc = "entering" /\ kick[j].batch = c
        BY <1>1, <2>2, <3>2 DEF Carried, ClaimIsCarried
      <4> QED
        BY <1>2, <1>k, <4>1
    <3> QED
      BY <3>1, <3>2
  <2> QED
    BY <1>1, <2>4, <2>5, <2>6 DEF Carried
<1> QED
  BY <1>3, <1>4 DEF Resume

\* At home the conversation is free: its thread has no other reflex.
LEMMA NobodyIsThere ==
  ASSUME TInv, Held, Carried, NEW k \in Kicks
  PROVE  ~EnterRefused(k)
<1> SUFFICES ASSUME EnterRefused(k) PROVE FALSE
  OBVIOUS
<1>1. /\ kick[k].pc = "entering" /\ kick[k].conv = kick[k].on /\ kick[k].conv \in Threads
      /\ sessions[kick[k].conv] # Nobody
  BY DEF EnterRefused, Carried, AtHome, TInv, TypeOK, Kick
<1>2. PICK j \in Kicks : j = sessions[kick[k].conv]
  BY <1>1 DEF TInv, TypeOK
<1>3. kick[j].pc \in Driving /\ kick[j].conv = kick[k].conv
  BY <1>1, <1>2 DEF Carried, SessionsOwned
<1>4. kick[j].on = kick[k].on
  BY <1>1, <1>3 DEF Carried, AtHome
<1>5. j = k
  BY <1>1, <1>3, <1>4 DEF Held, ThreadHeld, Awake, Running, Driving
<1> QED
  BY <1>1, <1>3, <1>5 DEF Driving

\* A run that stays at home enters, asks, ends and lets its conversation go.
LEMMA RunCarries ==
  ASSUME TInv, Held, Carried, NEW k \in Kicks, Run(k), ~Teleports
  PROVE  Carried'
<1> DEFINE b == kick[k].batch
<1>k. /\ KicksOK /\ kick[k] \in Kick /\ kick \in [Kicks -> Kick] /\ AtHome(k)
      /\ row \in [Batches -> Row] /\ resumed \in [Batches -> Nat]
      /\ sessions \in [Threads -> Kicks \cup {Nobody}]
      /\ asked \in [Batches -> [source : Threads, conv : Threads]]
  BY DEF TInv, TypeOK, KicksOK, Carried
<1>1. CASE Enter(k)
  <2>1. /\ UNCHANGED <<row, asked>> /\ kick[k].pc = "entering" /\ sessions[kick[k].conv] = Nobody
        /\ sessions' = [sessions EXCEPT ![kick[k].conv] = k]
        /\ resumed' = IF b = Nothing THEN resumed ELSE [resumed EXCEPT ![b] = @ + 1]
    BY <1>1 DEF Enter
  <2>2. /\ \A j \in Kicks \ {k} : kick'[j] = kick[j]
        /\ kick'[k].pc = "driving" /\ kick'[k].on = kick[k].on /\ kick'[k].conv = kick[k].conv
        /\ kick'[k].source = kick[k].source
    BY <1>1, <1>k, GotoMoves DEF Enter
  <2>3. AtHome(k)'
    BY <1>k, <2>1, <2>2 DEF AtHome, Running, Driving
  <2>4. \A j \in Kicks : AtHome(j)'
    BY <2>1, <2>2, <2>3, HomeMoves
  <2>5. SessionsOwned'
    <3>1. kick[k].conv \in Threads
      BY <1>k DEF Kick
    <3>2. ASSUME NEW t \in Threads, t # kick[k].conv, sessions[t] # Nobody
          PROVE  /\ sessions'[t] = sessions[t] /\ sessions[t] \in Kicks \ {k}
                 /\ kick[sessions[t]].pc \in Driving /\ kick[sessions[t]].conv = t
      BY <1>k, <2>1, <3>2 DEF Carried, SessionsOwned, Driving
    <3>3. sessions'[kick[k].conv] = k
      BY <1>k, <2>1, <3>1
    <3>4. \A t \in Threads : t # kick[k].conv => sessions'[t] = sessions[t]
      BY <1>k, <2>1, <3>1
    <3> QED
      BY <2>2, <3>2, <3>3, <3>4 DEF SessionsOwned, Driving
  <2>6. ClaimIsCarried'
    <3> SUFFICES ASSUME NEW c \in Batches, row'[c].status = "resuming", resumed'[c] = 0
                 PROVE  \E j \in Kicks : kick'[j].pc = "entering" /\ kick'[j].batch = c
      BY DEF ClaimIsCarried
    <3>1. c # b /\ resumed[c] = 0
      BY <1>k, <2>1, NothingIsNoBatch
    <3>2. PICK j \in Kicks : kick[j].pc = "entering" /\ kick[j].batch = c
      BY <2>1, <3>1 DEF Carried, ClaimIsCarried
    <3> QED
      BY <2>2, <3>1, <3>2
  <2> QED
    BY <2>1, <2>4, <2>5, <2>6 DEF Carried
<1>2. CASE EnterRefused(k)
  BY <1>2, NobodyIsThere
<1>3. CASE Driven(k)
  <2>1. UNCHANGED <<sessions, row, asked, resumed>> /\ kick[k].pc = "driving"
    BY <1>3 DEF Driven
  <2>2. /\ \A j \in Kicks \ {k} : kick'[j] = kick[j]
        /\ kick'[k].pc \in {"recording", "finishing"} /\ kick'[k].on = kick[k].on
        /\ kick'[k].conv = kick[k].conv /\ kick'[k].source = kick[k].source
    BY <1>3, <1>k, GotoMoves DEF Driven
  <2>3. AtHome(k)'
    BY <1>k, <2>1, <2>2 DEF AtHome, Running, Driving
  <2>4. \A j \in Kicks : AtHome(j)'
    BY <2>1, <2>2, <2>3, HomeMoves
  <2>5. SessionsOwned'
    BY <2>1, <2>2, SessionsStay DEF Driving
  <2>6. ClaimIsCarried'
    BY <2>1, <2>2, ClaimsStay
  <2> QED
    BY <2>1, <2>4, <2>5, <2>6 DEF Carried
<1>4. CASE Record(k)
  <2>1. /\ UNCHANGED <<sessions, asked, resumed>> /\ kick[k].pc = "recording" /\ b \in Batches
        /\ row' = [row EXCEPT ![b] = Marked(@, @, "completed")]
    BY <1>4, <1>k DEF Record, KicksOK, InHand
  <2>2. /\ \A j \in Kicks \ {k} : kick'[j] = kick[j]
        /\ kick'[k].pc = "finishing" /\ kick'[k].on = kick[k].on
        /\ kick'[k].conv = kick[k].conv /\ kick'[k].source = kick[k].source
    BY <1>4, <1>k DEF Record, Become, Kick
  <2>3. /\ row'[b].status = "completed"
        /\ \A c \in Batches \ {b} : row'[c] = row[c]
    BY <1>k, <2>1 DEF Marked
  <2>4. AtHome(k)'
    BY <1>k, <2>1, <2>2 DEF AtHome, Running, Driving
  <2>5. \A j \in Kicks : AtHome(j)'
    BY <2>1, <2>2, <2>3, <2>4, HomeMoves
  <2>6. SessionsOwned'
    BY <2>1, <2>2, SessionsStay DEF Driving
  <2>7. ClaimIsCarried'
    BY <2>1, <2>2, <2>3, ClaimsStay
  <2> QED
    BY <2>1, <2>5, <2>6, <2>7 DEF Carried
<1>5. CASE Finish(k)
  <2>1. UNCHANGED <<row, asked, resumed>> /\ kick[k].pc = "finishing" /\ sessions' = Released(k)
    BY <1>5 DEF Finish
  <2>2. (\A j \in Kicks \ {k} : kick'[j] = kick[j]) /\ kick'[k].pc = "leaving"
    BY <1>5, <1>k, GotoMoves DEF Finish
  <2>3. AtHome(k)'
    BY <2>2 DEF AtHome, Running, Driving
  <2>4. \A j \in Kicks : AtHome(j)'
    BY <2>1, <2>2, <2>3, HomeMoves
  <2>5. SessionsOwned'
    BY <1>k, <2>1, <2>2 DEF Carried, SessionsOwned, Released
  <2>6. ClaimIsCarried'
    BY <2>1, <2>2, ClaimsStay
  <2> QED
    BY <2>1, <2>4, <2>5, <2>6 DEF Carried
<1>6. ASSUME NEW c \in Batches, Ask(k, c) PROVE Carried'
  <2>1. /\ UNCHANGED <<sessions, kick, resumed>> /\ kick[k].pc = "driving"
        /\ row[c].status = "absent" /\ row'[c].status = "pending"
        /\ \A d \in Batches \ {c} : row'[d] = row[d] /\ asked'[d] = asked[d]
        /\ asked'[c].source = kick[k].source /\ asked'[c].conv = kick[k].conv
    BY <1>6, <1>k DEF Ask, NewRow
  <2>2. kick[k].source = kick[k].on /\ kick[k].conv = kick[k].on
    BY <1>k, <2>1 DEF AtHome, Running, Driving
  <2>3. \A d \in Batches : row[d].status # "absent" =>
          row'[d].status # "absent" /\ asked'[d] = asked[d]
    BY <2>1
  <2>4. AtHome(k)'
    BY <1>k, <2>1 DEF AtHome
  <2>5. \A j \in Kicks : AtHome(j)'
    BY <2>1, <2>3, <2>4, HomeMoves
  <2>6. SessionsOwned'
    BY <2>1 DEF Carried, SessionsOwned
  <2>7. ClaimIsCarried'
    BY <2>1 DEF Carried, ClaimIsCarried
  <2>8. \A d \in Batches : asked'[d].source = asked'[d].conv
    BY <2>1, <2>2 DEF Carried
  <2> QED
    BY <2>5, <2>6, <2>7, <2>8 DEF Carried
<1> QED
  BY <1>1, <1>2, <1>3, <1>4, <1>5, <1>6 DEF Run, Teleports

\* A task that does not fail starts, and leaves with nothing in its hands.
LEMMA TaskCarries ==
  ASSUME TInv, Held, Carried, NEW k \in Kicks, Task(k), faults = 0, faults' = 0
  PROVE  Carried'
<1>k. KicksOK /\ kick[k] \in Kick /\ kick \in [Kicks -> Kick] /\ AtHome(k)
  BY DEF TInv, KicksOK, Carried
<1>1. Start(k) \/ Leave(k) \/ Drained(k) \/ Release(k)
  BY DEF Task, CancelCreated, Fail
<1>2. UNCHANGED <<sessions, row, asked, resumed>>
  BY <1>1 DEF Start, Leave, Drained, Release
<1>3. /\ \A j \in Kicks \ {k} : kick'[j] = kick[j]
      /\ kick[k].pc \notin Driving \cup {"entering"}
  BY <1>1, <1>k, GotoMoves, GoneMoves DEF Start, Leave, Drained, Release, Driving
<1>4. AtHome(k)'
  <2>1. CASE Start(k)
    <3>1. /\ kick[k].pc = "created" /\ kick'[k].pc = IF k \in Turns THEN "entering" ELSE "reading"
          /\ kick'[k].on = kick[k].on /\ kick'[k].conv = kick[k].conv
          /\ kick'[k].source = kick[k].source /\ kick'[k].batch = kick[k].batch
      BY <1>k, <2>1, GotoMoves DEF Start
    <3>2. k \notin Turns => k \in Replies
      BY DEF Kicks
    <3> QED
      BY <1>k, <1>2, <3>1, <3>2 DEF AtHome, Driving
  <2>2. CASE Leave(k) \/ Drained(k) \/ Release(k)
    <3>1. kick'[k].pc \in {"draining", "over", "done"}
      BY <1>k, <2>2, GotoMoves, GoneMoves DEF Leave, Drained, Release
    <3> QED
      BY <3>1 DEF AtHome, Running, Driving
  <2> QED
    BY <1>1, <2>1, <2>2
<1>5. \A j \in Kicks : AtHome(j)'
  BY <1>2, <1>3, <1>4, HomeMoves
<1>6. SessionsOwned'
  BY <1>2, <1>3, SessionsStay
<1>7. ClaimIsCarried'
  BY <1>2, <1>3, ClaimsStay
<1> QED
  BY <1>2, <1>5, <1>6, <1>7 DEF Carried

\* Faults are counted up to their bound.
LEMMA FaultsCount ==
  ASSUME Next
  PROVE  faults' = faults \/ (faults < MaxFaults /\ faults' = faults + 1)
<1>1. \A k \in Kicks : Call(k) => faults' = faults
  BY DEF Call, AskTurn, Answer, Press, Watch, Admit, PressCommit
<1>2. \A k \in Kicks : Resume(k) => faults' = faults
  BY DEF Resume, ReadRow, CommitRow, Claim
<1>3. \A k \in Kicks : Run(k) => faults' = faults
  BY DEF Run, Enter, EnterRefused, Ask, Driven, Record, Finish, Teleport
<1>4. \A k \in Kicks :
        Task(k) => faults' = faults \/ (faults < MaxFaults /\ faults' = faults + 1)
  BY DEF Task, CancelCreated, Start, Fail, Leave, Drained, Release
<1>5. Restart => faults < MaxFaults /\ faults' = faults + 1
  BY DEF Restart
<1> QED
  BY <1>1, <1>2, <1>3, <1>4, <1>5 DEF Next

LEMMA FaultsStay ==
  ASSUME TInv, Next, faults' = 0
  PROVE  faults = 0 /\ ~Restart
<1>1. faults \in Nat
  BY DEF TInv, TypeOK
<1>2. faults = 0
  BY <1>1, FaultsCount
<1> QED
  BY <1>2 DEF Restart

\* A claimed batch reaches its run, unless something failed: in every behaviour
\* in which no run teleports, however many threads, replies and buttons there
\* are (resume_deferred.py; run reflex_claim shows what a teleport does).
THEOREM CarriesClaims ==
  Spec /\ [][~Teleports]_vars => [](faults = 0 => ClaimIsCarried)
<1>1. Init => Carried
  <2> SUFFICES ASSUME Init PROVE Carried
    OBVIOUS
  <2>1. \A k \in Kicks : kick[k].pc = "idle"
    BY DEF Init, Idle
  <2>2. \A b \in Batches : row[b].status = "absent" /\ asked[b].source = asked[b].conv
    BY DEF Init, NoRow
  <2>3. \A t \in Threads : sessions[t] = Nobody
    BY DEF Init
  <2> QED
    BY <2>1, <2>2, <2>3 DEF Carried, AtHome, SessionsOwned, ClaimIsCarried, Running, Driving
<1>2. ASSUME TInv, Held, faults = 0 => Carried, [Next]_vars, [~Teleports]_vars, faults' = 0
      PROVE  Carried'
  <2>1. CASE UNCHANGED vars
    <3>1. UNCHANGED <<sessions, kick, row, asked, resumed, faults>>
      BY <2>1 DEF vars
    <3> QED
      BY <1>2, <3>1 DEF Carried, AtHome, SessionsOwned, ClaimIsCarried
  <2>2. CASE Next /\ ~UNCHANGED vars
    <3>1. faults = 0 /\ ~Restart
      BY <1>2, <2>2, FaultsStay
    <3>2. Carried /\ ~Teleports
      BY <1>2, <2>2, <3>1
    <3>3. PICK k \in Kicks : Call(k) \/ Resume(k) \/ Run(k) \/ Task(k)
      BY <2>2, <3>1 DEF Next
    <3> QED
      BY <1>2, <3>1, <3>2, <3>3, CallCarries, ResumeCarries, RunCarries, TaskCarries
  <2> QED
    BY <1>2, <2>1, <2>2
<1>3. TInv /\ Held /\ (faults = 0 => Carried) /\ [Next]_vars /\ [~Teleports]_vars
        => (faults = 0 => Carried)'
  BY <1>2
<1>4. (faults = 0 => Carried) => (faults = 0 => ClaimIsCarried)
  BY DEF Carried
<1> QED
  BY <1>1, <1>3, <1>4, Typed, LocksAreHeld, PTL DEF Spec

\* With one thread there is nowhere to teleport to: what run reflex_solo checks.
THEOREM CarriesClaimsAlone ==
  ASSUME \A t, u \in Threads : t = u, MaxFaults = 0
  PROVE  Spec => []ClaimIsCarried
<1>1. TInv /\ [Next]_vars => [~Teleports]_vars
  <2> SUFFICES ASSUME TInv, NEW k \in Kicks, NEW t \in Threads, Teleport(k, t) PROVE FALSE
    BY DEF Teleports
  <2>1. t # kick[k].on /\ kick[k].on \in Threads
    BY DEF Teleport, TInv, TypeOK, Kick
  <2> QED
    BY <2>1
<1>2. Init => faults = 0
  BY DEF Init
<1>3. faults = 0 /\ [Next]_vars => (faults = 0)'
  BY FaultsCount DEF vars
<1>4. Spec => [](faults = 0)
  BY <1>2, <1>3, PTL DEF Spec
<1>5. Spec => [][~Teleports]_vars
  BY <1>1, Typed, PTL DEF Spec
<1> QED
  BY <1>4, <1>5, CarriesClaims, PTL

=============================================================================
