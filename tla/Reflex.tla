------------------------------- MODULE Reflex -------------------------------
(***************************************************************************)
(* The reflex: what Octomate.kick wakes, which thread and which            *)
(* conversation it holds while it runs, and how a suspended run is resumed *)
(* from the answers to its batch.                                          *)
(*                                                                         *)
(* A kick is one call of Octomate.kick and, once it woke the reflex, the   *)
(* task it created.  Turns are user messages; Replies answer a batch of    *)
(* response mode "resume" (module LiveRequest has the other mode).         *)
(* Two locks guard a run, with different keys: Octomate.awakes holds the   *)
(* thread the kick was asked on, GatewayManager.sessions the conversation  *)
(* the agent is driven in.  They come apart when a turn teleports.         *)
(*                                                                         *)
(* A thread stands for its address and for the conversation its agent has  *)
(* there; routing, presentation and the ledger are left out.               *)
(***************************************************************************)
EXTENDS BatchRow, Naturals

CONSTANTS
  Threads,     \* thread keys
  Turns,       \* user messages
  Batches,     \* batches the runs may suspend on
  Presses,     \* the replies that come from a Discord button
  Nobody,      \* no kick holds it
  Nothing,     \* no batch
  MaxFaults    \* bound on cancellations, failed runs and crashes

Kicks == Turns \cup Replies

ASSUME SomeThread == Threads # {}
ASSUME TurnsAreNoReplies == Turns \cap Replies = {}
ASSUME ReflexPressesReply == Presses \subseteq Replies
ASSUME NobodyIsNoKick == Nobody \notin Kicks
ASSUME NothingIsNoBatch == Nothing \notin Batches
ASSUME FaultsAreBounded == MaxFaults \in Nat

VARIABLES
  awakes,    \* Octomate.awakes: the kick each thread's reflex belongs to
  sessions,  \* GatewayManager.sessions: the kick driving each conversation
  kick,      \* each kick: its place, its thread and what it works on
  row,       \* each batch's row
  asked,     \* its immutable columns: source address and conversation
  resumed,   \* history: the runs that were handed the batch's results
  faults     \* history: cancellations, failures and crashes so far

vars == <<awakes, sessions, kick, row, asked, resumed, faults>>

\* The caller of kick, a reflex that runs, and what comes after it.
Calling  == {"pressing", "waiting"}
Running  == {"reading", "committing", "claiming", "entering",
             "driving", "recording", "finishing"}
Driving  == {"driving", "recording", "finishing"}
Awake    == Running \cup {"created", "leaving"}
Finished == {"over", "done"}

Kick == [pc     : {"idle", "refused", "draining"} \cup Calling \cup Awake \cup Finished,
         on     : Threads,                  \* the thread it was asked on
         watch  : Kicks \cup {Nobody},      \* the reflex an answer waits out
         source : Threads,                  \* state.source_target
         conv   : Threads,                  \* the conversation it drives
         batch  : Batches \cup {Nothing},   \* the batch it answers or resumes
         acts   : SUBSET Actions,           \* what it answers
         seen   : Row]                      \* the row as it read it

TypeOK ==
  /\ awakes \in [Threads -> Kicks \cup {Nobody}]
  /\ sessions \in [Threads -> Kicks \cup {Nobody}]
  /\ kick \in [Kicks -> Kick]
  /\ row \in [Batches -> Row]
  /\ asked \in [Batches -> [source : Threads, conv : Threads]]
  /\ resumed \in [Batches -> Nat]
  /\ faults \in Nat

Idle == LET t == CHOOSE t \in Threads : TRUE
        IN  [pc |-> "idle", on |-> t, watch |-> Nobody, source |-> t, conv |-> t,
             batch |-> Nothing, acts |-> {}, seen |-> NoRow]

Init ==
  /\ awakes = [t \in Threads |-> Nobody]
  /\ sessions = [t \in Threads |-> Nobody]
  /\ kick = [k \in Kicks |-> Idle]
  /\ row = [b \in Batches |-> NoRow]
  /\ asked = [b \in Batches |-> [source |-> Idle.on, conv |-> Idle.on]]
  /\ resumed = [b \in Batches |-> 0]
  /\ faults = 0

Become(k, state) == kick' = [kick EXCEPT ![k] = state]
Goto(k, pc) == Become(k, [kick[k] EXCEPT !.pc = pc])

\* A call or a task that ended leaves nothing of its locals behind.
Gone(k, pc) == Become(k, [Idle EXCEPT !.pc = pc])

-----------------------------------------------------------------------------
(* Octomate.kick.                                                          *)

\* A user message: refused with StillAwake, or its reflex holds the thread.
AskTurn(k, t) ==
  /\ kick[k].pc = "idle"
  /\ k \in Turns
  /\ IF awakes[t] # Nobody
       THEN Gone(k, "refused") /\ awakes' = awakes
       ELSE /\ Become(k, [kick[k] EXCEPT !.pc = "created", !.on = t,
                                    !.source = t, !.conv = t])
            /\ awakes' = [awakes EXCEPT ![t] = k]
  /\ UNCHANGED <<sessions, row, asked, resumed, faults>>

\* A reply of a human who has the batch's card: kick reads where it was asked.
Answer(k, b, as) ==
  /\ kick[k].pc = "idle"
  /\ k \in Replies \ Presses
  /\ row[b].status # "absent"
  /\ Become(k, [kick[k] EXCEPT !.pc = "waiting", !.on = asked[b].source,
                          !.batch = b, !.acts = as])
  /\ UNCHANGED <<awakes, sessions, row, asked, resumed, faults>>

\* asyncio.wait returns when the reflex it watched is over; the loop then
\* looks again, and another kick may have taken the thread.
Watch(k) ==
  /\ kick[k].pc = "waiting"
  /\ kick[k].watch \in {Nobody} \cup {j \in Kicks : kick[j].pc \in Finished}
  /\ awakes[kick[k].on] # Nobody
  /\ Become(k, [kick[k] EXCEPT !.watch = awakes[kick[k].on]])
  /\ UNCHANGED <<awakes, sessions, row, asked, resumed, faults>>

\* Variants: the answer does not look again after its wait; it waits once.
AdmitUnchecked(k) ==
  /\ kick[k].pc = "waiting"
  /\ kick[k].watch \in {Nobody} \cup {j \in Kicks : kick[j].pc \in Finished}
  /\ kick[k].watch # Nobody \/ awakes[kick[k].on] = Nobody
  /\ awakes' = [awakes EXCEPT ![kick[k].on] = k]
  /\ Become(k, [kick[k] EXCEPT !.pc = "created", !.watch = Nobody,
                          !.source = kick[k].on])
  /\ UNCHANGED <<sessions, row, asked, resumed, faults>>

AdmitAtOnce(k) ==
  /\ kick[k].pc = "waiting"
  /\ kick[k].watch = Nobody
  /\ awakes[kick[k].on] = Nobody
  /\ awakes' = [awakes EXCEPT ![kick[k].on] = k]
  /\ Become(k, [kick[k] EXCEPT !.pc = "created", !.source = kick[k].on])
  /\ UNCHANGED <<sessions, row, asked, resumed, faults>>

Admit(k) ==
  /\ kick[k].pc = "waiting"
  /\ kick[k].watch \in {Nobody} \cup {j \in Kicks : kick[j].pc \in Finished}
  /\ awakes[kick[k].on] = Nobody
  /\ awakes' = [awakes EXCEPT ![kick[k].on] = k]
  /\ Become(k, [kick[k] EXCEPT !.pc = "created", !.watch = Nobody,
                          !.source = kick[k].on])
  /\ UNCHANGED <<sessions, row, asked, resumed, faults>>

\* Variant: the button takes no lock.
PressUnlocked(k, b, a) ==
  /\ kick[k].pc = "idle"
  /\ k \in Presses
  /\ row[b].status = "pending"
  /\ a \in Approvals /\ row[b].acts[a] = "pending"
  /\ Become(k, [kick[k] EXCEPT !.pc = "pressing", !.on = asked[b].source,
                          !.batch = b, !.acts = {a}, !.seen = row[b]])
  /\ UNCHANGED <<awakes, sessions, row, asked, resumed, faults>>

\* A Discord button takes the batch's callback lock and reads the row ...
Press(k, b, a) ==
  /\ kick[k].pc = "idle"
  /\ k \in Presses
  /\ \A p \in Presses : kick[p].batch = b => kick[p].pc # "pressing"
  /\ row[b].status = "pending"
  /\ a \in Approvals /\ row[b].acts[a] = "pending"
  /\ Become(k, [kick[k] EXCEPT !.pc = "pressing", !.on = asked[b].source,
                          !.batch = b, !.acts = {a}, !.seen = row[b]])
  /\ UNCHANGED <<awakes, sessions, row, asked, resumed, faults>>

\* ... settles it itself, and kicks once its view of the row is whole.
PressCommit(k) ==
  LET b == kick[k].batch  seen == kick[k].seen IN
  /\ kick[k].pc = "pressing"
  /\ row' = [row EXCEPT ![b] = Resolved(seen, @, k, kick[k].acts)]
  /\ IF Completed(Resolved(seen, seen, k, kick[k].acts))
       THEN Goto(k, "waiting") ELSE Gone(k, "done")
  /\ UNCHANGED <<awakes, sessions, asked, resumed, faults>>

-----------------------------------------------------------------------------
(* The task kick created.                                                  *)

\* A cancellation before the first step never enters the coroutine.
CancelCreated(k) ==
  /\ kick[k].pc = "created"
  /\ faults < MaxFaults
  /\ faults' = faults + 1
  /\ Goto(k, "over")
  /\ UNCHANGED <<awakes, sessions, row, asked, resumed>>

\* Awake: a message goes to Route and React, an answer to ResumeDeferred.
Start(k) ==
  /\ kick[k].pc = "created"
  /\ Goto(k, IF k \in Turns THEN "entering" ELSE "reading")
  /\ UNCHANGED <<awakes, sessions, row, asked, resumed, faults>>

\* Variant: a batch that is being resumed is resumed again.
ReadRowAgain(k) ==
  LET b == kick[k].batch IN
  /\ kick[k].pc = "reading"
  /\ Become(k, [kick[k] EXCEPT !.seen = row[b],
       !.pc = IF row[b].status \in Refused \cup {"completed"} THEN "leaving"
                 ELSE IF row[b].status \in Settled THEN "claiming"
                 ELSE "committing"])
  /\ UNCHANGED <<awakes, sessions, row, asked, resumed, faults>>

\* ResumeDeferred: resolve_batch reads the row; a refused one raises, one that
\* was resumed already ends the reflex.
ReadRow(k) ==
  LET b == kick[k].batch IN
  /\ kick[k].pc = "reading"
  /\ Become(k, [kick[k] EXCEPT !.seen = row[b],
       !.pc = IF row[b].status \in Refused \cup {"completed", "resuming"} THEN "leaving"
                 ELSE IF row[b].status = "resolved" THEN "claiming"
                 ELSE "committing"])
  /\ UNCHANGED <<awakes, sessions, row, asked, resumed, faults>>

\* It commits the answers; a batch still incomplete ends the reflex suspended.
CommitRow(k) ==
  LET b == kick[k].batch  seen == kick[k].seen IN
  /\ kick[k].pc = "committing"
  /\ row' = [row EXCEPT ![b] = Resolved(seen, @, k, kick[k].acts)]
  /\ Goto(k, IF Completed(Resolved(seen, seen, k, kick[k].acts))
               THEN "claiming" ELSE "leaving")
  /\ UNCHANGED <<awakes, sessions, asked, resumed, faults>>

\* Variant: the batch is not marked before its run is resumed.
ClaimUnmarked(k) ==
  /\ kick[k].pc = "claiming"
  /\ Become(k, [kick[k] EXCEPT !.pc = "entering", !.conv = asked[kick[k].batch].conv])
  /\ UNCHANGED <<awakes, sessions, row, asked, resumed, faults>>

\* mark_batch(resuming), then the thread that owns the batch's conversation.
Claim(k) ==
  LET b == kick[k].batch IN
  /\ kick[k].pc = "claiming"
  /\ row' = [row EXCEPT ![b] = Marked(@, @, "resuming")]
  /\ Become(k, [kick[k] EXCEPT !.pc = "entering", !.conv = asked[b].conv])
  /\ UNCHANGED <<awakes, sessions, asked, resumed, faults>>

\* Variant: a second run of the conversation is let in.
EnterAnyway(k) ==
  LET b == kick[k].batch IN
  /\ kick[k].pc = "entering"
  /\ sessions' = [sessions EXCEPT ![kick[k].conv] = k]
  /\ resumed' = IF b = Nothing THEN resumed ELSE [resumed EXCEPT ![b] = @ + 1]
  /\ Goto(k, "driving")
  /\ UNCHANGED <<awakes, row, asked, faults>>

\* React enters gateway.driving, and the agent is handed the batch's results.
Enter(k) ==
  LET b == kick[k].batch IN
  /\ kick[k].pc = "entering"
  /\ sessions[kick[k].conv] = Nobody
  /\ sessions' = [sessions EXCEPT ![kick[k].conv] = k]
  /\ resumed' = IF b = Nothing THEN resumed ELSE [resumed EXCEPT ![b] = @ + 1]
  /\ Goto(k, "driving")
  /\ UNCHANGED <<awakes, row, asked, faults>>

\* The conversation already has a turn at the gateway: RuntimeError.
EnterRefused(k) ==
  /\ kick[k].pc = "entering"
  /\ sessions[kick[k].conv] # Nobody
  /\ Goto(k, "leaving")
  /\ UNCHANGED <<awakes, sessions, row, asked, resumed, faults>>

\* The run parks questions and approvals for a human; it may go on or end.
Ask(k, b) ==
  /\ kick[k].pc = "driving"
  /\ row[b].status = "absent"
  /\ row' = [row EXCEPT ![b] = NewRow]
  /\ asked' = [asked EXCEPT ![b] = [source |-> kick[k].source, conv |-> kick[k].conv]]
  /\ UNCHANGED <<awakes, sessions, kick, resumed, faults>>

Driven(k) ==
  /\ kick[k].pc = "driving"
  /\ Goto(k, IF kick[k].batch = Nothing THEN "finishing" ELSE "recording")
  /\ UNCHANGED <<awakes, sessions, row, asked, resumed, faults>>

Record(k) ==
  /\ kick[k].pc = "recording"
  /\ row' = [row EXCEPT ![kick[k].batch] = Marked(@, @, "completed")]
  /\ Become(k, [kick[k] EXCEPT !.pc = "finishing", !.batch = Nothing])
  /\ UNCHANGED <<awakes, sessions, asked, resumed, faults>>

Released(k) == [t \in Threads |-> IF sessions[t] = k THEN Nobody ELSE sessions[t]]

\* Variant: the conversation is not let go.
FinishHolding(k) ==
  /\ kick[k].pc = "finishing"
  /\ Goto(k, "leaving")
  /\ UNCHANGED <<awakes, sessions, row, asked, resumed, faults>>

Finish(k) ==
  /\ kick[k].pc = "finishing"
  /\ sessions' = Released(k)
  /\ Goto(k, "leaving")
  /\ UNCHANGED <<awakes, row, asked, resumed, faults>>

\* The run ended on a teleport: React runs again where it landed.  A call the
\* agent resumes keeps its source; a prompt from the console is asked there.
Teleport(k, t) ==
  /\ kick[k].pc = "finishing"
  /\ kick[k].conv = kick[k].on /\ t # kick[k].on
  /\ sessions' = Released(k)
  /\ \E s \in {kick[k].source, t} :
       Become(k, [kick[k] EXCEPT !.pc = "entering", !.conv = t, !.source = s])
  /\ UNCHANGED <<awakes, row, asked, resumed, faults>>

\* Anything raised in the graph, a cancellation included.
Fail(k) ==
  /\ kick[k].pc \in Running
  /\ faults < MaxFaults
  /\ faults' = faults + 1
  /\ sessions' = Released(k)
  /\ Goto(k, "leaving")
  /\ UNCHANGED <<awakes, row, asked, resumed>>

\* reflex()'s finally lets the thread go before the nerve drains the stream.
Leave(k) ==
  /\ kick[k].pc = "leaving"
  /\ awakes' = [awakes EXCEPT ![kick[k].on] = Nobody]
  /\ Goto(k, "draining")
  /\ UNCHANGED <<sessions, row, asked, resumed, faults>>

Drained(k) ==
  /\ kick[k].pc = "draining"
  /\ Goto(k, "over")
  /\ UNCHANGED <<awakes, sessions, row, asked, resumed, faults>>

\* The done callback, which must not take the thread from a later reflex.
Release(k) ==
  /\ kick[k].pc = "over"
  /\ awakes' = IF awakes[kick[k].on] = k
                 THEN [awakes EXCEPT ![kick[k].on] = Nobody] ELSE awakes
  /\ Gone(k, "done")
  /\ UNCHANGED <<sessions, row, asked, resumed, faults>>

\* The process dies and is started again: the rows are all that is left.
Restart ==
  /\ faults < MaxFaults
  /\ faults' = faults + 1
  /\ awakes' = [t \in Threads |-> Nobody]
  /\ sessions' = [t \in Threads |-> Nobody]
  /\ kick' = [k \in Kicks |->
                IF kick[k].pc \in {"idle", "refused"} THEN kick[k]
                                                     ELSE [Idle EXCEPT !.pc = "done"]]
  /\ UNCHANGED <<row, asked, resumed>>

-----------------------------------------------------------------------------
Call(k) ==
  \/ \E t \in Threads : AskTurn(k, t)
  \/ \E b \in Batches : \/ \E as \in (SUBSET Actions) \ {{}} : Answer(k, b, as)
                        \/ \E a \in Actions : Press(k, b, a)
  \/ Watch(k) \/ Admit(k) \/ PressCommit(k)

Resume(k) == ReadRow(k) \/ CommitRow(k) \/ Claim(k)

Run(k) ==
  \/ Enter(k) \/ EnterRefused(k) \/ Driven(k) \/ Record(k) \/ Finish(k)
  \/ \E b \in Batches : Ask(k, b)
  \/ \E t \in Threads : Teleport(k, t)

Task(k) == CancelCreated(k) \/ Start(k) \/ Fail(k) \/ Leave(k) \/ Drained(k) \/ Release(k)

Next == (\E k \in Kicks : Call(k) \/ Resume(k) \/ Run(k) \/ Task(k)) \/ Restart

\* The event loop runs what is ready and an agent's run ends; nothing makes a
\* human write or answer, a run ask or move, a task fail or be cancelled.
Fairness ==
  \A k \in Kicks :
    /\ WF_vars(Watch(k)) /\ WF_vars(Admit(k)) /\ WF_vars(PressCommit(k))
    /\ WF_vars(Start(k)) /\ WF_vars(Resume(k))
    /\ WF_vars(Enter(k) \/ EnterRefused(k)) /\ WF_vars(Driven(k))
    /\ WF_vars(Record(k)) /\ WF_vars(Finish(k))
    /\ WF_vars(Leave(k)) /\ WF_vars(Drained(k)) /\ WF_vars(Release(k))

Spec == Init /\ [][Next]_vars /\ Fairness

-----------------------------------------------------------------------------
(* Properties.                                                             *)

\* A thread holds one reflex at a time: between the check in kick and the
\* `del self.awakes[thread]` of the task no other reflex is awake on it, though
\* answers wait there, done callbacks run late and tasks are cancelled.
OneReflexPerThread ==
  \A j, k \in Kicks :
    kick[j].pc \in Awake /\ kick[k].pc \in Awake /\ kick[j].on = kick[k].on => j = k

\* A conversation is driven by one run at a time, also when two threads' turns
\* meet in it after a teleport (GatewayManager.driving).
OneRunPerConversation ==
  \A j, k \in Kicks :
    kick[j].pc \in Driving /\ kick[k].pc \in Driving /\ kick[j].conv = kick[k].conv
      => j = k

\* A resolved batch resumes its run at most once, whatever double clicks,
\* retries, failures and restarts the answers go through.
ResumedOnce == \A b \in Batches : resumed[b] <= 1

\* The agent is only handed results when every action has one, the row being
\* read again by React (build_results) after it was judged complete.
ResumedWhole ==
  [][\A b \in Batches : resumed'[b] # resumed[b] => Completed(row[b])]_vars

\* Buttons and other replies do not meet: only one kind of them was made so far.
OneKind ==
  \E kind \in {Presses, Replies \ Presses} : \A k \in kind : kick[k].pc = "idle"

\* A batch whose last action was settled is known to be settled: it does not
\* stay pending once nobody is working on it.  Replies serialize on the thread
\* and buttons on the batch's lock; a button and a reply do not on each other.
SettledIsKnown == OneKind =>
  \A b \in Batches :
    /\ row[b].status = "pending" /\ Completed(row[b])
    => \E k \in Kicks : kick[k].pc \in {"pressing", "committing"} /\ kick[k].batch = b

\* A claimed batch is either in the hands of a reflex or was resumed: a second
\* answer would be told "already completed" and drop the run.
ClaimIsCarried ==
  \A b \in Batches :
    row[b].status = "resuming" /\ resumed[b] = 0 =>
      \E k \in Kicks : kick[k].pc = "entering" /\ kick[k].batch = b

\* An answered run is resumed: without faults, and with a conversation of its
\* own, the answer outlasts whatever holds the thread.
AnsweredIsResumed ==
  \A b \in Batches :
    (\E k \in Kicks : kick[k].pc = "waiting" /\ kick[k].batch = b /\ kick[k].acts = Actions)
      ~> resumed[b] > 0

\* A batch is asked, settled, claimed, resumed and completed, once each and in
\* this order.
LifeOf == [b \in Batches |-> IF row[b].status # "resuming" THEN row[b].status
                             ELSE IF resumed[b] = 0 THEN "claimed" ELSE "resumed"]
Life == INSTANCE SuspendedRun WITH life <- LifeOf
SuspendsAndResumes == Life!Spec
=============================================================================
