---------------------------- MODULE LiveRequest ----------------------------
(***************************************************************************)
(* A live request: an agent parked in the middle of a run on one human     *)
(* answer, as `_await_human` of the Claude, Codex and DeepSeek harnesses   *)
(* parks it, against everything that can reach it meanwhile: replies       *)
(* through Octomate.kick, presses of a Discord button (which settle the    *)
(* row before they kick), the approval timeout, cancellation of the run,   *)
(* shutdown of the tentacle, and the death and restart of the process.     *)
(*                                                                         *)
(* Requests are keyed by their batch id and share nothing, so one is       *)
(* modelled.  A live request of these harnesses is one approval or the     *)
(* questions of one call, and a reply answers it whole.                    *)
(***************************************************************************)
EXTENDS BatchRow

CONSTANTS
  Presses,           \* the replies that come from a Discord approval button
  ApprovalTimeout,   \* whether an approval timeout is configured
  Nobody             \* no reply, no holder of the button's lock

ASSUME PressesReply == Presses \subseteq Replies
ASSUME TimeoutIsSetOrNot == ApprovalTimeout \in BOOLEAN
ASSUME NobodyIsNoReply ==
         Nobody \notin Replies \cup {"pending", "expired", "failed", "cancelled"}

VARIABLES
  row,         \* the batch's row in the database
  agent,       \* the parked run: where it is in _await_human
  future,      \* the future it waits on: "pending", "cancelled" or a reply
  registered,  \* whether AgentTentacle.pendings maps the batch to the future
  reply,       \* each reply: where its handler is
  lock,        \* DiscordComponentRouter.callback_locks[batch]: its holder
  host         \* the Octomate process: "up", "stopping" or "down"

vars == <<row, agent, future, registered, reply, lock, host>>

Parked == {"pausing", "persisted", "waiting", "expiring", "marking", "marked",
           "resolving", "committing"}
Ended  == {"answered", "denied", "cancelled", "raised", "lost"}

TypeOK ==
  /\ row \in Row
  /\ agent \in [pc : Parked \cup Ended, got : Replies \cup {Nobody},
                seen : Row, cancelled : BOOLEAN]
  /\ future \in Replies \cup {"pending", "cancelled"}
  /\ registered \in BOOLEAN
  /\ reply \in [Replies -> [pc : {"idle", "pressing", "kicking", "accepted",
                                  "refused"}, seen : Row]]
  /\ lock \in Presses \cup {Nobody}
  /\ host \in {"up", "stopping", "down"}

\* The future is registered before the batch is persisted.
Init ==
  /\ row = NoRow
  /\ agent = [pc |-> "pausing", got |-> Nobody, seen |-> NoRow, cancelled |-> FALSE]
  /\ future = "pending"
  /\ registered = TRUE
  /\ reply = [r \in Replies |-> [pc |-> "idle", seen |-> NoRow]]
  /\ lock = Nobody
  /\ host = "up"

-----------------------------------------------------------------------------
(* The parked run.                                                         *)

Goto(pc) == agent' = [agent EXCEPT !.pc = pc]

\* suspender.pause: the batch is committed, then read back and returned.
Persist ==
  /\ agent.pc = "pausing"
  /\ row' = NewRow
  /\ Goto("persisted")
  /\ UNCHANGED <<future, registered, reply, lock, host>>

\* The batch's cards go out on the run's stream and the wait begins.
Present ==
  /\ agent.pc = "persisted"
  /\ Goto("waiting")
  /\ UNCHANGED <<row, future, registered, reply, lock, host>>

\* A cancellation inside pause is outside the inner try: only the finally runs.
CancelPause ==
  /\ agent.pc \in {"pausing", "persisted"}
  /\ registered' = FALSE
  /\ Goto("cancelled")
  /\ UNCHANGED <<row, future, reply, lock, host>>

\* The wait is answered; the finally unregisters the future first.
Wake ==
  /\ agent.pc = "waiting"
  /\ future \in Replies
  /\ registered' = FALSE
  /\ agent' = [agent EXCEPT !.pc = "resolving", !.got = future]
  /\ UNCHANGED <<row, future, reply, lock, host>>

\* Variant: the setting is tested the wrong way round.
TimeoutUnset ==
  /\ ~ApprovalTimeout
  /\ agent.pc = "waiting"
  /\ Goto("expiring")
  /\ UNCHANGED <<row, future, registered, reply, lock, host>>

\* wait_for raises whatever the future holds by the time its timer fires.
Timeout ==
  /\ ApprovalTimeout
  /\ agent.pc = "waiting"
  /\ Goto("expiring")
  /\ UNCHANGED <<row, future, registered, reply, lock, host>>

\* The run is cancelled, or shutdown cancelled the future it waits on; the
\* drained mark_batch only defers a cancellation that arrives during it.
Cancel ==
  /\ agent.pc \in {"waiting", "expiring", "marking", "marked"}
  /\ agent' = [agent EXCEPT !.cancelled = TRUE,
                            !.pc = IF @ = "waiting" THEN "expiring" ELSE @]
  /\ UNCHANGED <<row, future, registered, reply, lock, host>>

\* mark_batch(expired) reads the row ...
ExpireRead ==
  /\ agent.pc = "expiring"
  /\ agent' = [agent EXCEPT !.pc = "marking", !.seen = row]
  /\ UNCHANGED <<row, future, registered, reply, lock, host>>

\* Variant: the tool is denied and the batch left open.
ExpireNothing ==
  /\ agent.pc = "marking"
  /\ Goto("marked")
  /\ UNCHANGED <<row, future, registered, reply, lock, host>>

\* ... and commits, while the future is still registered.
ExpireCommit ==
  /\ agent.pc = "marking"
  /\ row' = Marked(agent.seen, row, "expired")
  /\ Goto("marked")
  /\ UNCHANGED <<future, registered, reply, lock, host>>

\* The finally, after mark_batch published the update.
Unregister ==
  /\ agent.pc = "marked"
  /\ registered' = FALSE
  /\ Goto(IF agent.cancelled THEN "cancelled" ELSE "denied")
  /\ UNCHANGED <<row, future, reply, lock, host>>

\* resolve_batch(response): the row is read; a closed one is not written.
ResolveRead ==
  /\ agent.pc = "resolving"
  /\ agent' = [agent EXCEPT !.seen = row,
                 !.pc = IF row.status \in Settled THEN "answered"
                        ELSE IF row.status \in Refused THEN "raised"
                        ELSE "committing"]
  /\ UNCHANGED <<row, future, registered, reply, lock, host>>

ResolveCommit ==
  /\ agent.pc = "committing"
  /\ row' = Resolved(agent.seen, row, agent.got, Actions)
  /\ Goto("answered")
  /\ UNCHANGED <<future, registered, reply, lock, host>>

\* A cancellation while the answer is being recorded is not deferred.
CancelResolve ==
  /\ agent.pc \in {"resolving", "committing"}
  /\ Goto("cancelled")
  /\ UNCHANGED <<row, future, registered, reply, lock, host>>

-----------------------------------------------------------------------------
(* The humans.  A card names the batch once its row exists.                *)

Reply(r, pc) == reply' = [reply EXCEPT ![r].pc = pc]

\* A channel hands a reply to Octomate.kick, which reads the batch's mode.
Kick(r) ==
  /\ r \notin Presses
  /\ reply[r].pc = "idle"
  /\ row.status # "absent"
  /\ host # "down"
  /\ Reply(r, "kicking")
  /\ UNCHANGED <<row, agent, future, registered, lock, host>>

\* A Discord approval takes the batch's lock and reads the row; a batch that
\* is no longer pending is refused to the user.
Press(r) ==
  /\ r \in Presses
  /\ reply[r].pc = "idle"
  /\ row.status # "absent"
  /\ host # "down"
  /\ lock = Nobody
  /\ IF Closed(row) \/ Completed(row)
       THEN Reply(r, "refused") /\ lock' = lock
       ELSE /\ reply' = [reply EXCEPT ![r] = [pc |-> "pressing", seen |-> row]]
            /\ lock' = r
  /\ UNCHANGED <<row, agent, future, registered, host>>

\* Its resolve_batch commits; the settled card is kicked outside the lock.
PressCommit(r) ==
  /\ reply[r].pc = "pressing"
  /\ row' = Resolved(reply[r].seen, row, r, Actions)
  /\ lock' = Nobody
  /\ Reply(r, "kicking")
  /\ UNCHANGED <<agent, future, registered, host>>

\* deliver_live_response: a reply nobody waits for raises; one that finds the
\* future done is dropped, and told it was delivered.
Deliver(r) ==
  /\ reply[r].pc = "kicking"
  /\ Reply(r, IF registered THEN "accepted" ELSE "refused")
  /\ future' = IF registered /\ future = "pending" THEN r ELSE future
  /\ UNCHANGED <<row, agent, registered, lock, host>>

-----------------------------------------------------------------------------
(* The process.                                                            *)

\* The tentacle's exit cancels every undone future and forgets them all.
Shutdown ==
  /\ host = "up"
  /\ host' = "stopping"
  /\ future' = IF registered /\ future = "pending" THEN "cancelled" ELSE future
  /\ registered' = FALSE
  /\ UNCHANGED <<row, agent, reply, lock>>

\* The parked run wakes on the future shutdown cancelled.
WakeCancelled ==
  /\ agent.pc = "waiting"
  /\ future = "cancelled"
  /\ agent' = [agent EXCEPT !.pc = "expiring", !.cancelled = TRUE]
  /\ UNCHANGED <<row, future, registered, reply, lock, host>>

\* The process dies with every run, future, lock and request handler in it.
Crash ==
  /\ host # "down"
  /\ host' = "down"
  /\ agent' = [agent EXCEPT !.pc = IF @ \in Ended THEN @ ELSE "lost"]
  /\ registered' = FALSE
  /\ lock' = Nobody
  /\ reply' = [r \in Replies |->
                 IF reply[r].pc \in {"pressing", "kicking"}
                   THEN [reply[r] EXCEPT !.pc = "refused"] ELSE reply[r]]
  /\ UNCHANGED <<row, future>>

\* Variant: nothing is expired at startup.
RestartAsIs ==
  /\ host = "down"
  /\ host' = "up"
  /\ UNCHANGED <<row, agent, future, registered, reply, lock>>

\* expire_live runs before the server listens.
Restart ==
  /\ host = "down"
  /\ host' = "up"
  /\ row' = IF row.status = "pending" THEN Marked(row, row, "expired") ELSE row
  /\ UNCHANGED <<agent, future, registered, reply, lock>>

-----------------------------------------------------------------------------
Next ==
  \/ Persist \/ Present \/ CancelPause
  \/ Wake \/ Timeout \/ Cancel \/ WakeCancelled
  \/ ExpireRead \/ ExpireCommit \/ Unregister
  \/ ResolveRead \/ ResolveCommit \/ CancelResolve
  \/ \E r \in Replies : Kick(r) \/ Press(r) \/ PressCommit(r) \/ Deliver(r)
  \/ Shutdown \/ Crash \/ Restart

\* The event loop runs every ready step, and the timer fires; nothing makes a
\* human answer, a run be cancelled or the process stop.
Fairness ==
  /\ WF_vars(Persist) /\ WF_vars(Present)
  /\ WF_vars(Wake) /\ WF_vars(WakeCancelled) /\ WF_vars(Timeout)
  /\ WF_vars(ExpireRead) /\ WF_vars(ExpireCommit) /\ WF_vars(Unregister)
  /\ WF_vars(ResolveRead) /\ WF_vars(ResolveCommit)
  /\ \A r \in Replies : WF_vars(PressCommit(r)) /\ WF_vars(Deliver(r))

Spec == Init /\ [][Next]_vars /\ Fairness

-----------------------------------------------------------------------------
(* Properties.                                                             *)

\* Only the run has written its row: no button was pressed on the open card.
Unpressed == \A r \in Presses : reply[r].seen = NoRow

\* What the run was told is what the row says: a run that went on with a reply
\* has that reply committed, a run whose tool was denied has an expired row.
\* _await_human decides between the two while replies and the timer race.
RunAgreesWithRow == Unpressed =>
  /\ agent.pc = "answered" =>
       row.status = "resolved" /\ \A a \in Actions : row.acts[a] = agent.got
  /\ agent.pc = "denied" => row.status = "expired"

\* A row that still invites an answer has a run waiting for it, unless that
\* run was cancelled: no run goes on, and no restart leaves, an open card
\* behind (expire_live, and the order of the finally and resolve_batch).
PendingIsAwaited ==
  row.status = "pending" /\ host # "down" =>
    agent.pc \in Parked \cup {"cancelled"}

\* Once the run went on without a reply or with another, a reply is told so:
\* the future is unregistered before the run moves (kick raises "no longer
\* awaiting a response").
LateReplyRefused ==
  [][\A r \in Replies :
       agent.pc \in Ended \cup {"resolving", "committing"} /\ reply[r].pc = "kicking"
         => reply'[r].pc # "accepted"]_vars

\* A human's decision is final once committed: nothing that runs later, the
\* timeout and the restart included, replaces it, reopens or expires the row.
AnswerStands == [][row.status = "resolved" /\ Unpressed => row' = row]_vars

\* A parked tool call never hangs: it is answered, denied or cancelled, with
\* the default timeout and nobody answering.
Unblocks == agent.pc = "waiting" ~> agent.pc \in Ended

=============================================================================
