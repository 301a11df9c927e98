------------------------------ MODULE Deliveries ------------------------------
(***************************************************************************)
(* Commands given to a conversation (managers/commands.py validate and     *)
(* execute, reflex/nodes/command.py).                                      *)
(*                                                                         *)
(* A command arrives as a delivery; whoever sends it may send it again,    *)
(* when the answer got lost, while the first is still at work, or after a  *)
(* restart. Its effects in the runtime cannot be taken back, so a receipt  *)
(* in the ledger says that it was accepted, and later what came of it.     *)
(***************************************************************************)
EXTENDS Integers, FiniteSets

CONSTANTS Deliveries,  \* what identifies a request
          Attempts,    \* times one is sent
          MaxFaults,   \* commits that fail, cancellations, deaths of the process
          Turn,        \* what drives the conversation when a chat turn does
          Nobody       \* when nobody does

ASSUME DeliveriesAssumption ==
    /\ MaxFaults \in Nat
    /\ Nobody \notin Attempts \cup {Turn}
    /\ Turn \notin Attempts

VARIABLES
    guard,    \* who drives the conversation (gateway.sessions)
    attempt,  \* the attempts: the await they are at, what became of the command
    receipt,  \* the ledger's row of a delivery and its outcome
    effects,  \* what the runtime did for a delivery
    begun,    \* history: how often it was dispatched
    faults

vars == <<guard, attempt, receipt, effects, begun, faults>>

Outcomes == {"completed", "failed"}
Attempt(pc, d, told) == [pc |-> pc, of |-> d, outcome |-> "none", told |-> told]
NotSent == Attempt("idle", "none", "none")
Holding == {"discovering", "checking", "accepting", "stored", "running", "streaming",
            "recording", "leaving"}

TypeOK ==
    /\ guard \in Attempts \cup {Turn, Nobody}
    /\ attempt \in [Attempts ->
                      [pc : Holding \cup {"idle", "over"}, of : Deliveries \cup {"none"},
                       outcome : Outcomes \cup {"none"},
                       told : Outcomes \cup {"none", "busy", "refused", "accepted"}]]
    /\ receipt \in [Deliveries -> Outcomes \cup {"none", "open"}]
    /\ effects \in [Deliveries -> {"none", "begun", "done"}]
    /\ begun \in [Deliveries -> Nat]
    /\ faults \in 0 .. MaxFaults

Init ==
    /\ guard = Nobody
    /\ attempt = [a \in Attempts |-> NotSent]
    /\ receipt = [d \in Deliveries |-> "none"]
    /\ effects = [d \in Deliveries |-> "none"]
    /\ begun = [d \in Deliveries |-> 0]
    /\ faults = 0

Goes(a, pc) == attempt' = [attempt EXCEPT ![a].pc = pc]
GoesWith(a, pc, o) == attempt' = [attempt EXCEPT ![a].pc = pc, ![a].outcome = o]
IsTold(a, s) == attempt' = [attempt EXCEPT ![a].pc = "leaving", ![a].told = s]

-----------------------------------------------------------------------------
(* A chat turn holds the same guard. *)

StartTurn ==
    /\ guard = Nobody
    /\ guard' = Turn
    /\ UNCHANGED <<attempt, receipt, effects, begun, faults>>

EndTurn ==
    /\ guard = Turn
    /\ guard' = Nobody
    /\ UNCHANGED <<attempt, receipt, effects, begun, faults>>

-----------------------------------------------------------------------------
(* validate *)

(* The guard is looked at and taken with no await in between. *)
Send(a, d) ==
    /\ attempt[a].pc = "idle"
    /\ IF guard = Nobody
       THEN /\ guard' = a
            /\ attempt' = [attempt EXCEPT ![a] = Attempt("discovering", d, "none")]
       ELSE /\ attempt' = [attempt EXCEPT ![a] = Attempt("over", d, "busy")]
            /\ UNCHANGED guard
    /\ UNCHANGED <<receipt, effects, begun, faults>>

(* The catalog is refreshed, access and context are checked: no longer there,  *)
(* no longer theirs, or changed since.                                         *)
Check(a) ==
    /\ attempt[a].pc = "discovering"
    /\ Goes(a, "checking") \/ IsTold(a, "refused")
    /\ UNCHANGED <<guard, receipt, effects, begun, faults>>

(* Variant: a receipt counts once it has an outcome. *)
RecordedOutcome(d) == receipt[d] \in Outcomes

Recorded(d) == receipt[d] # "none"

(* A delivery with a receipt is answered from it. Of another the catalog may   *)
(* say that the command is gone or cannot run here.                            *)
Find(a) ==
    LET d == attempt[a].of IN
    /\ attempt[a].pc = "checking"
    /\ IF Recorded(d)
       THEN IsTold(a, IF receipt[d] = "open" THEN "accepted" ELSE receipt[d])
       ELSE Goes(a, "accepting") \/ IsTold(a, "refused")
    /\ UNCHANGED <<guard, receipt, effects, begun, faults>>

-----------------------------------------------------------------------------
(* execute *)

(* The receipt is committed before anything is dispatched. *)
Store(a) ==
    /\ attempt[a].pc = "accepting"
    /\ receipt' = [receipt EXCEPT ![attempt[a].of] = "open"]
    /\ Goes(a, "stored")
    /\ UNCHANGED <<guard, effects, begun, faults>>

Dispatch(a) ==
    /\ attempt[a].pc = "stored"
    /\ begun' = [begun EXCEPT ![attempt[a].of] = @ + 1]
    /\ effects' = [effects EXCEPT ![attempt[a].of] = "begun"]
    /\ Goes(a, "running")
    /\ UNCHANGED <<guard, receipt, faults>>

(* The adapter answers directly: the command did its work, was refused by the  *)
(* runtime, or the adapter broke on the way.                                   *)
Direct(a) ==
    /\ attempt[a].pc = "running"
    /\ \/ /\ effects' = [effects EXCEPT ![attempt[a].of] = "done"]
          /\ \E o \in Outcomes : GoesWith(a, "recording", o)
       \/ /\ GoesWith(a, "recording", "failed")
          /\ UNCHANGED effects
    /\ UNCHANGED <<guard, receipt, begun, faults>>

(* Its first event is not an outcome: a run, streamed to the reflex. *)
Stream(a) ==
    /\ attempt[a].pc = "running"
    /\ Goes(a, "streaming")
    /\ UNCHANGED <<guard, receipt, effects, begun, faults>>

(* Variant: a stream counts as completed before its end. *)
Hopeful == "completed"

(* What is recorded of a stream nobody read to its end (record_stream). *)
Interrupted == "failed"

(* The stream ends and its cleanup with it; or its reader leaves, or the       *)
(* cleanup fails.                                                              *)
EndStream(a) ==
    /\ attempt[a].pc = "streaming"
    /\ \/ /\ effects' = [effects EXCEPT ![attempt[a].of] = "done"]
          /\ \E o \in {"completed", Interrupted} : GoesWith(a, "recording", o)
       \/ /\ GoesWith(a, "recording", Interrupted)
          /\ UNCHANGED effects
    /\ UNCHANGED <<guard, receipt, begun, faults>>

(* record_command_outcome. *)
Record(a) ==
    /\ attempt[a].pc = "recording"
    /\ receipt' = [receipt EXCEPT ![attempt[a].of] = attempt[a].outcome]
    /\ IsTold(a, attempt[a].outcome)
    /\ UNCHANGED <<guard, effects, begun, faults>>

(* Variant: only an attempt that came to no outcome lets go. *)
KeptBy(a) == IF attempt[a].outcome = "none" THEN Nobody ELSE a

(* The guard of whoever leaves. *)
ReleasedBy(a) == Nobody

Leave(a) ==
    /\ attempt[a].pc = "leaving"
    /\ guard' = ReleasedBy(a)
    /\ Goes(a, "over")
    /\ UNCHANGED <<receipt, effects, begun, faults>>

-----------------------------------------------------------------------------
(* Faults *)

(* A cancellation. While the command runs it is recorded as unfinished;        *)
(* anywhere else the call only ends, a stored receipt staying as it is.        *)
Cancel(a) ==
    /\ faults < MaxFaults
    /\ attempt[a].pc \in Holding \ {"leaving"}
    /\ IF attempt[a].pc \in {"running", "streaming"}
       THEN GoesWith(a, "recording", Interrupted)
       ELSE Goes(a, "leaving")
    /\ faults' = faults + 1
    /\ UNCHANGED <<guard, receipt, effects, begun>>

(* A commit of the receipt or of its outcome fails. *)
FailToCommit(a) ==
    /\ faults < MaxFaults
    /\ attempt[a].pc \in {"accepting", "recording"}
    /\ Goes(a, "leaving")
    /\ faults' = faults + 1
    /\ UNCHANGED <<guard, receipt, effects, begun>>

(* The process dies: attempts and guard go, rows and effects stay. *)
Crash ==
    /\ faults < MaxFaults
    /\ guard' = Nobody
    /\ attempt' = [a \in Attempts |-> IF attempt[a].pc = "idle" THEN attempt[a]
                                      ELSE [attempt[a] EXCEPT !.pc = "over"]]
    /\ faults' = faults + 1
    /\ UNCHANGED <<receipt, effects, begun>>

-----------------------------------------------------------------------------
Step(a) ==
    \/ Check(a) \/ Find(a)
    \/ Store(a) \/ Dispatch(a) \/ Direct(a) \/ Stream(a) \/ EndStream(a) \/ Record(a)
    \/ Leave(a)

Next ==
    \/ StartTurn \/ EndTurn
    \/ \E a \in Attempts, d \in Deliveries : Send(a, d)
    \/ \E a \in Attempts : Step(a) \/ Cancel(a) \/ FailToCommit(a)
    \/ Crash

(* What holds the guard runs on; nobody need send anything. *)
Fairness ==
    /\ WF_vars(EndTurn)
    /\ \A a \in Attempts : WF_vars(Step(a))

Spec == Init /\ [][Next]_vars /\ Fairness

-----------------------------------------------------------------------------
(* Properties *)

(* A delivery is dispatched once, however often it is sent, across failures    *)
(* and restarts (validate, execute: "persistence failure never repeats runtime *)
(* effects").                                                                  *)
ExecutedOnce == \A d \in Deliveries : begun[d] <= 1

(* A delivery that is said to be completed is: in its receipt, and to whoever  *)
(* sent it again (record_stream, validate).                                    *)
CompletedIsDone ==
    /\ \A d \in Deliveries : receipt[d] = "completed" => effects[d] = "done"
    /\ \A a \in Attempts : attempt[a].told = "completed" => effects[attempt[a].of] = "done"

(* An outcome, once recorded, is what every later attempt is told. *)
OutcomeStands ==
    [][\A d \in Deliveries : receipt[d] \in Outcomes => receipt'[d] = receipt[d]]_vars

(* Whatever goes wrong, the conversation can be driven again. *)
GuardIsFreed == guard # Nobody ~> guard = Nobody
=============================================================================
