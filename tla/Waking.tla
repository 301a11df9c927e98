------------------------------- MODULE Waking -------------------------------
(***************************************************************************)
(* The nerve as the reflex uses it: a kick holds its thread, says it is    *)
(* awake before anything else and asleep after everything else, and lets   *)
(* the thread go as it says so.  Clients follow a thread, kick, and read   *)
(* until they hear a reflex fall asleep (Octomate.kick, run_reflex, and    *)
(* drive and read_events of the ACP broker).                               *)
(***************************************************************************)
EXTENDS Nerve

CONSTANTS
  Clients,  \* the readers: each kicks, and reads until its turn is over
  Nobody    \* no kick

ASSUME ClientsRead == Clients = Readers
ASSUME WakingEvents == Events = {"awake", "word", "asleep"}
ASSUME KicksAreAsked == Nobody \notin Publishers /\ Nowhere \notin Range(Asked)

VARIABLES
  awakes,   \* Octomate.awakes: the kick awake on each thread
  client    \* each client: the kick it waits for, and how its reading ended

wvars == <<vars, awakes, client>>

WTypeOK ==
  /\ TypeOK
  /\ awakes \in [Threads -> Publishers \cup {Nobody}]
  /\ client \in [Clients -> [kick : Publishers \cup {Nobody},
                           heard : {"nothing", "end", "behind"}]]

WInit ==
  /\ Init
  /\ awakes = [t \in Threads |-> Nobody]
  /\ client = [c \in Clients |-> [kick |-> Nobody, heard |-> "nothing"]]

Thread(p) == <<"thread", Asked[p]>>
Said(p, event) == Len(sent[p]) > 0 /\ sent[p][Len(sent[p])].event = event

\* kick: refused while a reflex is awake on the thread.
Wakes(p) == awakes[Asked[p]] = Nobody /\ awakes' = [awakes EXCEPT ![Asked[p]] = p] /\ Opens(p)

\* A kick through a channel, which follows the thread by its own subscription.
Kick(p) == Wakes(p) /\ UNCHANGED <<fiber, reader, sent, said, client>>

\* drive with a message: it subscribes, and kicks before it waits for anything.
Prompt(c, p) ==
  /\ client[c].kick = Nobody
  /\ Joins(c, Thread(p))
  /\ Wakes(p)
  /\ client' = [client EXCEPT ![c].kick = p]
  /\ UNCHANGED <<fiber, sent, said>>

\* drive with an answer: it subscribes, and kick waits until the thread is free.
Answer(c) ==
  /\ client[c].kick = Nobody
  /\ \E p \in Publishers : block[p] = "new" /\ Joins(c, Thread(p))
  /\ UNCHANGED <<block, fiber, sent, said, awakes, client>>

Answered(c, p) ==
  /\ client[c].kick = Nobody
  /\ reader[c].topic = Thread(p)
  /\ Wakes(p)
  /\ client' = [client EXCEPT ![c].kick = p]
  /\ UNCHANGED <<fiber, reader, sent, said>>

\* The reflex wakes, speaks, ...
Speak(p, at) ==
  /\ ~Said(p, "asleep")
  /\ IF sent[p] = <<>> THEN Send(p, "awake", Asked[p], FALSE)
                       ELSE Len(sent[p]) < MaxSent - 1 /\ Send(p, "word", at, FALSE)
  /\ UNCHANGED <<awakes, client>>

\* Variant: the thread is let go when the nerve is done with the kick.
SleepHolding(p) ==
  /\ sent[p] # <<>> /\ ~Said(p, "asleep")
  /\ \E at \in Threads : Send(p, "asleep", at, FALSE)
  /\ UNCHANGED <<awakes, client>>

\* ... and falls asleep, where it got to; nothing it sent is heard before the thread
\* is let go, in the same step.
Sleep(p) ==
  /\ sent[p] # <<>> /\ ~Said(p, "asleep")
  /\ \E at \in Threads : Send(p, "asleep", at, FALSE)
  /\ awakes' = [awakes EXCEPT ![Asked[p]] = Nobody]
  /\ UNCHANGED client

\* The block of the kick ends with it; the done callback lets go what is its own.
Ends(p) == Said(p, "asleep") /\ Close(p) /\ UNCHANGED awakes
Freed(p) == awakes' = [t \in Threads |-> IF awakes[t] = p THEN Nobody ELSE awakes[t]]

Drain(p) ==
  /\ Ends(p) \/ (Pump(p) /\ UNCHANGED awakes) \/ (Over(p) /\ Freed(p))
  /\ UNCHANGED client

\* The task is cancelled while it awaits the pump.
Cancel(p) == Cut(p) /\ Freed(p) /\ UNCHANGED client

Done(c, heard) == client' = [client EXCEPT ![c].heard = heard]

\* read_events, once it kicked: the first reflex heard falling asleep ends the turn.
Kicked(c) == client[c].kick # Nobody
Asleep(c) == reader[c].held # <<>> /\ Head(reader[c].held).event = "asleep"

Follow(c) == Kicked(c) /\ ~Asleep(c) /\ Take(c) /\ UNCHANGED <<awakes, client>>
Settle(c) == Kicked(c) /\ Asleep(c) /\ Leave(c) /\ Done(c, "end") /\ UNCHANGED awakes

\* It fell behind: its stream ends, which it raises.
FallBehind(c) == Kicked(c) /\ End(c) /\ Done(c, "behind") /\ UNCHANGED awakes

WNext ==
  \/ \E p \in Publishers :
       \/ Kick(p) \/ Sleep(p) \/ Drain(p) \/ Cancel(p)
       \/ \E at \in Threads : Speak(p, at)
       \/ \E c \in Clients : Prompt(c, p) \/ Answered(c, p)
  \/ \E c \in Clients : Answer(c) \/ Follow(c) \/ Settle(c) \/ FallBehind(c)

\* The loop runs every task that can: reflexes end, pumps pump, clients read.
WFairness ==
  /\ \A p \in Publishers :
       /\ WF_wvars(\E at \in Threads : Speak(p, at)) /\ WF_wvars(Sleep(p))
       /\ WF_wvars(Drain(p))
  /\ \A c \in Clients :
       WF_wvars(Follow(c)) /\ WF_wvars(Settle(c)) /\ WF_wvars(FallBehind(c))

WSpec == WInit /\ [][WNext]_wvars /\ WFairness

-----------------------------------------------------------------------------
(* Properties.                                                             *)

\* Whoever hears a reflex fall asleep can kick there again: it has let its thread go
\* before that is delivered to anyone (kick).
HeardAsleepIsLetGo ==
  \A p \in Publishers : \A t \in Topics : \A k \in DOMAIN said[t] :
    said[t][k].by = p /\ said[t][k].event = "asleep" => awakes[Asked[p]] # p

=============================================================================
