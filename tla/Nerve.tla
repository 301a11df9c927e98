------------------------------- MODULE Nerve -------------------------------
(***************************************************************************)
(* The nerve: publish and subscribe in the process (nerve.py).             *)
(*                                                                         *)
(* A kick, or a native tail, publishes on a buffered fiber for as long as  *)
(* its block runs; a pump empties the fiber, delivering each impulse to    *)
(* the topics it belongs to.  Each subscriber has a fiber of its own, and  *)
(* one that falls further behind than its backlog is cut off.  To deliver  *)
(* an impulse waits for nothing: it is one step for all its topics.        *)
(***************************************************************************)
EXTENDS Naturals, Sequences, Functions

CONSTANTS
  Publishers,   \* blocks of Nerve.publish
  Host,         \* who delivers without a block: a spell no kick drives
  Readers,      \* blocks of Nerve.subscribe
  Threads,      \* what an impulse can happen at
  ChannelOf,    \* the channel of each thread
  Asked,        \* the thread each publisher was asked on
  Nowhere,      \* no address, no thread
  Events,       \* what an impulse says
  FiberBuffer,  \* FIBER_BUFFER: how far a publisher runs ahead of its pump
  Backlog,      \* how far each reader may fall behind
  MaxSent,      \* bound on the impulses of a publisher
  MaxTold       \* bound on those of the host

ASSUME HostIsNoPublisher == Host \notin Publishers
ASSUME AskedOnThreads == Asked \in [Publishers -> Threads \cup {Nowhere}]
ASSUME Limits ==
  /\ FiberBuffer \in Nat \ {0}
  /\ Backlog \in [Readers -> Nat \ {0}]
  /\ MaxSent \in Nat /\ MaxTold \in Nat

VARIABLES
  block,   \* each publisher: "new", "open", "closing" (it awaits its pump), "over",
           \* or "cut" (cancelled while it did)
  fiber,   \* each publisher's fiber: what it sent that the pump has yet to take
  reader,  \* each reader: its topic, its fiber, and how far it came
  sent,    \* history: what each publisher, and the host, sent
  said     \* history: what was delivered to each topic

vars == <<block, fiber, reader, sent, said>>

Topics == {<<"channel", ChannelOf[t]>> : t \in Threads} \cup {<<"thread", t>> : t \in Threads}

ASSUME NowhereIsNoPlace == Nowhere \notin Threads \cup Topics

Impulse == [by : Publishers \cup {Host}, n : Nat, event : Events,
            at : Threads \cup {Nowhere}, private : BOOLEAN]

\* listed: in Nerve.subscribers.  open: its send end.  since, read: history, what
\* its topic had been told when it subscribed and how many it took.
Reader == [topic : Topics \cup {Nowhere}, listed : BOOLEAN, open : BOOLEAN,
           held : Seq(Impulse), since : Nat, read : Nat]

Away == [topic |-> Nowhere, listed |-> FALSE, open |-> FALSE, held |-> <<>>,
         since |-> 0, read |-> 0]

TypeOK ==
  /\ block \in [Publishers -> {"new", "open", "closing", "over", "cut"}]
  /\ fiber \in [Publishers -> Seq(Impulse)]
  /\ \A p \in Publishers : Len(fiber[p]) <= FiberBuffer
  /\ reader \in [Readers -> Reader]
  /\ \A s \in Readers : Len(reader[s].held) <= Backlog[s]
  /\ sent \in [Publishers \cup {Host} -> Seq(Impulse)]
  /\ said \in [Topics -> Seq(Impulse)]

Init ==
  /\ block = [p \in Publishers |-> "new"]
  /\ fiber = [p \in Publishers |-> <<>>]
  /\ reader = [s \in Readers |-> Away]
  /\ sent = [p \in Publishers \cup {Host} |-> <<>>]
  /\ said = [t \in Topics |-> <<>>]

-----------------------------------------------------------------------------
(* deliver.                                                                *)

\* The topics of an impulse that happens at a thread, or nowhere.
Place(i) == IF i.at = Nowhere THEN {} ELSE {<<"channel", ChannelOf[i.at]>>, <<"thread", i.at>>}

\* Those of what a publisher sends: also where it was asked, unless private.
Routed(p, i) ==
  Place(i) \cup (IF i.private \/ Asked[p] = Nowhere THEN {}
                                                     ELSE {<<"thread", Asked[p]>>})

\* Variant: a reader with a full backlog misses the impulse.
HearSkipping(s, i) ==
  IF Len(reader[s].held) < Backlog[s] THEN [reader[s] EXCEPT !.held = Append(@, i)]
                                      ELSE reader[s]

\* Held for the reader, or, with its backlog full, the end of its stream; one that
\* is cut off already hears nothing.
Hear(s, i) ==
  IF ~reader[s].open THEN reader[s]
  ELSE IF Len(reader[s].held) < Backlog[s]
         THEN [reader[s] EXCEPT !.held = Append(@, i)]
         ELSE [reader[s] EXCEPT !.open = FALSE]

Deliver(i, topics) ==
  /\ reader' = [s \in Readers |-> IF reader[s].listed /\ reader[s].topic \in topics
                                    THEN Hear(s, i) ELSE reader[s]]
  /\ said' = [t \in Topics |-> IF t \in topics THEN Append(said[t], i) ELSE said[t]]

-----------------------------------------------------------------------------
(* publish.                                                                *)

Opens(p) == block[p] = "new" /\ block' = [block EXCEPT ![p] = "open"]

Open(p) == Opens(p) /\ UNCHANGED <<fiber, reader, sent, said>>

\* A send waits for room in the fiber, never for a reader.
Send(p, event, at, private) ==
  LET i == [by |-> p, n |-> Len(sent[p]), event |-> event, at |-> at, private |-> private] IN
  /\ block[p] = "open"
  /\ Len(sent[p]) < MaxSent
  /\ Len(fiber[p]) < FiberBuffer
  /\ fiber' = [fiber EXCEPT ![p] = Append(@, i)]
  /\ sent' = [sent EXCEPT ![p] = Append(@, i)]
  /\ UNCHANGED <<block, reader, said>>

\* The block ends, or raises: its send end is closed and it awaits the pump.
Close(p) ==
  /\ block[p] = "open"
  /\ block' = [block EXCEPT ![p] = "closing"]
  /\ UNCHANGED <<fiber, reader, sent, said>>

\* Variants: the pump waits for room in every fiber; where an impulse happens on
\* the thread it was asked on, that thread is told twice.
PumpWaiting(p) ==
  /\ block[p] \in {"open", "closing"}
  /\ fiber[p] # <<>>
  /\ \A s \in Readers : reader[s].topic \in Routed(p, Head(fiber[p])) =>
       Len(reader[s].held) < Backlog[s]
  /\ Deliver(Head(fiber[p]), Routed(p, Head(fiber[p])))
  /\ fiber' = [fiber EXCEPT ![p] = Tail(@)]
  /\ UNCHANGED <<block, sent>>

PumpTwice(p) ==
  LET i == Head(fiber[p])  told == Routed(p, i) IN
  /\ block[p] \in {"open", "closing"}
  /\ fiber[p] # <<>>
  /\ reader' = [s \in Readers |-> IF reader[s].listed /\ reader[s].topic \in told
                                    THEN Hear(s, i) ELSE reader[s]]
  /\ said' = [t \in Topics |-> IF t \notin told THEN said[t]
                               ELSE IF i.at = Asked[p] /\ t = <<"thread", i.at>>
                                      THEN said[t] \o <<i, i>> ELSE Append(said[t], i)]
  /\ fiber' = [fiber EXCEPT ![p] = Tail(@)]
  /\ UNCHANGED <<block, sent>>

Pump(p) ==
  /\ block[p] \in {"open", "closing"}
  /\ fiber[p] # <<>>
  /\ Deliver(Head(fiber[p]), Routed(p, Head(fiber[p])))
  /\ fiber' = [fiber EXCEPT ![p] = Tail(@)]
  /\ UNCHANGED <<block, sent>>

\* Variant: the block does not await the pump.
OverAtOnce(p) ==
  /\ block[p] = "closing"
  /\ block' = [block EXCEPT ![p] = "over"]
  /\ UNCHANGED <<fiber, reader, sent, said>>

Over(p) ==
  /\ block[p] = "closing"
  /\ fiber[p] = <<>>
  /\ block' = [block EXCEPT ![p] = "over"]
  /\ UNCHANGED <<fiber, reader, sent, said>>

\* Cancelled while it awaits the pump, which is cancelled with it.
Cut(p) ==
  /\ block[p] = "closing"
  /\ block' = [block EXCEPT ![p] = "cut"]
  /\ fiber' = [fiber EXCEPT ![p] = <<>>]
  /\ UNCHANGED <<reader, sent, said>>

\* A spell no kick drives is delivered at once, ahead of what fibers hold.
Tell(event, at) ==
  LET i == [by |-> Host, n |-> Len(sent[Host]), event |-> event, at |-> at,
            private |-> FALSE] IN
  /\ Len(sent[Host]) < MaxTold
  /\ Deliver(i, Place(i))
  /\ sent' = [sent EXCEPT ![Host] = Append(@, i)]
  /\ UNCHANGED <<block, fiber>>

-----------------------------------------------------------------------------
(* subscribe.                                                              *)

Joins(s, topic) ==
  /\ reader[s].topic = Nowhere
  /\ reader' = [reader EXCEPT ![s] =
       [topic |-> topic, listed |-> TRUE, open |-> TRUE, held |-> <<>>,
        since |-> Len(said[topic]), read |-> 0]]

Subscribe(s, topic) == Joins(s, topic) /\ UNCHANGED <<block, fiber, sent, said>>

Take(s) ==
  /\ reader[s].held # <<>>
  /\ reader' = [reader EXCEPT ![s].held = Tail(@), ![s].read = @ + 1]
  /\ UNCHANGED <<block, fiber, sent, said>>

\* The stream of a reader that was cut off ends when it has read what was held.
End(s) ==
  /\ reader[s].topic # Nowhere
  /\ ~reader[s].open
  /\ reader[s].held = <<>>
  /\ reader' = [reader EXCEPT ![s] = Away]
  /\ UNCHANGED <<block, fiber, sent, said>>

\* The block of a reader ends for a reason of its own.
Leave(s) ==
  /\ reader[s].topic # Nowhere
  /\ reader' = [reader EXCEPT ![s] = Away]
  /\ UNCHANGED <<block, fiber, sent, said>>

-----------------------------------------------------------------------------

Publish(p) ==
  \/ Open(p)
  \/ \E event \in Events, at \in Threads \cup {Nowhere}, private \in BOOLEAN :
       Send(p, event, at, private)
  \/ Close(p) \/ Pump(p) \/ Over(p) \/ Cut(p)

Read(s) ==
  \/ \E topic \in Topics : Subscribe(s, topic)
  \/ Take(s) \/ End(s) \/ Leave(s)

Next ==
  \/ \E p \in Publishers : Publish(p)
  \/ \E event \in Events, at \in Threads : Tell(event, at)
  \/ \E s \in Readers : Read(s)

\* A pump is a task of its own, which the loop runs; readers owe nothing.
Pumping == \A p \in Publishers : WF_vars(Pump(p)) /\ WF_vars(Over(p))

Spec == Init /\ [][Next]_vars /\ Pumping

-----------------------------------------------------------------------------
(* Properties.                                                             *)

Reached(s) == reader[s].since + reader[s].read + Len(reader[s].held)

\* What a reader read and has yet to read is what its topic was told since it
\* subscribed, without a gap: it may be cut off, never quietly skipped ahead, and
\* as long as it is not cut off nothing is missing (deliver, subscribe).
NothingSkipped ==
  \A s \in Readers : LET r == reader[s] IN r.topic # Nowhere =>
    /\ r.held = SubSeq(said[r.topic], r.since + r.read + 1, Reached(s))
    /\ r.open => Reached(s) = Len(said[r.topic])

\* A topic is told each impulse once, and those of one publisher in the order it
\* sent them, whatever else is told in between (pump).
ToldOnceInOrder ==
  \A t \in Topics : \A j, k \in DOMAIN said[t] :
    j < k /\ said[t][j].by = said[t][k].by => said[t][j].n < said[t][k].n

\* Everything sent before the block ends is published, on all its topics, when the
\* block is over, unless it was cancelled while it waited (publish).
AllIsPublished ==
  \A p \in Publishers : block[p] = "over" =>
    \A i \in Range(sent[p]) : \A t \in Routed(p, i) : i \in Range(said[t])

\* Sending waits for the pump, never for a subscriber: a block that ended comes to
\* its end, and a full fiber to room again, when nobody reads (publish, deliver).
NobodyIsHeldUp ==
  \A p \in Publishers :
    block[p] = "closing" \/ Len(fiber[p]) = FiberBuffer
      ~> block[p] # "closing" /\ Len(fiber[p]) < FiberBuffer

=============================================================================
