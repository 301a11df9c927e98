---------------------------- MODULE WakingProofs ----------------------------
(***************************************************************************)
(* Proofs about Nerve, for any publishers and readers, any buffer and      *)
(* backlogs, and whatever is sent; then about Waking, for any kicks and    *)
(* clients.  Every step of Waking is one of Nerve, but a prompt, which     *)
(* subscribes and opens a block at once: so what the first part            *)
(* establishes of Nerve's steps holds of Waking's.                         *)
(***************************************************************************)
EXTENDS Waking, SequenceTheorems, TLAPS

-----------------------------------------------------------------------------
(* A reader and the log of its topic.                                      *)

\* What it holds is the log from where it came to; all of it while it is open.
Follows(r, log) ==
  /\ r.since + r.read + Len(r.held) <= Len(log)
  /\ \A k \in 1 .. Len(r.held) : r.held[k] = log[r.since + r.read + k]
  /\ r.open => r.since + r.read + Len(r.held) = Len(log)

\* The indices of a sequence with one element more.
LEMMA AppendedAt ==
  ASSUME NEW S, NEW log \in Seq(S), NEW i \in S
  PROVE  /\ Append(log, i) \in Seq(S)
         /\ Len(Append(log, i)) = Len(log) + 1
         /\ \A k \in 1 .. Len(log) : Append(log, i)[k] = log[k]
         /\ Append(log, i)[Len(log) + 1] = i
OBVIOUS

\* A reader with room that holds what its topic is told goes on following it.
LEMMA HoldingFollows ==
  ASSUME NEW r \in Reader, NEW log \in Seq(Impulse), NEW i \in Impulse,
         Follows(r, log), r.open
  PROVE  Follows([r EXCEPT !.held = Append(@, i)], Append(log, i))
<1> DEFINE q == [r EXCEPT !.held = Append(@, i)]
<1>1. r.held \in Seq(Impulse) /\ r.since \in Nat /\ r.read \in Nat
  BY DEF Reader
<1>2. q.held = Append(r.held, i) /\ q.since = r.since /\ q.read = r.read /\ q.open = r.open
  BY DEF Reader
<1> HIDE DEF q
<1>3. /\ Len(q.held) = Len(r.held) + 1
      /\ \A k \in 1 .. Len(r.held) : q.held[k] = r.held[k]
      /\ q.held[Len(r.held) + 1] = i
  BY <1>1, <1>2, AppendedAt
<1>4. /\ Len(Append(log, i)) = Len(log) + 1
      /\ \A k \in 1 .. Len(log) : Append(log, i)[k] = log[k]
      /\ Append(log, i)[Len(log) + 1] = i
  BY AppendedAt
<1>5. r.since + r.read + Len(r.held) = Len(log)
  BY DEF Follows
<1>6. Len(log) \in Nat /\ Len(r.held) \in Nat
  BY <1>1
<1>7. q.since + q.read + Len(q.held) = Len(Append(log, i))
  BY <1>1, <1>2, <1>3, <1>4, <1>5, <1>6
<1>8. ASSUME NEW k \in 1 .. Len(q.held)
      PROVE  q.held[k] = Append(log, i)[q.since + q.read + k]
  <2>1. CASE k = Len(r.held) + 1
    <3>1. q.since + q.read + k = Len(log) + 1
      BY <2>1, <1>1, <1>2, <1>5, <1>6
    <3> QED
      BY <3>1, <2>1, <1>3, <1>4
  <2>2. CASE k \in 1 .. Len(r.held)
    <3>1. q.since + q.read + k \in 1 .. Len(log)
      BY <2>2, <1>1, <1>2, <1>5, <1>6
    <3>2. r.held[k] = log[r.since + r.read + k]
      BY <2>2 DEF Follows
    <3> QED
      BY <3>1, <3>2, <2>2, <1>2, <1>3, <1>4
  <2>3. Len(q.held) = Len(r.held) + 1
    BY <1>3
  <2>4. k = Len(r.held) + 1 \/ k \in 1 .. Len(r.held)
    BY <2>3, <1>6
  <2> QED
    BY <2>1, <2>2, <2>4
<1>9. Follows(q, Append(log, i))
  <2>1. q.since + q.read + Len(q.held) \in Nat
    BY <1>1, <1>2, <1>3, <1>6
  <2>2. q.since + q.read + Len(q.held) <= Len(Append(log, i))
    BY <1>7, <2>1
  <2> QED
    BY <1>7, <1>8, <2>2 DEF Follows
<1> QED
  BY <1>9 DEF q

\* One that is cut off, now or before, follows as far as it came.
LEMMA CutOffFollows ==
  ASSUME NEW r \in Reader, NEW log \in Seq(Impulse), NEW i \in Impulse, Follows(r, log)
  PROVE  /\ Follows([r EXCEPT !.open = FALSE], Append(log, i))
         /\ ~r.open => Follows(r, Append(log, i))
<1>1. r.held \in Seq(Impulse) /\ r.since \in Nat /\ r.read \in Nat
  BY DEF Reader
<1>2. /\ Len(Append(log, i)) = Len(log) + 1
      /\ \A k \in 1 .. Len(log) : Append(log, i)[k] = log[k]
  BY AppendedAt
<1>3. /\ r.since + r.read + Len(r.held) <= Len(Append(log, i))
      /\ \A k \in 1 .. Len(r.held) : r.held[k] = Append(log, i)[r.since + r.read + k]
  <2>1. Len(log) \in Nat /\ Len(r.held) \in Nat
    BY <1>1
  <2>2. r.since + r.read + Len(r.held) <= Len(log)
    BY DEF Follows
  <2>3. ASSUME NEW k \in 1 .. Len(r.held)
        PROVE  r.held[k] = Append(log, i)[r.since + r.read + k]
    <3>1. r.since + r.read + k \in 1 .. Len(log)
      BY <1>1, <2>1, <2>2
    <3> QED
      BY <3>1, <1>2 DEF Follows
  <2> QED
    BY <1>1, <1>2, <2>1, <2>2, <2>3
<1>4. LET q == [r EXCEPT !.open = FALSE] IN
        q.open = FALSE /\ q.held = r.held /\ q.since = r.since /\ q.read = r.read
  BY DEF Reader
<1> QED
  BY <1>3, <1>4 DEF Follows

\* Taking moves a reader on by one.
LEMMA TakingFollows ==
  ASSUME NEW r \in Reader, NEW log \in Seq(Impulse), Follows(r, log), r.held # <<>>
  PROVE  Follows([r EXCEPT !.held = Tail(@), !.read = @ + 1], log)
<1> DEFINE q == [r EXCEPT !.held = Tail(@), !.read = @ + 1]
<1>1. r.held \in Seq(Impulse) /\ r.since \in Nat /\ r.read \in Nat
  BY DEF Reader
<1>2. q.held = Tail(r.held) /\ q.since = r.since /\ q.read = r.read + 1 /\ q.open = r.open
  BY DEF Reader
<1> HIDE DEF q
<1>3. /\ Len(q.held) = Len(r.held) - 1
      /\ \A k \in 1 .. Len(q.held) : q.held[k] = r.held[k + 1]
  BY <1>1, <1>2, HeadTailProperties
<1>4. Len(r.held) \in Nat /\ Len(log) \in Nat /\ Len(q.held) = Len(r.held) - 1
  BY <1>1, <1>3
<1>5. q.since + q.read + Len(q.held) = r.since + r.read + Len(r.held)
  <2>1. q.since + q.read + Len(q.held) = r.since + (r.read + 1) + (Len(r.held) - 1)
    BY <1>2, <1>4
  <2>2. \A a, b, c \in Nat : a + (b + 1) + (c - 1) = a + b + c
    OBVIOUS
  <2> QED
    BY <2>1, <2>2, <1>1, <1>4
<1>6. ASSUME NEW k \in 1 .. Len(q.held)
      PROVE  q.held[k] = log[q.since + q.read + k]
  <2>1. k + 1 \in 1 .. Len(r.held) /\ q.since + q.read + k = r.since + r.read + (k + 1)
    <3>1. k \in Nat /\ k + 1 \in 1 .. Len(r.held)
      BY <1>4
    <3>2. q.since + q.read + k = r.since + (r.read + 1) + k
      BY <1>2
    <3>3. \A a, b, c \in Nat : a + (b + 1) + c = a + b + (c + 1)
      OBVIOUS
    <3> QED
      BY <3>1, <3>2, <3>3, <1>1
  <2> QED
    BY <2>1, <1>3 DEF Follows
<1>7. Follows(q, log)
  BY <1>2, <1>5, <1>6 DEF Follows
<1> QED
  BY <1>7 DEF q

\* To follow a log is to hold a part of it without a gap.
LEMMA FollowsIsSubSeq ==
  ASSUME NEW r \in Reader, NEW log \in Seq(Impulse), Follows(r, log)
  PROVE  r.held = SubSeq(log, r.since + r.read + 1, r.since + r.read + Len(r.held))
<1> DEFINE a == r.since + r.read  h == r.held  sub == SubSeq(log, a + 1, a + Len(h))
<1>1. h \in Seq(Impulse) /\ a \in Nat /\ Len(h) \in Nat /\ Len(log) \in Nat
  BY DEF Reader
<1>2. a + Len(h) <= Len(log) /\ \A k \in 1 .. Len(h) : h[k] = log[a + k]
  BY DEF Follows
<1> HIDE DEF a, h
<1>3. \A k \in (a + 1) .. (a + Len(h)) : log[k] \in Impulse
  <2> TAKE k \in (a + 1) .. (a + Len(h))
  <2>1. k \in 1 .. Len(log)
    BY <1>1, <1>2
  <2> QED
    BY <2>1, ElementOfSeq
<1>4. /\ sub \in Seq(Impulse)
      /\ Len(sub) = Len(h)
      /\ \A k \in 1 .. Len(h) : sub[k] = log[a + k]
  <2>1. a + 1 \in Int /\ a + Len(h) \in Int
    BY <1>1
  <2>2. /\ sub \in Seq(Impulse)
        /\ Len(sub) = IF a + 1 <= a + Len(h) THEN (a + Len(h)) - (a + 1) + 1 ELSE 0
        /\ \A k \in 1 .. (a + Len(h)) - (a + 1) + 1 : sub[k] = log[(a + 1) + k - 1]
    BY <2>1, <1>3, SubSeqProperties
  <2> HIDE DEF sub
  <2>3. (a + Len(h)) - (a + 1) + 1 = Len(h) /\ \A k \in 1 .. Len(h) : (a + 1) + k - 1 = a + k
    BY <1>1
  <2> QED
    BY <2>2, <2>3, <1>1
<1>5. h = sub
  <2> HIDE DEF sub
  <2> QED
    BY <1>1, <1>2, <1>4, SeqEqual
<1> QED
  BY <1>5 DEF a, h

-----------------------------------------------------------------------------
(* The inductive invariant: every reader follows its topic.                *)

Following ==
  \A s \in Readers : reader[s].topic # Nowhere =>
    reader[s].listed /\ Follows(reader[s], said[reader[s].topic])

NInv == TypeOK /\ Following

\* What is sent is delivered to topics.
LEMMA RoutedToTopics ==
  ASSUME NEW i \in Impulse
  PROVE  /\ Place(i) \subseteq Topics
         /\ \A p \in Publishers : Routed(p, i) \subseteq Topics
BY AskedOnThreads DEF Place, Routed, Topics, Impulse

\* The reader after an impulse: its place is the same, and it follows its topic on.
LEMMA Hearing ==
  ASSUME TypeOK, NEW s \in Readers, NEW i \in Impulse
  PROVE  /\ Hear(s, i) \in Reader
         /\ Len(Hear(s, i).held) <= Backlog[s]
         /\ Hear(s, i).topic = reader[s].topic /\ Hear(s, i).listed = reader[s].listed
         /\ \A log \in Seq(Impulse) :
              Follows(reader[s], log) => Follows(Hear(s, i), Append(log, i))
<1>1. reader[s] \in Reader /\ Len(reader[s].held) <= Backlog[s] /\ Backlog[s] \in Nat
  BY Limits DEF TypeOK
<1>2. CASE ~reader[s].open
  BY <1>1, <1>2, CutOffFollows DEF Hear
<1>3. CASE reader[s].open /\ Len(reader[s].held) < Backlog[s]
  <2> DEFINE q == [reader[s] EXCEPT !.held = Append(@, i)]
  <2>1. Hear(s, i) = q
    BY <1>3 DEF Hear
  <2>2. reader[s].held \in Seq(Impulse)
    BY <1>1 DEF Reader
  <2>3. Append(reader[s].held, i) \in Seq(Impulse)
        /\ Len(Append(reader[s].held, i)) = Len(reader[s].held) + 1
    BY <2>2, AppendedAt
  <2>4. q \in Reader /\ q.held = Append(reader[s].held, i)
        /\ q.topic = reader[s].topic /\ q.listed = reader[s].listed
    BY <1>1, <2>3 DEF Reader
  <2>5. \A log \in Seq(Impulse) : Follows(reader[s], log) => Follows(q, Append(log, i))
    BY <1>1, <1>3, HoldingFollows
  <2>6. Len(Append(reader[s].held, i)) <= Backlog[s]
    <3>1. Len(reader[s].held) \in Nat
      BY <2>2
    <3> QED
      BY <3>1, <2>3, <1>1, <1>3
  <2> HIDE DEF q
  <2> QED
    BY <2>1, <2>4, <2>5, <2>6
<1>4. CASE reader[s].open /\ ~(Len(reader[s].held) < Backlog[s])
  <2>1. Hear(s, i) = [reader[s] EXCEPT !.open = FALSE]
    BY <1>4 DEF Hear
  <2>2. Hear(s, i) \in Reader /\ Hear(s, i).held = reader[s].held
        /\ Hear(s, i).topic = reader[s].topic /\ Hear(s, i).listed = reader[s].listed
    BY <1>1, <2>1 DEF Reader
  <2> QED
    BY <1>1, <2>1, <2>2, CutOffFollows
<1> QED
  BY <1>2, <1>3, <1>4

\* So readers follow their topics through a delivery.
LEMMA Delivering ==
  ASSUME NInv, NEW i \in Impulse, NEW topics \in SUBSET Topics, Deliver(i, topics)
  PROVE  /\ reader' \in [Readers -> Reader]
         /\ \A s \in Readers : Len(reader'[s].held) <= Backlog[s]
         /\ said' \in [Topics -> Seq(Impulse)]
         /\ Following'
<1>1. /\ TypeOK
      /\ reader \in [Readers -> Reader]
      /\ \A s \in Readers : Len(reader[s].held) <= Backlog[s]
      /\ said \in [Topics -> Seq(Impulse)]
  BY DEF NInv, TypeOK
<1>2. \A s \in Readers : reader'[s] =
        IF reader[s].listed /\ reader[s].topic \in topics THEN Hear(s, i) ELSE reader[s]
  BY DEF Deliver
<1>3. \A t \in Topics : said'[t] = IF t \in topics THEN Append(said[t], i) ELSE said[t]
  BY DEF Deliver
<1>4. reader' \in [Readers -> Reader]
  BY <1>1, Hearing DEF Deliver
<1>5. \A s \in Readers : Len(reader'[s].held) <= Backlog[s]
  BY <1>1, <1>2, Hearing
<1>6. said' \in [Topics -> Seq(Impulse)]
  <2>1. \A t \in Topics : Append(said[t], i) \in Seq(Impulse)
    BY <1>1
  <2> QED
    BY <1>1, <2>1 DEF Deliver
<1>7. Following'
  <2> SUFFICES ASSUME NEW s \in Readers, reader'[s].topic # Nowhere
               PROVE  reader'[s].listed /\ Follows(reader'[s], said'[reader'[s].topic])
    BY DEF Following
  <2>1. reader'[s].topic = reader[s].topic /\ reader'[s].listed = reader[s].listed
    BY <1>1, <1>2, Hearing
  <2>2. reader[s].topic \in Topics /\ reader[s].listed
        /\ Follows(reader[s], said[reader[s].topic])
        /\ said[reader[s].topic] \in Seq(Impulse)
    BY <1>1, <2>1 DEF NInv, Following, Reader
  <2>3. CASE reader[s].topic \in topics
    <3>1. reader'[s] = Hear(s, i)
      BY <1>2, <2>2, <2>3
    <3>2. said'[reader[s].topic] = Append(said[reader[s].topic], i)
      BY <1>3, <2>2, <2>3
    <3> QED
      BY <1>1, <2>1, <2>2, <3>1, <3>2, Hearing
  <2>4. CASE reader[s].topic \notin topics
    BY <1>2, <1>3, <2>1, <2>2, <2>4
  <2> QED
    BY <2>3, <2>4
<1> QED
  BY <1>4, <1>5, <1>6, <1>7

\* A step of the publishers that delivers nothing.
LEMMA ReadersAside ==
  ASSUME NInv, UNCHANGED <<reader, said>>
  PROVE  /\ reader' \in [Readers -> Reader]
         /\ \A s \in Readers : Len(reader'[s].held) <= Backlog[s]
         /\ said' \in [Topics -> Seq(Impulse)]
         /\ Following'
BY DEF NInv, TypeOK, Following

\* What a step leaves of one reader, when nothing is said.
LEMMA OneReader ==
  ASSUME NInv, NEW s \in Readers, NEW r \in Reader,
         reader' = [reader EXCEPT ![s] = r], UNCHANGED <<fiber, sent, said>>,
         block' \in [Publishers -> {"new", "open", "closing", "over", "cut"}],
         Len(r.held) <= Backlog[s],
         r.topic # Nowhere => r.listed /\ Follows(r, said[r.topic])
  PROVE  NInv'
<1>1. TypeOK'
  BY DEF NInv, TypeOK
<1>2. Following'
  <2> SUFFICES ASSUME NEW q \in Readers, reader'[q].topic # Nowhere
               PROVE  reader'[q].listed /\ Follows(reader'[q], said[reader'[q].topic])
    BY DEF Following
  <2>1. reader'[q] = IF q = s THEN r ELSE reader[q]
    BY DEF NInv, TypeOK
  <2> QED
    BY <2>1 DEF NInv, Following
<1> QED
  BY <1>1, <1>2 DEF NInv

\* The head of a fiber is an impulse, and the rest of it a shorter fiber.
LEMMA FiberTail ==
  ASSUME TypeOK, NEW p \in Publishers, fiber[p] # <<>>
  PROVE  /\ Head(fiber[p]) \in Impulse
         /\ Tail(fiber[p]) \in Seq(Impulse)
         /\ Len(Tail(fiber[p])) <= FiberBuffer
<1>1. fiber[p] \in Seq(Impulse) /\ Len(fiber[p]) <= FiberBuffer /\ FiberBuffer \in Nat
  BY Limits DEF TypeOK
<1>2. /\ Head(fiber[p]) \in Impulse
      /\ Tail(fiber[p]) \in Seq(Impulse)
      /\ Len(Tail(fiber[p])) = Len(fiber[p]) - 1
  BY <1>1, HeadTailProperties
<1>3. Len(fiber[p]) \in Nat
  BY <1>1
<1> QED
  BY <1>1, <1>2, <1>3

\* The empty sequence, which every fiber and log begins as.
LEMMA NothingHeld == <<>> \in Seq(Impulse) /\ Len(<<>>) = 0
OBVIOUS

LEMMA AwayIsReader == Away \in Reader /\ Away.topic = Nowhere /\ Away.held = <<>>
BY NothingHeld DEF Away, Reader

LEMMA InitNInv == ASSUME Init PROVE NInv
<1>1. FiberBuffer \in Nat /\ \A s \in Readers : Backlog[s] \in Nat
  BY Limits
<1>2. \A p \in Publishers : fiber[p] = <<>>
  BY DEF Init
<1>3. \A s \in Readers : reader[s] = Away
  BY DEF Init
<1>4. TypeOK
  <2>1. block \in [Publishers -> {"new", "open", "closing", "over", "cut"}]
    BY DEF Init
  <2>2. fiber \in [Publishers -> Seq(Impulse)] /\ reader \in [Readers -> Reader]
    BY NothingHeld, AwayIsReader DEF Init
  <2>3. sent \in [Publishers \cup {Host} -> Seq(Impulse)] /\ said \in [Topics -> Seq(Impulse)]
    BY NothingHeld DEF Init
  <2>4. \A p \in Publishers : Len(fiber[p]) <= FiberBuffer
    BY <1>1, <1>2, NothingHeld
  <2>5. \A s \in Readers : Len(reader[s].held) <= Backlog[s]
    BY <1>1, <1>3, NothingHeld, AwayIsReader
  <2> QED
    BY <2>1, <2>2, <2>3, <2>4, <2>5 DEF TypeOK
<1>5. Following
  BY <1>3, AwayIsReader DEF Following
<1> QED
  BY <1>4, <1>5 DEF NInv

LEMMA OpenNInv == ASSUME NInv, NEW p \in Publishers, Open(p) PROVE NInv'
BY ReadersAside DEF NInv, TypeOK, Open, Opens

LEMMA CloseNInv == ASSUME NInv, NEW p \in Publishers, Close(p) PROVE NInv'
BY ReadersAside DEF NInv, TypeOK, Close

LEMMA OverNInv == ASSUME NInv, NEW p \in Publishers, Over(p) PROVE NInv'
BY ReadersAside DEF NInv, TypeOK, Over

LEMMA CutNInv == ASSUME NInv, NEW p \in Publishers, Cut(p) PROVE NInv'
<1>1. FiberBuffer \in Nat
  BY Limits
<1>2. block' \in [Publishers -> {"new", "open", "closing", "over", "cut"}] /\ sent' = sent
  BY DEF NInv, TypeOK, Cut
<1>3. fiber' \in [Publishers -> Seq(Impulse)]
      /\ \A q \in Publishers : Len(fiber'[q]) <= FiberBuffer
  BY <1>1, NothingHeld DEF NInv, TypeOK, Cut
<1>4. UNCHANGED <<reader, said>>
  BY DEF Cut
<1> QED
  BY <1>2, <1>3, <1>4, ReadersAside DEF NInv, TypeOK

\* What is sent is an impulse.
LEMMA SentIsImpulse ==
  ASSUME TypeOK, NEW p \in Publishers \cup {Host}, NEW event \in Events,
         NEW at \in Threads \cup {Nowhere}, NEW private \in BOOLEAN
  PROVE  [by |-> p, n |-> Len(sent[p]), event |-> event, at |-> at, private |-> private]
           \in Impulse
<1>1. Len(sent[p]) \in Nat
  BY DEF TypeOK
<1> QED
  BY <1>1 DEF Impulse

LEMMA SendNInv ==
  ASSUME NInv, NEW p \in Publishers, NEW event \in Events,
         NEW at \in Threads \cup {Nowhere}, NEW private \in BOOLEAN,
         Send(p, event, at, private)
  PROVE  NInv'
<1> DEFINE i == [by |-> p, n |-> Len(sent[p]), event |-> event, at |-> at,
                 private |-> private]
<1>1. i \in Impulse /\ TypeOK /\ FiberBuffer \in Nat
  BY SentIsImpulse, Limits DEF NInv
<1>2. /\ fiber' = [fiber EXCEPT ![p] = Append(@, i)]
      /\ sent' = [sent EXCEPT ![p] = Append(@, i)]
      /\ Len(fiber[p]) < FiberBuffer
      /\ UNCHANGED <<block, reader, said>>
  BY DEF Send
<1> HIDE DEF i
<1>3. fiber[p] \in Seq(Impulse) /\ sent[p] \in Seq(Impulse)
  BY <1>1 DEF TypeOK
<1>4. Append(fiber[p], i) \in Seq(Impulse) /\ Append(sent[p], i) \in Seq(Impulse)
      /\ Len(Append(fiber[p], i)) = Len(fiber[p]) + 1
  BY <1>1, <1>3, AppendedAt
<1>5. Len(Append(fiber[p], i)) <= FiberBuffer
  <2>1. Len(fiber[p]) \in Nat
    BY <1>3
  <2> QED
    BY <2>1, <1>1, <1>2, <1>4
<1>6. block' \in [Publishers -> {"new", "open", "closing", "over", "cut"}]
      /\ fiber' \in [Publishers -> Seq(Impulse)]
      /\ sent' \in [Publishers \cup {Host} -> Seq(Impulse)]
  BY <1>1, <1>2, <1>4 DEF TypeOK
<1>7. \A q \in Publishers : Len(fiber'[q]) <= FiberBuffer
  BY <1>1, <1>2, <1>5 DEF TypeOK
<1> QED
  BY <1>2, <1>6, <1>7, ReadersAside DEF NInv, TypeOK

LEMMA PumpNInv == ASSUME NInv, NEW p \in Publishers, Pump(p) PROVE NInv'
<1> DEFINE i == Head(fiber[p])
<1>1. fiber[p] # <<>> /\ TypeOK
  BY DEF Pump, NInv
<1>2. i \in Impulse /\ Routed(p, i) \in SUBSET Topics
  BY <1>1, FiberTail, RoutedToTopics
<1>3. Deliver(i, Routed(p, i)) /\ UNCHANGED <<block, sent>>
      /\ fiber' = [fiber EXCEPT ![p] = Tail(@)]
  BY DEF Pump
<1>4. fiber' \in [Publishers -> Seq(Impulse)]
      /\ \A q \in Publishers : Len(fiber'[q]) <= FiberBuffer
  BY <1>1, <1>3, FiberTail DEF TypeOK
<1> HIDE DEF i
<1>5. /\ reader' \in [Readers -> Reader]
      /\ \A s \in Readers : Len(reader'[s].held) <= Backlog[s]
      /\ said' \in [Topics -> Seq(Impulse)]
      /\ Following'
  BY <1>2, <1>3, Delivering
<1> QED
  BY <1>1, <1>3, <1>4, <1>5 DEF NInv, TypeOK

LEMMA TellNInv ==
  ASSUME NInv, NEW event \in Events, NEW at \in Threads, Tell(event, at)
  PROVE  NInv'
<1> DEFINE i == [by |-> Host, n |-> Len(sent[Host]), event |-> event, at |-> at,
                 private |-> FALSE]
<1>1. i \in Impulse /\ TypeOK
  BY SentIsImpulse DEF NInv
<1>2. Deliver(i, Place(i)) /\ UNCHANGED <<block, fiber>>
      /\ sent' = [sent EXCEPT ![Host] = Append(@, i)]
  BY DEF Tell
<1> HIDE DEF i
<1>3. Place(i) \in SUBSET Topics
  BY <1>1, RoutedToTopics
<1>4. sent' \in [Publishers \cup {Host} -> Seq(Impulse)]
  <2>1. sent[Host] \in Seq(Impulse)
    BY <1>1 DEF TypeOK
  <2>2. Append(sent[Host], i) \in Seq(Impulse)
    BY <1>1, <2>1, AppendedAt
  <2> QED
    BY <1>1, <1>2, <2>2 DEF TypeOK
<1>5. /\ reader' \in [Readers -> Reader]
      /\ \A s \in Readers : Len(reader'[s].held) <= Backlog[s]
      /\ said' \in [Topics -> Seq(Impulse)]
      /\ Following'
  BY <1>1, <1>2, <1>3, Delivering
<1> QED
  BY <1>1, <1>2, <1>4, <1>5 DEF NInv, TypeOK

\* A reader that joins follows its topic from there on, also where a block opens in
\* the same step.
LEMMA JoinsNInv ==
  ASSUME NInv, NEW s \in Readers, NEW topic \in Topics, Joins(s, topic),
         UNCHANGED <<fiber, sent, said>>,
         block' \in [Publishers -> {"new", "open", "closing", "over", "cut"}]
  PROVE  NInv'
<1> DEFINE r == [topic |-> topic, listed |-> TRUE, open |-> TRUE, held |-> <<>>,
                 since |-> Len(said[topic]), read |-> 0]
<1>1. said[topic] \in Seq(Impulse) /\ Len(said[topic]) \in Nat /\ Backlog[s] \in Nat
  BY Limits DEF NInv, TypeOK
<1>2. r \in Reader /\ r.topic = topic /\ r.listed /\ r.held = <<>> /\ r.since = Len(said[topic])
      /\ r.read = 0
  BY <1>1, NothingHeld DEF Reader
<1>3. reader' = [reader EXCEPT ![s] = r]
  BY DEF Joins
<1> HIDE DEF r
<1>4. Len(r.held) <= Backlog[s]
  BY <1>1, <1>2, NothingHeld
<1>5. Follows(r, said[r.topic])
  BY <1>1, <1>2, NothingHeld DEF Follows
<1> QED
  BY <1>2, <1>3, <1>4, <1>5, OneReader

LEMMA SubscribeNInv ==
  ASSUME NInv, NEW s \in Readers, NEW topic \in Topics, Subscribe(s, topic)
  PROVE  NInv'
BY JoinsNInv DEF NInv, TypeOK, Subscribe

LEMMA TakeNInv == ASSUME NInv, NEW s \in Readers, Take(s) PROVE NInv'
<1> DEFINE r == [reader[s] EXCEPT !.held = Tail(@), !.read = @ + 1]
<1>1. reader[s] \in Reader /\ reader[s].held # <<>> /\ reader[s].held \in Seq(Impulse)
      /\ Len(reader[s].held) <= Backlog[s] /\ Backlog[s] \in Nat
  BY Limits DEF NInv, TypeOK, Take, Reader
<1>2. Tail(reader[s].held) \in Seq(Impulse)
      /\ Len(Tail(reader[s].held)) = Len(reader[s].held) - 1
  BY <1>1, HeadTailProperties
<1>3. r \in Reader /\ r.held = Tail(reader[s].held) /\ r.topic = reader[s].topic
      /\ r.listed = reader[s].listed
  <2>1. reader[s].read + 1 \in Nat
    BY <1>1 DEF Reader
  <2>2. \A held \in Seq(Impulse), read \in Nat :
          LET q == [reader[s] EXCEPT !.held = held, !.read = read] IN
          q \in Reader /\ q.held = held /\ q.topic = reader[s].topic
          /\ q.listed = reader[s].listed
    BY <1>1 DEF Reader
  <2> QED
    BY <1>2, <2>1, <2>2
<1>4. reader' = [reader EXCEPT ![s] = r] /\ UNCHANGED <<block, fiber, sent, said>>
  BY DEF Take, NInv, TypeOK
<1>5. \A log \in Seq(Impulse) : Follows(reader[s], log) => Follows(r, log)
  BY <1>1, TakingFollows
<1> HIDE DEF r
<1>6. Len(r.held) <= Backlog[s]
  <2>1. Len(reader[s].held) \in Nat
    BY <1>1
  <2> QED
    BY <2>1, <1>1, <1>2, <1>3
<1>7. ASSUME r.topic # Nowhere PROVE r.listed /\ Follows(r, said[r.topic])
  <2>1. reader[s].topic \in Topics /\ said[reader[s].topic] \in Seq(Impulse)
    BY <1>1, <1>3, <1>7 DEF NInv, TypeOK, Reader
  <2> QED
    BY <2>1, <1>3, <1>5, <1>7 DEF NInv, Following
<1> QED
  BY <1>3, <1>4, <1>6, <1>7, OneReader DEF NInv, TypeOK

\* The block of a reader ends.
LEMMA LeaveNInv == ASSUME NInv, NEW s \in Readers, End(s) \/ Leave(s) PROVE NInv'
<1>1. reader' = [reader EXCEPT ![s] = Away] /\ UNCHANGED <<block, fiber, sent, said>>
  BY DEF End, Leave
<1>2. Len(Away.held) <= Backlog[s]
  BY Limits, AwayIsReader, NothingHeld
<1> QED
  BY <1>1, <1>2, AwayIsReader, OneReader DEF NInv, TypeOK

LEMMA StepNInv == NInv /\ [Next]_vars => NInv'
<1> SUFFICES ASSUME NInv, [Next]_vars PROVE NInv'
  OBVIOUS
<1>1. ASSUME NEW p \in Publishers, Publish(p) PROVE NInv'
  BY <1>1, OpenNInv, SendNInv, CloseNInv, PumpNInv, OverNInv, CutNInv DEF Publish
<1>2. ASSUME NEW s \in Readers, Read(s) PROVE NInv'
  BY <1>2, SubscribeNInv, TakeNInv, LeaveNInv DEF Read
<1>3. ASSUME NEW event \in Events, NEW at \in Threads, Tell(event, at) PROVE NInv'
  BY <1>3, TellNInv
<1>4. CASE UNCHANGED vars
  BY <1>4 DEF vars, NInv, TypeOK, Following
<1> QED
  BY <1>1, <1>2, <1>3, <1>4 DEF Next

\* NInv holds in every state the nerve reaches.
THEOREM Invariant == Spec => []NInv
<1>1. Init => NInv
  BY InitNInv
<1> QED
  BY <1>1, StepNInv, PTL DEF Spec

-----------------------------------------------------------------------------
(* Sequences, and the order of impulses in them.                           *)

\* What a sequence with one element more has in it.
LEMMA RangeOfAppend ==
  ASSUME NEW S, NEW s \in Seq(S), NEW i \in S
  PROVE  Range(Append(s, i)) = Range(s) \cup {i}
<1>1. Len(s) \in Nat /\ DOMAIN s = 1 .. Len(s)
  OBVIOUS
<1>2. /\ DOMAIN Append(s, i) = 1 .. Len(s) + 1
      /\ \A k \in 1 .. Len(s) : Append(s, i)[k] = s[k]
      /\ Append(s, i)[Len(s) + 1] = i
  OBVIOUS
<1> DEFINE d == 1 .. Len(s)
<1>3. 1 .. Len(s) + 1 = d \cup {Len(s) + 1}
  BY <1>1
<1>4. DOMAIN s = d /\ DOMAIN Append(s, i) = d \cup {Len(s) + 1}
      /\ \A k \in d : Append(s, i)[k] = s[k]
  BY <1>1, <1>2, <1>3
<1> HIDE DEF d
<1> QED
  BY <1>2, <1>4, Zenon DEF Range

\* What a sequence has in it: its head, and what its tail has.
LEMMA RangeOfTail ==
  ASSUME NEW S, NEW s \in Seq(S), s # <<>>
  PROVE  Range(s) = {Head(s)} \cup Range(Tail(s))
<1> DEFINE d == 1 .. Len(Tail(s))
<1>1. /\ Tail(s) \in Seq(S)
      /\ Len(Tail(s)) = Len(s) - 1
      /\ \A k \in d : Tail(s)[k] = s[k + 1]
  BY HeadTailProperties
<1>2. Len(s) \in Nat /\ Len(s) # 0 /\ DOMAIN s = 1 .. Len(s) /\ DOMAIN Tail(s) = d
  BY <1>1, EmptySeq
<1>3. Head(s) = s[1]
  OBVIOUS
<1>4. 1 .. Len(s) = {1} \cup {k + 1 : k \in d}
  <2>1. d = 1 .. Len(s) - 1
    BY <1>1
  <2>2. ASSUME NEW j \in 1 .. Len(s), j # 1 PROVE j - 1 \in d /\ j = (j - 1) + 1
    BY <1>2, <2>1, <2>2
  <2>3. ASSUME NEW k \in d PROVE k + 1 \in 1 .. Len(s)
    BY <1>2, <2>1
  <2>4. 1 \in 1 .. Len(s)
    BY <1>2
  <2> HIDE DEF d
  <2> QED
    BY <2>2, <2>3, <2>4
<1> HIDE DEF d
<1>5. Range(s) = {s[1]} \cup {s[k + 1] : k \in d}
  <2> DEFINE D == {1} \cup {k + 1 : k \in d}
  <2>1. Range(s) = {s[j] : j \in D}
    BY <1>2, <1>4, Zenon DEF Range
  <2>2. {s[j] : j \in D} = {s[1]} \cup {s[k + 1] : k \in d}
    OBVIOUS
  <2> QED
    BY <2>1, <2>2
<1>6. Range(Tail(s)) = {s[k + 1] : k \in d}
  <2> DEFINE q == Tail(s)
  <2>1. DOMAIN q = d /\ \A k \in d : q[k] = s[k + 1]
    BY <1>1, <1>2
  <2> HIDE DEF q
  <2>2. Range(q) = {q[k] : k \in d}
    BY <2>1, Zenon DEF Range
  <2>3. {q[k] : k \in d} = {s[k + 1] : k \in d}
    BY <2>1
  <2> QED
    BY <2>2, <2>3 DEF q
<1> QED
  BY <1>3, <1>5, <1>6

Ordered(s) ==
  \A j, k \in DOMAIN s : j < k /\ s[j].by = s[k].by => s[j].n < s[k].n

\* An impulse later than all of its publisher's may be put at the end.
LEMMA OrderedAppend ==
  ASSUME NEW s \in Seq(Impulse), NEW i \in Impulse, Ordered(s),
         \A h \in Range(s) : h.by = i.by => h.n < i.n
  PROVE  Ordered(Append(s, i))
<1> DEFINE q == Append(s, i)
<1>1. Len(s) \in Nat /\ DOMAIN s = 1 .. Len(s)
  OBVIOUS
<1>2. /\ DOMAIN q = 1 .. Len(s) + 1
      /\ \A k \in 1 .. Len(s) : q[k] = s[k]
      /\ q[Len(s) + 1] = i
  OBVIOUS
<1> HIDE DEF q
<1>3. ASSUME NEW j \in DOMAIN q, NEW k \in DOMAIN q, j < k, q[j].by = q[k].by
      PROVE  q[j].n < q[k].n
  <2>1. j \in 1 .. Len(s)
    BY <1>1, <1>2, <1>3
  <2>2. CASE k \in 1 .. Len(s)
    BY <1>1, <1>2, <1>3, <2>1, <2>2 DEF Ordered
  <2>3. CASE k = Len(s) + 1
    <3>1. q[k] = i /\ q[j] = s[j]
      BY <1>2, <2>1, <2>3
    <3>2. s[j] \in Range(s)
      BY <1>1, <2>1, Zenon DEF Range
    <3> QED
      BY <3>1, <3>2, <1>3
  <2>4. k \in 1 .. Len(s) \/ k = Len(s) + 1
    BY <1>1, <1>2
  <2> QED
    BY <2>2, <2>3, <2>4
<1>4. Ordered(q)
  BY <1>3 DEF Ordered
<1> QED
  BY <1>4 DEF q

\* The rest of an ordered sequence is ordered, and later than its head.
LEMMA OrderedTail ==
  ASSUME NEW s \in Seq(Impulse), s # <<>>, Ordered(s)
  PROVE  /\ Ordered(Tail(s))
         /\ \A h \in Range(Tail(s)) : h.by = Head(s).by => Head(s).n < h.n
<1> DEFINE q == Tail(s)
<1>1. /\ q \in Seq(Impulse)
      /\ Len(q) = Len(s) - 1
      /\ \A k \in 1 .. Len(q) : q[k] = s[k + 1]
  BY HeadTailProperties
<1>2. Len(s) \in Nat /\ Len(s) # 0 /\ DOMAIN s = 1 .. Len(s) /\ Head(s) = s[1]
  BY EmptySeq
<1>3. DOMAIN q = 1 .. Len(q) /\ Len(q) \in Nat
  BY <1>1
<1> HIDE DEF q
<1>4. \A k \in DOMAIN q : k + 1 \in DOMAIN s /\ q[k] = s[k + 1] /\ 1 < k + 1
  BY <1>1, <1>2, <1>3
<1>5. 1 \in DOMAIN s
  BY <1>2
<1>6. ASSUME NEW j \in DOMAIN q, NEW k \in DOMAIN q, j < k, q[j].by = q[k].by
      PROVE  q[j].n < q[k].n
  <2>1. j + 1 < k + 1
    BY <1>3, <1>6
  <2> QED
    BY <1>4, <1>6, <2>1 DEF Ordered
<1>7. ASSUME NEW h \in Range(q), h.by = Head(s).by PROVE Head(s).n < h.n
  <2>1. PICK k \in DOMAIN q : h = q[k]
    BY Zenon DEF Range
  <2> QED
    BY <1>2, <1>4, <1>5, <1>7, <2>1 DEF Ordered
<1> QED
  BY <1>6, <1>7 DEF Ordered, q

-----------------------------------------------------------------------------
(* The inductive invariant of order.                                       *)

\* A fiber holds its publisher's impulses, in order, out of those it sent.
FiberInOrder(p) ==
  /\ Ordered(fiber[p])
  /\ \A i \in Range(fiber[p]) : i.by = p /\ i.n < Len(sent[p])

\* What a topic was told was sent, and before all that is still in a fiber.
ToldInOrder(t) ==
  /\ Ordered(said[t])
  /\ \A i \in Range(said[t]) :
       /\ i.n < Len(sent[i.by])
       /\ i.by \in Publishers => \A h \in Range(fiber[i.by]) : i.n < h.n

InOrder == (\A p \in Publishers : FiberInOrder(p)) /\ (\A t \in Topics : ToldInOrder(t))

\* What a publisher sent is in its fiber or was told to all its topics.
Underway ==
  \A p \in Publishers : block[p] # "cut" =>
    \A i \in Range(sent[p]) :
      i \in Range(fiber[p]) \/ \A t \in Routed(p, i) : i \in Range(said[t])

\* A block is over when its fiber is empty, and stays so.
Drained == \A p \in Publishers : block[p] = "over" => fiber[p] = <<>>

OInv == TypeOK /\ InOrder /\ Underway /\ Drained

\* What is in a sequence of impulses is an impulse.
LEMMA InSequence == ASSUME NEW s \in Seq(Impulse) PROVE Range(s) \subseteq Impulse
<1>1. DOMAIN s = 1 .. Len(s)
  OBVIOUS
<1>2. \A k \in 1 .. Len(s) : s[k] \in Impulse
  BY ElementOfSeq
<1> QED
  BY <1>1, <1>2, Zenon DEF Range

LEMMA NothingInIt == Range(<<>>) = {} /\ Ordered(<<>>)
BY DEF Range, Ordered

LEMMA InitOInv == ASSUME Init PROVE OInv
<1>1. TypeOK
  BY InitNInv DEF NInv
<1>2. /\ \A p \in Publishers : fiber[p] = <<>> /\ sent[p] = <<>>
      /\ \A t \in Topics : said[t] = <<>>
  BY DEF Init
<1>3. InOrder
  BY <1>2, NothingInIt DEF InOrder, FiberInOrder, ToldInOrder
<1>4. Underway
  BY <1>2, NothingInIt DEF Underway
<1> QED
  BY <1>1, <1>2, <1>3, <1>4 DEF OInv, Drained

\* A step that moves no impulse.
LEMMA StillInOrder ==
  ASSUME OInv, UNCHANGED <<fiber, sent, said>>
  PROVE  InOrder'
BY DEF OInv, InOrder, FiberInOrder, ToldInOrder

LEMMA StillUnderway ==
  ASSUME OInv, UNCHANGED <<fiber, sent, said>>,
         \A p \in Publishers : block'[p] # "cut" => block[p] # "cut"
  PROVE  Underway'
<1> SUFFICES ASSUME NEW p \in Publishers, block'[p] # "cut", NEW i \in Range(sent[p])
             PROVE  i \in Range(fiber[p]) \/ \A t \in Routed(p, i) : i \in Range(said[t])
  BY DEF Underway
<1> QED
  BY DEF OInv, Underway

\* What is sent is later than all that was, and on its way.
LEMMA SendOInv ==
  ASSUME OInv, NEW p \in Publishers, NEW event \in Events,
         NEW at \in Threads \cup {Nowhere}, NEW private \in BOOLEAN,
         Send(p, event, at, private)
  PROVE  InOrder' /\ Underway'
<1> DEFINE i == [by |-> p, n |-> Len(sent[p]), event |-> event, at |-> at,
                 private |-> private]
<1>1. i \in Impulse /\ i.by = p /\ i.n = Len(sent[p]) /\ TypeOK
  BY SentIsImpulse DEF OInv
<1>2. /\ fiber' = [fiber EXCEPT ![p] = Append(@, i)]
      /\ sent' = [sent EXCEPT ![p] = Append(@, i)]
      /\ UNCHANGED <<block, reader, said>>
  BY DEF Send
<1> HIDE DEF i
<1>3. fiber[p] \in Seq(Impulse) /\ sent[p] \in Seq(Impulse) /\ Len(sent[p]) \in Nat
  BY <1>1 DEF TypeOK
<1>4. /\ fiber'[p] = Append(fiber[p], i) /\ sent'[p] = Append(sent[p], i)
      /\ \A q \in Publishers \cup {Host} : q # p => sent'[q] = sent[q]
      /\ \A q \in Publishers : q # p => fiber'[q] = fiber[q]
  BY <1>1, <1>2 DEF TypeOK
<1>5. /\ Range(fiber'[p]) = Range(fiber[p]) \cup {i}
      /\ Range(sent'[p]) = Range(sent[p]) \cup {i}
      /\ Len(sent'[p]) = Len(sent[p]) + 1
  BY <1>1, <1>3, <1>4, RangeOfAppend, AppendedAt
<1>6. \A h \in Range(fiber[p]) : h \in Impulse /\ h.n \in Nat
  BY <1>3, InSequence DEF Impulse
<1>7. \A q \in Publishers : FiberInOrder(q)'
  <2>1. FiberInOrder(p)'
    <3>1. Ordered(fiber'[p])
      BY <1>1, <1>3, <1>4, OrderedAppend DEF OInv, InOrder, FiberInOrder
    <3>2. \A h \in Range(fiber'[p]) : h.by = p /\ h.n < Len(sent'[p])
      BY <1>1, <1>3, <1>5, <1>6 DEF OInv, InOrder, FiberInOrder
    <3> QED
      BY <3>1, <3>2 DEF FiberInOrder
  <2>2. ASSUME NEW q \in Publishers, q # p PROVE FiberInOrder(q)'
    BY <1>4, <2>2 DEF OInv, InOrder, FiberInOrder
  <2> QED
    BY <2>1, <2>2
<1>8. ASSUME NEW t \in Topics PROVE ToldInOrder(t)'
  <2>1. said'[t] = said[t] /\ Ordered(said[t]) /\ said[t] \in Seq(Impulse)
    BY <1>1, <1>2 DEF OInv, InOrder, ToldInOrder, TypeOK
  <2>2. ASSUME NEW h \in Range(said[t])
        PROVE  /\ h.n < Len(sent'[h.by])
               /\ h.by \in Publishers => \A g \in Range(fiber'[h.by]) : h.n < g.n
    <3>1. h \in Impulse /\ h.n \in Nat /\ h.by \in Publishers \cup {Host}
      BY <2>1, InSequence DEF Impulse
    <3>2. /\ h.n < Len(sent[h.by])
          /\ h.by \in Publishers => \A g \in Range(fiber[h.by]) : h.n < g.n
      BY DEF OInv, InOrder, ToldInOrder
    <3>3. CASE h.by = p
      BY <1>1, <1>3, <1>5, <3>1, <3>2, <3>3
    <3>4. CASE h.by # p
      BY <1>4, <3>1, <3>2, <3>4
    <3> QED
      BY <3>3, <3>4
  <2> QED
    BY <2>1, <2>2 DEF ToldInOrder
<1>9. Underway'
  <2> SUFFICES ASSUME NEW q \in Publishers, block[q] # "cut", NEW h \in Range(sent'[q])
               PROVE  h \in Range(fiber'[q]) \/ \A t \in Routed(q, h) : h \in Range(said[t])
    BY <1>2 DEF Underway
  <2>1. CASE q = p
    BY <1>5, <2>1 DEF OInv, Underway
  <2>2. CASE q # p
    BY <1>4, <2>2 DEF OInv, Underway
  <2> QED
    BY <2>1, <2>2
<1> QED
  BY <1>7, <1>8, <1>9 DEF InOrder

\* What a topic is told that it has not been told.
LEMMA Telling ==
  ASSUME TypeOK, NEW i \in Impulse, NEW topics \in SUBSET Topics, Deliver(i, topics),
         NEW t \in Topics
  PROVE  /\ t \in topics => said'[t] = Append(said[t], i)
                            /\ Range(said'[t]) = Range(said[t]) \cup {i}
         /\ t \notin topics => said'[t] = said[t]
<1>1. said[t] \in Seq(Impulse)
  BY DEF TypeOK
<1>2. said'[t] = IF t \in topics THEN Append(said[t], i) ELSE said[t]
  BY DEF Deliver
<1> QED
  BY <1>1, <1>2, RangeOfAppend

LEMMA PumpOInv == ASSUME OInv, NEW p \in Publishers, Pump(p) PROVE InOrder' /\ Underway'
<1> DEFINE i == Head(fiber[p])  rest == Tail(fiber[p])  told == Routed(p, i)
<1>1. fiber[p] # <<>> /\ TypeOK /\ fiber[p] \in Seq(Impulse)
  BY DEF Pump, OInv, TypeOK
<1>2. i \in Impulse /\ told \in SUBSET Topics
  BY <1>1, FiberTail, RoutedToTopics
<1>3. /\ Deliver(i, told) /\ UNCHANGED <<block, sent>>
      /\ fiber'[p] = rest
      /\ \A q \in Publishers : q # p => fiber'[q] = fiber[q]
  BY <1>1 DEF Pump, TypeOK
<1>4. Range(fiber[p]) = {i} \cup Range(rest)
  BY <1>1, RangeOfTail
<1>5. Ordered(rest) /\ \A h \in Range(rest) : h.by = i.by => i.n < h.n
  BY <1>1, OrderedTail DEF OInv, InOrder, FiberInOrder
<1>6. \A h \in Range(fiber[p]) : h.by = p /\ h.n < Len(sent[p])
  BY DEF OInv, InOrder, FiberInOrder
<1> HIDE DEF i, rest
<1>7. ASSUME NEW q \in Publishers PROVE FiberInOrder(q)'
  <2>1. CASE q = p
    BY <2>1, <1>3, <1>4, <1>5, <1>6 DEF FiberInOrder
  <2>2. CASE q # p
    BY <2>2, <1>3 DEF OInv, InOrder, FiberInOrder
  <2> QED
    BY <2>1, <2>2
<1>8. ASSUME NEW t \in Topics PROVE ToldInOrder(t)'
  <2>1. Ordered(said[t]) /\ said[t] \in Seq(Impulse)
    BY <1>1 DEF OInv, InOrder, ToldInOrder, TypeOK
  <2>2. ASSUME NEW h \in Range(said[t])
        PROVE  /\ h.n < Len(sent[h.by])
               /\ h.by \in Publishers => \A g \in Range(fiber[h.by]) : h.n < g.n
    BY DEF OInv, InOrder, ToldInOrder
  <2>3. ASSUME NEW h \in Range(said[t])
        PROVE  /\ h.n < Len(sent'[h.by])
               /\ h.by \in Publishers => \A g \in Range(fiber'[h.by]) : h.n < g.n
    BY <2>2, <1>3, <1>4
  <2>4. CASE t \in told
    <3>1. said'[t] = Append(said[t], i) /\ Range(said'[t]) = Range(said[t]) \cup {i}
      BY <1>1, <1>2, <1>3, <2>4, Telling
    <3>2. \A h \in Range(said[t]) : h.by = i.by => h.n < i.n
      BY <1>4, <1>6, <2>2
    <3>3. Ordered(said'[t])
      BY <1>2, <2>1, <3>1, <3>2, OrderedAppend
    <3>4. /\ i.n < Len(sent'[i.by])
          /\ i.by \in Publishers => \A g \in Range(fiber'[i.by]) : i.n < g.n
      BY <1>3, <1>4, <1>5, <1>6
    <3> QED
      BY <2>3, <3>1, <3>3, <3>4 DEF ToldInOrder
  <2>5. CASE t \notin told
    <3>1. said'[t] = said[t]
      BY <1>1, <1>2, <1>3, <2>5, Telling
    <3> QED
      BY <2>1, <2>3, <3>1 DEF ToldInOrder
  <2> QED
    BY <2>4, <2>5
<1>9. Underway'
  <2> SUFFICES ASSUME NEW q \in Publishers, block[q] # "cut", NEW h \in Range(sent[q])
               PROVE  h \in Range(fiber'[q]) \/ \A t \in Routed(q, h) : h \in Range(said'[t])
    BY <1>3 DEF Underway
  <2>1. h \in Range(fiber[q]) \/ \A t \in Routed(q, h) : h \in Range(said[t])
    BY DEF OInv, Underway
  <2>2. \A t \in Topics : Range(said[t]) \subseteq Range(said'[t])
    BY <1>1, <1>2, <1>3, Telling
  <2>3. h \in Impulse /\ Routed(q, h) \subseteq Topics
    BY <1>1, InSequence, RoutedToTopics DEF TypeOK
  <2>4. CASE q = p /\ h = i
    BY <1>1, <1>2, <1>3, <2>4, Telling
  <2>5. CASE ~(q = p /\ h = i)
    BY <1>3, <1>4, <2>1, <2>2, <2>3, <2>5
  <2> QED
    BY <2>4, <2>5
<1> QED
  BY <1>7, <1>8, <1>9 DEF InOrder

LEMMA TellOInv ==
  ASSUME OInv, NEW event \in Events, NEW at \in Threads, Tell(event, at)
  PROVE  InOrder' /\ Underway'
<1> DEFINE i == [by |-> Host, n |-> Len(sent[Host]), event |-> event, at |-> at,
                 private |-> FALSE]
<1>a. TypeOK /\ sent[Host] \in Seq(Impulse) /\ Len(sent[Host]) \in Nat
  BY DEF OInv, TypeOK
<1>b. i \in Impulse /\ i.by = Host /\ i.n = Len(sent[Host])
  BY <1>a DEF Impulse
<1>1. i \in Impulse /\ i.by = Host /\ i.n = Len(sent[Host]) /\ TypeOK
      /\ sent[Host] \in Seq(Impulse) /\ Len(sent[Host]) \in Nat
  BY <1>a, <1>b
<1>2. /\ Deliver(i, Place(i)) /\ UNCHANGED <<block, fiber>>
      /\ sent'[Host] = Append(sent[Host], i)
      /\ \A q \in Publishers : sent'[q] = sent[q]
  BY <1>1, HostIsNoPublisher DEF Tell, TypeOK
<1> HIDE DEF i
<1>3. Len(sent'[Host]) = Len(sent[Host]) + 1 /\ Place(i) \in SUBSET Topics
  BY <1>1, <1>2, AppendedAt, RoutedToTopics
<1>4. \A q \in Publishers : FiberInOrder(q)'
  BY <1>2 DEF OInv, InOrder, FiberInOrder
<1>5. ASSUME NEW t \in Topics PROVE ToldInOrder(t)'
  <2>1. Ordered(said[t]) /\ said[t] \in Seq(Impulse)
    BY <1>1 DEF OInv, InOrder, ToldInOrder, TypeOK
  <2>2. ASSUME NEW h \in Range(said[t])
        PROVE  /\ h.n \in Nat
               /\ h.n < Len(sent[h.by])
               /\ h.n < Len(sent'[h.by])
               /\ h.by \in Publishers => \A g \in Range(fiber'[h.by]) : h.n < g.n
    <3>1. h \in Impulse /\ h.n \in Nat /\ h.by \in Publishers \cup {Host}
      BY <2>1, InSequence DEF Impulse
    <3>2. /\ h.n < Len(sent[h.by])
          /\ h.by \in Publishers => \A g \in Range(fiber[h.by]) : h.n < g.n
      BY DEF OInv, InOrder, ToldInOrder
    <3> QED
      BY <1>1, <1>2, <1>3, <3>1, <3>2
  <2>3. CASE t \in Place(i)
    <3>1. said'[t] = Append(said[t], i) /\ Range(said'[t]) = Range(said[t]) \cup {i}
      BY <1>1, <1>2, <1>3, <2>3, Telling
    <3>2. Ordered(said'[t])
      BY <1>1, <2>1, <2>2, <3>1, OrderedAppend
    <3>3. i.n < Len(sent'[i.by]) /\ i.by \notin Publishers
      BY <1>1, <1>3, HostIsNoPublisher
    <3> QED
      BY <2>2, <3>1, <3>2, <3>3 DEF ToldInOrder
  <2>4. CASE t \notin Place(i)
    <3>1. said'[t] = said[t]
      BY <1>1, <1>2, <1>3, <2>4, Telling
    <3> QED
      BY <2>1, <2>2, <3>1 DEF ToldInOrder
  <2> QED
    BY <2>3, <2>4
<1>6. Underway'
  <2> SUFFICES ASSUME NEW q \in Publishers, block[q] # "cut", NEW h \in Range(sent[q])
               PROVE  h \in Range(fiber[q]) \/ \A t \in Routed(q, h) : h \in Range(said'[t])
    BY <1>2 DEF Underway
  <2>1. h \in Range(fiber[q]) \/ \A t \in Routed(q, h) : h \in Range(said[t])
    BY DEF OInv, Underway
  <2>2. \A t \in Topics : Range(said[t]) \subseteq Range(said'[t])
    BY <1>1, <1>2, <1>3, Telling
  <2>3. Routed(q, h) \subseteq Topics
    BY <1>1, InSequence, RoutedToTopics DEF TypeOK
  <2> QED
    BY <2>1, <2>2, <2>3
<1> QED
  BY <1>4, <1>5, <1>6 DEF InOrder

\* A block that is cut drops what its fiber held, and answers for it no longer.
LEMMA CutOInv == ASSUME OInv, NEW p \in Publishers, Cut(p) PROVE InOrder' /\ Underway'
<1>1. /\ UNCHANGED <<sent, said>>
      /\ fiber'[p] = <<>> /\ block'[p] = "cut"
      /\ \A q \in Publishers : q # p => fiber'[q] = fiber[q] /\ block'[q] = block[q]
  BY DEF Cut, OInv, TypeOK
<1>2. ASSUME NEW q \in Publishers PROVE FiberInOrder(q)'
  BY <1>1, NothingInIt DEF OInv, InOrder, FiberInOrder
<1>3. ASSUME NEW t \in Topics PROVE ToldInOrder(t)'
  <2>1. \A q \in Publishers : Range(fiber'[q]) \subseteq Range(fiber[q])
    BY <1>1, NothingInIt
  <2> QED
    BY <1>1, <2>1 DEF OInv, InOrder, ToldInOrder
<1>4. Underway'
  <2> SUFFICES ASSUME NEW q \in Publishers, block'[q] # "cut", NEW h \in Range(sent[q])
               PROVE  h \in Range(fiber'[q]) \/ \A t \in Routed(q, h) : h \in Range(said[t])
    BY <1>1 DEF Underway
  <2>1. q # p
    BY <1>1
  <2> QED
    BY <1>1, <2>1 DEF OInv, Underway
<1> QED
  BY <1>2, <1>3, <1>4 DEF InOrder

\* Only an open block sends, and only one whose fiber is empty comes to be over.
LEMMA StepDrained == ASSUME OInv, [Next]_vars PROVE Drained'
<1> SUFFICES ASSUME NEW p \in Publishers, block'[p] = "over" PROVE fiber'[p] = <<>>
  BY DEF Drained
<1>1. /\ block \in [Publishers -> {"new", "open", "closing", "over", "cut"}]
      /\ fiber \in [Publishers -> Seq(Impulse)]
      /\ block[p] = "over" => fiber[p] = <<>>
  BY DEF OInv, TypeOK, Drained
<1>2. ASSUME NEW q \in Publishers, Publish(q) PROVE fiber'[p] = <<>>
  <2>1. CASE Open(q) \/ Close(q) \/ Over(q)
    BY <1>1, <2>1 DEF Open, Opens, Close, Over
  <2>2. ASSUME NEW event \in Events, NEW at \in Threads \cup {Nowhere},
               NEW private \in BOOLEAN, Send(q, event, at, private)
        PROVE  fiber'[p] = <<>>
    <3>1. block[q] = "open" /\ UNCHANGED block /\ (q # p => fiber'[p] = fiber[p])
      BY <1>1, <2>2 DEF Send
    <3> QED
      BY <1>1, <3>1
  <2>3. CASE Pump(q) \/ Cut(q)
    <3>1. /\ block[q] # "over" /\ (q # p => fiber'[p] = fiber[p] /\ block'[p] = block[p])
          /\ block'[q] # "over"
      BY <1>1, <2>3 DEF Pump, Cut
    <3> QED
      BY <1>1, <3>1
  <2> QED
    BY <1>2, <2>1, <2>2, <2>3 DEF Publish
<1>3. CASE UNCHANGED <<block, fiber>>
  BY <1>1, <1>3
<1>4. ASSUME NEW s \in Readers, Read(s) PROVE UNCHANGED <<block, fiber>>
  BY <1>4 DEF Read, Subscribe, Take, End, Leave
<1>5. ASSUME NEW event \in Events, NEW at \in Threads, Tell(event, at)
      PROVE  UNCHANGED <<block, fiber>>
  BY <1>5 DEF Tell
<1>6. UNCHANGED vars => UNCHANGED <<block, fiber>>
  BY DEF vars
<1> QED
  BY <1>2, <1>3, <1>4, <1>5, <1>6 DEF Next

LEMMA StepOInv == NInv /\ OInv /\ [Next]_vars => OInv'
<1> SUFFICES ASSUME NInv, OInv, [Next]_vars PROVE OInv'
  OBVIOUS
<1>1. TypeOK' /\ Drained'
  BY StepNInv, StepDrained DEF NInv
<1>2. ASSUME NEW p \in Publishers, Publish(p) PROVE InOrder' /\ Underway'
  <2>1. CASE Open(p) \/ Close(p) \/ Over(p)
    <3>1. UNCHANGED <<fiber, sent, said>>
      BY <2>1 DEF Open, Opens, Close, Over
    <3>2. \A q \in Publishers : block'[q] # "cut" => block[q] # "cut"
      BY <2>1 DEF Open, Opens, Close, Over, OInv, TypeOK
    <3> QED
      BY <3>1, <3>2, StillInOrder, StillUnderway
  <2> QED
    BY <1>2, <2>1, SendOInv, PumpOInv, CutOInv DEF Publish
<1>3. ASSUME NEW s \in Readers, Read(s) PROVE InOrder' /\ Underway'
  <2>1. UNCHANGED <<block, fiber, sent, said>>
    BY <1>3 DEF Read, Subscribe, Take, End, Leave
  <2> QED
    BY <2>1, StillInOrder, StillUnderway
<1>4. ASSUME NEW event \in Events, NEW at \in Threads, Tell(event, at)
      PROVE  InOrder' /\ Underway'
  BY <1>4, TellOInv
<1>5. CASE UNCHANGED vars
  <2>1. UNCHANGED <<block, fiber, sent, said>>
    BY <1>5 DEF vars
  <2>2. InOrder' /\ Underway'
    BY <2>1, StillInOrder, StillUnderway
  <2> QED
    BY <1>1, <2>2 DEF OInv
<1> QED
  BY <1>1, <1>2, <1>3, <1>4, <1>5 DEF Next, OInv

LEMMA AlwaysInOrder == Spec => []OInv
<1>1. Init => OInv
  BY InitOInv
<1>2. NInv /\ OInv /\ [Next]_vars => OInv'
  BY StepOInv
<1>3. Init => NInv
  BY InitNInv
<1>4. NInv /\ [Next]_vars => NInv'
  BY StepNInv
<1> QED
  BY <1>1, <1>2, <1>3, <1>4, PTL DEF Spec

\* What the invariant says of the properties.
LEMMA InOrderIsOnce == ASSUME OInv PROVE ToldOnceInOrder
BY DEF OInv, InOrder, ToldInOrder, Ordered, ToldOnceInOrder

LEMMA DrainedIsPublished == ASSUME OInv PROVE AllIsPublished
<1> SUFFICES ASSUME NEW p \in Publishers, block[p] = "over", NEW i \in Range(sent[p])
             PROVE  \A t \in Routed(p, i) : i \in Range(said[t])
  BY DEF AllIsPublished
<1>1. i \notin Range(fiber[p])
  BY NothingInIt DEF OInv, Drained
<1> QED
  BY <1>1 DEF OInv, Underway
-----------------------------------------------------------------------------
(* The theorems.                                                           *)

\* Every reachable state is well typed: in particular no fiber holds more than its
\* buffer, neither a publisher's nor a reader's (Fiber).
THEOREM TypeCorrect == Spec => []TypeOK
<1>1. NInv => TypeOK
  BY DEF NInv
<1> QED
  BY <1>1, Invariant, PTL

\* No reader is ever skipped ahead, whatever is published at once and however slowly
\* it reads; while it is not cut off it misses nothing (deliver, subscribe).
THEOREM ReadsWithoutGaps == Spec => []NothingSkipped
<1>1. ASSUME NInv PROVE NothingSkipped
  <2> SUFFICES ASSUME NEW s \in Readers, reader[s].topic # Nowhere
               PROVE  /\ reader[s].held = SubSeq(said[reader[s].topic],
                           reader[s].since + reader[s].read + 1, Reached(s))
                      /\ reader[s].open => Reached(s) = Len(said[reader[s].topic])
    BY DEF NothingSkipped
  <2>1. /\ reader[s] \in Reader
        /\ said[reader[s].topic] \in Seq(Impulse)
        /\ Follows(reader[s], said[reader[s].topic])
    BY <1>1 DEF NInv, TypeOK, Following, Reader
  <2>2. reader[s].open => Reached(s) = Len(said[reader[s].topic])
    BY <2>1 DEF Follows, Reached
  <2> QED
    BY <2>1, <2>2, FollowsIsSubSeq DEF Reached
<1>2. NInv => NothingSkipped
  BY <1>1
<1> QED
  BY <1>2, Invariant, PTL

\* No topic is told an impulse twice, nor two of a publisher in another order than
\* it sent them, whatever other publishers and the host tell it (pump, deliver).
THEOREM TellsOnceInOrder == Spec => []ToldOnceInOrder
<1>1. OInv => ToldOnceInOrder
  BY InOrderIsOnce
<1> QED
  BY <1>1, AlwaysInOrder, PTL

\* When a block is over, each topic of each impulse it sent was told it, whatever
\* became of other blocks and of the readers (publish).
THEOREM PublishesAll == Spec => []AllIsPublished
<1>1. OInv => AllIsPublished
  BY DrainedIsPublished
<1> QED
  BY <1>1, AlwaysInOrder, PTL

-----------------------------------------------------------------------------
(* What Waking's steps are to the nerve.                                   *)

LEMMA AskedThread ==
  ASSUME NEW p \in Publishers
  PROVE  Asked[p] \in Threads /\ Thread(p) \in Topics
<1>1. DOMAIN Asked = Publishers /\ Asked[p] \in Threads \cup {Nowhere}
  BY AskedOnThreads
<1>2. Asked[p] \in Range(Asked)
  BY <1>1, Zenon DEF Range
<1> QED
  BY <1>1, <1>2, KicksAreAsked DEF Thread, Topics

\* A reflex speaks by the nerve's Send.
LEMMA SpeaksInNerve ==
  ASSUME NEW p \in Publishers, NEW at \in Threads, Speak(p, at)
  PROVE  \E event \in Events, place \in Threads : event # "asleep" /\ Send(p, event, place, FALSE)
<1>1. CASE sent[p] = <<>>
  BY <1>1, AskedThread, WakingEvents DEF Speak
<1>2. CASE sent[p] # <<>>
  BY <1>2, WakingEvents DEF Speak
<1> QED
  BY <1>1, <1>2

LEMMA SleepsInNerve ==
  ASSUME NEW p \in Publishers, Sleep(p)
  PROVE  \E place \in Threads : Send(p, "asleep", place, FALSE)
BY DEF Sleep

LEMMA SendIsNext ==
  ASSUME NEW p \in Publishers, NEW event \in Events, NEW at \in Threads,
         Send(p, event, at, FALSE)
  PROVE  Next
BY DEF Next, Publish

LEMMA WStepIsStep ==
  ASSUME WNext
  PROVE  Next \/ \E p \in Publishers, c \in Clients : Prompt(c, p)
<1>1. ASSUME NEW p \in Publishers, Kick(p) \/ Drain(p) \/ Cancel(p) PROVE Next
  <2>1. Open(p) \/ Close(p) \/ Pump(p) \/ Over(p) \/ Cut(p)
    BY <1>1 DEF Kick, Wakes, Open, Drain, Ends, Cancel
  <2> QED
    BY <2>1 DEF Next, Publish
<1>2. ASSUME NEW p \in Publishers, Sleep(p) PROVE Next
  BY <1>2, SleepsInNerve, SendIsNext, WakingEvents
<1>3. ASSUME NEW p \in Publishers, NEW at \in Threads, Speak(p, at) PROVE Next
  BY <1>3, SpeaksInNerve, SendIsNext
<1>4. ASSUME NEW p \in Publishers, NEW c \in Clients, Answered(c, p) PROVE Next
  <2>1. Open(p)
    BY <1>4 DEF Answered, Wakes, Open
  <2> QED
    BY <2>1 DEF Next, Publish
<1>5. ASSUME NEW c \in Clients, Answer(c) PROVE Next
  <2>1. PICK p \in Publishers : Joins(c, Thread(p))
    BY <1>5 DEF Answer
  <2>2. Subscribe(c, Thread(p)) /\ Thread(p) \in Topics /\ c \in Readers
    BY <1>5, <2>1, AskedThread, ClientsRead DEF Answer, Subscribe
  <2> QED
    BY <2>2 DEF Next, Read
<1>6. ASSUME NEW c \in Clients, Follow(c) \/ Settle(c) \/ FallBehind(c) PROVE Next
  <2>1. c \in Readers /\ (Take(c) \/ End(c) \/ Leave(c))
    BY <1>6, ClientsRead DEF Follow, Settle, FallBehind
  <2> QED
    BY <2>1 DEF Next, Read
<1> QED
  BY <1>1, <1>2, <1>3, <1>4, <1>5, <1>6 DEF WNext

\* A prompt: what it says of the nerve.
LEMMA PromptKeeps ==
  ASSUME NInv, OInv, NEW p \in Publishers, NEW c \in Clients, Prompt(c, p)
  PROVE  NInv' /\ OInv'
<1>1. /\ Joins(c, Thread(p)) /\ UNCHANGED <<fiber, sent, said>>
      /\ block' = [block EXCEPT ![p] = "open"] /\ c \in Readers /\ Thread(p) \in Topics
  BY AskedThread, ClientsRead DEF Prompt, Wakes, Opens
<1>2. block' \in [Publishers -> {"new", "open", "closing", "over", "cut"}]
      /\ \A q \in Publishers : block'[q] # block[q] => block'[q] = "open"
  BY <1>1 DEF NInv, TypeOK
<1>3. NInv'
  BY <1>1, <1>2, JoinsNInv
<1>4. InOrder' /\ Underway'
  <2>1. \A q \in Publishers : block'[q] # "cut" => block[q] # "cut"
    <3>1. block[p] = "new"
      BY DEF Prompt, Wakes, Opens
    <3> QED
      BY <1>1, <3>1 DEF NInv, TypeOK
  <2> QED
    BY <1>1, <2>1, StillInOrder, StillUnderway
<1>5. Drained'
  BY <1>1, <1>2 DEF OInv, Drained
<1> QED
  BY <1>3, <1>4, <1>5 DEF NInv, OInv

LEMMA WStepKeeps == NInv /\ OInv /\ [WNext]_wvars => NInv' /\ OInv'
<1> SUFFICES ASSUME NInv, OInv, [WNext]_wvars PROVE NInv' /\ OInv'
  OBVIOUS
<1>1. UNCHANGED wvars => UNCHANGED vars
  BY DEF wvars
<1>2. [Next]_vars \/ \E p \in Publishers, c \in Clients : Prompt(c, p)
  BY <1>1, WStepIsStep
<1> QED
  BY <1>2, StepNInv, StepOInv, PromptKeeps

LEMMA KeepsNerve == WSpec => [](NInv /\ OInv)
<1>1. WInit => NInv /\ OInv
  BY InitNInv, InitOInv DEF WInit
<1>2. NInv /\ OInv /\ [WNext]_wvars => (NInv /\ OInv)'
  BY WStepKeeps
<1> QED
  BY <1>1, <1>2, PTL DEF WSpec

-----------------------------------------------------------------------------
(* The thread is let go before anybody hears of it.                        *)

WTypes ==
  /\ awakes \in [Threads -> Publishers \cup {Nobody}]
  /\ client \in [Clients -> [kick : Publishers \cup {Nobody},
                           heard : {"nothing", "end", "behind"}]]

\* What was told, and what is held to be told, was sent.
OnlySent ==
  /\ \A p \in Publishers : \A i \in Range(fiber[p]) : i \in Range(sent[p]) /\ i.by = p
  /\ \A t \in Topics : \A i \in Range(said[t]) : i.by \in Publishers => i \in Range(sent[i.by])

\* Who is asleep holds its thread no longer, and who has yet to wake said nothing.
LetGo ==
  \A p \in Publishers :
    /\ block[p] = "new" => sent[p] = <<>>
    /\ (\E i \in Range(sent[p]) : i.event = "asleep") => awakes[Asked[p]] # p

WInv == WTypes /\ OnlySent /\ LetGo

LEMMA InitWInv == ASSUME WInit PROVE WInv
<1>1. WTypes
  BY DEF WInit, WTypes
<1>2. OnlySent
  BY NothingInIt DEF WInit, Init, OnlySent
<1>3. LetGo
  BY NothingInIt DEF WInit, Init, LetGo
<1> QED
  BY <1>1, <1>2, <1>3 DEF WInv

\* A kick takes its thread with nothing said yet.
LEMMA WakesWInv ==
  ASSUME NInv, WInv, NEW p \in Publishers, Wakes(p), UNCHANGED <<fiber, sent, said>>
  PROVE  (awakes \in [Threads -> Publishers \cup {Nobody}])' /\ OnlySent' /\ LetGo'
<1>1. /\ Asked[p] \in Threads /\ block[p] = "new"
      /\ awakes' = [awakes EXCEPT ![Asked[p]] = p]
      /\ block' = [block EXCEPT ![p] = "open"]
  BY AskedThread DEF Wakes, Opens
<1>2. (awakes \in [Threads -> Publishers \cup {Nobody}])'
  BY <1>1 DEF WInv, WTypes
<1>3. OnlySent'
  BY DEF WInv, OnlySent
<1>4. ASSUME NEW q \in Publishers
      PROVE  /\ block'[q] = "new" => sent[q] = <<>>
             /\ (\E i \in Range(sent[q]) : i.event = "asleep") => awakes'[Asked[q]] # q
  <2>1. CASE q = p
    BY <1>1, <2>1, NothingInIt DEF WInv, LetGo, NInv, TypeOK
  <2>2. CASE q # p
    <3>1. awakes'[Asked[q]] \in {awakes[Asked[q]], p} /\ block'[q] = block[q]
      BY <1>1, <2>2, AskedThread DEF WInv, WTypes, NInv, TypeOK
    <3> QED
      BY <2>2, <3>1 DEF WInv, LetGo
  <2> QED
    BY <2>1, <2>2
<1> QED
  BY <1>2, <1>3, <1>4 DEF LetGo

\* What a publisher sends is in its fiber and was sent.
LEMMA SendOnlySent ==
  ASSUME NInv, OnlySent, NEW p \in Publishers, NEW event \in Events, NEW at \in Threads,
         Send(p, event, at, FALSE)
  PROVE  /\ OnlySent' /\ block[p] = "open" /\ UNCHANGED block
         /\ \A q \in Publishers : q # p => sent'[q] = sent[q]
         /\ \A i \in Range(sent'[p]) : i \in Range(sent[p]) \/ i.event = event
<1> DEFINE i == [by |-> p, n |-> Len(sent[p]), event |-> event, at |-> at,
                 private |-> FALSE]
<1>1. i \in Impulse /\ i.by = p /\ i.event = event
  BY SentIsImpulse DEF NInv
<1>2. /\ fiber' = [fiber EXCEPT ![p] = Append(@, i)]
      /\ sent' = [sent EXCEPT ![p] = Append(@, i)]
      /\ block[p] = "open" /\ UNCHANGED <<block, said>>
  BY DEF Send
<1> HIDE DEF i
<1>3. /\ fiber'[p] = Append(fiber[p], i) /\ sent'[p] = Append(sent[p], i)
      /\ \A q \in Publishers : q # p => sent'[q] = sent[q] /\ fiber'[q] = fiber[q]
      /\ fiber[p] \in Seq(Impulse) /\ sent[p] \in Seq(Impulse)
  BY <1>2 DEF NInv, TypeOK
<1>4. /\ Range(fiber'[p]) = Range(fiber[p]) \cup {i}
      /\ Range(sent'[p]) = Range(sent[p]) \cup {i}
  BY <1>1, <1>3, RangeOfAppend
<1>5. \A q \in Publishers : Range(sent[q]) \subseteq Range(sent'[q])
  BY <1>3, <1>4
<1>6. ASSUME NEW q \in Publishers, NEW h \in Range(fiber'[q])
      PROVE  h \in Range(sent'[q]) /\ h.by = q
  <2>1. CASE q = p
    BY <1>1, <1>4, <1>6, <2>1 DEF OnlySent
  <2>2. CASE q # p
    BY <1>3, <1>6, <2>2 DEF OnlySent
  <2> QED
    BY <2>1, <2>2
<1>7. ASSUME NEW t \in Topics, NEW h \in Range(said'[t]), h.by \in Publishers
      PROVE  h \in Range(sent'[h.by])
  BY <1>2, <1>5, <1>7 DEF OnlySent
<1>8. OnlySent'
  BY <1>6, <1>7 DEF OnlySent
<1> QED
  BY <1>1, <1>2, <1>3, <1>4, <1>8

LEMMA SpeakWInv ==
  ASSUME NInv, WInv, NEW p \in Publishers, NEW at \in Threads, Speak(p, at)
  PROVE  WInv'
<1>1. PICK event \in Events, place \in Threads :
        event # "asleep" /\ Send(p, event, place, FALSE)
  BY SpeaksInNerve
<1>2. /\ OnlySent' /\ block[p] = "open" /\ UNCHANGED block
      /\ \A q \in Publishers : q # p => sent'[q] = sent[q]
      /\ \A i \in Range(sent'[p]) : i \in Range(sent[p]) \/ i.event = event
  BY <1>1, SendOnlySent DEF WInv
<1>3. UNCHANGED <<awakes, client>>
  BY DEF Speak
<1>4. LetGo'
  BY <1>1, <1>2, <1>3 DEF WInv, LetGo
<1> QED
  BY <1>2, <1>3, <1>4 DEF WInv, WTypes

\* The step that says "asleep" is the one that lets the thread go.
LEMMA SleepWInv == ASSUME NInv, WInv, NEW p \in Publishers, Sleep(p) PROVE WInv'
<1>1. PICK place \in Threads : Send(p, "asleep", place, FALSE)
  BY SleepsInNerve
<1>2. /\ OnlySent' /\ block[p] = "open" /\ UNCHANGED block
      /\ \A q \in Publishers : q # p => sent'[q] = sent[q]
  BY <1>1, SendOnlySent, WakingEvents DEF WInv
<1>3. awakes' = [awakes EXCEPT ![Asked[p]] = Nobody] /\ UNCHANGED client
  BY DEF Sleep
<1>4. WTypes'
  BY <1>3 DEF WInv, WTypes
<1>5. /\ awakes'[Asked[p]] = Nobody
      /\ \A q \in Publishers : awakes'[Asked[q]] \in {awakes[Asked[q]], Nobody}
  BY <1>3, AskedThread DEF WInv, WTypes
<1>6. LetGo'
  <2> SUFFICES ASSUME NEW q \in Publishers
               PROVE  /\ block[q] = "new" => sent'[q] = <<>>
                      /\ (\E i \in Range(sent'[q]) : i.event = "asleep")
                           => awakes'[Asked[q]] # q
    BY <1>2 DEF LetGo
  <2>1. q # Nobody
    BY KicksAreAsked
  <2>2. CASE q = p
    BY <1>2, <1>5, <2>1, <2>2
  <2>3. CASE q # p
    BY <1>2, <1>5, <2>1, <2>3 DEF WInv, LetGo
  <2> QED
    BY <2>2, <2>3
<1> QED
  BY <1>2, <1>4, <1>6 DEF WInv

\* Threads are only ever let go here.
LEMMA FreesWInv ==
  ASSUME WInv, NEW p \in Publishers, UNCHANGED awakes \/ Freed(p),
         UNCHANGED <<sent, client>>, OnlySent',
         \A q \in Publishers : block'[q] = "new" => block[q] = "new"
  PROVE  WInv'
<1>1. awakes' \in [Threads -> Publishers \cup {Nobody}]
      /\ \A q \in Publishers : awakes'[Asked[q]] \in {awakes[Asked[q]], Nobody}
  BY AskedThread DEF WInv, WTypes, Freed
<1>2. \A q \in Publishers : q # Nobody
  BY KicksAreAsked
<1>3. LetGo'
  BY <1>1, <1>2 DEF WInv, LetGo
<1> QED
  BY <1>1, <1>3 DEF WInv, WTypes

LEMMA PumpOnlySent ==
  ASSUME NInv, OnlySent, NEW p \in Publishers, Pump(p)
  PROVE  OnlySent'
<1> DEFINE i == Head(fiber[p])  rest == Tail(fiber[p])  told == Routed(p, i)
<1>1. fiber[p] # <<>> /\ TypeOK /\ fiber[p] \in Seq(Impulse)
  BY DEF Pump, NInv, TypeOK
<1>2. i \in Impulse /\ told \in SUBSET Topics
  BY <1>1, FiberTail, RoutedToTopics
<1>3. /\ Deliver(i, told) /\ UNCHANGED sent
      /\ fiber'[p] = rest
      /\ \A q \in Publishers : q # p => fiber'[q] = fiber[q]
  BY <1>1 DEF Pump, TypeOK
<1>4. Range(fiber[p]) = {i} \cup Range(rest)
  BY <1>1, RangeOfTail
<1>5. i \in Range(sent[p]) /\ i.by = p
  BY <1>4 DEF OnlySent
<1> HIDE DEF i, rest, told
<1>6. \A q \in Publishers : Range(fiber'[q]) \subseteq Range(fiber[q])
  BY <1>3, <1>4
<1>7. ASSUME NEW t \in Topics PROVE Range(said'[t]) \subseteq Range(said[t]) \cup {i}
  BY <1>1, <1>2, <1>3, Telling
<1>8. \A q \in Publishers : \A h \in Range(fiber'[q]) : h \in Range(sent'[q]) /\ h.by = q
  BY <1>3, <1>6 DEF OnlySent
<1>9. ASSUME NEW t \in Topics, NEW h \in Range(said'[t]), h.by \in Publishers
      PROVE  h \in Range(sent'[h.by])
  <2>1. CASE h = i
    BY <1>3, <1>5, <2>1
  <2>2. CASE h \in Range(said[t])
    BY <1>3, <1>9, <2>2 DEF OnlySent
  <2> QED
    BY <1>7, <2>1, <2>2
<1> QED
  BY <1>8, <1>9 DEF OnlySent

LEMMA DrainWInv ==
  ASSUME NInv, WInv, NEW p \in Publishers, Drain(p) \/ Cancel(p)
  PROVE  WInv'
<1>1. /\ UNCHANGED awakes \/ Freed(p)
      /\ UNCHANGED <<sent, client>>
  BY DEF Drain, Ends, Cancel, Close, Pump, Over, Cut
<1>2. \A q \in Publishers : block'[q] = "new" => block[q] = "new"
  BY DEF Drain, Ends, Cancel, Close, Pump, Over, Cut, NInv, TypeOK
<1>3. OnlySent'
  <2>1. CASE Close(p) \/ Over(p)
    BY <2>1 DEF WInv, OnlySent, Close, Over
  <2>2. CASE Pump(p)
    BY <2>2, PumpOnlySent DEF WInv
  <2>3. CASE Cut(p)
    <3>1. \A q \in Publishers : Range(fiber'[q]) \subseteq Range(fiber[q])
      BY <2>3, NothingInIt DEF Cut, NInv, TypeOK
    <3> QED
      BY <2>3, <3>1 DEF WInv, OnlySent, Cut
  <2> QED
    BY <2>1, <2>2, <2>3 DEF Drain, Ends, Cancel
<1> QED
  BY <1>1, <1>2, <1>3, FreesWInv

\* The clients: they kick, or only read.
LEMMA KickWInv ==
  ASSUME NInv, WInv, NEW p \in Publishers,
         Kick(p) \/ \E c \in Clients : Prompt(c, p) \/ Answered(c, p)
  PROVE  WInv'
<1>1. Wakes(p) /\ UNCHANGED <<fiber, sent, said>>
  BY DEF Kick, Prompt, Answered
<1>2. client' \in [Clients -> [kick : Publishers \cup {Nobody},
                             heard : {"nothing", "end", "behind"}]]
  BY DEF Kick, Prompt, Answered, WInv, WTypes
<1> QED
  BY <1>1, <1>2, WakesWInv DEF WInv, WTypes

LEMMA ReadWInv ==
  ASSUME WInv, NEW c \in Clients, Answer(c) \/ Follow(c) \/ Settle(c) \/ FallBehind(c)
  PROVE  WInv'
<1>1. UNCHANGED <<block, fiber, sent, said, awakes>>
  BY DEF Answer, Follow, Settle, FallBehind, Take, Leave, End
<1>2. client' \in [Clients -> [kick : Publishers \cup {Nobody},
                             heard : {"nothing", "end", "behind"}]]
  BY DEF Answer, Follow, Settle, FallBehind, Done, WInv, WTypes
<1> QED
  BY <1>1, <1>2 DEF WInv, WTypes, OnlySent, LetGo

LEMMA StepWInv == NInv /\ WInv /\ [WNext]_wvars => WInv'
<1> SUFFICES ASSUME NInv, WInv, [WNext]_wvars PROVE WInv'
  OBVIOUS
<1>1. CASE WNext
  BY <1>1, KickWInv, SleepWInv, DrainWInv, SpeakWInv, ReadWInv DEF WNext
<1>2. CASE UNCHANGED wvars
  BY <1>2 DEF wvars, vars, WInv, WTypes, OnlySent, LetGo
<1> QED
  BY <1>1, <1>2

LEMMA AlwaysWInv == WSpec => []WInv
<1>1. WInit => WInv
  BY InitWInv
<1>2. NInv /\ WInv /\ [WNext]_wvars => WInv'
  BY StepWInv
<1> QED
  BY <1>1, <1>2, KeepsNerve, PTL DEF WSpec

-----------------------------------------------------------------------------
(* The theorems.                                                           *)

\* Every reachable state of kicks, clients and the nerve between them is well typed.
THEOREM WTypeCorrect == WSpec => []WTypeOK
<1>1. NInv /\ WInv => WTypeOK
  BY DEF NInv, WInv, WTypes, WTypeOK
<1> QED
  BY <1>1, KeepsNerve, AlwaysWInv, PTL

\* Whoever hears a reflex fall asleep finds that it has let its thread go, however its
\* pump lags and whoever kicks there meanwhile (kick).
THEOREM LetsGoFirst == WSpec => []HeardAsleepIsLetGo
<1>1. WInv => HeardAsleepIsLetGo
  <2> SUFFICES ASSUME WInv, NEW p \in Publishers, NEW t \in Topics,
                      NEW k \in DOMAIN said[t], said[t][k].by = p,
                      said[t][k].event = "asleep"
               PROVE  awakes[Asked[p]] # p
    BY DEF HeardAsleepIsLetGo
  <2>1. said[t][k] \in Range(said[t])
    BY Zenon DEF Range
  <2>2. said[t][k] \in Range(sent[p])
    BY <2>1 DEF WInv, OnlySent
  <2> QED
    BY <2>2 DEF WInv, LetGo
<1> QED
  BY <1>1, AlwaysWInv, PTL

\* In the use the reflexes make of it, the nerve keeps the order of what it tells and
\* loses nothing of a block that ends (pump, publish).
THEOREM ReflexesAreHeard == WSpec => [](ToldOnceInOrder /\ AllIsPublished)
<1>1. OInv => ToldOnceInOrder /\ AllIsPublished
  BY InOrderIsOnce, DrainedIsPublished
<1> QED
  BY <1>1, KeepsNerve, PTL
=============================================================================
