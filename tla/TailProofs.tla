----------------------------- MODULE TailProofs -----------------------------
(***************************************************************************)
(* Proofs about Tail, for any number of turns, lines, connections, driven  *)
(* turns and faults.                                                       *)
(***************************************************************************)
EXTENDS Tail, TLAPS

-----------------------------------------------------------------------------
(* The inductive invariant.                                                *)

(* A turn that no line of work is added to any more.                           *)
Complete(t) == t < LastTurn \/ (t = LastTurn /\ phase # "busy")

(* All that was said in a turn is in the first k lines.                        *)
SaidBy(t, k) == \A i \in 1 .. Len(file) : file[i].turn = t /\ file[i].kind # "summary" => i <= k

Settled(t) == run[t].status \in {"driven", "final"}

(* The transcript: turn after turn, each from its prompt to its summary, if it *)
(* has one. Stop hooks are of complete turns.                                  *)
InTurns ==
    /\ \A i, j \in 1 .. Len(file) : i < j => file[i].turn <= file[j].turn
    /\ \A i, j \in 1 .. Len(file) :
         i < j /\ (file[j].kind = "prompt" \/ file[i].kind = "summary")
           => file[i].turn < file[j].turn
    /\ \A i \in 1 .. Len(file) : \A t \in 1 .. file[i].turn :
         \E j \in 1 .. i : file[j].kind = "prompt" /\ file[j].turn = t

FileOK ==
    /\ InTurns
    /\ phase # "idle" => file # <<>> /\ file[Len(file)].kind # "summary"
    /\ \A t \in stops : Complete(t)

(* The turn being assembled is the lines from a prompt to the last one read.   *)
OpenOK(c) ==
    LET o == conn[c].open IN
    o # NoOpenTurn =>
       /\ o.first \in 1 .. o.last /\ o.last = conn[c].next - 1 /\ o.last <= Len(file)
       /\ file[o.first].kind = "prompt"
       /\ \A i \in o.first .. o.last :
            file[i].turn = file[o.first].turn /\ file[i].kind # "summary"

LinkOK(c) ==
    LET r == conn[c] IN
    /\ r.link = "live" => r.next <= Len(file) + 1
    /\ r.link # "live" => r.sent <= Len(file) /\ r.next <= r.sent + 1
    /\ r.drain # NoTurn => Complete(r.drain)

(* An end of stream is that of its last line's turn: it has all of it, unless  *)
(* that was a bet, or the end is for another turn.                             *)
EofOK(c) ==
    LET r == conn[c] IN
    r.link = "eof" /\ r.sent # 0 =>
       LET t == file[r.sent].turn IN
       r.drain \in {NoTurn, t} => t \in gambled \/ (Complete(t) /\ SaidBy(t, r.sent))

(* No turn is left behind: what a connection has read is of its open turn or   *)
(* of turns that are committed or driven.                                      *)
PassedOK(c) ==
    /\ \A i \in 1 .. conn[c].next - 1 : file[i].turn = OpenTurn(c) \/ Settled(file[i].turn)
    /\ \A t \in conn[c].known : Settled(t)

(* One connection at a time binds, a run that has no reply yet.                *)
BindOK(c) ==
    conn[c].pc = "bind" =>
       /\ conn[c].open # NoOpenTurn
       /\ run[OpenTurn(c)].status = "final"
       /\ rows[OpenTurn(c)].replies = 0
       /\ \A d \in Connections : conn[d].pc = "bind" => c = d

RunOK(t) ==
    /\ run[t].status = "final" =>
         /\ run[t].first \in 1 .. run[t].last /\ run[t].last <= Len(file)
         /\ file[run[t].last].turn = t
         /\ t \in gambled \/ (Complete(t) /\ Said(t) = run[t].first .. run[t].last)
    /\ run[t].status # "final" => rows[t].replies = 0

TInv ==
    /\ TypeOK
    /\ FileOK
    /\ \A c \in Connections : OpenOK(c) /\ LinkOK(c) /\ EofOK(c) /\ PassedOK(c) /\ BindOK(c)
    /\ \A t \in Turns : RunOK(t)
    /\ EarliestFirst /\ ToldOnce

-----------------------------------------------------------------------------
(* The transcript.                                                         *)

LEMMA Lined ==
    ASSUME TypeOK
    PROVE  /\ Len(file) \in Nat /\ DOMAIN file = 1 .. Len(file)
           /\ \A i \in 1 .. Len(file) :
                /\ file[i] \in Lines /\ file[i].turn \in Turns
                /\ file[i].kind \in {"prompt", "work", "summary"}
           /\ file # <<>> => Len(file) # 0 /\ LastTurn = file[Len(file)].turn
           /\ file = <<>> => Len(file) = 0 /\ LastTurn = 0
           /\ LastTurn \in Nat
<1>1. file \in Seq(Lines)
  BY DEF TypeOK
<1>2. Len(file) \in Nat /\ DOMAIN file = 1 .. Len(file)
  BY <1>1
<1>3. \A i \in 1 .. Len(file) : file[i] \in Lines
  BY <1>1
<1>4. \A x \in Lines : x.turn \in Turns /\ x.kind \in {"prompt", "work", "summary"}
  BY DEF Lines
<1>5. file # <<>> => Len(file) # 0
  BY <1>1
<1>6. MaxTurns \in Nat
  BY TailAssumption
<1> QED
  BY <1>1, <1>2, <1>3, <1>4, <1>5, <1>6 DEF LastTurn, Turns, NoTurn

(* Lines are of the last turn or earlier ones, and work is of the turn before. *)
LEMMA LastIsLast ==
    ASSUME TypeOK, FileOK
    PROVE  \A i \in 1 .. Len(file) : file[i].turn <= LastTurn
<1> SUFFICES ASSUME NEW i \in 1 .. Len(file) PROVE file[i].turn <= LastTurn
  OBVIOUS
<1>1. file # <<>>
  BY Lined
<1>2. Len(file) \in 1 .. Len(file) /\ LastTurn = file[Len(file)].turn
  BY <1>1, Lined
<1>3. CASE i = Len(file)
  BY <1>2, <1>3, Lined DEF Turns
<1>4. CASE i < Len(file)
  BY <1>2, <1>4 DEF FileOK, InTurns
<1>5. Len(file) \in Nat
  BY Lined
<1> QED
  BY <1>3, <1>4, <1>5

(* A line that is no prompt is of the turn of the line before it.              *)
LEMMA WorkFollows ==
    ASSUME TypeOK, FileOK, NEW j \in 1 .. Len(file), file[j].kind # "prompt"
    PROVE  j > 1 /\ file[j - 1].turn = file[j].turn
<1>1. file[j].turn \in Turns /\ file[j].turn \in 1 .. file[j].turn
  BY Lined, TailAssumption DEF Turns
<1>2. PICK i \in 1 .. j : file[i].kind = "prompt" /\ file[i].turn = file[j].turn
  BY <1>1 DEF FileOK, InTurns
<1>3. i < j /\ j - 1 \in 1 .. Len(file) /\ i \in 1 .. Len(file)
  BY <1>2, Lined
<1>4. file[i].turn <= file[j - 1].turn
  <2>1. CASE i = j - 1
    BY <2>1, <1>3, Lined, TailAssumption DEF Turns
  <2>2. CASE i < j - 1
    BY <2>2, <1>3 DEF FileOK, InTurns
  <2> QED
    BY <2>1, <2>2, <1>3, Lined
<1>5. file[j - 1].turn <= file[j].turn
  BY <1>3, Lined DEF FileOK, InTurns
<1> QED
  BY <1>2, <1>3, <1>4, <1>5, Lined, TailAssumption DEF Turns

LEMMA Appended ==
    ASSUME TypeOK, NEW l \in Lines
    PROVE  /\ Append(file, l) \in Seq(Lines)
           /\ Len(Append(file, l)) = Len(file) + 1
           /\ \A i \in 1 .. Len(file) : Append(file, l)[i] = file[i]
           /\ Append(file, l)[Len(file) + 1] = l
           /\ Append(file, l) # <<>>
<1>1. file \in Seq(Lines)
  BY DEF TypeOK
<1> QED
  BY <1>1

(* Whatever a line is appended to: the lines there are stay, complete turns    *)
(* stay complete, and nothing is said in them any more.                        *)
Grows ==
    /\ file' \in Seq(Lines)
    /\ Len(file') \in Nat /\ Len(file) <= Len(file')
    /\ \A i \in 1 .. Len(file) : file'[i] = file[i]
    /\ \A t \in Turns : Complete(t) => Complete(t)'
    /\ \A t \in Turns : Complete(t) =>
         \A i \in Len(file) + 1 .. Len(file') : file'[i].turn = t => file'[i].kind = "summary"

LEMMA WritePromptGrows == ASSUME TypeOK, FileOK, WritePrompt PROVE Grows /\ FileOK'
<1> DEFINE n == Len(file) + 1
           l == [kind |-> "prompt", turn |-> LastTurn + 1]
<1>1. LastTurn \in Nat /\ LastTurn + 1 \in Turns /\ l \in Lines
  BY Lined, TailAssumption DEF WritePrompt, Turns, Lines
<1>2. /\ file' = Append(file, l) /\ phase' = "busy" /\ stops' = stops
  BY DEF WritePrompt
<1>3. /\ file' \in Seq(Lines) /\ Len(file') = n /\ file' # <<>>
      /\ \A i \in 1 .. Len(file) : file'[i] = file[i]
      /\ file'[n] = l
  BY <1>1, <1>2, Appended
<1>4. Len(file) \in Nat /\ \A i \in 1 .. Len(file) : file[i].turn \in Nat
  BY Lined DEF Turns
<1>5. LastTurn' = LastTurn + 1
  BY <1>3 DEF LastTurn
<1>6. \A t \in Turns : Complete(t) => Complete(t)'
  BY <1>1, <1>5, TailAssumption DEF Complete, Turns
<1>7. \A t \in Turns : Complete(t) => t # LastTurn + 1
  BY <1>1, TailAssumption DEF Complete, Turns
<1>8. Grows
  BY <1>3, <1>4, <1>6, <1>7 DEF Grows
<1>9. \A i \in 1 .. Len(file) : file[i].turn < LastTurn + 1
  BY <1>1, <1>4, LastIsLast
<1>10. InTurns'
  <2>1. ASSUME NEW i \in 1 .. n, NEW j \in 1 .. n, i < j
        PROVE  /\ file'[i].turn <= file'[j].turn
               /\ file'[j].kind = "prompt" \/ file'[i].kind = "summary"
                    => file'[i].turn < file'[j].turn
    <3>1. i \in 1 .. Len(file) /\ file'[i] = file[i]
      BY <2>1, <1>3, <1>4
    <3>2. CASE j = n
      <4>1. file'[i].turn < LastTurn + 1 /\ file[i].turn \in Nat
        BY <3>1, <1>4, <1>9
      <4>2. file'[j].turn = LastTurn + 1
        BY <3>2, <1>3
      <4> QED
        BY <4>1, <4>2, <3>1, <1>1
    <3>3. CASE j \in 1 .. Len(file)
      BY <2>1, <3>1, <3>3, <1>3 DEF FileOK, InTurns
    <3> QED
      BY <3>2, <3>3, <1>4
  <2>3. ASSUME NEW i \in 1 .. n, NEW t \in 1 .. file'[i].turn
        PROVE  \E j \in 1 .. i : file'[j].kind = "prompt" /\ file'[j].turn = t
    <3>1. CASE i \in 1 .. Len(file)
      <4>1. PICK j \in 1 .. i : file[j].kind = "prompt" /\ file[j].turn = t
        BY <3>1, <1>3 DEF FileOK, InTurns
      <4> QED
        BY <4>1, <3>1, <1>3, <1>4
    <3>2. CASE i = n /\ t = LastTurn + 1
      BY <3>2, <1>3, <1>4
    <3>3. CASE i = n /\ t \in 1 .. LastTurn
      <4>1. Len(file) \in 1 .. Len(file) /\ LastTurn = file[Len(file)].turn
        BY <3>3, <1>4, Lined
      <4>2. PICK j \in 1 .. Len(file) : file[j].kind = "prompt" /\ file[j].turn = t
        BY <4>1, <3>3 DEF FileOK, InTurns
      <4> QED
        BY <4>2, <3>3, <1>3, <1>4
    <3> QED
      BY <3>1, <3>2, <3>3, <1>1, <1>3, <1>4
  <2> QED
    BY <2>1, <2>3, <1>3 DEF InTurns
<1>11. file'[Len(file')].kind # "summary"
  BY <1>3
<1>12. stops \subseteq Turns
  BY DEF TypeOK
<1> QED
  BY <1>2, <1>3, <1>6, <1>8, <1>10, <1>11, <1>12 DEF FileOK

(* A line of the last turn is appended: work while it goes on, or its summary. *)
LEMMA LineGrows ==
    ASSUME TypeOK, FileOK, NEW kind \in {"work", "summary"}, NEW S, stops' = S,
           S \subseteq stops, phase # "idle", kind = "work" => phase = "busy",
           phase' = IF kind = "work" THEN phase ELSE "idle",
           file' = Append(file, [kind |-> kind, turn |-> LastTurn])
    PROVE  Grows /\ FileOK'
<1> DEFINE n == Len(file) + 1
           l == [kind |-> kind, turn |-> LastTurn]
<1>1. /\ file # <<>> /\ Len(file) \in 1 .. Len(file) /\ LastTurn = file[Len(file)].turn
      /\ file[Len(file)].kind # "summary"
  BY Lined DEF FileOK
<1>2. LastTurn \in Turns /\ LastTurn \in Nat /\ l \in Lines
  BY <1>1, Lined DEF Lines, Turns
<1>3. /\ file' \in Seq(Lines) /\ Len(file') = n /\ file' # <<>>
      /\ \A i \in 1 .. Len(file) : file'[i] = file[i]
      /\ file'[n] = l
  BY <1>2, Appended
<1>4. Len(file) \in Nat /\ \A i \in 1 .. Len(file) : file[i].turn \in Nat
  BY Lined DEF Turns
<1>5. LastTurn' = LastTurn
  BY <1>3 DEF LastTurn
<1>6. \A t \in Turns : Complete(t) => Complete(t)'
  BY <1>5 DEF Complete
<1>7. \A t \in Turns : Complete(t) /\ t = LastTurn => kind = "summary"
  BY <1>2 DEF Complete
<1>8. Grows
  BY <1>3, <1>4, <1>6, <1>7 DEF Grows
<1>9. \A i \in 1 .. Len(file) : file[i].turn <= LastTurn
  BY LastIsLast
<1>10. ASSUME NEW i \in 1 .. Len(file), file[i].kind = "summary" PROVE file[i].turn < LastTurn
  <2>1. i < Len(file)
    BY <1>1, <1>10, <1>4
  <2> QED
    BY <2>1, <1>1, <1>10 DEF FileOK, InTurns
<1>11. InTurns'
  <2>1. \A i, j \in 1 .. n : i < j => file'[i].turn <= file'[j].turn
    BY <1>3, <1>4, <1>9 DEF FileOK, InTurns
  <2>2. \A i, j \in 1 .. n :
          i < j /\ (file'[j].kind = "prompt" \/ file'[i].kind = "summary")
            => file'[i].turn < file'[j].turn
    BY <1>3, <1>4, <1>10 DEF FileOK, InTurns
  <2>3. ASSUME NEW i \in 1 .. n, NEW t \in 1 .. file'[i].turn
        PROVE  \E j \in 1 .. i : file'[j].kind = "prompt" /\ file'[j].turn = t
    <3>1. CASE i \in 1 .. Len(file)
      <4>1. PICK j \in 1 .. i : file[j].kind = "prompt" /\ file[j].turn = t
        BY <3>1, <1>3 DEF FileOK, InTurns
      <4> QED
        BY <4>1, <3>1, <1>3, <1>4
    <3>2. CASE i = n
      <4>1. t \in 1 .. file[Len(file)].turn
        BY <3>2, <1>1, <1>3
      <4>2. PICK j \in 1 .. Len(file) : file[j].kind = "prompt" /\ file[j].turn = t
        BY <4>1, <1>1 DEF FileOK, InTurns
      <4> QED
        BY <4>2, <3>2, <1>3, <1>4
    <3> QED
      BY <3>1, <3>2, <1>4
  <2> QED
    BY <2>1, <2>2, <2>3, <1>3 DEF InTurns
<1>12. phase' # "idle" => file'[Len(file')].kind # "summary"
  BY <1>3
<1>13. S \subseteq Turns
  BY DEF TypeOK
<1> QED
  BY <1>3, <1>6, <1>8, <1>11, <1>12, <1>13 DEF FileOK

-----------------------------------------------------------------------------
(* What the steps of the rest leave as it was.                             *)

(* The parts of the invariant that are about one connection.                   *)
ConnOK(c) == OpenOK(c) /\ LinkOK(c) /\ EofOK(c) /\ PassedOK(c)

LEMMA Opened ==
    ASSUME TypeOK, NEW c \in Connections, OpenOK(c)
    PROVE  /\ conn[c].open = NoOpenTurn => conn[c].open.first = 0 /\ OpenTurn(c) = NoTurn
           /\ conn[c].open # NoOpenTurn =>
                /\ conn[c].open.first # 0
                /\ conn[c].open.first \in 1 .. Len(file)
                /\ OpenTurn(c) = file[conn[c].open.first].turn
                /\ OpenTurn(c) \in Turns /\ OpenTurn(c) # NoTurn
<1>1. CASE conn[c].open = NoOpenTurn
  BY <1>1 DEF NoOpenTurn, OpenTurn
<1>2. CASE conn[c].open # NoOpenTurn
  <2>1. conn[c].open.first \in 1 .. Len(file) /\ conn[c].open.first # 0
    <3>1. Len(file) \in Nat /\ conn[c].open.last \in Nat
      BY Lined DEF TypeOK
    <3>2. conn[c].open.first \in 1 .. conn[c].open.last /\ conn[c].open.last <= Len(file)
      BY <1>2 DEF OpenOK
    <3> QED
      BY <3>1, <3>2
  <2>2. OpenTurn(c) = file[conn[c].open.first].turn
    BY <2>1 DEF OpenTurn
  <2> QED
    BY <1>2, <2>1, <2>2, Lined, TailAssumption DEF Turns, NoTurn
<1> QED
  BY <1>1, <1>2

(* What a connection has read is in the file.                                  *)
LEMMA ReadLines ==
    ASSUME TypeOK, NEW c \in Connections, LinkOK(c)
    PROVE  /\ conn[c].next \in Nat \ {0} /\ conn[c].sent \in Nat
           /\ conn[c].next <= Len(file) + 1
           /\ conn[c].link # "live" => conn[c].sent <= Len(file) /\ conn[c].next <= conn[c].sent + 1
           /\ Pending(c) => conn[c].next \in 1 .. Len(file)
<1>1. conn[c].next \in Nat \ {0} /\ conn[c].sent \in Nat /\ Len(file) \in Nat
  BY Lined DEF TypeOK
<1> QED
  BY <1>1 DEF LinkOK, Pending

(* The transcript grows and nothing else moves.                                *)
LEMMA GrowthKeeps ==
    ASSUME TInv, Grows, FileOK', TypeOK', conn' = conn, run' = run, rows' = rows,
           gambled' = gambled
    PROVE  TInv'
<1>1. TypeOK /\ FileOK /\ Len(file) \in Nat
  BY Lined DEF TInv
<1>2. ASSUME NEW c \in Connections
      PROVE  /\ (conn[c].open # NoOpenTurn => OpenTurn(c)' = OpenTurn(c))
             /\ (conn[c].open = NoOpenTurn => OpenTurn(c)' = NoTurn)
  <2>1. CASE conn[c].open = NoOpenTurn
    BY <2>1 DEF NoOpenTurn, OpenTurn
  <2>2. CASE conn[c].open # NoOpenTurn
    <3>1. /\ conn[c].open.first # 0 /\ conn[c].open.first \in 1 .. Len(file)
          /\ OpenTurn(c) = file[conn[c].open.first].turn
      BY <1>1, <2>2, Opened DEF TInv
    <3> QED
      BY <2>2, <3>1 DEF OpenTurn, Grows
  <2> QED
    BY <2>1, <2>2
<1>3. ASSUME NEW c \in Connections PROVE OpenOK(c)'
  <2> SUFFICES ASSUME conn[c].open # NoOpenTurn PROVE OpenOK(c)'
    BY DEF OpenOK
  <2>1. OpenOK(c) /\ conn[c].open.first \in 1 .. Len(file)
    BY <1>1, Opened DEF TInv
  <2>2. conn[c].open.last \in Nat /\ Len(file) <= Len(file') /\ Len(file') \in Nat
    BY <1>1 DEF TypeOK, Grows
  <2>3. /\ conn[c].open.first \in 1 .. conn[c].open.last
        /\ conn[c].open.last = conn[c].next - 1 /\ conn[c].open.last <= Len(file)
        /\ file[conn[c].open.first].kind = "prompt"
    BY <2>1 DEF OpenOK
  <2>4. \A i \in conn[c].open.first .. conn[c].open.last :
          i \in 1 .. Len(file) /\ file[i].turn = file[conn[c].open.first].turn
          /\ file[i].kind # "summary"
    BY <1>1, <2>1, <2>2, <2>3 DEF OpenOK
  <2>5. \A i \in 1 .. Len(file) : file'[i] = file[i]
    BY DEF Grows
  <2>6. conn[c].open.last <= Len(file')
    BY <1>1, <2>2, <2>3
  <2> QED
    BY <2>1, <2>3, <2>4, <2>5, <2>6 DEF OpenOK
<1>4. ASSUME NEW c \in Connections PROVE LinkOK(c)'
  <2>1. LinkOK(c) /\ Len(file) <= Len(file') /\ Len(file') \in Nat
    BY DEF TInv, Grows
  <2>2. conn[c].next \in Nat /\ conn[c].sent \in Nat /\ conn[c].drain \in Turns \cup {NoTurn}
    BY <1>1 DEF TypeOK
  <2>3. conn[c].drain # NoTurn => Complete(conn[c].drain)'
    BY <2>1, <2>2 DEF LinkOK, Grows
  <2> QED
    BY <1>1, <2>1, <2>2, <2>3 DEF LinkOK
<1>5. ASSUME NEW t \in Turns, NEW k \in 1 .. Len(file), Complete(t), SaidBy(t, k)
      PROVE  SaidBy(t, k)'
  BY <1>1, <1>5 DEF SaidBy, Grows
<1>6. ASSUME NEW c \in Connections PROVE EofOK(c)'
  <2> SUFFICES ASSUME conn[c].link = "eof", conn[c].sent # 0,
                      conn[c].drain \in {NoTurn, file'[conn[c].sent].turn},
                      NEW t, t = file'[conn[c].sent].turn, t \notin gambled
               PROVE  Complete(t)' /\ SaidBy(t, conn[c].sent)'
    BY DEF EofOK, Complete, SaidBy, LastTurn
  <2>1. PICK s \in 1 .. Len(file) : s = conn[c].sent
    BY <1>1, ReadLines DEF TInv
  <2>2. t = file[s].turn /\ t \in Turns
    BY <1>1, <2>1, Lined DEF Grows
  <2>3. Complete(t) /\ SaidBy(t, s)
    BY <2>1, <2>2 DEF TInv, EofOK
  <2>4. Complete(t)'
    BY <2>2, <2>3 DEF Grows
  <2>5. SaidBy(t, s)'
    BY <2>2, <2>3, <1>5
  <2> QED
    BY <2>1, <2>4, <2>5 DEF SaidBy
<1>7. ASSUME NEW c \in Connections PROVE PassedOK(c)'
  <2>1. ASSUME NEW i \in 1 .. conn[c].next - 1
        PROVE  file'[i].turn = OpenTurn(c)' \/ run'[file'[i].turn].status \in {"driven", "final"}
    <3>1. i \in 1 .. Len(file)
      BY <1>1, ReadLines DEF TInv
    <3>2. file'[i] = file[i] /\ file[i].turn # NoTurn
      BY <1>1, <3>1, Lined, TailAssumption DEF Grows, Turns, NoTurn
    <3>3. file[i].turn = OpenTurn(c) \/ Settled(file[i].turn)
      BY DEF TInv, PassedOK
    <3>4. OpenTurn(c)' = OpenTurn(c) \/ OpenTurn(c) = NoTurn
      BY <1>1, <1>2, Opened DEF TInv
    <3> QED
      BY <3>2, <3>3, <3>4 DEF Settled
  <2>2. \A t \in conn[c].known : run[t].status \in {"driven", "final"}
    BY DEF TInv, PassedOK, Settled
  <2> QED
    BY <2>1, <2>2 DEF PassedOK, Settled
<1>8. ASSUME NEW c \in Connections PROVE BindOK(c)'
  BY <1>2 DEF TInv, BindOK
<1>9. ASSUME NEW t \in Turns PROVE RunOK(t)'
  <2>1. RunOK(t)
    BY DEF TInv
  <2>2. ASSUME run[t].status = "final", run[t].last <= Len(file), run[t].last \in Nat \ {0}
        PROVE  file'[run[t].last] = file[run[t].last] /\ run[t].last <= Len(file')
    BY <1>1, <2>2 DEF Grows
  <2>3. ASSUME Complete(t) PROVE Complete(t)' /\ Said(t)' = Said(t)
    <3>1. DOMAIN file' = 1 .. Len(file') /\ DOMAIN file = 1 .. Len(file)
      BY <1>1, Lined DEF Grows
    <3>2. \A i \in 1 .. Len(file) : i \in 1 .. Len(file')
      BY <1>1 DEF Grows
    <3>3. \A i \in 1 .. Len(file') : i \in 1 .. Len(file) \/ i \in Len(file) + 1 .. Len(file')
      BY <1>1 DEF Grows
    <3>4. \A i : i \in Said(t)' <=> i \in Said(t)
      BY <2>3, <3>1, <3>2, <3>3 DEF Said, LinesOf, Grows
    <3> QED
      BY <2>3, <3>4 DEF Grows, Said, LinesOf
  <2>4. run[t].first \in Nat /\ run[t].last \in Nat
    BY <1>1 DEF TypeOK
  <2> QED
    BY <2>1, <2>2, <2>3, <2>4 DEF RunOK
<1>10. EarliestFirst' /\ ToldOnce'
  BY DEF TInv, EarliestFirst, ToldOnce, Finals
<1> QED
  BY <1>3, <1>4, <1>6, <1>7, <1>8, <1>9, <1>10 DEF TInv

-----------------------------------------------------------------------------
(* Steps of the server and the tail process: the transcript stays.             *)

(* What the steps of everybody else are to a connection.                       *)
Still ==
    /\ file' = file /\ phase' = phase /\ gambled \subseteq gambled'
    /\ \A t \in Turns : Settled(t) => Settled(t)'

LEMMA ConnStays ==
    ASSUME TypeOK, TypeOK', Still, NEW c \in Connections, ConnOK(c), conn'[c] = conn[c]
    PROVE  ConnOK(c)'
<1>1. OpenTurn(c)' = OpenTurn(c) /\ \A t \in Turns : Complete(t)' = Complete(t)
  BY DEF OpenTurn, Complete, LastTurn, Still
<1>2. OpenOK(c)' /\ LinkOK(c)'
  BY DEF ConnOK, OpenOK, LinkOK, Still, Complete, LastTurn
<1>3. EofOK(c)'
  BY DEF ConnOK, EofOK, Still, Complete, LastTurn, SaidBy
<1>4. PassedOK(c)'
  <2>1. \A i \in 1 .. conn[c].next - 1 : file[i].turn \in Turns
    BY ReadLines, Lined DEF ConnOK
  <2>2. \A t \in Turns : Settled(t) => run'[t].status \in {"driven", "final"}
    BY DEF Still, Settled
  <2>3. conn[c].known \subseteq Turns
    BY DEF TypeOK
  <2>4. \A i \in 1 .. conn[c].next - 1 :
          file'[i].turn = OpenTurn(c)' \/ run'[file'[i].turn].status \in {"driven", "final"}
    BY <1>1, <2>1, <2>2 DEF ConnOK, PassedOK, Still
  <2>5. \A t \in conn'[c].known : run'[t].status \in {"driven", "final"}
    BY <2>2, <2>3 DEF ConnOK, PassedOK
  <2> QED
    BY <2>4, <2>5 DEF PassedOK, Settled
<1> QED
  BY <1>2, <1>3, <1>4 DEF ConnOK

LEMMA UnusedOK ==
    ASSUME TypeOK', NEW c \in Connections, conn'[c] = Unused
    PROVE  ConnOK(c)'
<1>1. /\ conn'[c].open = NoOpenTurn /\ conn'[c].next = 1 /\ conn'[c].link = "live"
      /\ conn'[c].drain = NoTurn /\ conn'[c].known = {}
  BY DEF Unused
<1>2. 1 <= Len(file') + 1
  BY Lined DEF TypeOK
<1> QED
  BY <1>1, <1>2 DEF ConnOK, OpenOK, LinkOK, EofOK, PassedOK

LEMMA RunStays ==
    ASSUME TypeOK, Still, NEW t \in Turns, RunOK(t), rows'[t].replies = rows[t].replies,
           \/ run'[t] = run[t]
           \/ run[t].status # "final" /\ run'[t].status # "final"
    PROVE  RunOK(t)'
<1>1. Complete(t)' = Complete(t) /\ Said(t)' = Said(t)
  BY DEF Complete, LastTurn, Said, LinesOf, Still
<1> QED
  BY <1>1 DEF RunOK, Still

(* A step that commits and binds nothing: every connection stays, is gone, or  *)
(* moves within its invariant, and a run is at most reserved.                  *)
LEMMA Kept ==
    ASSUME TInv, TypeOK', file' = file, phase' = phase, stops' \subseteq stops,
           gambled \subseteq gambled',
           \A t \in Turns : \/ run'[t] = run[t]
                            \/ run[t].status = "none" /\ run'[t].status = "reserved",
           \A t \in Turns : rows'[t].replies = rows[t].replies /\ rows'[t].prompts <= 1,
           \A c \in Connections :
             \/ conn'[c] = conn[c]
             \/ conn'[c] = Unused
             \/ /\ ConnOK(c)'
                /\ conn'[c].pc = "bind" => conn[c].pc = "bind" /\ conn'[c].open = conn[c].open
    PROVE  TInv'
<1>1. TypeOK
  BY DEF TInv
<1>2. Still
  BY DEF Still, Settled
<1>3. FileOK'
  BY DEF TInv, FileOK, InTurns, Complete, LastTurn
<1>4. ASSUME NEW c \in Connections PROVE ConnOK(c)'
  <2>1. ConnOK(c)
    BY DEF TInv, ConnOK
  <2> QED
    BY <1>1, <1>2, <2>1, ConnStays, UnusedOK
<1>5. ASSUME NEW c \in Connections PROVE BindOK(c)'
  <2>1. \A d \in Connections :
          conn'[d].pc = "bind" => conn[d].pc = "bind" /\ conn'[d].open = conn[d].open
    BY DEF Unused
  <2> SUFFICES ASSUME conn'[c].pc = "bind" PROVE BindOK(c)'
    BY DEF BindOK
  <2>2. BindOK(c) /\ conn[c].pc = "bind" /\ conn'[c].open = conn[c].open
    BY <2>1 DEF TInv
  <2>3. OpenTurn(c)' = OpenTurn(c) /\ OpenTurn(c) \in Turns
    BY <1>1, <2>2, Opened DEF OpenTurn, TInv, BindOK
  <2> QED
    BY <2>1, <2>2, <2>3 DEF BindOK
<1>6. ASSUME NEW t \in Turns PROVE RunOK(t)'
  <2>1. RunOK(t)
    BY DEF TInv
  <2> QED
    BY <1>1, <1>2, <2>1, RunStays
<1>7. EarliestFirst'
  BY DEF TInv, EarliestFirst, Finals
<1>8. ToldOnce'
  BY DEF TInv, ToldOnce
<1> QED
  BY <1>3, <1>4, <1>5, <1>6, <1>7, <1>8 DEF TInv, ConnOK

-----------------------------------------------------------------------------
(* The native session's steps.                                             *)

LEMMA NativeKeeps == ASSUME TInv, Native PROVE TInv'
<1>1. TypeOK /\ FileOK
  BY DEF TInv
<1>2. UNCHANGED <<conn, registered, ledger, history, faults>>
  BY DEF Native, WritePrompt, WriteWork, Interrupt, Finish, WriteSummary
<1>3. CASE WritePrompt
  <2>1. Grows /\ FileOK'
    BY <1>1, <1>3, WritePromptGrows
  <2>2. tail' \in [up : {"none", "up", "done"}, conn : Connections \cup {Nobody}, spawn : BOOLEAN]
    BY <1>1, <1>3 DEF TypeOK, WritePrompt
  <2>3. TypeOK'
    BY <1>1, <1>2, <1>3, <2>1, <2>2 DEF TypeOK, WritePrompt, Grows, ledger, history
  <2> QED
    BY <1>2, <2>1, <2>3, GrowthKeeps DEF ledger, history
<1>4. CASE WriteWork
  <2>1. Grows /\ FileOK'
    <3> DEFINE k == "work"
               S == stops
    <3>1. /\ k \in {"work", "summary"} /\ stops' = S /\ S \subseteq stops /\ phase # "idle"
          /\ (k = "work" => phase = "busy") /\ phase' = IF k = "work" THEN phase ELSE "idle"
          /\ file' = Append(file, [kind |-> k, turn |-> LastTurn])
      BY <1>4 DEF WriteWork
    <3> HIDE DEF k, S
    <3> QED
      BY <1>1, <3>1, LineGrows
  <2>2. TypeOK'
    BY <1>1, <1>2, <1>4, <2>1 DEF TypeOK, WriteWork, Grows, ledger, history
  <2> QED
    BY <1>2, <2>1, <2>2, GrowthKeeps DEF ledger, history
<1>5. CASE WriteSummary
  <2>1. Grows /\ FileOK'
    <3> DEFINE k == "summary"
               S == stops
    <3>1. /\ k \in {"work", "summary"} /\ stops' = S /\ S \subseteq stops /\ phase # "idle"
          /\ (k = "work" => phase = "busy") /\ phase' = IF k = "work" THEN phase ELSE "idle"
          /\ file' = Append(file, [kind |-> k, turn |-> LastTurn])
      BY <1>5 DEF WriteSummary
    <3> HIDE DEF k, S
    <3> QED
      BY <1>1, <3>1, LineGrows
  <2>2. TypeOK'
    BY <1>1, <1>2, <1>5, <2>1 DEF TypeOK, WriteSummary, Grows, ledger, history
  <2> QED
    BY <1>2, <2>1, <2>2, GrowthKeeps DEF ledger, history
<1>6. CASE Interrupt \/ Finish
  <2>1. file' = file /\ phase = "busy" /\ phase' \in {"idle", "stopping"} /\ tail' = tail
    BY <1>6 DEF Interrupt, Finish
  <2>2. /\ file # <<>> /\ Len(file) \in 1 .. Len(file) /\ LastTurn \in Turns
        /\ file[Len(file)].kind # "summary"
    BY <1>1, <2>1, Lined DEF FileOK
  <2>3. \A t \in Turns : Complete(t) => Complete(t)'
    BY <2>1 DEF Complete, LastTurn
  <2>4. stops' \subseteq Turns /\ \A t \in stops' : Complete(t)'
    <3>1. Complete(LastTurn)'
      BY <2>1 DEF Complete, LastTurn
    <3>2. \A t \in stops : t \in Turns /\ Complete(t)'
      BY <1>1, <2>3 DEF TypeOK, FileOK
    <3>3. stops' \subseteq stops \cup {LastTurn}
      BY <1>6 DEF Interrupt, Finish
    <3>4. LastTurn' = LastTurn
      BY <2>1 DEF LastTurn
    <3> QED
      BY <2>1, <2>2, <3>1, <3>2, <3>3, <3>4 DEF Complete
  <2>5. Grows
    BY <1>1, <2>1, <2>3, Lined DEF Grows, TypeOK
  <2>6. FileOK'
    BY <1>1, <2>1, <2>2, <2>4 DEF FileOK, InTurns
  <2>7. TypeOK'
    BY <1>1, <1>2, <2>1, <2>4 DEF TypeOK, ledger, history
  <2> QED
    BY <1>2, <2>5, <2>6, <2>7, GrowthKeeps DEF ledger, history
<1> QED
  BY <1>3, <1>4, <1>5, <1>6 DEF Native

-----------------------------------------------------------------------------
(* The tail process' steps.                                                *)

ConnRecord ==
    [pc : {"none", "read", "bind"}, next : Nat \ {0}, link : {"live", "eof", "cut"}, sent : Nat,
     open : [first : Nat, last : Nat], known : SUBSET Turns, drain : Turns \cup {NoTurn}]
TailRecord == [up : {"none", "up", "done"}, conn : Connections \cup {Nobody}, spawn : BOOLEAN]

LEMMA Typed == ASSUME TypeOK PROVE conn \in [Connections -> ConnRecord] /\ tail \in TailRecord
  BY DEF TypeOK, ConnRecord, TailRecord

(* One connection moves.                                                       *)
LEMMA Moves ==
    ASSUME TypeOK, NEW c \in Connections, NEW r \in ConnRecord, conn' = [conn EXCEPT ![c] = r]
    PROVE  /\ conn' \in [Connections -> ConnRecord]
           /\ conn'[c] = r /\ \A d \in Connections \ {c} : conn'[d] = conn[d]
<1>1. conn \in [Connections -> ConnRecord]
  BY Typed
<1> QED
  BY <1>1

LEMMA TailKeeps == ASSUME TInv, Launch \/ Cede \/ GiveUp PROVE TInv'
<1>1. UNCHANGED <<native, conn, registered, ledger, history, faults>>
  BY DEF Launch, Cede, GiveUp
<1>2. tail' \in TailRecord
  <2>1. tail \in TailRecord
    BY Typed DEF TInv
  <2>2. CASE Launch
    BY <2>2 DEF Launch, TailRecord
  <2>3. CASE Cede \/ GiveUp
    BY <2>1, <2>3 DEF Cede, GiveUp, TailRecord
  <2> QED
    BY <2>2, <2>3
<1>3. TypeOK'
  BY <1>1, <1>2 DEF TInv, TypeOK, TailRecord, native, ledger, history
<1> QED
  BY <1>1, <1>3, Kept DEF native, ledger, history, TInv, ToldOnce

(* Resuming past the last of the committed turns leaves none behind.           *)
LEMMA ConnectKeeps == ASSUME TInv, NEW c \in Connections, Connect(c) PROVE TInv'
<1>1. TypeOK
  BY DEF TInv
<1>2. UNCHANGED <<native, ledger, history, faults>> /\ registered' = c
  BY DEF Connect
<1>3. PICK m \in 0 .. Len(file) :
        /\ IsMark(m)
        /\ conn' = [conn EXCEPT ![c] = [Unused EXCEPT !.pc = "read", !.next = m + 1,
                                                      !.known = NativeRunIds]]
  BY DEF Connect
<1>4. m \in Nat /\ Len(file) \in Nat /\ Finals \subseteq Turns
  BY <1>1, Lined DEF Finals
<1>5. /\ conn' \in [Connections -> ConnRecord]
      /\ conn'[c].pc = "read" /\ conn'[c].next = m + 1 /\ conn'[c].link = "live"
      /\ conn'[c].open = NoOpenTurn /\ conn'[c].known = Finals /\ conn'[c].drain = NoTurn
      /\ \A d \in Connections \ {c} : conn'[d] = conn[d]
  <2> DEFINE r == [Unused EXCEPT !.pc = "read", !.next = m + 1, !.known = NativeRunIds]
  <2>1. Unused \in ConnRecord
    BY DEF Unused, NoOpenTurn, ConnRecord
  <2>2. r \in ConnRecord
    <3>1. m + 1 \in Nat \ {0} /\ NativeRunIds \in SUBSET Turns
      BY <1>4 DEF NativeRunIds
    <3>2. ASSUME NEW x \in ConnRecord, NEW k \in Nat \ {0}, NEW S \in SUBSET Turns
          PROVE  [x EXCEPT !.pc = "read", !.next = k, !.known = S] \in ConnRecord
      BY DEF ConnRecord
    <3> QED
      BY <2>1, <3>1, <3>2
  <2>3. /\ r.pc = "read" /\ r.next = m + 1 /\ r.link = "live"
        /\ r.open = NoOpenTurn /\ r.known = Finals /\ r.drain = NoTurn
    BY DEF Unused, NativeRunIds
  <2> HIDE DEF r
  <2>4. /\ conn' \in [Connections -> ConnRecord]
        /\ conn'[c] = r /\ \A d \in Connections \ {c} : conn'[d] = conn[d]
    BY <1>1, <1>3, <2>2, Moves DEF r
  <2> QED
    BY <2>3, <2>4
<1>6. TypeOK'
  <2>1. tail' \in TailRecord
    BY <1>1, Typed DEF TailRecord, Connect
  <2> QED
    BY <1>1, <1>2, <1>5, <2>1 DEF TypeOK, ConnRecord, TailRecord, native, ledger, history
<1>7. ASSUME NEW i \in 1 .. m PROVE Settled(file[i].turn)
  <2>1. PICK t \in Finals : run[t].last = m
    BY <1>3 DEF IsMark
  <2>2. t \in Turns /\ run[t].status = "final" /\ file[m].turn = t /\ m \in 1 .. Len(file)
    BY <1>4, <2>1 DEF Finals, TInv, RunOK
  <2>3. i \in 1 .. Len(file) /\ file[i].turn \in Turns
    BY <1>1, <1>4, Lined
  <2>4. file[i].turn <= t
    <3>1. CASE i = m
      BY <2>2, <3>1, TailAssumption DEF Turns
    <3>2. CASE i < m
      BY <2>2, <2>3, <3>2 DEF TInv, FileOK, InTurns
    <3> QED
      BY <3>1, <3>2, <1>4
  <2>5. CASE file[i].turn = t
    BY <2>2, <2>5 DEF Settled
  <2>6. CASE file[i].turn < t
    BY <2>1, <2>2, <2>3, <2>6 DEF TInv, EarliestFirst, Settled, Finals
  <2> QED
    BY <2>2, <2>3, <2>4, <2>5, <2>6, TailAssumption DEF Turns
<1>8. ConnOK(c)'
  <2>1. file' = file /\ run' = run
    BY <1>2 DEF native, ledger
  <2>2. OpenOK(c)' /\ LinkOK(c)' /\ EofOK(c)'
    BY <1>4, <1>5, <2>1 DEF OpenOK, LinkOK, EofOK
  <2>3. \A i \in 1 .. m : run'[file'[i].turn].status \in {"driven", "final"}
    BY <1>7, <2>1 DEF Settled
  <2>4. \A t \in Finals : run'[t].status \in {"driven", "final"}
    BY <2>1 DEF Finals
  <2>5. conn'[c].next - 1 = m
    BY <1>5, <1>4
  <2>6. PassedOK(c)'
    BY <1>5, <2>3, <2>4, <2>5 DEF PassedOK, Settled
  <2> QED
    BY <2>2, <2>6 DEF ConnOK
<1>9. conn'[c].pc # "bind"
  BY <1>5
<1> QED
  BY <1>2, <1>5, <1>6, <1>8, <1>9, Kept DEF native, ledger, history, TInv, ToldOnce

(* An end of stream is sent with all of the last turn, or that is a bet.       *)
LEMMA SendEofKeeps == ASSUME TInv, NEW c \in Connections, SendEof(c) PROVE TInv'
<1>1. TypeOK /\ FileOK /\ Len(file) \in Nat
  BY Lined DEF TInv
<1>2. UNCHANGED <<native, registered, ledger, torn, faults>>
  BY DEF SendEof
<1>3. /\ conn' \in [Connections -> ConnRecord]
      /\ conn'[c] = [conn[c] EXCEPT !.link = "eof", !.sent = Len(file)]
      /\ \A d \in Connections \ {c} : conn'[d] = conn[d]
  <2>1. conn[c] \in ConnRecord /\ conn \in [Connections -> ConnRecord]
    BY <1>1, Typed
  <2>2. [conn[c] EXCEPT !.link = "eof", !.sent = Len(file)] \in ConnRecord
    BY <1>1, <2>1 DEF ConnRecord
  <2>3. conn' = [conn EXCEPT ![c] = [conn[c] EXCEPT !.link = "eof", !.sent = Len(file)]]
    BY <2>1 DEF SendEof
  <2> QED
    BY <1>1, <2>2, <2>3, Moves
<1>4. conn[c] \in ConnRecord
  BY <1>1, Typed
<1>5. /\ conn'[c].link = "eof" /\ conn'[c].sent = Len(file)
      /\ conn'[c].pc = conn[c].pc /\ conn'[c].next = conn[c].next
      /\ conn'[c].open = conn[c].open /\ conn'[c].known = conn[c].known
      /\ conn'[c].drain = conn[c].drain
  BY <1>3, <1>4 DEF ConnRecord
<1>6. /\ file' = file /\ phase' = phase /\ run' = run
      /\ gambled \subseteq gambled'
      /\ phase = "busy" /\ conn[c].drain = NoTurn => LastTurn \in gambled'
  BY <1>2 DEF native, ledger, SendEof
<1>7. TypeOK'
  <2>1. tail' \in TailRecord
    BY <1>1, Typed DEF TailRecord, SendEof
  <2>2. phase = "busy" => LastTurn \in Turns
    <3>1. phase = "busy" => Len(file) \in 1 .. Len(file) /\ LastTurn = file[Len(file)].turn
      BY <1>1, Lined DEF FileOK
    <3> QED
      BY <1>1, <3>1, Lined
  <2>3. gambled' \subseteq Turns
    BY <1>1, <2>2 DEF TypeOK, SendEof
  <2> QED
    BY <1>1, <1>2, <1>3, <2>1, <2>3 DEF TypeOK, ConnRecord, TailRecord, native, ledger
<1>8. ConnOK(c)'
  <2>1. OpenOK(c)' /\ PassedOK(c)'
    BY <1>5, <1>6 DEF TInv, OpenOK, PassedOK, OpenTurn, Settled
  <2>2. LinkOK(c)'
    <3>1. conn[c].next <= Len(file) + 1
      BY <1>1, ReadLines DEF TInv
    <3> QED
      BY <1>1, <1>5, <1>6, <3>1 DEF TInv, LinkOK, Complete, LastTurn
  <2>3. EofOK(c)'
    <3> SUFFICES ASSUME Len(file) # 0, conn[c].drain \in {NoTurn, LastTurn},
                        LastTurn \notin gambled'
                 PROVE  /\ Complete(LastTurn)
                        /\ SaidBy(LastTurn, Len(file))
      BY <1>1, <1>5, <1>6, Lined DEF EofOK, Complete, SaidBy, LastTurn
    <3>1. LastTurn \in Turns /\ LastTurn # NoTurn
      BY <1>1, Lined, TailAssumption DEF Turns, NoTurn
    <3>2. phase # "busy" => Complete(LastTurn)
      BY DEF Complete
    <3>3. conn[c].drain = LastTurn => Complete(LastTurn)
      BY <3>1 DEF TInv, LinkOK
    <3>4. SaidBy(LastTurn, Len(file))
      BY <1>1 DEF SaidBy
    <3> QED
      BY <1>6, <3>2, <3>3, <3>4
  <2> QED
    BY <2>1, <2>2, <2>3 DEF ConnOK
<1> QED
  BY <1>2, <1>3, <1>5, <1>6, <1>7, <1>8, Kept DEF native, ledger, TInv, ToldOnce

LEMMA UnpluggedTyped == ASSUME TypeOK PROVE Unplugged \in TailRecord
<1>1. tail \in TailRecord
  BY Typed
<1> QED
  BY <1>1 DEF Unplugged, TailRecord

LEMMA Counted ==
    ASSUME TypeOK, faults < MaxFaults, faults' = faults + 1
    PROVE  faults' \in 0 .. MaxFaults
<1>1. faults \in 0 .. MaxFaults
  BY DEF TypeOK
<1> QED
  BY <1>1, TailAssumption

LEMMA DropKeeps == ASSUME TInv, NEW c \in Connections, Drop(c) PROVE TInv'
<1>1. TypeOK /\ FileOK /\ Len(file) \in Nat
  BY Lined DEF TInv
<1>2. UNCHANGED <<native, registered, ledger, history>> /\ faults' = faults + 1
  BY DEF Drop
<1>3. tail' \in TailRecord
  BY <1>1, UnpluggedTyped DEF Drop
<1>4. faults' \in 0 .. MaxFaults
  BY <1>1, Counted DEF Drop
<1>5. CASE conn' = conn
  <2>1. TypeOK'
    BY <1>1, <1>2, <1>3, <1>4, <1>5 DEF TypeOK, TailRecord, native, ledger, history
  <2> QED
    BY <1>2, <1>5, <2>1, Kept DEF native, ledger, history, TInv, ToldOnce
<1>6. ASSUME NEW k \in (conn[c].next - 1) .. Len(file), conn[c].link = "eof" => k <= conn[c].sent,
             conn' = [conn EXCEPT ![c].link = "cut", ![c].sent = k]
      PROVE  TInv'
  <2>1. conn[c].next \in Nat \ {0} /\ k \in Nat
    BY <1>1 DEF TypeOK
  <2>2. /\ conn' \in [Connections -> ConnRecord]
        /\ conn'[c] = [conn[c] EXCEPT !.link = "cut", !.sent = k]
        /\ \A d \in Connections \ {c} : conn'[d] = conn[d]
    <3>1. conn[c] \in ConnRecord /\ conn \in [Connections -> ConnRecord]
      BY <1>1, Typed
    <3>2. [conn[c] EXCEPT !.link = "cut", !.sent = k] \in ConnRecord
      BY <2>1, <3>1 DEF ConnRecord
    <3>3. conn' = [conn EXCEPT ![c] = [conn[c] EXCEPT !.link = "cut", !.sent = k]]
      BY <1>6, <3>1
    <3> QED
      BY <1>1, <3>2, <3>3, Moves
  <2>3. /\ conn'[c].link = "cut" /\ conn'[c].sent = k
        /\ conn'[c].pc = conn[c].pc /\ conn'[c].next = conn[c].next
        /\ conn'[c].open = conn[c].open /\ conn'[c].known = conn[c].known
        /\ conn'[c].drain = conn[c].drain
        /\ TypeOK'
    <3>1. conn[c] \in ConnRecord
      BY <1>1, Typed
    <3>2. TypeOK'
      BY <1>1, <1>2, <1>3, <1>4, <2>2 DEF TypeOK, ConnRecord, TailRecord, native, ledger, history
    <3> QED
      BY <2>2, <3>1, <3>2 DEF ConnRecord
  <2>4. file' = file /\ phase' = phase /\ run' = run
    BY <1>2 DEF native, ledger
  <2>5. OpenOK(c)' /\ PassedOK(c)' /\ EofOK(c)'
    BY <2>3, <2>4 DEF TInv, OpenOK, PassedOK, OpenTurn, Settled, EofOK
  <2>6. LinkOK(c)'
    BY <1>1, <2>1, <2>3, <2>4 DEF TInv, LinkOK, Complete, LastTurn
  <2> QED
    BY <1>2, <2>2, <2>3, <2>5, <2>6, Kept DEF ConnOK, native, ledger, history, TInv, ToldOnce
<1> QED
  BY <1>5, <1>6 DEF Drop

-----------------------------------------------------------------------------
(* The server's steps.                                                     *)

(* A line that is no prompt belongs to a turn that is open, or settled.        *)
LEMMA NextFollows ==
    ASSUME TInv, NEW c \in Connections, Pending(c), Line(c).kind # "prompt"
    PROVE  /\ conn[c].next \in 1 .. Len(file) /\ conn[c].next > 1
           /\ conn[c].open = NoOpenTurn => Settled(Line(c).turn)
           /\ conn[c].open # NoOpenTurn => Line(c).turn = OpenTurn(c)
<1>1. TypeOK /\ FileOK /\ OpenOK(c) /\ LinkOK(c)
  BY DEF TInv
<1>2. PICK n \in 1 .. Len(file) : n = conn[c].next
  BY <1>1, ReadLines
<1>3. n > 1 /\ file[n - 1].turn = file[n].turn /\ Line(c) = file[n]
  BY <1>1, <1>2, WorkFollows DEF Line
<1>4. CASE conn[c].open = NoOpenTurn
  <2>1. OpenTurn(c) = NoTurn
    BY <1>1, <1>4, Opened
  <2>2. n - 1 \in 1 .. conn[c].next - 1 /\ n - 1 \in 1 .. Len(file)
    BY <1>1, <1>2, <1>3, Lined
  <2>3. file[n - 1].turn # NoTurn
    BY <1>1, <2>2, Lined, TailAssumption DEF Turns, NoTurn
  <2> QED
    BY <1>2, <1>3, <1>4, <2>1, <2>2, <2>3 DEF TInv, PassedOK
<1>5. CASE conn[c].open # NoOpenTurn
  <2>1. OpenTurn(c) = file[conn[c].open.first].turn
    BY <1>1, <1>5, Opened
  <2>2. conn[c].open.last = n - 1 /\ conn[c].open.first \in 1 .. conn[c].open.last
    BY <1>1, <1>2, <1>5 DEF OpenOK
  <2>3. n - 1 \in conn[c].open.first .. conn[c].open.last
    BY <1>2, <2>2
  <2> QED
    BY <1>1, <1>2, <1>3, <1>5, <2>1, <2>3 DEF OpenOK
<1> QED
  BY <1>2, <1>3, <1>4, <1>5

LEMMA FeedWorkKeeps == ASSUME TInv, NEW c \in Connections, FeedWork(c) PROVE TInv'
<1> DEFINE n == conn[c].next
           o == conn[c].open
<1>1. TypeOK /\ Len(file) \in Nat /\ OpenOK(c) /\ LinkOK(c) /\ PassedOK(c)
  BY Lined DEF TInv
<1>2. UNCHANGED <<native, tail, registered, ledger, history, faults>>
  BY DEF FeedWork
<1>3. /\ conn[c] \in ConnRecord /\ conn \in [Connections -> ConnRecord]
      /\ conn[c].pc = "read" /\ Pending(c) /\ Line(c).kind = "work"
  BY <1>1, Typed DEF FeedWork
<1>4. /\ n \in 1 .. Len(file) /\ n > 1 /\ n \in Nat
      /\ o = NoOpenTurn => Settled(file[n].turn)
      /\ o # NoOpenTurn => file[n].turn = OpenTurn(c)
  BY <1>3, NextFollows DEF Line
<1>5. /\ conn' \in [Connections -> ConnRecord]
      /\ conn'[c] = [conn[c] EXCEPT !.next = n + 1, !.open.last = IF o.first = 0 THEN 0 ELSE n]
      /\ \A d \in Connections \ {c} : conn'[d] = conn[d]
  <2> DEFINE r == [conn[c] EXCEPT !.next = n + 1, !.open.last = IF o.first = 0 THEN 0 ELSE n]
  <2>1. r \in ConnRecord
    <3>1. n + 1 \in Nat \ {0} /\ (IF o.first = 0 THEN 0 ELSE n) \in Nat
      BY <1>4
    <3>2. ASSUME NEW x \in ConnRecord, NEW k \in Nat \ {0}, NEW l \in Nat
          PROVE  [x EXCEPT !.next = k, !.open.last = l] \in ConnRecord
      BY DEF ConnRecord
    <3> QED
      BY <1>3, <3>1, <3>2
  <2>2. conn' = [conn EXCEPT ![c] = r]
    BY <1>3 DEF FeedWork
  <2> HIDE DEF r
  <2>3. /\ conn' \in [Connections -> ConnRecord]
        /\ conn'[c] = r /\ \A d \in Connections \ {c} : conn'[d] = conn[d]
    BY <1>1, <2>1, <2>2, Moves
  <2> QED
    BY <2>3 DEF r
<1>6. TypeOK'
  BY <1>1, <1>2, <1>5 DEF TypeOK, ConnRecord, native, ledger, history
<1>7. /\ conn'[c].pc = "read" /\ conn'[c].next = n + 1
      /\ conn'[c].link = conn[c].link /\ conn'[c].sent = conn[c].sent
      /\ conn'[c].known = conn[c].known /\ conn'[c].drain = conn[c].drain
      /\ conn'[c].open.first = o.first
      /\ conn'[c].open.last = IF o.first = 0 THEN 0 ELSE n
      /\ o \in [first : Nat, last : Nat] /\ conn'[c].open \in [first : Nat, last : Nat]
  BY <1>3, <1>5 DEF ConnRecord
<1>8. file' = file /\ phase' = phase /\ run' = run /\ gambled' = gambled
  BY <1>2 DEF native, ledger, history
<1>9. LinkOK(c)' /\ EofOK(c)'
  <2>1. LinkOK(c)'
    BY <1>1, <1>3, <1>4, <1>7, <1>8 DEF LinkOK, Pending, Complete, LastTurn, ConnRecord
  <2>2. EofOK(c)'
    BY <1>7, <1>8 DEF TInv, EofOK, Complete, LastTurn, SaidBy
  <2> QED
    BY <2>1, <2>2
<1>10. OpenTurn(c)' = OpenTurn(c)
  BY <1>7, <1>8 DEF OpenTurn
<1>11. OpenOK(c)'
  <2>1. CASE o = NoOpenTurn
    BY <1>7, <2>1 DEF OpenOK, NoOpenTurn
  <2>2. CASE o # NoOpenTurn
    <3>1. o.first # 0 /\ o.first \in 1 .. Len(file) /\ OpenTurn(c) = file[o.first].turn
      BY <1>1, <2>2, Opened
    <3>2. o.first \in 1 .. o.last /\ o.last = n - 1
      BY <1>1, <2>2 DEF OpenOK
    <3>3. \A i \in o.first .. n : i \in o.first .. o.last \/ i = n
      BY <1>4, <3>1, <3>2
    <3>4. \A i \in o.first .. n : file[i].turn = file[o.first].turn /\ file[i].kind # "summary"
      BY <1>1, <1>3, <1>4, <2>2, <3>1, <3>3 DEF OpenOK, Line
    <3>5. conn'[c].open.last = n /\ conn'[c].open.first \in 1 .. n
      BY <1>4, <1>7, <3>1, <3>2
    <3> QED
      BY <1>1, <1>4, <1>7, <1>8, <2>2, <3>4, <3>5 DEF OpenOK
  <2> QED
    BY <2>1, <2>2
<1>12. PassedOK(c)'
  <2>1. \A i \in 1 .. n : i \in 1 .. n - 1 \/ i = n
    BY <1>4
  <2>2. \A i \in 1 .. n : file[i].turn = OpenTurn(c) \/ Settled(file[i].turn)
    BY <1>1, <1>4, <2>1 DEF PassedOK
  <2>3. conn'[c].next - 1 = n
    BY <1>4, <1>7
  <2> QED
    BY <1>1, <1>7, <1>8, <1>10, <2>2, <2>3 DEF PassedOK, Settled
<1> QED
  BY <1>2, <1>5, <1>6, <1>7, <1>9, <1>11, <1>12, Kept
     DEF ConnOK, native, ledger, history, TInv, ToldOnce

LEMMA PassSummaryKeeps == ASSUME TInv, NEW c \in Connections, PassSummary(c) PROVE TInv'
<1> DEFINE n == conn[c].next
<1>1. TypeOK /\ Len(file) \in Nat /\ LinkOK(c) /\ PassedOK(c)
  BY Lined DEF TInv
<1>2. UNCHANGED <<native, tail, registered, ledger, history, faults>>
  BY DEF PassSummary
<1>3. /\ conn[c] \in ConnRecord /\ conn \in [Connections -> ConnRecord]
      /\ conn[c].pc = "read" /\ Pending(c) /\ Line(c).kind = "summary"
      /\ conn[c].open = NoOpenTurn
  BY <1>1, Typed DEF PassSummary
<1>4. n \in 1 .. Len(file) /\ n \in Nat /\ Settled(file[n].turn)
  BY <1>3, NextFollows DEF Line
<1>5. /\ conn' \in [Connections -> ConnRecord]
      /\ conn'[c] = [conn[c] EXCEPT !.next = n + 1]
      /\ \A d \in Connections \ {c} : conn'[d] = conn[d]
  <2>1. [conn[c] EXCEPT !.next = n + 1] \in ConnRecord
    <3>1. n + 1 \in Nat \ {0}
      BY <1>4
    <3>2. ASSUME NEW x \in ConnRecord, NEW k \in Nat \ {0}
          PROVE  [x EXCEPT !.next = k] \in ConnRecord
      BY DEF ConnRecord
    <3> QED
      BY <1>3, <3>1, <3>2
  <2>2. conn' = [conn EXCEPT ![c] = [conn[c] EXCEPT !.next = n + 1]]
    BY <1>3 DEF PassSummary
  <2> QED
    BY <1>1, <2>1, <2>2, Moves
<1>6. TypeOK'
  BY <1>1, <1>2, <1>5 DEF TypeOK, ConnRecord, native, ledger, history
<1>7. /\ conn'[c].pc = "read" /\ conn'[c].next = n + 1
      /\ conn'[c].link = conn[c].link /\ conn'[c].sent = conn[c].sent
      /\ conn'[c].known = conn[c].known /\ conn'[c].drain = conn[c].drain
      /\ conn'[c].open = NoOpenTurn
  BY <1>3, <1>5 DEF ConnRecord
<1>8. file' = file /\ phase' = phase /\ run' = run /\ gambled' = gambled
  BY <1>2 DEF native, ledger, history
<1>9. LinkOK(c)'
  BY <1>1, <1>3, <1>4, <1>7, <1>8 DEF LinkOK, Pending, Complete, LastTurn, ConnRecord
<1>10. EofOK(c)' /\ OpenOK(c)'
  BY <1>7, <1>8 DEF TInv, EofOK, Complete, LastTurn, SaidBy, OpenOK
<1>11. PassedOK(c)'
  <2>1. \A i \in 1 .. n : i \in 1 .. n - 1 \/ i = n
    BY <1>4
  <2>2. OpenTurn(c)' = OpenTurn(c)
    BY <1>3, <1>7, <1>8 DEF OpenTurn
  <2>3. \A i \in 1 .. n : file[i].turn = OpenTurn(c) \/ Settled(file[i].turn)
    BY <1>1, <1>4, <2>1 DEF PassedOK
  <2>4. conn'[c].next - 1 = n
    BY <1>4, <1>7
  <2> QED
    BY <1>1, <1>7, <1>8, <2>2, <2>3, <2>4 DEF PassedOK, Settled
<1> QED
  BY <1>2, <1>5, <1>6, <1>7, <1>9, <1>10, <1>11, Kept
     DEF ConnOK, native, ledger, history, TInv, ToldOnce

(* What closes a turn shows that all of it was read, or that it was a bet.     *)
LEMMA ClosedWhole ==
    ASSUME TInv, NEW c \in Connections, conn[c].open # NoOpenTurn, Closes(c)
    PROVE  LET o == conn[c].open
               t == OpenTurn(c) IN
           t \in gambled \/ (Complete(t) /\ Said(t) = o.first .. o.last)
<1> DEFINE o == conn[c].open
           t == OpenTurn(c)
           n == conn[c].next
<1>1. TypeOK /\ FileOK /\ InTurns /\ Len(file) \in Nat /\ OpenOK(c) /\ LinkOK(c)
  BY Lined DEF TInv, FileOK
<1>2. /\ o.first \in 1 .. Len(file) /\ t = file[o.first].turn /\ t \in Turns /\ t # NoTurn
      /\ t \in Nat
  BY <1>1, Opened, TailAssumption DEF Turns
<1>3. /\ o.first \in 1 .. o.last /\ o.last = n - 1 /\ o.last <= Len(file)
      /\ file[o.first].kind = "prompt" /\ n \in Nat
      /\ \A i \in o.first .. o.last : file[i].turn = t /\ file[i].kind # "summary"
  BY <1>1, <1>2, ReadLines DEF OpenOK
<1>4. \A i \in 1 .. Len(file) : file[i].turn \in Nat
  BY <1>1, Lined DEF Turns
<1>5. ASSUME SaidBy(t, o.last) PROVE Said(t) = o.first .. o.last
  <2>1. DOMAIN file = 1 .. Len(file)
    BY <1>1, Lined
  <2>2. ASSUME NEW i \in 1 .. Len(file), i < o.first PROVE file[i].turn # t
    BY <1>1, <1>2, <1>3, <1>4, <2>2 DEF InTurns
  <2>3. ASSUME NEW i \in Said(t) PROVE i \in o.first .. o.last
    <3>1. i \in 1 .. Len(file) /\ file[i].turn = t /\ file[i].kind # "summary"
      BY <2>1, <2>3 DEF Said, LinesOf
    <3>2. i <= o.last
      BY <1>5, <3>1 DEF SaidBy
    <3>3. ~(i < o.first)
      BY <2>2, <3>1
    <3> QED
      BY <1>2, <1>3, <3>1, <3>2, <3>3
  <2>4. ASSUME NEW i \in o.first .. o.last PROVE i \in Said(t)
    <3>1. i \in 1 .. Len(file)
      BY <1>1, <1>2, <1>3, <2>4
    <3> QED
      BY <1>3, <2>1, <2>4, <3>1 DEF Said, LinesOf
  <2> QED
    BY <2>3, <2>4
<1>6. CASE Pending(c) /\ Line(c).kind # "work"
  <2>1. PICK j \in 1 .. Len(file) : j = n /\ Line(c) = file[j]
    BY <1>1, <1>6, ReadLines DEF Line
  <2>2. file[j].kind \in {"prompt", "summary"}
    BY <1>1, <1>6, <2>1, Lined
  <2>3. Len(file) \in 1 .. Len(file) /\ LastTurn = file[Len(file)].turn /\ LastTurn \in Nat
    BY <1>1, <2>1, Lined
  <2>4. CASE file[j].kind = "prompt"
    <3>1. o.last \in 1 .. Len(file) /\ o.last < j /\ file[o.last].turn = t
      BY <1>1, <1>2, <1>3, <2>1
    <3>2. t < file[j].turn
      BY <1>1, <2>4, <3>1 DEF InTurns
    <3>3. t < LastTurn
      <4>1. file[j].turn <= LastTurn
        BY <1>1, LastIsLast
      <4> QED
        BY <1>2, <1>4, <2>3, <3>2, <4>1
    <3>4. ASSUME NEW i \in 1 .. Len(file), ~(i <= o.last) PROVE file[i].turn # t
      <4>1. i = j \/ j < i
        BY <1>3, <2>1, <3>4
      <4>2. j < i => file[j].turn <= file[i].turn
        BY <1>1, <3>4 DEF InTurns
      <4> QED
        BY <1>2, <1>4, <3>2, <4>1, <4>2
    <3>5. SaidBy(t, o.last)
      BY <3>4 DEF SaidBy
    <3> QED
      BY <1>5, <3>3, <3>5 DEF Complete
  <2>5. CASE file[j].kind = "summary"
    <3>1. file[j].turn = t
      BY <1>6, <2>1, <2>5, NextFollows
    <3>2. ASSUME NEW i \in 1 .. Len(file), j < i PROVE t < file[i].turn
      BY <1>1, <2>5, <3>1, <3>2 DEF InTurns
    <3>3. Complete(t)
      <4>1. CASE j = Len(file)
        BY <1>1, <2>3, <2>5, <3>1, <4>1 DEF FileOK, Complete
      <4>2. CASE j < Len(file)
        BY <2>3, <3>2, <4>2 DEF Complete
      <4> QED
        BY <1>1, <4>1, <4>2
    <3>4. ASSUME NEW i \in 1 .. Len(file), ~(i <= o.last), file[i].turn = t
          PROVE  file[i].kind = "summary"
      <4>1. i = j \/ j < i
        BY <1>3, <2>1, <3>4
      <4> QED
        BY <1>2, <2>5, <3>2, <3>4, <4>1
    <3>5. SaidBy(t, o.last)
      BY <3>4 DEF SaidBy
    <3> QED
      BY <1>5, <3>3, <3>5
  <2> QED
    BY <2>2, <2>4, <2>5
<1>7. CASE ~Pending(c) /\ conn[c].link = "eof" /\ conn[c].drain \in {NoTurn, t}
  <2>1. conn[c].sent = o.last /\ conn[c].sent # 0
    <3>1. conn[c].sent \in Nat /\ n <= conn[c].sent + 1 /\ ~(n <= conn[c].sent)
      BY <1>1, <1>7, ReadLines DEF Pending
    <3>2. o.last = n - 1 /\ o.last # 0
      BY <1>2, <1>3
    <3> QED
      BY <1>3, <3>1, <3>2
  <2>2. o.last \in o.first .. o.last
    BY <1>2, <1>3
  <2>3. file[o.last].turn = t
    BY <1>3, <2>2
  <2>4. t \in gambled \/ (Complete(t) /\ SaidBy(t, o.last))
    BY <1>7, <2>1, <2>3 DEF TInv, EofOK
  <2> QED
    BY <1>5, <2>4
<1> QED
  BY <1>6, <1>7 DEF Closes

(* The turns before one that is open are settled.                              *)
LEMMA EarlierSettled ==
    ASSUME TInv, NEW c \in Connections, conn[c].open # NoOpenTurn,
           NEW u \in Turns, u < OpenTurn(c)
    PROVE  Settled(u)
<1> DEFINE o == conn[c].open
<1>1. TypeOK /\ FileOK /\ InTurns /\ OpenOK(c) /\ Len(file) \in Nat
  BY Lined DEF TInv, FileOK
<1>2. o.first \in 1 .. Len(file) /\ OpenTurn(c) = file[o.first].turn /\ OpenTurn(c) \in Turns
  BY <1>1, Opened
<1>3. u \in 1 .. file[o.first].turn
  BY <1>2, TailAssumption DEF Turns
<1>4. PICK j \in 1 .. o.first : file[j].turn = u
  BY <1>1, <1>2, <1>3 DEF InTurns
<1>5. j \in 1 .. conn[c].next - 1
  BY <1>1, <1>2 DEF OpenOK, TypeOK
<1>6. u # OpenTurn(c)
  BY <1>2, TailAssumption DEF Turns
<1> QED
  BY <1>4, <1>5, <1>6 DEF TInv, PassedOK

(* The commit of a turn: all of it, after those before it, and by nobody else. *)
LEMMA CommitKeeps ==
    ASSUME TInv, NEW c \in Connections, Close(c), MayRecord(OpenTurn(c))
    PROVE  TInv'
<1> DEFINE o == conn[c].open
           t == OpenTurn(c)
<1>1. TypeOK /\ OpenOK(c) /\ Len(file) \in Nat
  BY Lined DEF TInv
<1>2. UNCHANGED <<native, tail, registered, rows, history, faults>>
  BY DEF Close
<1>3. /\ conn[c].pc = "read" /\ t # NoTurn /\ Closes(c) /\ LockFree
      /\ run' = [run EXCEPT ![t] = [status |-> "final", first |-> o.first, last |-> o.last]]
      /\ conn' = [conn EXCEPT ![c].pc = "bind"]
  BY DEF Close
<1>4. o # NoOpenTurn
  BY <1>1, <1>3, Opened
<1>5. /\ o.first \in 1 .. Len(file) /\ t \in Turns /\ t \in Nat /\ t = file[o.first].turn
  BY <1>1, <1>4, Opened, TailAssumption DEF Turns
<1>6. /\ conn[c] \in ConnRecord /\ conn \in [Connections -> ConnRecord]
      /\ o \in [first : Nat, last : Nat]
  BY <1>1, Typed DEF ConnRecord
<1>7. /\ conn' \in [Connections -> ConnRecord]
      /\ conn'[c] = [conn[c] EXCEPT !.pc = "bind"]
      /\ \A d \in Connections \ {c} : conn'[d] = conn[d]
  <2>1. [conn[c] EXCEPT !.pc = "bind"] \in ConnRecord
    BY <1>6 DEF ConnRecord
  <2>2. conn' = [conn EXCEPT ![c] = [conn[c] EXCEPT !.pc = "bind"]]
    BY <1>3, <1>6
  <2> QED
    BY <1>1, <2>1, <2>2, Moves
<1>8. /\ conn'[c].pc = "bind" /\ conn'[c].next = conn[c].next
      /\ conn'[c].link = conn[c].link /\ conn'[c].sent = conn[c].sent
      /\ conn'[c].known = conn[c].known /\ conn'[c].drain = conn[c].drain
      /\ conn'[c].open = o
  BY <1>6, <1>7 DEF ConnRecord
<1>9. /\ run' \in [Turns -> [status : Statuses, first : Nat, last : Nat]]
      /\ run'[t].status = "final" /\ run'[t].first = o.first /\ run'[t].last = o.last
      /\ \A u \in Turns \ {t} : run'[u] = run[u]
  BY <1>1, <1>3, <1>5, <1>6 DEF TypeOK, Statuses
<1>10. TypeOK'
  BY <1>1, <1>2, <1>7, <1>9 DEF TypeOK, ConnRecord, native, history
<1>11. file' = file /\ phase' = phase /\ gambled' = gambled /\ rows' = rows /\ stops' = stops
  BY <1>2 DEF native, history
<1>12. Still
  BY <1>5, <1>9, <1>11 DEF Still, Settled
<1>13. FileOK'
  BY <1>11 DEF TInv, FileOK, InTurns, Complete, LastTurn
<1>14. ASSUME NEW d \in Connections PROVE ConnOK(d)'
  <2>1. ConnOK(d)
    BY DEF TInv, ConnOK
  <2>2. CASE d # c
    BY <1>1, <1>7, <1>10, <1>12, <2>1, <2>2, ConnStays
  <2>3. CASE d = c
    <3>1. OpenOK(c)' /\ LinkOK(c)' /\ EofOK(c)'
      BY <1>8, <1>11, <2>1, <2>3 DEF ConnOK, OpenOK, LinkOK, EofOK, Complete, SaidBy, LastTurn
    <3>2. OpenTurn(c)' = OpenTurn(c)
      BY <1>8, <1>11 DEF OpenTurn
    <3>3. \A i \in 1 .. conn[c].next - 1 : file[i].turn \in Turns
      BY <1>1, <2>1, <2>3, ReadLines, Lined DEF ConnOK
    <3>4. \A u \in Turns : Settled(u) => run'[u].status \in {"driven", "final"}
      BY <1>12 DEF Still, Settled
    <3>5. conn[c].known \subseteq Turns
      BY <1>6 DEF ConnRecord
    <3>6. PassedOK(c)'
      BY <1>8, <1>11, <2>1, <2>3, <3>2, <3>3, <3>4, <3>5 DEF ConnOK, PassedOK, Settled
    <3> QED
      BY <2>3, <3>1, <3>6 DEF ConnOK
  <2> QED
    BY <2>2, <2>3
<1>15. ASSUME NEW d \in Connections PROVE BindOK(d)'
  <2>1. CASE d # c
    BY <1>3, <1>7, <2>1 DEF LockFree, BindOK
  <2>2. CASE d = c
    <3>1. OpenTurn(c)' = t
      BY <1>8, <1>11 DEF OpenTurn
    <3>2. rows[t].replies = 0
      BY <1>3, <1>5 DEF TInv, RunOK, MayRecord
    <3>3. \A e \in Connections : conn'[e].pc = "bind" => c = e
      BY <1>3, <1>7 DEF LockFree
    <3> QED
      BY <1>4, <1>8, <1>9, <1>11, <2>2, <3>1, <3>2, <3>3 DEF BindOK
  <2> QED
    BY <2>1, <2>2
<1>16. ASSUME NEW u \in Turns PROVE RunOK(u)'
  <2>1. RunOK(u)
    BY DEF TInv
  <2>2. CASE u # t
    BY <1>1, <1>9, <1>11, <1>12, <2>1, <2>2, RunStays
  <2>3. CASE u = t
    <3>1. o.first \in 1 .. o.last /\ o.last <= Len(file) /\ file[o.last].turn = t
      <4>1. o.first \in 1 .. o.last /\ o.last <= Len(file)
        BY <1>1, <1>4 DEF OpenOK
      <4>2. o.last \in o.first .. o.last
        BY <1>5, <1>6, <4>1
      <4> QED
        BY <1>1, <1>4, <1>5, <4>1, <4>2 DEF OpenOK
    <3>2. t \in gambled \/ (Complete(t) /\ Said(t) = o.first .. o.last)
      BY <1>3, <1>4, ClosedWhole
    <3> HIDE DEF t
    <3> QED
      BY <1>9, <1>11, <2>3, <3>1, <3>2 DEF RunOK, Complete, LastTurn, Said, LinesOf
  <2> QED
    BY <2>2, <2>3
<1>17. EarliestFirst'
  <2> SUFFICES ASSUME NEW u \in Turns, NEW w \in Turns, u < w, run'[w].status = "final",
                      run'[u].status # "driven"
               PROVE  run'[u].status = "final"
    BY DEF EarliestFirst, Finals
  <2>1. CASE u = t
    BY <1>9, <2>1
  <2>2. CASE u # t /\ w = t
    <3>1. Settled(u)
      BY <1>4, <2>2, EarlierSettled
    <3> QED
      BY <1>9, <2>2, <3>1 DEF Settled
  <2>3. CASE u # t /\ w # t
    BY <1>9, <2>3 DEF TInv, EarliestFirst, Finals
  <2> QED
    BY <2>1, <2>2, <2>3
<1>18. ToldOnce'
  BY <1>11 DEF TInv, ToldOnce
<1> QED
  BY <1>10, <1>13, <1>14, <1>15, <1>16, <1>17, <1>18 DEF TInv, ConnOK

(* A turn that was recorded meanwhile is passed over.                          *)
LEMMA SkipKeeps ==
    ASSUME TInv, NEW c \in Connections, Close(c), ~MayRecord(OpenTurn(c))
    PROVE  TInv'
<1> DEFINE t == OpenTurn(c)
           K == conn[c].known \cup {t}
<1>1. TypeOK /\ ConnOK(c)
  BY DEF TInv, ConnOK
<1>2. UNCHANGED <<native, tail, registered, ledger, history, faults>>
  BY DEF Close, ledger
<1>3. /\ conn[c].pc = "read" /\ t # NoTurn
      /\ conn' = [conn EXCEPT ![c].open = NoOpenTurn, ![c].known = @ \cup {t}]
  BY DEF Close
<1>4. t \in Turns /\ Settled(t)
  <2>1. t \in Turns
    BY <1>1, <1>3, Opened DEF ConnOK
  <2> QED
    BY <1>1, <2>1 DEF MayRecord, Settled, TypeOK, Statuses
<1>5. conn[c] \in ConnRecord /\ conn \in [Connections -> ConnRecord]
  BY <1>1, Typed
<1>6. /\ conn' \in [Connections -> ConnRecord]
      /\ conn'[c] = [conn[c] EXCEPT !.open = NoOpenTurn, !.known = K]
      /\ \A d \in Connections \ {c} : conn'[d] = conn[d]
  <2>1. [conn[c] EXCEPT !.open = NoOpenTurn, !.known = K] \in ConnRecord
    <3>1. K \in SUBSET Turns /\ NoOpenTurn \in [first : Nat, last : Nat]
      BY <1>4, <1>5 DEF ConnRecord, NoOpenTurn
    <3>2. ASSUME NEW x \in ConnRecord, NEW p \in [first : Nat, last : Nat], NEW S \in SUBSET Turns
          PROVE  [x EXCEPT !.open = p, !.known = S] \in ConnRecord
      BY DEF ConnRecord
    <3> QED
      BY <1>5, <3>1, <3>2
  <2>2. conn' = [conn EXCEPT ![c] = [conn[c] EXCEPT !.open = NoOpenTurn, !.known = K]]
    BY <1>3, <1>5
  <2> QED
    BY <1>1, <2>1, <2>2, Moves
<1>7. /\ conn'[c].pc = conn[c].pc /\ conn'[c].next = conn[c].next
      /\ conn'[c].link = conn[c].link /\ conn'[c].sent = conn[c].sent
      /\ conn'[c].known = K /\ conn'[c].drain = conn[c].drain
      /\ conn'[c].open = NoOpenTurn
  BY <1>5, <1>6 DEF ConnRecord
<1>8. file' = file /\ phase' = phase /\ run' = run /\ gambled' = gambled
  BY <1>2 DEF native, ledger, history
<1>9. TypeOK'
  BY <1>1, <1>2, <1>6 DEF TypeOK, ConnRecord, native, ledger, history
<1>10. OpenOK(c)' /\ LinkOK(c)' /\ EofOK(c)'
  BY <1>1, <1>7, <1>8 DEF ConnOK, OpenOK, LinkOK, EofOK, Complete, SaidBy, LastTurn
<1>11. PassedOK(c)'
  <2>1. \A i \in 1 .. conn[c].next - 1 : Settled(file[i].turn)
    BY <1>1, <1>4 DEF ConnOK, PassedOK
  <2>2. \A u \in K : Settled(u)
    BY <1>1, <1>4 DEF ConnOK, PassedOK
  <2> HIDE DEF K
  <2> QED
    BY <1>7, <1>8, <2>1, <2>2 DEF PassedOK, Settled
<1>12. conn'[c].pc # "bind"
  BY <1>3, <1>7
<1> QED
  BY <1>2, <1>6, <1>9, <1>10, <1>11, <1>12, Kept
     DEF ConnOK, native, ledger, history, TInv, ToldOnce

(* The reply of a run is the first.                                            *)
LEMMA BindKeeps == ASSUME TInv, NEW c \in Connections, Bind(c) PROVE TInv'
<1> DEFINE t == OpenTurn(c)
           K == conn[c].known \cup {t}
<1>1. TypeOK /\ ConnOK(c) /\ BindOK(c)
  BY DEF TInv, ConnOK
<1>2. UNCHANGED <<native, tail, registered, run, history, faults>>
  BY DEF Bind
<1>3. /\ conn[c].pc = "bind"
      /\ rows' = [rows EXCEPT ![t].replies = @ + 1]
      /\ conn' = [conn EXCEPT ![c].open = NoOpenTurn, ![c].pc = "read", ![c].known = @ \cup {t}]
  BY DEF Bind
<1>4. /\ t \in Turns /\ Settled(t) /\ run[t].status = "final" /\ rows[t].replies = 0
      /\ \A d \in Connections : conn[d].pc = "bind" => c = d
  BY <1>1, <1>3, Opened DEF BindOK, Settled, ConnOK
<1>5. conn[c] \in ConnRecord /\ conn \in [Connections -> ConnRecord]
  BY <1>1, Typed
<1>6. /\ conn' \in [Connections -> ConnRecord]
      /\ conn'[c] = [conn[c] EXCEPT !.open = NoOpenTurn, !.pc = "read", !.known = K]
      /\ \A d \in Connections \ {c} : conn'[d] = conn[d]
  <2>1. [conn[c] EXCEPT !.open = NoOpenTurn, !.pc = "read", !.known = K] \in ConnRecord
    <3>1. K \in SUBSET Turns /\ NoOpenTurn \in [first : Nat, last : Nat]
      BY <1>4, <1>5 DEF ConnRecord, NoOpenTurn
    <3>2. ASSUME NEW x \in ConnRecord, NEW p \in [first : Nat, last : Nat], NEW S \in SUBSET Turns
          PROVE  [x EXCEPT !.open = p, !.pc = "read", !.known = S] \in ConnRecord
      BY DEF ConnRecord
    <3> QED
      BY <1>5, <3>1, <3>2
  <2>2. conn' = [conn EXCEPT ![c] = [conn[c] EXCEPT !.open = NoOpenTurn, !.pc = "read",
                                                    !.known = K]]
    BY <1>3, <1>5
  <2> QED
    BY <1>1, <2>1, <2>2, Moves
<1>7. /\ conn'[c].pc = "read" /\ conn'[c].next = conn[c].next
      /\ conn'[c].link = conn[c].link /\ conn'[c].sent = conn[c].sent
      /\ conn'[c].known = K /\ conn'[c].drain = conn[c].drain
      /\ conn'[c].open = NoOpenTurn
  BY <1>5, <1>6 DEF ConnRecord
<1>8. /\ rows' \in [Turns -> [prompts : Nat, replies : Nat]]
      /\ rows'[t].replies = 1 /\ rows'[t].prompts = rows[t].prompts
      /\ \A u \in Turns \ {t} : rows'[u] = rows[u]
  BY <1>1, <1>3, <1>4 DEF TypeOK
<1>9. /\ file' = file /\ phase' = phase /\ run' = run /\ gambled' = gambled
      /\ stops' = stops
  BY <1>2 DEF native, history
<1>10. TypeOK'
  BY <1>1, <1>2, <1>6, <1>8 DEF TypeOK, ConnRecord, native, history
<1>11. Still /\ FileOK'
  BY <1>9 DEF Still, Settled, TInv, FileOK, InTurns, Complete, LastTurn
<1>12. ConnOK(c)'
  <2>1. OpenOK(c)' /\ LinkOK(c)' /\ EofOK(c)'
    BY <1>1, <1>7, <1>9 DEF ConnOK, OpenOK, LinkOK, EofOK, Complete, SaidBy, LastTurn
  <2>2. \A i \in 1 .. conn[c].next - 1 : Settled(file[i].turn)
    BY <1>1, <1>4 DEF ConnOK, PassedOK
  <2>3. \A u \in K : Settled(u)
    BY <1>1, <1>4 DEF ConnOK, PassedOK
  <2> HIDE DEF K
  <2>4. PassedOK(c)'
    BY <1>7, <1>9, <2>2, <2>3 DEF PassedOK, Settled
  <2> QED
    BY <2>1, <2>4 DEF ConnOK
<1>13. ASSUME NEW d \in Connections PROVE ConnOK(d)'
  BY <1>1, <1>6, <1>10, <1>11, <1>12, ConnStays DEF TInv, ConnOK
<1>14. ASSUME NEW d \in Connections PROVE BindOK(d)'
  BY <1>4, <1>6, <1>7 DEF BindOK
<1>15. ASSUME NEW u \in Turns PROVE RunOK(u)'
  BY <1>4, <1>8, <1>9 DEF TInv, RunOK, Complete, Said, LinesOf, LastTurn
<1>16. EarliestFirst'
  BY <1>9 DEF TInv, EarliestFirst, Finals
<1>17. ToldOnce'
  BY <1>8 DEF TInv, ToldOnce
<1> QED
  BY <1>10, <1>11, <1>13, <1>14, <1>15, <1>16, <1>17 DEF TInv, ConnOK

(* A prompt opens its turn, or is of one that is settled.                      *)
LEMMA OpenKeeps == ASSUME TInv, NEW c \in Connections, Open(c) PROVE TInv'
<1> DEFINE n == conn[c].next
           t == Line(c).turn
<1>1. TypeOK /\ ConnOK(c) /\ Len(file) \in Nat
  BY Lined DEF TInv, ConnOK
<1>2. UNCHANGED <<native, tail, registered, run, history, faults>>
  BY DEF Open
<1>3. conn[c].pc = "read" /\ Pending(c) /\ conn[c].open = NoOpenTurn /\ Line(c).kind = "prompt"
  BY DEF Open
<1>4. /\ n \in 1 .. Len(file) /\ n \in Nat /\ n + 1 \in Nat \ {0} /\ Line(c) = file[n]
      /\ t \in Turns
  BY <1>1, <1>3, ReadLines, Lined DEF ConnOK, Line
<1>5. conn[c] \in ConnRecord /\ conn \in [Connections -> ConnRecord] /\ OpenTurn(c) = NoTurn
  BY <1>1, <1>3, Typed, Opened DEF ConnOK
<1>6. file' = file /\ phase' = phase /\ run' = run /\ gambled' = gambled /\ stops' = stops
  BY <1>2 DEF native, history
<1>7. \A i \in 1 .. n : i \in 1 .. n - 1 \/ i = n
  BY <1>4
<1>8. \A i \in 1 .. n - 1 : Settled(file[i].turn)
  <2>1. \A i \in 1 .. n - 1 : file[i].turn # NoTurn
    BY <1>1, <1>4, Lined, TailAssumption DEF Turns, NoTurn
  <2> QED
    BY <1>1, <1>5, <2>1 DEF ConnOK, PassedOK
<1>9. CASE t \in conn[c].known \/ run[t].status = "driven"
  <2>1. conn' = [conn EXCEPT ![c].next = n + 1] /\ rows' = rows
    BY <1>9 DEF Open
  <2>2. /\ conn' \in [Connections -> ConnRecord]
        /\ conn'[c] = [conn[c] EXCEPT !.next = n + 1]
        /\ \A d \in Connections \ {c} : conn'[d] = conn[d]
    <3>1. ASSUME NEW x \in ConnRecord, NEW k \in Nat \ {0}
          PROVE  [x EXCEPT !.next = k] \in ConnRecord
      BY DEF ConnRecord
    <3>2. [conn[c] EXCEPT !.next = n + 1] \in ConnRecord
      BY <1>4, <1>5, <3>1
    <3>3. conn' = [conn EXCEPT ![c] = [conn[c] EXCEPT !.next = n + 1]]
      BY <1>5, <2>1
    <3> QED
      BY <1>1, <3>2, <3>3, Moves
  <2>3. /\ conn'[c].pc = "read" /\ conn'[c].next = n + 1
        /\ conn'[c].link = conn[c].link /\ conn'[c].sent = conn[c].sent
        /\ conn'[c].known = conn[c].known /\ conn'[c].drain = conn[c].drain
        /\ conn'[c].open = NoOpenTurn
    BY <1>3, <1>5, <2>2 DEF ConnRecord
  <2>4. TypeOK'
    BY <1>1, <1>2, <2>1, <2>2 DEF TypeOK, ConnRecord, native, history
  <2>5. LinkOK(c)'
    BY <1>1, <1>3, <1>4, <1>5, <1>6, <2>3
       DEF ConnOK, LinkOK, Pending, Complete, LastTurn, ConnRecord
  <2>6. EofOK(c)' /\ OpenOK(c)'
    BY <1>1, <1>6, <2>3 DEF ConnOK, EofOK, Complete, LastTurn, SaidBy, OpenOK
  <2>7. PassedOK(c)'
    <3>1. Settled(file[n].turn)
      BY <1>1, <1>4, <1>9 DEF ConnOK, PassedOK, Settled
    <3>2. \A i \in 1 .. n : Settled(file[i].turn)
      BY <1>7, <1>8, <3>1
    <3>3. conn'[c].next - 1 = n
      BY <1>4, <2>3
    <3> QED
      BY <1>1, <1>6, <2>3, <3>2, <3>3 DEF ConnOK, PassedOK, Settled
  <2> QED
    BY <1>2, <1>6, <2>1, <2>2, <2>3, <2>4, <2>5, <2>6, <2>7, Kept DEF ConnOK, TInv, ToldOnce
<1>10. CASE ~(t \in conn[c].known \/ run[t].status = "driven")
  <2> DEFINE o == [first |-> n, last |-> n]
  <2>1. /\ conn' = [conn EXCEPT ![c].next = n + 1, ![c].open = o]
        /\ rows' = PromptRecorded(t)
    BY <1>10 DEF Open
  <2>2. /\ conn' \in [Connections -> ConnRecord]
        /\ conn'[c] = [conn[c] EXCEPT !.next = n + 1, !.open = o]
        /\ \A d \in Connections \ {c} : conn'[d] = conn[d]
    <3>1. ASSUME NEW x \in ConnRecord, NEW k \in Nat \ {0}, NEW p \in [first : Nat, last : Nat]
          PROVE  [x EXCEPT !.next = k, !.open = p] \in ConnRecord
      BY DEF ConnRecord
    <3>2. [conn[c] EXCEPT !.next = n + 1, !.open = o] \in ConnRecord
      BY <1>4, <1>5, <3>1
    <3>3. conn' = [conn EXCEPT ![c] = [conn[c] EXCEPT !.next = n + 1, !.open = o]]
      BY <1>5, <2>1
    <3> QED
      BY <1>1, <3>2, <3>3, Moves
  <2>3. /\ conn'[c].pc = "read" /\ conn'[c].next = n + 1
        /\ conn'[c].link = conn[c].link /\ conn'[c].sent = conn[c].sent
        /\ conn'[c].known = conn[c].known /\ conn'[c].drain = conn[c].drain
        /\ conn'[c].open = o
    BY <1>3, <1>5, <2>2 DEF ConnRecord
  <2>4. /\ rows' \in [Turns -> [prompts : Nat, replies : Nat]]
        /\ \A u \in Turns : rows'[u].replies = rows[u].replies /\ rows'[u].prompts <= 1
    <3>1. rows \in [Turns -> [prompts : Nat, replies : Nat]] /\ \A u \in Turns : rows[u].prompts <= 1
      BY DEF TInv, TypeOK, ToldOnce
    <3>2. rows' = [rows EXCEPT ![t].prompts = 1]
      BY <2>1 DEF PromptRecorded
    <3> HIDE DEF t
    <3> QED
      BY <1>4, <3>1, <3>2
  <2>5. TypeOK'
    BY <1>1, <1>2, <2>2, <2>4 DEF TypeOK, ConnRecord, native, history
  <2>6. LinkOK(c)'
    BY <1>1, <1>3, <1>4, <1>5, <1>6, <2>3
       DEF ConnOK, LinkOK, Pending, Complete, LastTurn, ConnRecord
  <2>7. EofOK(c)'
    BY <1>1, <1>6, <2>3 DEF ConnOK, EofOK, Complete, LastTurn, SaidBy
  <2>8. OpenOK(c)'
    <3>1. \A i \in n .. n : i = n
      BY <1>4
    <3>2. /\ conn'[c].open.first = n /\ conn'[c].open.last = n
          /\ conn'[c].open.last = conn'[c].next - 1
          /\ n \in 1 .. n /\ n <= Len(file)
      BY <1>4, <2>3
    <3>3. file[n].kind = "prompt"
      BY <1>3, <1>4
    <3> QED
      BY <1>6, <3>1, <3>2, <3>3 DEF OpenOK
  <2>9. PassedOK(c)'
    <3>1. OpenTurn(c)' = file[n].turn
      BY <1>4, <1>6, <2>3 DEF OpenTurn
    <3>2. \A i \in 1 .. n : file[i].turn = OpenTurn(c)' \/ Settled(file[i].turn)
      BY <1>7, <1>8, <3>1
    <3>3. conn'[c].next - 1 = n
      BY <1>4, <2>3
    <3> QED
      BY <1>1, <1>6, <2>3, <3>2, <3>3 DEF ConnOK, PassedOK, Settled
  <2> QED
    BY <1>2, <1>6, <2>2, <2>3, <2>4, <2>5, <2>6, <2>7, <2>8, <2>9, Kept DEF ConnOK
<1> QED
  BY <1>9, <1>10

(* A connection that ends leaves nothing.                                      *)
LEMMA DetachKeeps ==
    ASSUME TInv, NEW c \in Connections, Detach(c) \/ Fail(c) \/ FailToBind(c)
    PROVE  TInv'
<1>1. TypeOK
  BY DEF TInv
<1>2. /\ UNCHANGED <<native, ledger, gambled>> /\ Detached(c)
      /\ faults' \in 0 .. MaxFaults
  <2>1. CASE Detach(c)
    BY <1>1, <2>1 DEF Detach, history, TypeOK
  <2>2. CASE Fail(c) \/ FailToBind(c)
    <3>1. UNCHANGED <<native, ledger, gambled>> /\ Detached(c)
      BY <2>2 DEF Fail, Failed, FailToBind, history
    <3>2. faults < MaxFaults /\ faults' = faults + 1
      BY <2>2 DEF Fail, FailToBind
    <3> QED
      BY <1>1, <3>1, <3>2, Counted
  <2> QED
    BY <2>1, <2>2
<1>3. torn' \subseteq Turns
  <2>1. conn[c].pc = "bind" => OpenTurn(c) \in Turns
    BY <1>1, Opened DEF TInv, BindOK
  <2> QED
    BY <1>1, <2>1 DEF Detach, Fail, FailToBind, history, TypeOK
<1>4. Unused \in ConnRecord
  BY DEF Unused, NoOpenTurn, ConnRecord
<1>5. /\ conn' \in [Connections -> ConnRecord]
      /\ conn'[c] = Unused /\ \A d \in Connections \ {c} : conn'[d] = conn[d]
  BY <1>1, <1>2, <1>4, Moves DEF Detached
<1>6. tail' \in TailRecord /\ registered' \in Connections \cup {Nobody}
  BY <1>1, <1>2, Typed, UnpluggedTyped DEF Detached, TypeOK
<1>7. TypeOK'
  BY <1>1, <1>2, <1>3, <1>5, <1>6 DEF TypeOK, ConnRecord, TailRecord, native, ledger
<1> QED
  BY <1>2, <1>5, <1>7, Kept DEF native, ledger, TInv, ToldOnce

LEMMA CrashKeeps == ASSUME TInv, Crash PROVE TInv'
<1>1. TypeOK
  BY DEF TInv
<1>2. /\ conn' = [c \in Connections |-> Unused] /\ registered' = Nobody /\ stops' = {}
      /\ UNCHANGED <<file, phase, ledger, gambled>>
  BY DEF Crash
<1>3. torn' \subseteq Turns
  <2>1. \A c \in Connections : conn[c].pc = "bind" => OpenTurn(c) \in Turns
    BY <1>1, Opened DEF TInv, BindOK
  <2> QED
    BY <1>1, <2>1 DEF Crash, TypeOK
<1>4. conn' \in [Connections -> ConnRecord]
  BY <1>2 DEF Unused, NoOpenTurn, ConnRecord
<1>5. tail' \in TailRecord /\ faults' \in 0 .. MaxFaults
  BY <1>1, UnpluggedTyped, Counted DEF Crash
<1>6. TypeOK'
  BY <1>1, <1>2, <1>3, <1>4, <1>5 DEF TypeOK, ConnRecord, TailRecord, ledger
<1> QED
  BY <1>2, <1>6, Kept DEF ledger, TInv, ToldOnce

LEMMA Reserving ==
    ASSUME TypeOK, NEW t \in Turns, run[t].status = "none",
           run' = [run EXCEPT ![t].status = "reserved"]
    PROVE  /\ run' \in [Turns -> [status : Statuses, first : Nat, last : Nat]]
           /\ \A u \in Turns : \/ run'[u] = run[u]
                               \/ run[u].status = "none" /\ run'[u].status = "reserved"
  BY DEF TypeOK, Statuses

LEMMA ReserveKeeps == ASSUME TInv, NEW t \in Turns, Reserve(t) PROVE TInv'
<1>1. TypeOK
  BY DEF TInv
<1>2. UNCHANGED <<native, tail, conn, registered, rows, history, faults>>
  BY DEF Reserve
<1>3. /\ run' \in [Turns -> [status : Statuses, first : Nat, last : Nat]]
      /\ \A u \in Turns : \/ run'[u] = run[u]
                          \/ run[u].status = "none" /\ run'[u].status = "reserved"
  BY <1>1, Reserving DEF Reserve
<1>4. TypeOK'
  BY <1>1, <1>2, <1>3 DEF TypeOK, native, history
<1> QED
  BY <1>2, <1>3, <1>4, Kept DEF native, history, TInv, ToldOnce

(* A relayed Stop drains a complete turn. Where the end of stream was sent     *)
(* already it names the turn of a bet.                                         *)
LEMMA StopKeeps == ASSUME TInv, NEW t \in Turns, StopTurn(t) PROVE TInv'
<1>1. TypeOK
  BY DEF TInv
<1>2. UNCHANGED <<file, phase, tail, registered, rows, torn, faults>> /\ t \in stops
  BY DEF StopTurn
<1>3. Complete(t)
  BY <1>2 DEF TInv, FileOK
<1>4. /\ run' \in [Turns -> [status : Statuses, first : Nat, last : Nat]]
      /\ \A u \in Turns : \/ run'[u] = run[u]
                          \/ run[u].status = "none" /\ run'[u].status = "reserved"
  <2>1. CASE run[t].status = "none"
    BY <1>1, <2>1, Reserving DEF StopTurn
  <2>2. CASE run[t].status # "none"
    BY <1>1, <2>2 DEF StopTurn, TypeOK
  <2> QED
    BY <2>1, <2>2
<1>5. /\ gambled \subseteq gambled' /\ gambled' \subseteq Turns
      /\ stops' \subseteq stops /\ stops' \subseteq Turns
  BY <1>1 DEF StopTurn, TypeOK
<1>6. CASE registered = Nobody
  <2>1. conn' = conn
    BY <1>6 DEF StopTurn
  <2>2. TypeOK'
    BY <1>1, <1>2, <1>4, <1>5, <2>1 DEF TypeOK
  <2> QED
    BY <1>2, <1>4, <1>5, <2>1, <2>2, Kept DEF TInv, ToldOnce
<1>7. CASE registered # Nobody
  <2> DEFINE c == registered
  <2>1. c \in Connections /\ conn' = [conn EXCEPT ![c].drain = t]
    BY <1>1, <1>7 DEF StopTurn, TypeOK
  <2>2. conn[c].link = "eof" => t \in gambled'
    BY <1>7 DEF StopTurn
  <2>3. conn[c] \in ConnRecord /\ conn \in [Connections -> ConnRecord]
    BY <1>1, <2>1, Typed
  <2>4. /\ conn' \in [Connections -> ConnRecord]
        /\ conn'[c] = [conn[c] EXCEPT !.drain = t]
        /\ \A d \in Connections \ {c} : conn'[d] = conn[d]
    <3>1. [conn[c] EXCEPT !.drain = t] \in ConnRecord
      BY <2>3 DEF ConnRecord
    <3>2. conn' = [conn EXCEPT ![c] = [conn[c] EXCEPT !.drain = t]]
      BY <2>1, <2>3
    <3> QED
      BY <1>1, <2>1, <3>1, <3>2, Moves
  <2>5. /\ conn'[c].pc = conn[c].pc /\ conn'[c].next = conn[c].next
        /\ conn'[c].link = conn[c].link /\ conn'[c].sent = conn[c].sent
        /\ conn'[c].known = conn[c].known /\ conn'[c].open = conn[c].open
        /\ conn'[c].drain = t
    BY <2>3, <2>4 DEF ConnRecord
  <2>6. TypeOK'
    BY <1>1, <1>2, <1>4, <1>5, <2>4 DEF TypeOK, ConnRecord
  <2>7. ASSUME NEW d \in Connections, d = c PROVE ConnOK(d)'
    <3>1. ConnOK(d)
      BY DEF TInv, ConnOK
    <3>2. OpenOK(d)'
      BY <1>2, <2>5, <2>7, <3>1 DEF ConnOK, OpenOK
    <3>3. LinkOK(d)'
      BY <1>2, <1>3, <2>5, <2>7, <3>1 DEF ConnOK, LinkOK, Complete, LastTurn
    <3>4. EofOK(d)'
      <4>1. t # NoTurn
        BY TailAssumption DEF Turns, NoTurn
      <4> QED
        BY <1>2, <2>2, <2>5, <2>7, <4>1 DEF EofOK
    <3>5. PassedOK(d)'
      <4>1. \A i \in 1 .. conn[d].next - 1 : file[i].turn \in Turns
        BY <1>1, <3>1, ReadLines, Lined DEF ConnOK
      <4>2. \A u \in Turns : Settled(u) => run'[u].status \in {"driven", "final"}
        BY <1>4 DEF Settled
      <4>3. conn[d].known \subseteq Turns
        BY <1>1 DEF TypeOK
      <4>4. OpenTurn(d)' = OpenTurn(d)
        BY <1>2, <2>5, <2>7 DEF OpenTurn
      <4> QED
        BY <1>2, <2>5, <2>7, <3>1, <4>1, <4>2, <4>3, <4>4 DEF ConnOK, PassedOK, Settled
    <3> QED
      BY <3>2, <3>3, <3>4, <3>5 DEF ConnOK
  <2>8. \A d \in Connections :
          \/ conn'[d] = conn[d]
          \/ ConnOK(d)' /\ (conn'[d].pc = "bind" => conn[d].pc = "bind" /\ conn'[d].open = conn[d].open)
    BY <2>4, <2>5, <2>7
  <2> QED
    BY <1>2, <1>4, <1>5, <2>6, <2>8, Kept DEF TInv, ToldOnce
<1> QED
  BY <1>6, <1>7

-----------------------------------------------------------------------------
(* The theorems.                                                           *)

LEMMA InitTInv == ASSUME Init PROVE TInv
<1>1. PICK n \in 0 .. MaxDriven :
        /\ file = [i \in 1 .. n |-> [kind |-> "prompt", turn |-> i]]
        /\ run = [t \in Turns |-> [Unrecorded EXCEPT !.status = IF t <= n THEN "driven" ELSE "none"]]
  BY DEF Init
<1>2. n \in Nat /\ \A i \in 1 .. n : i \in Turns
  BY TailAssumption DEF Turns
<1>3. /\ file \in Seq(Lines) /\ Len(file) = n
      /\ \A i \in 1 .. n : file[i].kind = "prompt" /\ file[i].turn = i
  <2>1. \A i \in 1 .. n : [kind |-> "prompt", turn |-> i] \in Lines
    BY <1>2 DEF Lines
  <2>2. file \in Seq(Lines)
    BY <1>1, <1>2, <2>1
  <2>3. Len(file) = n
    BY <1>1, <1>2
  <2>4. \A i \in 1 .. n : file[i] = [kind |-> "prompt", turn |-> i]
    BY <1>1
  <2> QED
    BY <2>2, <2>3, <2>4
<1>4. /\ run \in [Turns -> [status : Statuses, first : Nat, last : Nat]]
      /\ \A t \in Turns : run[t].status \in {"driven", "none"}
  BY <1>1 DEF Unrecorded, Statuses
<1>5. rows \in [Turns -> [prompts : Nat, replies : Nat]]
      /\ \A t \in Turns : rows[t].prompts = 0 /\ rows[t].replies = 0
  BY DEF Init
<1>6. /\ conn \in [Connections -> ConnRecord]
      /\ \A c \in Connections : conn[c] = Unused
  BY DEF Init, ConnRecord, Unused, NoOpenTurn
<1>7. /\ phase = "idle" /\ stops = {} /\ registered = Nobody /\ gambled = {} /\ torn = {}
      /\ faults = 0 /\ tail \in TailRecord
  BY DEF Init, TailRecord, Nobody
<1>8. TypeOK
  BY <1>3, <1>4, <1>5, <1>6, <1>7, TailAssumption DEF TypeOK, ConnRecord, TailRecord
<1>9. FileOK
  <2>1. \A i \in 1 .. n : \A t \in 1 .. i : t \in 1 .. n
    BY <1>2
  <2>2. InTurns
    BY <1>2, <1>3, <2>1 DEF InTurns
  <2> QED
    BY <1>7, <2>2 DEF FileOK
<1>10. ASSUME NEW c \in Connections
       PROVE  OpenOK(c) /\ LinkOK(c) /\ EofOK(c) /\ PassedOK(c) /\ BindOK(c)
  <2>1. /\ conn[c].open = NoOpenTurn /\ conn[c].next = 1 /\ conn[c].link = "live"
        /\ conn[c].drain = NoTurn /\ conn[c].known = {} /\ conn[c].pc = "none"
    BY <1>6 DEF Unused
  <2> QED
    BY <1>2, <1>3, <2>1 DEF OpenOK, LinkOK, EofOK, PassedOK, BindOK
<1>11. \A t \in Turns : RunOK(t)
  BY <1>4, <1>5 DEF RunOK
<1>12. EarliestFirst /\ ToldOnce
  BY <1>4, <1>5 DEF EarliestFirst, ToldOnce, Finals
<1> QED
  BY <1>8, <1>9, <1>10, <1>11, <1>12 DEF TInv

LEMMA NextTInv == ASSUME TInv, [Next]_vars PROVE TInv'
<1>1. CASE Native
  BY <1>1, NativeKeeps
<1>2. CASE Launch \/ Cede \/ GiveUp
  BY <1>2, TailKeeps
<1>3. ASSUME NEW c \in Connections, Client(c) \/ GoQuiet(c) PROVE TInv'
  BY <1>3, ConnectKeeps, SendEofKeeps DEF Client, Drain, GoQuiet
<1>4. ASSUME NEW c \in Connections, Server(c) PROVE TInv'
  BY <1>4, FeedWorkKeeps, CommitKeeps, SkipKeeps, BindKeeps, OpenKeeps, PassSummaryKeeps,
     DetachKeeps DEF Server
<1>5. ASSUME NEW c \in Connections, Faults(c) PROVE TInv'
  BY <1>5, DropKeeps, DetachKeeps DEF Faults
<1>6. ASSUME NEW t \in Turns, Reserve(t) \/ StopTurn(t) PROVE TInv'
  BY <1>6, ReserveKeeps, StopKeeps
<1>7. CASE Crash
  BY <1>7, CrashKeeps
<1>8. CASE UNCHANGED vars
  <2>1. /\ UNCHANGED <<file, phase, stops, tail, conn, registered, run, rows, gambled, torn, faults>>
    BY <1>8 DEF vars
  <2>2. TypeOK'
    BY <2>1 DEF TInv, TypeOK
  <2> QED
    BY <2>1, <2>2, Kept DEF TInv, ToldOnce
<1> QED
  BY <1>1, <1>2, <1>3, <1>4, <1>5, <1>6, <1>7, <1>8 DEF Next

(* The inductive invariant holds throughout.                                   *)
THEOREM TailInvariant == Spec => []TInv
<1>1. Init => TInv
  BY InitTInv
<1>2. TInv /\ [Next]_vars => TInv'
  BY NextTInv
<1> QED
  BY <1>1, <1>2, PTL DEF Spec

(* The variables keep their types (the state of the tailer, the tail process   *)
(* and the runs).                                                              *)
THEOREM TypeCorrect == Spec => []TypeOK
<1>1. TInv => TypeOK
  BY DEF TInv
<1> QED
  BY <1>1, TailInvariant, PTL

(* A committed run covers its turn from the prompt to the last line, unless a  *)
(* bet said the turn was over: whatever order its lines, its Stop hook, drops, *)
(* crashes and a second connection come in.                                    *)
THEOREM FilesWhole == Spec => []FiledWhole
<1>1. TInv => FiledWhole
  BY DEF TInv, RunOK, FiledWhole, Finals
<1> QED
  BY <1>1, TailInvariant, PTL

(* Committed turns are the earliest that were not driven, so that a connection *)
(* that resumes past the last of them strands none.                            *)
THEOREM CommitsInOrder == Spec => []EarliestFirst
<1>1. TInv => EarliestFirst
  BY DEF TInv
<1> QED
  BY <1>1, TailInvariant, PTL

(* A thread shows the prompt and the reply of a turn at most once, however     *)
(* often and by however many connections the turn is streamed.                 *)
THEOREM TellsOnce == Spec => []ToldOnce
<1>1. TInv => ToldOnce
  BY DEF TInv
<1> QED
  BY <1>1, TailInvariant, PTL

(* A committed run is never written again, and a driven one stays the          *)
(* channel's: record_external_run finds them settled.                          *)
THEOREM FinalsAreKept == Spec => FinalStands
<1>1. ASSUME TInv, [Next]_vars, NEW t \in Turns, run[t].status \in {"driven", "final"}
      PROVE  run'[t] = run[t]
  <2>1. run \in [Turns -> [status : Statuses, first : Nat, last : Nat]]
    BY <1>1 DEF TInv, TypeOK
  <2>2. CASE UNCHANGED run
    BY <2>2
  <2>3. ASSUME NEW c \in Connections, Close(c), ~UNCHANGED run PROVE run'[t] = run[t]
    <3>1. OpenTurn(c) # t
      BY <1>1, <2>3 DEF Close, MayRecord
    <3>2. PICK r : run' = [run EXCEPT ![OpenTurn(c)] = r]
      BY <2>3 DEF Close
    <3> QED
      BY <2>1, <3>1, <3>2
  <2>4. ASSUME NEW u \in Turns, Reserve(u) \/ StopTurn(u), ~UNCHANGED run PROVE run'[t] = run[t]
    <3>1. run[u].status = "none" /\ run' = [run EXCEPT ![u].status = "reserved"]
      BY <2>4 DEF Reserve, StopTurn
    <3> QED
      BY <1>1, <2>1, <3>1
  <2>5. ASSUME ~UNCHANGED run
        PROVE  \/ \E c \in Connections : Close(c)
               \/ \E u \in Turns : Reserve(u) \/ StopTurn(u)
    <3>1. Native => UNCHANGED run
      BY DEF Native, WritePrompt, WriteWork, Interrupt, Finish, WriteSummary, ledger
    <3>2. Launch \/ Cede \/ GiveUp \/ Crash => UNCHANGED run
      BY DEF Launch, Cede, GiveUp, Crash, ledger
    <3>3. \A c \in Connections : Client(c) \/ GoQuiet(c) => UNCHANGED run
      BY DEF Client, Connect, Drain, GoQuiet, SendEof, ledger
    <3>4. \A c \in Connections : Server(c) => Close(c) \/ UNCHANGED run
      BY DEF Server, FeedWork, Bind, Open, PassSummary, Detach, ledger
    <3>5. \A c \in Connections : Faults(c) => UNCHANGED run
      BY DEF Faults, Drop, Fail, FailToBind, ledger
    <3>6. UNCHANGED vars => UNCHANGED run
      BY DEF vars
    <3> QED
      BY <1>1, <2>5, <3>1, <3>2, <3>3, <3>4, <3>5, <3>6 DEF Next
  <2> QED
    BY <2>2, <2>3, <2>4, <2>5
<1>2. TInv /\ [Next]_vars
        => [\A t \in Turns : run[t].status \in {"driven", "final"} => run'[t] = run[t]]_vars
  BY <1>1
<1> QED
  BY <1>2, TailInvariant, PTL DEF Spec, FinalStands

=============================================================================
