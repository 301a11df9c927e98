------------------------------- MODULE Tail -------------------------------
(***************************************************************************)
(* A native Claude session collected from its transcript.                  *)
(*                                                                         *)
(* Claude appends lines to a file on the user's machine. A tail process    *)
(* there ships them over a socket; the server assembles turns from them,   *)
(* commits each as a run and binds it to the thread's rows. The committed  *)
(* runs say where a new connection resumes, so a drop costs a re-stream.   *)
(* A connection the client gave up may live on beside its successor until  *)
(* the server has worked off what was still under way to it.               *)
(*                                                                         *)
(* Lines are numbered and stand for their byte ranges. `file` holds, of    *)
(* each, the turn it belongs to and whether it is the prompt that opens    *)
(* it, work, or the summary of its Stop hooks that closes it.              *)
(***************************************************************************)
EXTENDS Integers, Sequences, FiniteSets

CONSTANTS MaxTurns,     \* turns of the session
          MaxWork,      \* lines of work in a turn
          MaxDriven,    \* turns Octomate may have driven before the session was resumed natively
          MaxConns,     \* connections that may exist at once
          MaxFaults     \* connections that break, commits and bindings that fail, crashes

ASSUME TailAssumption ==
    /\ MaxTurns \in Nat
    /\ MaxWork \in Nat
    /\ MaxConns \in Nat
    /\ MaxFaults \in Nat
    /\ MaxDriven \in 0 .. MaxTurns

Turns == 1 .. MaxTurns
NoTurn == 0
Connections == 1 .. MaxConns
Nobody == 0

VARIABLES
    file,        \* the transcript
    phase,       \* the native turn: "idle", "busy", or "stopping" while its Stop hooks run
    stops,       \* turns whose Stop hook is on its way to the server
    tail,        \* the tail process: is it up, its connection, is a launch pending
    conn,        \* the server's side of each connection, and what is under way to it
    registered,  \* the connection the tailer's registry names for the session
    run,         \* rows of runs
    rows,        \* rows of the thread: prompts and replies of a turn
    gambled,     \* history: turns that were still going when a bet said they were over
    torn,        \* history: turns committed by a connection that died before it bound them
    faults

native == <<file, phase, stops>>
ledger == <<run, rows>>
history == <<gambled, torn>>
vars == <<file, phase, stops, tail, conn, registered, run, rows, gambled, torn, faults>>

Lines == [kind : {"prompt", "work", "summary"}, turn : Turns]
Statuses == {"none", "reserved", "driven", "final"}
Unrecorded == [status |-> "none", first |-> 0, last |-> 0]

-----------------------------------------------------------------------------
(* What the file and the rows say *)

LastTurn == IF file = <<>> THEN NoTurn ELSE file[Len(file)].turn
Finals == {t \in Turns : run[t].status = "final"}

(* Variant: a run a hook only reserved counts as recorded. *)
ReservedCounts == {t \in Turns : run[t].status \in {"reserved", "final"}}

(* Native runs with a completed transcript range; a reservation is not one. *)
NativeRunIds == Finals

(* Where a session resumes: past the last line of its committed runs. *)
IsMark(m) ==
    /\ m = 0 \/ \E t \in Finals : run[t].last = m
    /\ \A t \in Finals : run[t].last <= m

-----------------------------------------------------------------------------
(* Connections *)

(* The turn being assembled, as the range of its lines; none, or one that is   *)
(* committed or driven already and is passed over.                             *)
NoOpenTurn == [first |-> 0, last |-> 0]

(* No connection. `next` is the line the server handles next. A link that is   *)
(* live ships whatever is written; `sent` is the last line of one that ended,  *)
(* with an end of stream ("eof") or without ("cut").                           *)
Unused == [pc |-> "none", next |-> 1, link |-> "live", sent |-> 0, open |-> NoOpenTurn,
           known |-> {}, drain |-> NoTurn]

TypeOK ==
    /\ file \in Seq(Lines)
    /\ phase \in {"idle", "busy", "stopping"}
    /\ stops \subseteq Turns
    /\ tail \in [up : {"none", "up", "done"}, conn : Connections \cup {Nobody},
                 spawn : BOOLEAN]
    /\ conn \in [Connections ->
                   [pc : {"none", "read", "bind"}, next : Nat \ {0},
                    link : {"live", "eof", "cut"}, sent : Nat,
                    open : [first : Nat, last : Nat], known : SUBSET Turns,
                    drain : Turns \cup {NoTurn}]]
    /\ registered \in Connections \cup {Nobody}
    /\ run \in [Turns -> [status : Statuses, first : Nat, last : Nat]]
    /\ rows \in [Turns -> [prompts : Nat, replies : Nat]]
    /\ gambled \subseteq Turns
    /\ torn \subseteq Turns
    /\ faults \in 0 .. MaxFaults

Init ==
    /\ phase = "idle"
    /\ stops = {}
    /\ tail = [up |-> "none", conn |-> Nobody, spawn |-> FALSE]
    /\ conn = [c \in Connections |-> Unused]
    /\ registered = Nobody
    /\ \E n \in 0 .. MaxDriven :
         /\ file = [i \in 1 .. n |-> [kind |-> "prompt", turn |-> i]]
         /\ run = [t \in Turns |->
                     [Unrecorded EXCEPT !.status = IF t <= n THEN "driven" ELSE "none"]]
    /\ rows = [t \in Turns |-> [prompts |-> 0, replies |-> 0]]
    /\ gambled = {}
    /\ torn = {}
    /\ faults = 0

OpenTurn(c) == IF conn[c].open.first = 0 THEN NoTurn ELSE file[conn[c].open.first].turn

(* Lines that have arrived or will, and the one that is next. *)
Pending(c) == conn[c].next <= IF conn[c].link = "live" THEN Len(file) ELSE conn[c].sent
Line(c) == file[conn[c].next]

(* The session's lock is held while a committed turn is being bound. *)
LockFree == \A c \in Connections : conn[c].pc # "bind"

-----------------------------------------------------------------------------
(* The native session, outside the repository: it writes and fires hooks. A    *)
(* turn that is interrupted ends without Stop hook or summary.                 *)

WritePrompt ==
    /\ phase = "idle"
    /\ LastTurn < MaxTurns
    /\ file' = Append(file, [kind |-> "prompt", turn |-> LastTurn + 1])
    /\ phase' = "busy"
    /\ tail' = [tail EXCEPT !.spawn = TRUE]
    /\ UNCHANGED <<stops, conn, registered, ledger, history, faults>>

WriteWork ==
    /\ phase = "busy"
    /\ Cardinality({i \in DOMAIN file : file[i].turn = LastTurn}) <= MaxWork
    /\ file' = Append(file, [kind |-> "work", turn |-> LastTurn])
    /\ UNCHANGED <<phase, stops, tail, conn, registered, ledger, history, faults>>

Interrupt ==
    /\ phase = "busy"
    /\ phase' = "idle"
    /\ UNCHANGED <<file, stops, tail, conn, registered, ledger, history, faults>>

(* The transcript is flushed before the Stop hooks fire. *)
Finish ==
    /\ phase = "busy"
    /\ phase' = "stopping"
    /\ stops' = stops \cup {LastTurn}
    /\ UNCHANGED <<file, tail, conn, registered, ledger, history, faults>>

WriteSummary ==
    /\ phase = "stopping"
    /\ phase' = "idle"
    /\ file' = Append(file, [kind |-> "summary", turn |-> LastTurn])
    /\ UNCHANGED <<stops, tail, conn, registered, ledger, history, faults>>

-----------------------------------------------------------------------------
(* The tail process *)

(* The launcher hook of a prompt starts a tail; only one holds the session. *)
Launch ==
    /\ tail.spawn
    /\ tail.up = "none"
    /\ tail' = [up |-> "up", conn |-> Nobody, spawn |-> FALSE]
    /\ UNCHANGED <<native, conn, registered, ledger, history, faults>>

(* A launch that finds a running tail leaves the session to it; one that is    *)
(* only waiting for its socket to close is waited out.                         *)
Cede ==
    /\ tail.spawn
    /\ tail.up = "up"
    /\ tail' = [tail EXCEPT !.spawn = FALSE]
    /\ UNCHANGED <<native, conn, registered, ledger, history, faults>>

(* attach_remote reads what is committed, answers where to resume and          *)
(* registers the connection in place of a lingering one. Which free slot stands *)
(* for it is immaterial.                                                       *)
Connect(c) ==
    /\ tail.up = "up"
    /\ tail.conn = Nobody
    /\ conn[c].pc = "none" /\ \A d \in 1 .. c - 1 : conn[d].pc # "none"
    /\ \E m \in 0 .. Len(file) :
         /\ IsMark(m)
         /\ conn' = [conn EXCEPT ![c] = [Unused EXCEPT !.pc = "read", !.next = m + 1,
                                                       !.known = NativeRunIds]]
    /\ tail' = [tail EXCEPT !.conn = c]
    /\ registered' = c
    /\ UNCHANGED <<native, ledger, history, faults>>

(* The last lines and the end of stream. Without a stopped turn to scope it,   *)
(* the server will take whatever is open for finished.                         *)
SendEof(c) ==
    /\ tail.up = "up"
    /\ tail.conn = c
    /\ conn' = [conn EXCEPT ![c].link = "eof", ![c].sent = Len(file)]
    /\ tail' = [tail EXCEPT !.up = "done"]
    /\ gambled' = IF phase = "busy" /\ conn[c].drain = NoTurn
                  THEN gambled \cup {LastTurn} ELSE gambled
    /\ UNCHANGED <<native, registered, ledger, torn, faults>>

(* The server relayed the Stop hook of a turn. *)
Drain(c) == conn[c].drain # NoTurn /\ SendEof(c)

(* Nothing was written for the idle window, or SessionEnd was relayed. *)
GoQuiet(c) == conn[c].drain = NoTurn /\ SendEof(c)

(* Disconnected, and the transcript is quiet: it stops trying. *)
GiveUp ==
    /\ tail.up = "up"
    /\ tail.conn = Nobody
    /\ tail' = [tail EXCEPT !.up = "none"]
    /\ UNCHANGED <<native, conn, registered, ledger, history, faults>>

(* The tail process after its connection is gone. *)
Unplugged == [tail EXCEPT !.conn = Nobody, !.up = IF @ = "done" THEN "none" ELSE @]

(* The connection breaks. What was under way arrives up to some line, or with  *)
(* the end of stream behind it.                                                *)
Drop(c) ==
    /\ faults < MaxFaults
    /\ tail.conn = c
    /\ \/ \E k \in (conn[c].next - 1) .. Len(file) :
            /\ conn[c].link = "eof" => k <= conn[c].sent
            /\ conn' = [conn EXCEPT ![c].link = "cut", ![c].sent = k]
       \/ conn[c].link = "eof" /\ UNCHANGED conn
    /\ tail' = Unplugged
    /\ faults' = faults + 1
    /\ UNCHANGED <<native, registered, ledger, history>>

-----------------------------------------------------------------------------
(* The server's side of a connection *)

(* The end of a connection's route, committed or not: its open turn goes. *)
Detached(c) ==
    /\ conn' = [conn EXCEPT ![c] = Unused]
    /\ registered' = IF registered = c THEN Nobody ELSE registered
    /\ tail' = IF tail.conn = c THEN Unplugged ELSE tail

(* A line of work extends the open turn, if that turn is collected here. *)
FeedWork(c) ==
    LET r == conn[c] IN
    /\ r.pc = "read" /\ Pending(c)
    /\ Line(c).kind = "work"
    /\ conn' = [conn EXCEPT ![c].next = r.next + 1,
                            ![c].open.last = IF r.open.first = 0 THEN 0 ELSE r.next]
    /\ UNCHANGED <<native, tail, registered, ledger, history, faults>>

(* Variant: the stopped turn does not limit what the end of stream commits. *)
ClosesAlways(c) ==
    \/ Pending(c) /\ Line(c).kind # "work"
    \/ ~Pending(c) /\ conn[c].link = "eof"

(* A prompt and a summary close the open turn, and so does the end of stream;  *)
(* after a relayed Stop that commits the stopped turn only (finish_remote).    *)
Closes(c) ==
    \/ Pending(c) /\ Line(c).kind # "work"
    \/ ~Pending(c) /\ conn[c].link = "eof" /\ conn[c].drain \in {NoTurn, OpenTurn(c)}

(* Variant: a finished run is recorded again by a later collector. *)
MayRecordAgain(t) == run[t].status # "driven"

(* A run that was finished meanwhile, or driven, stays as it is, and its rows  *)
(* are its first collector's to write (record_external_run).                   *)
MayRecord(t) == run[t].status \in {"none", "reserved"}

(* close_turn up to the commit, under the session's lock. *)
Close(c) ==
    LET t == OpenTurn(c) IN
    /\ conn[c].pc = "read" /\ t # NoTurn /\ Closes(c) /\ LockFree
    /\ IF MayRecord(t)
       THEN /\ run' = [run EXCEPT ![t] = [status |-> "final", first |-> conn[c].open.first,
                                          last |-> conn[c].open.last]]
            /\ conn' = [conn EXCEPT ![c].pc = "bind"]
       ELSE /\ conn' = [conn EXCEPT ![c].open = NoOpenTurn, ![c].known = @ \cup {t}]
            /\ UNCHANGED run
    /\ UNCHANGED <<native, tail, registered, rows, history, faults>>

(* bind_native_run, still under the lock. *)
Bind(c) ==
    LET t == OpenTurn(c) IN
    /\ conn[c].pc = "bind"
    /\ rows' = [rows EXCEPT ![t].replies = @ + 1]
    /\ conn' = [conn EXCEPT ![c].open = NoOpenTurn, ![c].pc = "read",
                            ![c].known = @ \cup {t}]
    /\ UNCHANGED <<native, tail, registered, run, history, faults>>

(* Variant: the prompt is recorded without looking for the row first. *)
PromptAdded(t) == [rows EXCEPT ![t].prompts = @ + 1]

(* record_native_prompt: the prompt's row is written unless it is there. *)
PromptRecorded(t) == [rows EXCEPT ![t].prompts = 1]

(* The prompt of a turn, its predecessor closed (begin_turn). A committed or   *)
(* driven turn is passed over; any other is collected, and its prompt recorded.*)
Open(c) ==
    LET r == conn[c]
        t == Line(c).turn IN
    /\ r.pc = "read" /\ Pending(c) /\ r.open = NoOpenTurn
    /\ Line(c).kind = "prompt"
    /\ IF t \in r.known \/ run[t].status = "driven"
       THEN /\ conn' = [conn EXCEPT ![c].next = r.next + 1]
            /\ UNCHANGED rows
       ELSE /\ LockFree
            /\ conn' = [conn EXCEPT ![c].next = r.next + 1,
                                    ![c].open = [first |-> r.next, last |-> r.next]]
            /\ rows' = PromptRecorded(t)
    /\ UNCHANGED <<native, tail, registered, run, history, faults>>

(* The summary of a turn that is closed, or is not collected here. *)
PassSummary(c) ==
    LET r == conn[c] IN
    /\ r.pc = "read" /\ Pending(c) /\ r.open = NoOpenTurn
    /\ Line(c).kind = "summary"
    /\ conn' = [conn EXCEPT ![c].next = r.next + 1]
    /\ UNCHANGED <<native, tail, registered, ledger, history, faults>>

(* A disconnect, or the clean end after finish_remote. *)
Detach(c) ==
    /\ conn[c].pc = "read" /\ ~Pending(c)
    /\ \/ conn[c].link = "cut"
       \/ conn[c].link = "eof" /\ (OpenTurn(c) = NoTurn \/ ~Closes(c))
    /\ Detached(c)
    /\ UNCHANGED <<native, ledger, history, faults>>

(* Variant: a turn that cannot be committed is skipped, and the stream goes on. *)
Skipped(c) ==
    /\ conn' = [conn EXCEPT ![c].open = NoOpenTurn]
    /\ UNCHANGED <<tail, registered>>

(* What a failure costs: the connection, and nothing after the turn is read.   *)
Failed(c) == Detached(c)

(* The lock's timeout, or a database that refuses. *)
Fail(c) ==
    /\ faults < MaxFaults
    /\ conn[c].pc = "read" /\ OpenTurn(c) # NoTurn /\ Closes(c)
    /\ Failed(c)
    /\ faults' = faults + 1
    /\ UNCHANGED <<native, ledger, history>>

(* The binding fails after its commit. *)
FailToBind(c) ==
    /\ faults < MaxFaults
    /\ conn[c].pc = "bind"
    /\ Detached(c)
    /\ torn' = torn \cup {OpenTurn(c)}
    /\ faults' = faults + 1
    /\ UNCHANGED <<native, ledger, gambled>>

(* The server dies and is started again. *)
Crash ==
    /\ faults < MaxFaults
    /\ conn' = [c \in Connections |-> Unused]
    /\ registered' = Nobody
    /\ stops' = {}
    /\ tail' = Unplugged
    /\ torn' = torn \cup {OpenTurn(c) : c \in {d \in Connections : conn[d].pc = "bind"}}
    /\ faults' = faults + 1
    /\ UNCHANGED <<file, phase, ledger, gambled>>

-----------------------------------------------------------------------------
(* Hooks *)

(* UserPromptSubmit reserves the turn's run, before or after its transcript. *)
Reserve(t) ==
    /\ t = LastTurn /\ phase = "busy"
    /\ LockFree
    /\ run[t].status = "none"
    /\ run' = [run EXCEPT ![t].status = "reserved"]
    /\ UNCHANGED <<native, tail, conn, registered, rows, history, faults>>

(* Stop: reserve if that is still to do, then ask the registered stream to     *)
(* drain this turn. A turn driven by Octomate reserves nothing.                *)
StopTurn(t) ==
    /\ t \in stops
    /\ LockFree
    /\ stops' = stops \ {t}
    /\ run' = IF run[t].status = "none" THEN [run EXCEPT ![t].status = "reserved"] ELSE run
    /\ conn' = IF registered = Nobody THEN conn
               ELSE [conn EXCEPT ![registered].drain = t]
    /\ gambled' = IF registered # Nobody /\ conn[registered].link = "eof"
                  THEN gambled \cup {t} ELSE gambled
    /\ UNCHANGED <<file, phase, tail, registered, rows, torn, faults>>

-----------------------------------------------------------------------------
Native == WritePrompt \/ WriteWork \/ Interrupt \/ Finish \/ WriteSummary

Client(c) == Connect(c) \/ Drain(c)

Server(c) ==
    \/ FeedWork(c) \/ Close(c) \/ Bind(c) \/ Open(c) \/ PassSummary(c) \/ Detach(c)

Faults(c) == Drop(c) \/ Fail(c) \/ FailToBind(c)

Next ==
    \/ Native
    \/ Launch \/ Cede \/ GiveUp
    \/ \E c \in Connections : Client(c) \/ GoQuiet(c) \/ Server(c) \/ Faults(c)
    \/ \E t \in Turns : Reserve(t) \/ StopTurn(t)
    \/ Crash

(* The processes of both sides run on; nobody need write, hooks may be lost. *)
Fairness ==
    /\ WF_vars(Launch \/ \E c \in Connections : Client(c))
    /\ \A c \in Connections : WF_vars(Server(c))

Spec == Init /\ [][Next]_vars /\ Fairness

-----------------------------------------------------------------------------
(* Properties *)

LinesOf(t) == {i \in DOMAIN file : file[i].turn = t}
Said(t) == {i \in LinesOf(t) : file[i].kind # "summary"}

(* A committed run covers its turn from the prompt to the last line: nothing   *)
(* newer than a stopped turn commits early, and a turn a connection saw half   *)
(* of is left to the next (close_turn, finish_remote, detach_remote). Turns    *)
(* that went on after a bet that they were over are excepted.                  *)
FiledWhole ==
    \A t \in Finals \ gambled : Said(t) = run[t].first .. run[t].last

(* The committed turns are the earliest ones, so that resuming past the last   *)
(* of them strands none (close_turn, attach_remote).                           *)
EarliestFirst ==
    \A t, u \in Turns : t < u /\ u \in Finals /\ run[t].status # "driven" => t \in Finals

(* However often a turn is streamed, and by however many connections at once,  *)
(* its thread shows its prompt and its reply once (record_native_prompt,       *)
(* bind_native_run).                                                           *)
ToldOnce == \A t \in Turns : rows[t].prompts <= 1 /\ rows[t].replies <= 1

(* A run assembled from the transcript is final, and a driven one stays the    *)
(* channel's (record_external_run).                                            *)
FinalStands ==
    [][\A t \in Turns : run[t].status \in {"driven", "final"} => run'[t] = run[t]]_vars

Ended(t) == t < LastTurn \/ \E i \in LinesOf(t) : file[i].kind = "summary"
IsFiled(t) == t \in Finals /\ (rows[t].replies = 1 \/ t \in torn)
Behind == \E t \in Turns : Ended(t) /\ run[t].status # "driven" /\ ~IsFiled(t)
Adrift == tail.up = "none" /\ ~tail.spawn

(* What ended natively is collected, with its reply, as long as a tail         *)
(* process or the launch of one is there to ship it (run_tail, stream_session).*)
EndedIsFiled == (Behind /\ ~Adrift) ~> (~Behind \/ Adrift)

=============================================================================
