------------------------------- MODULE Catalog -------------------------------
(***************************************************************************)
(* Discovery of an agent's commands (managers/commands.py).                *)
(*                                                                         *)
(* One entry of the manager's catalogs, that of one user, agent and        *)
(* conversation, and the probes started for it. Callers look it up, share  *)
(* a probe that is under way, or replace one that serves another context.  *)
(* The runtime changes on its own; an adapter that learns of it forgets    *)
(* the entry, while probes that read the old state may still be running.   *)
(***************************************************************************)
EXTENDS Integers, FiniteSets

CONSTANTS Callers,    \* calls of discover
          Contexts,   \* contexts the entry may be resolved in
          MaxProbes,  \* probes kept apart: the registered one, and what callers await
          MaxChanges  \* changes of the runtime

ASSUME CatalogAssumption == MaxProbes \in Nat /\ MaxChanges \in Nat

VARIABLES
    cached,   \* the entry: the probe that made it, and its status
    probing,  \* the probe registered for the entry
    task,     \* the probes
    caller,   \* the calls, with what they were given
    version,  \* of the runtime's commands
    known,    \* the version at the last invalidation
    closed    \* close() was called

cvars == <<cached, probing, task, caller, version, known, closed>>

Probes == 1 .. MaxProbes
NoProbe == 0
NoCatalog == [probe |-> NoProbe, status |-> "none"]

(* A probe: created, running, having read the runtime at version `asof`, over. *)
(* `cancelling` is a cancellation it has not been thrown yet.                  *)
ProbeIn(pc, x) ==
    [pc |-> pc, ctx |-> x, asof |-> 0, cancelling |-> FALSE, result |-> "none"]

(* A call in context x, a refresh or not, made when `s` was the last version   *)
(* invalidated.                                                                *)
CallOf(pc, x, refresh, s) ==
    [pc |-> pc, ctx |-> x, refresh |-> refresh, task |-> NoProbe, since |-> s,
     got |-> "none", asof |-> 0, of |-> "none"]

Results == {"none", "loading", "ready", "failed"}
Undone == {t \in Probes : task[t].pc \in {"created", "running", "read"}}
Waiting == {c \in Callers : caller[c].pc \in {"share", "drain"}}

(* A name for a new probe: of one that is over and that nobody awaits. *)
Free(c) == Probes \ (Undone \cup {caller[d].task : d \in Waiting \ {c}})

CallRecord ==
    [pc : {"idle", "share", "drain", "done", "cancelled", "gone"},
     ctx : Contexts \cup {"none"}, refresh : BOOLEAN, task : Probes \cup {NoProbe},
     since : 0 .. MaxChanges, got : Results, asof : 0 .. MaxChanges,
     of : Contexts \cup {"none"}]

ProbeRecord ==
    [pc : {"unused", "created", "running", "read", "done", "cancelled"},
     ctx : Contexts \cup {"none"}, asof : 0 .. MaxChanges, cancelling : BOOLEAN,
     result : Results]

CTypeOK ==
    /\ cached \in [probe : Probes \cup {NoProbe}, status : Results]
    /\ probing \in Probes \cup {NoProbe}
    /\ task \in [Probes -> ProbeRecord]
    /\ caller \in [Callers -> CallRecord]
    /\ version \in 0 .. MaxChanges
    /\ known \in 0 .. MaxChanges
    /\ closed \in BOOLEAN

CInit ==
    /\ cached = NoCatalog
    /\ probing = NoProbe
    /\ task = [t \in Probes |-> ProbeIn("unused", "none")]
    /\ caller = [c \in Callers |-> CallOf("idle", "none", FALSE, 0)]
    /\ version = 0
    /\ known = 0
    /\ closed = FALSE

-----------------------------------------------------------------------------
(* discover: the loop's body, from a call or a wake-up to its next await *)

(* Variant: a catalog serves every context. *)
MatchesAny(x) == cached # NoCatalog /\ x \in Contexts

Matches(x) == cached # NoCatalog /\ task[cached.probe].ctx = x

(* The caller is given what probe t made, as of the version it read. *)
Given(r, t, s) ==
    [r EXCEPT !.pc = "done", !.task = NoProbe, !.refresh = FALSE, !.got = s, !.of = task[t].ctx,
              !.asof = task[t].asof]

(* A settled catalog of this context is returned as it is. *)
Hit(c, r) ==
    /\ Matches(r.ctx) /\ probing \notin Undone
    /\ ~r.refresh /\ cached.status = "ready"
    /\ caller' = [caller EXCEPT ![c] = Given(r, cached.probe, cached.status)]
    /\ UNCHANGED <<cached, probing, task>>

(* A probe under way in this context is shared. *)
Share(c, r) ==
    /\ Matches(r.ctx) /\ probing \in Undone
    /\ caller' = [caller EXCEPT ![c] = [r EXCEPT !.pc = "share", !.task = probing, !.refresh = FALSE]]
    /\ UNCHANGED <<cached, probing, task>>

(* A probe that serves another context, or none any more, is cancelled and     *)
(* waited out; then the caller looks again.                                    *)
Replace(c, r) ==
    /\ ~Matches(r.ctx) /\ probing \in Undone
    /\ cached' = NoCatalog
    /\ task' = [task EXCEPT ![probing].cancelling = TRUE]
    /\ caller' = [caller EXCEPT ![c] = [r EXCEPT !.pc = "drain", !.task = probing]]
    /\ UNCHANGED probing

(* Otherwise a probe is started, behind an entry that says so. *)
Start(c, r) ==
    /\ probing \notin Undone
    /\ ~(Matches(r.ctx) /\ ~r.refresh /\ cached.status = "ready")
    /\ \E t \in Free(c) :
         /\ \A u \in Free(c) : t <= u
         /\ task' = [task EXCEPT ![t] = ProbeIn("created", r.ctx)]
         /\ probing' = t
         /\ cached' = [probe |-> t, status |-> "loading"]
         /\ caller' = [caller EXCEPT ![c] = [r EXCEPT !.pc = "share", !.task = t, !.refresh = FALSE]]

Look(c, r) == Hit(c, r) \/ Share(c, r) \/ Replace(c, r) \/ Start(c, r)

Ask(c, x, f) ==
    /\ ~closed
    /\ caller[c].pc = "idle"
    /\ Look(c, CallOf("idle", x, f, known))
    /\ UNCHANGED <<version, known, closed>>

(* The probe the caller waited out is over. *)
LookAgain(c) ==
    /\ caller[c].pc = "drain" /\ caller[c].task \notin Undone
    /\ Look(c, caller[c])
    /\ UNCHANGED <<version, known, closed>>

(* The shared probe is over: its result, or the cancellation it ended in. *)
Wake(c) ==
    LET t == caller[c].task IN
    /\ caller[c].pc = "share" /\ t \notin Undone
    /\ caller' = [caller EXCEPT ![c] = IF task[t].pc = "done" THEN Given(@, t, task[t].result)
                                       ELSE [@ EXCEPT !.pc = "cancelled", !.task = NoProbe]]
    /\ UNCHANGED <<cached, probing, task, version, known, closed>>

(* The call is cancelled; the probe is shielded from it. *)
CancelCaller(c) ==
    /\ c \in Waiting
    /\ caller' = [caller EXCEPT ![c] = CallOf("gone", "none", FALSE, 0)]
    /\ UNCHANGED <<cached, probing, task, version, known, closed>>

-----------------------------------------------------------------------------
(* probe *)

(* The task's first step; one that was cancelled before never enters probe().  *)
Begin(t) ==
    /\ task[t].pc = "created"
    /\ task' = [task EXCEPT ![t].pc = IF task[t].cancelling THEN "cancelled" ELSE "running"]
    /\ UNCHANGED <<cached, probing, caller, version, known, closed>>

(* The runtime answers the adapter with what it has now. *)
ReadRuntime(t) ==
    /\ task[t].pc = "running" /\ ~task[t].cancelling
    /\ task' = [task EXCEPT ![t].pc = "read", ![t].asof = version]
    /\ UNCHANGED <<cached, probing, caller, version, known, closed>>

(* Variant: the result is stored whether or not the entry is still the probe's.*)
StoredAlways(t, s) ==
    /\ cached' = [probe |-> t, status |-> s]
    /\ task' = [task EXCEPT ![t].pc = "done", ![t].result = s]

(* The result replaces the entry this probe loads; if that is gone, it is      *)
(* dropped, and whoever waits is told to ask again.                            *)
Stored(t, s) ==
    IF cached.probe = t
    THEN /\ cached' = [probe |-> t, status |-> s]
         /\ task' = [task EXCEPT ![t].pc = "done", ![t].result = s]
    ELSE /\ task' = [task EXCEPT ![t].pc = "done", ![t].result = "loading"]
         /\ UNCHANGED cached

Answer(t) ==
    /\ task[t].pc = "read" /\ ~task[t].cancelling
    /\ Stored(t, "ready")
    /\ UNCHANGED <<probing, caller, version, known, closed>>

(* Variant: a runtime that does not answer is waited for. *)
NeverFails(t) ==
    /\ FALSE
    /\ UNCHANGED cvars

(* The adapter fails, or does not answer in time. *)
FailProbe(t) ==
    /\ task[t].pc \in {"running", "read"} /\ ~task[t].cancelling
    /\ Stored(t, "failed")
    /\ UNCHANGED <<probing, caller, version, known, closed>>

(* The cancellation arrives: where the entry is gone it is swallowed. *)
Unwind(t) ==
    /\ task[t].pc \in {"running", "read"} /\ task[t].cancelling
    /\ task' = [task EXCEPT ![t].pc = IF cached.probe = t THEN "cancelled" ELSE "done",
                            ![t].result = IF cached.probe = t THEN @ ELSE "loading"]
    /\ UNCHANGED <<cached, probing, caller, version, known, closed>>

(* Variant: the callback forgets whatever probe is registered by then. *)
ForgetAny(t) ==
    /\ task[t].pc \in {"done", "cancelled"} /\ probing # NoProbe
    /\ probing' = NoProbe
    /\ UNCHANGED <<cached, task, caller, version, known, closed>>

(* The done callback. *)
Complete(t) ==
    /\ task[t].pc \in {"done", "cancelled"} /\ probing = t
    /\ probing' = NoProbe
    /\ UNCHANGED <<cached, task, caller, version, known, closed>>

-----------------------------------------------------------------------------
(* The runtime changes: a reconnect, a new mode, new skills. *)
Change ==
    /\ version < MaxChanges
    /\ version' = version + 1
    /\ UNCHANGED <<cached, probing, task, caller, known, closed>>

(* invalidate: an adapter noticed. *)
Invalidate ==
    /\ known < version
    /\ cached' = NoCatalog
    /\ known' = version
    /\ UNCHANGED <<probing, task, caller, version, closed>>

(* The LRU gives the entry up for others. *)
Evict ==
    /\ cached # NoCatalog
    /\ cached' = NoCatalog
    /\ UNCHANGED <<probing, task, caller, version, known, closed>>

(* Cancels the registered probe, and clears the entry once it is over. *)
Close ==
    /\ ~closed
    /\ closed' = TRUE
    /\ task' = IF probing \in Undone THEN [task EXCEPT ![probing].cancelling = TRUE] ELSE task
    /\ UNCHANGED <<cached, probing, caller, version, known>>

Clear ==
    /\ closed /\ probing \notin Undone /\ cached # NoCatalog
    /\ cached' = NoCatalog
    /\ UNCHANGED <<probing, task, caller, version, known, closed>>

-----------------------------------------------------------------------------
Call(c) == LookAgain(c) \/ Wake(c)
Probe(t) == Begin(t) \/ FailProbe(t) \/ Unwind(t) \/ Complete(t)

CNext ==
    \/ \E c \in Callers, x \in Contexts, f \in BOOLEAN : Ask(c, x, f)
    \/ \E c \in Callers : Call(c) \/ CancelCaller(c)
    \/ \E t \in Probes : Probe(t) \/ ReadRuntime(t) \/ Answer(t)
    \/ Change \/ Invalidate \/ Evict
    \/ Close \/ Clear

(* The event loop runs on, and a probe has a timeout: a runtime need not       *)
(* answer.                                                                     *)
CFairness ==
    /\ \A c \in Callers : WF_cvars(Call(c))
    /\ \A t \in Probes : WF_cvars(Probe(t))

CSpec == CInit /\ [][CNext]_cvars /\ CFairness

-----------------------------------------------------------------------------
(* Properties *)

(* A probe that read the runtime before an invalidation never fills the entry  *)
(* after it (invalidate: "pending results cannot repopulate them").            *)
CacheIsFresh == cached.status = "ready" => task[cached.probe].asof >= known

(* A caller is given a catalog of its own context, not older than the last     *)
(* invalidation before its call, whatever probe it shared (discover).          *)
GivenOwn ==
    \A c \in Callers : caller[c].got = "ready" =>
        caller[c].of = caller[c].ctx /\ caller[c].asof >= caller[c].since

(* A context has one probe under way at a time, the registered one, so that    *)
(* close() finds it (discover, complete).                                      *)
OneProbe == \A t \in Undone : t = probing

(* Every call ends, though runtimes hang and contexts replace each other       *)
(* (discover, probe).                                                          *)
CallsEnd == \A c \in Callers : c \in Waiting ~> c \notin Waiting

=============================================================================
