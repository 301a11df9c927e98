----------------------------- MODULE Workspaces -----------------------------
(***************************************************************************)
(* The workspaces of project-bound threads: a tree per thread, forked from *)
(* the project's mirror, saved to the mirror as the thread's own ref after *)
(* each turn, and removed by the sweep or on the agent's word.             *)
(*                                                                         *)
(* A tree's content is the set of edits in it.  A turn is one run of a     *)
(* thread's reflex and is named after the thread it was asked on; module   *)
(* Reflex shows there is one at a time.  git commands, the thread's lock   *)
(* and the removal of a tree take time; everything between is one step.    *)
(***************************************************************************)
EXTENDS Naturals, FiniteSets

CONSTANTS
  Threads,      \* threads of one project
  Bound,        \* those in the project from the start
  Edits,        \* what agents write
  Sweep,        \* the sweep, as holder of a lock
  Nobody,       \* no holder
  Reclaims,     \* whether trees are swept and dismissed
  MaxFailures,  \* bound on failed forks and saves
  MaxCrashes    \* bound on deaths of the process

ASSUME BoundThreads == Threads # {} /\ Bound \subseteq Threads
ASSUME HoldersAreDistinct == Sweep # Nobody /\ {Sweep, Nobody} \cap Threads = {}
ASSUME ReclaimsOrNot == Reclaims \in BOOLEAN
ASSUME FailuresAreBounded == MaxFailures \in Nat /\ MaxCrashes \in Nat

VARIABLES
  bound,     \* the threads bound to the project
  tree,      \* workspaces_dir/<thread>: its state, its content, refs/octomate/saved
  mirror,    \* refs/octomate/threads/<thread> in the mirror
  idle,      \* whether its mtime is past the idle window
  lock,      \* the manager's lock of the thread
  turn,      \* each turn: where it is and the thread it works in
  sweep,     \* the sweep: where it is, the workspace it is at, those listed after it
  wrote,     \* history: the edits written into each thread's tree
  risked,    \* history: the edits exposed to a removal the code does not guard
  faults     \* history: failures and crashes so far

vars == <<bound, tree, mirror, idle, lock, turn, sweep, wrote, risked, faults>>

\* "going" while it is being removed; where a removal died half-way "torn", or
\* "gutted" when its git directory is not whole either.
\* A ref holds a snapshot, {work}, or does not exist, {}.
Ref == {{}} \cup {{work} : work \in SUBSET Edits}
Tree == [at : {"none", "whole", "going", "torn", "gutted"}, work : SUBSET Edits, pushed : Ref]
NoTree == [at |-> "none", work |-> {}, pushed |-> {}]

Turn == [pc   : {"out", "preparing", "forking", "landed", "in", "saving", "pushing",
                 "marking", "saved", "moving", "filing", "releasing", "removing"},
         in   : Threads,                        \* the thread whose tree it works in
         snap : SUBSET Edits,                   \* the snapshot it is saving
         then : {"end", "dismiss", "move", "carry"},  \* what follows the save
         dest : Threads,                        \* the thread the work is carried to
         left : SUBSET Edits]                   \* the work it was to carry

TypeOK ==
  /\ bound \subseteq Threads
  /\ tree \in [Threads -> Tree]
  /\ mirror \in [Threads -> Ref]
  /\ idle \in [Threads -> BOOLEAN]
  /\ lock \in [Threads -> Threads \cup {Sweep, Nobody}]
  /\ turn \in [Threads -> Turn]
  /\ sweep \in [pc : {"idle", "looking", "checking", "releasing", "removing"},
                on : Threads, left : SUBSET Threads]
  /\ wrote \in [Threads -> SUBSET Edits]
  /\ risked \in SUBSET Edits
  /\ faults \in [failures : 0 .. MaxFailures, crashes : 0 .. MaxCrashes]

Out(t) == [pc |-> "out", in |-> t, snap |-> {}, then |-> "end", dest |-> t,
           left |-> {}]

Rest(left) == [pc |-> IF left = {} THEN "idle" ELSE "looking",
               on |-> CHOOSE t \in Threads : TRUE, left |-> left]
Resting == Rest({})

Init ==
  /\ bound = Bound
  /\ tree = [t \in Threads |-> NoTree]
  /\ mirror = [t \in Threads |-> {}]
  /\ idle = [t \in Threads |-> FALSE]
  /\ lock = [t \in Threads |-> Nobody]
  /\ turn = [t \in Threads |-> Out(t)]
  /\ sweep = Resting
  /\ wrote = [t \in Threads |-> {}]
  /\ risked = {}
  /\ faults = [failures |-> 0, crashes |-> 0]

Here(t) == tree[t].at # "none"          \* path.is_dir()
Become(t, state) == turn' = [turn EXCEPT ![t] = state]
Goto(t, pc) == Become(t, [turn[t] EXCEPT !.pc = pc])
Lock(t, holder) == lock[t] = Nobody /\ lock' = [lock EXCEPT ![t] = holder]
Unlock(t) == lock' = [lock EXCEPT ![t] = Nobody]
Fails == faults.failures < MaxFailures /\ faults' = [faults EXCEPT !.failures = @ + 1]

-----------------------------------------------------------------------------
(* The turn: prepare and run.                                              *)

\* The gateway drives one run of a thread's conversation at a time, until it
\* has dismissed what it was told to; a move and the last save come after.
Driven(u) ==
  \/ turn[u].pc \in {"in", "releasing", "removing"} \/ turn[u].then = "dismiss"
  \/ turn[u].pc \in {"preparing", "forking"} /\ turn[u].in = u

Free(t, in) == \A u \in Threads \ {t} : ~(Driven(u) /\ turn[u].in = in)

Begin(t) ==
  /\ turn[t].pc = "out"
  /\ t \in bound
  /\ Free(t, t)
  /\ Goto(t, "preparing")
  /\ UNCHANGED <<bound, tree, mirror, idle, lock, sweep, wrote, risked, faults>>

\* prepare ends: the turn runs, or what it moved has landed.
Prepared(t) == Goto(t, IF turn[t].in = t THEN "in" ELSE "landed")

\* existing takes no lock: a directory that is there is stamped and used.
Existing(t) ==
  /\ turn[t].pc = "preparing"
  /\ Here(turn[t].in)
  /\ idle' = [idle EXCEPT ![turn[t].in] = FALSE]
  /\ Prepared(t)
  /\ UNCHANGED <<bound, tree, mirror, lock, sweep, wrote, risked, faults>>

\* None is there: the mirror is synced, materialize takes the thread's lock ...
Materialize(t) ==
  /\ turn[t].pc = "preparing"
  /\ ~Here(turn[t].in)
  /\ Lock(turn[t].in, t)
  /\ Goto(t, "forking")
  /\ UNCHANGED <<bound, tree, mirror, idle, sweep, wrote, risked, faults>>

\* ... forks beside the path, lays the thread's ref over it, and renames.
Forked(t) ==
  LET in == turn[t].in IN
  /\ turn[t].pc = "forking"
  /\ tree' = [tree EXCEPT ![in] = [at |-> "whole", work |-> UNION mirror[in],
                                      pushed |-> mirror[in]]]
  /\ idle' = [idle EXCEPT ![in] = FALSE]
  /\ Unlock(in)
  /\ Prepared(t)
  /\ UNCHANGED <<bound, mirror, sweep, wrote, risked, faults>>

\* A fork that fails leaves nothing; the turn raises into its save.
ForkFails(t) ==
  /\ turn[t].pc = "forking"
  /\ Fails
  /\ Unlock(turn[t].in)
  /\ Goto(t, "saving")
  /\ UNCHANGED <<bound, tree, mirror, idle, sweep, wrote, risked>>

\* After a move React runs where it landed, unless another turn runs there.
Land(t) ==
  /\ turn[t].pc = "landed"
  /\ Goto(t, IF Free(t, turn[t].in) THEN "in" ELSE "saving")
  /\ UNCHANGED <<bound, tree, mirror, idle, lock, sweep, wrote, risked, faults>>

\* The agent writes.  What it writes to a tree being removed goes with it;
\* where no tree is, the write fails.
Edit(t, e) ==
  LET in == turn[t].in IN
  /\ turn[t].pc = "in"
  /\ \A u \in Threads : e \notin wrote[u]
  /\ Here(in)
  /\ tree' = [tree EXCEPT ![in].work = @ \cup {e}]
  /\ wrote' = [wrote EXCEPT ![in] = @ \cup {e}]
  /\ risked' = IF \/ sweep.on = in /\ sweep.pc \in {"releasing", "removing"}
                  \/ tree[in].at \in {"torn", "gutted"}
                 THEN risked \cup {e} ELSE risked
  /\ UNCHANGED <<bound, mirror, idle, lock, turn, sweep, faults>>

\* The run ends, or raises; the agent may have said its work is done, or that it
\* goes on elsewhere.
End(t) ==
  /\ turn[t].pc = "in"
  /\ \E then \in {"end"} \cup (IF Reclaims THEN {"dismiss"} ELSE {})
                          \cup (IF turn[t].in = t THEN {"move"} ELSE {}) :
       Become(t, [turn[t] EXCEPT !.pc = "saving", !.then = then])
  /\ UNCHANGED <<bound, tree, mirror, idle, lock, sweep, wrote, risked, faults>>

\* A teleport to a new thread: the thread is bound, then the work is carried.
Move(t, d) ==
  /\ turn[t].pc = "moving"
  /\ d \notin bound
  /\ bound' = bound \cup {d}
  /\ Become(t, [turn[t] EXCEPT !.pc = "saving", !.then = "carry", !.dest = d,
                          !.left = IF Here(t) THEN tree[t].work ELSE UNION mirror[t]])
  /\ UNCHANGED <<tree, mirror, idle, lock, sweep, wrote, risked, faults>>

\* No thread could be opened: the turn raises.
Stay(t) ==
  /\ turn[t].pc = "moving"
  /\ bound = Threads
  /\ Become(t, Out(t))
  /\ UNCHANGED <<bound, tree, mirror, idle, lock, sweep, wrote, risked, faults>>

-----------------------------------------------------------------------------
(* The turn: save, dismiss, carry.                                         *)

\* save: nothing without a directory, or where git finds no repository (which is
\* logged); else a snapshot, under the lock ...
Save(t) ==
  LET in == turn[t].in IN
  /\ turn[t].pc = "saving"
  /\ IF tree[in].at \notin {"none", "gutted"}
       THEN /\ Lock(in, t)
            /\ Become(t, [turn[t] EXCEPT !.pc = "pushing", !.snap = tree[in].work])
       ELSE Goto(t, "saved") /\ lock' = lock
  /\ UNCHANGED <<bound, tree, mirror, idle, sweep, wrote, risked, faults>>

\* Variant: the push's failure is not noticed.
PushIgnored(t) ==
  /\ turn[t].pc = "pushing"
  /\ Goto(t, "marking")
  /\ UNCHANGED <<bound, tree, mirror, idle, lock, sweep, wrote, risked, faults>>

\* ... pushed by force to the thread's ref ...
Push(t) ==
  /\ turn[t].pc = "pushing"
  /\ mirror' = [mirror EXCEPT ![turn[t].in] = {turn[t].snap}]
  /\ Goto(t, "marking")
  /\ UNCHANGED <<bound, tree, idle, lock, sweep, wrote, risked, faults>>

\* ... and only then recorded in the workspace.
Mark(t) ==
  /\ turn[t].pc = "marking"
  /\ tree' = [tree EXCEPT ![turn[t].in].pushed = {turn[t].snap}]
  /\ Unlock(turn[t].in)
  /\ Goto(t, "saved")
  /\ UNCHANGED <<bound, mirror, idle, sweep, wrote, risked, faults>>

\* Variant: a failed save keeps the lock.
SaveFailsHolding(t) ==
  /\ turn[t].pc \in {"pushing", "marking"}
  /\ Fails
  /\ Goto(t, "saved")
  /\ UNCHANGED <<bound, tree, mirror, idle, lock, sweep, wrote, risked>>

\* A git command that fails is logged; the turn goes on.
SaveFails(t) ==
  /\ turn[t].pc \in {"pushing", "marking"}
  /\ Fails
  /\ Unlock(turn[t].in)
  /\ Goto(t, "saved")
  /\ UNCHANGED <<bound, tree, mirror, idle, sweep, wrote, risked>>

\* saved: the workspace is, again, the snapshot it recorded as pushed.
Saved(t) == tree[t].at \notin {"none", "gutted"} /\ tree[t].pushed = {tree[t].work}

\* Variant: dismiss trusts its save.
AfterSaveTrusting(t) ==
  LET me == turn[t] IN
  /\ me.pc = "saved"
  /\ Become(t, CASE me.then = "end"     -> Out(t)
                 [] me.then = "move"    -> [me EXCEPT !.pc = "moving"]
                 [] me.then = "carry"   -> [me EXCEPT !.pc = "filing"]
                 [] me.then = "dismiss" -> [me EXCEPT !.pc = "releasing"])
  /\ UNCHANGED <<bound, tree, mirror, idle, lock, sweep, wrote, risked, faults>>

\* After the save: the turn is over, carry files the snapshot, and dismiss looks
\* whether the save took; the turn's own save comes last in any case.
AfterSave(t) ==
  LET me == turn[t] IN
  /\ me.pc = "saved"
  /\ Become(t, CASE me.then = "end"     -> Out(t)
                 [] me.then = "move"    -> [me EXCEPT !.pc = "moving"]
                 [] me.then = "carry"   -> [me EXCEPT !.pc = "filing"]
                 [] me.then = "dismiss" ->
                      IF Saved(me.in) THEN [me EXCEPT !.pc = "releasing"]
                                      ELSE [me EXCEPT !.pc = "saving", !.then = "end"])
  /\ UNCHANGED <<bound, tree, mirror, idle, lock, sweep, wrote, risked, faults>>

\* carry: the snapshot is filed under the new thread too, over what a turn there
\* may have saved by now; then the new thread is prepared.
File(t) ==
  LET me == turn[t] IN
  /\ me.pc = "filing"
  /\ IF mirror[me.in] = {} THEN UNCHANGED <<mirror, risked>>
     ELSE /\ mirror' = [mirror EXCEPT ![me.dest] = mirror[me.in]]
          /\ risked' = risked \cup wrote[me.dest]
  /\ Become(t, [me EXCEPT !.pc = "preparing", !.in = me.dest, !.then = "end"])
  /\ UNCHANGED <<bound, tree, idle, lock, sweep, wrote, faults>>

\* release: under the lock, the directory is removed, which takes a while.
Removing(t) == tree' = [tree EXCEPT ![t].at = IF Here(t) THEN "going" ELSE "none"]
Removed(t) == tree' = [tree EXCEPT ![t] = NoTree]

Dismiss(t) ==
  /\ turn[t].pc = "releasing"
  /\ Lock(turn[t].in, t)
  /\ Removing(turn[t].in)
  /\ Goto(t, "removing")
  /\ UNCHANGED <<bound, mirror, idle, sweep, wrote, risked, faults>>

Dismissed(t) ==
  /\ turn[t].pc = "removing"
  /\ Removed(turn[t].in)
  /\ Unlock(turn[t].in)
  /\ Become(t, [turn[t] EXCEPT !.pc = "saving", !.then = "end"])
  /\ UNCHANGED <<bound, mirror, idle, sweep, wrote, risked, faults>>

-----------------------------------------------------------------------------
(* The sweep.                                                              *)

\* The idle window passes without a turn beginning in the tree.
Idle(t) ==
  /\ Reclaims
  /\ Here(t)
  /\ idle' = [idle EXCEPT ![t] = TRUE]
  /\ UNCHANGED <<bound, tree, mirror, lock, turn, sweep, wrote, risked, faults>>

\* prune lists the workspaces there are ...
List ==
  /\ Reclaims
  /\ sweep.pc = "idle"
  /\ sweep' = Rest({t \in Threads : Here(t)})
  /\ UNCHANGED <<bound, tree, mirror, idle, lock, turn, wrote, risked, faults>>

At(t, looks) ==
  /\ sweep.pc = "looking"
  /\ t \in sweep.left
  /\ sweep' = CASE ~Here(t) -> Resting
                [] Here(t) /\ looks  -> [pc |-> "checking", on |-> t,
                                         left |-> sweep.left \ {t}]
                [] Here(t) /\ ~looks -> Rest(sweep.left \ {t})
  /\ UNCHANGED <<bound, tree, mirror, idle, lock, turn, wrote, risked, faults>>

\* Variant: the sweep takes the window the wrong way round.
LookAtFresh(t) == At(t, ~idle[t])

\* ... comes to each in turn and looks at those whose mtime is old enough; one
\* that is gone by then raises, which is the end of this sweep ...
Look(t) == At(t, idle[t])

\* ... snapshots it, without the lock, and keeps what the mirror has not seen;
\* git raises where there is no whole repository, which ends the sweep too.
Check ==
  /\ sweep.pc = "checking"
  /\ sweep' = CASE tree[sweep.on].at \in {"none", "gutted"} -> Resting
                [] Saved(sweep.on) -> [sweep EXCEPT !.pc = "releasing"]
                [] OTHER -> Rest(sweep.left)
  /\ UNCHANGED <<bound, tree, mirror, idle, lock, turn, wrote, risked, faults>>

Release ==
  /\ sweep.pc = "releasing"
  /\ Lock(sweep.on, Sweep)
  /\ Removing(sweep.on)
  /\ sweep' = [sweep EXCEPT !.pc = "removing"]
  /\ UNCHANGED <<bound, mirror, idle, turn, wrote, risked, faults>>

Swept ==
  /\ sweep.pc = "removing"
  /\ Removed(sweep.on)
  /\ Unlock(sweep.on)
  /\ sweep' = Rest(sweep.left)
  /\ UNCHANGED <<bound, mirror, idle, turn, wrote, risked, faults>>

-----------------------------------------------------------------------------
\* The process dies: staging directories are nobody's, and a directory that was
\* being removed stays, as far as it was not removed yet.
Crash ==
  /\ faults.crashes < MaxCrashes
  /\ faults' = [faults EXCEPT !.crashes = @ + 1]
  /\ \E half \in {"torn", "gutted"}, kept \in SUBSET Edits :
       tree' = [t \in Threads |->
         IF tree[t].at = "going"
           THEN [tree[t] EXCEPT !.at = half, !.work = @ \cap kept]
           ELSE tree[t]]
  /\ risked' = risked \cup UNION {wrote[t] : t \in {u \in Threads : tree[u].at = "going"}}
  /\ lock' = [t \in Threads |-> Nobody]
  /\ turn' = [t \in Threads |-> Out(t)]
  /\ sweep' = Resting
  /\ UNCHANGED <<bound, mirror, idle, wrote>>

Run(t) ==
  \/ Begin(t) \/ Existing(t) \/ Materialize(t) \/ Forked(t) \/ ForkFails(t) \/ Land(t)
  \/ \E e \in Edits : Edit(t, e)
  \/ \E d \in Threads : Move(t, d)
  \/ Stay(t)
  \/ End(t)

Leave(t) ==
  \/ Save(t) \/ Push(t) \/ Mark(t) \/ SaveFails(t) \/ AfterSave(t)
  \/ File(t) \/ Dismiss(t) \/ Dismissed(t)

Next ==
  \/ \E t \in Threads : Run(t) \/ Leave(t) \/ Idle(t) \/ Look(t)
  \/ List \/ Check \/ Release \/ Swept \/ Crash

\* Turns end, git commands return, time passes and the sweep goes round; a
\* lock is handed to its waiters in turn.
Fairness ==
  /\ \A t \in Threads :
       /\ WF_vars(Existing(t)) /\ SF_vars(Materialize(t)) /\ WF_vars(Forked(t))
       /\ WF_vars(Land(t)) /\ WF_vars(End(t))
       /\ WF_vars(Stay(t)) /\ WF_vars(\E d \in Threads : Move(t, d))
       /\ SF_vars(Save(t)) /\ WF_vars(Push(t)) /\ WF_vars(Mark(t))
       /\ WF_vars(AfterSave(t)) /\ WF_vars(File(t))
       /\ SF_vars(Dismiss(t)) /\ WF_vars(Dismissed(t))
       /\ WF_vars(Idle(t))
  /\ WF_vars(List) /\ WF_vars(\E t \in Threads : Look(t)) /\ WF_vars(Check)
  /\ SF_vars(Release) /\ WF_vars(Swept)

Spec == Init /\ [][Next]_vars /\ Fairness

-----------------------------------------------------------------------------
(* Properties.                                                             *)

Safe(t) == (UNION mirror[t]) \cup (IF tree[t].at = "whole" THEN tree[t].work ELSE {})

\* Work is in the thread's tree or in the mirror, through failed forks and
\* saves, deaths of the process, sweeps and dismissals (save, saved, release):
\* all but what is written after the sweep's check, in a removal cut short, or in
\* a new thread before the work carried to it is filed.
WorkIsKept == \A t \in Threads : wrote[t] \ risked \subseteq Safe(t)

\* A turn ends: no fork, save, dismissal or carry leaves a lock behind.
TurnsEnd == \A t \in Threads : turn[t].pc # "out" ~> turn[t].pc = "out"

\* A workspace the mirror has, and that no turn comes back to, gives its disk
\* back, also when the sweep meets one that it must keep.
IdleIsReclaimed ==
  \A t \in Threads :
    (tree[t].at = "whole" /\ Saved(t) /\ turn[t].pc = "out")
      ~> (tree[t].at # "whole" \/ turn[t].pc # "out")
=============================================================================
