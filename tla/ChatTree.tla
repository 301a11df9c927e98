------------------------------ MODULE ChatTree ------------------------------
(***************************************************************************)
(* The tree of a thread in no project, which overlapping runs of one       *)
(* conversation share: forked by the first, counted by each, removed by    *)
(* the last.  Every step holds the thread's lock (module Workspaces), and  *)
(* only runs that are counted look at the tree without it, so claim, fork  *)
(* and discard are one step each: nothing is seen of their middle, and     *)
(* while a run is in the tree the lock is never held across an await.      *)
(***************************************************************************)
EXTENDS Naturals, FiniteSets

CONSTANTS
  Runs,         \* runs of the conversation, over all processes
  MaxFailures,  \* bound on forks that fail or are cancelled
  MaxCrashes    \* bound on deaths of the process

ASSUME RunsAreFinite == IsFiniteSet(Runs)
ASSUME ChatFaultsAreBounded == MaxFailures \in Nat /\ MaxCrashes \in Nat

VARIABLES
  holders,  \* WorkspaceManager.chatting[thread], 0 when it has no entry
  exists,   \* whether workspaces_dir/chat/<thread> is there
  files,    \* whose files are in it
  run,      \* each run: "new", "claimed", "in" or "over"
  faults    \* history: failures and crashes so far

vars == <<holders, exists, files, run, faults>>

TypeOK ==
  /\ holders \in 0 .. Cardinality(Runs)
  /\ exists \in BOOLEAN
  /\ files \subseteq Runs
  /\ run \in [Runs -> {"new", "claimed", "in", "over"}]
  /\ faults \in [failures : 0 .. MaxFailures, crashes : 0 .. MaxCrashes]

Init ==
  /\ holders = 0
  /\ exists = FALSE
  /\ files = {}
  /\ run = [r \in Runs |-> "new"]
  /\ faults = [failures |-> 0, crashes |-> 0]

Goto(r, pc) == run' = [run EXCEPT ![r] = pc]

\* Variant: what a killed run left is kept.
ClaimAsIs(r) ==
  /\ run[r] = "new"
  /\ holders' = holders + 1
  /\ Goto(r, "claimed")
  /\ UNCHANGED <<exists, files, faults>>

\* claim: a tree nobody is counted in is cleared; the run is counted.
Claim(r) ==
  /\ run[r] = "new"
  /\ IF holders = 0 THEN exists' = FALSE /\ files' = {} ELSE UNCHANGED <<exists, files>>
  /\ holders' = holders + 1
  /\ Goto(r, "claimed")
  /\ UNCHANGED faults

\* materialize: the tree that is there, or an empty fork.
Enter(r) ==
  /\ run[r] = "claimed"
  /\ exists' = TRUE
  /\ Goto(r, "in")
  /\ UNCHANGED <<holders, files, faults>>

\* A fork that fails, or is cancelled, raises out of __aenter__: no __aexit__.
EnterFails(r) ==
  /\ run[r] = "claimed"
  /\ faults.failures < MaxFailures
  /\ faults' = [faults EXCEPT !.failures = @ + 1]
  /\ Goto(r, "over")
  /\ UNCHANGED <<holders, exists, files>>

Write(r) ==
  /\ run[r] = "in"
  /\ exists
  /\ files' = files \cup {r}
  /\ UNCHANGED <<holders, exists, run, faults>>

\* Variant: the count is looked at before it is taken down.
DiscardLate(r) ==
  /\ run[r] = "in"
  /\ IF holders > 0
       THEN holders' = holders - 1 /\ UNCHANGED <<exists, files>>
       ELSE holders' = 0 /\ exists' = FALSE /\ files' = {}
  /\ Goto(r, "over")
  /\ UNCHANGED faults

\* discard: the last one counted removes the tree.
Discard(r) ==
  /\ run[r] = "in"
  /\ IF holders > 1
       THEN holders' = holders - 1 /\ UNCHANGED <<exists, files>>
       ELSE holders' = 0 /\ exists' = FALSE /\ files' = {}
  /\ Goto(r, "over")
  /\ UNCHANGED faults

\* The count dies with the process, the tree does not.
Crash ==
  /\ faults.crashes < MaxCrashes
  /\ faults' = [faults EXCEPT !.crashes = @ + 1]
  /\ holders' = 0
  /\ run' = [r \in Runs |-> IF run[r] = "new" THEN "new" ELSE "over"]
  /\ UNCHANGED <<exists, files>>

Next ==
  \/ \E r \in Runs : Claim(r) \/ Enter(r) \/ EnterFails(r) \/ Write(r)
                       \/ Discard(r)
  \/ Crash

Spec == Init /\ [][Next]_vars

-----------------------------------------------------------------------------
(* Properties.                                                             *)

Inside == {r \in Runs : run[r] \in {"claimed", "in"}}

\* No run loses the tree under it, whatever overlapping runs come and go, fail
\* or are cancelled: what it wrote is there until it leaves (claim, discard).
TreeIsTheirs ==
  [][\A r \in Runs : run[r] = "in" /\ run'[r] = "in" =>
       exists' /\ (r \in files => r \in files')]_vars

\* A run that joins when every other has ended gets a tree with nothing of theirs
\* in it, also after one that was killed, if none failed to enter (claim).
StartsEmpty ==
  [][\A r \in Runs :
       run[r] = "new" /\ run'[r] = "claimed" /\ Inside = {} /\ faults.failures = 0
         => files' = {}]_vars

\* The tree is gone when the runs in it have ended, in a process that lives.
TreeIsGone == Inside = {} /\ faults.crashes = 0 => ~exists

\* So it is where every run entered.
EnteredTreeIsGone == faults.failures = 0 => TreeIsGone
=============================================================================
