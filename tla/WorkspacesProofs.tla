-------------------------- MODULE WorkspacesProofs --------------------------
(***************************************************************************)
(* Proofs about Workspaces, for any threads of a project, any edits, and   *)
(* any number of failed forks and saves and of deaths of the process.      *)
(***************************************************************************)
EXTENDS Workspaces, TLAPS

-----------------------------------------------------------------------------
(* The invariant.                                                          *)

\* The work that must be somewhere.
Due(x) == wrote[x] \ risked
Written == UNION {wrote[x] : x \in Threads}

\* Nothing is in a tree or a ref that nobody wrote.
Known ==
  /\ \A x \in Threads : /\ tree[x].work \subseteq Written
                        /\ UNION tree[x].pushed \subseteq Written
                        /\ UNION mirror[x] \subseteq Written
  /\ \A u \in Threads : turn[u].snap \subseteq Written

\* What follows a save agrees with where the turn is; who carries its work goes
\* on elsewhere.
Bent(u, q) ==
  /\ q.pc \in {"preparing", "forking", "landed", "in"} => q.then = "end"
  /\ q.pc \in {"releasing", "removing"} => q.then = "dismiss"
  /\ q.pc = "out" => q.then = "end" /\ q.in = u
  /\ q.pc \in {"moving", "filing"} => q.then # "dismiss"
  /\ q.then = "carry" => q.dest # u
  /\ q.pc = "filing" => q.then = "carry"
Bents ==
  \A u \in Threads : Bent(u, turn[u]) /\ (turn[u].pc # "out" => u \in bound)

\* The gateway drives one run of a thread at a time.
Drives(u, q) ==
  \/ q.pc \in {"in", "releasing", "removing"} \/ q.then = "dismiss"
  \/ q.pc \in {"preparing", "forking"} /\ q.in = u
Alone ==
  \A u, v \in Threads :
    Drives(u, turn[u]) /\ Drives(v, turn[v]) /\ turn[u].in = turn[v].in => u = v

\* Who is between taking a thread's lock and giving it back has it.
Holds(q) == q.pc \in {"forking", "pushing", "marking", "removing"}
Locked ==
  /\ \A u \in Threads : Holds(turn[u]) => lock[turn[u].in] = u
  /\ sweep.pc = "removing" => lock[sweep.on] = Sweep

\* What the holder of a lock knows of the tree.
Meets(q, at) ==
  /\ q.pc = "forking" => at = "none"
  /\ q.pc \in {"pushing", "marking"} => at \in {"whole", "torn", "gutted"}
  /\ q.pc = "removing" => at \in {"none", "going"}
Stood ==
  /\ \A u \in Threads : Meets(turn[u], tree[turn[u].in].at)
  /\ sweep.pc = "removing" => tree[sweep.on].at \in {"none", "going"}

\* A tree that is going has somebody removing it.
InRemoval(x) ==
  \/ sweep.pc = "removing" /\ sweep.on = x
  \/ \E u \in Threads : turn[u].pc = "removing" /\ turn[u].in = x
Gone == \A x \in Threads : tree[x].at = "going" => InRemoval(x)

\* Where a tree w and a ref m leave the work that is due: a whole tree has all of
\* it, and has recorded as pushed nothing that the mirror lacks.
Kept(w, m, due) ==
  /\ w.at \in {"none", "going"} => due \subseteq UNION m
  /\ w.at \in {"torn", "gutted"} => due = {}
  /\ w.at = "whole" => due \subseteq w.work /\ due \cap UNION w.pushed \subseteq UNION m

\* A snapshot on its way takes nothing back.
Snapped(q, w, m, due) ==
  /\ q.pc \in {"pushing", "marking"} /\ w.at = "whole" => due \cap UNION w.pushed \subseteq q.snap
  /\ q.pc = "marking" => due \cap q.snap \subseteq UNION m

\* A tree that is about to go has been pushed, all that is due of it.
Ready(w, due) == w.at = "whole" => due \subseteq UNION w.pushed

Work ==
  /\ \A x \in Threads : Kept(tree[x], mirror[x], Due(x))
  /\ \A u \in Threads :
       /\ Snapped(turn[u], tree[turn[u].in], mirror[turn[u].in], Due(turn[u].in))
       /\ turn[u].pc = "releasing" => Ready(tree[turn[u].in], Due(turn[u].in))
  /\ sweep.pc = "releasing" => Ready(tree[sweep.on], Due(sweep.on))

WInv == TypeOK /\ Known /\ Bents /\ Alone /\ Locked /\ Stood /\ Gone /\ Work

-----------------------------------------------------------------------------
(* One turn moves, the trees and the mirror stay.                          *)

LEMMA TurnMoves ==
  ASSUME TypeOK, NEW t \in Threads, NEW q \in Turn, Become(t, q)
  PROVE  /\ turn' \in [Threads -> Turn]
         /\ turn'[t] = q
         /\ \A u \in Threads \ {t} : turn'[u] = turn[u]
BY DEF TypeOK, Become

LEMMA AloneMoves ==
  ASSUME TypeOK, Alone, NEW t \in Threads, NEW q \in Turn, Become(t, q),
         Drives(t, q) => \/ Drives(t, turn[t]) /\ q.in = turn[t].in
                         \/ Free(t, q.in)
  PROVE  Alone'
<1>1. SUFFICES ASSUME NEW u \in Threads, NEW v \in Threads, u # v,
                      Drives(u, turn'[u]), Drives(v, turn'[v]), turn'[u].in = turn'[v].in
               PROVE  FALSE
  BY DEF Alone
<1>2. /\ turn'[t] = q
      /\ \A x \in Threads \ {t} : turn'[x] = turn[x]
  BY TurnMoves
<1>3. \A x \in Threads : Driven(x) <=> Drives(x, turn[x])
  BY DEF Driven, Drives
<1>4. CASE t \notin {u, v}
  BY <1>1, <1>2, <1>4 DEF Alone
<1>5. ASSUME NEW x \in Threads \ {t}, Drives(x, turn[x]), Drives(t, q), turn[x].in = q.in
      PROVE  FALSE
  BY <1>3, <1>5 DEF Alone, Free
<1> QED
  BY <1>1, <1>2, <1>4, <1>5

LEMMA BentMoves ==
  ASSUME TypeOK, Bents, NEW t \in Threads, NEW q \in Turn, Become(t, q),
         bound \subseteq bound', Bent(t, q), q.pc # "out" => t \in bound'
  PROVE  Bents'
BY TurnMoves DEF Bents

LEMMA LockStays ==
  ASSUME TypeOK, Locked, NEW t \in Threads, NEW q \in Turn, Become(t, q),
         lock' = lock, sweep' = sweep,
         Holds(q) => Holds(turn[t]) /\ q.in = turn[t].in
  PROVE  Locked'
BY TurnMoves DEF Locked

LEMMA LockTaken ==
  ASSUME TypeOK, Locked, NEW t \in Threads, NEW q \in Turn, Become(t, q),
         Lock(q.in, t), sweep' = sweep
  PROVE  Locked'
<1>1. /\ lock'[q.in] = t
      /\ \A x \in Threads \ {q.in} : lock'[x] = lock[x]
      /\ lock[q.in] = Nobody
  BY DEF Lock, TypeOK, Turn
<1>2. \A u \in Threads : turn[u].in \in Threads
  BY DEF TypeOK, Turn
<1>3. sweep.on \in Threads /\ q.in \in Threads
  BY DEF TypeOK, Turn
<1>4. Nobody \notin Threads /\ Nobody # Sweep
  BY HoldersAreDistinct
<1>5. ASSUME NEW u \in Threads, Holds(turn'[u])
      PROVE  lock'[turn'[u].in] = u
  <2>1. CASE u = t
    BY <2>1, <1>1, TurnMoves
  <2>2. CASE u # t
    <3>1. turn'[u] = turn[u]
      BY <2>2, TurnMoves
    <3>2. lock[turn[u].in] = u
      BY <3>1, <1>5 DEF Locked
    <3> QED
      BY <3>1, <3>2, <1>1, <1>2, <1>4
  <2> QED
    BY <2>1, <2>2
<1>6. sweep'.pc = "removing" => lock'[sweep'.on] = Sweep
  BY <1>1, <1>3, <1>4 DEF Locked
<1> QED
  BY <1>5, <1>6 DEF Locked

LEMMA LockGiven ==
  ASSUME TypeOK, Locked, NEW t \in Threads, NEW q \in Turn, Become(t, q),
         Unlock(turn[t].in), Holds(turn[t]), ~Holds(q), sweep' = sweep
  PROVE  Locked'
<1>1. turn[t].in \in Threads /\ sweep.on \in Threads
  BY DEF TypeOK, Turn
<1>2. \A x \in Threads \ {turn[t].in} : lock'[x] = lock[x]
  BY DEF Unlock, TypeOK
<1>3. lock[turn[t].in] = t /\ t # Sweep
  BY HoldersAreDistinct DEF Locked
<1>4. \A u \in Threads : turn[u].in \in Threads
  BY DEF TypeOK, Turn
<1> QED
  BY <1>1, <1>2, <1>3, <1>4, TurnMoves DEF Locked

\* The lock stays, is taken, or is given back.
Locks(t, q) ==
  \/ lock' = lock /\ (Holds(q) => Holds(turn[t]) /\ q.in = turn[t].in)
  \/ Lock(q.in, t)
  \/ Unlock(turn[t].in) /\ Holds(turn[t]) /\ ~Holds(q)

LEMMA LocksKeep ==
  ASSUME TypeOK, Locked, NEW t \in Threads, NEW q \in Turn, Become(t, q),
         Locks(t, q), sweep' = sweep
  PROVE  Locked' /\ lock' \in [Threads -> Threads \cup {Sweep, Nobody}]
<1>1. Locked'
  BY LockStays, LockTaken, LockGiven DEF Locks
<1>2. lock' \in [Threads -> Threads \cup {Sweep, Nobody}]
  BY DEF Locks, Lock, Unlock, TypeOK
<1> QED
  BY <1>1, <1>2

\* What a step of a turn must bring where trees, mirror and histories stay.
Moved(t, q) ==
  /\ Bent(t, q) /\ (q.pc # "out" => t \in bound')
  /\ Drives(t, q) => \/ Drives(t, turn[t]) /\ q.in = turn[t].in
                     \/ Free(t, q.in)
  /\ Locks(t, q)
  /\ q.snap \subseteq Written
  /\ turn[t].pc # "removing" /\ Meets(q, tree[q.in].at)
  /\ Snapped(q, tree[q.in], mirror[q.in], Due(q.in))
  /\ q.pc = "releasing" => Ready(tree[q.in], Due(q.in))

LEMMA MovedKeeps ==
  ASSUME WInv, NEW t \in Threads, NEW q \in Turn, Become(t, q), Moved(t, q),
         UNCHANGED <<tree, mirror, sweep, wrote, risked>>,
         bound \subseteq bound', bound' \subseteq Threads,
         idle' \in [Threads -> BOOLEAN],
         faults' \in [failures : 0 .. MaxFailures, crashes : 0 .. MaxCrashes]
  PROVE  WInv'
<1>1. TypeOK /\ Known /\ Bents /\ Alone /\ Locked /\ Stood /\ Gone /\ Work
  BY DEF WInv
<1>2. /\ turn' \in [Threads -> Turn] /\ turn'[t] = q
      /\ \A u \in Threads \ {t} : turn'[u] = turn[u]
  BY <1>1, TurnMoves
<1>3. TypeOK'
  BY <1>1, <1>2, LocksKeep DEF TypeOK, Moved
<1>4. Known'
  <2>1. q.snap \subseteq Written /\ Written' = Written
    BY DEF Moved, Written
  <2>2. \A u \in Threads : turn'[u].snap \subseteq Written
    BY <1>1, <1>2, <2>1 DEF Known
  <2> QED
    BY <1>1, <2>1, <2>2 DEF Known
<1>5. Bents' /\ Alone' /\ Locked'
  BY <1>1, BentMoves, AloneMoves, LocksKeep DEF Moved
<1>6. Stood'
  BY <1>1, <1>2 DEF Stood, Moved
<1>7. Gone'
  BY <1>1, <1>2 DEF Gone, InRemoval, Moved
<1>8. Work'
  <2>1. \A x \in Threads : Due(x)' = Due(x)
    BY DEF Due
  <2>2. \A x \in Threads : Kept(tree[x], mirror[x], Due(x))'
    BY <1>1, <2>1 DEF Work, Kept
  <2>3. ASSUME NEW u \in Threads
        PROVE  /\ Snapped(turn[u], tree[turn[u].in], mirror[turn[u].in], Due(turn[u].in))'
               /\ turn'[u].pc = "releasing" => Ready(tree[turn[u].in], Due(turn[u].in))'
    <3>1. CASE u = t
      BY <3>1, <1>2 DEF Moved, Snapped, Ready, Due
    <3>2. CASE u # t
      BY <3>2, <1>1, <1>2 DEF Work, Snapped, Ready, Due
    <3> QED
      BY <3>1, <3>2
  <2>4. sweep'.pc = "releasing" => Ready(tree[sweep.on], Due(sweep.on))'
    BY <1>1 DEF Work, Ready, Due
  <2> QED
    BY <2>2, <2>3, <2>4 DEF Work
<1> QED
  BY <1>3, <1>4, <1>5, <1>6, <1>7, <1>8 DEF WInv

-----------------------------------------------------------------------------
(* The steps of a turn that leave trees, mirror and histories alone.       *)

\* What every step starts from.
LEMMA Given ==
  ASSUME WInv, NEW t \in Threads
  PROVE  /\ turn[t] \in Turn /\ turn[t].in \in Threads
         /\ Bent(t, turn[t]) /\ (turn[t].pc # "out" => t \in bound)
         /\ turn[t].snap \subseteq Written
         /\ Holds(turn[t]) => lock[turn[t].in] = t
         /\ Meets(turn[t], tree[turn[t].in].at)
         /\ Kept(tree[turn[t].in], mirror[turn[t].in], Due(turn[t].in))
         /\ Snapped(turn[t], tree[turn[t].in], mirror[turn[t].in], Due(turn[t].in))
         /\ turn[t].pc = "releasing" => Ready(tree[turn[t].in], Due(turn[t].in))
<1>1. turn[t] \in Turn /\ turn[t].in \in Threads
  BY DEF WInv, TypeOK, Turn
<1> QED
  BY <1>1 DEF WInv, Bents, Known, Locked, Stood, Work

LEMMA GivenTypes ==
  ASSUME WInv
  PROVE  /\ bound \subseteq Threads
         /\ idle \in [Threads -> BOOLEAN]
         /\ lock \in [Threads -> Threads \cup {Sweep, Nobody}]
         /\ faults \in [failures : 0 .. MaxFailures, crashes : 0 .. MaxCrashes]
BY DEF WInv, TypeOK

LEMMA OutIsTurn ==
  ASSUME NEW t \in Threads
  PROVE  /\ Out(t) \in Turn /\ Out(t).pc = "out" /\ Out(t).in = t
         /\ Out(t).snap = {} /\ Out(t).then = "end"
BY DEF Out, Turn

Pcs == {"out", "preparing", "forking", "landed", "in", "saving", "pushing", "marking",
        "saved", "moving", "filing", "releasing", "removing"}
Thens == {"end", "dismiss", "move", "carry"}

\* The turn with another pc.
LEMMA AtPc ==
  ASSUME NEW r \in Turn,
         NEW pc \in Pcs
  PROVE  /\ [r EXCEPT !.pc = pc] \in Turn
         /\ [r EXCEPT !.pc = pc].pc = pc
         /\ [r EXCEPT !.pc = pc].in = r.in
         /\ [r EXCEPT !.pc = pc].snap = r.snap
         /\ [r EXCEPT !.pc = pc].then = r.then
         /\ [r EXCEPT !.pc = pc].dest = r.dest
BY DEF Turn, Pcs

\* The turn with another pc, and something else to follow.
GoingTo(r, pc, then) == [r EXCEPT !.pc = pc, !.then = then]

LEMMA AtPcThen ==
  ASSUME NEW r \in Turn,
         NEW pc \in Pcs,
         NEW then \in Thens
  PROVE  /\ GoingTo(r, pc, then) \in Turn
         /\ GoingTo(r, pc, then).pc = pc
         /\ GoingTo(r, pc, then).in = r.in
         /\ GoingTo(r, pc, then).snap = r.snap
         /\ GoingTo(r, pc, then).then = then
         /\ GoingTo(r, pc, then).dest = r.dest
BY DEF Turn, Pcs, Thens, GoingTo

\* The turn once its work has somewhere to go.
Carries(r, d, left) ==
  [r EXCEPT !.pc = "saving", !.then = "carry", !.dest = d, !.left = left]

LEMMA AtCarry ==
  ASSUME NEW r \in Turn, NEW d \in Threads, NEW left \in SUBSET Edits
  PROVE  /\ Carries(r, d, left) \in Turn
         /\ Carries(r, d, left).pc = "saving"
         /\ Carries(r, d, left).in = r.in
         /\ Carries(r, d, left).snap = r.snap
         /\ Carries(r, d, left).then = "carry"
         /\ Carries(r, d, left).dest = d
BY DEF Turn, Carries

LEMMA FailsIsTyped ==
  ASSUME WInv, Fails
  PROVE  faults' \in [failures : 0 .. MaxFailures, crashes : 0 .. MaxCrashes]
BY FailuresAreBounded, GivenTypes DEF Fails

\* A step to a pc at which the turn needs nothing of a tree.
Light(q) == q.pc \notin {"forking", "pushing", "marking", "removing", "releasing"}

LEMMA LightIsMoved ==
  ASSUME NEW t \in Threads, NEW q \in Turn, Light(q),
         Bent(t, q), q.pc # "out" => t \in bound',
         Drives(t, q) => \/ Drives(t, turn[t]) /\ q.in = turn[t].in
                         \/ Free(t, q.in),
         \/ lock' = lock
         \/ Unlock(turn[t].in) /\ Holds(turn[t]),
         q.snap \subseteq Written, turn[t].pc # "removing"
  PROVE  Moved(t, q)
<1>1. Locks(t, q)
  BY DEF Locks, Holds, Light
<1>2. Meets(q, tree[q.in].at)
  BY DEF Meets, Light
<1>3. Snapped(q, tree[q.in], mirror[q.in], Due(q.in))
  BY DEF Snapped, Light
<1>4. q.pc # "releasing"
  BY DEF Light
<1> QED
  BY <1>1, <1>2, <1>3, <1>4 DEF Moved

LEMMA BeginKeeps == ASSUME WInv, NEW t \in Threads, Begin(t) PROVE WInv'
<1> DEFINE q == [turn[t] EXCEPT !.pc = "preparing"]
<1>1. /\ q \in Turn /\ q.pc = "preparing" /\ q.in = turn[t].in
      /\ q.snap = turn[t].snap /\ q.then = turn[t].then /\ q.dest = turn[t].dest
  <2>1. turn[t] \in Turn
    BY Given
  <2>2. "preparing" \in Pcs
    BY DEF Pcs
  <2> QED
    BY <2>1, <2>2, AtPc
<1>2. Become(t, q)
  BY DEF Begin, Goto
<1> HIDE DEF q
<1>3. Bent(t, q) /\ q.in = t
  BY <1>1, Given DEF Begin, Bent
<1>4. Moved(t, q)
  BY <1>1, <1>3, Given, LightIsMoved DEF Begin, Light
<1> QED
  BY <1>1, <1>2, <1>4, MovedKeeps, GivenTypes DEF Begin

\* prepare ends.
LEMMA PreparedIs ==
  ASSUME WInv, NEW t \in Threads, Prepared(t), turn[t].pc \in {"preparing", "forking"}
  PROVE  \E q \in Turn :
           /\ Become(t, q) /\ Bent(t, q) /\ q.in = turn[t].in /\ q.snap = turn[t].snap
           /\ q.pc \in {"in", "landed"}
           /\ Drives(t, q) => Drives(t, turn[t])
<1> DEFINE pc == IF turn[t].in = t THEN "in" ELSE "landed"
           q == [turn[t] EXCEPT !.pc = pc]
<1>0. pc \in Pcs /\ pc \in {"in", "landed"} /\ (pc = "in" => turn[t].in = t)
  BY DEF Pcs
<1>2. Become(t, q)
  BY DEF Prepared, Goto
<1>9. turn[t] \in Turn
  BY Given
<1> HIDE DEF pc
<1>1. /\ q \in Turn /\ q.pc = pc /\ q.in = turn[t].in
      /\ q.snap = turn[t].snap /\ q.then = turn[t].then /\ q.dest = turn[t].dest
  BY <1>0, <1>9, AtPc
<1> HIDE DEF q
<1>5. Bent(t, q)
  BY <1>0, <1>1, Given DEF Bent
<1>6. Drives(t, q) => Drives(t, turn[t])
  BY <1>0, <1>1, <1>5 DEF Drives, Bent
<1> QED
  BY <1>0, <1>1, <1>2, <1>5, <1>6

LEMMA ExistingKeeps == ASSUME WInv, NEW t \in Threads, Existing(t) PROVE WInv'
<1>1. PICK q \in Turn :
        /\ Become(t, q) /\ Bent(t, q) /\ q.in = turn[t].in /\ q.snap = turn[t].snap
        /\ q.pc \in {"in", "landed"}
        /\ Drives(t, q) => Drives(t, turn[t])
  BY PreparedIs DEF Existing
<1>2. Moved(t, q)
  BY <1>1, Given, LightIsMoved DEF Existing, Light
<1>3. idle' \in [Threads -> BOOLEAN]
  BY GivenTypes DEF Existing
<1> QED
  BY <1>1, <1>2, <1>3, MovedKeeps, GivenTypes DEF Existing

LEMMA MaterializeKeeps == ASSUME WInv, NEW t \in Threads, Materialize(t) PROVE WInv'
<1> DEFINE q == [turn[t] EXCEPT !.pc = "forking"]
<1>1. /\ q \in Turn /\ q.pc = "forking" /\ q.in = turn[t].in
      /\ q.snap = turn[t].snap /\ q.then = turn[t].then /\ q.dest = turn[t].dest
  <2>1. turn[t] \in Turn
    BY Given
  <2>2. "forking" \in Pcs
    BY DEF Pcs
  <2> QED
    BY <2>1, <2>2, AtPc
<1>2. Become(t, q)
  BY DEF Materialize, Goto
<1> HIDE DEF q
<1>3. Bent(t, q) /\ t \in bound'
  BY <1>1, Given DEF Materialize, Bent
<1>4. Drives(t, q) => Drives(t, turn[t])
  BY <1>1 DEF Materialize, Drives
<1>5. Locks(t, q)
  BY <1>1 DEF Materialize, Locks
<1>6. Meets(q, tree[q.in].at) /\ turn[t].pc # "removing"
  BY <1>1 DEF Materialize, Meets, Here
<1>7. Snapped(q, tree[q.in], mirror[q.in], Due(q.in))
  BY <1>1 DEF Snapped
<1>8. Moved(t, q)
  BY <1>1, <1>3, <1>4, <1>5, <1>6, <1>7, Given DEF Moved
<1> QED
  BY <1>1, <1>2, <1>8, MovedKeeps, GivenTypes DEF Materialize

LEMMA ForkFailsKeeps == ASSUME WInv, NEW t \in Threads, ForkFails(t) PROVE WInv'
<1> DEFINE q == [turn[t] EXCEPT !.pc = "saving"]
<1>1. /\ q \in Turn /\ q.pc = "saving" /\ q.in = turn[t].in
      /\ q.snap = turn[t].snap /\ q.then = turn[t].then /\ q.dest = turn[t].dest
  <2>1. turn[t] \in Turn
    BY Given
  <2>2. "saving" \in Pcs
    BY DEF Pcs
  <2> QED
    BY <2>1, <2>2, AtPc
<1>2. Become(t, q)
  BY DEF ForkFails, Goto
<1> HIDE DEF q
<1>3. Bent(t, q) /\ ~Drives(t, q)
  BY <1>1, Given DEF ForkFails, Bent, Drives
<1>4. Moved(t, q)
  BY <1>1, <1>3, Given, LightIsMoved DEF ForkFails, Light, Holds
<1> QED
  BY <1>1, <1>2, <1>4, MovedKeeps, GivenTypes, FailsIsTyped DEF ForkFails

LEMMA LandKeeps == ASSUME WInv, NEW t \in Threads, Land(t) PROVE WInv'
<1> DEFINE pc == IF Free(t, turn[t].in) THEN "in" ELSE "saving"
           q == [turn[t] EXCEPT !.pc = pc]
<1>2. Become(t, q)
  BY DEF Land, Goto
<1>3. (pc = "in" /\ Free(t, turn[t].in)) \/ pc = "saving"
  OBVIOUS
<1>0. turn[t] \in Turn /\ pc \in Pcs
  BY <1>3, Given DEF Pcs
<1> HIDE DEF pc
<1>1. /\ q \in Turn /\ q.pc = pc /\ q.in = turn[t].in
      /\ q.snap = turn[t].snap /\ q.then = turn[t].then /\ q.dest = turn[t].dest
  BY <1>0, AtPc
<1> HIDE DEF q
<1>4. Bent(t, q)
  BY <1>1, <1>3, Given DEF Land, Bent
<1>5. Drives(t, q) => Free(t, q.in)
  BY <1>1, <1>3, Given DEF Land, Bent, Drives
<1>6. Moved(t, q)
  BY <1>1, <1>3, <1>4, <1>5, Given, LightIsMoved DEF Land, Light
<1> QED
  BY <1>1, <1>2, <1>6, MovedKeeps, GivenTypes DEF Land

LEMMA EndKeeps == ASSUME WInv, NEW t \in Threads, End(t) PROVE WInv'
<1>1. PICK then \in {"end", "dismiss", "move"} :
        Become(t, GoingTo(turn[t], "saving", then))
  BY DEF End, GoingTo
<1> DEFINE q == GoingTo(turn[t], "saving", then)
<1>0. turn[t] \in Turn /\ "saving" \in Pcs /\ then \in Thens
  BY Given DEF Pcs, Thens
<1>2. /\ q \in Turn /\ q.pc = "saving" /\ q.in = turn[t].in
      /\ q.snap = turn[t].snap /\ q.then = then /\ q.dest = turn[t].dest
  BY <1>0, AtPcThen
<1> HIDE DEF q
<1>3. Bent(t, q)
  BY <1>2 DEF Bent
<1>4. Drives(t, turn[t])
  BY DEF End, Drives
<1>5. Moved(t, q)
  BY <1>2, <1>3, <1>4, Given, LightIsMoved DEF End, Light
<1>6. Become(t, q)
  BY <1>1 DEF q
<1> QED
  BY <1>2, <1>5, <1>6, MovedKeeps, GivenTypes DEF End

LEMMA MoveKeeps == ASSUME WInv, NEW t \in Threads, NEW d \in Threads, Move(t, d) PROVE WInv'
<1> DEFINE carried == IF Here(t) THEN tree[t].work ELSE UNION mirror[t]
           q == Carries(turn[t], d, carried)
<1>1. carried \subseteq Edits
  BY DEF WInv, TypeOK, Tree, Ref
<1>0. turn[t] \in Turn
  BY Given
<1> HIDE DEF carried
<1>2. /\ q \in Turn /\ q.pc = "saving" /\ q.in = turn[t].in
      /\ q.snap = turn[t].snap /\ q.then = "carry" /\ q.dest = d
  BY <1>0, <1>1, AtCarry
<1>3. Become(t, q)
  BY DEF Move, carried, Carries
<1> HIDE DEF q
<1>4. t \in bound /\ d # t
  BY Given DEF Move
<1>5. Bent(t, q) /\ ~Drives(t, q)
  BY <1>2, <1>4 DEF Bent, Drives
<1>6. Moved(t, q)
  BY <1>2, <1>4, <1>5, Given, LightIsMoved DEF Move, Light
<1> QED
  BY <1>2, <1>3, <1>6, MovedKeeps, GivenTypes DEF Move

LEMMA StayKeeps == ASSUME WInv, NEW t \in Threads, Stay(t) PROVE WInv'
<1>1. Become(t, Out(t))
  BY DEF Stay
<1>2. Bent(t, Out(t)) /\ ~Drives(t, Out(t)) /\ Light(Out(t))
  BY OutIsTurn DEF Bent, Drives, Light
<1>3. Moved(t, Out(t))
  BY <1>2, OutIsTurn, LightIsMoved DEF Stay
<1> QED
  BY <1>1, <1>3, OutIsTurn, MovedKeeps, GivenTypes DEF Stay

\* A tree nobody holds is not going.
LEMMA FreeStands ==
  ASSUME WInv, NEW x \in Threads, lock[x] = Nobody
  PROVE  tree[x].at # "going"
<1>1. SUFFICES ASSUME tree[x].at = "going" PROVE FALSE
  OBVIOUS
<1>2. CASE sweep.pc = "removing" /\ sweep.on = x
  BY <1>2, HoldersAreDistinct DEF WInv, Locked
<1>3. CASE \E u \in Threads : turn[u].pc = "removing" /\ turn[u].in = x
  <2>1. PICK u \in Threads : turn[u].pc = "removing" /\ turn[u].in = x
    BY <1>3
  <2>2. lock[x] = u
    BY <2>1 DEF WInv, Locked, Holds
  <2> QED
    BY <2>2, HoldersAreDistinct
<1> QED
  BY <1>1, <1>2, <1>3 DEF WInv, Gone, InRemoval

LEMMA TreeIs ==
  ASSUME WInv, NEW x \in Threads
  PROVE  /\ tree[x] \in Tree
         /\ tree[x].at \in {"none", "whole", "going", "torn", "gutted"}
         /\ tree[x].work \in SUBSET Edits /\ tree[x].pushed \in Ref
         /\ mirror[x] \in Ref
         /\ wrote[x] \in SUBSET Edits
         /\ tree[x].work \subseteq Written
         /\ UNION tree[x].pushed \subseteq Written /\ UNION mirror[x] \subseteq Written
         /\ Kept(tree[x], mirror[x], Due(x))
BY DEF WInv, TypeOK, Tree, Known, Work

\* The turn with a snapshot in its hands.
Snaps(r, snap) == [r EXCEPT !.pc = "pushing", !.snap = snap]

LEMMA AtPush ==
  ASSUME NEW r \in Turn, NEW snap \in SUBSET Edits
  PROVE  /\ Snaps(r, snap) \in Turn
         /\ Snaps(r, snap).pc = "pushing"
         /\ Snaps(r, snap).in = r.in
         /\ Snaps(r, snap).snap = snap
         /\ Snaps(r, snap).then = r.then
         /\ Snaps(r, snap).dest = r.dest
BY DEF Turn, Snaps

LEMMA SaveKeeps == ASSUME WInv, NEW t \in Threads, Save(t) PROVE WInv'
<1> DEFINE in == turn[t].in
<1>1. turn[t] \in Turn /\ in \in Threads
  BY Given
<1>2. CASE tree[in].at \notin {"none", "gutted"}
  <2> DEFINE q == Snaps(turn[t], tree[in].work)
  <2>1. /\ q \in Turn /\ q.pc = "pushing" /\ q.in = in /\ q.snap = tree[in].work
        /\ q.then = turn[t].then /\ q.dest = turn[t].dest
    BY <1>1, TreeIs, AtPush
  <2>2. Become(t, q) /\ Lock(in, t)
    BY <1>2 DEF Save, Snaps
  <2> HIDE DEF q
  <2>3. Bent(t, q) /\ t \in bound'
    BY <2>1, Given DEF Save, Bent
  <2>4. Drives(t, q) => Drives(t, turn[t])
    BY <2>1 DEF Drives
  <2>5. Locks(t, q)
    BY <2>1, <2>2 DEF Locks
  <2>6. tree[in].at \in {"whole", "torn"}
    <3>1. lock[in] = Nobody
      BY <2>2 DEF Lock
    <3> QED
      BY <1>1, <1>2, <3>1, FreeStands, TreeIs
  <2>7. Meets(q, tree[q.in].at)
    BY <2>1, <2>6 DEF Meets
  <2>8. Snapped(q, tree[q.in], mirror[q.in], Due(q.in))
    <3>1. Kept(tree[in], mirror[in], Due(in))
      BY <1>1, TreeIs
    <3> QED
      BY <2>1, <3>1 DEF Kept, Snapped
  <2>9. q.snap \subseteq Written
    BY <1>1, <2>1, TreeIs
  <2>10. Moved(t, q)
    BY <2>1, <2>3, <2>4, <2>5, <2>7, <2>8, <2>9 DEF Moved, Save
  <2> QED
    BY <2>1, <2>2, <2>10, MovedKeeps, GivenTypes DEF Save
<1>3. CASE tree[in].at \in {"none", "gutted"}
  <2> DEFINE q == [turn[t] EXCEPT !.pc = "saved"]
  <2>1. /\ q \in Turn /\ q.pc = "saved" /\ q.in = turn[t].in
        /\ q.snap = turn[t].snap /\ q.then = turn[t].then /\ q.dest = turn[t].dest
    <3>1. turn[t] \in Turn
      BY Given
    <3>2. "saved" \in Pcs
      BY DEF Pcs
    <3> QED
      BY <3>1, <3>2, AtPc
  <2>2. Become(t, q) /\ lock' = lock
    BY <1>3 DEF Save, Goto
  <2> HIDE DEF q
  <2>3. Bent(t, q) /\ t \in bound'
    BY <2>1, Given DEF Save, Bent
  <2>4. Drives(t, q) => Drives(t, turn[t])
    BY <2>1 DEF Drives
  <2>5. Moved(t, q)
    BY <2>1, <2>2, <2>3, <2>4, Given, LightIsMoved DEF Save, Light
  <2> QED
    BY <2>1, <2>2, <2>5, MovedKeeps, GivenTypes DEF Save
<1> QED
  BY <1>2, <1>3

LEMMA SaveFailsKeeps == ASSUME WInv, NEW t \in Threads, SaveFails(t) PROVE WInv'
<1> DEFINE q == [turn[t] EXCEPT !.pc = "saved"]
<1>1. /\ q \in Turn /\ q.pc = "saved" /\ q.in = turn[t].in
      /\ q.snap = turn[t].snap /\ q.then = turn[t].then /\ q.dest = turn[t].dest
  <2>1. turn[t] \in Turn
    BY Given
  <2>2. "saved" \in Pcs
    BY DEF Pcs
  <2> QED
    BY <2>1, <2>2, AtPc
<1>2. Become(t, q)
  BY DEF SaveFails, Goto
<1> HIDE DEF q
<1>3. Bent(t, q) /\ t \in bound'
  BY <1>1, Given DEF SaveFails, Bent
<1>4. Drives(t, q) => Drives(t, turn[t])
  BY <1>1 DEF Drives
<1>5. Moved(t, q)
  BY <1>1, <1>3, <1>4, Given, LightIsMoved DEF SaveFails, Light, Holds
<1> QED
  BY <1>1, <1>2, <1>5, MovedKeeps, GivenTypes, FailsIsTyped DEF SaveFails

LEMMA AfterSaveKeeps == ASSUME WInv, NEW t \in Threads, AfterSave(t) PROVE WInv'
<1>1. turn[t] \in Turn /\ turn[t].in \in Threads /\ turn[t].pc = "saved" /\ t \in bound
      /\ turn[t].then \in {"end", "move", "carry", "dismiss"} /\ Bent(t, turn[t])
      /\ turn[t].snap \subseteq Written
  BY Given DEF AfterSave, Turn
<1>2. /\ lock' = lock /\ bound' = bound /\ UNCHANGED <<tree, mirror, sweep, wrote, risked>>
      /\ idle' \in [Threads -> BOOLEAN]
      /\ faults' \in [failures : 0 .. MaxFailures, crashes : 0 .. MaxCrashes]
      /\ bound' \subseteq Threads
  BY GivenTypes DEF AfterSave
<1>3. ASSUME NEW q \in Turn, Become(t, q), Light(q), q.snap \subseteq Written, Bent(t, q),
             Drives(t, q) => Drives(t, turn[t]) /\ q.in = turn[t].in
      PROVE  WInv'
  <2>1. Moved(t, q)
    BY <1>1, <1>2, <1>3, LightIsMoved
  <2> QED
    BY <1>2, <1>3, <2>1, MovedKeeps
<1>4. CASE turn[t].then = "end"
  <2>1. Become(t, Out(t))
    BY <1>4 DEF AfterSave
  <2>2. Bent(t, Out(t)) /\ ~Drives(t, Out(t)) /\ Light(Out(t)) /\ Out(t).snap \subseteq Written
    BY OutIsTurn DEF Bent, Drives, Light
  <2> QED
    BY <1>3, <2>1, <2>2, OutIsTurn
<1>5. CASE turn[t].then = "move"
  <2> DEFINE q == [turn[t] EXCEPT !.pc = "moving"]
  <2>1. /\ q \in Turn /\ q.pc = "moving" /\ q.in = turn[t].in
        /\ q.snap = turn[t].snap /\ q.then = turn[t].then /\ q.dest = turn[t].dest
    <3>1. turn[t] \in Turn
      BY <1>1
    <3>2. "moving" \in Pcs
      BY DEF Pcs
    <3> QED
      BY <3>1, <3>2, AtPc
  <2>2. Become(t, q)
    BY <1>5 DEF AfterSave
  <2> HIDE DEF q
  <2>3. Bent(t, q) /\ ~Drives(t, q) /\ Light(q)
    BY <1>1, <1>5, <2>1 DEF Bent, Drives, Light
  <2> QED
    BY <1>1, <1>3, <2>1, <2>2, <2>3
<1>6. CASE turn[t].then = "carry"
  <2> DEFINE q == [turn[t] EXCEPT !.pc = "filing"]
  <2>1. /\ q \in Turn /\ q.pc = "filing" /\ q.in = turn[t].in
        /\ q.snap = turn[t].snap /\ q.then = turn[t].then /\ q.dest = turn[t].dest
    <3>1. turn[t] \in Turn
      BY <1>1
    <3>2. "filing" \in Pcs
      BY DEF Pcs
    <3> QED
      BY <3>1, <3>2, AtPc
  <2>2. Become(t, q)
    BY <1>6 DEF AfterSave
  <2> HIDE DEF q
  <2>3. Bent(t, q) /\ ~Drives(t, q) /\ Light(q)
    BY <1>1, <1>6, <2>1 DEF Bent, Drives, Light
  <2> QED
    BY <1>1, <1>3, <2>1, <2>2, <2>3
<1>7. CASE turn[t].then = "dismiss" /\ ~Saved(turn[t].in)
  <2> DEFINE q == GoingTo(turn[t], "saving", "end")
  <2>1. "saving" \in Pcs /\ "end" \in Thens
    BY DEF Pcs, Thens
  <2>2. /\ q \in Turn /\ q.pc = "saving" /\ q.in = turn[t].in
        /\ q.snap = turn[t].snap /\ q.then = "end" /\ q.dest = turn[t].dest
    BY <1>1, <2>1, AtPcThen
  <2>3. Become(t, q)
    BY <1>7 DEF AfterSave, GoingTo
  <2> HIDE DEF q
  <2>4. Bent(t, q) /\ ~Drives(t, q) /\ Light(q)
    BY <1>1, <2>2 DEF Bent, Drives, Light
  <2> QED
    BY <1>1, <1>3, <2>2, <2>3, <2>4
<1>8. CASE turn[t].then = "dismiss" /\ Saved(turn[t].in)
  <2> DEFINE q == [turn[t] EXCEPT !.pc = "releasing"]
  <2>1. /\ q \in Turn /\ q.pc = "releasing" /\ q.in = turn[t].in
        /\ q.snap = turn[t].snap /\ q.then = turn[t].then /\ q.dest = turn[t].dest
    <3>1. turn[t] \in Turn
      BY <1>1
    <3>2. "releasing" \in Pcs
      BY DEF Pcs
    <3> QED
      BY <3>1, <3>2, AtPc
  <2>2. Become(t, q)
    BY <1>8 DEF AfterSave
  <2> HIDE DEF q
  <2>3. Bent(t, q) /\ Drives(t, turn[t])
    BY <1>1, <1>8, <2>1 DEF Bent, Drives
  <2>4. Ready(tree[q.in], Due(q.in))
    <3>1. Kept(tree[q.in], mirror[q.in], Due(q.in))
      BY <1>1, <2>1, TreeIs
    <3> QED
      BY <1>8, <2>1, <3>1 DEF Saved, Kept, Ready
  <2>5. Locks(t, q) /\ Meets(q, tree[q.in].at)
        /\ Snapped(q, tree[q.in], mirror[q.in], Due(q.in))
    BY <1>2, <2>1 DEF Locks, Holds, Meets, Snapped
  <2>6. Moved(t, q)
    BY <1>1, <1>2, <2>1, <2>3, <2>4, <2>5 DEF Moved
  <2> QED
    BY <1>2, <2>1, <2>2, <2>6, MovedKeeps
<1> QED
  BY <1>1, <1>4, <1>5, <1>6, <1>7, <1>8

-----------------------------------------------------------------------------
(* The sweep, and time, where they leave the trees alone.                  *)

Sweeps == [pc : {"idle", "looking", "checking", "releasing", "removing"},
           on : Threads, left : SUBSET Threads]

LEMMA RestIs ==
  ASSUME NEW left \in SUBSET Threads
  PROVE  Rest(left) \in Sweeps /\ Rest(left).pc \in {"idle", "looking"}
<1>1. \E t \in Threads : TRUE
  BY BoundThreads
<1>2. (CHOOSE t \in Threads : TRUE) \in Threads
  BY <1>1
<1> QED
  BY <1>2 DEF Rest, Sweeps

LEMMA SweepIs ==
  ASSUME WInv
  PROVE  sweep \in Sweeps /\ sweep.on \in Threads /\ sweep.left \in SUBSET Threads
BY DEF WInv, TypeOK, Sweeps

LEMMA SweepMoves ==
  ASSUME WInv, NEW s \in Sweeps, sweep' = s,
         UNCHANGED <<bound, tree, mirror, idle, lock, turn, wrote, risked, faults>>,
         sweep.pc # "removing", s.pc # "removing",
         s.pc = "releasing" => Ready(tree[s.on], Due(s.on))
  PROVE  WInv'
<1>1. TypeOK /\ Known /\ Bents /\ Alone /\ Locked /\ Stood /\ Gone /\ Work
  BY DEF WInv
<1>2. TypeOK'
  BY <1>1 DEF TypeOK, Sweeps
<1>3. Known' /\ Bents' /\ Alone'
  BY <1>1 DEF Known, Written, Bents, Alone
<1>4. Locked' /\ Stood' /\ Gone'
  BY <1>1 DEF Locked, Stood, Gone, InRemoval
<1>5. Work'
  BY <1>1 DEF Work, Due
<1> QED
  BY <1>2, <1>3, <1>4, <1>5 DEF WInv

LEMMA AtKeeps == ASSUME WInv, NEW t \in Threads, NEW looks \in BOOLEAN, At(t, looks) PROVE WInv'
<1> DEFINE s == [pc |-> "checking", on |-> t, left |-> sweep.left \ {t}]
<1>1. s \in Sweeps /\ s.pc = "checking"
  BY SweepIs DEF Sweeps
<1>2. /\ Resting \in Sweeps /\ Resting.pc \in {"idle", "looking"}
      /\ Rest(sweep.left \ {t}) \in Sweeps /\ Rest(sweep.left \ {t}).pc \in {"idle", "looking"}
  BY SweepIs, RestIs DEF Resting
<1>3. \/ sweep' = Resting
      \/ sweep' = s
      \/ sweep' = Rest(sweep.left \ {t})
  BY DEF At
<1>4. UNCHANGED <<bound, tree, mirror, idle, lock, turn, wrote, risked, faults>> /\ sweep.pc = "looking"
  BY DEF At
<1> HIDE DEF s
<1> QED
  BY <1>1, <1>2, <1>3, <1>4, SweepMoves

LEMMA LookKeeps == ASSUME WInv, NEW t \in Threads, Look(t) PROVE WInv'
<1>1. idle[t] \in BOOLEAN
  BY GivenTypes
<1> QED
  BY <1>1, AtKeeps DEF Look

LEMMA ListKeeps == ASSUME WInv, List PROVE WInv'
<1> DEFINE left == {t \in Threads : Here(t)}
<1>1. Rest(left) \in Sweeps /\ Rest(left).pc \in {"idle", "looking"}
  BY RestIs
<1>2. sweep' = Rest(left) /\ sweep.pc = "idle"
  BY DEF List
<1> HIDE DEF left
<1> QED
  BY <1>1, <1>2, SweepMoves DEF List

LEMMA CheckKeeps == ASSUME WInv, Check PROVE WInv'
<1>1. /\ Resting \in Sweeps /\ Resting.pc \in {"idle", "looking"}
      /\ Rest(sweep.left) \in Sweeps /\ Rest(sweep.left).pc \in {"idle", "looking"}
  BY SweepIs, RestIs DEF Resting
<1> DEFINE s == [sweep EXCEPT !.pc = "releasing"]
<1>2. s \in Sweeps /\ s.pc = "releasing" /\ s.on = sweep.on
  BY SweepIs DEF Sweeps
<1>3. \/ sweep' \in {Resting, Rest(sweep.left)}
      \/ sweep' = s /\ Saved(sweep.on)
  BY DEF Check
<1>4. Saved(sweep.on) => Ready(tree[sweep.on], Due(sweep.on))
  <2>1. Kept(tree[sweep.on], mirror[sweep.on], Due(sweep.on))
    BY SweepIs, TreeIs
  <2> QED
    BY <2>1 DEF Saved, Kept, Ready
<1>5. UNCHANGED <<bound, tree, mirror, idle, lock, turn, wrote, risked, faults>> /\ sweep.pc = "checking"
  BY DEF Check
<1> HIDE DEF s
<1>6. CASE sweep' \in {Resting, Rest(sweep.left)}
  BY <1>1, <1>5, <1>6, SweepMoves
<1>7. CASE sweep' = s /\ Saved(sweep.on)
  BY <1>2, <1>4, <1>5, <1>7, SweepMoves
<1> QED
  BY <1>3, <1>6, <1>7

LEMMA IdleKeeps == ASSUME WInv, NEW t \in Threads, Idle(t) PROVE WInv'
<1>1. TypeOK /\ Known /\ Bents /\ Alone /\ Locked /\ Stood /\ Gone /\ Work
  BY DEF WInv
<1>2. TypeOK'
  BY <1>1 DEF TypeOK, Idle
<1>3. Known' /\ Bents' /\ Alone'
  BY <1>1 DEF Known, Written, Bents, Alone, Idle
<1>4. Locked' /\ Stood' /\ Gone'
  BY <1>1 DEF Locked, Stood, Gone, InRemoval, Idle
<1>5. Work'
  BY <1>1 DEF Work, Due, Idle
<1> QED
  BY <1>2, <1>3, <1>4, <1>5 DEF WInv

LEMMA NothingKeeps == ASSUME WInv, UNCHANGED vars PROVE WInv'
<1>1. TypeOK /\ Known /\ Bents /\ Alone /\ Locked /\ Stood /\ Gone /\ Work
  BY DEF WInv
<1>2. TypeOK'
  BY <1>1 DEF TypeOK, vars
<1>3. Known' /\ Bents' /\ Alone'
  BY <1>1 DEF Known, Written, Bents, Alone, vars
<1>4. Locked' /\ Stood' /\ Gone'
  BY <1>1 DEF Locked, Stood, Gone, InRemoval, vars
<1>5. Work'
  BY <1>1 DEF Work, Due, vars
<1> QED
  BY <1>2, <1>3, <1>4, <1>5 DEF WInv

-----------------------------------------------------------------------------
(* Steps of a turn on a tree whose lock it has, or takes.                  *)

LEMMA KeptLess ==
  ASSUME NEW w, NEW m, NEW due, NEW less, less \subseteq due, Kept(w, m, due)
  PROVE  Kept(w, m, less)
BY DEF Kept

LEMMA SnappedLess ==
  ASSUME NEW q, NEW w, NEW m, NEW due, NEW less, less \subseteq due, Snapped(q, w, m, due)
  PROVE  Snapped(q, w, m, less)
BY DEF Snapped

\* Nobody but t has business under the lock of a tree.
Sole(t, x) ==
  /\ \A u \in Threads \ {t} : turn[u].in = x => ~Holds(turn[u])
  /\ sweep.pc = "removing" => sweep.on # x

LEMMA HolderIsSole ==
  ASSUME WInv, NEW t \in Threads, Holds(turn[t])
  PROVE  Sole(t, turn[t].in)
<1>1. Locked /\ Sweep \notin Threads
  BY HoldersAreDistinct DEF WInv
<1>2. lock[turn[t].in] = t
  BY <1>1 DEF Locked
<1> QED
  BY <1>1, <1>2 DEF Locked, Sole

LEMMA TakerIsSole ==
  ASSUME WInv, NEW t, NEW x \in Threads, lock[x] = Nobody
  PROVE  Sole(t, x)
<1>1. Locked /\ Nobody \notin Threads /\ Nobody # Sweep
  BY HoldersAreDistinct DEF WInv
<1> QED
  BY <1>1 DEF Locked, Sole

LEMMA TreeStep ==
  ASSUME WInv, NEW t \in Threads, NEW q \in Turn, Become(t, q), NEW x \in Threads,
         x = turn[t].in, q.in = x, Sole(t, x), Locks(t, q),
         NEW w \in Tree, tree' = [tree EXCEPT ![x] = w],
         NEW m \in Ref, mirror' = [mirror EXCEPT ![x] = m],
         UNCHANGED <<bound, sweep, wrote, risked>>,
         idle' \in [Threads -> BOOLEAN],
         faults' \in [failures : 0 .. MaxFailures, crashes : 0 .. MaxCrashes],
         w.work \subseteq Written, UNION w.pushed \subseteq Written,
         UNION m \subseteq Written, q.snap \subseteq Written,
         Bent(t, q), t \in bound, Drives(t, q) => Drives(t, turn[t]),
         Meets(q, w.at), w.at = "going" => q.pc = "removing",
         Kept(w, m, Due(x)), Snapped(q, w, m, Due(x)), q.pc # "releasing",
         Ready(tree[x], Due(x)) => Ready(w, Due(x))
  PROVE  WInv'
<1>1. TypeOK /\ Known /\ Bents /\ Alone /\ Locked /\ Stood /\ Gone /\ Work
  BY DEF WInv
<1>2. /\ turn' \in [Threads -> Turn] /\ turn'[t] = q
      /\ \A u \in Threads \ {t} : turn'[u] = turn[u]
  BY <1>1, TurnMoves
<1>3. /\ tree' \in [Threads -> Tree] /\ tree'[x] = w
      /\ \A y \in Threads \ {x} : tree'[y] = tree[y]
  BY <1>1 DEF TypeOK
<1>4. /\ mirror' \in [Threads -> Ref] /\ mirror'[x] = m
      /\ \A y \in Threads \ {x} : mirror'[y] = mirror[y]
  BY <1>1 DEF TypeOK
<1>5. \A u \in Threads : turn[u].in \in Threads
  BY <1>1 DEF TypeOK, Turn
<1>6. TypeOK'
  BY <1>1, <1>2, <1>3, <1>4, LocksKeep DEF TypeOK
<1>7. Known'
  <2>1. Written' = Written
    BY DEF Written
  <2>2. \A u \in Threads : turn'[u].snap \subseteq Written
    BY <1>1, <1>2 DEF Known
  <2>3. ASSUME NEW y \in Threads
        PROVE  /\ tree'[y].work \subseteq Written
               /\ UNION tree'[y].pushed \subseteq Written
               /\ UNION mirror'[y] \subseteq Written
    BY <1>1, <1>3, <1>4 DEF Known
  <2> QED
    BY <2>1, <2>2, <2>3 DEF Known
<1>8. Bents' /\ Alone' /\ Locked'
  BY <1>1, BentMoves, AloneMoves, LocksKeep
<1>9. Stood'
  <2>1. ASSUME NEW u \in Threads
        PROVE  Meets(turn'[u], tree'[turn'[u].in].at)
    <3>1. CASE u = t
      BY <3>1, <1>2, <1>3
    <3>2. CASE u # t /\ turn[u].in = x
      <4>1. ~Holds(turn'[u])
        BY <3>2, <1>2 DEF Sole
      <4> QED
        BY <4>1 DEF Holds, Meets
    <3>3. CASE u # t /\ turn[u].in # x
      BY <3>3, <1>1, <1>2, <1>3, <1>5 DEF Stood
    <3> QED
      BY <3>1, <3>2, <3>3
  <2>2. sweep'.pc = "removing" => tree'[sweep'.on].at \in {"none", "going"}
    <3>1. sweep.on \in Threads
      BY SweepIs
    <3> QED
      BY <3>1, <1>1, <1>3 DEF Stood, Sole
  <2> QED
    BY <2>1, <2>2 DEF Stood
<1>10. Gone'
  <2>1. SUFFICES ASSUME NEW y \in Threads, tree'[y].at = "going" PROVE InRemoval(y)'
    BY DEF Gone
  <2>2. CASE y = x
    BY <2>1, <2>2, <1>2, <1>3 DEF InRemoval
  <2>3. CASE y # x
    <3>1. InRemoval(y)
      BY <2>1, <2>3, <1>1, <1>3 DEF Gone
    <3>2. CASE sweep.pc = "removing" /\ sweep.on = y
      BY <3>2 DEF InRemoval
    <3>3. ASSUME NEW u \in Threads, turn[u].pc = "removing" /\ turn[u].in = y
          PROVE  InRemoval(y)'
      <4>1. u # t
        BY <3>3, <2>3
      <4> QED
        BY <3>3, <4>1, <1>2 DEF InRemoval
    <3> QED
      BY <3>1, <3>2, <3>3 DEF InRemoval
  <2> QED
    BY <2>2, <2>3
<1>11. Work'
  <2>1. \A y \in Threads : Due(y)' = Due(y)
    BY DEF Due
  <2>2. ASSUME NEW y \in Threads
        PROVE  Kept(tree'[y], mirror'[y], Due(y))
    <3>1. CASE y = x
      BY <3>1, <1>3, <1>4
    <3>2. CASE y # x
      BY <3>2, <1>1, <1>3, <1>4 DEF Work
    <3> QED
      BY <3>1, <3>2
  <2>3. ASSUME NEW y \in Threads, Ready(tree[y], Due(y))
        PROVE  Ready(tree'[y], Due(y))
    BY <2>3, <1>3
  <2>4. ASSUME NEW u \in Threads
        PROVE  /\ Snapped(turn'[u], tree'[turn'[u].in], mirror'[turn'[u].in], Due(turn'[u].in))
               /\ turn'[u].pc = "releasing" => Ready(tree'[turn'[u].in], Due(turn'[u].in))
    <3>1. CASE u = t
      BY <3>1, <1>2, <1>3, <1>4
    <3>2. CASE u # t
      <4>1. turn'[u] = turn[u] /\ turn[u].in \in Threads
        BY <3>2, <1>2, <1>5
      <4>2. turn[u].pc = "releasing" => Ready(tree'[turn[u].in], Due(turn[u].in))
        BY <4>1, <1>1, <2>3 DEF Work
      <4>3. CASE turn[u].in = x
        <5>1. turn[u].pc \notin {"pushing", "marking"}
          BY <3>2, <4>3 DEF Sole, Holds
        <5> QED
          BY <4>1, <4>2, <5>1 DEF Snapped
      <4>4. CASE turn[u].in # x
        BY <4>1, <4>2, <4>4, <1>1, <1>3, <1>4 DEF Work
      <4> QED
        BY <4>3, <4>4
    <3> QED
      BY <3>1, <3>2
  <2>5. sweep.pc = "releasing" => Ready(tree'[sweep.on], Due(sweep.on))
    BY <1>1, <2>3, SweepIs DEF Work
  <2>6. \A u \in Threads : turn'[u].in \in Threads
    BY <1>2 DEF Turn
  <2> QED
    BY <2>1, <2>2, <2>4, <2>5, <2>6, SweepIs DEF Work
<1> QED
  BY <1>6, <1>7, <1>8, <1>9, <1>10, <1>11 DEF WInv

LEMMA ForkedKeeps == ASSUME WInv, NEW t \in Threads, Forked(t) PROVE WInv'
<1> DEFINE x == turn[t].in
           w == [at |-> "whole", work |-> UNION mirror[x], pushed |-> mirror[x]]
<1>1. x \in Threads /\ mirror[x] \in Ref /\ UNION mirror[x] \subseteq Written
  BY Given, TreeIs
<1>2. w \in Tree /\ w.at = "whole" /\ w.work = UNION mirror[x] /\ w.pushed = mirror[x]
  BY <1>1 DEF Tree, Ref
<1>3. tree' = [tree EXCEPT ![x] = w]
  BY DEF Forked
<1>4. mirror' = [mirror EXCEPT ![x] = mirror[x]]
  BY DEF Forked, WInv, TypeOK
<1>5. idle' \in [Threads -> BOOLEAN]
  BY GivenTypes DEF Forked
<1> HIDE DEF w
<1>6. PICK q \in Turn :
        /\ Become(t, q) /\ Bent(t, q) /\ q.in = turn[t].in /\ q.snap = turn[t].snap
        /\ q.pc \in {"in", "landed"}
        /\ Drives(t, q) => Drives(t, turn[t])
  BY PreparedIs DEF Forked
<1>7. Holds(turn[t]) /\ ~Holds(q)
  BY <1>6 DEF Forked, Holds
<1>8. Locks(t, q)
  BY <1>7 DEF Locks, Forked
<1>9. tree[x].at = "none"
  BY Given DEF Forked, Meets
<1>10. Kept(w, mirror[x], Due(x)) /\ Ready(w, Due(x))
  <2>1. Kept(tree[x], mirror[x], Due(x))
    BY <1>1, TreeIs
  <2> QED
    BY <1>2, <1>9, <2>1 DEF Kept, Ready
<1>11. Snapped(q, w, mirror[x], Due(x)) /\ Meets(q, w.at)
  BY <1>6 DEF Snapped, Meets
<1>12. Sole(t, x) /\ t \in bound /\ q.snap \subseteq Written
  BY <1>6, <1>7, HolderIsSole, Given DEF Forked
<1>13. UNCHANGED <<bound, sweep, wrote, risked>> /\ faults' = faults
  BY DEF Forked
<1> QED
  BY <1>1, <1>2, <1>3, <1>4, <1>5, <1>6, <1>8, <1>10, <1>11, <1>12, <1>13, TreeStep, GivenTypes

LEMMA PushKeeps == ASSUME WInv, NEW t \in Threads, Push(t) PROVE WInv'
<1> DEFINE x == turn[t].in
           m == {turn[t].snap}
           q == [turn[t] EXCEPT !.pc = "marking"]
<1>1. /\ q \in Turn /\ q.pc = "marking" /\ q.in = x
      /\ q.snap = turn[t].snap /\ q.then = turn[t].then /\ q.dest = turn[t].dest
  <2>1. turn[t] \in Turn
    BY Given
  <2>2. "marking" \in Pcs
    BY DEF Pcs
  <2> QED
    BY <2>1, <2>2, AtPc
<1>2. x \in Threads /\ m \in Ref /\ UNION m = q.snap /\ q.snap \subseteq Written
  <2>1. turn[t] \in Turn /\ x \in Threads /\ turn[t].snap \subseteq Written
    BY Given
  <2>2. turn[t].snap \in SUBSET Edits
    BY <2>1 DEF Turn
  <2>3. m \in Ref
    BY <2>2 DEF Ref
  <2>4. UNION m = turn[t].snap
    OBVIOUS
  <2> QED
    BY <1>1, <2>1, <2>3, <2>4
<1>3. tree' = [tree EXCEPT ![x] = tree[x]] /\ tree[x] \in Tree
  BY Given, TreeIs DEF Push, WInv, TypeOK
<1>4. mirror' = [mirror EXCEPT ![x] = m]
  BY DEF Push
<1>5. Become(t, q) /\ Holds(turn[t])
  BY DEF Push, Goto, Holds
<1> HIDE DEF q, m
<1>6. Bent(t, q) /\ (Drives(t, q) => Drives(t, turn[t]))
  BY <1>1, Given DEF Push, Bent, Drives
<1>7. Locks(t, q)
  BY <1>1, <1>5 DEF Locks, Push
<1>8. Meets(q, tree[x].at) /\ tree[x].at \in {"whole", "torn", "gutted"}
  BY <1>1, Given DEF Push, Meets
<1>9. Kept(tree[x], m, Due(x)) /\ Snapped(q, tree[x], m, Due(x))
  <2>1. Kept(tree[x], mirror[x], Due(x)) /\ Snapped(turn[t], tree[x], mirror[x], Due(x))
    BY <1>2, TreeIs, Given
  <2>2. tree[x].at = "whole" => Due(x) \cap UNION tree[x].pushed \subseteq q.snap
    BY <1>1, <2>1 DEF Snapped, Push
  <2>3. Kept(tree[x], m, Due(x))
    BY <1>2, <1>8, <2>1, <2>2 DEF Kept
  <2>4. Snapped(q, tree[x], m, Due(x))
    BY <1>2, <2>2 DEF Snapped
  <2> QED
    BY <2>3, <2>4
<1>10. Sole(t, x) /\ t \in bound
  BY <1>5, HolderIsSole, Given DEF Push
<1>11. UNCHANGED <<bound, idle, sweep, wrote, risked, faults>>
  BY DEF Push
<1>12. tree[x].work \subseteq Written /\ UNION tree[x].pushed \subseteq Written
  BY <1>2, TreeIs
<1>13. tree[x].at # "going" /\ q.pc # "releasing"
  BY <1>1, <1>8
<1>14. UNION m \subseteq Written
  BY <1>2
<1>15. idle' \in [Threads -> BOOLEAN]
       /\ faults' \in [failures : 0 .. MaxFailures, crashes : 0 .. MaxCrashes]
  BY <1>11, GivenTypes
<1> QED
  BY <1>1, <1>2, <1>3, <1>4, <1>5, <1>6, <1>7, <1>8, <1>9, <1>10, <1>11, <1>12, <1>13, <1>14, <1>15, TreeStep

LEMMA MarkKeeps == ASSUME WInv, NEW t \in Threads, Mark(t) PROVE WInv'
<1> DEFINE x == turn[t].in
           w == [tree[x] EXCEPT !.pushed = {turn[t].snap}]
           q == [turn[t] EXCEPT !.pc = "saved"]
<1>1. /\ q \in Turn /\ q.pc = "saved" /\ q.in = x
      /\ q.snap = turn[t].snap /\ q.then = turn[t].then /\ q.dest = turn[t].dest
  <2>1. turn[t] \in Turn
    BY Given
  <2>2. "saved" \in Pcs
    BY DEF Pcs
  <2> QED
    BY <2>1, <2>2, AtPc
<1>2. x \in Threads /\ q.snap \subseteq Written /\ q.snap \in SUBSET Edits
  BY <1>1, Given DEF Turn
<1>3. /\ tree[x] \in Tree /\ mirror[x] \in Ref /\ UNION mirror[x] \subseteq Written
      /\ tree[x].work \subseteq Written
  BY <1>2, TreeIs
<1>4. w \in Tree /\ w.at = tree[x].at /\ w.work = tree[x].work /\ w.pushed = {q.snap}
  BY <1>1, <1>2, <1>3 DEF Tree, Ref
<1>5. tree' = [tree EXCEPT ![x] = w] /\ mirror' = [mirror EXCEPT ![x] = mirror[x]]
  BY <1>2 DEF Mark, WInv, TypeOK
<1>6. Become(t, q) /\ Holds(turn[t])
  BY DEF Mark, Goto, Holds
<1> HIDE DEF q, w
<1>7. Bent(t, q) /\ (Drives(t, q) => Drives(t, turn[t]))
  BY <1>1, Given DEF Mark, Bent, Drives
<1>8. Locks(t, q)
  BY <1>1, <1>6 DEF Locks, Mark, Holds
<1>9. Meets(q, w.at) /\ w.at \in {"whole", "torn", "gutted"}
  BY <1>1, <1>4, Given DEF Mark, Meets
<1>10. /\ Kept(w, mirror[x], Due(x)) /\ Snapped(q, w, mirror[x], Due(x))
       /\ Ready(tree[x], Due(x)) => Ready(w, Due(x))
  <2>1. Kept(tree[x], mirror[x], Due(x)) /\ Snapped(turn[t], tree[x], mirror[x], Due(x))
    BY <1>2, TreeIs, Given
  <2>2. /\ tree[x].at = "whole" => Due(x) \cap UNION tree[x].pushed \subseteq q.snap
        /\ Due(x) \cap q.snap \subseteq UNION mirror[x]
    BY <1>1, <2>1 DEF Snapped, Mark
  <2>3. UNION w.pushed = q.snap
    BY <1>4
  <2>4. Kept(w, mirror[x], Due(x))
    BY <1>4, <1>9, <2>1, <2>2, <2>3 DEF Kept
  <2>5. Snapped(q, w, mirror[x], Due(x))
    BY <1>1 DEF Snapped
  <2>6. Ready(tree[x], Due(x)) => Ready(w, Due(x))
    BY <1>4, <2>2, <2>3 DEF Ready
  <2> QED
    BY <2>4, <2>5, <2>6
<1>11. Sole(t, x) /\ t \in bound
  BY <1>6, HolderIsSole, Given DEF Mark
<1>12. UNCHANGED <<bound, idle, sweep, wrote, risked, faults>>
  BY DEF Mark
<1>13. w.work \subseteq Written /\ UNION w.pushed \subseteq Written
  BY <1>2, <1>3, <1>4
<1>14. w.at # "going" /\ q.pc # "releasing"
  BY <1>1, <1>9
<1>15. idle' \in [Threads -> BOOLEAN]
       /\ faults' \in [failures : 0 .. MaxFailures, crashes : 0 .. MaxCrashes]
  BY <1>12, GivenTypes
<1> QED
  BY <1>1, <1>2, <1>3, <1>4, <1>5, <1>6, <1>7, <1>8, <1>9, <1>10, <1>11, <1>12, <1>13, <1>14, <1>15, TreeStep

\* A tree that may go leaves what is due in the mirror.
LEMMA ReadyMayGo ==
  ASSUME NEW w \in Tree, NEW m, NEW due, Kept(w, m, due), Ready(w, due)
  PROVE  due \subseteq UNION m
BY DEF Kept, Ready, Tree

\* The tree as it starts to go.
LEMMA StartsToGo ==
  ASSUME WInv, NEW x \in Threads, Ready(tree[x], Due(x)), Removing(x)
  PROVE  \E w \in Tree :
           /\ tree' = [tree EXCEPT ![x] = w]
           /\ w.at \in {"none", "going"}
           /\ w.work \subseteq Written /\ UNION w.pushed \subseteq Written
           /\ Kept(w, mirror[x], Due(x))
           /\ Ready(w, Due(x))
<1> DEFINE w == [tree[x] EXCEPT !.at = IF Here(x) THEN "going" ELSE "none"]
<1>1. /\ tree[x] \in Tree /\ tree[x].work \subseteq Written
      /\ UNION tree[x].pushed \subseteq Written
  BY TreeIs
<1>2. /\ w \in Tree /\ w.at \in {"none", "going"}
      /\ w.work = tree[x].work /\ w.pushed = tree[x].pushed
  BY <1>1 DEF Tree
<1>3. tree' = [tree EXCEPT ![x] = w]
  BY DEF Removing
<1> HIDE DEF w
<1>4. Due(x) \subseteq UNION mirror[x]
  BY <1>1, TreeIs, ReadyMayGo
<1>5. Kept(w, mirror[x], Due(x)) /\ Ready(w, Due(x))
  BY <1>2, <1>4 DEF Kept, Ready
<1> QED
  BY <1>1, <1>2, <1>3, <1>5

\* The tree once it is gone.
LEMMA IsGone ==
  ASSUME WInv, NEW x \in Threads, tree[x].at \in {"none", "going"}, Removed(x)
  PROVE  \E w \in Tree :
           /\ tree' = [tree EXCEPT ![x] = w]
           /\ w.at = "none"
           /\ w.work \subseteq Written /\ UNION w.pushed \subseteq Written
           /\ Kept(w, mirror[x], Due(x))
           /\ Ready(w, Due(x))
<1>1. /\ NoTree \in Tree /\ NoTree.at = "none" /\ NoTree.work = {} /\ NoTree.pushed = {}
  BY DEF NoTree, Tree, Ref
<1>2. UNION NoTree.pushed = {}
  BY <1>1
<1>3. Kept(tree[x], mirror[x], Due(x))
  BY TreeIs
<1>4. Kept(NoTree, mirror[x], Due(x)) /\ Ready(NoTree, Due(x))
  BY <1>1, <1>3 DEF Kept, Ready
<1> QED
  BY <1>1, <1>2, <1>4 DEF Removed

LEMMA DismissKeeps == ASSUME WInv, NEW t \in Threads, Dismiss(t) PROVE WInv'
<1> DEFINE x == turn[t].in
           q == [turn[t] EXCEPT !.pc = "removing"]
<1>1. /\ q \in Turn /\ q.pc = "removing" /\ q.in = x
      /\ q.snap = turn[t].snap /\ q.then = turn[t].then /\ q.dest = turn[t].dest
  <2>1. turn[t] \in Turn
    BY Given
  <2>2. "removing" \in Pcs
    BY DEF Pcs
  <2> QED
    BY <2>1, <2>2, AtPc
<1>2. x \in Threads /\ q.snap \subseteq Written /\ t \in bound /\ Ready(tree[x], Due(x))
  BY <1>1, Given DEF Dismiss
<1>3. Become(t, q) /\ Lock(x, t) /\ lock[x] = Nobody
  BY DEF Dismiss, Goto, Lock
<1> HIDE DEF q
<1>4. PICK w \in Tree :
        /\ tree' = [tree EXCEPT ![x] = w]
        /\ w.at \in {"none", "going"}
        /\ w.work \subseteq Written /\ UNION w.pushed \subseteq Written
        /\ Kept(w, mirror[x], Due(x))
        /\ Ready(w, Due(x))
  BY <1>2, StartsToGo DEF Dismiss
<1>5. mirror' = [mirror EXCEPT ![x] = mirror[x]] /\ mirror[x] \in Ref
      /\ UNION mirror[x] \subseteq Written
  BY <1>2, TreeIs DEF Dismiss, WInv, TypeOK
<1>6. Bent(t, q) /\ (Drives(t, q) => Drives(t, turn[t]))
  BY <1>1, Given DEF Dismiss, Bent, Drives
<1>7. Locks(t, q)
  BY <1>1, <1>3 DEF Locks
<1>8. Meets(q, w.at) /\ Snapped(q, w, mirror[x], Due(x)) /\ q.pc # "releasing"
  BY <1>1, <1>4 DEF Meets, Snapped
<1>9. Sole(t, x)
  BY <1>2, <1>3, TakerIsSole
<1>10. UNCHANGED <<bound, idle, sweep, wrote, risked, faults>>
  BY DEF Dismiss
<1>11. idle' \in [Threads -> BOOLEAN]
       /\ faults' \in [failures : 0 .. MaxFailures, crashes : 0 .. MaxCrashes]
  BY <1>10, GivenTypes
<1> QED
  BY <1>1, <1>2, <1>3, <1>4, <1>5, <1>6, <1>7, <1>8, <1>9, <1>10, <1>11, TreeStep

LEMMA DismissedKeeps == ASSUME WInv, NEW t \in Threads, Dismissed(t) PROVE WInv'
<1> DEFINE x == turn[t].in
           q == GoingTo(turn[t], "saving", "end")
<1>0. turn[t] \in Turn /\ "saving" \in Pcs /\ "end" \in Thens
  BY Given DEF Pcs, Thens
<1>1. /\ q \in Turn /\ q.pc = "saving" /\ q.in = x
      /\ q.snap = turn[t].snap /\ q.then = "end" /\ q.dest = turn[t].dest
  BY <1>0, AtPcThen
<1>2. x \in Threads /\ q.snap \subseteq Written /\ t \in bound /\ Meets(turn[t], tree[x].at)
  BY <1>1, Given DEF Dismissed
<1>3. Become(t, q) /\ Holds(turn[t]) /\ Unlock(x)
  BY DEF Dismissed, GoingTo, Holds
<1> HIDE DEF q
<1>4. tree[x].at \in {"none", "going"}
  BY <1>2 DEF Dismissed, Meets
<1>5. PICK w \in Tree :
        /\ tree' = [tree EXCEPT ![x] = w]
        /\ w.at = "none"
        /\ w.work \subseteq Written /\ UNION w.pushed \subseteq Written
        /\ Kept(w, mirror[x], Due(x))
        /\ Ready(w, Due(x))
  BY <1>2, <1>4, IsGone DEF Dismissed
<1>6. mirror' = [mirror EXCEPT ![x] = mirror[x]] /\ mirror[x] \in Ref
      /\ UNION mirror[x] \subseteq Written
  BY <1>2, TreeIs DEF Dismissed, WInv, TypeOK
<1>7. Bent(t, q) /\ ~Drives(t, q)
  BY <1>1 DEF Bent, Drives
<1>8. Locks(t, q)
  BY <1>1, <1>3 DEF Locks, Holds
<1>9. /\ Meets(q, w.at) /\ Snapped(q, w, mirror[x], Due(x)) /\ q.pc # "releasing"
      /\ w.at # "going"
  BY <1>1, <1>5 DEF Meets, Snapped
<1>10. Sole(t, x)
  BY <1>3, HolderIsSole
<1>11. UNCHANGED <<bound, idle, sweep, wrote, risked, faults>>
  BY DEF Dismissed
<1>12. idle' \in [Threads -> BOOLEAN]
       /\ faults' \in [failures : 0 .. MaxFailures, crashes : 0 .. MaxCrashes]
  BY <1>11, GivenTypes
<1> QED
  BY <1>1, <1>2, <1>3, <1>5, <1>6, <1>7, <1>8, <1>9, <1>10, <1>11, <1>12, TreeStep

-----------------------------------------------------------------------------
(* An edit.                                                                *)

\* What will be due.
DueNext(x) == wrote'[x] \ risked'

\* What is written is due at most where it was written, and there only in a whole
\* tree that nobody is about to remove.
LEMMA EditDue ==
  ASSUME WInv, NEW t \in Threads, NEW e \in Edits, Edit(t, e)
  PROVE  LET x == turn[t].in IN
         /\ \A y \in Threads \ {x} : DueNext(y) \subseteq Due(y)
         /\ \/ DueNext(x) \subseteq Due(x)
            \/ /\ DueNext(x) \subseteq Due(x) \cup {e}
               /\ tree[x].at = "whole"
               /\ \A u \in Threads : turn[u].in = x => turn[u].pc # "releasing"
               /\ ~(sweep.on = x /\ sweep.pc = "releasing")
<1> DEFINE x == turn[t].in
           risky == \/ sweep.on = x /\ sweep.pc \in {"releasing", "removing"}
                    \/ tree[x].at \in {"torn", "gutted"}
<1>1. x \in Threads /\ wrote \in [Threads -> SUBSET Edits]
  BY Given DEF WInv, TypeOK
<1>2. /\ wrote'[x] = wrote[x] \cup {e}
      /\ \A y \in Threads \ {x} : wrote'[y] = wrote[y]
  BY <1>1 DEF Edit
<1>3. risked' = IF risky THEN risked \cup {e} ELSE risked
  BY DEF Edit
<1> HIDE DEF risky
<1>4. \A y \in Threads \ {x} : DueNext(y) \subseteq Due(y)
  BY <1>2, <1>3 DEF Due, DueNext
<1>5. CASE risky
  <2>1. DueNext(x) \subseteq Due(x)
    BY <1>2, <1>3, <1>5 DEF Due, DueNext
  <2> QED
    BY <1>4, <2>1
<1>6. CASE ~risky
  <2>1. DueNext(x) \subseteq Due(x) \cup {e}
    BY <1>2, <1>3, <1>6 DEF Due, DueNext
  <2>2. Drives(t, turn[t]) /\ turn[t].pc = "in"
    BY DEF Edit, Drives
  <2>3. \A u \in Threads : turn[u].in = x => turn[u].pc \notin {"releasing", "removing"}
    <3>1. SUFFICES ASSUME NEW u \in Threads, turn[u].in = x,
                          turn[u].pc \in {"releasing", "removing"}
                   PROVE  FALSE
      OBVIOUS
    <3>2. Drives(u, turn[u])
      BY <3>1 DEF Drives
    <3>3. u = t
      BY <2>2, <3>1, <3>2 DEF WInv, Alone
    <3> QED
      BY <2>2, <3>1, <3>3
  <2>4. ~(sweep.on = x /\ sweep.pc \in {"releasing", "removing"})
        /\ tree[x].at \notin {"torn", "gutted"}
    BY <1>6 DEF risky
  <2>5. tree[x].at # "going"
    BY <1>1, <2>3, <2>4 DEF WInv, Gone, InRemoval
  <2>6. tree[x].at # "none"
    BY DEF Edit, Here
  <2>7. tree[x].at = "whole"
    BY <1>1, <2>4, <2>5, <2>6, TreeIs
  <2> QED
    BY <1>4, <2>1, <2>3, <2>4, <2>7
<1> QED
  BY <1>5, <1>6

LEMMA EditKeeps ==
  ASSUME WInv, NEW t \in Threads, NEW e \in Edits, Edit(t, e)
  PROVE  WInv'
<1> DEFINE x == turn[t].in
           w == [tree[x] EXCEPT !.work = @ \cup {e}]
<1>1. TypeOK /\ Known /\ Bents /\ Alone /\ Locked /\ Stood /\ Gone /\ Work
  BY DEF WInv
<1>2. x \in Threads /\ e \notin Written /\ tree[x] \in Tree
  BY Given, TreeIs DEF Edit, Written
<1>3. /\ w \in Tree /\ w.at = tree[x].at /\ w.work = tree[x].work \cup {e}
      /\ w.pushed = tree[x].pushed
  BY <1>2 DEF Tree
<1>4. /\ tree' \in [Threads -> Tree] /\ tree'[x] = w
      /\ \A y \in Threads \ {x} : tree'[y] = tree[y]
  BY <1>1, <1>2, <1>3 DEF Edit, TypeOK
<1>5. UNCHANGED <<bound, mirror, idle, lock, turn, sweep, faults>>
  BY DEF Edit
<1>6. wrote' \in [Threads -> SUBSET Edits] /\ risked' \in SUBSET Edits
  BY <1>1, <1>2 DEF Edit, TypeOK
<1> HIDE DEF w
<1>7. TypeOK'
  BY <1>1, <1>4, <1>5, <1>6 DEF TypeOK
<1>8. Written \subseteq Written' /\ e \in Written'
  BY <1>1, <1>2 DEF Edit, Written, TypeOK
<1>9. Known'
  <2>1. \A y \in Threads :
          /\ tree'[y].work \subseteq tree[y].work \cup {e}
          /\ tree'[y].pushed = tree[y].pushed
    BY <1>3, <1>4
  <2>2. \A y \in Threads :
          tree'[y].work \subseteq Written' /\ UNION tree'[y].pushed \subseteq Written'
    BY <2>1, <1>1, <1>8 DEF Known
  <2>3. \A y \in Threads : UNION mirror'[y] \subseteq Written' /\ turn'[y].snap \subseteq Written'
    BY <1>1, <1>5, <1>8 DEF Known
  <2> QED
    BY <2>2, <2>3 DEF Known
<1>10. \A y \in Threads : tree'[y].at = tree[y].at /\ tree'[y].pushed = tree[y].pushed
                          /\ tree[y].work \subseteq tree'[y].work
  BY <1>3, <1>4
<1>11. \A u \in Threads : turn[u].in \in Threads
  BY <1>1 DEF TypeOK, Turn
<1>12. Bents' /\ Alone' /\ Locked'
  BY <1>1, <1>5 DEF Bents, Alone, Locked
<1>13. Stood' /\ Gone'
  BY <1>1, <1>5, <1>10, <1>11, SweepIs DEF Stood, Gone, InRemoval
<1>14. Work'
  <2>1. /\ \A y \in Threads \ {x} : DueNext(y) \subseteq Due(y)
        /\ \/ DueNext(x) \subseteq Due(x)
           \/ /\ DueNext(x) \subseteq Due(x) \cup {e}
              /\ tree[x].at = "whole"
              /\ \A u \in Threads : turn[u].in = x => turn[u].pc # "releasing"
              /\ ~(sweep.on = x /\ sweep.pc = "releasing")
    BY EditDue
  <2>2. ASSUME NEW y \in Threads, NEW due, Kept(tree[y], mirror[y], due)
        PROVE  Kept(tree'[y], mirror[y], due)
    BY <2>2, <1>10 DEF Kept
  <2>3. ASSUME NEW y \in Threads, NEW u \in Threads, NEW due,
               Snapped(turn[u], tree[y], mirror[y], due)
        PROVE  Snapped(turn[u], tree'[y], mirror[y], due)
    BY <2>3, <1>10 DEF Snapped
  <2>4. ASSUME NEW y \in Threads, NEW due, Ready(tree[y], due)
        PROVE  Ready(tree'[y], due)
    BY <2>4, <1>10 DEF Ready
  <2>5. ASSUME NEW y \in Threads
        PROVE  Kept(tree'[y], mirror'[y], DueNext(y))
    <3>1. Kept(tree[y], mirror[y], Due(y))
      BY TreeIs
    <3>2. CASE DueNext(y) \subseteq Due(y)
      BY <3>1, <3>2, <2>2, <1>5, KeptLess
    <3>3. CASE y = x /\ tree[x].at = "whole" /\ DueNext(x) \subseteq Due(x) \cup {e}
      <4>1. UNION tree[x].pushed \subseteq Written
        BY <1>2, TreeIs
      <4>2. e \notin UNION tree[x].pushed
        BY <4>1, <1>2
      <4>3. tree'[x].at = "whole" /\ e \in tree'[x].work
            /\ tree[x].work \subseteq tree'[x].work /\ tree'[x].pushed = tree[x].pushed
        BY <3>3, <1>3, <1>4
      <4>4. Due(x) \subseteq tree[x].work /\ Due(x) \cap UNION tree[x].pushed \subseteq UNION mirror[x]
        BY <3>1, <3>3 DEF Kept
      <4>5. DueNext(x) \subseteq tree'[x].work
        BY <3>3, <4>3, <4>4
      <4>6. DueNext(x) \cap UNION tree'[x].pushed \subseteq UNION mirror[x]
        BY <3>3, <4>2, <4>3, <4>4
      <4> QED
        BY <3>3, <4>3, <4>5, <4>6, <1>5 DEF Kept
    <3> QED
      BY <3>2, <3>3, <2>1
  <2>6. ASSUME NEW u \in Threads
        PROVE  /\ Snapped(turn'[u], tree'[turn'[u].in], mirror'[turn'[u].in], DueNext(turn[u].in))
               /\ turn'[u].pc = "releasing" => Ready(tree'[turn'[u].in], DueNext(turn[u].in))
    <3> DEFINE y == turn[u].in
    <3>1. /\ y \in Threads /\ turn[u].snap \subseteq Written
          /\ Snapped(turn[u], tree[y], mirror[y], Due(y))
          /\ turn[u].pc = "releasing" => Ready(tree[y], Due(y))
      BY Given
    <3>2. CASE DueNext(y) \subseteq Due(y)
      <4>1. Snapped(turn[u], tree'[y], mirror[y], DueNext(y))
        BY <3>1, <3>2, <2>3, SnappedLess
      <4>2. turn[u].pc = "releasing" => Ready(tree'[y], DueNext(y))
        BY <3>1, <3>2, <2>4 DEF Ready
      <4> QED
        BY <4>1, <4>2, <1>5
    <3>3. CASE y = x /\ DueNext(x) \subseteq Due(x) \cup {e} /\ turn[u].pc # "releasing"
      <4>1. UNION tree[y].pushed \subseteq Written
        BY <3>1, TreeIs
      <4>2. e \notin UNION tree[y].pushed /\ e \notin turn[u].snap
        BY <4>1, <3>1, <1>2
      <4>3. DueNext(y) \cap UNION tree[y].pushed \subseteq Due(y) \cap UNION tree[y].pushed
            /\ DueNext(y) \cap turn[u].snap \subseteq Due(y) \cap turn[u].snap
        BY <3>3, <4>2
      <4>4. Snapped(turn[u], tree[y], mirror[y], DueNext(y))
        BY <3>1, <4>3 DEF Snapped
      <4> QED
        BY <3>1, <3>3, <4>4, <2>3, <1>5
    <3> QED
      BY <3>1, <3>2, <3>3, <2>1
  <2>7. sweep'.pc = "releasing" => Ready(tree'[sweep'.on], DueNext(sweep.on))
    <3>1. SUFFICES ASSUME sweep.pc = "releasing" PROVE Ready(tree'[sweep.on], DueNext(sweep.on))
      BY <1>5
    <3>2. DueNext(sweep.on) \subseteq Due(sweep.on)
      BY <3>1, <2>1, SweepIs
    <3>3. Ready(tree'[sweep.on], Due(sweep.on))
      BY <3>1, <1>1, <2>4, SweepIs DEF Work
    <3> QED
      BY <3>2, <3>3 DEF Ready
  <2> QED
    BY <2>5, <2>6, <2>7, <1>5 DEF Work, Due, DueNext
<1> QED
  BY <1>7, <1>9, <1>12, <1>13, <1>14 DEF WInv

-----------------------------------------------------------------------------
(* Work is carried to another thread.                                      *)

\* The turn on its way into another thread.
Enters(r) == [r EXCEPT !.pc = "preparing", !.in = r.dest, !.then = "end"]

LEMMA AtEntry ==
  ASSUME NEW r \in Turn
  PROVE  /\ Enters(r) \in Turn
         /\ Enters(r).pc = "preparing"
         /\ Enters(r).in = r.dest
         /\ Enters(r).snap = r.snap
         /\ Enters(r).then = "end"
         /\ r.dest \in Threads
BY DEF Turn, Enters

LEMMA FileKeeps == ASSUME WInv, NEW t \in Threads, File(t) PROVE WInv'
<1> DEFINE d == turn[t].dest
           q == Enters(turn[t])
<1>1. /\ q \in Turn /\ q.pc = "preparing" /\ q.in = d /\ q.snap = turn[t].snap
      /\ q.then = "end" /\ d \in Threads
  BY Given, AtEntry
<1>2. Become(t, q) /\ turn[t].pc = "filing"
  BY DEF File, Enters
<1>3. d # t /\ t \in bound /\ q.snap \subseteq Written
  BY <1>1, <1>2, Given DEF Bent
<1> HIDE DEF q
<1>4. Bent(t, q) /\ ~Drives(t, q) /\ Light(q)
  BY <1>1, <1>3 DEF Bent, Drives, Light
<1>5. UNCHANGED <<bound, tree, idle, lock, sweep, wrote, faults>>
  BY DEF File
<1>6. idle' \in [Threads -> BOOLEAN] /\ bound \subseteq Threads
      /\ faults' \in [failures : 0 .. MaxFailures, crashes : 0 .. MaxCrashes]
  BY <1>5, GivenTypes
<1>7. CASE mirror[turn[t].in] = {}
  <2>1. UNCHANGED <<mirror, risked>>
    BY <1>7 DEF File
  <2>2. Moved(t, q)
    BY <1>1, <1>2, <1>3, <1>4, <1>5, LightIsMoved
  <2> QED
    BY <1>1, <1>2, <1>5, <1>6, <2>1, <2>2, MovedKeeps
<1>8. CASE mirror[turn[t].in] # {}
  <2> DEFINE m == mirror[turn[t].in]
  <2>1. mirror' = [mirror EXCEPT ![d] = m] /\ risked' = risked \cup wrote[d]
    BY <1>8 DEF File
  <2>2. TypeOK /\ Known /\ Bents /\ Alone /\ Locked /\ Stood /\ Gone /\ Work
    BY DEF WInv
  <2>3. /\ turn' \in [Threads -> Turn] /\ turn'[t] = q
        /\ \A u \in Threads \ {t} : turn'[u] = turn[u]
    BY <1>1, <1>2, <2>2, TurnMoves
  <2>4. m \in Ref /\ UNION m \subseteq Written
    BY Given, TreeIs
  <2> HIDE DEF m
  <2>5. /\ mirror' \in [Threads -> Ref] /\ mirror'[d] = m
        /\ \A y \in Threads \ {d} : mirror'[y] = mirror[y]
    BY <1>1, <2>1, <2>2, <2>4 DEF TypeOK
  <2>6. TypeOK'
    BY <1>1, <1>5, <2>1, <2>2, <2>3, <2>5 DEF TypeOK
  <2>7. Known'
    <3>1. Written' = Written
      BY <1>5 DEF Written
    <3>2. \A u \in Threads : turn'[u].snap \subseteq Written
      BY <1>1, <1>3, <2>2, <2>3 DEF Known
    <3>3. \A y \in Threads : UNION mirror'[y] \subseteq Written
      BY <2>2, <2>4, <2>5 DEF Known
    <3> QED
      BY <1>5, <2>2, <3>1, <3>2, <3>3 DEF Known
  <2>8. Locks(t, q)
    BY <1>4, <1>5 DEF Locks, Light, Holds
  <2>9. Bents' /\ Alone' /\ Locked'
    BY <1>1, <1>2, <1>3, <1>4, <1>5, <2>2, <2>8, BentMoves, AloneMoves, LocksKeep
  <2>10. Stood'
    BY <1>1, <1>5, <2>2, <2>3 DEF Stood, Meets
  <2>11. Gone'
    BY <1>2, <1>5, <2>2, <2>3 DEF Gone, InRemoval
  <2>12. Work'
    <3>1. \A y \in Threads : DueNext(y) \subseteq Due(y)
      BY <1>5, <2>1 DEF Due, DueNext
    <3>2. DueNext(d) = {}
      BY <1>5, <2>1 DEF DueNext
    <3>3. ASSUME NEW y \in Threads
          PROVE  Kept(tree[y], mirror'[y], DueNext(y))
      <4>1. CASE y = d
        BY <4>1, <3>2 DEF Kept
      <4>2. CASE y # d
        BY <4>2, <3>1, <2>5, TreeIs, KeptLess
      <4> QED
        BY <4>1, <4>2
    <3>4. ASSUME NEW u \in Threads
          PROVE  /\ Snapped(turn'[u], tree[turn'[u].in], mirror'[turn'[u].in], DueNext(turn'[u].in))
                 /\ turn'[u].pc = "releasing" => Ready(tree[turn'[u].in], DueNext(turn'[u].in))
      <4>1. CASE u = t
        BY <4>1, <1>1, <2>3 DEF Snapped
      <4>2. CASE u # t
        <5>1. turn'[u] = turn[u] /\ turn[u].in \in Threads
              /\ Snapped(turn[u], tree[turn[u].in], mirror[turn[u].in], Due(turn[u].in))
              /\ (turn[u].pc = "releasing" => Ready(tree[turn[u].in], Due(turn[u].in)))
          BY <4>2, <2>3, Given
        <5>2. turn[u].pc = "releasing" => Ready(tree[turn[u].in], DueNext(turn[u].in))
          BY <5>1, <3>1 DEF Ready
        <5>3. CASE turn[u].in = d
          BY <5>1, <5>2, <5>3, <3>2 DEF Snapped
        <5>4. CASE turn[u].in # d
          BY <5>1, <5>2, <5>4, <3>1, <2>5, SnappedLess
        <5> QED
          BY <5>3, <5>4
      <4> QED
        BY <4>1, <4>2
    <3>5. sweep.pc = "releasing" => Ready(tree[sweep.on], DueNext(sweep.on))
      BY <2>2, <3>1, SweepIs DEF Work, Ready
    <3> QED
      BY <3>3, <3>4, <3>5, <1>5 DEF Work, Due, DueNext
  <2> QED
    BY <2>6, <2>7, <2>9, <2>10, <2>11, <2>12 DEF WInv
<1> QED
  BY <1>7, <1>8

-----------------------------------------------------------------------------
(* The sweep removes a tree.                                               *)

LEMMA SweptStep ==
  ASSUME WInv, NEW x \in Threads, x = sweep.on,
         NEW s \in Sweeps, sweep' = s, s.pc # "releasing",
         NEW w \in Tree, tree' = [tree EXCEPT ![x] = w],
         w.at = "none" \/ (w.at = "going" /\ s.pc = "removing" /\ s.on = x),
         s.pc = "removing" => s.on = x /\ lock'[x] = Sweep,
         w.work \subseteq Written, UNION w.pushed \subseteq Written,
         Kept(w, mirror[x], Due(x)), Ready(w, Due(x)),
         \A u \in Threads : turn[u].in = x => ~Holds(turn[u]),
         lock' \in [Threads -> Threads \cup {Sweep, Nobody}],
         \A y \in Threads \ {x} : lock'[y] = lock[y],
         UNCHANGED <<bound, mirror, idle, turn, wrote, risked, faults>>
  PROVE  WInv'
<1>1. TypeOK /\ Known /\ Bents /\ Alone /\ Locked /\ Stood /\ Gone /\ Work
  BY DEF WInv
<1>2. /\ tree' \in [Threads -> Tree] /\ tree'[x] = w
      /\ \A y \in Threads \ {x} : tree'[y] = tree[y]
  BY <1>1 DEF TypeOK
<1>3. \A u \in Threads : turn[u].in \in Threads
  BY <1>1 DEF TypeOK, Turn
<1>4. s.on \in Threads
  BY DEF Sweeps
<1>5. TypeOK'
  BY <1>1, <1>2 DEF TypeOK, Sweeps
<1>6. Known'
  <2>1. Written' = Written
    BY DEF Written
  <2>2. ASSUME NEW y \in Threads
        PROVE  tree'[y].work \subseteq Written /\ UNION tree'[y].pushed \subseteq Written
    BY <1>1, <1>2 DEF Known
  <2> QED
    BY <1>1, <2>1, <2>2 DEF Known
<1>7. Bents' /\ Alone'
  BY <1>1 DEF Bents, Alone
<1>8. Locked'
  <2>1. ASSUME NEW u \in Threads, Holds(turn[u])
        PROVE  lock'[turn[u].in] = u
    <3>1. turn[u].in \in Threads \ {x} /\ lock[turn[u].in] = u
      BY <2>1, <1>1, <1>3 DEF Locked
    <3> QED
      BY <3>1
  <2> QED
    BY <2>1 DEF Locked
<1>9. Stood'
  <2>1. ASSUME NEW u \in Threads
        PROVE  Meets(turn[u], tree'[turn[u].in].at)
    <3>1. CASE turn[u].in = x
      BY <3>1 DEF Holds, Meets
    <3>2. CASE turn[u].in # x
      BY <3>2, <1>1, <1>2, <1>3 DEF Stood
    <3> QED
      BY <3>1, <3>2
  <2> QED
    BY <2>1, <1>2 DEF Stood
<1>10. Gone'
  <2>1. SUFFICES ASSUME NEW y \in Threads, tree'[y].at = "going" PROVE InRemoval(y)'
    BY DEF Gone
  <2>2. CASE y = x
    BY <2>1, <2>2, <1>2 DEF InRemoval
  <2>3. CASE y # x
    <3>1. InRemoval(y)
      BY <2>1, <2>3, <1>1, <1>2 DEF Gone
    <3> QED
      BY <3>1, <2>3 DEF InRemoval
  <2> QED
    BY <2>2, <2>3
<1>11. Work'
  <2>1. \A y \in Threads : Due(y)' = Due(y)
    BY DEF Due
  <2>2. ASSUME NEW y \in Threads
        PROVE  Kept(tree'[y], mirror[y], Due(y))
    BY <1>1, <1>2 DEF Work
  <2>3. ASSUME NEW u \in Threads
        PROVE  /\ Snapped(turn[u], tree'[turn[u].in], mirror[turn[u].in], Due(turn[u].in))
               /\ turn[u].pc = "releasing" => Ready(tree'[turn[u].in], Due(turn[u].in))
    <3>1. CASE turn[u].in = x
      <4>1. turn[u].pc \notin {"pushing", "marking"}
        BY <3>1 DEF Holds
      <4> QED
        BY <3>1, <4>1, <1>2 DEF Snapped
    <3>2. CASE turn[u].in # x
      BY <3>2, <1>1, <1>2, <1>3 DEF Work
    <3> QED
      BY <3>1, <3>2
  <2> QED
    BY <2>1, <2>2, <2>3, <1>3 DEF Work
<1> QED
  BY <1>5, <1>6, <1>7, <1>8, <1>9, <1>10, <1>11 DEF WInv

LEMMA ReleaseKeeps == ASSUME WInv, Release PROVE WInv'
<1> DEFINE x == sweep.on
           s == [sweep EXCEPT !.pc = "removing"]
<1>1. x \in Threads /\ s \in Sweeps /\ s.pc = "removing" /\ s.on = x
  BY SweepIs DEF Sweeps
<1>2. sweep' = s /\ sweep.pc = "releasing" /\ lock[x] = Nobody
      /\ lock' = [lock EXCEPT ![x] = Sweep]
  BY DEF Release, Lock
<1> HIDE DEF s
<1>3. Ready(tree[x], Due(x))
  BY <1>2 DEF WInv, Work
<1>4. PICK w \in Tree :
        /\ tree' = [tree EXCEPT ![x] = w]
        /\ w.at \in {"none", "going"}
        /\ w.work \subseteq Written /\ UNION w.pushed \subseteq Written
        /\ Kept(w, mirror[x], Due(x))
        /\ Ready(w, Due(x))
  BY <1>1, <1>3, StartsToGo DEF Release
<1>5. \A u \in Threads : turn[u].in = x => ~Holds(turn[u])
  BY <1>1, <1>2, TakerIsSole, HoldersAreDistinct DEF Sole
<1>6. /\ lock' \in [Threads -> Threads \cup {Sweep, Nobody}] /\ lock'[x] = Sweep
      /\ \A y \in Threads \ {x} : lock'[y] = lock[y]
  BY <1>1, <1>2, GivenTypes
<1>7. UNCHANGED <<bound, mirror, idle, turn, wrote, risked, faults>>
  BY DEF Release
<1> QED
  BY <1>1, <1>2, <1>4, <1>5, <1>6, <1>7, SweptStep

LEMMA SweptKeeps == ASSUME WInv, Swept PROVE WInv'
<1> DEFINE x == sweep.on
           s == Rest(sweep.left)
<1>1. x \in Threads /\ s \in Sweeps /\ s.pc \in {"idle", "looking"}
  BY SweepIs, RestIs
<1>2. sweep' = s /\ sweep.pc = "removing" /\ lock' = [lock EXCEPT ![x] = Nobody]
  BY DEF Swept, Unlock
<1> HIDE DEF s
<1>3. tree[x].at \in {"none", "going"} /\ lock[x] = Sweep
  BY <1>2 DEF WInv, Stood, Locked
<1>4. PICK w \in Tree :
        /\ tree' = [tree EXCEPT ![x] = w]
        /\ w.at = "none"
        /\ w.work \subseteq Written /\ UNION w.pushed \subseteq Written
        /\ Kept(w, mirror[x], Due(x))
        /\ Ready(w, Due(x))
  BY <1>1, <1>3, IsGone DEF Swept
<1>5. \A u \in Threads : turn[u].in = x => ~Holds(turn[u])
  BY <1>3, HoldersAreDistinct DEF WInv, Locked
<1>6. /\ lock' \in [Threads -> Threads \cup {Sweep, Nobody}]
      /\ \A y \in Threads \ {x} : lock'[y] = lock[y]
  BY <1>1, <1>2, GivenTypes
<1>7. UNCHANGED <<bound, mirror, idle, turn, wrote, risked, faults>>
  BY DEF Swept
<1>8. /\ s.pc # "releasing" /\ x = sweep.on
      /\ s.pc = "removing" => s.on = x /\ lock'[x] = Sweep
      /\ w.at = "none" \/ (w.at = "going" /\ s.pc = "removing" /\ s.on = x)
  BY <1>1, <1>4
<1> QED
  BY <1>1, <1>2, <1>4, <1>5, <1>6, <1>7, <1>8, SweptStep

-----------------------------------------------------------------------------
(* The process dies, and the whole.                                        *)

LEMMA CrashKeeps == ASSUME WInv, Crash PROVE WInv'
<1>1. TypeOK /\ Known /\ Bents /\ Alone /\ Locked /\ Stood /\ Gone /\ Work
  BY DEF WInv
<1>2. PICK half \in {"torn", "gutted"}, kept \in SUBSET Edits :
        tree' = [x \in Threads |->
                   IF tree[x].at = "going"
                     THEN [tree[x] EXCEPT !.at = half, !.work = @ \cap kept]
                     ELSE tree[x]]
  BY DEF Crash
<1>3. /\ turn' = [x \in Threads |-> Out(x)]
      /\ lock' = [x \in Threads |-> Nobody]
      /\ sweep' = Resting
      /\ risked' = risked \cup UNION {wrote[x] : x \in {u \in Threads : tree[u].at = "going"}}
      /\ UNCHANGED <<bound, mirror, idle, wrote>>
  BY DEF Crash
<1>4. Resting \in Sweeps /\ Resting.pc \in {"idle", "looking"}
  BY RestIs DEF Resting
<1>5. ASSUME NEW x \in Threads, tree[x].at = "going"
      PROVE  /\ tree'[x] \in Tree /\ tree'[x].at = half
             /\ tree'[x].work \subseteq tree[x].work /\ tree'[x].pushed = tree[x].pushed
  <2>1. tree[x] \in Tree
    BY TreeIs
  <2>2. tree'[x] = [tree[x] EXCEPT !.at = half, !.work = @ \cap kept]
    BY <1>2, <1>5
  <2>3. ASSUME NEW w \in Tree
        PROVE  LET v == [w EXCEPT !.at = half, !.work = @ \cap kept] IN
               v \in Tree /\ v.at = half /\ v.work \subseteq w.work /\ v.pushed = w.pushed
    BY DEF Tree
  <2> QED
    BY <2>1, <2>2, <2>3
<1>6. ASSUME NEW x \in Threads, tree[x].at # "going"
      PROVE  tree'[x] = tree[x] /\ tree[x] \in Tree
  BY <1>2, <1>6, TreeIs
<1>7. \A x \in Threads : turn'[x] = Out(x)
  BY <1>3
<1>8. /\ tree' \in [Threads -> Tree] /\ turn' \in [Threads -> Turn]
  <2>1. \A x \in Threads : tree'[x] \in Tree
    BY <1>5, <1>6
  <2>2. tree' \in [Threads -> Tree]
    BY <1>2, <2>1
  <2> QED
    BY <2>2, <1>3, OutIsTurn
<1>9. TypeOK'
  <2>1. risked' \in SUBSET Edits
    BY <1>1, <1>3 DEF TypeOK
  <2>2. lock' \in [Threads -> Threads \cup {Sweep, Nobody}]
    BY <1>3
  <2>3. faults' \in [failures : 0 .. MaxFailures, crashes : 0 .. MaxCrashes]
    <3>1. /\ faults.crashes \in Nat /\ faults.crashes < MaxCrashes
          /\ faults' = [faults EXCEPT !.crashes = @ + 1]
      <4>1. /\ faults.crashes < MaxCrashes
            /\ faults' = [faults EXCEPT !.crashes = @ + 1]
        BY DEF Crash
      <4> QED
        BY <4>1, GivenTypes, FailuresAreBounded
    <3>2. faults.crashes + 1 \in 0 .. MaxCrashes
      BY <3>1, FailuresAreBounded
    <3> QED
      BY <3>1, <3>2, GivenTypes
  <2> QED
    BY <1>1, <1>3, <1>4, <1>8, <2>1, <2>2, <2>3 DEF TypeOK, Sweeps
<1>10. Known'
  <2>1. Written' = Written
    BY <1>3 DEF Written
  <2>2. ASSUME NEW x \in Threads
        PROVE  /\ tree'[x].work \subseteq Written /\ UNION tree'[x].pushed \subseteq Written
               /\ UNION mirror'[x] \subseteq Written /\ turn'[x].snap \subseteq Written
    BY <1>3, <1>5, <1>6, <1>7, TreeIs, OutIsTurn
  <2> QED
    BY <2>1, <2>2 DEF Known
<1>11. ASSUME NEW u \in Threads
       PROVE  /\ ~Holds(turn'[u]) /\ turn'[u].pc = "out" /\ ~Drives(u, turn'[u])
              /\ Bent(u, turn'[u]) /\ Meets(turn'[u], tree'[turn'[u].in].at)
  BY <1>7, OutIsTurn DEF Holds, Drives, Bent, Meets
<1>12. Bents' /\ Alone' /\ Locked'
  BY <1>3, <1>4, <1>11 DEF Bents, Alone, Locked
<1>13. Stood' /\ Gone'
  <2>1. \A x \in Threads : tree'[x].at # "going"
    BY <1>5, <1>6
  <2> QED
    BY <1>3, <1>4, <1>11, <2>1 DEF Stood, Gone
<1>14. Work'
  <2>1. \A x \in Threads : DueNext(x) \subseteq Due(x)
    BY <1>3 DEF Due, DueNext
  <2>2. ASSUME NEW x \in Threads
        PROVE  Kept(tree'[x], mirror'[x], DueNext(x))
    <3>1. CASE tree[x].at = "going"
      <4>1. DueNext(x) = {}
        BY <3>1, <1>3 DEF DueNext
      <4> QED
        BY <4>1 DEF Kept
    <3>2. CASE tree[x].at # "going"
      BY <3>2, <1>3, <1>6, <2>1, TreeIs, KeptLess
    <3> QED
      BY <3>1, <3>2
  <2>3. ASSUME NEW u \in Threads
        PROVE  /\ Snapped(turn'[u], tree'[turn'[u].in], mirror'[turn'[u].in], DueNext(turn'[u].in))
               /\ turn'[u].pc # "releasing"
    BY <1>11 DEF Snapped
  <2>4. sweep'.pc # "releasing"
    BY <1>3, <1>4
  <2> QED
    BY <2>2, <2>3, <2>4 DEF Work, Due, DueNext
<1> QED
  BY <1>9, <1>10, <1>12, <1>13, <1>14 DEF WInv

LEMMA InitHolds == Init => WInv
<1> SUFFICES ASSUME Init PROVE WInv
  OBVIOUS
<1>1. /\ \A x \in Threads : tree[x] = NoTree /\ mirror[x] = {} /\ wrote[x] = {} /\ turn[x] = Out(x)
      /\ risked = {} /\ sweep = Resting /\ bound = Bound
  BY DEF Init
<1>2. NoTree \in Tree /\ NoTree.at = "none" /\ NoTree.work = {} /\ NoTree.pushed = {}
  BY DEF NoTree, Tree, Ref
<1>3. Resting \in Sweeps /\ Resting.pc \in {"idle", "looking"}
  BY RestIs DEF Resting
<1>4. TypeOK
  BY <1>2, <1>3, OutIsTurn, BoundThreads, FailuresAreBounded DEF Init, TypeOK, Sweeps, Ref
<1>5. ASSUME NEW u \in Threads
      PROVE  /\ ~Holds(turn[u]) /\ turn[u].pc = "out" /\ ~Drives(u, turn[u]) /\ turn[u].snap = {}
             /\ Bent(u, turn[u]) /\ Meets(turn[u], tree[turn[u].in].at) /\ turn[u].in = u
  BY <1>1, OutIsTurn DEF Holds, Drives, Bent, Meets
<1>6. Known
  BY <1>1, <1>2, <1>5 DEF Known
<1>7. Bents /\ Alone /\ Locked /\ Stood /\ Gone
  BY <1>1, <1>2, <1>3, <1>5 DEF Bents, Alone, Locked, Stood, Gone
<1>8. Work
  <2>1. \A x \in Threads : Due(x) = {}
    BY <1>1 DEF Due
  <2>2. \A x \in Threads : Kept(tree[x], mirror[x], Due(x))
    BY <2>1 DEF Kept
  <2>3. \A u \in Threads :
          /\ Snapped(turn[u], tree[turn[u].in], mirror[turn[u].in], Due(turn[u].in))
          /\ turn[u].pc # "releasing"
    BY <1>5 DEF Snapped
  <2> QED
    BY <1>1, <1>3, <2>2, <2>3 DEF Work
<1> QED
  BY <1>4, <1>6, <1>7, <1>8 DEF WInv

LEMMA NextHolds == WInv /\ [Next]_vars => WInv'
<1> SUFFICES ASSUME WInv, [Next]_vars PROVE WInv'
  OBVIOUS
<1>1. ASSUME NEW t \in Threads, Run(t) PROVE WInv'
  BY <1>1, BeginKeeps, ExistingKeeps, MaterializeKeeps, ForkedKeeps, ForkFailsKeeps, LandKeeps,
     EditKeeps, MoveKeeps, StayKeeps, EndKeeps DEF Run
<1>2. ASSUME NEW t \in Threads, Leave(t) PROVE WInv'
  BY <1>2, SaveKeeps, PushKeeps, MarkKeeps, SaveFailsKeeps, AfterSaveKeeps, FileKeeps,
     DismissKeeps, DismissedKeeps DEF Leave
<1>3. ASSUME NEW t \in Threads, Idle(t) \/ Look(t) PROVE WInv'
  BY <1>3, IdleKeeps, LookKeeps
<1>4. CASE List \/ Check \/ Release \/ Swept \/ Crash
  BY <1>4, ListKeeps, CheckKeeps, ReleaseKeeps, SweptKeeps, CrashKeeps
<1>5. CASE UNCHANGED vars
  BY <1>5, NothingKeeps
<1> QED
  BY <1>1, <1>2, <1>3, <1>4, <1>5 DEF Next

-----------------------------------------------------------------------------
(* The theorems.                                                           *)

\* The invariant of trees, refs, locks and turns, for any threads, edits, failures
\* and deaths of the process.
THEOREM WorkspacesInvariant == Spec => []WInv
BY InitHolds, NextHolds, PTL DEF Spec

\* Every variable keeps its type; nobody holds a lock but turns and the sweep.
THEOREM TypeCorrect == Spec => []TypeOK
<1>1. WInv => TypeOK
  BY DEF WInv
<1> QED
  BY <1>1, WorkspacesInvariant, PTL

\* What an agent wrote is in its thread's tree or in the mirror (save, saved,
\* release, prune, materialize), however turns, the sweep, failures and deaths of
\* the process interleave, but for what the code exposes to a removal.
THEOREM KeepsWork == Spec => []WorkIsKept
<1>1. WInv => WorkIsKept
  <2>1. ASSUME WInv, NEW t \in Threads
        PROVE  wrote[t] \ risked \subseteq Safe(t)
    <3>1. /\ Kept(tree[t], mirror[t], wrote[t] \ risked)
          /\ tree[t].at \in {"none", "whole", "going", "torn", "gutted"}
      BY <2>1, TreeIs DEF Due
    <3>2. CASE tree[t].at = "whole"
      BY <3>1, <3>2 DEF Kept, Safe
    <3>3. CASE tree[t].at # "whole"
      <4>1. wrote[t] \ risked \subseteq UNION mirror[t]
        BY <3>1, <3>3 DEF Kept
      <4> QED
        BY <4>1 DEF Safe
    <3> QED
      BY <3>2, <3>3
  <2> QED
    BY <2>1 DEF WorkIsKept
<1> QED
  BY <1>1, WorkspacesInvariant, PTL
=============================================================================
