--------------------------- MODULE ChatTreeProofs ---------------------------
(***************************************************************************)
(* Proofs about ChatTree, for any runs and any number of faults.           *)
(***************************************************************************)
EXTENDS ChatTree, FiniteSetTheorems, TLAPS

-----------------------------------------------------------------------------
(* The inductive invariant.                                                *)

Begun == {r \in Runs : run[r] # "new"}

\* Each run that is counted is one that began; each that is inside is counted, and
\* no other is when none failed to enter.
Counted ==
  /\ Cardinality(Inside) <= holders
  /\ holders <= Cardinality(Begun)
  /\ faults.failures = 0 => holders = Cardinality(Inside)

\* A run that entered has its tree; a tree nobody is counted in was left by a dead
\* process.
Standing ==
  /\ \A r \in Runs : run[r] = "in" => exists
  /\ faults.crashes = 0 /\ holders = 0 => ~exists

Types ==
  /\ holders \in Nat
  /\ exists \in BOOLEAN
  /\ files \subseteq Runs
  /\ run \in [Runs -> {"new", "claimed", "in", "over"}]
  /\ faults \in [failures : 0 .. MaxFailures, crashes : 0 .. MaxCrashes]

CInv == Types /\ Counted /\ Standing

\* How many are inside, and began, are numbers.
LEMMA Numbers ==
  /\ IsFiniteSet(Inside) /\ IsFiniteSet(Begun)
  /\ Cardinality(Inside) \in Nat /\ Cardinality(Begun) \in Nat
<1>1. Inside \subseteq Runs /\ Begun \subseteq Runs
  BY DEF Inside, Begun
<1>2. IsFiniteSet(Inside) /\ IsFiniteSet(Begun)
  BY <1>1, RunsAreFinite, FS_Subset
<1> QED
  BY <1>2, FS_CardinalityType

\* One more, or one less, in a finite set of runs.
LEMMA OneMore ==
  ASSUME NEW S, IsFiniteSet(S), NEW r, r \notin S
  PROVE  IsFiniteSet(S \cup {r}) /\ Cardinality(S \cup {r}) = Cardinality(S) + 1
BY FS_AddElement

LEMMA OneLess ==
  ASSUME NEW S, IsFiniteSet(S), NEW r \in S
  PROVE  IsFiniteSet(S \ {r}) /\ Cardinality(S \ {r}) = Cardinality(S) - 1
BY FS_RemoveElement

\* Where a run is inside, somebody is counted; where two are, two.
LEMMA OneInside ==
  ASSUME CInv, NEW r \in Inside
  PROVE  holders \in Nat /\ 1 <= holders /\ 1 <= Cardinality(Inside)
<1>1. Cardinality(Inside) \in Nat /\ Cardinality(Inside) # 0
  BY Numbers, FS_EmptySet
<1> QED
  BY <1>1 DEF CInv, Types, Counted

LEMMA TwoInside ==
  ASSUME CInv, NEW r \in Inside, NEW q \in Inside, r # q
  PROVE  1 < holders
<1>1. IsFiniteSet(Inside) /\ Cardinality(Inside) \in Nat
  BY Numbers
<1>2. IsFiniteSet(Inside \ {r}) /\ Cardinality(Inside \ {r}) = Cardinality(Inside) - 1
  BY <1>1, OneLess
<1>3. q \in Inside \ {r}
  OBVIOUS
<1>4. Cardinality(Inside \ {r}) \in Nat /\ Cardinality(Inside \ {r}) # 0
  BY <1>2, <1>3, FS_EmptySet, FS_CardinalityType
<1> QED
  BY <1>1, <1>2, <1>4 DEF CInv, Types, Counted

LEMMA InitCInv == ASSUME Init PROVE CInv
<1>1. Inside = {} /\ Begun = {}
  BY DEF Init, Inside, Begun
<1>2. Cardinality(Inside) = 0 /\ Cardinality(Begun) = 0
  BY <1>1, FS_EmptySet
<1>3. Types
  <2>1. 0 \in 0 .. MaxFailures /\ 0 \in 0 .. MaxCrashes
    BY ChatFaultsAreBounded
  <2>2. faults \in [failures : 0 .. MaxFailures, crashes : 0 .. MaxCrashes]
    BY <2>1 DEF Init
  <2> QED
    BY <2>2 DEF Init, Types
<1> QED
  BY <1>2, <1>3 DEF Init, CInv, Counted, Standing

-----------------------------------------------------------------------------
(* Each step preserves it.                                                 *)

LEMMA ClaimCInv == ASSUME CInv, NEW r \in Runs, Claim(r) PROVE CInv'
<1>1. Inside' = Inside \cup {r} /\ Begun' = Begun \cup {r} /\ r \notin Inside /\ r \notin Begun
  BY DEF CInv, Types, Claim, Goto, Inside, Begun
<1>2. /\ Cardinality(Inside') = Cardinality(Inside) + 1
      /\ Cardinality(Begun') = Cardinality(Begun) + 1
  BY <1>1, Numbers, OneMore
<1>3. Types'
  <2>1. exists' \in BOOLEAN /\ files' \subseteq Runs
    BY DEF CInv, Types, Claim
  <2>2. run' \in [Runs -> {"new", "claimed", "in", "over"}]
    BY DEF CInv, Types, Claim, Goto
  <2> QED
    BY <2>1, <2>2 DEF CInv, Types, Claim
<1>4. Counted'
  BY <1>2, Numbers DEF CInv, Types, Counted, Claim
<1>5. Standing'
  <2>1. holders' # 0
    BY DEF CInv, Types, Claim
  <2>2. ASSUME NEW q \in Runs, run'[q] = "in" PROVE exists'
    <3>1. q \in Inside /\ run[q] = "in"
      BY <2>2 DEF CInv, Types, Claim, Goto, Inside
    <3>2. holders # 0
      BY <3>1, OneInside
    <3> QED
      BY <3>1, <3>2 DEF CInv, Standing, Claim
  <2> QED
    BY <2>1, <2>2 DEF Standing
<1> QED
  BY <1>3, <1>4, <1>5 DEF CInv

LEMMA EnterCInv == ASSUME CInv, NEW r \in Runs, Enter(r) PROVE CInv'
<1>1. Inside' = Inside /\ Begun' = Begun /\ r \in Inside
  BY DEF CInv, Types, Enter, Goto, Inside, Begun
<1>2. Types'
  BY DEF CInv, Types, Enter, Goto
<1>3. Counted'
  BY <1>1 DEF CInv, Counted, Enter
<1>4. Standing'
  BY <1>1, OneInside DEF Standing, Enter
<1> QED
  BY <1>2, <1>3, <1>4 DEF CInv

\* A run that does not get in stays counted, and from then on the count may be more
\* than the runs inside.
LEMMA EnterFailsCInv == ASSUME CInv, NEW r \in Runs, EnterFails(r) PROVE CInv'
<1>1. Inside' = Inside \ {r} /\ Begun' = Begun /\ r \in Inside
  BY DEF CInv, Types, EnterFails, Goto, Inside, Begun
<1>2. Cardinality(Inside') = Cardinality(Inside) - 1
  BY <1>1, Numbers, OneLess
<1>3. Types' /\ faults'.failures # 0
  BY ChatFaultsAreBounded DEF CInv, Types, EnterFails, Goto
<1>4. Counted'
  BY <1>1, <1>2, <1>3, Numbers DEF CInv, Types, Counted, EnterFails
<1>5. Standing'
  BY DEF CInv, Types, Standing, EnterFails, Goto
<1> QED
  BY <1>3, <1>4, <1>5 DEF CInv

LEMMA WriteCInv == ASSUME CInv, NEW r \in Runs, Write(r) PROVE CInv'
<1>1. Inside' = Inside /\ Begun' = Begun
  BY DEF Write, Inside, Begun
<1> QED
  BY <1>1 DEF CInv, Types, Counted, Standing, Write

LEMMA DiscardCInv == ASSUME CInv, NEW r \in Runs, Discard(r) PROVE CInv'
<1>1. Inside' = Inside \ {r} /\ Begun' = Begun /\ r \in Inside
  BY DEF CInv, Types, Discard, Goto, Inside, Begun
<1>2. Cardinality(Inside') = Cardinality(Inside) - 1
  BY <1>1, Numbers, OneLess
<1>3. 1 <= holders /\ holders \in Nat /\ holders' = holders - 1
  BY <1>1, OneInside DEF Discard
<1>4. Types'
  <2>1. exists' \in BOOLEAN /\ files' \subseteq Runs
    BY DEF CInv, Types, Discard
  <2>2. run' \in [Runs -> {"new", "claimed", "in", "over"}]
    BY DEF CInv, Types, Discard, Goto
  <2> QED
    BY <1>3, <2>1, <2>2 DEF CInv, Types, Discard
<1>5. Counted'
  BY <1>1, <1>2, <1>3, Numbers DEF CInv, Types, Counted, Discard
<1>6. Standing'
  <2>1. ASSUME NEW q \in Runs, run'[q] = "in" PROVE exists'
    <3>1. q \in Inside /\ q # r /\ run[q] = "in"
      BY <2>1 DEF CInv, Types, Discard, Goto, Inside
    <3>2. holders > 1
      BY <1>1, <1>3, <3>1, TwoInside
    <3> QED
      BY <3>1, <3>2 DEF CInv, Standing, Discard
  <2>2. holders' = 0 => ~exists'
    BY <1>3 DEF Discard
  <2> QED
    BY <2>1, <2>2 DEF Standing
<1> QED
  BY <1>4, <1>5, <1>6 DEF CInv

LEMMA CrashCInv == ASSUME CInv, Crash PROVE CInv'
<1>1. Inside' = {}
  BY DEF CInv, Types, Crash, Inside
<1>2. Cardinality(Inside') = 0
  BY <1>1, FS_EmptySet
<1>3. Types' /\ holders' = 0 /\ faults'.crashes # 0
  BY ChatFaultsAreBounded DEF CInv, Types, Crash
<1>4. Cardinality(Begun') \in Nat
  <2>1. Begun' \subseteq Runs
    BY DEF Begun
  <2> QED
    BY <2>1, RunsAreFinite, FS_Subset, FS_CardinalityType
<1>5. Counted'
  BY <1>2, <1>3, <1>4 DEF Counted
<1>6. Standing'
  BY <1>1, <1>3 DEF Standing, Inside
<1> QED
  BY <1>3, <1>5, <1>6 DEF CInv

LEMMA StepCInv == CInv /\ [Next]_vars => CInv'
<1> SUFFICES ASSUME CInv, [Next]_vars PROVE CInv'
  OBVIOUS
<1>1. ASSUME NEW r \in Runs,
             Claim(r) \/ Enter(r) \/ EnterFails(r) \/ Write(r) \/ Discard(r)
      PROVE  CInv'
  BY <1>1, ClaimCInv, EnterCInv, EnterFailsCInv, WriteCInv, DiscardCInv
<1>2. CASE UNCHANGED vars
  BY <1>2 DEF vars, CInv, Types, Counted, Standing, Inside, Begun
<1> QED
  BY <1>1, <1>2, CrashCInv DEF Next

\* The invariant of every reachable state.
THEOREM Invariant == Spec => []CInv
<1>1. Init => CInv
  BY InitCInv
<1> QED
  BY <1>1, StepCInv, PTL DEF Spec

-----------------------------------------------------------------------------
(* The theorems.                                                           *)

\* Every reachable state is well typed: no more are counted than there are runs.
THEOREM TypeCorrect == Spec => []TypeOK
<1>1. CInv => TypeOK
  <2> SUFFICES ASSUME CInv PROVE TypeOK
    OBVIOUS
  <2>1. Begun \subseteq Runs
    BY DEF Begun
  <2>2. Cardinality(Begun) <= Cardinality(Runs) /\ Cardinality(Runs) \in Nat
    BY <2>1, RunsAreFinite, FS_Subset, FS_CardinalityType
  <2> QED
    BY <2>2, Numbers DEF CInv, Types, Counted, TypeOK
<1> QED
  BY <1>1, Invariant, PTL

\* No run loses the tree it is in, or what it wrote there, to runs that come, go,
\* fail or are killed meanwhile (claim, discard).
THEOREM KeepsTheirTree == Spec => TreeIsTheirs
<1>1. ASSUME CInv, CInv', [Next]_vars, NEW r \in Runs, run[r] = "in", run'[r] = "in"
      PROVE  exists' /\ (r \in files => r \in files')
  <2>1. exists'
    BY <1>1 DEF CInv, Standing
  <2>2. r \in Inside
    BY <1>1 DEF Inside
  <2>3. ASSUME NEW q \in Runs, Claim(q) PROVE files' = files
    BY <1>1, <2>2, <2>3, OneInside DEF Claim
  <2>4. ASSUME NEW q \in Runs, Discard(q) PROVE files' = files
    <3>1. q \in Inside /\ q # r
      BY <1>1, <2>4 DEF CInv, Types, Discard, Goto, Inside
    <3>2. 1 < holders /\ holders \in Nat
      BY <1>1, <2>2, <3>1, OneInside, TwoInside
    <3> QED
      BY <2>4, <3>2 DEF Discard
  <2>5. ASSUME NEW q \in Runs, Enter(q) \/ EnterFails(q) \/ Write(q)
        PROVE  files \subseteq files'
    BY <2>5 DEF Enter, EnterFails, Write
  <2>6. Crash \/ UNCHANGED vars => files' = files
    BY DEF Crash, vars
  <2> QED
    BY <1>1, <2>1, <2>3, <2>4, <2>5, <2>6 DEF Next
<1>2. CInv /\ CInv' /\ [Next]_vars =>
        [\A r \in Runs : run[r] = "in" /\ run'[r] = "in" =>
           exists' /\ (r \in files => r \in files')]_vars
  BY <1>1
<1> QED
  BY <1>2, Invariant, PTL DEF Spec, TreeIsTheirs

\* Where no run failed to enter, one that joins when the others have ended, or were
\* killed, starts in an empty tree (claim).
THEOREM StartsFresh == Spec => StartsEmpty
<1>1. ASSUME CInv, [Next]_vars, NEW r \in Runs, run[r] = "new", run'[r] = "claimed",
             Inside = {}, faults.failures = 0
      PROVE  files' = {}
  <2>1. holders = 0
    BY <1>1, FS_EmptySet DEF CInv, Counted
  <2>2. Claim(r)
    <3>1. ASSUME NEW q \in Runs, q # r,
                 Claim(q) \/ Enter(q) \/ EnterFails(q) \/ Write(q) \/ Discard(q)
          PROVE  run'[r] = run[r]
      BY <3>1, <1>1 DEF CInv, Types, Claim, Enter, EnterFails, Write, Discard, Goto
    <3>2. ~(Enter(r) \/ EnterFails(r) \/ Write(r) \/ Discard(r))
      BY <1>1 DEF Enter, EnterFails, Write, Discard
    <3>3. Crash \/ UNCHANGED vars => run'[r] = "new"
      BY <1>1 DEF Crash, vars
    <3> QED
      BY <1>1, <3>1, <3>2, <3>3 DEF Next
  <2> QED
    BY <2>1, <2>2 DEF Claim
<1>2. CInv /\ [Next]_vars =>
        [\A r \in Runs :
           run[r] = "new" /\ run'[r] = "claimed" /\ Inside = {} /\ faults.failures = 0
             => files' = {}]_vars
  BY <1>1
<1> QED
  BY <1>2, Invariant, PTL DEF Spec, StartsEmpty

\* Where every run entered, and no process died, the tree goes with the last (discard).
THEOREM GoesWithTheLast == Spec => []EnteredTreeIsGone
<1>1. CInv => EnteredTreeIsGone
  BY FS_EmptySet DEF CInv, Counted, Standing, EnteredTreeIsGone, TreeIsGone
<1> QED
  BY <1>1, Invariant, PTL
=============================================================================
