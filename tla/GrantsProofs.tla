---------------------------- MODULE GrantsProofs ----------------------------
(***************************************************************************)
(* Proofs about Grants, for any requests, callbacks, operations, grants    *)
(* and faults.                                                             *)
(***************************************************************************)
EXTENDS Grants, TLAPS

-----------------------------------------------------------------------------
(* The inductive invariant.                                                *)

(* A grant just issued and not stored yet is newer than the stored one, and    *)
(* its refresh token is not spent.                                             *)
Fresh(g) ==
    g \in 1 .. issued /\ g >= row.grant /\ (g \in spent => g \in excused)

(* Who asks the provider holds the lock. A refresh is for the stored grant,    *)
(* which has run out; what is to be retired is refused, or cannot be refreshed.*)
CallOK(c) ==
    /\ call[c].pc \in {"asking", "granted"} => lock = c
    /\ call[c].pc = "asking" =>
         row.status = "active" /\ row.grant = call[c].token /\ call[c].token \in aged
    /\ call[c].pc = "granted" => Fresh(call[c].token) /\ row.grant \in Grant
    /\ call[c].pc = "retiring" => call[c].token \in dead \cup (aged \cap Bare)

BackOK(r) ==
    /\ back[r].pc # "idle" => back[r].op \in Ops
    /\ back[r].pc \in {"exchanging", "polling", "granted"} =>
         lock = r /\ back[r].op \notin declined
    /\ back[r].pc = "polling" => back[r].op \in Devices
    /\ back[r].pc = "granted" => Fresh(back[r].token)

(* A stored grant whose refresh token is spent has its successor on the way.   *)
RowOK ==
    /\ row.grant <= issued
    /\ row.status = "active" /\ row.grant \in spent =>
         row.grant \in excused \/ \E c \in Calls : call[c].pc = "granted"

(* What was turned down, and a code that was exchanged, is consumed.           *)
OpsOK ==
    /\ \A o \in declined : ops[o] = "spent"
    /\ \A o \in Codes : exchanged[o] = 0 \/ (exchanged[o] = 1 /\ ops[o] = "spent")

GInv ==
    /\ TypeOK
    /\ \A c \in Calls : CallOK(c)
    /\ \A r \in Returns : BackOK(r)
    /\ RowOK /\ OpsOK /\ RetiredIsDead
    /\ spent \subseteq 1 .. issued

LEMMA InitHolds == Init => GInv
<1> SUFFICES ASSUME Init PROVE GInv
  OBVIOUS
<1>1. TypeOK
  BY GrantsAssumption DEF Init, TypeOK, Statuses, Grant, Ops
<1>2. OpsOK
  BY DEF Init, OpsOK, Ops
<1>3. \A c \in Calls : CallOK(c)
  BY DEF Init, CallOK
<1>4. \A r \in Returns : BackOK(r)
  BY DEF Init, BackOK
<1>5. RowOK /\ RetiredIsDead
  BY DEF Init, RowOK, RetiredIsDead
<1> QED
  BY <1>1, <1>2, <1>3, <1>4, <1>5 DEF Init, GInv

-----------------------------------------------------------------------------
(* The provider's and the user's own steps.                                *)

LEMMA ProviderStep ==
    ASSUME GInv, NEW g \in Grant, Ages(g) \/ Expires(g) \/ Revoked(g)
    PROVE  GInv'
<1>1. UNCHANGED <<lock, row, ops, call, back, issued, exchanged, declined, faults>>
  BY DEF Ages, Expires, Revoked, stored, history
<1>2. /\ aged \subseteq aged' /\ dead \subseteq dead' /\ excused \subseteq excused'
      /\ aged' \subseteq Grant /\ dead' \subseteq Grant /\ excused' \subseteq Grant
      /\ spent \subseteq spent' /\ spent' \subseteq 1 .. issued /\ spent' \subseteq Grant
      /\ spent' \ spent \subseteq excused'
  BY DEF GInv, TypeOK, Ages, Expires, Revoked, history
<1>3. TypeOK'
  BY <1>1, <1>2 DEF GInv, TypeOK
<1>4. ASSUME NEW h PROVE Fresh(h) => Fresh(h)'
  BY <1>1, <1>2 DEF Fresh
<1>5. \A c \in Calls : CallOK(c)'
  BY <1>1, <1>2, <1>4 DEF GInv, CallOK
<1>6. \A r \in Returns : BackOK(r)'
  BY <1>1, <1>4 DEF GInv, BackOK
<1>7. (RowOK /\ OpsOK /\ RetiredIsDead)' /\ spent' \subseteq 1 .. issued'
  BY <1>1, <1>2 DEF GInv, RowOK, OpsOK, RetiredIsDead
<1> QED
  BY <1>3, <1>5, <1>6, <1>7 DEF GInv

(* An authorization is started, cancelled or runs out; a callback that only    *)
(* changes the operations goes the same way.                                   *)
LEMMA OpsStep ==
    ASSUME GInv, \/ \E o \in Ops : GoesStale(o) \/ Start(o)
                 \/ Cancel
    PROVE  GInv'
<1>1. UNCHANGED <<lock, row, call, back, issued, aged, dead, spent, excused, exchanged, faults>>
  BY DEF GoesStale, Start, Cancel, provider, history
<1>2. ops' \in [Ops -> {"none", "open", "stale", "spent"}] /\ declined' \subseteq Ops
  BY DEF GInv, TypeOK, GoesStale, Start, Cancel, history
<1>3. TypeOK'
  BY <1>1, <1>2 DEF GInv, TypeOK
<1>4. \A o \in Ops : ops[o] = "spent" => ops'[o] = "spent"
  BY DEF GInv, TypeOK, GoesStale, Start, Cancel
<1>5. OpsOK'
  <2>1. \A o \in declined' : ops'[o] = "spent"
    BY <1>4 DEF GInv, TypeOK, OpsOK, GoesStale, Start, Cancel, history
  <2> QED
    BY <1>1, <1>4, <2>1 DEF GInv, OpsOK, Ops
<1>6. declined' = declined \/ (lock = Nobody)
  BY DEF GoesStale, Start, Cancel, history
<1>7. \A r \in Returns : BackOK(r)'
  BY <1>1, <1>6, GrantsAssumption DEF GInv, BackOK, Fresh
<1>8. \A c \in Calls : CallOK(c)'
  BY <1>1 DEF GInv, CallOK, Fresh
<1>9. (RowOK /\ RetiredIsDead)' /\ spent' \subseteq 1 .. issued'
  BY <1>1 DEF GInv, RowOK, RetiredIsDead
<1> QED
  BY <1>3, <1>5, <1>7, <1>8, <1>9 DEF GInv

-----------------------------------------------------------------------------
(* Requests                                                                *)

CallPcs == {"idle", "waiting", "asking", "granted", "using", "retiring", "over"}

(* A request that moves and touches nothing but, perhaps, the lock it takes or *)
(* lets go of.                                                                 *)
LEMMA CallMoves ==
    ASSUME GInv, NEW c \in Calls, NEW pc \in CallPcs \ {"granted"}, NEW g \in {0} \cup Grant,
           Goes(c, pc, g),
           UNCHANGED <<row, ops, back, issued, aged, dead, spent, exchanged, declined>>,
           excused \subseteq excused', excused' \subseteq Grant,
           call[c].pc = "granted" => row.grant \in excused',
           faults' \in 0 .. MaxFaults,
           \/ lock' = lock
           \/ lock = Nobody /\ lock' = c
           \/ lock = c /\ lock' = Nobody /\ pc # "asking",
           pc = "asking" =>
              lock' = c /\ row.status = "active" /\ row.grant = g /\ g \in aged,
           pc = "retiring" => g \in dead \cup (aged \cap Bare)
    PROVE  GInv'
<1>1. /\ call'[c] = [pc |-> pc, token |-> g]
      /\ \A d \in Calls : d # c => call'[d] = call[d]
  BY DEF GInv, TypeOK, Goes
<1>2. TypeOK'
  <2>1. call' \in [Calls -> [pc : CallPcs, token : {0} \cup Grant]]
    BY DEF GInv, TypeOK, Goes, CallPcs
  <2>2. lock' \in Calls \cup Returns \cup {Nobody}
    BY DEF GInv, TypeOK
  <2> QED
    BY <2>1, <2>2 DEF GInv, TypeOK, CallPcs
<1>3. \A h : Fresh(h) => Fresh(h)'
  BY DEF Fresh
<1>4. ASSUME NEW d \in Calls PROVE CallOK(d)'
  <2>1. CASE d = c
    BY <1>1, <2>1 DEF CallOK, CallPcs
  <2>2. CASE d # c
    <3>1. CallOK(d) /\ (lock = d => lock' = d)
      BY <2>2, GrantsAssumption DEF GInv
    <3> QED
      BY <1>1, <1>3, <2>2, <3>1 DEF CallOK
  <2> QED
    BY <2>1, <2>2
<1>5. ASSUME NEW r \in Returns PROVE BackOK(r)'
  <2>1. BackOK(r) /\ (lock = r => lock' = r)
    BY GrantsAssumption DEF GInv
  <2> QED
    BY <1>3, <2>1 DEF BackOK
<1>6. RowOK'
  <2>1. CASE call[c].pc = "granted"
    BY <2>1 DEF GInv, RowOK
  <2>2. CASE call[c].pc # "granted"
    BY <1>1, <2>2 DEF GInv, RowOK
  <2> QED
    BY <2>1, <2>2
<1>7. (OpsOK /\ RetiredIsDead)' /\ spent' \subseteq 1 .. issued'
  BY DEF GInv, OpsOK, RetiredIsDead
<1> QED
  BY <1>2, <1>4, <1>5, <1>6, <1>7 DEF GInv

LEMMA LookStep ==
    ASSUME GInv, NEW c \in Calls, Look(c)
    PROVE  GInv'
<1>1. /\ UNCHANGED <<lock, row, ops, back, issued, aged, dead, spent, excused, exchanged,
                    declined, faults>>
      /\ call[c].pc # "granted" /\ row.grant \in {0} \cup Grant
      /\ faults \in 0 .. MaxFaults /\ excused \subseteq Grant
  BY DEF GInv, TypeOK, Look, stored, provider, history
<1>2. \/ Goes(c, "over", 0) \/ Goes(c, "using", row.grant) \/ Goes(c, "waiting", row.grant)
      \/ Goes(c, "retiring", row.grant) /\ row.grant \in aged \cap Bare
  BY DEF Look
<1> QED
  BY <1>1, <1>2, CallMoves DEF CallPcs

LEMMA TakeStep ==
    ASSUME GInv, NEW c \in Calls, Take(c)
    PROVE  GInv'
<1>1. /\ UNCHANGED <<row, ops, back, issued, aged, dead, spent, excused, exchanged,
                    declined, faults>>
      /\ call[c].pc # "granted" /\ row.grant \in {0} \cup Grant
      /\ faults \in 0 .. MaxFaults /\ excused \subseteq Grant
  BY DEF GInv, TypeOK, Take, stored, provider, history
<1>2. \/ lock' = lock /\ (Goes(c, "over", 0) \/ Goes(c, "using", row.grant))
      \/ /\ lock = Nobody /\ lock' = c
         /\ Goes(c, "asking", row.grant)
         /\ row.status = "active" /\ row.grant \in aged
  BY DEF Take, Current, Held
<1> QED
  BY <1>1, <1>2, CallMoves DEF CallPcs

(* The steps a holder of the lock takes, it takes alone.                       *)
LEMMA Alone ==
    ASSUME GInv, NEW x, lock = x
    PROVE  /\ \A c \in Calls : c # x => call[c].pc \notin {"asking", "granted"}
           /\ \A r \in Returns :
                r # x => back[r].pc \notin {"exchanging", "polling", "granted"}
BY DEF GInv, CallOK, BackOK

LEMMA RotatedStep ==
    ASSUME GInv, NEW c \in Calls, Rotated(c)
    PROVE  GInv'
<1> DEFINE g == call[c].token
<1> PICK n : n = issued + 1
  OBVIOUS
<1>1. /\ lock = c /\ row.status = "active" /\ row.grant = g /\ g \in Grant
      /\ g \notin spent /\ issued \in {0} \cup Grant /\ n \in Grant /\ g <= issued
  BY GrantsAssumption DEF Rotated, GInv, CallOK, RowOK, TypeOK, Grant
<1>2. /\ UNCHANGED <<lock, row, ops, back, aged, excused, exchanged, declined, faults>>
      /\ issued' = n /\ spent' = spent \cup {g} /\ dead \subseteq dead'
      /\ dead' \subseteq Grant
      /\ call' = [call EXCEPT ![c] = [pc |-> "granted", token |-> n]]
  BY <1>1 DEF Rotated, Goes, stored, history, GInv, TypeOK
<1>3. /\ call'[c] = [pc |-> "granted", token |-> n]
      /\ \A d \in Calls : d # c => call'[d] = call[d]
  BY <1>2 DEF GInv, TypeOK
<1>4. spent' \subseteq 1 .. issued' /\ n \notin spent' /\ n >= row.grant /\ n \in 1 .. issued'
  <2>1. issued \in Nat /\ g \in Nat /\ g >= 1 /\ spent \subseteq 1 .. issued
    BY <1>1, GrantsAssumption DEF GInv, Grant
  <2>2. g \in 1 .. n /\ n >= g /\ n \in 1 .. n /\ n # g /\ 1 .. issued \subseteq 1 .. n
    BY <1>1, <2>1
  <2>3. n \notin spent
    BY <2>1
  <2> QED
    BY <1>1, <1>2, <2>1, <2>2, <2>3
<1>5. TypeOK'
  <2>1. call' \in [Calls -> [pc : CallPcs, token : {0} \cup Grant]]
    BY <1>1, <1>2 DEF GInv, TypeOK, CallPcs
  <2>2. spent' \subseteq Grant
    BY <1>1, <1>2 DEF GInv, TypeOK
  <2> QED
    BY <1>1, <1>2, <2>1, <2>2 DEF GInv, TypeOK, CallPcs
<1>6. ASSUME NEW d \in Calls PROVE CallOK(d)'
  <2>1. CASE d = c
    <3>1. Fresh(n)'
      BY <1>2, <1>4 DEF Fresh
    <3> QED
      BY <1>1, <1>2, <1>3, <2>1, <3>1 DEF CallOK
  <2>2. CASE d # c
    BY <1>1, <1>2, <1>3, <2>2, Alone DEF GInv, CallOK
  <2> QED
    BY <2>1, <2>2
<1>7. ASSUME NEW r \in Returns PROVE BackOK(r)'
  <2>1. r # c
    BY GrantsAssumption
  <2> QED
    BY <1>1, <1>2, <2>1, Alone DEF GInv, BackOK
<1>8. RowOK'
  <2>1. row.grant <= issued'
    BY <1>1, <1>2, GrantsAssumption DEF Grant
  <2> QED
    BY <1>2, <1>3, <2>1 DEF RowOK
<1>9. (OpsOK /\ RetiredIsDead)'
  BY <1>2 DEF GInv, OpsOK, RetiredIsDead
<1> QED
  BY <1>4, <1>5, <1>6, <1>7, <1>8, <1>9 DEF GInv

(* The stored connection is called invalid, or left alone.                     *)
LEMMA RetiredStep ==
    ASSUME GInv, NEW c \in Calls, Rejected(c) \/ Retire(c)
    PROVE  GInv'
<1>1. /\ UNCHANGED <<ops, back, issued, aged, dead, spent, excused, exchanged, declined, faults>>
      /\ call' = [call EXCEPT ![c] = [pc |-> "over", token |-> 0]]
      /\ lock' = IF lock = c THEN Nobody ELSE lock
  BY DEF Rejected, Retire, Goes, Let, provider, history
<1>2. /\ lock \in {c, Nobody}
      /\ row' = row \/ /\ row' = [row EXCEPT !.status = "invalid"]
                       /\ row.grant \in dead \cup (aged \cap (spent \cup Bare))
  BY DEF Rejected, Retire, Invalid, IsStored, GInv, CallOK
<1>3. call'[c].pc = "over" /\ \A d \in Calls : d # c => call'[d] = call[d]
  BY <1>1 DEF GInv, TypeOK
<1>4. row' \in [grant : {0} \cup Grant, status : Statuses] /\ row'.grant = row.grant
      /\ row'.status \in {row.status, "invalid"}
  BY <1>2 DEF GInv, TypeOK, Statuses
<1>5. TypeOK'
  <2>1. call' \in [Calls -> [pc : CallPcs, token : {0} \cup Grant]]
    BY <1>1 DEF GInv, TypeOK, CallPcs
  <2>2. lock' \in Calls \cup Returns \cup {Nobody}
    BY <1>1 DEF GInv, TypeOK
  <2> QED
    BY <1>1, <1>4, <2>1, <2>2 DEF GInv, TypeOK, CallPcs
<1>6. ASSUME NEW d \in Calls PROVE CallOK(d)'
  <2>1. CASE d = c
    BY <1>3, <2>1 DEF CallOK
  <2>2. CASE d # c
    <3>1. call[d].pc \notin {"asking", "granted"}
      BY <1>2, <2>2, Alone, GrantsAssumption
    <3> QED
      BY <1>1, <1>3, <2>2, <3>1 DEF GInv, CallOK
  <2> QED
    BY <2>1, <2>2
<1>7. ASSUME NEW r \in Returns PROVE BackOK(r)'
  <2>1. back[r].pc \notin {"exchanging", "polling", "granted"}
    BY <1>2, Alone, GrantsAssumption
  <2> QED
    BY <1>1, <2>1 DEF GInv, BackOK
<1>8. RowOK'
  <2>1. CASE call[c].pc = "granted"
    BY <2>1 DEF Rejected, Retire
  <2>2. CASE call[c].pc # "granted"
    BY <1>1, <1>3, <1>4, <2>2 DEF GInv, RowOK
  <2> QED
    BY <2>1, <2>2
<1>9. RetiredIsDead'
  BY <1>1, <1>2, <1>4 DEF GInv, RetiredIsDead
<1>10. OpsOK' /\ spent' \subseteq 1 .. issued'
  BY <1>1 DEF GInv, OpsOK
<1> QED
  BY <1>5, <1>6, <1>7, <1>8, <1>9, <1>10 DEF GInv

LEMMA AnswerLostStep ==
    ASSUME GInv, NEW c \in Calls, AnswerLost(c)
    PROVE  GInv'
<1> DEFINE g == call[c].token
<1>1. /\ lock = c /\ row.grant = g /\ g \in Grant /\ g <= issued
      /\ issued \in Nat
  BY GrantsAssumption DEF AnswerLost, GInv, CallOK, RowOK, TypeOK, Grant
<1>2. /\ UNCHANGED <<row, ops, back, issued, aged, dead, exchanged, declined>>
      /\ lock' = Nobody /\ faults' \in 0 .. MaxFaults
      /\ spent' = spent \cup {g} /\ excused' = excused \cup {g}
      /\ call' = [call EXCEPT ![c] = [pc |-> "over", token |-> 0]]
  BY <1>1, GrantsAssumption DEF AnswerLost, Goes, LetFailed, Let, Fault, stored, GInv, TypeOK
<1>3. call'[c].pc = "over" /\ \A d \in Calls : d # c => call'[d] = call[d]
  BY <1>2 DEF GInv, TypeOK
<1>4. TypeOK'
  <2>1. call' \in [Calls -> [pc : CallPcs, token : {0} \cup Grant]]
    BY <1>2 DEF GInv, TypeOK, CallPcs
  <2> QED
    BY <1>1, <1>2, <2>1 DEF GInv, TypeOK, CallPcs
<1>5. ASSUME NEW d \in Calls PROVE CallOK(d)'
  <2>1. CASE d = c
    BY <1>3, <2>1 DEF CallOK
  <2>2. CASE d # c
    BY <1>1, <1>2, <1>3, <2>2, Alone DEF GInv, CallOK
  <2> QED
    BY <2>1, <2>2
<1>6. ASSUME NEW r \in Returns PROVE BackOK(r)'
  <2>1. r # c
    BY GrantsAssumption
  <2> QED
    BY <1>1, <1>2, <2>1, Alone DEF GInv, BackOK
<1>7. RowOK' /\ spent' \subseteq 1 .. issued'
  <2>1. g \in 1 .. issued
    BY <1>1 DEF Grant
  <2> QED
    BY <1>1, <1>2, <2>1 DEF GInv, RowOK
<1>8. (OpsOK /\ RetiredIsDead)'
  BY <1>2 DEF GInv, OpsOK, RetiredIsDead
<1> QED
  BY <1>4, <1>5, <1>6, <1>7, <1>8 DEF GInv

LEMMA StoreStep ==
    ASSUME GInv, NEW c \in Calls, Store(c)
    PROVE  GInv'
<1> DEFINE g == call[c].token
<1>1. lock = c /\ Fresh(g) /\ g \in {0} \cup Grant
  BY DEF Store, GInv, CallOK, TypeOK
<1>2. /\ UNCHANGED <<ops, back, issued, aged, dead, spent, excused, exchanged, declined, faults>>
      /\ lock' = Nobody /\ row' = [grant |-> g, status |-> "active"]
      /\ call' = [call EXCEPT ![c] = [pc |-> "using", token |-> g]]
  BY <1>1 DEF Store, Goes, Granted, Let, provider, history
<1>3. call'[c].pc = "using" /\ \A d \in Calls : d # c => call'[d] = call[d]
  BY <1>2 DEF GInv, TypeOK
<1>4. TypeOK'
  <2>1. call' \in [Calls -> [pc : CallPcs, token : {0} \cup Grant]]
    BY <1>1, <1>2 DEF GInv, TypeOK, CallPcs
  <2>2. row' \in [grant : {0} \cup Grant, status : Statuses]
    BY <1>1, <1>2 DEF Statuses
  <2> QED
    BY <1>1, <1>2, <2>1, <2>2 DEF GInv, TypeOK, CallPcs
<1>5. ASSUME NEW d \in Calls PROVE CallOK(d)'
  <2>1. CASE d = c
    BY <1>3, <2>1 DEF CallOK
  <2>2. CASE d # c
    BY <1>1, <1>2, <1>3, <2>2, Alone DEF GInv, CallOK
  <2> QED
    BY <2>1, <2>2
<1>6. ASSUME NEW r \in Returns PROVE BackOK(r)'
  <2>1. r # c
    BY GrantsAssumption
  <2> QED
    BY <1>1, <1>2, <2>1, Alone DEF GInv, BackOK
<1>7. (RowOK /\ RetiredIsDead)' /\ spent' \subseteq 1 .. issued'
  <2>1. issued \in Int
    BY DEF GInv, TypeOK, Grant
  <2> QED
    BY <1>1, <1>2, <2>1 DEF GInv, RowOK, RetiredIsDead, Fresh
<1>8. OpsOK'
  BY <1>2 DEF GInv, OpsOK
<1> QED
  BY <1>4, <1>5, <1>6, <1>7, <1>8 DEF GInv

LEMMA RequestStep ==
    ASSUME GInv, NEW c \in Calls, Unanswered(c) \/ Send(c) \/ CallCut(c)
    PROVE  GInv'
<1>1. /\ UNCHANGED <<row, ops, back, issued, aged, dead, spent, exchanged, declined>>
      /\ excused \subseteq excused'
      /\ lock' = lock \/ (lock = c /\ lock' = Nobody)
  BY DEF Unanswered, Send, CallCut, LetFailed, Let, Excuses, stored, provider, history
<1>2. /\ faults' \in 0 .. MaxFaults /\ excused' \subseteq Grant
      /\ call[c].pc = "granted" => row.grant \in excused'
  <2>1. CASE CallCut(c)
    <3>1. faults' \in 0 .. MaxFaults
      BY <2>1, GrantsAssumption DEF CallCut, Fault, GInv, TypeOK
    <3>2. excused' = excused \cup {row.grant : d \in {e \in {c} : call[e].pc = "granted"}}
      BY <2>1 DEF CallCut, Excuses
    <3>3. call[c].pc = "granted" => row.grant \in Grant
      BY DEF GInv, CallOK
    <3>4. \A h \in excused' : h \in excused \/ (call[c].pc = "granted" /\ h = row.grant)
      BY <3>2
    <3> QED
      BY <3>1, <3>2, <3>3, <3>4 DEF GInv, TypeOK
  <2>2. CASE Unanswered(c) \/ Send(c)
    BY <2>2 DEF Unanswered, Send, history, GInv, TypeOK
  <2> QED
    BY <2>1, <2>2
<1>3. \/ Goes(c, "over", 0) \/ Goes(c, "over", call[c].token)
      \/ Goes(c, "retiring", call[c].token) /\ call[c].token \in dead
  BY DEF Unanswered, Send, CallCut
<1>4. call[c].token \in {0} \cup Grant
  BY DEF GInv, TypeOK
<1> QED
  BY <1>1, <1>2, <1>3, <1>4, CallMoves DEF CallPcs

-----------------------------------------------------------------------------
(* Callbacks and polls                                                     *)

BackRecord ==
    [pc : {"idle", "waiting", "exchanging", "polling", "granted", "declining", "over"},
     op : Ops \cup {"none"}, token : {0} \cup Grant]

(* A callback or poll that moves. It takes or lets go of the lock, may consume *)
(* or turn down its operation, and may be granted the newest grant there is.   *)
LEMMA BackMoves ==
    ASSUME GInv, NEW r \in Returns, NEW n \in BackRecord,
           back' = [back EXCEPT ![r] = n],
           UNCHANGED <<row, call, aged, dead, spent, excused>>,
           ops' \in [Ops -> {"none", "open", "stale", "spent"}],
           exchanged' \in [Ops -> Nat], declined' \subseteq Ops,
           issued' \in {0} \cup Grant, issued <= issued', faults' \in 0 .. MaxFaults,
           OpsOK',
           \/ lock' = lock
           \/ lock = Nobody /\ lock' = r
           \/ lock = r /\ lock' = Nobody,
           declined' = declined \/ lock = Nobody,
           n.pc # "idle" => n.op \in Ops,
           n.pc \in {"exchanging", "polling", "granted"} =>
              lock' = r /\ n.op \notin declined',
           n.pc = "polling" => n.op \in Devices,
           n.pc = "granted" =>
              n.token \in 1 .. issued' /\ n.token >= row.grant /\ n.token \notin spent
    PROVE  GInv'
<1>1. /\ back'[r] = n
      /\ \A q \in Returns : q # r => back'[q] = back[q]
  BY DEF GInv, TypeOK
<1>2. TypeOK'
  <2>1. back' \in [Returns -> BackRecord]
    BY DEF GInv, TypeOK, BackRecord
  <2>2. lock' \in Calls \cup Returns \cup {Nobody}
    BY DEF GInv, TypeOK
  <2> QED
    BY <2>1, <2>2 DEF GInv, TypeOK, BackRecord
<1>3. 1 .. issued \subseteq 1 .. issued' /\ issued \in Int /\ issued' \in Int
  BY DEF GInv, TypeOK, Grant
<1>4. \A h : Fresh(h) => Fresh(h)'
  BY <1>3 DEF Fresh
<1>5. ASSUME NEW c \in Calls PROVE CallOK(c)'
  <2>1. CallOK(c) /\ (lock = c => lock' = c)
    BY GrantsAssumption DEF GInv
  <2> QED
    BY <1>4, <2>1 DEF CallOK
<1>6. ASSUME NEW q \in Returns PROVE BackOK(q)'
  <2>1. CASE q = r
    <3>1. n.pc = "granted" => Fresh(n.token)'
      BY DEF Fresh
    <3> QED
      BY <1>1, <2>1, <3>1 DEF BackOK
  <2>2. CASE q # r
    <3>1. BackOK(q) /\ (lock = q => lock' = q /\ declined' = declined)
      BY <2>2, GrantsAssumption DEF GInv
    <3> QED
      BY <1>1, <1>4, <2>2, <3>1 DEF BackOK
  <2> QED
    BY <2>1, <2>2
<1>7. (RowOK /\ RetiredIsDead)' /\ spent' \subseteq 1 .. issued'
  <2>1. row.grant <= issued'
    BY <1>3 DEF GInv, RowOK, TypeOK, Grant
  <2> QED
    BY <1>3, <2>1 DEF GInv, RowOK, RetiredIsDead
<1> QED
  BY <1>2, <1>5, <1>6, <1>7 DEF GInv

(* An operation that is consumed, and perhaps turned down.                     *)
LEMMA OpsConsumed ==
    ASSUME OpsOK, TypeOK, NEW o \in Ops, ops' = [ops EXCEPT ![o] = "spent"],
           exchanged' = exchanged, declined' \in {declined, declined \cup {o}}
    PROVE  /\ OpsOK' /\ ops' \in [Ops -> {"none", "open", "stale", "spent"}]
           /\ declined' \subseteq Ops
BY DEF OpsOK, TypeOK, Ops

LEMMA ArriveStep ==
    ASSUME GInv, NEW r \in Returns, NEW o \in Ops, Arrive(r, o) \/ ArriveDeclined(r, o)
    PROVE  GInv'
<1>1. PICK pc \in {"over", "waiting", "declining"} :
         back' = [back EXCEPT ![r] = [pc |-> pc, op |-> o, token |-> 0]]
  BY DEF Arrive, ArriveDeclined
<1>2. [pc |-> pc, op |-> o, token |-> 0] \in BackRecord
  BY DEF BackRecord
<1>3. UNCHANGED <<lock, row, ops, call, issued, aged, dead, spent, excused, exchanged,
                  declined, faults>>
  BY DEF Arrive, ArriveDeclined, stored, provider, history
<1>4. OpsOK'
  BY <1>3 DEF GInv, OpsOK
<1>5. issued <= issued'
  BY <1>3 DEF GInv, TypeOK, Grant
<1> QED
  BY <1>1, <1>2, <1>3, <1>4, <1>5, BackMoves DEF GInv, TypeOK

(* What a callback or a poll becomes when it moves on.                         *)
LEMMA ComesTo ==
    ASSUME GInv, NEW r \in Returns, NEW pc, NEW g \in {0} \cup Grant, Comes(r, pc, g),
           back[r].pc # "idle",
           pc \in {"exchanging", "polling", "granted", "over"}
    PROVE  /\ back[r].op \in Ops
           /\ [pc |-> pc, op |-> back[r].op, token |-> g] \in BackRecord
           /\ back' = [back EXCEPT ![r] = [pc |-> pc, op |-> back[r].op, token |-> g]]
<1>1. back[r] \in BackRecord /\ back[r].op \in Ops
  <2>1. back[r] \in BackRecord
    BY DEF GInv, TypeOK, BackRecord
  <2>2. back[r].op \in Ops
    BY DEF GInv, BackOK
  <2> QED
    BY <2>1, <2>2
<1> QED
  BY <1>1 DEF BackRecord, Comes

LEMMA GivenUpStep ==
    ASSUME GInv, NEW r \in Returns, ExchangeFails(r) \/ PollInVain(r) \/ ReturnCut(r)
    PROVE  GInv'
<1> DEFINE n == [pc |-> "over", op |-> back[r].op, token |-> 0]
<1>1. back[r].op \in Ops /\ n \in BackRecord /\ back' = [back EXCEPT ![r] = n]
  BY ComesTo DEF ExchangeFails, PollInVain, ReturnCut
<1>2. /\ UNCHANGED <<row, ops, call, issued, aged, dead, spent, excused, exchanged, declined>>
      /\ lock' = lock \/ (lock = r /\ lock' = Nobody)
  BY DEF ExchangeFails, PollInVain, ReturnCut, LetFailed, Let, stored, provider, history
<1>3. faults' \in 0 .. MaxFaults
  BY GrantsAssumption DEF ExchangeFails, PollInVain, ReturnCut, Fault, history, GInv, TypeOK
<1>4. OpsOK'
  BY <1>2 DEF GInv, OpsOK
<1>5. issued <= issued'
  BY <1>2 DEF GInv, TypeOK, Grant
<1> QED
  BY <1>1, <1>2, <1>3, <1>4, <1>5, BackMoves DEF GInv, TypeOK

LEMMA DeclineStep ==
    ASSUME GInv, NEW r \in Returns, Decline(r)
    PROVE  GInv'
<1> DEFINE n == [pc |-> "over", op |-> back[r].op, token |-> 0]
<1>1. back[r].op \in Ops /\ n \in BackRecord /\ back' = [back EXCEPT ![r] = n]
  BY ComesTo DEF Decline
<1>2. /\ UNCHANGED <<lock, row, call, issued, aged, dead, spent, excused, exchanged, faults>>
      /\ lock = Nobody
  BY DEF Decline, provider
<1>3. /\ OpsOK' /\ ops' \in [Ops -> {"none", "open", "stale", "spent"}]
      /\ declined' \subseteq Ops
  <2>1. CASE ops[back[r].op] = "open"
    BY <1>1, <1>2, <2>1, OpsConsumed DEF Decline, GInv
  <2>2. CASE ops[back[r].op] # "open"
    BY <1>2, <2>2 DEF Decline, GInv, OpsOK, TypeOK
  <2> QED
    BY <2>1, <2>2
<1>4. issued <= issued'
  BY <1>2 DEF GInv, TypeOK, Grant
<1> QED
  BY <1>1, <1>2, <1>3, <1>4, BackMoves DEF GInv, TypeOK

LEMMA TakeCodeStep ==
    ASSUME GInv, NEW r \in Returns, TakeCode(r)
    PROVE  GInv'
<1> DEFINE o == back[r].op
           n(pc) == [pc |-> pc, op |-> o, token |-> 0]
<1>1. /\ UNCHANGED <<row, call, issued, aged, dead, spent, excused, declined, faults>>
      /\ lock = Nobody /\ issued <= issued'
  BY DEF TakeCode, provider, GInv, TypeOK, Grant
<1>2. CASE Usable(o)
  <2>1. o \in Ops /\ n("exchanging") \in BackRecord
        /\ back' = [back EXCEPT ![r] = n("exchanging")]
    BY <1>2, ComesTo DEF TakeCode
  <2>2. /\ ops' = [ops EXCEPT ![o] = "spent"] /\ lock' = r
        /\ exchanged' = [exchanged EXCEPT ![o] = exchanged[o] + 1]
        /\ ops[o] = "open"
    BY <1>2 DEF TakeCode, Usable, Consumed, Held
  <2>3. o \notin declined
    BY <2>2 DEF GInv, OpsOK
  <2>4. /\ ops' \in [Ops -> {"none", "open", "stale", "spent"}]
        /\ exchanged' \in [Ops -> Nat]
    BY <2>1, <2>2 DEF GInv, TypeOK
  <2>5. OpsOK'
    <3>1. ASSUME NEW d \in declined PROVE ops'[d] = "spent"
      BY <2>2 DEF GInv, TypeOK, OpsOK
    <3>2. ASSUME NEW d \in Codes
          PROVE  exchanged'[d] = 0 \/ (exchanged'[d] = 1 /\ ops'[d] = "spent")
      <4>1. d \in Ops
        BY DEF Ops
      <4>2. CASE d = o
        BY <2>2, <4>1, <4>2 DEF GInv, TypeOK, OpsOK
      <4>3. CASE d # o
        BY <2>2, <4>1, <4>3 DEF GInv, TypeOK, OpsOK
      <4> QED
        BY <4>2, <4>3
    <3> QED
      BY <1>1, <3>1, <3>2 DEF OpsOK
  <2> QED
    BY <1>1, <2>1, <2>2, <2>3, <2>4, <2>5, BackMoves DEF GInv, TypeOK
<1>3. CASE ~Usable(o)
  <2>1. o \in Ops /\ n("over") \in BackRecord /\ back' = [back EXCEPT ![r] = n("over")]
    BY <1>3, ComesTo DEF TakeCode
  <2>2. UNCHANGED <<lock, ops, exchanged>>
    BY <1>3 DEF TakeCode
  <2>3. OpsOK'
    BY <1>1, <2>2 DEF GInv, OpsOK
  <2> QED
    BY <1>1, <2>1, <2>2, <2>3, BackMoves DEF GInv, TypeOK
<1> QED
  BY <1>2, <1>3

(* A code or a device authorization is answered with the next grant.           *)
LEMMA NextGrant ==
    ASSUME GInv, issued < MaxGrants, issued' = issued + 1
    PROVE  /\ issued + 1 \in Grant /\ issued' \in {0} \cup Grant /\ issued <= issued'
           /\ issued + 1 \in 1 .. issued' /\ issued + 1 >= row.grant /\ issued + 1 \notin spent
<1>1. issued \in Nat /\ MaxGrants \in Nat /\ row.grant \in Nat /\ row.grant <= issued
      /\ spent \subseteq 1 .. issued
  BY GrantsAssumption DEF GInv, TypeOK, Grant, RowOK
<1> QED
  BY <1>1 DEF Grant

LEMMA ExchangeStep ==
    ASSUME GInv, NEW r \in Returns, Exchange(r)
    PROVE  GInv'
<1> PICK g : g = issued + 1
  OBVIOUS
<1> DEFINE n == [pc |-> "granted", op |-> back[r].op, token |-> g]
<1>1. /\ g \in Grant /\ issued' \in {0} \cup Grant /\ issued <= issued'
      /\ g \in 1 .. issued' /\ g >= row.grant /\ g \notin spent
  BY NextGrant DEF Exchange
<1>2. back[r].op \in Ops /\ n \in BackRecord /\ back' = [back EXCEPT ![r] = n]
  BY <1>1, ComesTo DEF Exchange
<1>3. /\ UNCHANGED <<lock, row, ops, call, aged, dead, spent, excused, exchanged, declined, faults>>
      /\ lock = r /\ back[r].op \notin declined
  BY DEF Exchange, GInv, BackOK, stored, history
<1>4. OpsOK'
  BY <1>3 DEF GInv, OpsOK
<1> QED
  BY <1>1, <1>2, <1>3, <1>4, BackMoves DEF GInv, TypeOK

LEMMA TakePollStep ==
    ASSUME GInv, NEW r \in Returns, TakePoll(r)
    PROVE  GInv'
<1> DEFINE o == back[r].op
           n(pc) == [pc |-> pc, op |-> o, token |-> 0]
<1>1. /\ UNCHANGED <<row, call, issued, aged, dead, spent, excused, exchanged, declined, faults>>
      /\ lock = Nobody /\ issued <= issued' /\ o \in Devices
  BY DEF TakePoll, provider, history, GInv, TypeOK, Grant
<1>2. CASE Usable(o)
  <2>1. o \in Ops /\ n("polling") \in BackRecord /\ back' = [back EXCEPT ![r] = n("polling")]
    <3>1. back[r].pc # "idle" /\ Comes(r, "polling", 0)
      BY <1>2 DEF TakePoll
    <3> QED
      BY <3>1, ComesTo
  <2>2. ops' = ops /\ lock' = r /\ ops[o] = "open"
    BY <1>2 DEF TakePoll, Usable, Held
  <2>3. o \notin declined /\ OpsOK'
    BY <1>1, <2>2 DEF GInv, OpsOK
  <2> QED
    BY <1>1, <2>1, <2>2, <2>3, BackMoves DEF GInv, TypeOK
<1>3. CASE ~Usable(o)
  <2>1. o \in Ops /\ n("over") \in BackRecord /\ back' = [back EXCEPT ![r] = n("over")]
    <3>1. back[r].pc # "idle" /\ Comes(r, "over", 0)
      BY <1>3 DEF TakePoll
    <3> QED
      BY <3>1, ComesTo
  <2>2. ops' = [ops EXCEPT ![o] = "spent"] /\ lock' = lock
    BY <1>3 DEF TakePoll
  <2>3. OpsOK' /\ ops' \in [Ops -> {"none", "open", "stale", "spent"}]
    BY <1>1, <2>1, <2>2, OpsConsumed DEF GInv
  <2> QED
    BY <1>1, <2>1, <2>2, <2>3, BackMoves DEF GInv, TypeOK
<1> QED
  BY <1>2, <1>3

LEMMA PollGrantedStep ==
    ASSUME GInv, NEW r \in Returns, PollGranted(r)
    PROVE  GInv'
<1> PICK g : g = issued + 1
  OBVIOUS
<1> DEFINE o == back[r].op
           n == [pc |-> "granted", op |-> o, token |-> g]
<1>1. /\ g \in Grant /\ issued' \in {0} \cup Grant /\ issued <= issued'
      /\ g \in 1 .. issued' /\ g >= row.grant /\ g \notin spent
  BY NextGrant DEF PollGranted
<1>2. o \in Ops /\ n \in BackRecord /\ back' = [back EXCEPT ![r] = n]
  BY <1>1, ComesTo DEF PollGranted
<1>3. /\ UNCHANGED <<lock, row, ops, call, aged, dead, spent, excused, declined, faults>>
      /\ exchanged' = [exchanged EXCEPT ![o] = 1]
      /\ lock = r /\ o \notin declined /\ o \in Devices
  BY DEF PollGranted, GInv, BackOK, stored
<1>4. OpsOK' /\ exchanged' \in [Ops -> Nat]
  <2>1. \A d \in Codes : d # o /\ d \in Ops
    BY <1>3, GrantsAssumption DEF Ops
  <2> QED
    BY <1>3, <2>1 DEF GInv, TypeOK, OpsOK
<1> QED
  BY <1>1, <1>2, <1>3, <1>4, BackMoves DEF GInv, TypeOK

LEMMA ConnectStep ==
    ASSUME GInv, NEW r \in Returns, Connect(r)
    PROVE  GInv'
<1> DEFINE o == back[r].op
           g == back[r].token
           n == [pc |-> "over", op |-> o, token |-> 0]
<1>1. lock = r /\ Fresh(g) /\ g \in {0} \cup Grant
  BY DEF Connect, GInv, BackOK, TypeOK
<1>2. o \in Ops /\ n \in BackRecord /\ back' = [back EXCEPT ![r] = n]
  BY ComesTo DEF Connect
<1>3. /\ UNCHANGED <<call, issued, aged, dead, spent, excused, exchanged, declined, faults>>
      /\ lock' = Nobody /\ row' = [grant |-> g, status |-> "active"]
      /\ ops' = [ops EXCEPT ![o] = "spent"]
  BY <1>1 DEF Connect, Granted, Let, provider, history
<1>4. /\ back'[r] = n
      /\ \A q \in Returns : q # r => back'[q] = back[q]
  BY <1>2 DEF GInv, TypeOK
<1>5. OpsOK' /\ ops' \in [Ops -> {"none", "open", "stale", "spent"}]
  BY <1>2, <1>3, OpsConsumed DEF GInv
<1>6. TypeOK'
  <2>1. back' \in [Returns -> BackRecord]
    BY <1>2 DEF GInv, TypeOK, BackRecord
  <2>2. row' \in [grant : {0} \cup Grant, status : Statuses]
    BY <1>1, <1>3 DEF Statuses
  <2> QED
    BY <1>3, <1>5, <2>1, <2>2 DEF GInv, TypeOK, BackRecord
<1>7. ASSUME NEW c \in Calls PROVE CallOK(c)'
  <2>1. c # r
    BY GrantsAssumption
  <2> QED
    BY <1>1, <1>3, <2>1, Alone DEF GInv, CallOK
<1>8. ASSUME NEW q \in Returns PROVE BackOK(q)'
  <2>1. CASE q = r
    BY <1>2, <1>4, <2>1 DEF BackOK
  <2>2. CASE q # r
    BY <1>1, <1>3, <1>4, <2>2, Alone DEF GInv, BackOK
  <2> QED
    BY <2>1, <2>2
<1>9. (RowOK /\ RetiredIsDead)' /\ spent' \subseteq 1 .. issued'
  <2>1. issued \in Int
    BY DEF GInv, TypeOK, Grant
  <2> QED
    BY <1>1, <1>3, <2>1 DEF GInv, RowOK, RetiredIsDead, Fresh
<1> QED
  BY <1>5, <1>6, <1>7, <1>8, <1>9 DEF GInv

-----------------------------------------------------------------------------
LEMMA CrashStep == ASSUME GInv, Crash PROVE GInv'
<1>1. /\ UNCHANGED <<row, ops, issued, aged, dead, spent, exchanged, declined>>
      /\ lock' = Nobody
      /\ excused' = excused \cup {row.grant : c \in {d \in Calls : call[d].pc = "granted"}}
  BY DEF Crash, Excuses, stored, provider
<1>2. faults' \in 0 .. MaxFaults
  <2>1. faults \in 0 .. MaxFaults
    BY DEF GInv, TypeOK
  <2>2. Fault
    BY DEF Crash
  <2> QED
    BY <2>1, <2>2, GrantsAssumption DEF Fault
<1>3. \A c \in Calls : call'[c] \in [pc : {"idle", "over"}, token : {0} \cup Grant]
  <2>1. ASSUME NEW c \in Calls
        PROVE  call'[c] \in [pc : {"idle", "over"}, token : {0} \cup Grant]
    <3>1. call[c] \in [pc : CallPcs, token : {0} \cup Grant]
      BY DEF GInv, TypeOK, CallPcs
    <3>2. CASE call[c].pc = "idle"
      BY <3>1, <3>2 DEF Crash
    <3>3. CASE call[c].pc # "idle"
      BY <3>3 DEF Crash
    <3> QED
      BY <3>2, <3>3
  <2> QED
    BY <2>1
<1>4. \A r \in Returns : /\ back'[r] \in BackRecord /\ back'[r].pc \in {"idle", "over"}
                         /\ back'[r].pc # "idle" => back'[r].op \in Ops
  <2>1. ASSUME NEW r \in Returns
        PROVE  /\ back'[r] \in BackRecord /\ back'[r].pc \in {"idle", "over"}
               /\ back'[r].pc # "idle" => back'[r].op \in Ops
    <3>1. back[r] \in BackRecord /\ BackOK(r)
      BY DEF GInv, TypeOK, BackRecord
    <3>2. CASE back[r].pc = "idle"
      BY <3>1, <3>2 DEF Crash
    <3>3. CASE back[r].pc # "idle"
      <4>1. back'[r] = [back[r] EXCEPT !.pc = "over", !.token = 0]
        BY <3>3 DEF Crash
      <4> QED
        BY <3>1, <3>3, <4>1 DEF BackRecord, BackOK
    <3> QED
      BY <3>2, <3>3
  <2> QED
    BY <2>1
<1>5. excused' \subseteq Grant /\ excused \subseteq excused'
  <2>1. \A c \in Calls : call[c].pc = "granted" => row.grant \in Grant
    BY DEF GInv, CallOK
  <2> QED
    BY <1>1, <2>1 DEF GInv, TypeOK
<1>6. TypeOK'
  <2>1. call' \in [Calls -> [pc : CallPcs, token : {0} \cup Grant]]
    BY <1>3 DEF Crash, CallPcs
  <2>2. back' \in [Returns -> BackRecord]
    BY <1>4 DEF Crash
  <2> QED
    BY <1>1, <1>2, <1>5, <2>1, <2>2 DEF GInv, TypeOK, CallPcs, BackRecord
<1>7. \A c \in Calls : CallOK(c)'
  BY <1>3 DEF CallOK
<1>8. \A r \in Returns : BackOK(r)'
  BY <1>4 DEF BackOK
<1>9. RowOK'
  BY <1>1, <1>5 DEF GInv, RowOK
<1>10. (OpsOK /\ RetiredIsDead)' /\ spent' \subseteq 1 .. issued'
  BY <1>1 DEF GInv, OpsOK, RetiredIsDead
<1> QED
  BY <1>6, <1>7, <1>8, <1>9, <1>10 DEF GInv

LEMMA Stutter == ASSUME GInv, UNCHANGED vars PROVE GInv'
<1>1. UNCHANGED <<lock, row, ops, call, back, issued, aged, dead, spent, excused, exchanged,
                  declined, faults>>
  BY DEF vars, stored, provider, history
<1> QED
  BY <1>1 DEF GInv, TypeOK, CallOK, BackOK, RowOK, OpsOK, RetiredIsDead, Fresh

LEMMA NextHolds == GInv /\ [Next]_vars => GInv'
<1> SUFFICES ASSUME GInv, [Next]_vars PROVE GInv'
  OBVIOUS
<1>1. ASSUME NEW g \in Grant, Ages(g) \/ Expires(g) \/ Revoked(g) PROVE GInv'
  BY <1>1, ProviderStep
<1>2. CASE Cancel \/ \E o \in Ops : GoesStale(o) \/ Start(o)
  BY <1>2, OpsStep
<1>3. ASSUME NEW c \in Calls, Look(c) \/ AnswerLost(c) \/ CallCut(c) \/ CallStep(c) PROVE GInv'
  BY <1>3, LookStep, TakeStep, RotatedStep, RetiredStep, AnswerLostStep, StoreStep, RequestStep
     DEF CallStep
<1>4. ASSUME NEW r \in Returns, NEW o \in Ops, Arrive(r, o) \/ ArriveDeclined(r, o) PROVE GInv'
  BY <1>4, ArriveStep
<1>5. ASSUME NEW r \in Returns, ReturnCut(r) \/ ReturnStep(r) PROVE GInv'
  BY <1>5, GivenUpStep, DeclineStep, TakeCodeStep, ExchangeStep, TakePollStep, PollGrantedStep,
     ConnectStep DEF ReturnStep
<1> QED
  BY <1>1, <1>2, <1>3, <1>4, <1>5, CrashStep, Stutter DEF Next

(* The invariant of a connection holds throughout (oauth.py).                  *)
THEOREM Inductive == Spec => []GInv
BY InitHolds, NextHolds, PTL DEF Spec

(* Every variable of the connection keeps its type.                            *)
THEOREM TypeCorrect == Spec => []TypeOK
<1>1. GInv => TypeOK
  BY DEF GInv
<1> QED
  BY <1>1, Inductive, PTL

(* A spent refresh token is not presented again, however many requests find    *)
(* the same grant running out (refresh).                                       *)
THEOREM PresentsOnce == Spec => []PresentedOnce
<1>1. GInv => PresentedOnce
  <2> SUFFICES ASSUME GInv, NEW c \in Calls, call[c].pc = "asking", call[c].token \in spent
               PROVE  call[c].token \in excused
    BY DEF PresentedOnce
  <2>1. lock = c /\ row.status = "active" /\ row.grant = call[c].token
    BY DEF GInv, CallOK
  <2>2. \A d \in Calls : call[d].pc # "granted"
    BY <2>1, Alone
  <2> QED
    BY <2>1, <2>2 DEF GInv, RowOK
<1> QED
  BY <1>1, Inductive, PTL

(* A connection called invalid has lost its grant (invalidate).                *)
THEOREM RetiresTheDead == Spec => []RetiredIsDead
<1>1. GInv => RetiredIsDead
  BY DEF GInv
<1> QED
  BY <1>1, Inductive, PTL

(* An authorization code is presented at most once (complete_callback).        *)
THEOREM ExchangesOnce == Spec => []ExchangedOnce
<1>1. GInv => ExchangedOnce
  BY DEF GInv, OpsOK, ExchangedOnce
<1> QED
  BY <1>1, Inductive, PTL

(* What the user turned down is not granted (cancel_authorization,             *)
(* abandon_callback).                                                          *)
THEOREM DeclinesStay == Spec => []DeclinedStays
<1>1. GInv => DeclinedStays
  BY DEF GInv, BackOK, DeclinedStays
<1> QED
  BY <1>1, Inductive, PTL

(* No grant is stored over a newer one (refresh, connect).                     *)
THEOREM NewestStays == Spec => NewestStands
<1>1. GInv /\ [Next]_vars => [row'.grant >= row.grant]_row
  <2> SUFFICES ASSUME GInv, [Next]_vars, row' # row PROVE row'.grant >= row.grant
    OBVIOUS
  <2>1. CASE \E c \in Calls : Store(c)
    BY <2>1 DEF Store, Granted, GInv, CallOK, Fresh
  <2>2. CASE \E r \in Returns : Connect(r)
    BY <2>2 DEF Connect, Granted, GInv, BackOK, Fresh
  <2>3. CASE \E c \in Calls : Rejected(c) \/ Retire(c)
    <3>1. row' = [row EXCEPT !.status = "invalid"]
      BY <2>3 DEF Rejected, Retire, Invalid
    <3>2. row'.grant = row.grant /\ row.grant \in Nat
      BY <3>1 DEF GInv, TypeOK, Grant
    <3> QED
      BY <3>2
  <2> QED
    BY <2>1, <2>2, <2>3
       DEF Next, vars, Ages, Expires, Revoked, GoesStale, Start, Cancel, Look, AnswerLost,
           CallCut, CallStep, Take, Rotated, Unanswered, Send, Arrive, ArriveDeclined, ReturnCut,
           ReturnStep, TakeCode, Exchange, ExchangeFails, Decline, TakePoll, PollInVain,
           PollGranted, Crash, stored
<1> QED
  BY <1>1, Inductive, PTL DEF Spec, NewestStands
=============================================================================
