--------------------------- MODULE CommandsProofs ---------------------------
(***************************************************************************)
(* Proofs about commands: about Catalog, for any callers, contexts, probes *)
(* and changes, then about Deliveries, for any deliveries, attempts and    *)
(* number of faults.                                                       *)
(***************************************************************************)
EXTENDS Catalog, Deliveries, TLAPS

-----------------------------------------------------------------------------
(* The catalog: its inductive invariant.                                   *)

(* The entry is empty, or a probe's, that of the one under way; once it has a  *)
(* result, the probe is over.                                                  *)
EntryIsOfProbe ==
    \/ cached = NoCatalog
    \/ /\ cached.probe \in Probes /\ cached.status # "none"
       /\ cached.status = "ready" => task[cached.probe].pc = "done"
       /\ probing \in Undone => probing = cached.probe

(* A probe that may still fill the entry read the runtime after the last       *)
(* invalidation.                                                               *)
ReadFresh ==
    cached # NoCatalog /\ task[cached.probe].pc = "read" => task[cached.probe].asof >= known

(* A call waits for a probe. What it shares is of its context, and, if it      *)
(* comes to a catalog, not older than the call.                                *)
Shares(c) ==
    LET t == caller[c].task IN
    /\ c \in Waiting => t \in Probes
    /\ caller[c].pc = "share" =>
         /\ task[t].ctx = caller[c].ctx
         /\ task[t].pc = "done" /\ task[t].result = "ready" =>
              task[t].asof >= caller[c].since

Own(r) == r.got = "ready" => r.of = r.ctx /\ r.asof >= r.since

CInv ==
    /\ CTypeOK
    /\ known <= version
    /\ EntryIsOfProbe /\ ReadFresh /\ CacheIsFresh /\ OneProbe
    /\ \A c \in Callers : Shares(c) /\ Own(caller[c]) /\ caller[c].since <= known

(* A probe that moves on, or is cancelled, stays a probe's record.             *)
LEMMA ProbeMoves ==
    ASSUME task \in [Probes -> ProbeRecord], NEW t \in Probes
    PROVE  /\ \A p \in {"running", "done", "cancelled"} :
                [task EXCEPT ![t].pc = p] \in [Probes -> ProbeRecord]
           /\ \A p \in {"done", "cancelled"}, s \in Results :
                [task EXCEPT ![t].pc = p, ![t].result = s] \in [Probes -> ProbeRecord]
           /\ \A v \in 0 .. MaxChanges :
                [task EXCEPT ![t].pc = "read", ![t].asof = v] \in [Probes -> ProbeRecord]
           /\ [task EXCEPT ![t].cancelling = TRUE] \in [Probes -> ProbeRecord]
<1>1. \A x \in ProbeRecord :
        /\ \A p \in {"running", "done", "cancelled"} : [x EXCEPT !.pc = p] \in ProbeRecord
        /\ \A p \in {"done", "cancelled"}, s \in Results :
             [x EXCEPT !.pc = p, !.result = s] \in ProbeRecord
        /\ \A v \in 0 .. MaxChanges : [x EXCEPT !.pc = "read", !.asof = v] \in ProbeRecord
        /\ [x EXCEPT !.cancelling = TRUE] \in ProbeRecord
  BY DEF ProbeRecord
<1> QED
  BY <1>1

LEMMA CInitHolds == CInit => CInv
<1> SUFFICES ASSUME CInit PROVE CInv
  OBVIOUS
<1>1. CTypeOK
  <2>1. cached \in [probe : Probes \cup {NoProbe}, status : Results]
    BY DEF CInit, NoCatalog, Results
  <2>2. task \in [Probes -> ProbeRecord]
    <3>1. ProbeIn("unused", "none") \in ProbeRecord
      BY CatalogAssumption DEF ProbeIn, ProbeRecord, Results
    <3> QED
      BY <3>1 DEF CInit
  <2>3. caller \in [Callers -> CallRecord]
    BY CatalogAssumption DEF CInit, CallOf, CallRecord, Results
  <2>4. probing \in Probes \cup {NoProbe} /\ closed \in BOOLEAN
    BY DEF CInit
  <2>5. version \in 0 .. MaxChanges /\ known \in 0 .. MaxChanges
    BY CatalogAssumption DEF CInit
  <2> QED
    BY <2>1, <2>2, <2>3, <2>4, <2>5 DEF CTypeOK
<1>2. \A c \in Callers : Shares(c) /\ Own(caller[c]) /\ caller[c].since <= known
  BY DEF CInit, Shares, Own, CallOf, Waiting
<1>3. OneProbe
  BY DEF CInit, OneProbe, Undone, ProbeIn
<1>4. EntryIsOfProbe /\ ReadFresh /\ CacheIsFresh /\ known <= version
  BY DEF CInit, EntryIsOfProbe, ReadFresh, CacheIsFresh, NoCatalog
<1> QED
  BY <1>1, <1>2, <1>3, <1>4 DEF CInv

-----------------------------------------------------------------------------
(* discover: what a call does when it looks.                               *)

(* The record of a call before it looks.                                       *)
Asking(r) == r \in CallRecord /\ r.since <= known /\ Own(r)

LEMMA HitStep ==
    ASSUME CInv, NEW c \in Callers, NEW r, Asking(r), Hit(c, r),
           UNCHANGED <<version, known, closed>>
    PROVE  CInv'
<1> DEFINE t == cached.probe
           n == Given(r, t, cached.status)
<1>1. t \in Probes /\ cached.status = "ready" /\ task[t].ctx = r.ctx /\ task[t].asof >= known
  BY DEF CInv, EntryIsOfProbe, CacheIsFresh, Hit, Matches
<1>2. n \in CallRecord /\ n.pc = "done" /\ Own(n) /\ n.since <= known
  <2>1. /\ n.pc = "done" /\ n.ctx = r.ctx /\ n.since = r.since /\ n.of = task[t].ctx
        /\ n.asof = task[t].asof /\ n.got = cached.status
    BY DEF Asking, CallRecord, Given
  <2>2. task[t].ctx \in Contexts \cup {"none"} /\ task[t].asof \in 0 .. MaxChanges
        /\ known \in 0 .. MaxChanges /\ r.since \in 0 .. MaxChanges
    BY <1>1 DEF CInv, CTypeOK, ProbeRecord, Asking, CallRecord
  <2>3. n \in CallRecord
    BY <1>1, <2>2 DEF Asking, CallRecord, Given, Results
  <2>4. task[t].asof >= r.since
    BY <1>1, <2>2, CatalogAssumption DEF Asking
  <2> QED
    BY <1>1, <2>1, <2>3, <2>4 DEF Asking, Own
<1>3. caller' = [caller EXCEPT ![c] = n] /\ UNCHANGED <<cached, probing, task>>
  BY DEF Hit
<1>4. CTypeOK'
  BY <1>2, <1>3 DEF CInv, CTypeOK
<1>5. ASSUME NEW d \in Callers
      PROVE  (Shares(d) /\ Own(caller[d]) /\ caller[d].since <= known)'
  <2>1. CASE d = c
    BY <2>1, <1>2, <1>3 DEF CInv, CTypeOK, Shares, Waiting, Own
  <2>2. CASE d # c
    BY <2>2, <1>3 DEF CInv, CTypeOK, Shares, Waiting, Own
  <2> QED
    BY <2>1, <2>2
<1>6. (EntryIsOfProbe /\ ReadFresh /\ CacheIsFresh /\ OneProbe /\ known <= version)'
  BY <1>3 DEF CInv, EntryIsOfProbe, ReadFresh, CacheIsFresh, OneProbe, Undone
<1> QED
  BY <1>4, <1>5, <1>6 DEF CInv

LEMMA ShareStep ==
    ASSUME CInv, NEW c \in Callers, NEW r, Asking(r), Share(c, r),
           UNCHANGED <<version, known, closed>>
    PROVE  CInv'
<1> DEFINE n == [r EXCEPT !.pc = "share", !.task = probing, !.refresh = FALSE]
<1>1. /\ probing \in Undone /\ probing \in Probes
      /\ task[probing].ctx = r.ctx
  BY DEF CInv, EntryIsOfProbe, Share, Matches, Undone
<1>2. n \in CallRecord /\ n.pc = "share" /\ n.task = probing /\ Own(n)
      /\ n.since = r.since /\ n.ctx = r.ctx
  BY <1>1 DEF CInv, CTypeOK, CallRecord, Asking, Own
<1>3. caller' = [caller EXCEPT ![c] = n] /\ UNCHANGED <<cached, probing, task>>
  BY DEF Share
<1>4. CTypeOK'
  BY <1>2, <1>3 DEF CInv, CTypeOK
<1>5. ASSUME NEW d \in Callers
      PROVE  (Shares(d) /\ Own(caller[d]) /\ caller[d].since <= known)'
  <2>1. CASE d = c
    BY <2>1, <1>1, <1>2, <1>3 DEF CInv, CTypeOK, Shares, Waiting, Own, Asking, Undone
  <2>2. CASE d # c
    BY <2>2, <1>3 DEF CInv, CTypeOK, Shares, Waiting, Own
  <2> QED
    BY <2>1, <2>2
<1>6. (EntryIsOfProbe /\ ReadFresh /\ CacheIsFresh /\ OneProbe /\ known <= version)'
  BY <1>3 DEF CInv, EntryIsOfProbe, ReadFresh, CacheIsFresh, OneProbe, Undone
<1> QED
  BY <1>4, <1>5, <1>6 DEF CInv

LEMMA ReplaceStep ==
    ASSUME CInv, NEW c \in Callers, NEW r, Asking(r), Replace(c, r),
           UNCHANGED <<version, known, closed>>
    PROVE  CInv'
<1> DEFINE n == [r EXCEPT !.pc = "drain", !.task = probing]
<1>1. probing \in Undone /\ probing \in Probes
  BY DEF Replace, Undone
<1>2. n \in CallRecord /\ n.pc = "drain" /\ n.task = probing /\ Own(n) /\ n.since = r.since
  BY <1>1 DEF CInv, CTypeOK, CallRecord, Asking, Own
<1>3. /\ caller' = [caller EXCEPT ![c] = n] /\ cached' = NoCatalog /\ probing' = probing
      /\ task' = [task EXCEPT ![probing].cancelling = TRUE]
  BY DEF Replace
<1>4. CTypeOK'
  <2>1. task' \in [Probes -> ProbeRecord]
    BY <1>1, <1>3, ProbeMoves DEF CInv, CTypeOK
  <2>2. cached' \in [probe : Probes \cup {NoProbe}, status : Results]
    BY <1>3 DEF NoCatalog, Results
  <2> QED
    BY <1>2, <1>3, <2>1, <2>2 DEF CInv, CTypeOK
<1>5. \A t \in Probes : /\ task'[t].pc = task[t].pc /\ task'[t].ctx = task[t].ctx
                       /\ task'[t].result = task[t].result /\ task'[t].asof = task[t].asof
  BY <1>1, <1>3 DEF CInv, CTypeOK
<1>6. ASSUME NEW d \in Callers
      PROVE  (Shares(d) /\ Own(caller[d]) /\ caller[d].since <= known)'
  <2>1. CASE d = c
    BY <2>1, <1>1, <1>2, <1>3 DEF CInv, CTypeOK, Shares, Waiting, Own, Asking
  <2>2. CASE d # c
    <3>1. caller'[d] = caller[d]
      BY <2>2, <1>3 DEF CInv, CTypeOK
    <3> QED
      BY <3>1, <1>5 DEF CInv, Shares, Waiting, Own
  <2> QED
    BY <2>1, <2>2
<1>7. (EntryIsOfProbe /\ ReadFresh /\ CacheIsFresh)'
  BY <1>3 DEF EntryIsOfProbe, ReadFresh, CacheIsFresh, NoCatalog
<1>8. (OneProbe /\ known <= version)'
  BY <1>3, <1>5 DEF CInv, OneProbe, Undone
<1> QED
  BY <1>4, <1>6, <1>7, <1>8 DEF CInv

LEMMA StartStep ==
    ASSUME CInv, NEW c \in Callers, NEW r, Asking(r), Start(c, r),
           UNCHANGED <<version, known, closed>>
    PROVE  CInv'
<1> PICK t \in Free(c) :
       /\ task' = [task EXCEPT ![t] = ProbeIn("created", r.ctx)]
       /\ probing' = t
       /\ cached' = [probe |-> t, status |-> "loading"]
       /\ caller' = [caller EXCEPT ![c] =
                       [r EXCEPT !.pc = "share", !.task = t, !.refresh = FALSE]]
  BY DEF Start
<1> DEFINE n == [r EXCEPT !.pc = "share", !.task = t, !.refresh = FALSE]
           p == ProbeIn("created", r.ctx)
<1>1. t \in Probes /\ t \notin Undone
  BY DEF Free
<1>2. n \in CallRecord /\ n.pc = "share" /\ n.task = t /\ Own(n)
      /\ n.since = r.since /\ n.ctx = r.ctx
  BY <1>1 DEF CInv, CTypeOK, CallRecord, Asking, Own
<1>3. p.pc = "created" /\ p.ctx = r.ctx /\ task'[t] = p
      /\ \A u \in Probes \ {t} : task'[u] = task[u]
  BY <1>1 DEF CInv, CTypeOK, ProbeIn
<1>4. CTypeOK'
  <2>1. task' \in [Probes -> ProbeRecord]
    <3>1. r.ctx \in Contexts \cup {"none"} /\ 0 \in 0 .. MaxChanges
      BY CatalogAssumption DEF Asking, CallRecord
    <3>2. p \in ProbeRecord
      BY <3>1 DEF ProbeIn, ProbeRecord, Results
    <3> HIDE DEF p
    <3> QED
      BY <1>1, <3>2 DEF CInv, CTypeOK, p
  <2>2. cached' \in [probe : Probes \cup {NoProbe}, status : Results]
    BY <1>1 DEF Results
  <2> QED
    BY <1>1, <1>2, <2>1, <2>2 DEF CInv, CTypeOK
<1>5. ASSUME NEW d \in Callers
      PROVE  (Shares(d) /\ Own(caller[d]) /\ caller[d].since <= known)'
  <2>1. CASE d = c
    <3>1. caller'[d] = n
      BY <2>1 DEF CInv, CTypeOK
    <3> HIDE DEF n, p
    <3>2. Shares(d)'
      BY <3>1, <1>1, <1>2, <1>3 DEF Shares, Waiting
    <3> QED
      BY <3>1, <3>2, <1>2 DEF Own, Asking
  <2>2. CASE d # c
    <3>1. caller'[d] = caller[d]
      BY <2>2 DEF CInv, CTypeOK
    <3>2. d \in Waiting => caller[d].task \in Probes \ {t}
      BY <2>2 DEF CInv, Shares, Free
    <3>3. d \in Waiting => task'[caller[d].task] = task[caller[d].task]
      BY <3>2, <1>3
    <3>4. Shares(d)'
      BY <3>1, <3>3 DEF CInv, Shares, Waiting
    <3> QED
      BY <3>1, <3>4 DEF CInv, Own
  <2> QED
    BY <2>1, <2>2
<1>6. (EntryIsOfProbe /\ ReadFresh /\ CacheIsFresh)'
  BY <1>1, <1>3 DEF EntryIsOfProbe, ReadFresh, CacheIsFresh
<1>7. OneProbe'
  <2>1. Undone = {}
    BY DEF CInv, OneProbe, Start
  <2>2. \A u \in Probes \ {t} : task'[u].pc \notin {"created", "running", "read"}
    BY <1>3, <2>1 DEF Undone
  <2> QED
    BY <2>2 DEF OneProbe, Undone
<1> QED
  BY <1>4, <1>5, <1>6, <1>7 DEF CInv

LEMMA LookStep ==
    ASSUME CInv, NEW c \in Callers, NEW r, Asking(r), Look(c, r),
           UNCHANGED <<version, known, closed>>
    PROVE  CInv'
BY HitStep, ShareStep, ReplaceStep, StartStep DEF Look

LEMMA AskStep ==
    ASSUME CInv, NEW c \in Callers, NEW x \in Contexts, NEW f \in BOOLEAN, Ask(c, x, f)
    PROVE  CInv'
<1> DEFINE r == CallOf("idle", x, f, known)
<1>1. Asking(r)
  BY CatalogAssumption DEF CInv, CTypeOK, Asking, CallOf, CallRecord, Results, Own
<1> QED
  BY <1>1, LookStep DEF Ask

LEMMA LookAgainStep ==
    ASSUME CInv, NEW c \in Callers, LookAgain(c)
    PROVE  CInv'
<1>1. Asking(caller[c])
  BY DEF CInv, CTypeOK, Asking
<1> QED
  BY <1>1, LookStep DEF LookAgain

(* discover: what else becomes of a call.                                      *)
LEMMA CallerStep ==
    ASSUME CInv, NEW c \in Callers, Wake(c) \/ CancelCaller(c)
    PROVE  CInv'
<1>1. UNCHANGED <<cached, probing, task, version, known, closed>>
  BY DEF Wake, CancelCaller
<1>2. PICK n \in CallRecord :
        /\ caller' = [caller EXCEPT ![c] = n]
        /\ n.pc \in {"done", "cancelled", "gone"} /\ Own(n) /\ n.since <= known
  <2>1. CASE Wake(c)
    <3> DEFINE t == caller[c].task
    <3>0. caller[c] \in CallRecord /\ Own(caller[c]) /\ caller[c].since <= known
      BY DEF CInv, CTypeOK
    <3>1. CASE task[t].pc = "done"
      <4> DEFINE n == Given(caller[c], t, task[t].result)
      <4>1. /\ t \in Probes /\ task[t].ctx = caller[c].ctx
            /\ task[t].result = "ready" => task[t].asof >= caller[c].since
        BY <2>1, <3>1 DEF CInv, Shares, Waiting, Wake
      <4>2. task[t].ctx \in Contexts \cup {"none"} /\ task[t].asof \in 0 .. MaxChanges
            /\ task[t].result \in Results
        BY <4>1 DEF CInv, CTypeOK, ProbeRecord
      <4>3. n \in CallRecord
        BY <3>0, <4>2 DEF CallRecord, Given
      <4>4. /\ n.pc = "done" /\ n.ctx = caller[c].ctx /\ n.since = caller[c].since
            /\ n.of = task[t].ctx /\ n.asof = task[t].asof /\ n.got = task[t].result
        BY <3>0 DEF CallRecord, Given
      <4>5. caller' = [caller EXCEPT ![c] = n]
        BY <2>1, <3>1 DEF Wake, CInv, CTypeOK, Given
      <4> QED
        BY <3>0, <4>1, <4>3, <4>4, <4>5 DEF Own
    <3>2. CASE task[t].pc # "done"
      <4> DEFINE n == [caller[c] EXCEPT !.pc = "cancelled", !.task = NoProbe]
      <4>1. /\ n \in CallRecord /\ n.pc = "cancelled" /\ Own(n) /\ n.since = caller[c].since
        BY <3>0 DEF CallRecord, Own
      <4>2. caller' = [caller EXCEPT ![c] = n]
        BY <2>1, <3>2 DEF Wake, CInv, CTypeOK
      <4> QED
        BY <3>0, <4>1, <4>2
    <3> QED
      BY <3>1, <3>2
  <2>2. CASE CancelCaller(c)
    <3> DEFINE n == CallOf("gone", "none", FALSE, 0)
    <3>1. n \in CallRecord /\ n.pc = "gone" /\ Own(n) /\ n.since = 0
      BY CatalogAssumption DEF CallOf, CallRecord, Results, Own
    <3>2. 0 <= known
      BY CatalogAssumption DEF CInv, CTypeOK
    <3>3. caller' = [caller EXCEPT ![c] = n]
      BY <2>2 DEF CancelCaller
    <3>4. n.since <= known
      BY <3>1, <3>2
    <3> HIDE DEF n
    <3> QED
      BY <3>1, <3>3, <3>4
  <2> QED
    BY <2>1, <2>2
<1>3. CTypeOK'
  BY <1>1, <1>2 DEF CInv, CTypeOK
<1>4. ASSUME NEW d \in Callers
      PROVE  (Shares(d) /\ Own(caller[d]) /\ caller[d].since <= known)'
  <2>1. CASE d = c
    <3>1. caller'[d] = n
      BY <2>1, <1>2 DEF CInv, CTypeOK
    <3> QED
      BY <3>1, <1>1, <1>2 DEF Shares, Waiting, Own
  <2>2. CASE d # c
    <3>1. caller'[d] = caller[d]
      BY <2>2, <1>2 DEF CInv, CTypeOK
    <3> QED
      BY <3>1, <1>1 DEF CInv, Shares, Waiting, Own
  <2> QED
    BY <2>1, <2>2
<1>5. (EntryIsOfProbe /\ ReadFresh /\ CacheIsFresh /\ OneProbe /\ known <= version)'
  BY <1>1 DEF CInv, EntryIsOfProbe, ReadFresh, CacheIsFresh, OneProbe, Undone
<1> QED
  BY <1>3, <1>4, <1>5 DEF CInv
-----------------------------------------------------------------------------
(* probe                                                                   *)

LEMMA BeginStep ==
    ASSUME CInv, NEW t \in Probes, Begin(t)
    PROVE  CInv'
<1>1. UNCHANGED <<cached, probing, caller, version, known, closed>>
  BY DEF Begin
<1>2. PICK s \in {"cancelled", "running"} : task' = [task EXCEPT ![t].pc = s]
  BY DEF Begin
<1>3. /\ task[t].pc = "created" /\ task'[t].pc = s
      /\ \A u \in Probes : /\ u # t => task'[u] = task[u]
                           /\ task'[u].ctx = task[u].ctx /\ task'[u].asof = task[u].asof
                           /\ task'[u].result = task[u].result
  BY <1>2 DEF Begin, CInv, CTypeOK, ProbeRecord
<1>4. CTypeOK'
  <2>1. task' \in [Probes -> ProbeRecord]
    BY <1>2, ProbeMoves DEF CInv, CTypeOK
  <2> QED
    BY <1>1, <2>1 DEF CInv, CTypeOK
<1>5. \A c \in Callers : (Shares(c) /\ Own(caller[c]) /\ caller[c].since <= known)'
  BY <1>1, <1>3 DEF CInv, Shares, Waiting, Own
<1>6. (EntryIsOfProbe /\ ReadFresh /\ CacheIsFresh)'
  BY <1>1, <1>3 DEF CInv, EntryIsOfProbe, ReadFresh, CacheIsFresh, Undone, NoCatalog
<1>7. (OneProbe /\ known <= version)'
  BY <1>1, <1>3 DEF CInv, OneProbe, Undone
<1> QED
  BY <1>4, <1>5, <1>6, <1>7 DEF CInv

LEMMA ReadStep ==
    ASSUME CInv, NEW t \in Probes, ReadRuntime(t)
    PROVE  CInv'
<1>1. UNCHANGED <<cached, probing, caller, version, known, closed>>
  BY DEF ReadRuntime
<1>2. /\ task[t].pc = "running" /\ task'[t].pc = "read" /\ task'[t].asof = version
      /\ \A u \in Probes : /\ u # t => task'[u] = task[u]
                           /\ task'[u].ctx = task[u].ctx
  BY DEF ReadRuntime, CInv, CTypeOK
<1>3. CTypeOK'
  <2>1. task' \in [Probes -> ProbeRecord]
    BY ProbeMoves DEF CInv, CTypeOK, ReadRuntime
  <2> QED
    BY <1>1, <2>1 DEF CInv, CTypeOK
<1>4. \A c \in Callers : (Shares(c) /\ Own(caller[c]) /\ caller[c].since <= known)'
  BY <1>1, <1>2 DEF CInv, Shares, Waiting, Own
<1>5. (EntryIsOfProbe /\ ReadFresh /\ CacheIsFresh)'
  BY <1>1, <1>2 DEF CInv, EntryIsOfProbe, ReadFresh, CacheIsFresh, Undone, NoCatalog
<1>6. (OneProbe /\ known <= version)'
  BY <1>1, <1>2 DEF CInv, OneProbe, Undone
<1> QED
  BY <1>3, <1>4, <1>5, <1>6 DEF CInv

(* A probe that is over: stored, dropped or cancelled.                         *)
LEMMA OverStep ==
    ASSUME CInv, NEW t \in Probes, t \in Undone,
           NEW p \in {"done", "cancelled"}, NEW s \in Results,
           task' = [task EXCEPT ![t].pc = p, ![t].result = s],
           p = "done" /\ s = "ready" => task[t].pc = "read" /\ cached.probe = t,
           \/ cached' = cached /\ (cached.probe = t => p = "cancelled")
           \/ p = "done" /\ s # "none" /\ cached.probe = t /\ cached' = [probe |-> t, status |-> s],
           UNCHANGED <<probing, caller, version, known, closed>>
    PROVE  CInv'
<1>1. /\ task[t].pc \in {"created", "running", "read"}
      /\ task'[t].pc = p /\ task'[t].result = s
      /\ \A u \in Probes : /\ u # t => task'[u] = task[u]
                           /\ task'[u].ctx = task[u].ctx /\ task'[u].asof = task[u].asof
  BY DEF CInv, CTypeOK, Undone
<1>2. CTypeOK'
  <2>1. cached' \in [probe : Probes \cup {NoProbe}, status : Results]
    BY DEF CInv, CTypeOK
  <2>2. task' \in [Probes -> ProbeRecord]
    BY ProbeMoves DEF CInv, CTypeOK
  <2>3. UNCHANGED <<probing, caller, version, known, closed>>
    OBVIOUS
  <2> QED
    BY <2>1, <2>2, <2>3 DEF CInv, CTypeOK
<1>3. probing = t
  BY DEF CInv, OneProbe
<1>4. p = "done" /\ s = "ready" => cached # NoCatalog /\ task[t].asof >= known
  BY <1>3 DEF CInv, ReadFresh, NoCatalog, NoProbe, Probes
<1>5. (OneProbe /\ known <= version)'
  BY <1>1 DEF CInv, OneProbe, Undone
<1>6. (EntryIsOfProbe /\ ReadFresh /\ CacheIsFresh)'
  <2>0. (probing \notin Undone)'
    BY <1>1, <1>3 DEF Undone
  <2>1. CASE cached' = cached
    <3>1. CASE cached = NoCatalog
      BY <2>1, <3>1 DEF EntryIsOfProbe, ReadFresh, CacheIsFresh, NoCatalog
    <3>2. CASE cached # NoCatalog /\ cached.probe = t
      BY <1>1, <2>0, <2>1, <3>2 DEF CInv, EntryIsOfProbe, ReadFresh, CacheIsFresh
    <3>3. CASE cached # NoCatalog /\ cached.probe # t
      BY <1>1, <2>0, <2>1, <3>3 DEF CInv, EntryIsOfProbe, ReadFresh, CacheIsFresh
    <3> QED
      BY <3>1, <3>2, <3>3
  <2>2. CASE p = "done" /\ s # "none" /\ cached' = [probe |-> t, status |-> s]
    BY <1>1, <1>4, <2>0, <2>2 DEF EntryIsOfProbe, ReadFresh, CacheIsFresh
  <2> QED
    BY <2>1, <2>2
<1>7. ASSUME NEW c \in Callers
      PROVE  (Shares(c) /\ Own(caller[c]) /\ caller[c].since <= known)'
  <2>1. known \in Int /\ caller[c].since \in Int /\ caller[c].since <= known
    BY DEF CInv, CTypeOK, CallRecord
  <2>2. p = "done" /\ s = "ready" => task[t].asof >= caller[c].since
    <3>1. task[t].asof \in Int
      BY DEF CInv, CTypeOK, ProbeRecord
    <3> QED
      BY <1>4, <2>1, <3>1
  <2>3. Shares(c)'
    <3>1. Shares(c) /\ caller' = caller
      BY DEF CInv
    <3>2. CASE caller[c].task = t
      <4>1. c \in Waiting' <=> c \in Waiting
        BY <3>1 DEF Waiting
      <4>2. /\ task'[t].ctx = task[t].ctx /\ task'[t].asof = task[t].asof
            /\ task'[t].pc = p /\ task'[t].result = s
        BY <1>1
      <4> QED
        BY <2>2, <3>1, <3>2, <4>1, <4>2 DEF Shares
    <3>3. CASE caller[c].task # t
      BY <1>1, <3>1, <3>3 DEF Shares, Waiting
    <3> QED
      BY <3>2, <3>3
  <2> QED
    BY <2>1, <2>3 DEF CInv, Own
<1> QED
  BY <1>2, <1>5, <1>6, <1>7 DEF CInv

LEMMA StoredStep ==
    ASSUME CInv, NEW t \in Probes, NEW s \in {"ready", "failed"},
           task[t].pc \in {"running", "read"}, s = "ready" => task[t].pc = "read",
           Stored(t, s), UNCHANGED <<probing, caller, version, known, closed>>
    PROVE  CInv'
<1>1. t \in Undone
  BY DEF Undone
<1>2. CASE cached.probe = t
  <2>1. /\ cached' = [probe |-> t, status |-> s]
        /\ task' = [task EXCEPT ![t].pc = "done", ![t].result = s]
    BY <1>2 DEF Stored
  <2>2. s \in Results /\ s # "none"
    BY DEF Results
  <2> QED
    BY <1>1, <1>2, <2>1, <2>2, OverStep
<1>3. CASE cached.probe # t
  <2>1. /\ cached' = cached
        /\ task' = [task EXCEPT ![t].pc = "done", ![t].result = "loading"]
    BY <1>3 DEF Stored
  <2>2. "loading" \in Results
    BY DEF Results
  <2> QED
    BY <1>1, <1>3, <2>1, <2>2, OverStep
<1> QED
  BY <1>2, <1>3

LEMMA UnwindStep ==
    ASSUME CInv, NEW t \in Probes, Unwind(t)
    PROVE  CInv'
<1>1. t \in Undone /\ UNCHANGED <<cached, probing, caller, version, known, closed>>
  BY DEF Unwind, Undone
<1>2. CASE cached.probe = t
  <2>1. task' = [task EXCEPT ![t].pc = "cancelled", ![t].result = task[t].result]
    BY <1>2 DEF Unwind, CInv, CTypeOK
  <2>2. task[t].result \in Results
    BY DEF CInv, CTypeOK, ProbeRecord
  <2> QED
    BY <1>1, <2>1, <2>2, OverStep
<1>3. CASE cached.probe # t
  <2>1. task' = [task EXCEPT ![t].pc = "done", ![t].result = "loading"]
    BY <1>3 DEF Unwind, CInv, CTypeOK
  <2>2. "loading" \in Results
    BY DEF Results
  <2> QED
    BY <1>1, <1>3, <2>1, <2>2, OverStep
<1> QED
  BY <1>2, <1>3

(* What forgets the entry, or nothing: a callback, an invalidation, the LRU,   *)
(* close().                                                                    *)
LEMMA ForgetStep ==
    ASSUME CInv,
           UNCHANGED <<task, caller>>,
           \/ cached' = cached /\ known' = known
           \/ cached' = NoCatalog /\ known' \in {known, version},
           probing' = probing \/ (probing \notin Undone /\ probing' = NoProbe),
           version' = version \/ (version < MaxChanges /\ version' = version + 1),
           closed' \in BOOLEAN
    PROVE  CInv'
<1>1. /\ known \in 0 .. MaxChanges /\ version \in 0 .. MaxChanges /\ known <= version
      /\ MaxChanges \in Nat
  BY CatalogAssumption DEF CInv, CTypeOK
<1>2. /\ known' \in 0 .. MaxChanges /\ version' \in 0 .. MaxChanges
      /\ known <= known' /\ known' <= version'
  BY <1>1
<1>3. CTypeOK'
  <2>1. cached' \in [probe : Probes \cup {NoProbe}, status : Results]
    BY DEF CInv, CTypeOK, NoCatalog, Results
  <2>2. probing' \in Probes \cup {NoProbe}
    BY DEF CInv, CTypeOK
  <2> QED
    BY <1>2, <2>1, <2>2 DEF CInv, CTypeOK
<1>4. (EntryIsOfProbe /\ ReadFresh /\ CacheIsFresh)'
  <2>1. CASE cached' = NoCatalog
    BY <2>1 DEF EntryIsOfProbe, ReadFresh, CacheIsFresh, NoCatalog
  <2>2. CASE cached' = cached /\ known' = known
    <3>1. probing' \in Undone => probing' = probing
      BY DEF Undone, NoProbe, Probes
    <3> QED
      BY <2>2, <3>1 DEF CInv, EntryIsOfProbe, ReadFresh, CacheIsFresh, Undone
  <2> QED
    BY <2>1, <2>2
<1>5. OneProbe'
  BY DEF CInv, OneProbe, Undone
<1>6. ASSUME NEW c \in Callers
      PROVE  (Shares(c) /\ Own(caller[c]) /\ caller[c].since <= known)'
  <2>1. caller[c].since \in Int /\ caller[c].since <= known
    BY DEF CInv, CTypeOK, CallRecord
  <2>2. caller[c].since <= known'
    BY <1>1, <1>2, <2>1
  <2> QED
    BY <2>2 DEF CInv, Shares, Waiting, Own
<1> QED
  BY <1>2, <1>3, <1>4, <1>5, <1>6 DEF CInv

LEMMA CloseStep ==
    ASSUME CInv, Close
    PROVE  CInv'
<1>1. UNCHANGED <<cached, probing, caller, version, known>> /\ closed' \in BOOLEAN
  BY DEF Close
<1>2. \A t \in Probes : /\ task'[t].pc = task[t].pc /\ task'[t].ctx = task[t].ctx
                       /\ task'[t].result = task[t].result /\ task'[t].asof = task[t].asof
  BY DEF CInv, CTypeOK, Close, Undone
<1>3. CTypeOK'
  <2>1. task' \in [Probes -> ProbeRecord]
    BY ProbeMoves DEF CInv, CTypeOK, Close, Undone
  <2> QED
    BY <1>1, <2>1 DEF CInv, CTypeOK
<1>4. \A c \in Callers : (Shares(c) /\ Own(caller[c]) /\ caller[c].since <= known)'
  BY <1>1, <1>2 DEF CInv, Shares, Waiting, Own
<1>5. (EntryIsOfProbe /\ ReadFresh /\ CacheIsFresh)'
  BY <1>1, <1>2 DEF CInv, EntryIsOfProbe, ReadFresh, CacheIsFresh, Undone, NoCatalog
<1>6. (OneProbe /\ known <= version)'
  BY <1>1, <1>2 DEF CInv, OneProbe, Undone
<1> QED
  BY <1>3, <1>4, <1>5, <1>6 DEF CInv

-----------------------------------------------------------------------------
LEMMA NextHolds == CInv /\ [CNext]_cvars => CInv'
<1> SUFFICES ASSUME CInv, [CNext]_cvars PROVE CInv'
  OBVIOUS
<1>1. ASSUME NEW c \in Callers, NEW x \in Contexts, NEW f \in BOOLEAN, Ask(c, x, f)
      PROVE  CInv'
  BY <1>1, AskStep
<1>2. ASSUME NEW c \in Callers, Call(c) \/ CancelCaller(c)
      PROVE  CInv'
  BY <1>2, LookAgainStep, CallerStep DEF Call
<1>3. ASSUME NEW t \in Probes, Begin(t) \/ ReadRuntime(t) \/ Unwind(t)
      PROVE  CInv'
  BY <1>3, BeginStep, ReadStep, UnwindStep
<1>4. ASSUME NEW t \in Probes, Answer(t) \/ FailProbe(t)
      PROVE  CInv'
  BY <1>4, StoredStep DEF Answer, FailProbe
<1>5. ASSUME NEW t \in Probes, Complete(t)
      PROVE  CInv'
  <2>1. probing \notin Undone
    BY <1>5 DEF Complete, Undone
  <2>2. closed \in BOOLEAN
    BY DEF CInv, CTypeOK
  <2> QED
    BY <1>5, <2>1, <2>2, ForgetStep DEF Complete
<1>6. CASE Change \/ Invalidate \/ Evict \/ Clear
  <2>1. closed \in BOOLEAN
    BY DEF CInv, CTypeOK
  <2> QED
    BY <1>6, <2>1, ForgetStep DEF Change, Invalidate, Evict, Clear
<1>7. CASE Close
  BY <1>7, CloseStep
<1>8. CASE UNCHANGED cvars
  <2>1. closed \in BOOLEAN
    BY DEF CInv, CTypeOK
  <2> QED
    BY <1>8, <2>1, ForgetStep DEF cvars
<1> QED
  BY <1>1, <1>2, <1>3, <1>4, <1>5, <1>6, <1>7, <1>8 DEF CNext, Probe

(* The invariant of discovery holds throughout (commands.py, discover, probe). *)
THEOREM CInductive == CSpec => []CInv
BY CInitHolds, NextHolds, PTL DEF CSpec

(* Every variable of the catalog keeps its type.                               *)
THEOREM CTypeCorrect == CSpec => []CTypeOK
<1>1. CInv => CTypeOK
  BY DEF CInv
<1> QED
  BY <1>1, CInductive, PTL

(* No probe fills the entry with what it read before an invalidation           *)
(* (invalidate, probe).                                                        *)
THEOREM StaysFresh == CSpec => []CacheIsFresh
<1>1. CInv => CacheIsFresh
  BY DEF CInv
<1> QED
  BY <1>1, CInductive, PTL

(* A call gets the commands of its own context, none older than the last       *)
(* invalidation before it, whoever's probe it shared (discover).               *)
THEOREM GivesOwn == CSpec => []GivenOwn
<1>1. CInv => GivenOwn
  BY DEF CInv, GivenOwn, Own
<1> QED
  BY <1>1, CInductive, PTL

(* Only the registered probe is under way (discover, complete).                *)
THEOREM ProbesOnce == CSpec => []OneProbe
<1>1. CInv => OneProbe
  BY DEF CInv
<1> QED
  BY <1>1, CInductive, PTL

-----------------------------------------------------------------------------
(* The deliveries: their inductive invariant.                              *)

(* Who is at work holds the guard, and for a delivery.                         *)
HoldsGuard(a) ==
    attempt[a].pc \in Holding => guard = a /\ attempt[a].of \in Deliveries

(* What the ledger says at each of its awaits.                                 *)
AtAwait(a) ==
    LET d == attempt[a].of IN
    /\ attempt[a].pc = "accepting" => receipt[d] = "none"
    /\ attempt[a].pc = "stored" => receipt[d] = "open" /\ begun[d] = 0
    /\ attempt[a].pc \in {"running", "streaming"} => begun[d] = 1
    /\ attempt[a].pc \in {"running", "streaming", "recording"} => receipt[d] = "open"
    /\ attempt[a].pc = "recording" =>
         attempt[a].outcome \in Outcomes
         /\ (attempt[a].outcome = "completed" => effects[d] = "done")

(* What it was told of.                                                        *)
ToldTrue(a) ==
    attempt[a].told = "completed" =>
       attempt[a].of \in Deliveries /\ effects[attempt[a].of] = "done"

(* Nothing is dispatched before its receipt, and what was done was dispatched. *)
ReceiptFirst(d) ==
    /\ begun[d] <= 1
    /\ receipt[d] = "none" => begun[d] = 0
    /\ effects[d] = "done" => begun[d] = 1
    /\ receipt[d] = "completed" => effects[d] = "done"

DInv ==
    /\ TypeOK
    /\ \A a \in Attempts : HoldsGuard(a) /\ AtAwait(a) /\ ToldTrue(a)
    /\ \A d \in Deliveries : ReceiptFirst(d)

LEMMA InitHolds == Init => DInv
BY DeliveriesAssumption
   DEF Init, DInv, TypeOK, HoldsGuard, AtAwait, ToldTrue, ReceiptFirst, NotSent, Attempt,
       Holding,       Outcomes

-----------------------------------------------------------------------------
(* Two attempts are never at work at once.                                     *)
LEMMA Alone ==
    ASSUME DInv, NEW a \in Attempts, NEW b \in Attempts,
           attempt[a].pc \in Holding, attempt[b].pc \in Holding
    PROVE  a = b
BY DEF DInv, HoldsGuard

LEMMA Nats == ASSUME DInv, NEW d \in Deliveries PROVE begun[d] \in Nat
BY DEF DInv, TypeOK

(* One lemma per action. Where the ledger is untouched, the attempts that stay *)
(* as they are keep what was true of them.                                     *)
LEMMA TurnStep == ASSUME DInv, StartTurn \/ EndTurn PROVE DInv'
BY DeliveriesAssumption
   DEF DInv, TypeOK, HoldsGuard, AtAwait, ToldTrue, ReceiptFirst, Holding, StartTurn, EndTurn

LEMMA SendStep ==
    ASSUME DInv, NEW a \in Attempts, NEW d \in Deliveries, Send(a, d)
    PROVE  DInv'
<1>0. /\ UNCHANGED <<receipt, effects, begun, faults>>
      /\ \/ /\ guard = Nobody /\ guard' = a
            /\ attempt' = [attempt EXCEPT ![a] =
                 [pc |-> "discovering", of |-> d, outcome |-> "none", told |-> "none"]]
         \/ /\ guard' = guard
            /\ attempt' = [attempt EXCEPT ![a] =
                 [pc |-> "over", of |-> d, outcome |-> "none", told |-> "busy"]]
  BY DEF Send, Attempt
<1>1. TypeOK'
  BY <1>0 DEF DInv, TypeOK, Holding, Outcomes
<1>2. ASSUME NEW b \in Attempts
      PROVE  HoldsGuard(b)' /\ AtAwait(b)' /\ ToldTrue(b)'
  <2>1. CASE b = a
    BY <2>1, <1>0 DEF DInv, TypeOK, HoldsGuard, AtAwait, ToldTrue, Holding
  <2>2. CASE b # a
    <3>1. attempt'[b] = attempt[b]
      BY <2>2, <1>0 DEF DInv, TypeOK
    <3>2. guard = Nobody => attempt[b].pc \notin Holding
      BY DeliveriesAssumption DEF DInv, HoldsGuard
    <3> QED
      BY <3>1, <3>2, <1>0 DEF DInv, HoldsGuard, AtAwait, ToldTrue
  <2> QED
    BY <2>1, <2>2
<1>3. \A e \in Deliveries : ReceiptFirst(e)'
  BY <1>0 DEF DInv, ReceiptFirst
<1> QED
  BY <1>1, <1>2, <1>3 DEF DInv

(* Steps that only move the attempt.                                           *)
LEMMA MoveStep ==
    ASSUME DInv, NEW a \in Attempts,
           Check(a) \/ Find(a) \/ Stream(a) \/ Leave(a)
    PROVE  DInv'
<1> USE DEF Goes, IsTold
<1>1. TypeOK'
  BY DEF DInv, TypeOK, Check, Find, Stream, Leave, Recorded, ReleasedBy, Holding, Outcomes
<1>2. ASSUME NEW b \in Attempts
      PROVE  HoldsGuard(b)' /\ AtAwait(b)' /\ ToldTrue(b)'
  <2>1. CASE b = a
    <3>1. HoldsGuard(a)'
      BY DEF DInv, TypeOK, HoldsGuard, Holding, Check, Find, Stream, Leave
    <3>2. AtAwait(a)'
      BY DEF DInv, TypeOK, AtAwait, Holding, Check, Find, Stream, Leave, Recorded
    <3>3. ToldTrue(a)'
      BY DEF DInv, TypeOK, ToldTrue, HoldsGuard, Holding, Check, Find, Stream, Leave,
             Recorded, ReceiptFirst, Outcomes
    <3> QED
      BY <2>1, <3>1, <3>2, <3>3
  <2>2. CASE b # a
    <3>1. attempt'[b] = attempt[b] /\ UNCHANGED <<receipt, effects, begun>>
      BY <2>2 DEF DInv, TypeOK, Check, Find, Stream, Leave
    <3>2. HoldsGuard(b)'
      <4>1. attempt[a].pc \in Holding
        BY DEF Check, Find, Stream, Leave, Holding
      <4>2. attempt[b].pc \notin Holding
        BY <4>1, <2>2, Alone
      <4> QED
        BY <4>2, <3>1 DEF HoldsGuard
    <3> QED
      BY <3>1, <3>2 DEF DInv, AtAwait, ToldTrue
  <2> QED
    BY <2>1, <2>2
<1>3. \A e \in Deliveries : ReceiptFirst(e)'
  BY DEF DInv, ReceiptFirst, Check, Find, Stream, Leave
<1> QED
  BY <1>1, <1>2, <1>3 DEF DInv

(* Steps that touch the ledger or the runtime, for the attempt's delivery.     *)
LEMMA WorkStep ==
    ASSUME DInv, NEW a \in Attempts,
           Store(a) \/ Dispatch(a) \/ Direct(a) \/ EndStream(a) \/ Record(a)
    PROVE  DInv'
<1> USE DEF Goes, GoesWith, IsTold, Interrupted
<1> DEFINE d == attempt[a].of
<1>0. /\ attempt[a].pc \in Holding /\ d \in Deliveries /\ guard = a
      /\ guard' = guard /\ faults' = faults
      /\ attempt'[a].of = d
  BY DEF DInv, TypeOK, HoldsGuard, Store, Dispatch, Direct, EndStream, Record, Holding
<1>1. TypeOK'
  <2>1. attempt' \in [Attempts ->
          [pc : Holding \cup {"idle", "over"}, of : Deliveries \cup {"none"},
           outcome : Outcomes \cup {"none"},
           told : Outcomes \cup {"none", "busy", "refused", "accepted"}]]
    BY DEF DInv, TypeOK, AtAwait, Store, Dispatch, Direct, EndStream, Record, Holding, Outcomes
  <2>2. receipt' \in [Deliveries -> Outcomes \cup {"none", "open"}]
    BY <1>0 DEF DInv, TypeOK, AtAwait, Store, Dispatch, Direct, EndStream, Record, Outcomes
  <2>3. effects' \in [Deliveries -> {"none", "begun", "done"}]
    BY <1>0 DEF DInv, TypeOK, Store, Dispatch, Direct, EndStream, Record
  <2>4. begun' \in [Deliveries -> Nat]
    BY <1>0 DEF DInv, TypeOK, Store, Dispatch, Direct, EndStream, Record
  <2> QED
    BY <1>0, <2>1, <2>2, <2>3, <2>4 DEF DInv, TypeOK
<1>2. \A e \in Deliveries : effects[e] = "done" => effects'[e] = "done"
  <2>1. CASE Dispatch(a)
    BY <2>1, <1>0 DEF DInv, TypeOK, AtAwait, ReceiptFirst, Dispatch
  <2>2. CASE ~Dispatch(a)
    BY <2>2, <1>0 DEF DInv, TypeOK, Store, Direct, EndStream, Record
  <2> QED
    BY <2>1, <2>2
<1>3. ASSUME NEW b \in Attempts
      PROVE  HoldsGuard(b)' /\ AtAwait(b)' /\ ToldTrue(b)'
  <2>1. CASE b = a
    <3>1. HoldsGuard(a)'
      BY <1>0 DEF HoldsGuard
    <3>2. AtAwait(a)'
      BY <1>0 DEF DInv, TypeOK, AtAwait, ReceiptFirst, Store, Dispatch, Direct, EndStream,
                  Record, Outcomes
    <3>3. ToldTrue(a)'
      BY <1>0, <1>2 DEF DInv, TypeOK, AtAwait, ToldTrue, Store, Dispatch, Direct, EndStream,
                        Record, Outcomes
    <3> QED
      BY <2>1, <3>1, <3>2, <3>3
  <2>2. CASE b # a
    <3>1. attempt'[b] = attempt[b]
      BY <2>2 DEF DInv, TypeOK, Store, Dispatch, Direct, EndStream, Record
    <3>2. attempt[b].pc \notin Holding
      BY <1>0, <2>2, Alone
    <3> QED
      BY <3>1, <3>2, <1>2 DEF DInv, HoldsGuard, AtAwait, ToldTrue, Holding
  <2> QED
    BY <2>1, <2>2
<1>4. ASSUME NEW e \in Deliveries PROVE ReceiptFirst(e)'
  <2>1. CASE e # d
    <3>1. receipt'[e] = receipt[e] /\ effects'[e] = effects[e] /\ begun'[e] = begun[e]
      BY <2>1 DEF DInv, TypeOK, Store, Dispatch, Direct, EndStream, Record
    <3> QED
      BY <3>1 DEF DInv, ReceiptFirst
  <2>2. CASE e = d
    <3>1. CASE Store(a)
      BY <3>1, <2>2, <1>0 DEF DInv, TypeOK, AtAwait, ReceiptFirst, Store
    <3>2. CASE Dispatch(a)
      BY <3>2, <2>2, <1>0 DEF DInv, TypeOK, AtAwait, ReceiptFirst, Dispatch
    <3>3. CASE Direct(a) \/ EndStream(a)
      <4>1. /\ receipt' = receipt /\ begun' = begun
            /\ effects' = effects \/ effects' = [effects EXCEPT ![d] = "done"]
            /\ receipt[d] = "open" /\ begun[d] = 1
        BY <3>3 DEF DInv, AtAwait, Direct, EndStream
      <4> QED
        BY <4>1, <2>2, <1>0 DEF DInv, TypeOK, ReceiptFirst
    <3>4. CASE Record(a)
      BY <3>4, <2>2, <1>0 DEF DInv, TypeOK, AtAwait, ReceiptFirst, Record, Outcomes
    <3> QED
      BY <3>1, <3>2, <3>3, <3>4
  <2> QED
    BY <2>1, <2>2
<1> QED
  BY <1>1, <1>3, <1>4 DEF DInv

(* Faults: the one at work stops where it is, or all of them do.               *)
LEMMA FaultStep ==
    ASSUME DInv, NEW a \in Attempts, Cancel(a) \/ FailToCommit(a)
    PROVE  DInv'
<1> USE DEF Goes, GoesWith, Interrupted
<1>0. attempt[a].pc \in Holding
  BY DEF Cancel, FailToCommit, Holding
<1>1. /\ UNCHANGED <<guard, receipt, effects, begun>>
      /\ faults' \in 0 .. MaxFaults
      /\ \/ attempt' = [attempt EXCEPT ![a].pc = "leaving"]
         \/ /\ attempt[a].pc \in {"running", "streaming"}
            /\ attempt' = [attempt EXCEPT ![a].pc = "recording", ![a].outcome = "failed"]
  BY DeliveriesAssumption DEF DInv, TypeOK, Cancel, FailToCommit
<1>2. TypeOK'
  BY <1>1 DEF DInv, TypeOK, Holding, Outcomes
<1>3. ASSUME NEW b \in Attempts
      PROVE  HoldsGuard(b)' /\ AtAwait(b)' /\ ToldTrue(b)'
  <2>1. CASE b = a
    BY <2>1, <1>0, <1>1 DEF DInv, TypeOK, HoldsGuard, AtAwait, ToldTrue, Outcomes
  <2>2. CASE b # a
    <3>1. attempt'[b] = attempt[b]
      BY <2>2, <1>1 DEF DInv, TypeOK
    <3> QED
      BY <3>1, <1>1 DEF DInv, HoldsGuard, AtAwait, ToldTrue
  <2> QED
    BY <2>1, <2>2
<1>4. \A e \in Deliveries : ReceiptFirst(e)'
  BY <1>1 DEF DInv, ReceiptFirst
<1> QED
  BY <1>2, <1>3, <1>4 DEF DInv

LEMMA CrashStep == ASSUME DInv, Crash PROVE DInv'
<1>1. TypeOK'
  BY DeliveriesAssumption DEF DInv, TypeOK, Crash
<1>2. ASSUME NEW b \in Attempts
      PROVE  HoldsGuard(b)' /\ AtAwait(b)' /\ ToldTrue(b)'
  <2>1. /\ attempt'[b].pc \in {"idle", "over"}
        /\ attempt'[b].of = attempt[b].of /\ attempt'[b].told = attempt[b].told
        /\ effects' = effects
    BY DEF DInv, TypeOK, Crash
  <2> QED
    BY <2>1 DEF DInv, HoldsGuard, AtAwait, ToldTrue, Holding
<1>3. \A e \in Deliveries : ReceiptFirst(e)'
  BY DEF DInv, ReceiptFirst, Crash
<1> QED
  BY <1>1, <1>2, <1>3 DEF DInv

LEMMA Stutter == ASSUME DInv, UNCHANGED vars PROVE DInv'
BY DEF DInv, TypeOK, HoldsGuard, AtAwait, ToldTrue, ReceiptFirst, vars

(* The invariant of deliveries holds throughout (CommandManager).              *)
THEOREM Inductive == Spec => []DInv
<1>1. DInv /\ [Next]_vars => DInv'
  <2> SUFFICES ASSUME DInv, [Next]_vars PROVE DInv'
    OBVIOUS
  <2>1. CASE StartTurn \/ EndTurn
    BY <2>1, TurnStep
  <2>2. ASSUME NEW a \in Attempts, NEW d \in Deliveries, Send(a, d) PROVE DInv'
    BY <2>2, SendStep
  <2>3. ASSUME NEW a \in Attempts, Step(a) PROVE DInv'
    BY <2>3, MoveStep, WorkStep DEF Step
  <2>4. ASSUME NEW a \in Attempts, Cancel(a) \/ FailToCommit(a) PROVE DInv'
    BY <2>4, FaultStep
  <2>5. CASE Crash
    BY <2>5, CrashStep
  <2>6. CASE UNCHANGED vars
    BY <2>6, Stutter
  <2> QED
    BY <2>1, <2>2, <2>3, <2>4, <2>5, <2>6 DEF Next
<1> QED
  BY <1>1, InitHolds, PTL DEF Spec

-----------------------------------------------------------------------------
(* The results.                                                            *)

(* Every reachable state of the attempts and their receipts is well typed.     *)
THEOREM TypeCorrect == Spec => []TypeOK
BY Inductive, PTL DEF DInv

(* A delivery is dispatched at most once, however often it is sent and whatever *)
(* fails or dies (validate, execute).                                          *)
THEOREM ExecutesOnce == Spec => []ExecutedOnce
<1>1. DInv => ExecutedOnce
  BY DEF DInv, ReceiptFirst, ExecutedOnce
<1> QED
  BY <1>1, Inductive, PTL

(* Whatever is said to be completed was done (record_stream).                  *)
THEOREM CompletesDone == Spec => []CompletedIsDone
<1>1. DInv => CompletedIsDone
  BY DEF DInv, ReceiptFirst, ToldTrue, CompletedIsDone
<1> QED
  BY <1>1, Inductive, PTL

(* A recorded outcome is never replaced: who sends the delivery again is told  *)
(* what the first was (validate, record_command_outcome).                      *)
THEOREM OutcomesStand == Spec => OutcomeStands
<1>1. ASSUME DInv, [Next]_vars, NEW d \in Deliveries, receipt[d] \in Outcomes
      PROVE  receipt'[d] = receipt[d]
  <2>1. CASE receipt' = receipt
    BY <2>1
  <2>2. ASSUME NEW a \in Attempts, Store(a) \/ Record(a) PROVE receipt'[d] = receipt[d]
    <3>1. receipt[attempt[a].of] \notin Outcomes
      BY <1>1, <2>2 DEF DInv, AtAwait, Store, Record, Outcomes
    <3>2. d # attempt[a].of
      BY <3>1, <1>1
    <3> QED
      BY <1>1, <2>2, <3>2 DEF DInv, TypeOK, Store, Record, IsTold
  <2>3. receipt' = receipt \/ \E a \in Attempts : Store(a) \/ Record(a)
    BY <1>1 DEF Next, Step, StartTurn, EndTurn, Send, Check, Find, Dispatch, Direct, Stream,
                EndStream, Leave, Cancel, FailToCommit, Crash, vars
  <2> QED
    BY <2>1, <2>2, <2>3
<1>2. DInv /\ [Next]_vars =>
        [\A d \in Deliveries : receipt[d] \in Outcomes => receipt'[d] = receipt[d]]_vars
  BY <1>1
<1> QED
  BY <1>2, Inductive, PTL DEF Spec, OutcomeStands
=============================================================================
