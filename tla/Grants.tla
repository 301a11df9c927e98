------------------------------- MODULE Grants -------------------------------
(***************************************************************************)
(* One user's OAuth connection to one MCP (managers/oauth.py; connect and  *)
(* cancel_authorization of managers/mcp.py; McpBearerAuth of               *)
(* oauth/base.py).                                                         *)
(*                                                                         *)
(* Calls of the MCP read the stored grant, refresh it when it runs out and *)
(* report it when the provider refuses it; browsers come back from an      *)
(* authorization, once or twice; device authorizations are polled for.     *)
(* What each of them awaits at the provider is awaited under the lock of   *)
(* the connection, and the row is read again once the lock is held.        *)
(*                                                                         *)
(* The provider numbers the grants it issues. It rotates refresh tokens:   *)
(* each is good for one refresh, and with it the old access token may die. *)
(***************************************************************************)
EXTENDS Integers

CONSTANTS Calls,      \* requests to the MCP
          Returns,    \* browser callbacks and device polls
          Codes,      \* authorization-code operations
          Devices,    \* device operations
          Bare,       \* the grants issued without a refresh token
          Nobody,     \* holds the lock when nobody does
          MaxGrants,  \* grants the provider issues
          MaxFaults   \* cancellations, deaths of the process, answers lost

Ops == Codes \cup Devices
Grant == 1 .. MaxGrants

ASSUME GrantsAssumption ==
    /\ MaxGrants \in Nat
    /\ MaxFaults \in Nat
    /\ Codes \cap Devices = {}
    /\ Calls \cap Returns = {}
    /\ Nobody \notin Calls \cup Returns
    /\ "none" \notin Ops

VARIABLES
    lock,       \* holder of the connection's lock
    row,        \* the stored connection: which grant, and its status
    ops,        \* the stored operations
    call,       \* requests: the await each is at, the token it carries
    back,       \* callbacks and polls: the same, the operation each is for
    issued,     \* provider: how many grants it issued
    aged,       \* grants whose access token is about to run out, or has
    dead,       \* provider: access tokens it no longer accepts
    spent,      \* provider: refresh tokens it no longer accepts
    excused,    \* history: grants revoked, and those rotated with nobody left to store it
    exchanged,  \* history: how often an authorization code was presented
    declined,   \* history: operations the user turned down
    faults

stored == <<row, ops>>
provider == <<issued, aged, dead, spent>>
history == <<excused, exchanged, declined>>
vars == <<lock, row, ops, call, back, provider, history, faults>>

Statuses == {"none", "active", "invalid"}

TypeOK ==
    /\ lock \in Calls \cup Returns \cup {Nobody}
    /\ row \in [grant : {0} \cup Grant, status : Statuses]
    /\ ops \in [Ops -> {"none", "open", "stale", "spent"}]
    /\ call \in [Calls -> [pc : {"idle", "waiting", "asking", "granted", "using", "retiring",
                                 "over"},
                           token : {0} \cup Grant]]
    /\ back \in [Returns -> [pc : {"idle", "waiting", "exchanging", "polling", "granted",
                                   "declining", "over"},
                             op : Ops \cup {"none"},
                             token : {0} \cup Grant]]
    /\ issued \in {0} \cup Grant
    /\ aged \subseteq Grant
    /\ dead \subseteq Grant
    /\ spent \subseteq Grant
    /\ excused \subseteq Grant
    /\ exchanged \in [Ops -> Nat]
    /\ declined \subseteq Ops
    /\ faults \in 0 .. MaxFaults

Init ==
    /\ lock = Nobody
    /\ row = [grant |-> 0, status |-> "none"]
    /\ ops = [o \in Ops |-> "none"]
    /\ call = [c \in Calls |-> [pc |-> "idle", token |-> 0]]
    /\ back = [r \in Returns |-> [pc |-> "idle", op |-> "none", token |-> 0]]
    /\ issued = 0
    /\ aged = {}
    /\ dead = {}
    /\ spent = {}
    /\ excused = {}
    /\ exchanged = [o \in Ops |-> 0]
    /\ declined = {}
    /\ faults = 0

Goes(c, pc, g) == call' = [call EXCEPT ![c] = [pc |-> pc, token |-> g]]
Comes(r, pc, g) == back' = [back EXCEPT ![r] = [pc |-> pc, op |-> @.op, token |-> g]]
Fault == faults < MaxFaults /\ faults' = faults + 1

(* Variant: the lock is let go of while the provider is asked. *)
HeldNot(x) == UNCHANGED lock

Held(x) == lock' = x

Let(x) == lock' = IF lock = x THEN Nobody ELSE lock

(* Variant: what fails at the provider leaves without releasing. *)
Keep(x) == UNCHANGED lock

LetFailed(x) == Let(x)

Granted(g) == row' = [grant |-> g, status |-> "active"]
Invalid == row' = [row EXCEPT !.status = "invalid"]

-----------------------------------------------------------------------------
(* The provider, and time. *)

Ages(g) ==
    /\ g \in 1 .. issued \ aged
    /\ aged' = aged \cup {g}
    /\ UNCHANGED <<lock, stored, call, back, issued, dead, spent, history, faults>>

Expires(g) ==
    /\ g \in aged \ dead
    /\ dead' = dead \cup {g}
    /\ UNCHANGED <<lock, stored, call, back, issued, aged, spent, history, faults>>

(* The user revokes a grant in the provider's settings. *)
Revoked(g) ==
    /\ g \in 1 .. issued \ dead
    /\ dead' = dead \cup {g}
    /\ spent' = spent \cup {g}
    /\ excused' = excused \cup {g}
    /\ UNCHANGED <<lock, stored, call, back, issued, aged, exchanged, declined, faults>>

GoesStale(o) ==
    /\ ops[o] = "open"
    /\ ops' = [ops EXCEPT ![o] = "stale"]
    /\ UNCHANGED <<lock, row, call, back, provider, history, faults>>

-----------------------------------------------------------------------------
(* Starting and cancelling an authorization. Both take the lock; a device      *)
(* authorization that is open is offered again instead.                        *)

Start(o) ==
    /\ lock = Nobody
    /\ ops[o] = "none"
    /\ o \in Devices => \A p \in Devices : ops[p] # "open"
    /\ ops' = [ops EXCEPT ![o] = "open"]
    /\ UNCHANGED <<lock, row, call, back, provider, history, faults>>

Cancel ==
    /\ lock = Nobody
    /\ \E o \in Ops : ops[o] = "open"
    /\ ops' = [o \in Ops |-> IF ops[o] \in {"open", "stale"} THEN "spent" ELSE ops[o]]
    /\ declined' = declined \cup {o \in Ops : ops[o] \in {"open", "stale"}}
    /\ UNCHANGED <<lock, row, call, back, provider, excused, exchanged, faults>>

-----------------------------------------------------------------------------
(* access_token and refresh *)

(* The row is read without the lock. A grant about to run out that cannot be   *)
(* refreshed is retired.                                                       *)
Look(c) ==
    LET g == row.grant IN
    /\ call[c].pc = "idle"
    /\ IF row.status # "active" THEN Goes(c, "over", 0)
       ELSE IF g \notin aged THEN Goes(c, "using", g)
       ELSE IF g \in Bare THEN Goes(c, "retiring", g)
       ELSE Goes(c, "waiting", g)
    /\ UNCHANGED <<lock, stored, back, provider, history, faults>>

(* Variant: refresh goes on with what access_token read before the lock. *)
AsLooked(c) == [grant |-> call[c].token, status |-> "active"]

Current(c) == row

(* refresh reads again: another call may have refreshed, retired or replaced   *)
(* the grant meanwhile.                                                        *)
Take(c) ==
    LET now == Current(c) IN
    /\ call[c].pc = "waiting"
    /\ lock = Nobody
    /\ IF now.status # "active" THEN Goes(c, "over", 0) /\ UNCHANGED lock
       ELSE IF now.grant \notin aged THEN Goes(c, "using", now.grant) /\ UNCHANGED lock
       ELSE IF now.grant \in Bare THEN Goes(c, "over", 0) /\ UNCHANGED lock
       ELSE Goes(c, "asking", now.grant) /\ Held(c)
    /\ UNCHANGED <<stored, back, provider, history, faults>>

(* The provider spends the refresh token for a new grant; the access token of  *)
(* the old one may die with it.                                                *)
Rotated(c) ==
    LET g == call[c].token IN
    /\ call[c].pc = "asking"
    /\ g \notin spent
    /\ issued < MaxGrants
    /\ issued' = issued + 1
    /\ spent' = spent \cup {g}
    /\ dead' \in {dead, dead \cup {g}}
    /\ Goes(c, "granted", issued + 1)
    /\ UNCHANGED <<lock, stored, back, aged, history, faults>>

Rejected(c) ==
    /\ call[c].pc = "asking"
    /\ call[c].token \in spent
    /\ Invalid
    /\ Let(c)
    /\ Goes(c, "over", 0)
    /\ UNCHANGED <<ops, back, provider, history, faults>>

(* It cannot be reached or fails: refresh raises, nothing was learned.         *)
Unanswered(c) ==
    /\ call[c].pc = "asking"
    /\ LetFailed(c)
    /\ Goes(c, "over", 0)
    /\ UNCHANGED <<stored, back, provider, history, faults>>

(* It rotates, and the answer is lost on the way. *)
AnswerLost(c) ==
    /\ call[c].pc = "asking"
    /\ call[c].token \notin spent
    /\ Fault
    /\ spent' = spent \cup {call[c].token}
    /\ excused' = excused \cup {call[c].token}
    /\ LetFailed(c)
    /\ Goes(c, "over", 0)
    /\ UNCHANGED <<stored, back, issued, aged, dead, exchanged, declined>>

Store(c) ==
    /\ call[c].pc = "granted"
    /\ Granted(call[c].token)
    /\ Let(c)
    /\ Goes(c, "using", call[c].token)
    /\ UNCHANGED <<ops, back, provider, history, faults>>

-----------------------------------------------------------------------------
(* McpBearerAuth: the request is sent with the token; a 401 retires it. *)

Send(c) ==
    /\ call[c].pc = "using"
    /\ IF call[c].token \in dead
       THEN Goes(c, "retiring", call[c].token)
       ELSE Goes(c, "over", call[c].token)
    /\ UNCHANGED <<lock, stored, back, provider, history, faults>>

(* Variant: whatever is stored by now. *)
IsStoredStill(g) == row.status = "active"

IsStored(g) == row.status = "active" /\ row.grant = g

(* invalidate *)
Retire(c) ==
    /\ call[c].pc = "retiring"
    /\ lock = Nobody
    /\ IF IsStored(call[c].token) THEN Invalid ELSE UNCHANGED row
    /\ Goes(c, "over", 0)
    /\ UNCHANGED <<lock, ops, back, provider, history, faults>>

-----------------------------------------------------------------------------
(* complete_callback, abandon_callback and complete *)

(* Variant: that the operation was open on arrival is enough. *)
UsableOnce(o) == TRUE

Usable(o) == ops[o] = "open"

(* A browser comes back, and is let wait for the lock while the operation is   *)
(* open; or a device operation is polled for, which looks at it under the lock.*)
Arrive(r, o) ==
    /\ back[r].pc = "idle"
    /\ ops[o] # "none"
    /\ back' = [back EXCEPT ![r] =
                  [pc |-> IF o \in Codes /\ ops[o] # "open" THEN "over" ELSE "waiting",
                   op |-> o, token |-> 0]]
    /\ UNCHANGED <<lock, stored, call, provider, history, faults>>

ArriveDeclined(r, o) ==
    /\ back[r].pc = "idle"
    /\ ops[o] # "none"
    /\ o \in Codes
    /\ back' = [back EXCEPT ![r] =
                  [pc |-> IF ops[o] = "open" THEN "declining" ELSE "over",
                   op |-> o, token |-> 0]]
    /\ UNCHANGED <<lock, stored, call, provider, history, faults>>

(* Variant: only once the exchange went well. *)
ConsumedAfter(o) == UNCHANGED ops

Consumed(o) == ops' = [ops EXCEPT ![o] = "spent"]

(* The operation is consumed and committed before its code is exchanged.       *)
TakeCode(r) ==
    LET o == back[r].op IN
    /\ back[r].pc = "waiting"
    /\ o \in Codes
    /\ lock = Nobody
    /\ IF Usable(o)
       THEN /\ Consumed(o)
            /\ Held(r)
            /\ exchanged' = [exchanged EXCEPT ![o] = @ + 1]
            /\ Comes(r, "exchanging", 0)
       ELSE Comes(r, "over", 0) /\ UNCHANGED <<lock, ops, exchanged>>
    /\ UNCHANGED <<row, call, provider, excused, declined, faults>>

Exchange(r) ==
    /\ back[r].pc = "exchanging"
    /\ issued < MaxGrants
    /\ issued' = issued + 1
    /\ Comes(r, "granted", issued + 1)
    /\ UNCHANGED <<lock, stored, call, aged, dead, spent, history, faults>>

ExchangeFails(r) ==
    /\ back[r].pc = "exchanging"
    /\ LetFailed(r)
    /\ Comes(r, "over", 0)
    /\ UNCHANGED <<stored, call, provider, history, faults>>

Decline(r) ==
    LET o == back[r].op IN
    /\ back[r].pc = "declining"
    /\ lock = Nobody
    /\ IF ops[o] = "open"
       THEN /\ ops' = [ops EXCEPT ![o] = "spent"]
            /\ declined' = declined \cup {o}
       ELSE UNCHANGED <<ops, declined>>
    /\ Comes(r, "over", 0)
    /\ UNCHANGED <<lock, row, call, provider, excused, exchanged, faults>>

(* A device operation that went stale is consumed when it is polled for.       *)
TakePoll(r) ==
    LET o == back[r].op IN
    /\ back[r].pc = "waiting"
    /\ o \in Devices
    /\ lock = Nobody
    /\ IF Usable(o)
       THEN Held(r) /\ Comes(r, "polling", 0) /\ UNCHANGED ops
       ELSE /\ ops' = [ops EXCEPT ![o] = "spent"]
            /\ Comes(r, "over", 0)
            /\ UNCHANGED lock
    /\ UNCHANGED <<row, call, provider, history, faults>>

(* The user has not answered yet, the provider refuses, or cannot be reached.  *)
PollInVain(r) ==
    /\ back[r].pc = "polling"
    /\ LetFailed(r)
    /\ Comes(r, "over", 0)
    /\ UNCHANGED <<stored, call, provider, history, faults>>

(* The user approved: the device code is good for one grant. *)
PollGranted(r) ==
    LET o == back[r].op IN
    /\ back[r].pc = "polling"
    /\ exchanged[o] = 0
    /\ issued < MaxGrants
    /\ exchanged' = [exchanged EXCEPT ![o] = 1]
    /\ issued' = issued + 1
    /\ Comes(r, "granted", issued + 1)
    /\ UNCHANGED <<lock, stored, call, aged, dead, spent, excused, declined, faults>>

(* The grant replaces what is stored; a device operation is consumed with it.  *)
Connect(r) ==
    LET o == back[r].op IN
    /\ back[r].pc = "granted"
    /\ Granted(back[r].token)
    /\ ops' = [ops EXCEPT ![o] = "spent"]
    /\ Let(r)
    /\ Comes(r, "over", 0)
    /\ UNCHANGED <<call, provider, history, faults>>

-----------------------------------------------------------------------------
(* Faults *)

(* Of the calls that are cut off, one may have rotated the stored grant. *)
Excuses(C) == excused' = excused \cup {row.grant : c \in {d \in C : call[d].pc = "granted"}}

CallCut(c) ==
    /\ call[c].pc \notin {"idle", "over"}
    /\ Fault
    /\ Let(c)
    /\ Goes(c, "over", 0)
    /\ Excuses({c})
    /\ UNCHANGED <<stored, back, provider, exchanged, declined>>

ReturnCut(r) ==
    /\ back[r].pc \notin {"idle", "over"}
    /\ Fault
    /\ Let(r)
    /\ Comes(r, "over", 0)
    /\ UNCHANGED <<stored, call, provider, history>>

Crash ==
    /\ Fault
    /\ lock' = Nobody
    /\ call' = [c \in Calls |->
                  IF call[c].pc = "idle" THEN call[c] ELSE [pc |-> "over", token |-> 0]]
    /\ back' = [r \in Returns |->
                  IF back[r].pc = "idle" THEN back[r]
                  ELSE [back[r] EXCEPT !.pc = "over", !.token = 0]]
    /\ Excuses(Calls)
    /\ UNCHANGED <<stored, provider, exchanged, declined>>

-----------------------------------------------------------------------------

CallStep(c) ==
    Take(c) \/ Rotated(c) \/ Rejected(c) \/ Unanswered(c) \/ Store(c) \/ Send(c) \/ Retire(c)

ReturnStep(r) ==
    \/ TakeCode(r) \/ Exchange(r) \/ ExchangeFails(r) \/ Decline(r)
    \/ TakePoll(r) \/ PollInVain(r) \/ PollGranted(r) \/ Connect(r)

Next ==
    \/ \E g \in Grant : Ages(g) \/ Expires(g) \/ Revoked(g)
    \/ \E o \in Ops : GoesStale(o) \/ Start(o)
    \/ Cancel
    \/ \E c \in Calls : Look(c) \/ AnswerLost(c) \/ CallCut(c) \/ CallStep(c)
    \/ \E r \in Returns :
         \/ \E o \in Ops : Arrive(r, o) \/ ArriveDeclined(r, o)
         \/ ReturnCut(r)
         \/ ReturnStep(r)
    \/ Crash

(* A begun request goes on: the lock is served in turn, and the provider       *)
(* answers or the HTTP client's timeout does.                                  *)
Fairness ==
    /\ \A c \in Calls : WF_vars(CallStep(c))
    /\ \A r \in Returns : WF_vars(ReturnStep(r))

Spec == Init /\ [][Next]_vars /\ Fairness

-----------------------------------------------------------------------------

(* However many calls find the same grant running out, a refresh token that    *)
(* was spent is not presented again: the call that lost the race finds the     *)
(* winner's grant. Excused are grants the user revoked, and those a refresh    *)
(* rotated without anyone left to store the new one. (refresh's docstring: "a  *)
(* rotating refresh token is spendable exactly once".)                         *)
PresentedOnce ==
    \A c \in Calls :
       call[c].pc = "asking" /\ call[c].token \in spent => call[c].token \in excused

(* A connection called invalid has lost its grant: the provider refuses its    *)
(* access token, or it ran out and cannot be refreshed. A late 401 for the     *)
(* token before does not retire the one that replaced it (invalidate's         *)
(* expected_token).                                                            *)
RetiredIsDead ==
    row.status = "invalid" =>
       row.grant \in dead \cup (aged \cap (spent \cup Bare))

(* An authorization code is exchanged at most once, whether the browser comes  *)
(* back twice, the exchange fails, or the process dies during it               *)
(* (complete_callback: "Consume before contacting the provider").              *)
ExchangedOnce == \A o \in Codes : exchanged[o] <= 1

(* What the user turned down, in the browser or by cancelling, is not granted: *)
(* no callback or poll that waited for the lock meanwhile goes on with it.     *)
DeclinedStays ==
    \A r \in Returns :
       back[r].pc \in {"exchanging", "polling", "granted"} => back[r].op \notin declined

(* A slow refresh or exchange never stores its grant over a newer one.         *)
NewestStands == [][row'.grant >= row.grant]_row

(* A request, a callback and a poll come to an end, whoever else is cancelled, *)
(* refused or unanswered under the lock.                                       *)
AllEnd ==
    /\ \A c \in Calls : call[c].pc # "idle" ~> call[c].pc = "over"
    /\ \A r \in Returns : back[r].pc # "idle" ~> back[r].pc = "over"

=============================================================================
