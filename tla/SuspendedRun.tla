---------------------------- MODULE SuspendedRun ----------------------------
(***************************************************************************)
(* What Octomate promises of a run that suspended on a batch: it is asked  *)
(* once, answered as a whole, claimed by one resumption, handed the        *)
(* answers by one run, and completed.  It never goes back and skips        *)
(* nothing; it may stay where it is, since a human may never answer.       *)
(***************************************************************************)
CONSTANT Batches

VARIABLE life

Lives == {"absent", "pending", "resolved", "claimed", "resumed", "completed"}

Init == life = [b \in Batches |-> "absent"]

Step(b, from, to) == life[b] = from /\ life' = [life EXCEPT ![b] = to]

Suspend(b)  == Step(b, "absent", "pending")
Settle(b)   == Step(b, "pending", "resolved")
Claim(b)    == Step(b, "resolved", "claimed")
Resume(b)   == Step(b, "claimed", "resumed")
Complete(b) == Step(b, "resumed", "completed")

Next == \E b \in Batches :
          Suspend(b) \/ Settle(b) \/ Claim(b) \/ Resume(b) \/ Complete(b)

Spec == Init /\ [][Next]_life
=============================================================================
