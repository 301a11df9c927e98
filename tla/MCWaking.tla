------------------------------ MODULE MCWaking ------------------------------
(* Waking on a small instance: kicks asked on one thread that move to another. *)
EXTENDS Waking

CONSTANTS here, there

MCChannelOf == [t \in Threads |-> "chat"]
MCAsked == [p \in Publishers |-> here]
MCBacklog == [s \in Readers |-> 2]
MCEvents == {"awake", "word", "asleep"}
=============================================================================
