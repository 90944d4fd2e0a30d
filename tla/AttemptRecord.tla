---------------------------- MODULE AttemptRecord ---------------------------
(***************************************************************************)
(* What an attempt ledger promises its callers: a record with a revision,  *)
(* to which every write adds its own part and takes nothing away, one      *)
(* write after the other.  What has been confirmed survives a power loss;  *)
(* the write in flight may be lost.                                        *)
(***************************************************************************)
EXTENDS Naturals

CONSTANT Writes     \* the writes that may be made

VARIABLES
    current,    \* the snapshot a reader gets: its revision and its writes
    durable     \* the snapshot that survives a power loss

Init ==
    /\ current = [rev |-> 0, writes |-> {}]
    /\ durable = current

Write(w) ==
    /\ w \notin current.writes
    /\ current' = [rev |-> current.rev + 1, writes |-> current.writes \cup {w}]
    /\ UNCHANGED durable

Persist ==
    /\ durable' = current
    /\ UNCHANGED current

Lose ==
    /\ current' = durable
    /\ UNCHANGED durable

Next == Persist \/ Lose \/ \E w \in Writes : Write(w)

Spec == Init /\ [][Next]_<<current, durable>>
=============================================================================
