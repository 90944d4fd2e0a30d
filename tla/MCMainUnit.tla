---------------------------- MODULE MCMainUnit ------------------------------
(***************************************************************************)
(* Instances of MainUnit for TLC: one unit with a path of its own and a    *)
(* path outside its scope; two units of one plan; two plans of one unit.   *)
(***************************************************************************)
EXTENDS MainUnit, TLC

CONSTANTS planA, planB, unit1, unit2, path1, path2, msg1

InPlanA == [u \in Units |-> planA]
InOwnPlan == [u \in Units |-> IF u = unit1 THEN planA ELSE planB]
OwnPath == [u \in Units |-> IF u = unit1 THEN {path1} ELSE {path2}]

\* The allowed paths of unit2 include those of unit1.
Overlapping == [u \in Units |-> IF u = unit1 THEN {path1} ELSE {path1, path2}]

\* msg1, with and without blank lines around it.
StripBlanks == [m \in Messages \cup {""} |-> IF m = "" THEN m ELSE msg1]

ProcSymmetry == Permutations(Procs)

\* Two processes on one unit, which ask for one message or another; or one
\* process on two units.
Busy == {p \in Procs : ~At(p, "idle")}
Taken == {proc[p].unit : p \in Busy} \cup {u \in Units : \E a \in Attempts : ledger[u][a].rev > 0}
Asked == {ledger[u][a].message : u \in Units, a \in Attempts} \cup {proc[p].seen.message : p \in Procs}
Pair ==
    \/ Taken \subseteq {unit1} /\ Len(commits) <= 2
    \/ Cardinality(Busy) <= 1 /\ Asked \subseteq {"", msg1}
=============================================================================
