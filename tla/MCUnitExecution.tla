------------------------- MODULE MCUnitExecution ----------------------------
(***************************************************************************)
(* Instances of UnitExecution for TLC: a plan of one unit or of two that   *)
(* may change the same path, and a path outside the scope of the first.    *)
(***************************************************************************)
EXTENDS UnitExecution, TLC

CONSTANTS plan, unit1, unit2, path1, path2, msg1, c1, c2

OnePlan == [u \in Units |-> plan]
OneUnit == <<unit1>>
TwoUnits == <<unit1, unit2>>
FirstPath == [u \in Units |-> {path1}]
\* The second unit may also change the path of the first.
PathThenBoth == [u \in Units |-> IF u = unit1 THEN {path2} ELSE {path1, path2}]
BothPaths == [u \in Units |-> {path1, path2}]
ByName == [x \in Paths |-> IF x = path1 THEN 1 ELSE 2]

\* msg1, with and without a blank at its end.
StripBlanks == [m \in Messages \cup {""} |-> IF m = "" THEN m ELSE msg1]

\* Neither the processes nor what an edit writes are told apart.
RaceSymmetry == Permutations(Procs) \cup Permutations({c1, c2})

Busy == {p \in Procs : ~At(p, "idle")}

\* One process on a unit with a review of its own, with edits and a crash: at
\* most two of these when the path out of scope is edited.  Or two processes
\* on a unit without such a review: they edit the one allowed path and race for
\* the first attempt.
RunOrRace ==
    IF queue[unit1].review = "per_unit"
    THEN Cardinality(Busy) <= 1 /\ (edits + crashes <= 2 \/ work[path2] = Original)
    ELSE /\ crashes = 0 /\ work[path2] = Original
         /\ \A p \in Procs : proc[p].attempt = 0 /\ proc[p].changed \subseteq {path1}
         /\ \A p \in Procs : At(p, "repair") => RecordOf(p).rev < 1

\* What a child does: it writes while it runs, and the path outside the scope
\* may be dirty from before.  Nobody else commits.
ChildEdits ==
    edits' # edits =>
        /\ commits' = commits
        /\ edits = 0 \/ \E p \in Procs : At(p, "implement")
=============================================================================
