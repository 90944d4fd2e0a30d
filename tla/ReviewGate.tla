----------------------------- MODULE ReviewGate -----------------------------
(***************************************************************************)
(* The read-only review of one candidate (codex_flow/reviewer_agent.py):   *)
(* the repository is compared before and after the reviewer's run, and its *)
(* last message decides between ready, a finding that may be repaired and  *)
(* a protocol failure.                                                     *)
(*                                                                         *)
(* A message is the lines the parsers look at: INTERNAL_REVIEW_GATE lines, *)
(* COMMIT_UNIT_ lines in their order, and whether a line of it is blank.   *)
(***************************************************************************)
EXTENDS Integers, Sequences, SequencesExt

CONSTANTS
    MaxGates,       \* bound: gate lines of a message
    MaxTerminals,   \* bound: COMMIT_UNIT_ lines of a message
    MaxChanges      \* bound: changes of the repository during a review

\* A count is "0", a positive number, or nothing that reads as a number: the
\* field is missing or says something else.  "rest" tells whether the other two
\* fields are there: minor with a number, reason with a text.
Counts == {"zero", "some", "bad"}
GateLines == [status : {"pass", "needs_work", "bad"}, blockers : Counts, important : Counts,
              rest : BOOLEAN]
Terminals == {"READY", "NEEDS_WORK", "NEEDS_WORK without a reason", "other"}

VARIABLES
    repo,       \* HEAD and the candidate, as a number that grows with every change
    expected,   \* what the review was asked for
    session,    \* the session id the reviewer reported, against the implementer's
    gates, terminals, blank,    \* its last message
    outcome     \* how the review ended

vars == <<repo, expected, session, gates, terminals, blank, outcome>>

Outcomes == {"asked", "reviewing", "ready", "finding", "protocol", "process", "raised"}

TypeOK ==
    /\ repo \in 0..MaxChanges /\ expected \in 0..MaxChanges
    /\ session \in {"none", "reused", "fresh"}
    /\ Len(gates) <= MaxGates /\ Range(gates) \subseteq GateLines
    /\ Len(terminals) <= MaxTerminals /\ Range(terminals) \subseteq Terminals
    /\ blank \in BOOLEAN
    /\ outcome \in Outcomes

Init ==
    /\ repo = 0 /\ expected = 0
    /\ session = "none" /\ gates = << >> /\ terminals = << >> /\ blank = FALSE
    /\ outcome = "asked"

-----------------------------------------------------------------------------
(* Parsing                                                                  *)

\* Mutant: important findings do not fail the gate.
PassedWithoutImportant(gate) == gate.status = "pass" /\ gate.blockers # "some"

\* parse_review_gate and ReviewGate.passed: a status that is not known is
\* needs_work, a count that is no number is 0.
Passed(gate) == gate.status = "pass" /\ gate.blockers # "some" /\ gate.important # "some"

\* parse_commit_unit_review: the last gate line overrules the terminal line.
Decision ==
    IF Len(terminals) # 1 \/ terminals = <<"NEEDS_WORK without a reason">> THEN "protocol"
    ELSE IF gates # << >> /\ ~Passed(Last(gates)) THEN "finding"
    ELSE CASE terminals[1] = "READY" -> "ready"
           [] terminals[1] = "NEEDS_WORK" -> "finding"
           [] OTHER -> "protocol"

\* require_internal_review: exactly one gate line, and it is complete.
Evidence ==
    /\ Len(gates) = 1
    /\ LET gate == gates[1]
       IN  gate.status # "bad" /\ "bad" \notin {gate.blockers, gate.important} /\ gate.rest

\* internal_gate_lines takes the first word of every line, and a blank line
\* has none: the parser raises IndexError.
Review == IF blank THEN "raised" ELSE IF Evidence THEN Decision ELSE "protocol"

-----------------------------------------------------------------------------
(* CodexReadOnlyReviewer.review                                             *)

\* The comparison before the run.
Ask ==
    /\ outcome = "asked"
    /\ outcome' = IF repo = expected THEN "reviewing" ELSE "protocol"
    /\ UNCHANGED <<repo, expected, session, gates, terminals, blank>>

\* The reviewer's process fails or is stopped.
Fail ==
    /\ outcome = "reviewing"
    /\ outcome' = "process"
    /\ UNCHANGED <<repo, expected, session, gates, terminals, blank>>

\* The reviewer writes its last message, line after line.
Write ==
    /\ outcome = "reviewing"
    /\ \/ \E gate \in GateLines :
             Len(gates) < MaxGates /\ gates' = Append(gates, gate) /\ UNCHANGED <<terminals, blank>>
       \/ \E line \in Terminals :
             /\ Len(terminals) < MaxTerminals
             /\ terminals' = Append(terminals, line)
             /\ UNCHANGED <<gates, blank>>
       \/ ~blank /\ blank' = TRUE /\ UNCHANGED <<gates, terminals>>
    /\ UNCHANGED <<repo, expected, session, outcome>>

\* The comparison after the run and the session id come before the message.
Judge(reported) == IF repo # expected \/ reported # "fresh" THEN "protocol" ELSE Review

Finish ==
    /\ outcome = "reviewing"
    /\ \E reported \in {"none", "reused", "fresh"} :
          session' = reported /\ outcome' = Judge(reported)
    /\ UNCHANGED <<repo, expected, gates, terminals, blank>>

\* HEAD or the candidate is changed: by the reviewer, the user, an editor.
Change ==
    /\ outcome \in {"asked", "reviewing"}
    /\ repo < MaxChanges
    /\ repo' = repo + 1
    /\ UNCHANGED <<expected, session, gates, terminals, blank, outcome>>

Next == Ask \/ Fail \/ Write \/ Finish \/ Change
Spec == Init /\ [][Next]_vars

-----------------------------------------------------------------------------
(* Properties                                                               *)

\* A candidate is ready exactly when a fresh session, over an unchanged
\* repository, wrote one complete gate line that passes without blockers and
\* important findings, and one READY line: no other combination of lines
\* passes, and none of these is turned down.
Clean == [status |-> "pass", blockers |-> "zero", important |-> "zero",
          rest |-> TRUE]
ReadyWhenEarned ==
    LET earned == /\ repo = expected /\ session = "fresh" /\ ~blank
                  /\ gates = <<Clean>> /\ terminals = <<"READY">>
    IN  outcome \in {"ready", "finding", "protocol", "raised"} => (outcome = "ready" <=> earned)

\* Only a well-formed answer of the review counts as a finding, which the
\* runner may repair: lines that contradict the format, a drift of the
\* repository and a session that was used before are protocol failures.
FindingIsWellFormed ==
    outcome = "finding" =>
        /\ repo = expected /\ session = "fresh"
        /\ Len(gates) = 1 /\ gates[1].status # "bad" /\ gates[1].rest
        /\ "bad" \notin {gates[1].blockers, gates[1].important}
        /\ terminals \in {<<t>> : t \in Terminals \ {"NEEDS_WORK without a reason"}}
        /\ ~(gates[1] = Clean /\ terminals = <<"READY">>)
=============================================================================
