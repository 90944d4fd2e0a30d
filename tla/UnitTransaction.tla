--------------------------- MODULE UnitTransaction --------------------------
(***************************************************************************)
(* What a main-unit transaction promises, without processes, files or      *)
(* crashes.  A commit unit is attempted any number of times, one attempt   *)
(* after the other.  An attempt seals one candidate, and the unit          *)
(* completes only with a commit that carries exactly that candidate on     *)
(* the parent it was sealed against.  Completion is final.                 *)
(***************************************************************************)
EXTENDS Naturals, Sequences

CONSTANTS
    Units,
    Candidates, \* records with a parent, a patch and a message
    NoCandidate

VARIABLES
    stage,      \* where the newest attempt of a unit stands
    attempt,    \* how many attempts were opened
    sealed,     \* the candidate the newest attempt is bound to
    landed,     \* the commit the unit completed with
    history     \* every commit made by anybody

Stages == {"absent", "open", "committing", "completed", "held"}

Init ==
    /\ stage = [u \in Units |-> "absent"]
    /\ attempt = [u \in Units |-> 0]
    /\ sealed = [u \in Units |-> NoCandidate]
    /\ landed = [u \in Units |-> 0]
    /\ history = << >>

Open(u) ==
    /\ stage[u] \in {"absent", "held"}
    /\ stage' = [stage EXCEPT ![u] = "open"]
    /\ attempt' = [attempt EXCEPT ![u] = @ + 1]
    /\ UNCHANGED <<sealed, landed, history>>

Seal(u) ==
    /\ stage[u] = "open"
    /\ stage' = [stage EXCEPT ![u] = "committing"]
    /\ sealed'[u] \in Candidates
    /\ sealed' = [sealed EXCEPT ![u] = sealed'[u]]
    /\ UNCHANGED <<attempt, landed, history>>

\* The commit c carries the candidate, on the parent it was sealed against.
Carries(c, candidate) ==
    /\ history[c].parent = candidate.parent
    /\ history[c].patch = candidate.patch
    /\ history[c].message = candidate.message

Land(u) ==
    /\ stage[u] = "committing"
    /\ \E c \in DOMAIN history :
          /\ Carries(c, sealed[u])
          /\ landed' = [landed EXCEPT ![u] = c]
    /\ stage' = [stage EXCEPT ![u] = "completed"]
    /\ UNCHANGED <<attempt, sealed, history>>

\* The candidate is given up as far as the transaction is concerned.
Hold(u) ==
    /\ stage[u] \in {"open", "committing"}
    /\ stage' = [stage EXCEPT ![u] = "held"]
    /\ sealed' = [sealed EXCEPT ![u] = NoCandidate]
    /\ UNCHANGED <<attempt, landed, history>>

\* A commit appears; commits are never taken back.
Grow ==
    /\ Len(history') = Len(history) + 1
    /\ SubSeq(history', 1, Len(history)) = history
    /\ UNCHANGED <<stage, attempt, sealed, landed>>

Next == Grow \/ \E u \in Units : Open(u) \/ Seal(u) \/ Land(u) \/ Hold(u)

Spec == Init /\ [][Next]_<<stage, attempt, sealed, landed, history>>
=============================================================================
