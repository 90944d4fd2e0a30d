-------------------------- MODULE ExecutionPolicy ---------------------------
(***************************************************************************)
(* How a commit unit is executed and when a failed one may be retried      *)
(* (codex_flow/execution_policy.py), as operators.                         *)
(*                                                                         *)
(* A unit is the facts the classification looks at: the profile its        *)
(* persisted policy declares and the one it was given before, the adapter  *)
(* and review policy asked for, and what its paths and text show.          *)
(***************************************************************************)
EXTENDS Integers

Profiles == {"docs_only", "contract", "high_risk"}
Missing == "missing"    \* the field is not there
Unknown == "unknown"    \* the field holds no profile

\* _PROFILE_ORDER.
Rank == [docs_only |-> 0, contract |-> 1, high_risk |-> 2]
Highest(S) == CHOOSE p \in S : \A q \in S : Rank[q] <= Rank[p]

\* _PROFILE_RUNTIME.
RuntimeMode(profile) == IF profile = "high_risk" THEN "isolated_child" ELSE "parent_direct"
UnitGate == [docs_only |-> "smoke", contract |-> "contract", high_risk |-> "full"]

\* What is_documentation_path, is_test_scope_path and the risk patterns say of
\* a unit: all its paths are documentation, all are tests, or something in its
\* title, content or paths is a risk signal.  A unit without allowed paths is
\* neither documentation nor tests.
Evidence == {e \in [docs : BOOLEAN, tests : BOOLEAN, risk : BOOLEAN] : ~(e.docs /\ e.tests)}

\* infer_profile_lower_bound: the path oracles come before the risk scan.
LowerBound(e) ==
    IF e.docs THEN "docs_only"
    ELSE IF e.tests \/ ~e.risk THEN "contract" ELSE "high_risk"

\* The persisted policy of a unit, as queue.json keeps it.
Policies == [declared : Profiles \cup {Missing, Unknown},
             effective : Profiles \cup {Missing, Unknown},
             adapter : {"main", "isolated-child", Missing},
             review : {"final_only", "per_unit", Missing}]
NoPolicy == [declared |-> Missing, effective |-> Missing, adapter |-> Missing, review |-> Missing]

Declared(policy) == IF policy.declared \in Profiles THEN policy.declared ELSE "contract"

\* Mutant: the profile a unit was given before is no floor.
FloorForgotten(policy) == "docs_only"

\* The persisted effective profile is a floor; one that cannot be read counts
\* as contract.
Floor(policy) ==
    IF policy.effective = Missing THEN "docs_only"
    ELSE IF policy.effective = Unknown THEN "contract" ELSE policy.effective

Effective(policy, e) == Highest({Declared(policy), LowerBound(e), Floor(policy)})

\* An isolated-child adapter, asked for or persisted, is kept.
Mode(policy, profile) ==
    IF policy.adapter = "isolated-child" THEN "isolated_child" ELSE RuntimeMode(profile)

ReviewPolicy(policy) == IF policy.review = "per_unit" THEN "per_unit" ELSE "final_only"

\* classify_execution_policy and to_dict: what the queue persists.
Classify(policy, e) ==
    LET profile == Effective(policy, e)
    IN  [declared |-> IF policy.declared \in Profiles THEN policy.declared ELSE Missing,
         effective |-> profile,
         adapter |-> IF Mode(policy, profile) = "isolated_child" THEN "isolated-child" ELSE "main",
         review |-> ReviewPolicy(policy)]

-----------------------------------------------------------------------------
(* Recovery                                                                 *)

FailureKinds == {"protocol", "auth_config", "scope_mismatch", "head_drift", "test_finding",
                 "review_finding", "transient", "process_failure", "unknown"}

\* recovery_class_for.
RecoveryClass(kind) ==
    CASE kind \in {"test_finding", "review_finding"} -> "repairable_in_scope"
      [] kind = "scope_mismatch" -> "repairable_new_scope"
      [] kind \in {"transient", "process_failure"} -> "environment"
      [] kind = "auth_config" -> "operator"
      [] OTHER -> "protocol"

\* FailureRecord.create.
Retryable(kind, fixable) == fixable /\ RecoveryClass(kind) = "repairable_in_scope"

\* retry_eligible: the recovery owner approved it, the repair paths are named
\* and allowed, the failure is a new one and nothing was retried yet.
RetryEligible(approved, retryable, repairPaths, allowed, seenBefore, retriesUsed) ==
    /\ approved /\ retryable
    /\ repairPaths # {} /\ repairPaths \subseteq allowed
    /\ ~seenBefore
    /\ retriesUsed < 1
=============================================================================
