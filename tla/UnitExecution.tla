--------------------------- MODULE UnitExecution ----------------------------
(***************************************************************************)
(* run-next --execute for a unit that an isolated child implements         *)
(* (codex_flow/runner.py): select the unit, recover a release that was     *)
(* interrupted, attest the child, implement and review, then release the   *)
(* candidate: prepare it in the attempt ledger, commit it, prove the       *)
(* commit, and record the unit as done in queue.json and log.md.           *)
(*                                                                         *)
(* A process takes one step per file or repository state it writes, and    *)
(* may die before any step.  Nothing locks a plan: two processes may run   *)
(* the same unit.  The child, the user and editors change the checkout at  *)
(* any time (Edit, OutsideCommit).  The plan executes on one branch.       *)
(*                                                                         *)
(* Left out: prompts, diagnostics, and the review, handoff and event files *)
(* that no later step decides on; the early returns of run_next that write *)
(* nothing (source drift, human_gate).                                     *)
(***************************************************************************)
EXTENDS Worktree, PlanRecords, ExecutionPolicy

CONSTANTS
    Procs,          \* processes that run run-next or run-all
    Order,          \* the units in the order of plan.md
    Allowed,        \* the allowed paths of every unit
    NameOrder,      \* the order of the paths by name
    PerUnit,        \* the sets of units a plan may give a review of their own
    InPlace,        \* the plan executes in the source checkout, not in a worktree
    AllowDirty,     \* --allow-dirty
    AutoResolve,    \* --auto-resolve
    CommitFlags,    \* what a run may be asked: commit (TRUE) or --no-commit
    RepairBudget,   \* --repair-attempts
    MaxAttempts,    \* bound: the highest repair attempt of a unit
    MaxRevision,    \* bound: the ledger revision below which a run begins an attempt
    MaxCrashes      \* bound: processes that die in the middle of a run

ASSUME OrderAssumption ==
    /\ Order \in Seq(Units) \ {<< >>} /\ IsInjective(Order)
    /\ Units = {Order[i] : i \in DOMAIN Order}
    /\ \A u, v \in Units : PlanOf[u] = PlanOf[v]
ASSUME ScopeAssumption == Allowed \in [Units -> SUBSET Paths] /\ PerUnit \subseteq SUBSET Units
ASSUME NameOrderAssumption == NameOrder \in [Paths -> Nat] /\ IsInjective(NameOrder)
ASSUME FlagsAssumption ==
    /\ {InPlace, AllowDirty, AutoResolve} \subseteq BOOLEAN
    /\ CommitFlags \in (SUBSET BOOLEAN) \ {{}}
ASSUME ExecutionBoundsAssumption ==
    {RepairBudget, MaxAttempts, MaxRevision, MaxCrashes} \subseteq Nat

VARIABLES
    ledger,     \* attempts/<unit>/attempt-<n>/attempt-ledger.json
    shelf,      \* the diffs put on the Git stash
    proc,       \* what every process is running, and its locals
    crashes     \* processes that have died so far

vars == <<work, branch, tips, commits, edits, queue, log, ledger, shelf, proc, crashes>>

Attempts == 0..MaxAttempts
MainPlan == PlanOf[Order[1]]

\* How the repository was when a unit failed, and why it did.
NoFailure == [head |-> NoTip, diff |-> NoDiff, reason |-> "none"]

\* A unit in queue.json: status, review policy, repair_attempts,
\* attempt_ledger_revision, changed_paths, last_needs_work_reason,
\* last_failure_state_digest.
FreshUnit == [status |-> "ready", review |-> "final_only", attempt |-> 0, rev |-> 0, changed |-> {},
              reason |-> "none", failed |-> NoFailure]

NoRecord == [rev |-> 0, status |-> "absent", head |-> 0, startDiff |-> NoDiff,
             startOutside |-> NoDiff, closed |-> FALSE,
             state |-> "none", kind |-> "none", parent |-> 0, paths |-> {},
             listed |-> "none", candidate |-> NoDiff, outside |-> NoDiff, message |-> "", commit |-> 0]

\* A process that runs nothing.  The locals: the unit, the copy of the queue
\* and of the log, the attempt and the last one the budget allows, HEAD and
\* the status before the attempt, the earlier changes it preserves with the
\* status they had, what the reviewer was given, how the attempt ended, the
\* ledger snapshot, the changed paths and how they are listed, and whether the
\* hold's log line is a needs_work line.
Idle == [pc |-> "idle", unit |-> Order[1], view |-> [u \in Units |-> FreshUnit],
         lines |-> {}, attempt |-> 0, limit |-> 0, head |-> 0, before |-> << >>,
         kept |-> << >>, reviewing |-> NoFailure, verdict |-> "none", seen |-> NoRecord,
         changed |-> {}, listed |-> "none", held |-> {}]

Init ==
    /\ WorktreeInit
    /\ \E S \in PerUnit :
          queue = [u \in Units |->
              [FreshUnit EXCEPT !.review = IF u \in S THEN "per_unit" ELSE "final_only"]]
    /\ log = [pl \in Plans |-> {}]
    /\ ledger = [u \in Units |-> [a \in Attempts |-> NoRecord]]
    /\ shelf = {}
    /\ proc = [p \in Procs |-> Idle]
    /\ crashes = 0

-----------------------------------------------------------------------------
(* A run and its locals *)

At(p, step) == proc[p].pc = step
UnitOf(p) == proc[p].unit
EntryOf(p) == proc[p].view[UnitOf(p)]
RecordOf(p) == ledger[UnitOf(p)][proc[p].attempt]
Outside(u) == Paths \ Allowed[u]

Become(p, local) == proc' = [proc EXCEPT ![p] = local]
Goto(p, step) == Become(p, [proc[p] EXCEPT !.pc = step])
WithEntry(local, entry) == [local EXCEPT !.view[local.unit] = entry]

\* The run returns or raises; what it has written stays.
Return(p) == Become(p, Idle)

repoVars == <<worktreeVars, shelf>>

\* git status, as changed_paths_since compares it: a code for every dirty path.
StatusCode(x) == IF Tree(HeadCommit)[x] = Original THEN "untracked"
                 ELSE IF work[x] = Original THEN "deleted" ELSE "modified"
Status == [x \in Dirty(Paths) |-> StatusCode(x)]

\* Mutant: the lines of git status are kept as they are, with their codes.
ChangedLines(kept, before) == {<<StatusCode(x), x>> : x \in Dirty(Paths)}

\* repair_changed_paths: preserved paths that are still dirty, and those whose
\* status differs from what it was before the attempt.
ChangedPaths(kept, before) ==
    {x \in Dirty(Paths) : \/ x \in DOMAIN kept \/ x \notin DOMAIN before
                          \/ before[x] # StatusCode(x)}

\* git status lists the tracked paths by name, then the untracked ones by name.
ListedBefore(status, x, y) ==
    IF (status[x] = "untracked") = (status[y] = "untracked") THEN NameOrder[x] < NameOrder[y]
    ELSE status[y] = "untracked"

\* merge_changed_paths: preserved paths come first, in the order they were listed
\* in before the attempt, then the others in the order of now.
ChangedBefore(kept, x, y) ==
    CASE {x, y} \subseteq DOMAIN kept -> ListedBefore(kept, x, y)
      [] {x, y} \cap DOMAIN kept = {} -> ListedBefore(Status, x, y)
      [] OTHER -> x \in DOMAIN kept

\* The list of the changed paths, as far as it is told apart: in the order of
\* the names or not.
Listing(kept, changed) ==
    IF \A x, y \in changed : ChangedBefore(kept, x, y) => NameOrder[x] <= NameOrder[y]
    THEN "by-name" ELSE "otherwise"

\* AttemptLedger.compare_and_set.
CompareAndSet(u, a, rev, record) ==
    /\ ledger[u][a].rev = rev
    /\ ledger' = [ledger EXCEPT ![u][a] = [record EXCEPT !.rev = rev + 1]]

\* The state a failure is remembered by, and compared with before a retry.
FailureState(head, reason) == [head |-> head, diff |-> Diff(Paths), reason |-> reason]

-----------------------------------------------------------------------------
(* Selecting the unit                                                       *)

\* check_plan_ready: the first unit of the plan without a completion line.
Incomplete(lines) == {i \in DOMAIN Order : <<Order[i], "Completed">> \notin lines}
First(S) == CHOOSE i \in S : \A j \in S : i <= j

\* next_actionable_unit: the statuses a run may take up.
Actionable == {i \in DOMAIN Order : queue[Order[i]].status \in {"ready", "needs_work"}}

\* Mutant: the queue alone decides.
SelectedByQueue(u) == Actionable # {} /\ u = Order[First(Actionable)]

\* The unit after the log, or the next actionable one when the queue already
\* shows that unit as done.
SelectedUnit(u) ==
    LET open == Incomplete(log[MainPlan])
    IN  /\ open # {}
        /\ IF queue[Order[First(open)]].status = "done"
           THEN Actionable # {} /\ u = Order[First(Actionable)]
           ELSE u = Order[First(open)]

\* load_queue_read_only and check_plan_ready: nothing is written.
Select(p, u) ==
    /\ At(p, "idle")
    /\ SelectedUnit(u)
    /\ Become(p, [Idle EXCEPT !.pc = "recover", !.unit = u, !.view = queue])
    /\ UNCHANGED <<repoVars, recordVars, ledger, crashes>>

-----------------------------------------------------------------------------
(* Recovery of an interrupted release                                       *)

\* _isolated_release_ledger_path: the attempt the queue names, else the newest.
ReleaseAttempt(u, entry) ==
    LET written == {a \in Attempts : ledger[u][a].rev > 0}
    IN  IF written = {} \/ entry.attempt \in written THEN entry.attempt
        ELSE CHOOSE a \in written : \A b \in written : b <= a

\* Mutant: a release that was prepared is not taken up again.
RecoverableCompletedOnly(record) == record.status = "finalized" /\ record.state = "completed"

\* What recover_isolated_release takes up: a finalized attempt whose release
\* was prepared.
Recoverable(record) ==
    record.status = "finalized" /\ record.state \in {"committing", "completed"}

\* Mutant: a release that was prepared is taken for one that was proved.
RecoverUnproved(p) ==
    LET a == ReleaseAttempt(UnitOf(p), EntryOf(p))
        record == ledger[UnitOf(p)][a]
    IN  /\ At(p, "recover")
        /\ IF Recoverable(record)
           THEN Become(p, [proc[p] EXCEPT !.attempt = a, !.seen = record, !.pc = "revalidate"])
           ELSE Goto(p, "reload")
        /\ UNCHANGED <<repoVars, recordVars, ledger, crashes>>

\* recover_isolated_release: a prepared release goes on where it stopped, a
\* proved one is compared once more, anything else is a new attempt.
Recover(p) ==
    LET a == ReleaseAttempt(UnitOf(p), EntryOf(p))
        record == ledger[UnitOf(p)][a]
    IN  /\ At(p, "recover")
        /\ IF Recoverable(record)
           THEN Become(p, [proc[p] EXCEPT !.attempt = a, !.seen = record,
                             !.pc = IF record.state = "committing" THEN "check" ELSE "revalidate"])
           ELSE Goto(p, "reload")
        /\ UNCHANGED <<repoVars, recordVars, ledger, crashes>>

\* load_queue: the cache is synchronised with the log and written.
Reload(p) ==
    LET synced == Synced(MainPlan, queue, log[MainPlan])
    IN  /\ At(p, "reload")
        /\ SaveQueue(MainPlan, synced)
        /\ Become(p, [proc[p] EXCEPT !.pc = "attest", !.view = synced])
        /\ UNCHANGED <<repoVars, log, ledger, crashes>>

-----------------------------------------------------------------------------
(* Holding the unit                                                         *)

\* A hold rewrites the unit's entry, saves the queue and appends to the log.
\* "line" tells whether that log line reads as needs_work.
Holding(local, entry, line) ==
    [WithEntry(local, [entry EXCEPT !.status = "needs_work"]) EXCEPT
        !.pc = "hold_save", !.held = IF line THEN {<<local.unit, "needs_work">>} ELSE {}]

HoldSave(p) ==
    /\ At(p, "hold_save")
    /\ SaveQueue(MainPlan, proc[p].view)
    /\ Goto(p, "hold_log_read")
    /\ UNCHANGED <<repoVars, log, ledger, crashes>>

\* append_log, in its two halves: read the file, write it with one more line.
ReadLog(p, step, next) ==
    /\ At(p, step)
    /\ Become(p, [proc[p] EXCEPT !.pc = next, !.lines = log[MainPlan]])
    /\ UNCHANGED <<repoVars, recordVars, ledger, crashes>>

HoldLogRead(p) == ReadLog(p, "hold_log_read", "hold_log_write")
HoldLogWrite(p) ==
    /\ At(p, "hold_log_write")
    /\ WriteLog(MainPlan, proc[p].lines \cup proc[p].held)
    /\ Return(p)
    /\ UNCHANGED <<repoVars, queue, ledger, crashes>>

-----------------------------------------------------------------------------
(* Starting an attempt                                                      *)

\* The child runtime and the attestation: granted, or denied before any edit.
Attest(p) ==
    /\ At(p, "attest")
    /\ \/ Goto(p, "start")
       \/ Become(p, Holding(proc[p],
              [EntryOf(p) EXCEPT !.changed = {}, !.reason = "attestation"], TRUE))
    /\ UNCHANGED <<repoVars, recordVars, ledger, crashes>>

Resuming(p) == EntryOf(p).status = "needs_work"
ResumePaths(p) == IF Resuming(p) THEN EntryOf(p).changed ELSE {}

\* Dirty paths that are not the remains of the unit's own last attempt.
Unexpected(p) == Dirty(Paths) \ ResumePaths(p)

Shelve(S) ==
    /\ shelf' = shelf \cup {Restrict(work, S)}
    /\ work' = [x \in Paths |-> IF x \in S THEN Tree(HeadCommit)[x] ELSE work[x]]
    /\ UNCHANGED <<branch, tips, commits, edits>>

\* The dirty checkout: accepted, preserved, stashed, or a reason to stop.
Start(p) ==
    LET clean == Dirty(Paths) = {} \/ AllowDirty
        accepted == IF InPlace THEN Resuming(p) /\ Unexpected(p) = {} ELSE AutoResolve
        kept == IF clean THEN << >> ELSE Restrict(Status, Dirty(Paths) \cap ResumePaths(p))
    IN  /\ At(p, "start")
        /\ IF clean \/ accepted
           THEN /\ IF clean \/ Unexpected(p) = {} THEN UNCHANGED repoVars
                   ELSE Shelve(Unexpected(p))
                /\ Become(p, [proc[p] EXCEPT !.pc = "begin", !.kept = kept])
           ELSE Return(p) /\ UNCHANGED repoVars
        /\ UNCHANGED <<recordVars, ledger, crashes>>

\* execution_attempts: the first attempt of this run and the last.
FirstAttempt(p) == IF Resuming(p) THEN EntryOf(p).attempt + 1 ELSE 0
LastAttempt(p) == IF ~Resuming(p) THEN RepairBudget
                  ELSE EntryOf(p).attempt + (IF RepairBudget > 1 THEN RepairBudget ELSE 1)

\* Read HEAD and the status; the same failure state is not tried again.
\* Otherwise the unit is saved as in progress.
Begin(p) ==
    LET reason == IF Resuming(p) THEN EntryOf(p).reason ELSE "none"
        entry == [EntryOf(p) EXCEPT !.status = "in_progress"]
        local == [proc[p] EXCEPT !.pc = "repair", !.attempt = FirstAttempt(p),
                    !.limit = LastAttempt(p), !.head = HeadCommit, !.before = Status]
    IN  /\ At(p, "begin")
        /\ \/ /\ Resuming(p) /\ EntryOf(p).failed = FailureState(HeadCommit, reason)
              /\ Return(p)
              /\ UNCHANGED queue
           \/ /\ ~Resuming(p) \/ EntryOf(p).failed # FailureState(HeadCommit, reason)
              /\ FirstAttempt(p) \in Attempts
              /\ ledger[UnitOf(p)][FirstAttempt(p)].rev < MaxRevision
              /\ SaveQueue(MainPlan, WithEntry(local, entry).view)
              /\ Become(p, WithEntry(local, entry))
        /\ UNCHANGED <<repoVars, log, ledger, crashes>>

\* A repair attempt is announced in the queue before it is opened.
Repair(p) ==
    LET entry == [EntryOf(p) EXCEPT !.status = "in_progress", !.attempt = proc[p].attempt]
    IN  /\ At(p, "repair")
        /\ IF proc[p].attempt > 0
           THEN /\ SaveQueue(MainPlan, WithEntry(proc[p], entry).view)
                /\ Become(p, [WithEntry(proc[p], entry) EXCEPT !.pc = "open"])
           ELSE Goto(p, "open") /\ UNCHANGED queue
        /\ UNCHANGED <<repoVars, log, ledger, crashes>>

Started(p) == [NoRecord EXCEPT !.status = "starting", !.head = proc[p].head,
                 !.startDiff = Diff(Paths), !.startOutside = Diff(Outside(UnitOf(p)))]

\* validate_start: a ledger that exists is continued when the repository is as
\* it was when that attempt started.
Continues(record, start) ==
    /\ record.head = start.head
    /\ record.startDiff = start.startDiff
    /\ record.startOutside = start.startOutside

Open(p) ==
    LET u == UnitOf(p)
    IN  /\ At(p, "open")
        /\ \/ /\ RecordOf(p).rev = 0
              /\ CompareAndSet(u, proc[p].attempt, 0, Started(p))
              /\ Goto(p, "implement")
           \/ /\ RecordOf(p).rev > 0 /\ Continues(RecordOf(p), Started(p))
              /\ Goto(p, "implement")
              /\ UNCHANGED ledger
           \/ /\ RecordOf(p).rev > 0 /\ ~Continues(RecordOf(p), Started(p))
              /\ Become(p, Holding(proc[p], [EntryOf(p) EXCEPT !.reason = "stale"], FALSE))
              /\ UNCHANGED ledger
        /\ UNCHANGED <<repoVars, recordVars, crashes>>

-----------------------------------------------------------------------------
(* Implementing and reviewing                                               *)

\* The child ends.  The supervisor has written its status to the ledger and
\* whether its descendants are gone; the run sees a result or an exception.
ChildEnds(p) ==
    /\ At(p, "implement")
    /\ \E verdict \in {"pass", "hold", "failure"}, closed \in BOOLEAN :
          /\ verdict # "failure" => closed
          /\ CompareAndSet(UnitOf(p), proc[p].attempt, RecordOf(p).rev,
                [RecordOf(p) EXCEPT !.closed = closed,
                   !.status = IF verdict = "failure" THEN "failure" ELSE "pass"])
          /\ Become(p, [proc[p] EXCEPT !.verdict = verdict,
                !.pc = IF verdict = "pass" THEN "review" ELSE "finalize"])
    /\ UNCHANGED <<repoVars, recordVars, crashes>>

\* deterministic_unit_gate_result: a unit without a reviewer passes.
DeterministicGate(p) ==
    /\ At(p, "review")
    /\ EntryOf(p).review # "per_unit"
    /\ Become(p, [proc[p] EXCEPT !.pc = "finalize", !.verdict = "pass"])
    /\ UNCHANGED <<repoVars, recordVars, ledger, crashes>>

\* The reviewer is given HEAD and the digest of the whole candidate.
ReviewStarts(p) ==
    /\ At(p, "review")
    /\ EntryOf(p).review = "per_unit"
    /\ Become(p, [proc[p] EXCEPT !.pc = "reviewing",
                                 !.reviewing = FailureState(HeadCommit, "none")])
    /\ UNCHANGED <<repoVars, recordVars, ledger, crashes>>

\* CodexReadOnlyReviewer.review: a repository that changed meanwhile is a
\* protocol failure, whatever the reviewer said.
ReviewVerdicts(p) ==
    IF proc[p].reviewing = FailureState(HeadCommit, "none")
    THEN {"pass", "finding", "protocol", "review_failure"}
    ELSE {"protocol", "review_failure"}

ReviewEnds(p) ==
    /\ At(p, "reviewing")
    /\ \E verdict \in ReviewVerdicts(p), closed \in BOOLEAN :
          /\ verdict # "review_failure" => closed
          /\ CompareAndSet(UnitOf(p), proc[p].attempt, RecordOf(p).rev,
                [RecordOf(p) EXCEPT !.closed = closed,
                   !.status = IF verdict = "review_failure" THEN "failure" ELSE "pass"])
          /\ Become(p, [proc[p] EXCEPT !.pc = "finalize", !.verdict = verdict])
    /\ UNCHANGED <<repoVars, recordVars, crashes>>

\* finalize_attempt: the status an attempt is closed with.
FinalStatus(p) ==
    LET record == RecordOf(p)
        completed == proc[p].verdict \notin {"hold", "failure", "review_failure"}
                     /\ record.status = "pass"
    IN  CASE ~record.closed -> "process_cleanup_failed"
          [] record.closed /\ Diff(Outside(UnitOf(p))) # record.startOutside -> "scope_mismatch"
          [] OTHER -> IF proc[p].head = HeadCommit /\ completed
                      THEN "finalized" ELSE "held_adoption_required"

\* The retry that execute_unit asks for: nobody approved it and no repair path
\* is named.
CanRetry(p) ==
    RetryEligible(FALSE, Retryable("review_finding", proc[p].verdict = "finding"), {}, {},
                  FALSE, proc[p].attempt)

\* The reason and the failure state an attempt that did not pass is held with.
HeldEntry(p, rev) ==
    LET changed == ChangedPaths(proc[p].kept, proc[p].before)
        reason == IF proc[p].verdict = "hold" /\ changed \ Allowed[UnitOf(p)] # {}
                  THEN "scope" ELSE proc[p].verdict
        head == IF proc[p].verdict = "review_failure" THEN proc[p].reviewing.head ELSE proc[p].head
    IN  [EntryOf(p) EXCEPT !.attempt = proc[p].attempt, !.rev = rev, !.changed = changed,
             !.reason = reason,
             !.failed = IF proc[p].verdict = "hold" THEN @ ELSE FailureState(head, reason)]

\* What follows an attempt: a candidate that passed goes on, a finding is
\* repaired by another attempt if a retry is eligible, everything else holds
\* the unit.
AfterAttempt(p, rev) ==
    LET verdict == proc[p].verdict
    IN  IF verdict = "pass"
        THEN [WithEntry(proc[p], [EntryOf(p) EXCEPT !.rev = rev]) EXCEPT !.pc = "verify"]
        ELSE IF verdict = "finding" /\ CanRetry(p) /\ proc[p].attempt < proc[p].limit
        THEN [proc[p] EXCEPT !.pc = "repair", !.attempt = @ + 1]
        ELSE Holding(proc[p], HeldEntry(p, rev), TRUE)

\* The attempt is finalized in the ledger, whatever its verdict.
Finalize(p) ==
    LET rev == RecordOf(p).rev
    IN  /\ At(p, "finalize")
        /\ CompareAndSet(UnitOf(p), proc[p].attempt, rev,
              [RecordOf(p) EXCEPT !.status = FinalStatus(p), !.head = proc[p].head])
        /\ Become(p, AfterAttempt(p, rev + 1))
        /\ UNCHANGED <<repoVars, recordVars, crashes>>

\* Why a candidate that passed is not released: HEAD moved, or paths outside
\* the scope changed.
ReleaseObstacle(p, changed) ==
    IF HeadCommit # proc[p].head THEN "head"
    ELSE IF changed \ Allowed[UnitOf(p)] # {} THEN "scope" ELSE "none"

Verify(p) ==
    LET changed == ChangedPaths(proc[p].kept, proc[p].before)
        obstacle == ReleaseObstacle(p, changed)
    IN  /\ At(p, "verify")
        /\ IF obstacle = "none"
           THEN Become(p, [proc[p] EXCEPT !.pc = "prepare", !.changed = changed,
                                        !.listed = Listing(proc[p].kept, changed)])
           ELSE Become(p, Holding(proc[p],
                   [EntryOf(p) EXCEPT !.attempt = proc[p].attempt, !.changed = changed,
                                      !.reason = obstacle], TRUE))
        /\ UNCHANGED <<repoVars, recordVars, ledger, crashes>>

-----------------------------------------------------------------------------
(* The release                                                              *)

ReleaseKind(commit, changed) ==
    IF changed = {} THEN "skipped" ELSE IF commit THEN "committed" ELSE "uncommitted"

\* Everything the commit will be compared with is written to the ledger first.
Prepare(p) ==
    LET u == UnitOf(p)
        changed == proc[p].changed
    IN  /\ At(p, "prepare")
        /\ \E commit \in CommitFlags, message \in Messages :
              LET record == [RecordOf(p) EXCEPT !.state = "committing",
                               !.kind = ReleaseKind(commit, changed), !.parent = HeadCommit,
                               !.paths = changed, !.listed = proc[p].listed,
                               !.candidate = Changes(HeadCommit, work, changed),
                               !.outside = Diff(Outside(u)), !.message = message]
              IN  /\ CompareAndSet(u, proc[p].attempt, RecordOf(p).rev, record)
                  /\ Become(p, [proc[p] EXCEPT !.pc = "check",
                                               !.seen = ledger'[u][proc[p].attempt]])
        /\ UNCHANGED <<repoVars, recordVars, crashes>>

\* Mutant: a release that was prepared is always to be committed.
CommitDueAlways(record) == record.kind = "committed"

\* The commit is still to be made: HEAD has not moved since the preparation.
CommitIsDue(record) == record.kind = "committed" /\ HeadCommit = record.parent

\* _finish_isolated_release, before the commit: the candidate and everything
\* outside the scope are as they were prepared, or the run raises.
Check(p) ==
    LET record == proc[p].seen
    IN  /\ At(p, "check")
        /\ \/ /\ CommitIsDue(record)
              /\ IF /\ Diff(Outside(UnitOf(p))) = record.outside
                    /\ Changes(record.parent, work, record.paths) = record.candidate
                 THEN Goto(p, "commit") ELSE Return(p)
           \/ ~CommitIsDue(record) /\ Goto(p, "prove")
        /\ UNCHANGED <<repoVars, recordVars, ledger, crashes>>

\* commit_paths; with nothing left to commit git fails and the run raises.
Commit(p) ==
    /\ At(p, "commit")
    /\ \/ /\ CommitPaths(proc[p].seen.paths, proc[p].seen.message,
                         <<UnitOf(p), proc[p].attempt>>)
          /\ Goto(p, "prove")
       \/ /\ Dirty(proc[p].seen.paths) = {}
          /\ Return(p)
          /\ UNCHANGED <<work, branch, tips, commits>>
    /\ UNCHANGED <<edits, shelf, recordVars, ledger, crashes>>

\* Mutant: only the parent and the message are compared.
ProvedByParent(record, head) ==
    head > 0 /\ commits[head].parent = record.parent /\ commits[head].message = record.message

\* The commit c has the parent, the paths, the content and the message that
\* were prepared.
AsPrepared(record, c) ==
    /\ c > 0
    /\ commits[c].parent = record.parent
    /\ DOMAIN Changes(record.parent, Tree(c), Paths) = record.paths
    /\ Changes(record.parent, Tree(c), record.paths) = record.candidate
    /\ commits[c].message = record.message

\* _isolated_release_mismatch finds nothing: the commit at HEAD is the one
\* prepared (and has the tree that was recorded), and the paths recorded are
\* listed as changed_paths_between lists them, by name; without a commit HEAD
\* has not moved and the candidate is still there.
Proved(record, head) ==
    CASE record.kind = "skipped" -> head = record.parent
      [] record.kind = "uncommitted" ->
            head = record.parent /\ Changes(record.parent, work, record.paths) = record.candidate
      [] record.kind = "committed" ->
            /\ AsPrepared(record, head) /\ record.listed = "by-name"
            /\ record.state = "completed" => Tree(head) = Tree(record.commit)

\* The proof is written to the ledger; a mismatch or a conflict raises.
Prove(p) ==
    LET record == proc[p].seen
        proved == [record EXCEPT !.state = "completed", !.commit = HeadCommit]
    IN  /\ At(p, "prove")
        /\ \/ /\ Proved(record, HeadCommit)
              /\ CompareAndSet(UnitOf(p), proc[p].attempt, record.rev, proved)
              /\ Become(p, [proc[p] EXCEPT !.pc = "done_save",
                                           !.seen = ledger'[UnitOf(p)][proc[p].attempt]])
           \/ /\ ~Proved(record, HeadCommit) \/ RecordOf(p).rev # record.rev
              /\ Return(p)
              /\ UNCHANGED ledger
        /\ UNCHANGED <<repoVars, recordVars, crashes>>

\* A release that was already proved must still be what is at HEAD.
Revalidate(p) ==
    /\ At(p, "revalidate")
    /\ IF Proved(proc[p].seen, HeadCommit) THEN Goto(p, "done_save") ELSE Return(p)
    /\ UNCHANGED <<repoVars, recordVars, ledger, crashes>>

DoneSave(p) ==
    LET record == proc[p].seen
        local == WithEntry(proc[p], [EntryOf(p) EXCEPT !.status = "done",
                                       !.attempt = proc[p].attempt, !.rev = record.rev,
                                       !.changed = record.paths])
    IN  /\ At(p, "done_save")
        /\ SaveQueue(MainPlan, local.view)
        /\ Become(p, [local EXCEPT !.pc = "done_log_read"])
        /\ UNCHANGED <<repoVars, log, ledger, crashes>>

DoneLogRead(p) == ReadLog(p, "done_log_read", "done_log_write")

\* The line with the details already reads as a completion.
DoneLogWrite(p) ==
    /\ At(p, "done_log_write")
    /\ WriteLog(MainPlan, proc[p].lines \cup {<<UnitOf(p), "Completed">>})
    /\ Goto(p, "done_sync")
    /\ UNCHANGED <<repoVars, queue, ledger, crashes>>

\* sync_queue_cache_from_plan.
DoneSync(p) ==
    /\ At(p, "done_sync")
    /\ SaveQueue(MainPlan, Synced(MainPlan, queue, log[MainPlan]))
    /\ Return(p)
    /\ UNCHANGED <<repoVars, log, ledger, crashes>>

-----------------------------------------------------------------------------
(* The specification                                                        *)

Crash(p) ==
    /\ ~At(p, "idle")
    /\ crashes < MaxCrashes
    /\ crashes' = crashes + 1
    /\ Return(p)
    /\ UNCHANGED <<repoVars, recordVars, ledger>>

Environment ==
    /\ OutsideCommit \/ \E x \in Paths : Edit(x)
    /\ UNCHANGED <<shelf, recordVars, ledger, proc, crashes>>

Attempt(p) == Reload(p) \/ Attest(p) \/ Start(p) \/ Begin(p) \/ Repair(p) \/ Open(p)
              \/ ChildEnds(p) \/ DeterministicGate(p) \/ ReviewStarts(p) \/ ReviewEnds(p)
              \/ Finalize(p) \/ Verify(p)
Hold(p) == HoldSave(p) \/ HoldLogRead(p) \/ HoldLogWrite(p)
Release(p) == Prepare(p) \/ Check(p) \/ Commit(p) \/ Prove(p) \/ Revalidate(p)
              \/ DoneSave(p) \/ DoneLogRead(p) \/ DoneLogWrite(p) \/ DoneSync(p)
Continue(p) == Recover(p) \/ Attempt(p) \/ Hold(p) \/ Release(p)

Next ==
    \/ \E p \in Procs : (\E u \in Units : Select(p, u)) \/ Continue(p) \/ Crash(p)
    \/ Environment

Spec == Init /\ [][Next]_vars

-----------------------------------------------------------------------------
(* Types                                                                    *)

Diffs == UNION {[S -> Contents] : S \in SUBSET Paths}
Trees == [Paths -> Contents]
Reasons == {"none", "attestation", "stale", "hold", "failure", "finding", "protocol",
            "review_failure", "head", "scope"}
Failures == [head : {NoTip} \cup Nat, diff : Diffs, reason : Reasons]
Entries == [status : UnitStatuses, review : {"per_unit", "final_only"}, attempt : Nat, rev : Nat,
            changed : SUBSET Paths,
            reason : Reasons, failed : Failures]
Records == [rev : Nat,
            status : {"absent", "starting", "pass", "failure", "finalized", "scope_mismatch",
                      "process_cleanup_failed", "held_adoption_required"},
            head : Nat, startDiff : Diffs, startOutside : Diffs, closed : BOOLEAN,
            state : {"none", "committing", "completed"},
            kind : {"none", "committed", "uncommitted", "skipped"}, parent : Nat,
            paths : SUBSET Paths, listed : {"none", "by-name", "otherwise"}, candidate : Diffs, outside : Diffs,
            message : Messages \cup {""}, commit : Nat]

\* Every file and the repository hold what the code writes to them.
TypeOK ==
    /\ work \in Trees /\ branch \in Branches /\ edits \in 0..MaxEdits
    /\ commits \in Seq([parent : Nat, message : Messages \cup {""},
                        author : (Units \X Attempts) \cup {Outsider}, tree : Trees])
    /\ tips \in [Branches -> {NoTip} \cup 0..Len(commits)]
    /\ queue \in [Units -> Entries]
    /\ log \in [Plans -> SUBSET Lines]
    /\ ledger \in [Units -> [Attempts -> Records]]
    /\ shelf \subseteq Diffs
    /\ \A p \in Procs : proc[p].unit \in Units /\ proc[p].attempt \in Attempts
                        /\ proc[p].view \in [Units -> Entries] /\ proc[p].seen \in Records
    /\ crashes \in 0..MaxCrashes

-----------------------------------------------------------------------------
(* Safety                                                                   *)

Released(u) == \E a \in Attempts : ledger[u][a].state = "completed"

\* A released commit has exactly the parent, paths, content and message that
\* were prepared, and touches allowed paths only, although the checkout is
\* edited and committed to between the review, the preparation and the proof.
ReleaseIsExact ==
    \A u \in Units, a \in Attempts :
        LET record == ledger[u][a]
            c == record.commit
        IN  record.state = "completed" /\ record.kind = "committed" =>
                /\ c \in 1..Len(commits) /\ commits[c].parent = record.parent
                /\ commits[c].message = record.message
                /\ Changes(record.parent, Tree(c), Paths) = record.candidate
                /\ DOMAIN record.candidate = record.paths /\ record.paths \subseteq Allowed[u]

\* Neither queue.json nor log.md runs ahead of the ledger: a unit that either
\* shows as done has a proved release, from however old a copy it was written.
NoPrematureCompletion ==
    \A u \in Units :
        queue[u].status = "done" \/ <<u, "Completed">> \in log[PlanOf[u]] => Released(u)

\* Units run in the order of the plan, also when the queue and the log disagree:
\* a unit has an attempt only when every earlier one was taken up, and released
\* as long as no run has died.  A run that died between saving a unit as done and
\* logging it makes the next runs go by the queue alone, which passes over a unit
\* left in progress.
InPlanOrder ==
    \A i, j \in DOMAIN Order :
        i < j /\ (\E a \in Attempts : ledger[Order[j]][a].rev > 0) =>
            /\ queue[Order[i]].status # "ready"
            /\ Released(Order[i]) \/ crashes > 0

\* An attempt is committed at most once, however often its release dies and is
\* recovered, and however often a later run takes up the same number again.
\* Holds when the runs come one after the other.
OneCommitPerAttempt ==
    \A c, d \in 1..Len(commits) :
        commits[c].author = commits[d].author /\ commits[c].author # Outsider => c = d

-----------------------------------------------------------------------------
(* Liveness                                                                 *)

\* The user runs run-next again and again, and a run that started goes on.
Fairness ==
    /\ \A p \in Procs : WF_vars(Continue(p))
    /\ \A p \in Procs, u \in Units : SF_vars(Select(p, u))
FairSpec == Spec /\ Fairness

\* The commit of a prepared release is at HEAD, as it was prepared, and nothing
\* was recorded yet.
Landed(u, a) ==
    /\ ledger[u][a].status = "finalized" /\ ledger[u][a].state = "committing"
    /\ HeadCommit > 0 /\ commits[HeadCommit].author = <<u, a>>
    /\ AsPrepared(ledger[u][a], HeadCommit)

\* A commit that landed before the run died is adopted by a later run and the
\* unit shown as done, unless somebody commits on top of it first: when the paths
\* it was prepared with are listed by name.
LandedIsAdopted ==
    \A u \in Units, a \in Attempts :
        \A c \in 1..MaxCommits :
            Landed(u, a) /\ ledger[u][a].listed = "by-name" /\ HeadCommit = c
                ~> queue[u].status = "done" \/ HeadCommit # c

-----------------------------------------------------------------------------
(* What the documentation says                                              *)

\* A release that was prepared is finished by the next run without another
\* commit: no unit is committed twice.
NoDuplicateCommit ==
    \A c, d \in 1..Len(commits) :
        /\ commits[c].author # Outsider /\ commits[d].author # Outsider
        /\ commits[c].author[1] = commits[d].author[1]
        => c = d

\* A prepared release is recoverable: when its commit has landed, run-next adopts
\* it, without a child and without another commit.
LandedIsRecoverable ==
    \A u \in Units, a \in Attempts :
        \A c \in 1..MaxCommits :
            Landed(u, a) /\ HeadCommit = c ~> queue[u].status = "done" \/ HeadCommit # c
=============================================================================
