# codex-flow in TLA+

codex-flow executes development plans as *commit units* in a Git repository: a
coordinating agent (or a supervised child process) implements a unit, and
codex-flow locks it, checks it and commits exactly its allowed paths.  Progress
is kept in plain files.  What is hard about the program is that every command is
a sequence of file and Git operations that can be interrupted between any two,
that several commands can run at once, and that people and editors change the
checkout meanwhile.

This directory holds TLA+ models of it, the TLC runs that check them and proofs
checked by TLAPS.  `PROJECT.json` lists the runs, the theorems, the hazards of
the code and, for every definition, the source lines it translates.

## Inventory

| Component | State | Operations | Interacts through | Hard because | Correct when | Module |
|---|---|---|---|---|---|---|
| Main-unit transaction (`main_unit.py`) | one attempt ledger per unit and attempt | begin, complete, hold | ledger, queue, log, Git checkout | crashes between ledger, queue, log and commit; concurrent commands; edits between seal, stage, commit and verification | completes only with the sealed candidate; one attempt at a time; one commit per attempt; recovery finishes what was started | MainUnit |
| Git operations (`git_ops.py`) | checkout, HEAD, branches, commits | status, digests, stage, commit `--only`, switch, push, fetch, worktrees | called by the transaction, runner and merge | the checkout is shared with everybody | only allowed paths are committed; no commit is lost | Worktree, Release |
| Plan records (`plans.py`, `plan_readiness.py`, `state.py`) | `queue.json` (cache), `log.md` (canonical), `requests.md` | load with sync, save, append, mark, requeue, conflict check | files shared by all commands, no locks | whole-file writes from old copies, in place; cache and log disagree | neither runs ahead of the ledger; protection and requests are not forgotten | PlanRecords, QueueFile |
| Attempt ledger (`attempt_ledger.py`) | a JSON snapshot with a revision, a lock file | load, compare-and-set, update, start, finalize, adopt | used by the transaction, the runner and the supervisor | lock-free readers, stale bases, kills, power loss | one winner per revision; no confirmed write is lost | AttemptLedger |
| Attempt loop (`runner.py`, `run_all.py`) | unit entries, attempt views, dirty-path bookkeeping | run_next, execute_unit, run_all | ledger, queue, log, agents, supervisor | retries, restarts, stale attempts, two runs at once | units are taken up in order, no attempt is committed twice | UnitExecution |
| Isolated release (`runner.py`) | release fields of the ledger | prepare, finish, recover | ledger, Git, queue, log | crash between commit, ledger, queue and log | what is released is what was prepared; a landed commit is adopted | UnitExecution |
| Supervisor and cancellation (`attempt_supervisor.py`, `cancellation.py`) | progress state, process group, cancel marker | observe, run, terminate, request_cancel | ledger, subprocess | timeouts against exits, a child that writes between two probes, processes that outlive their leader | no process that a signal reaches outlives its attempt unreported; every limited attempt ends | AttemptSupervisor |
| Execution policy (`execution_policy.py`) | none | classify, fingerprint, retry_eligible | called by the runner and the readiness check | the rules are spread over declarations, evidence and what was persisted | protection is never lowered | ExecutionPolicy |
| Final gate (`final_gate.py`) | the gate file | produce, require | queue, Git, merge, PR | check and use are apart | nothing lands without a guard that passed | Release |
| PRs and inbox (`pr.py`, `inbox.py`) | PR lock file, `inbox.md` | create, check, set, clear, drain, append | GitHub, plan routing, `merge --remote` | check-then-create; locks set by hand; files truncated before they are filled; crash between routing and removal | no command takes the lock of an open PR away; a request is lost or routed twice only by a death | PrInbox |
| Merge (`merge.py`) | branches, PR lock | merge local/remote, rebase, finalize | gate, PR, worktree | every step can fail after the one before took effect | a source branch is deleted only once it is merged | Release |
| Child runtime and attestation (`child_runtime.py`, `codex_cli.py`) | runtime cache with a lock per key | prepare, publish, reuse, attest, verify | files, subprocess | concurrent publication, edits of the sources while they are copied | a child runs what its key names | ChildRuntime |
| Reviewer (`reviewer_agent.py`) | none of its own | ask, compare the repository, parse the answer | runner | free text, changes during the review | a candidate is ready only when its review has earned it | ReviewGate |
| Other agents (`agent.py`, `implementer_agent.py`, `planner_agent.py`, `merge_agent.py`) | none of their own | build a prompt, run, parse the answer | runner, merge | - | inputs of UnitExecution and Release | - |
| Source plans, tickets (`source_plan.py`, `plan_first_extract.py`, `tickets.py`) | plan and ticket files | extract, snapshot, drift check | plan creation | - | text extraction, not modelled | - |
| CLI, reporting (`cli.py`, `dashboard.py`, `briefs.py`) | none | dispatch, render | everything | - | not modelled | - |

## Modules

```
            ExecutionPolicy                  PrInbox  ReviewGate  Release
              /          \                        \       |       /
Worktree  PlanRecords   QueueFile ------------->  MCComponents --> ComponentsProofs
   |   \  /   |
   |  UnitExecution --> MCUnitExecution
   |          |    \--> UnitExecutionProofs
   |          |
   MainUnit (Worktree, PlanRecords) --implements--> UnitTransaction
    |     \
 MCMainUnit  MainUnitProofs --> MainUnitSafety --> MainUnitRefinement

AttemptLedger --implements--> AttemptRecord      AttemptSupervisor      ChildRuntime
   |      \                                        |         \               |
MCAttemptLedger  AttemptLedgerProofs  MCAttemptSupervisor  AttemptSupervisorProofs  ChildRuntimeProofs
```

**Worktree** is the repository as `git_ops.py` sees it: the content of every path
in the checkout, the branch, the tips and the commits with their trees.  A digest
stands for the diff it is a digest of (SHA-256 is taken to be injective).
`CommitPaths` is `git commit --only`: it commits what the checkout holds *now* on
whatever HEAD is *now*, and `Cleanup` is what git makes of the message.  `Edit`
and `OutsideCommit` are everybody else.  The index is not a variable: all diffs
the code compares are of the checkout or of paths staged just before.

**PlanRecords** is `queue.json` and `log.md` as the transaction and the runner use
them.  `Synced` is what `load_queue` returns: a logged completion wins, then a
logged needs_work, then the cached status.  Both files are written whole from the
writer's copy.

**MainUnit** is the transaction.  Every process runs one command at a time; its
program counter, its copy of the queue, the ledger snapshot it read and its other
locals are `proc[p]`, and a step ends where the command reads or writes a file or
the repository:

| Command | Steps |
|---|---|
| `begin_main_unit` | `BeginLoad`, `BeginSync` (the write hidden in `load_queue`), `BeginInspect` (newest ledger, orphans included), `BeginRepair` / `BeginRepairHeld` (`_reconcile_*`), `BeginBranch` (status checks and `prepare_execution_branch`), `BeginCheck` (clean checkout or unchanged held candidate), `BeginOpen` (compare-and-set from revision 0), `BeginSave`, `BeginLogRead`, `BeginLogWrite` |
| `complete_main_unit` | `CompleteLoad`, `CompleteSync`, `CompleteInspect`, `CompleteRepair`, `CompleteVerify` (HEAD, evidence, scope, paths), `CompleteSeal` (digest and compare-and-set to committing), `FinishCheck`, `FinishStage`, `FinishCommit`, `FinishObserve` (`_commit_mismatch`), `FinishComplete`, `FinishSave`, `FinishLogRead`, `FinishLogWrite`, and `ProtocolHold`, `ProtocolSave` |
| `hold_main_unit` | `HoldLoad`, `HoldSync`, `HoldInspect`, `HoldRecord`, `HoldSave`, `HoldLogRead`, `HoldLogWrite` |

`Crash` ends a command before any of its steps.  Consecutive reads with no write
between them are one step: an edit between, say, the HEAD and the scope comparison
of a completion is not told apart from one right after both, and whatever slips
through meets the comparison of the commit itself.
The author of a commit is a ghost that only properties read.  The queue's status
`ready` stands for `ready` and `prompted`; the sync's fallback for unknown statuses
is unreachable with the statuses the commands write.

**UnitTransaction** is what a transaction promises, without processes, files or
crashes: attempts open one after the other, seal one candidate each, and a unit
completes only with a commit that carries the sealed candidate.  `MainUnit`
implements it under the mapping given at its end (`ImplementsTransaction`).

**UnitExecution** is `run-next --execute` and run-all for a unit that an isolated
child implements.  Nothing locks a plan, so two processes may run one unit.  Again
a process takes one step per file or repository state that it writes:

| Phase | Steps |
|---|---|
| select and recover (`run_next`) | `Select`, `Recover` (an interrupted release), `Reload` |
| start (`execute_unit`) | `Attest`, `Start` (dirty checkout: refuse, shelve, or go on with the paths of the held attempt), `Begin`, `Repair`, `Open` (start or adopt the ledger) |
| one attempt | `ChildEnds`, `DeterministicGate`, `ReviewStarts`, `ReviewEnds`, `Finalize` (retry, hold or release) |
| release (`prepare_and_`, `_finish_isolated_release`) | `Verify`, `Prepare`, `Check`, `Commit`, `Prove`, `Revalidate`, `DoneSave`, `DoneLogRead`, `DoneLogWrite`, `DoneSync` |
| hold | `HoldSave`, `HoldLogRead`, `HoldLogWrite` |

The paths of a release are recorded in the order in which git status lists them
(tracked ones by name, then untracked ones by name, preserved ones first) and compared
with the changed paths of the commit by name.  `Listing` tells whether the two orders
agree, which is all that the comparison sees beyond the set.

What the child, the gate and the reviewer answer is nondeterministic here;
AttemptSupervisor and ReviewGate are about how those answers come about.

**ExecutionPolicy** has `classify_execution_policy`, the recovery classes and
`retry_eligible` as operators over the facts they look at: what a unit declares,
what it was given before, and whether its paths and text are documentation, tests
or a risk signal.  The regular expressions are not modelled; every combination of
their answers is.

**QueueFile** looks inside `save_queue`, which PlanRecords takes as one step:
`queue.json` is truncated and then filled.  A process may die in between; the
strict read of the next command fails on a torn file, the read of the cache sync
takes it for an empty one.  Commands are load, mark, the requeue before create-pr
and merge, request and cleanup.

**AttemptLedger** looks inside the compare-and-set that MainUnit and UnitExecution
take as one step: the lock, the read under it, `os.replace` and the directory
fsync, with callers that derive their record before they lock (`adopt_attempt`, the
main-unit commands), that reload it (`finalize_attempt`), or that merge under the
lock (`update`).  A client may be killed and the machine may lose power at any
step.  A record is the set of the writes it contains, so that a lost update shows.
**AttemptRecord** is the promise: a record that grows by one write at a time, of
which what was persisted survives.

**AttemptSupervisor** is `SupervisedCodexRunner.run` with `run_codex_exec` around
it.  Time is counted in polls.  One round of the loop is `Poll`, `Drain` (and the
clock, which the round reads once), `CheckCancel` (cancel, then the hard timeout),
`ProbeDiff`, `ProbeCpu` and `Decide`; the child writes, and time passes, between any
two of them, and each may raise (`ProbeFails`).  `SendTerm`, `SendKill`, `StopOrWait`,
`Wait`, `Sweep` are `_terminate_group`, its second round and the `finally` clause;
`Close` and `Return` write the ledger and answer the caller.  The environment is a
leader that works, computes, blocks and exits, a descendant it leaves behind, signals
that are ignored, processes that hang in the kernel, and an operator who cancels.  A
descendant may also leave the group or go on as another user: such a *stray* gets no
signal, and `killpg(group, 0)` raises ProcessLookupError or PermissionError, which
`GroupAlive` takes for an empty group, as the code does.  `ps` may not answer for a
child (`hide`).

**ReviewGate** is one review: the repository is read, the reviewer writes, the
repository is read again, and its last message is judged line by line.  A message is
its gate lines (status, counts that are zero, positive or unreadable), its terminal
lines, and whether one of its lines is blank.

**PrInbox** is the PR lock and the inbox: route, drain, create-pr, pr-check and the
lock and pull-request steps of `merge --remote`, with set-pr-lock, clear-pr-lock and
merges on GitHub at any time.  Both files are truncated and then filled (`CutLock`,
`WriteLock`; `CutInbox` before each of `Append1`, `PutBack`, `WriteRest`), from copies
read before, and commands die at any step.  A pull request may stay without a lock:
gh printed no URL (`pr.py:115`), `merge --remote` opened it (`merge.py:147`), a person
took the lock away, or a command died; `bare` remembers which.

**Release** is the last stretch: producing and requiring the final gate, `merge
--local` and `merge --remote` with conflicts, the rebase retry, convergence on the
target, branch deletion, and the removal of the worktree.  A reference is the set of
commits it reaches.  Commands die at any step and are given again; other people
commit to the branch and to the target, and plan.md and queue.json are edited at any
time, also between the guard and the merge or push that follows it.

**ChildRuntime** is the cache of child homes: a private stage is copied file by file
while its sources may be edited, keyed by what was copied, published with a rename
under a lock per key or found to be there already, attested, verified and launched.
A home that is given explicitly is validated and taken without a lock (`TakeGiven`).
The child may write to its own home.  A run may die, and the operating system
releases the lock of a dead run.

**MCComponents** puts QueueFile, PrInbox, ReviewGate and Release side by side; they
share no state.  One of them moves while the others are where they start: the run is
the sum of the four state spaces and not their product, which would show nothing
more about components that do not interact.

## Runs

| Run | Instance | Shows |
|---|---|---|
| `solo` | MainUnit: 1 unit, 1 process, 2 attempts, 1 crash, 3 edits, 2 commits, 2 paths, 3 contents, 2 messages | exact completion, at most one commit per attempt, a landed candidate is recognised, the refinement of UnitTransaction, and a completed ledger reaches `queue.json` |
| `pair` | MainUnit: 2 processes on 1 unit, or 1 process on 2 units of which the second may change the path of the first | attempts one at a time, no premature completion, only allowed paths committed, a commit that two units complete with stays within the paths of both |
| `ledger` | AttemptLedger: 2 clients, 3 revisions, 1 kill, 1 power loss | no confirmed write is lost, one winner per revision, and the refinement of AttemptRecord |
| `unit_plan` | UnitExecution: 2 units, the second of which may change the path of the first, 1 process, 1 crash, 3 edits, 2 commits, with and without commit | no attempt is committed twice, neither queue nor log runs ahead of a proved release, units are begun in order although queue and log disagree, a landed commit is adopted when its paths were listed by name |
| `unit_race` | UnitExecution: 2 processes on 1 unit, or 1 process with retries, a crash and edits | a released commit is exactly what was prepared |
| `components` | MCComponents: 1 process and every policy (QueueFile); 1 process, 2 sources, 2 branches, 2 deaths (PrInbox); messages of up to 2 gate and 2 terminal lines (ReviewGate); both kinds of plans, all commands, 1 edit of plan or queue (Release) | protection is never lowered, nothing is forgotten, a unit held for a person stays held; only a torn inbox loses requests, a death makes one plan too many at most, no command takes the lock of an open PR; ready is earned; no commit is lost, nothing lands without a guard, a removed worktree was merged |
| `supervisor` | AttemptSupervisor: a documentation child without a limit that computes or waits, and a high-risk one with a limit of 2 polls whose processes fork, hang, leave and hide; 4 polls, rounds of up to 1, CPU grain 2 | a closed attempt has left no process unreported but strays, a stopped one never passes, a takeover is earned, a limited attempt ends |
| `child` | ChildRuntime: 2 runs, 2 files, 2 versions, 1 edit, 1 write, 1 crash | no collision, a key names its content, a child is launched as keyed, published closures are left alone, every preparation ends |
| `logged`, `oneplan`, `unit_recommitted`, `unit_unordered` | small instances | counterexamples, see below |

### Bounds

Two attempts are the smallest number with a retry; three edits are one to implement
the unit, one to interfere and one to repair or interfere again; two commits are the
unit's and somebody else's; one crash interrupts any step, and the command run after
it is uninterrupted.  Two processes show every pairwise race, and no step waits for a
third.  In AttemptLedger three revisions are a winner, a loser's retry and an update.
`MaxCommits` stops commits, never a command: the failure of `git commit` is always
possible.  In UnitExecution `MaxRevision` is the revision below which a run begins an
attempt: it ends retries on an earlier run's ledger and no step of an attempt under
way.  Two units are enough to see a queue and a log that disagree about the first.  In
AttemptSupervisor `MaxTime` is when the loop stops sleeping: four polls are the three of
the takeover threshold and one of output that starts the silence again; `LastTime` adds a
round and the five waits after the loop, so that no termination is cut short.  A round
takes at most `RoundTime`, which is a bound on what a probe may take and not one of the
code.  Two sources are one that waits in the inbox and one that is routed behind it.

Four runs have a constraint, which is stated where it is defined.  `Pair` joins two
questions in one run: two processes on one unit, or one process on two units with one
message.  `RunOrRace` does so for the runner: a unit with a review of its own is run by
processes that come one after the other, with two edits and a crash (two of these three
when a path out of scope is edited); a unit without is raced for by two processes whose
first attempts touch the allowed path only.
`ChildEdits` is for the counterexample of `unit_recommitted`: only the child writes, after a
path out of scope may have been dirtied once.  `Focus` looks at edits of the plan for a
plan in a worktree, at commits that come at any time with one review, and at requests
that are routed around one pull request.

The clients of the ledger stop at `MaxRev`, the runner, the supervisor, the child
runtime and the four components stop when their work is done or a bound is reached:
these runs do not check deadlock, `solo`, `pair` and the main-unit counterexamples do.

### Fairness

*MainUnit* (`solo`, `logged`): a command that was started goes on (weak fairness);
the coordinator runs begin and complete for every unit again and again (strong
fairness, as a process is now and then between commands), which is what README.md's
recovery advice has it do.  *UnitExecution* (`unit_plan`): likewise, a run goes on and
run-next is given again and again, which is what run-all does.  *AttemptSupervisor*:
the supervisor takes its steps and the clock goes on; the child owes nothing.
*ChildRuntime*: a run goes on, and the blocking `flock` of a key is granted to a waiter
when it is free again and again.  Nothing is assumed of edits, commits of others,
crashes, or of the answers a command gets.

## Where the code and its documentation disagree

Checked by a run:

* `CompletedIsLogged`: after a crash between the ledger's completion and the log
  append, begin and complete repair the queue and never the log, which is the
  record `check_plan_ready` reads.
* `OneInPlacePlan`: the cache sync turns a retried unit back into needs_work, and
  the exclusion of a second plan looks for in_progress.
* `NoDuplicateCommit`: an attempt that was closed with another status than finalized
  (`scope_mismatch`: a path out of scope was dirty before and changed under the same
  status code) is released all the same, but recovery takes up finalized attempts only
  (`runner.py:1173`).  When such a release dies after its commit, the next run finds the
  attempt's ledger with another HEAD and holds the unit as stale, without a child
  (`runner.py:609`); the run after that opens the next attempt, starts a child and commits
  the unit again.  The dashboard says of such a release that run-next makes "no child or
  duplicate commit" (`dashboard.py:190`).
* `LandedIsRecoverable`: the recorded paths of a release are in the order of git status,
  the ones they are compared with are sorted (`runner.py:1341`, `git_ops.py:392`).  A
  release of a modified `b.py` and a new `a.py` is committed as prepared, is a mismatch of
  its paths, and is never adopted, though the dashboard calls it recoverable.
  `LandedIsAdopted` is about releases whose paths were listed by name.

Seen while modelling and kept in the models as the code has it; the properties are
stated for the cases these leave:

* A reviewer's message with a blank line makes `internal_gate_lines` raise an IndexError
  (`line.split()[0]`, `reviewer_agent.py:273`), which nothing catches, where
  docs/plans/implementation-commit-adaptive-execution/commit-4a-plan.md:154 has malformed
  gates fail closed.  ReviewGate has it as the outcome "raised": nothing passes by it, but
  the attempt stays open.
* Two units of one plan whose allowed paths overlap may complete with one commit, when
  both sealed the same candidate on the same HEAD.  `SharedInScope` says that the commit
  is then within what both may change.
* `complete_main_unit` compares the hash of HEAD and not the branch: a unit may be
  committed on a branch that another plan's begin checked out at the same commit.
* The runner, too, saves the queue as done before it appends the completion line
  (`runner.py:1279`); `DoneSync` only repairs the queue.
* `execute_unit` calls `retry_eligible` without the approval and the repair paths that it
  asks for (`runner.py:933`, `execution_policy.py:304`), so that no finding is retried,
  whatever the repair budget, although README.md of the repository has a transient
  needs_work review retried under `--auto-resolve`.  Lemma `NoRetry` of
  UnitExecutionProofs proves it.
* A denied attestation of a resumed unit empties the changed paths that a later run
  would go on with (`runner.py:459`).
* A run that dies between saving a unit as done and logging it leaves queue and log
  disagreeing; the next runs then select by the queue alone, and pass over a unit that is
  left in progress (`runner.py:257`).  `InPlanOrder` says that no unit is begun before the
  earlier ones were *taken up*, and *released* as long as no run has died.
* Two run-next processes may both commit an attempt: `OneCommitPerAttempt` is about runs
  that come one after the other.  It is stated per attempt and not per unit, because also
  the release of a finalized attempt can be followed by a commit of another attempt of
  the same unit, after three deaths.  `repair_attempts`, the number a later run goes on
  from, is saved with a hold and with a completion only (`runner.py:727`,
  `runner.py:1280`).
* A cache sync that reads `queue.json` while another command has truncated it rebuilds
  it without its policies, context and requests (`plan_readiness.py:220`);
  `ProtectionKept` and `NothingForgotten` are checked for one process that may die.
* The requeue before create-pr and merge releases units held for a person
  (`plans.py:1061`).
* `ps` may show CPU times in whole seconds while the loop polls ten times a second: a
  child that computes, but shows the same time in two probes, counts as idle
  (`attempt_supervisor.py:126`), and a documentation child may be taken over while it
  computes.  What holds is that it computed for less than one grain (`TakeoverIsEarned`).
* What a child writes after the drain or the diff probe of a round and before its decision
  is not seen by it (`attempt_supervisor.py:223`, `:237`): the silence of
  `TakeoverIsEarned` is the one up to these probes, less the time of one round.
* A descendant that leaves the process group or changes its user is neither signalled nor
  noticed (`attempt_supervisor.py:418`): `ClosedMeansGone` excepts it.
* The guard of a merge is asked once (`merge.py:50`, `:77`).  A commit on the branch, or an
  edit of the plan or the queue, between it and the merge or push stops nothing and lands,
  and the rebase retry of `merge_remote` pushes what no gate has seen (`merge.py:92`).
  `LandsGated` says that nothing lands without a guard that passed at an identity which
  the evidence had passed, and that a worktree branch left alone while the command runs
  lands at exactly that head.
* A pull request may be open without a lock although nothing died: gh printed no URL
  (`pr.py:115`), or `merge --remote` opened it and the merge failed (`merge.py:147`).
  `LockCoversOpen` excepts those that never got their lock or had it taken by a person.
* A death between the truncation of the inbox and its text loses what the inbox held
  (`inbox.py:65`): `RoutedExactlyOnce` says that nothing else does.
* A cleanup that dies after it removed the worktree and before it wrote the queue is
  never recorded as removed (`git_ops.py:242`).
* Two processes that append to the inbox or drain it may lose a request, and two
  create-pr that read no lock both create one: `PrInbox` is checked with one process.
* A closure that is reused is not compared with the configuration its key binds
  (`child_runtime.py:355`): `LaunchedAsKeyed` says of the configuration that it is right
  until a child has written to its home.

## Proofs

Eight modules prove theorems for all values of the constants, from the ASSUMEs of the
modules only.  Where a theorem needs more, its statement names it: `OneAtATime` (commands
that come one after the other, each of which may die at any step) or `OnePlan`; each is
discussed below.  Each argument is an
inductive invariant, shown in three lemmas: the
initial states satisfy it, every action keeps it (one lemma per action, or per group of
actions that touch the same part), and it implies the property.

**MainUnitProofs**, from: the plan of a unit is a plan, allowed paths are not empty,
the branches are the trunk and one per plan, the bounds are numbers, and cleaning a
message gives a message.

* `TypeCorrect`: `Spec => []TypeOK`.  One lemma per helper and one per command;
  `TypeOK` is inductive as it stands because it says that the branch checked out
  has a tip and that tips are commits made so far.
* `CompletedCorrect`: `Spec => []CompletedIsCandidate`.  The property is not
  inductive: a command judges a commit in one step and records it in a later one.
  `CandidateInv` adds that a process at `finish_complete` holds a commit that
  matches its snapshot (`JudgedInv`), and that commits point back to earlier ones
  (`HistoryInv`), so that a new commit changes nothing about what earlier ones
  carry (`CommitKeeps`).  Steps of begin and hold, and all but four of complete,
  neither judge nor complete (`BeginQuiet`, `HoldQuiet`, `CompleteQuiet`).

**MainUnitSafety** proves what else MainUnit guarantees for any number of processes,
units, attempts, edits and crashes: `AttemptsComeOneAtATime`,
`CompletionNeverPremature`, `CommitsStayInScope` and `SharedCommitsOverlap`.  None of the
properties is inductive, because queue, log and ledger are rewritten from copies of any
age.  `SafetyInv` says what a copy may be relied on for:

* a ledger only moves forward, and held and completed are final (`Grown`), so that what
  a copy says of a finished attempt stays true however old it is (`EntryOK`, `LinesOK`);
* the snapshot with which a command does a compare-and-set is the ledger itself unless
  the ledger has a higher revision (`Snapshot`), in which case the write fails;
* a command that opens attempt *n* has seen a held attempt before it (`StepOK`), which
  makes every earlier attempt held, from whatever old queue the number was taken;
* recorded paths are within the allowed ones, and so is every commit of the tool.

Two units opened on the same HEAD may find their own candidate in the same commit.
`SharedCommitsOverlap` says, without a hypothesis about the scopes, that the commit then
changes something, and only paths that both may touch: a commit matches the sealed
candidate of each, and what is sealed is in scope (lemma `SharedCommit`).

The second part of the module is about commands given one at a time: `AttemptsCommitOnce`
and `LandedCommitsAreRecognised`, on `SafetyInv` and `SoloInv`:

* every commit is made on the one before and HEAD is the last of them (`LineInv`);
* an attempt seals its candidate before it commits, and its commits are above the HEAD
  that it was opened on (`AuthorInv`);
* what an attempt landed that is held now is no longer at HEAD (`BuriedInv`);
* a snapshot on which a command relies is the ledger, a command that stages has found no
  commit of its attempt, one that gives up has found none at HEAD (`ReliedOK`).

The hypotheses are the ones of the code.  Two completions of one sealed attempt both find
HEAD where it was sealed and both commit (`OneAtATime`), which no document excludes.  With
a second plan (`OnePlan`) the checkout may be switched to another branch at the same
commit, which the comparison of HEAD by hash does not notice (see above): the commit of
the attempt is then on a branch on which the resumed completion does not look for it.

**MainUnitRefinement** proves `TransactionImplemented`: MainUnit implements
UnitTransaction.  The abstract transaction of a unit is the newest of its ledgers.  Five
steps write a ledger and map to Open, Seal, Land and Hold (`...Maps` lemmas), a commit by
anybody maps to Grow, all others stutter.  `SafetyInv` is what makes the ledger that a
command writes the newest one, `CandidateInv` what makes the commit it lands carry the
sealed candidate.

**UnitExecutionProofs**, from: the order names the units of one plan once each, allowed
paths are paths, flags are Booleans and bounds numbers.

* `TypeCorrect` and `ReleaseExact` hold for any number of processes.  `ExactInv` adds to
  the types that commits point back to earlier ones (`HistoryInv`), that the paths of a
  record, and of everything a process is about to write into one, are allowed
  (`ScopeInv`), and that a proved record matches its commit (`ReleaseInv`); a commit that
  is proved later than it was made is compared again by `Prove`.
* `CompletionNeverPremature` and `UnitsRunInOrder` have the hypothesis `OneAtATime`: one
  process, which may die after every step and be started again without limit.  `SoloInv`
  says for each step what the run may rely on (`StepOK`: its unit is not done, its copy of
  the other units is the queue, its lines are the log), that a logged completion is in
  the queue (`LoggedIsDone`), and that a released unit is logged or about to be while no
  run has died (`LoggedInTime`).  With two processes both properties fail: TLC finds a
  run that writes an old copy of the queue over a newer one.
* `AttemptsCommitOnce` has the same hypothesis.  An attempt number may be used by several
  runs, and a ledger adopted whatever its state; what excludes a second commit is the
  HEAD.  `MadeInv` says that HEAD is the last commit; that the commits of an attempt are
  above the HEAD it started from and above the parent it was prepared on (`RecordMade`),
  so that neither an adoption, which asks for the HEAD of the ledger, nor a recovered
  release, which commits only on its parent, makes another; that every commit of the unit
  is below the HEAD a starting run has read, that an attempt at work has no commit, and
  that the release being finished is the one in the ledger (`MadeOK`).  It uses that a
  run has one attempt, since no finding is retried (`NoRetry`).

**ComponentsProofs** proves the ten properties of the run `components`, for all bounds.

* Release, as it stands: `RemovalIsSafe`, `WorkIsNeverLost`, `LandsOnlyGated`.
  `RemovalInv` orders a removal: a cleanup goes on only with a head that is on the
  target, and the branch goes after the worktree and before the record.  `LandInv`
  carries the gate to where it is used: a command past the guard has an identity that the
  evidence has passed, the branch of a plan in a worktree is still at its head, also at
  origin between push and merge, when nobody commits meanwhile, and such a plan never gets
  to the rebase that pushes what no gate has seen.  Plan and queue may change at any step:
  the invariant is about the identity the guard was asked at.
* ReviewGate, as it stands: `ReviewMustBeEarned`, for messages of any length.
* QueueFile: `NothingIsForgotten`, `ProtectionIsKept`, `HeldIsForPerson`, on lemmas about
  `Classify` (`HighestIsHighest`, `ClassifyProtects`).  `QueueInv` says that what a
  command is about to write protects at least as much as what the file last held
  (`ViewOK`), also after a death left the file torn.
* PrInbox: `RoutedOnce`, `LockNamesOpen`.  `InboxInv` says that what is accepted is in one
  of the two files or in the copy with which the inbox is being rewritten, or was lost with
  such a copy; that nothing waits twice and that the plans too many are as many as deaths,
  but for the request a drain is about to remove (`RoutingInv`); that a command which
  removes a lock knows its pull request merged (`LockKnown`); and that an open pull request
  is bare, or has the lock or a process about to write it (`LockInv`).
* `TypesHold` puts the types of the four together.

queue.json, the inbox and the lock are written without a lock of their own, from copies
read earlier.  So the theorems about them have the hypothesis `OneAtATime`, as the
run has one process: with two, properties fail (see above).  What a person does to the lock
is not excluded.  ComponentsProofs assumes of
the constants that bounds are numbers, isolation a Boolean, commands are commands, and
no branch is called "none", which stands for the absence of one.

**AttemptLedgerProofs**, for any number of clients, kills and power losses:
`TypeCorrect`, `ReturnedStays` (`[]ReturnedIsKept`), `RevisionsHaveOneWinner`
(`[]OneWinner`) and `LedgerImplementsRecord`, the refinement of AttemptRecord, whose
every step is mapped to a write, a persist, a power loss or a stutter.  The invariant
says that one client is past the lock (`LockInv`), that what it found there is what
stands there (`Current`), that a client whose expected revision is still the file's
derived its record from the file (`Based`), that the marks of a client's writes are of
its earlier calls (`NumberedInv`), and that the disk is behind the file but not behind
what was returned (`FilesInv`).

**ChildRuntimeProofs**, for any number of runs, files, versions, edits, writes and
deaths: `TypeCorrect`, `NeverCollides`, `KeysNameManifests`,
`ChildrenAreLaunchedAsKeyed` and the action property `PublishedStays`.  The invariant
says that a run that publishes holds the lock of its key and found nothing there
(`HoldsLock`), that its key was taken of its own stage (`HasStage`), that what it was
given is there (`HasClosure`), and that only children change configurations
(`ConfigKept`).  From the ASSUMEs: there is a first version, the bounds are numbers,
and `None` is none of the values it stands for the absence of.

**AttemptSupervisorProofs**, for any attempt, threshold and clock: `ClosedIsGone`
(`[]ClosedMeansGone`) and `StoppedNeverPasses` (`[]PassIsUndisturbed`).  The properties
look at the closed attempt; the invariant follows the reason to it: the supervisor has
a reason whenever it stops the child, without one the child has left the loop by itself
(`StoppedInv`), and the group that `Close` found empty stays so, because only the leader
starts processes (`ClosedInv`).  `TakeoverMustBeEarned` is the action property
`TakeoverIsEarned`: what the supervisor has noticed is not younger than the last progress
it counts, but for the time of one round (`WrittenInv`); a round reads the clock once, and
a count of silent probes is one of a silence that has lasted (`ClockInv`); and the CPU times
that `ps` showed at the last probes are those of what had been computed by then, so that two
silent probes leave less than one grain (`IdleInv`).

Model-checked only, on the bounds above:

* the liveness properties (`QueueCatchesUp`, `LandedIsAdopted`, `Ends`,
  `PreparationEnds`), which are out of TLAPS's reach;
* the counterexamples of the four runs that expect a violation, which are about single
  behaviours.

Every safety invariant and every action property of the passing runs has a theorem.

## Not modelled

* Main-unit transaction: diagnostic events (no command reads them), the
  `main_unit_revision` counter (written, compared by nothing but the repair),
  `execution_mode=isolated_worktree`.
* Git: the reuse of a worktree that `prepare_execution_worktree` finds; the index.
* Plan records: the rendering of `queue.md`, plan creation, torn `log.md`.
* Attempt ledger: the content rules of adoption, the event stream.
* Runner: prompt files, the prompt-only mode, the hand-off of a unit to a main-unit
  transaction, the upgrade of legacy releases, source drift (an early return).
* Git: renames (`git diff --name-only` shows the new path of a rename only, so that a
  release that renames is a mismatch of its paths, like one in another order).
* PRs and inbox: the dry-run text, the log of lock resolutions, requests that are ticket
  rows or free text; two processes.
* Supervisor: the buffering and redaction of output beyond whether it fails; markers of
  an earlier run of the same attempt number.
* Execution policy: the regular expressions; verification specifications, which nothing
  in the program calls.
* Child runtime: the inventory protocol with the app server, the nonce file and its
  claims, the reading of environment variables.
* The implementer, planner and merge agents build a prompt and read a status line; their
  results are inputs.  Source plans, tickets and extraction are text processing without
  concurrency.  The command line parses and dispatches; its commands without state that
  another command reads (init, tickets, reports) are left out.  Reporting renders files.

## Plan

Done: the models of all components, and theorems for every safety and action property of
the passing runs and for both refinements.  Left:

1. AttemptSupervisor: `TypeOK`, for the whole of its variables; the proofs use the types
   of the parts they need.
2. MainUnit with two plans: what remains of `AtMostOneCommit` when the checkout is
   switched, that is, one commit per attempt on each branch.
3. UnitExecution: which of the releases that die are finished by the next run, as a safety
   property of the ledgers that recovery takes up.
