------------------------------ MODULE MainUnit ------------------------------
(***************************************************************************)
(* The main-unit transaction (codex_flow/main_unit.py): the commands       *)
(* begin-main-unit, complete-main-unit and hold-main-unit with which the   *)
(* coordinating agent locks a commit unit, implements it in the checkout   *)
(* and has exactly its allowed paths committed.                            *)
(*                                                                         *)
(* A command is a process that takes one step per file or repository it    *)
(* reads or writes: the ledger of the attempt (revision compare-and-set),  *)
(* the plan's queue.json and log.md (whole-file writes) and the Git        *)
(* checkout.  Commands of several processes interleave, a process may die  *)
(* before any step, and the checkout is edited and committed to by others  *)
(* at any time.  Diagnostic events are left out: no command reads them.    *)
(***************************************************************************)
EXTENDS Worktree, PlanRecords

CONSTANTS
    Procs,          \* processes that run the commands
    Allowed,        \* the allowed paths of every unit
    FailureClasses, \* the classes a coordinator holds a unit with
    MaxAttempts,    \* bound: attempts per unit
    MaxCrashes      \* bound: processes that die in the middle of a command

ASSUME AllowedAssumption == Allowed \in [Units -> (SUBSET Paths) \ {{}}]
ASSUME BranchesAssumption == Branches = Plans \cup {Trunk} /\ Trunk \notin Plans
ASSUME MaxAttemptsAssumption == MaxAttempts \in Nat \ {0}
ASSUME MaxCrashesAssumption == MaxCrashes \in Nat
ASSUME UnitsAssumption == Units # {}

VARIABLES
    ledger,     \* the attempt ledgers, by unit and attempt number
    proc,       \* the command every process is running, and its locals
    crashes     \* processes that have died so far

vars == <<work, branch, tips, commits, edits, queue, log, ledger, proc, crashes>>

Attempts == 1..MaxAttempts
NewScope == "repairable_new_scope"
Protocol == "protocol"

\* Revisions a ledger goes through: open, committing, completed or held.
Revisions == 1..3

\* A ledger file that has not been written.  "kind" tells the two digests of
\* a candidate apart: that of the scoped diff and that of a binary patch.
NoRecord == [rev |-> 0, status |-> "absent", head |-> 0, outside |-> NoDiff,
             kind |-> "none", paths |-> {}, candidate |-> NoDiff,
             message |-> "", class |-> "", commit |-> 0]

AnyUnit == CHOOSE u \in Units : TRUE

\* A process that runs no command.  The locals of a command: the unit, its
\* copy of the queue and of the log, the attempt whose ledger it uses, the
\* snapshot it loaded, the paths to commit and the commit it observed.
Idle == [pc |-> "idle", unit |-> AnyUnit, view |-> [u \in Units |-> Fresh],
         lines |-> {}, attempt |-> 1, seen |-> NoRecord, paths |-> {},
         commit |-> 0]

Init ==
    /\ WorktreeInit
    /\ RecordsInit
    /\ ledger = [u \in Units |-> [a \in Attempts |-> NoRecord]]
    /\ proc = [p \in Procs |-> Idle]
    /\ crashes = 0

-----------------------------------------------------------------------------
(* A command and its locals *)

At(p, step) == proc[p].pc = step
UnitOf(p) == proc[p].unit
PlanFor(p) == PlanOf[UnitOf(p)]
ViewOf(p) == proc[p].view[UnitOf(p)]
OutOfScope(u) == Paths \ Allowed[u]

Become(p, local) == proc' = [proc EXCEPT ![p] = local]
Goto(p, step) == Become(p, [proc[p] EXCEPT !.pc = step])

\* The command returns or raises; what it has written stays.
Return(p) == Become(p, Idle)

\* load_queue, its first half: read the log and the queue file.
Load(p, u, step) ==
    Become(p, [Idle EXCEPT !.pc = step, !.unit = u,
                           !.view = Synced(PlanOf[u], queue, log[PlanOf[u]])])

\* Write the process's copy of the queue file, then continue with local.
Save(p, step, local) ==
    /\ At(p, step)
    /\ SaveQueue(PlanFor(p), proc[p].view)
    /\ Become(p, local)
    /\ UNCHANGED <<worktreeVars, log, ledger, crashes>>

\* _append_plan_log, in its two halves.
ReadLog(p, step, next) ==
    /\ At(p, step)
    /\ Become(p, [proc[p] EXCEPT !.pc = next, !.lines = log[PlanFor(p)]])
    /\ UNCHANGED <<worktreeVars, recordVars, ledger, crashes>>

AppendLog(p, step, added) ==
    /\ At(p, step)
    /\ WriteLog(PlanFor(p), proc[p].lines \cup added)
    /\ Return(p)
    /\ UNCHANGED <<worktreeVars, queue, ledger, crashes>>

-----------------------------------------------------------------------------
(* The ledger *)

\* _current_ledger_path: the attempt the queue points to.
CurrentAttempt(entry) == IF entry.attempt = 0 THEN 1 ELSE entry.attempt

\* _latest_main_ledger_path: the newest attempt with a ledger, whether or not
\* the queue points to it.
LatestAttempt(u, entry) ==
    LET written == {a \in Attempts : ledger[u][a].rev > 0}
    IN  IF written = {} THEN CurrentAttempt(entry)
        ELSE CHOOSE a \in written : \A b \in written : b <= a

\* Mutant: the record is written whatever the revision.
CompareAndSetBlind(u, a, rev, record) ==
    ledger' = [ledger EXCEPT ![u][a] = [record EXCEPT !.rev = rev + 1]]

\* AttemptLedger.compare_and_set: the check and the write are one step.
CompareAndSet(u, a, rev, record) ==
    /\ ledger[u][a].rev = rev
    /\ ledger' = [ledger EXCEPT ![u][a] = [record EXCEPT !.rev = rev + 1]]

\* LedgerConflict: the command ends without having written anything.
LedgerConflict(p, a, rev) ==
    /\ ledger[UnitOf(p)][a].rev # rev
    /\ Return(p)
    /\ UNCHANGED ledger

\* Mutant: a prepared commit counts as done.
ReconciledEarly(record, a) ==
    Entry(CASE record.status = "held" -> "needs_work"
            [] record.status \in {"committing", "completed"} -> "done"
            [] OTHER -> "in_progress", a, record.rev)

\* Mutant: a completed transaction is repaired like an active one.
ReconciledAsActive(record, a) ==
    Entry(IF record.status = "held" THEN "needs_work" ELSE "in_progress", a, record.rev)

\* The queue entry that _reconcile_active, _reconcile_held and
\* _reconcile_completed derive from a ledger.
Reconciled(record, a) ==
    Entry(CASE record.status = "held" -> "needs_work"
            [] record.status = "completed" -> "done"
            [] OTHER -> "in_progress", a, record.rev)

\* The local state in which the entry of the process's unit is entry.
WithEntry(local, entry) == [local EXCEPT !.view[local.unit] = entry]

\* Mutant: neither the paths nor the content of the commit are compared.
MatchesParentAndMessage(c, record) ==
    /\ c \in 1..Len(commits)
    /\ commits[c].parent = record.head
    /\ commits[c].message = record.message

\* _commit_mismatch finds nothing: the commit has the parent, the paths, the
\* content and the message of the sealed candidate.
Matches(c, record) ==
    /\ c \in 1..Len(commits)
    /\ commits[c].parent = record.head
    /\ DOMAIN Changes(record.head, Tree(c), Paths) = record.paths
    /\ Changes(record.head, Tree(c), record.paths) = record.candidate
    /\ commits[c].message = record.message

-----------------------------------------------------------------------------
(* begin-main-unit.  An argument of a command is chosen in the step that    *)
(* first uses it.                                                           *)

BeginLoad(p) ==
    /\ At(p, "idle")
    /\ \E u \in Units : Load(p, u, "begin_sync")
    /\ UNCHANGED <<worktreeVars, recordVars, ledger, crashes>>

BeginSync(p) == Save(p, "begin_sync", [proc[p] EXCEPT !.pc = "begin_inspect"])

\* Load the newest ledger.  One that is open, committing or completed is
\* returned as it is, once the queue agrees with it; a held one is brought
\* back into the queue and then may be retried.
BeginInspect(p) ==
    /\ At(p, "begin_inspect")
    /\ LET a == LatestAttempt(UnitOf(p), ViewOf(p))
           record == ledger[UnitOf(p)][a]
           agrees == ViewOf(p) = Reconciled(record, a)
           local == [proc[p] EXCEPT !.attempt = a, !.seen = record]
           repaired == WithEntry(local, Reconciled(record, a))
       IN  \/ /\ record.status \in {"open", "committing", "completed"}
              /\ IF agrees THEN Return(p)
                 ELSE Become(p, [repaired EXCEPT !.pc = "begin_repair"])
           \/ /\ record.status = "held"
              /\ IF agrees THEN Become(p, [local EXCEPT !.pc = "begin_branch"])
                 ELSE Become(p, [repaired EXCEPT !.pc = "begin_repair_held"])
           \/ /\ record.status = "absent"
              /\ Become(p, [local EXCEPT !.pc = "begin_branch"])
    /\ UNCHANGED <<worktreeVars, recordVars, ledger, crashes>>

BeginRepair(p) == Save(p, "begin_repair", Idle)

BeginRepairHeld(p) ==
    Save(p, "begin_repair_held", [proc[p] EXCEPT !.pc = "begin_branch"])

\* A unit that is done or in progress is refused, and a held one without
\* --retry-held; so is every unit while another plan runs in this checkout,
\* or when leaving the current branch would carry edits along.
BeginBranch(p) ==
    LET plan == PlanFor(p)
        admitted == ViewOf(p).status \in {"ready", "needs_work"}
        blocked == ConflictingPlan(plan) \/ (branch # plan /\ Dirty(Paths) # {})
    IN  /\ At(p, "begin_branch")
        /\ \/ /\ admitted /\ ~blocked
              /\ IF branch = plan THEN UNCHANGED worktreeVars ELSE PrepareBranch(plan)
              /\ Goto(p, "begin_check")
           \/ /\ ~admitted \/ blocked \/ ViewOf(p).status = "needs_work" \* no --retry-held
              /\ Return(p)
              /\ UNCHANGED worktreeVars
        /\ UNCHANGED <<recordVars, ledger, crashes>>

\* The number of the attempt a begin opens.
NextAttempt(p) == ViewOf(p).attempt + 1

\* The held candidate is still in the checkout, on the same HEAD.
CandidateKept(u, record) ==
    /\ record.status = "held"
    /\ record.class # NewScope
    /\ record.kind = "scoped"
    /\ record.candidate = Diff(Allowed[u])
    /\ record.outside = Diff(OutOfScope(u))
    /\ record.head = HeadCommit

BeginCheck(p) ==
    LET u == UnitOf(p)
        startable == IF ViewOf(p).status = "needs_work"
                     THEN CandidateKept(u, ledger[u][proc[p].attempt])
                     ELSE Dirty(Paths) = {}
    IN  /\ At(p, "begin_check")
        /\ IF startable /\ NextAttempt(p) \in Attempts
           THEN Become(p, [proc[p] EXCEPT !.pc = "begin_open", !.attempt = NextAttempt(p)])
           ELSE Return(p)
        /\ UNCHANGED <<worktreeVars, recordVars, ledger, crashes>>

\* Read HEAD and the out-of-scope digest and open the ledger with them.
BeginOpen(p) ==
    LET u == UnitOf(p)
        a == proc[p].attempt
        record == [NoRecord EXCEPT !.status = "open", !.head = HeadCommit,
                                   !.outside = Diff(OutOfScope(u))]
        local == [proc[p] EXCEPT !.pc = "begin_save"]
    IN  /\ At(p, "begin_open")
        /\ \/ /\ CompareAndSet(u, a, 0, record)
              /\ Become(p, WithEntry(local, Entry("in_progress", a, 1)))
           \/ LedgerConflict(p, a, 0)
        /\ UNCHANGED <<worktreeVars, recordVars, crashes>>

BeginSave(p) == Save(p, "begin_save", [proc[p] EXCEPT !.pc = "begin_log_read"])
BeginLogRead(p) == ReadLog(p, "begin_log_read", "begin_log_write")
\* The line it appends ("Started main commit unit") is no status line.
BeginLogWrite(p) == AppendLog(p, "begin_log_write", {})

-----------------------------------------------------------------------------
(* complete-main-unit                                                       *)

CompleteLoad(p) ==
    /\ At(p, "idle")
    /\ \E u \in Units : Load(p, u, "complete_sync")
    /\ UNCHANGED <<worktreeVars, recordVars, ledger, crashes>>

CompleteSync(p) == Save(p, "complete_sync", [proc[p] EXCEPT !.pc = "complete_inspect"])

\* The caller names the revision, and the message once more when it resumes
\* a commit that was already prepared.
CompleteInspect(p) ==
    /\ At(p, "complete_inspect")
    /\ LET a == CurrentAttempt(ViewOf(p))
           record == ledger[UnitOf(p)][a]
           local == [proc[p] EXCEPT !.attempt = a, !.seen = record]
       IN  \E expected \in Revisions :
              \/ /\ record.rev # expected \/ record.status \in {"absent", "held"}
                 /\ Return(p)
              \/ /\ record.rev = expected /\ record.status = "completed"
                 /\ IF ViewOf(p) = Reconciled(record, a) THEN Return(p)
                    ELSE Become(p, [WithEntry(local, Reconciled(record, a))
                                       EXCEPT !.pc = "complete_repair"])
              \/ /\ record.rev = expected /\ record.status = "committing"
                 /\ \E message \in Messages :
                       IF message # record.message THEN Return(p)
                       ELSE Become(p, [local EXCEPT !.pc = "finish_check"])
              \/ /\ record.rev = expected /\ record.status = "open"
                 /\ Become(p, [local EXCEPT !.pc = "complete_verify"])
    /\ UNCHANGED <<worktreeVars, recordVars, ledger, crashes>>

CompleteRepair(p) == Save(p, "complete_repair", Idle)

\* Mutant: everything dirty is committed.
CompleteVerifyEverything(p) ==
    LET u == UnitOf(p)
        accepted == /\ HeadCommit = proc[p].seen.head
                    /\ Diff(OutOfScope(u)) = proc[p].seen.outside
                    /\ Dirty(Allowed[u]) # {}
    IN  /\ At(p, "complete_verify")
        /\ \E evidencePasses \in BOOLEAN :
              IF accepted /\ evidencePasses
              THEN Become(p, [proc[p] EXCEPT !.pc = "complete_seal",
                                             !.paths = Dirty(Paths)])
              ELSE Return(p)
        /\ UNCHANGED <<worktreeVars, recordVars, ledger, crashes>>

\* HEAD has not moved, the evidence passes, nothing changed out of scope and
\* something changed in scope.
CompleteVerify(p) ==
    LET u == UnitOf(p)
        accepted == /\ HeadCommit = proc[p].seen.head
                    /\ Diff(OutOfScope(u)) = proc[p].seen.outside
                    /\ Dirty(Allowed[u]) # {}
    IN  /\ At(p, "complete_verify")
        /\ \E evidencePasses \in BOOLEAN :
              IF accepted /\ evidencePasses
              THEN Become(p, [proc[p] EXCEPT !.pc = "complete_seal",
                                             !.paths = Dirty(Allowed[u])])
              ELSE Return(p)
        /\ UNCHANGED <<worktreeVars, recordVars, ledger, crashes>>

\* Digest the candidate and seal it in the ledger.
CompleteSeal(p) ==
    LET seen == proc[p].seen
        paths == proc[p].paths
    IN  /\ At(p, "complete_seal")
        /\ \/ \E message \in Messages :
                 LET sealed == [seen EXCEPT !.status = "committing", !.kind = "patch",
                                            !.paths = paths,
                                            !.candidate = Changes(seen.head, work, paths),
                                            !.message = message]
                 IN  /\ CompareAndSet(UnitOf(p), proc[p].attempt, seen.rev, sealed)
                     /\ Become(p, [proc[p] EXCEPT !.pc = "finish_check", !.paths = {},
                                          !.seen = [sealed EXCEPT !.rev = seen.rev + 1]])
           \/ LedgerConflict(p, proc[p].attempt, seen.rev)
        /\ UNCHANGED <<worktreeVars, recordVars, crashes>>

\* Mutant: any commit on the expected parent is taken for the candidate's.
JudgeByParent(p) ==
    IF commits[HeadCommit].parent = proc[p].seen.head
    THEN Become(p, [proc[p] EXCEPT !.pc = "finish_complete", !.commit = HeadCommit])
    ELSE Goto(p, "protocol_hold")

\* _commit_mismatch decides between completing and holding.
Judge(p) ==
    IF Matches(HeadCommit, proc[p].seen)
    THEN Become(p, [proc[p] EXCEPT !.pc = "finish_complete", !.commit = HeadCommit])
    ELSE Goto(p, "protocol_hold")

\* Mutant: the commit is made again without a look at HEAD.
FinishCheckWithoutHead(p) ==
    LET seen == proc[p].seen
    IN  /\ At(p, "finish_check")
        /\ IF Diff(OutOfScope(UnitOf(p))) # seen.outside THEN Goto(p, "protocol_hold")
           ELSE Goto(p, "finish_stage")
        /\ UNCHANGED <<worktreeVars, recordVars, ledger, crashes>>

\* Mutant: the out-of-scope comparison comes first.
FinishCheckScopeFirst(p) ==
    LET seen == proc[p].seen
    IN  /\ At(p, "finish_check")
        /\ IF Diff(OutOfScope(UnitOf(p))) # seen.outside THEN Goto(p, "protocol_hold")
           ELSE IF HeadCommit # seen.head THEN Judge(p)
           ELSE Goto(p, "finish_stage")
        /\ UNCHANGED <<worktreeVars, recordVars, ledger, crashes>>

\* HEAD still at the expected parent: nothing was committed yet.  Otherwise a
\* commit was, by an earlier run of this command or by somebody else.
FinishCheck(p) ==
    LET seen == proc[p].seen
    IN  /\ At(p, "finish_check")
        /\ IF HeadCommit # seen.head THEN Judge(p)
           ELSE IF Diff(OutOfScope(UnitOf(p))) # seen.outside THEN Goto(p, "protocol_hold")
           ELSE Goto(p, "finish_stage")
        /\ UNCHANGED <<worktreeVars, recordVars, ledger, crashes>>

\* git add fails on a path that is neither in the checkout nor in the index:
\* one that was created and is gone again.
GitAddFails(p) ==
    /\ \E x \in proc[p].seen.paths : work[x] = Original /\ Tree(HeadCommit)[x] = Original
    /\ Return(p)

\* Stage the paths and compare the staged patch with the sealed candidate.
FinishStage(p) ==
    LET seen == proc[p].seen
        staged == Changes(seen.head, work, seen.paths)
    IN  /\ At(p, "finish_stage")
        /\ \/ GitAddFails(p)
           \/ Goto(p, IF staged = seen.candidate THEN "finish_commit" ELSE "protocol_hold")
        /\ UNCHANGED <<worktreeVars, recordVars, ledger, crashes>>

\* commit_paths commits what the checkout holds by now, or fails: nothing is
\* left to commit, a hook refuses the commit.
FinishCommit(p) ==
    LET seen == proc[p].seen
    IN  /\ At(p, "finish_commit")
        /\ \/ /\ CommitPaths(seen.paths, seen.message, <<UnitOf(p), proc[p].attempt>>)
              /\ Goto(p, "finish_observe")
              /\ UNCHANGED edits
           \/ Return(p) /\ UNCHANGED worktreeVars
        /\ UNCHANGED <<recordVars, ledger, crashes>>

FinishObserve(p) ==
    /\ At(p, "finish_observe")
    /\ Judge(p)
    /\ UNCHANGED <<worktreeVars, recordVars, ledger, crashes>>

\* Mutant: the commit recorded is read from HEAD once more.
FinishCompleteRereading(p) ==
    LET seen == proc[p].seen
        completed == [seen EXCEPT !.status = "completed", !.commit = HeadCommit]
        entry == Entry("done", proc[p].attempt, seen.rev + 1)
    IN  /\ At(p, "finish_complete")
        /\ \/ /\ CompareAndSet(UnitOf(p), proc[p].attempt, seen.rev, completed)
              /\ Become(p, WithEntry([proc[p] EXCEPT !.pc = "finish_save"], entry))
           \/ LedgerConflict(p, proc[p].attempt, seen.rev)
        /\ UNCHANGED <<worktreeVars, recordVars, crashes>>

FinishComplete(p) ==
    LET seen == proc[p].seen
        completed == [seen EXCEPT !.status = "completed", !.commit = proc[p].commit]
        entry == Entry("done", proc[p].attempt, seen.rev + 1)
    IN  /\ At(p, "finish_complete")
        /\ \/ /\ CompareAndSet(UnitOf(p), proc[p].attempt, seen.rev, completed)
              /\ Become(p, WithEntry([proc[p] EXCEPT !.pc = "finish_save"], entry))
           \/ LedgerConflict(p, proc[p].attempt, seen.rev)
        /\ UNCHANGED <<worktreeVars, recordVars, crashes>>

FinishSave(p) == Save(p, "finish_save", [proc[p] EXCEPT !.pc = "finish_log_read"])
FinishLogRead(p) == ReadLog(p, "finish_log_read", "finish_log_write")
FinishLogWrite(p) == AppendLog(p, "finish_log_write", {<<UnitOf(p), "Completed">>})

\* The queue entry of a unit that was just held.
HeldEntry(p, rev) == [ViewOf(p) EXCEPT !.status = "needs_work", !.rev = rev]

\* _hold_committing_protocol: the state of the commit is ambiguous.
ProtocolHold(p) ==
    LET seen == proc[p].seen
        held == [seen EXCEPT !.status = "held", !.class = Protocol]
        local == [proc[p] EXCEPT !.pc = "protocol_save"]
    IN  /\ At(p, "protocol_hold")
        /\ \/ /\ CompareAndSet(UnitOf(p), proc[p].attempt, seen.rev, held)
              /\ Become(p, WithEntry(local, HeldEntry(p, seen.rev + 1)))
           \/ LedgerConflict(p, proc[p].attempt, seen.rev)
        /\ UNCHANGED <<worktreeVars, recordVars, crashes>>

ProtocolSave(p) == Save(p, "protocol_save", Idle)

-----------------------------------------------------------------------------
(* hold-main-unit                                                           *)

HoldLoad(p) ==
    /\ At(p, "idle")
    /\ \E u \in Units : Load(p, u, "hold_sync")
    /\ UNCHANGED <<worktreeVars, recordVars, ledger, crashes>>

HoldSync(p) == Save(p, "hold_sync", [proc[p] EXCEPT !.pc = "hold_inspect"])

HoldInspect(p) ==
    /\ At(p, "hold_inspect")
    /\ LET a == CurrentAttempt(ViewOf(p))
           record == ledger[UnitOf(p)][a]
       IN  \E expected \in Revisions :
              IF record.rev = expected /\ record.status = "open"
              THEN Become(p, [proc[p] EXCEPT !.pc = "hold_record", !.attempt = a,
                                             !.seen = record])
              ELSE Return(p)
    /\ UNCHANGED <<worktreeVars, recordVars, ledger, crashes>>

\* The candidate stays in the checkout; the ledger keeps its scoped digest.
HoldRecord(p) ==
    LET seen == proc[p].seen
        local == [proc[p] EXCEPT !.pc = "hold_save"]
        inScope == Allowed[UnitOf(p)]
    IN  /\ At(p, "hold_record")
        /\ \/ /\ \E class \in FailureClasses :
                    CompareAndSet(UnitOf(p), proc[p].attempt, seen.rev,
                        [seen EXCEPT !.status = "held", !.class = class, !.kind = "scoped",
                                     !.paths = Dirty(inScope), !.candidate = Diff(inScope)])
              /\ Become(p, WithEntry(local, HeldEntry(p, seen.rev + 1)))
           \/ LedgerConflict(p, proc[p].attempt, seen.rev)
        /\ UNCHANGED <<worktreeVars, recordVars, crashes>>

HoldSave(p) == Save(p, "hold_save", [proc[p] EXCEPT !.pc = "hold_log_read"])
HoldLogRead(p) == ReadLog(p, "hold_log_read", "hold_log_write")
HoldLogWrite(p) == AppendLog(p, "hold_log_write", {<<UnitOf(p), "needs_work">>})

-----------------------------------------------------------------------------

\* The process dies; the next command starts from the files.
Crash(p) ==
    /\ ~At(p, "idle")
    /\ crashes < MaxCrashes
    /\ crashes' = crashes + 1
    /\ Return(p)
    /\ UNCHANGED <<worktreeVars, recordVars, ledger>>

Begin(p) ==
    \/ BeginLoad(p) \/ BeginSync(p) \/ BeginInspect(p) \/ BeginRepair(p)
    \/ BeginRepairHeld(p) \/ BeginBranch(p) \/ BeginCheck(p) \/ BeginOpen(p)
    \/ BeginSave(p) \/ BeginLogRead(p) \/ BeginLogWrite(p)

Complete(p) ==
    \/ CompleteLoad(p) \/ CompleteSync(p) \/ CompleteInspect(p) \/ CompleteRepair(p)
    \/ CompleteVerify(p) \/ CompleteSeal(p) \/ FinishCheck(p) \/ FinishStage(p)
    \/ FinishCommit(p) \/ FinishObserve(p) \/ FinishComplete(p) \/ FinishSave(p)
    \/ FinishLogRead(p) \/ FinishLogWrite(p) \/ ProtocolHold(p) \/ ProtocolSave(p)

Hold(p) ==
    \/ HoldLoad(p) \/ HoldSync(p) \/ HoldInspect(p) \/ HoldRecord(p)
    \/ HoldSave(p) \/ HoldLogRead(p) \/ HoldLogWrite(p)

\* Edits and commits made by anybody outside these commands.
Environment ==
    /\ (\E x \in Paths : Edit(x)) \/ OutsideCommit
    /\ UNCHANGED <<recordVars, ledger, proc, crashes>>

Next ==
    \/ \E p \in Procs : Begin(p) \/ Complete(p) \/ Hold(p) \/ Crash(p)
    \/ Environment

Spec == Init /\ [][Next]_vars

-----------------------------------------------------------------------------
(* Types                                                                    *)

Diffs == UNION {[S -> Contents] : S \in SUBSET Paths}
Entries == [status : UnitStatuses, attempt : 0..MaxAttempts, rev : Nat]
Trees == [Paths -> Contents]
Commits == [parent : Nat, tree : Trees, message : Messages \cup {""},
            author : (Units \X Attempts) \cup {Outsider}]
Statuses == {"absent", "open", "committing", "completed", "held"}
Records == [rev : Nat, status : Statuses, head : Nat, outside : Diffs,
            kind : {"none", "patch", "scoped"}, paths : SUBSET Paths,
            candidate : Diffs, message : Messages \cup {""},
            class : FailureClasses \cup {"", Protocol}, commit : Nat]
Steps ==
    {"idle", "begin_sync", "begin_inspect", "begin_repair", "begin_repair_held",
     "begin_branch", "begin_check", "begin_open", "begin_save", "begin_log_read",
     "begin_log_write", "complete_sync", "complete_inspect", "complete_repair",
     "complete_verify", "complete_seal", "finish_check", "finish_stage",
     "finish_commit", "finish_observe", "finish_complete", "finish_save",
     "finish_log_read", "finish_log_write", "protocol_hold", "protocol_save",
     "hold_sync", "hold_inspect", "hold_record", "hold_save", "hold_log_read",
     "hold_log_write"}
Locals == [pc : Steps, unit : Units, view : [Units -> Entries], lines : SUBSET Lines,
           attempt : Attempts, seen : Records, paths : SUBSET Paths, commit : Nat]

\* Every variable has its type: the files hold what the code writes to them.
TypeOK ==
    /\ work \in Trees
    /\ branch \in Branches
    /\ commits \in Seq(Commits)
    /\ tips \in [Branches -> {NoTip} \cup 0..Len(commits)]
    /\ tips[branch] # NoTip
    /\ queue \in [Units -> Entries]
    /\ log \in [Plans -> SUBSET Lines]
    /\ ledger \in [Units -> [Attempts -> Records]]
    /\ proc \in [Procs -> Locals]
    /\ crashes \in 0..MaxCrashes
    /\ edits \in 0..MaxEdits

-----------------------------------------------------------------------------
(* Safety                                                                   *)

\* A unit is recorded as completed only with a commit that has exactly the
\* parent, paths, content and message that complete_main_unit sealed, whatever
\* was edited or committed between the seal, git commit and the verification.
CompletedIsCandidate ==
    \A u \in Units, a \in Attempts :
        ledger[u][a].status = "completed" => Matches(ledger[u][a].commit, ledger[u][a])

\* Attempts of a unit come one at a time: whenever an attempt has a ledger,
\* every earlier one was held.  No two begins open two transactions, from
\* however old a copy of the queue they number the attempt.
OneAttemptAtATime ==
    \A u \in Units, a, b \in Attempts :
        a < b /\ ledger[u][b].rev > 0 => ledger[u][a].status = "held"

\* Neither the queue nor the log runs ahead of the ledger: a unit that either
\* of them shows as done has a completed transaction.
NoPrematureCompletion ==
    \A u \in Units :
        queue[u].status = "done" \/ <<u, "Completed">> \in log[PlanOf[u]]
            => \E a \in Attempts : ledger[u][a].status = "completed"

\* A commit that complete_main_unit makes touches allowed paths of the unit
\* only, although the paths are computed long before the commit.
CommitsInScope ==
    \A c \in 1..Len(commits) :
        commits[c].author # Outsider =>
            DOMAIN Changes(commits[c].parent, Tree(c), Paths) \subseteq Allowed[commits[c].author[1]]

\* One attempt makes at most one commit, however often its completion is
\* interrupted and resumed.  Holds when the commands are run one at a time.
AtMostOneCommit ==
    \A c, d \in 1..Len(commits) :
        commits[c].author = commits[d].author /\ commits[c].author # Outsider => c = d

\* A commit that landed exactly as it was sealed is never given up: when its
\* attempt is held all the same, somebody committed on top of it before the
\* interrupted completion was resumed.  Holds for commands run one at a time.
LandedIsRecognised ==
    \A u \in Units, a \in Attempts, c \in 1..Len(commits) :
        /\ ledger[u][a].status = "held" /\ commits[c].author = <<u, a>>
        /\ Matches(c, ledger[u][a])
        => \E d \in 1..Len(commits) : commits[d].parent = c

\* Two units opened on the same HEAD may complete with one commit: nothing in the
\* code tells whose it is when their candidates agree.  It never lets one of
\* them do what it could not have done itself: the commit changes something, and
\* only paths that both are allowed to touch.
SharedInScope ==
    \A u, v \in Units, a, b \in Attempts :
        /\ ledger[u][a].status = "completed" /\ ledger[v][b].status = "completed"
        /\ ledger[u][a].commit = ledger[v][b].commit
        => LET c == ledger[u][a].commit
               changed == DOMAIN Changes(commits[c].parent, Tree(c), Paths)
           IN  changed # {} /\ changed \subseteq Allowed[u] \cap Allowed[v]

-----------------------------------------------------------------------------
(* The abstract transaction                                                 *)

Written(u) == {a \in Attempts : ledger[u][a].rev > 0}
Newest(u) == LatestAttempt(u, Fresh)
NewestRecord(u) == ledger[u][Newest(u)]
NoCandidate == [parent |-> NoTip, patch |-> NoDiff, message |-> ""]

Transaction == INSTANCE UnitTransaction WITH
    Candidates <- [parent : Nat, patch : Diffs, message : Messages],
    stage <- [u \in Units |-> NewestRecord(u).status],
    attempt <- [u \in Units |-> IF Written(u) = {} THEN 0 ELSE Newest(u)],
    sealed <- [u \in Units |->
                 IF NewestRecord(u).status \in {"committing", "completed"}
                 THEN [parent |-> NewestRecord(u).head, patch |-> NewestRecord(u).candidate,
                       message |-> NewestRecord(u).message]
                 ELSE NoCandidate],
    landed <- [u \in Units |-> NewestRecord(u).commit],
    history <- [c \in 1..Len(commits) |->
                  [parent |-> commits[c].parent, message |-> commits[c].message,
                   patch |-> Changes(commits[c].parent, Tree(c), Paths)]]

\* The commands, interleaved and interrupted at any step, implement the
\* abstract transaction of every unit.
ImplementsTransaction == Transaction!Spec

-----------------------------------------------------------------------------
(* Liveness                                                                 *)

\* A command that has started goes on.
Continue(p) == ~At(p, "idle") /\ (Begin(p) \/ Complete(p) \/ Hold(p))

\* The coordinator runs begin and complete for a unit again and again, as it
\* is told to after an interruption, and a running command is not stopped
\* for ever.
BeginUnit(p, u) == BeginLoad(p) /\ proc'[p].unit = u
CompleteUnit(p, u) == CompleteLoad(p) /\ proc'[p].unit = u
Fairness ==
    /\ \A p \in Procs : WF_vars(Continue(p))
    /\ \A p \in Procs, u \in Units : SF_vars(BeginUnit(p, u)) /\ SF_vars(CompleteUnit(p, u))
FairSpec == Spec /\ Fairness

HasCompleted(u) == \E a \in Attempts : ledger[u][a].status = "completed"

\* A completion whose queue write was lost in a crash reaches the queue once
\* the commands are run again.
QueueCatchesUp == \A u \in Units : HasCompleted(u) ~> queue[u].status = "done"

\* A completed unit gets its line in log.md, the canonical completion record.
CompletedIsLogged ==
    \A u \in Units : HasCompleted(u) ~> <<u, "Completed">> \in log[PlanOf[u]]

-----------------------------------------------------------------------------
(* Several plans in one checkout                                            *)

Live(u) == \E a \in Attempts : ledger[u][a].status \in {"open", "committing"}

\* At most one plan executes in the checkout.
OneInPlacePlan == \A u, v \in Units : Live(u) /\ Live(v) => PlanOf[u] = PlanOf[v]
=============================================================================
