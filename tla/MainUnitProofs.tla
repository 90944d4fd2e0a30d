--------------------------- MODULE MainUnitProofs ---------------------------
(***************************************************************************)
(* Two theorems about MainUnit, for every value of its constants: its      *)
(* variables keep their types, and a unit is recorded as completed only    *)
(* with a commit that carries exactly the sealed candidate.                *)
(*                                                                         *)
(* The second needs three facts about what the steps rely on: commits      *)
(* point back to earlier commits (HistoryInv), the commit a process is     *)
(* about to record was judged against the snapshot it holds (JudgedInv),   *)
(* and judging does not go stale, because no commit is ever rewritten.     *)
(***************************************************************************)
EXTENDS MainUnit, TLAPS, WellFoundedInduction

\* A diff against a tree is a diff: a function on the paths that differ.
LEMMA ChangesType ==
    ASSUME NEW base, NEW tree \in Trees, NEW S \in SUBSET Paths
    PROVE  /\ Changes(base, tree, S) \in Diffs
           /\ DOMAIN Changes(base, tree, S) \subseteq S
  <1> DEFINE D == {x \in S : tree[x] # Tree(base)[x]}
  <1>1. D \in SUBSET Paths
    OBVIOUS
  <1>2. Changes(base, tree, S) \in [D -> Contents]
    BY <1>1 DEF Changes, Restrict, Trees
  <1>3. QED
    BY <1>1, <1>2 DEF Diffs

\* What git status and git diff report of the checkout is within the paths.
LEMMA DiffType ==
    ASSUME TypeOK, NEW S \in SUBSET Paths
    PROVE  /\ Dirty(S) \in SUBSET Paths
           /\ Diff(S) \in Diffs
  BY ChangesType DEF Dirty, Diff, TypeOK

\* Every commit, the initial one included, has a tree.
LEMMA TreeType ==
    ASSUME TypeOK, NEW c \in 0..Len(commits)
    PROVE  Tree(c) \in Trees
  <1>1. CASE c = 0
    BY <1>1, OriginalAssumption DEF Tree, InitialTree, Trees
  <1>2. CASE c # 0
    <2>1. c \in 1..Len(commits) /\ commits \in Seq(Commits)
      BY <1>2 DEF TypeOK
    <2>2. commits[c] \in Commits
      BY <2>1
    <2>3. QED
      BY <1>2, <2>2 DEF Tree, Commits
  <1>3. QED
    BY <1>1, <1>2

\* HEAD is a commit, because the branch checked out has a tip.
LEMMA HeadType ==
    ASSUME TypeOK
    PROVE  HeadCommit \in 0..Len(commits) /\ HeadCommit \in Nat
  <1>1. HeadCommit \in 0..Len(commits)
    BY DEF TypeOK, HeadCommit, NoTip
  <1>2. Len(commits) \in Nat
    BY DEF TypeOK
  <1>3. QED
    BY <1>1, <1>2

\* A ledger that was never written is a record.
LEMMA NoRecordType == NoRecord \in Records
  <1>1. NoDiff \in Diffs
    <2>1. NoDiff \in [{} -> Contents]
      BY DEF NoDiff
    <2>2. QED
      BY <2>1 DEF Diffs
  <1>2. QED
    BY <1>1 DEF NoRecord, Records, Statuses

\* The locals of a process that runs no command are locals.
LEMMA IdleType == Idle \in Locals
  <1>1. AnyUnit \in Units
    BY UnitsAssumption DEF AnyUnit
  <1>2. Fresh \in Entries
    BY MaxAttemptsAssumption DEF Fresh, Entry, Entries, UnitStatuses
  <1>3. 1 \in Attempts
    BY MaxAttemptsAssumption DEF Attempts
  <1>4. QED
    BY <1>1, <1>2, <1>3, NoRecordType DEF Idle, Locals, Steps

\* Of the attempts that have a ledger one is the newest.
LEMMA NewestExists ==
    ASSUME NEW W \in SUBSET Attempts, W # {}
    PROVE  \E a \in W : \A b \in W : b <= a
  <1> DEFINE left == {MaxAttempts - a : a \in W}
  <1>1. left # {} /\ left \in SUBSET Nat
    <2>1. \A a \in W : MaxAttempts - a \in Nat
      BY MaxAttemptsAssumption DEF Attempts
    <2>2. QED
      BY <2>1
  <1>2. PICK n \in left : \A m \in left : ~ (<<m, n>> \in OpToRel(<, Nat))
    BY <1>1, NatLessThanWellFounded, WFMin
  <1>3. PICK a \in W : n = MaxAttempts - a
    OBVIOUS
  <1>4. \A b \in W : b <= a
    <2> TAKE b \in W
    <2>1. ~ (MaxAttempts - b < MaxAttempts - a)
      BY <1>1, <1>2, <1>3 DEF OpToRel
    <2>2. QED
      BY <2>1, MaxAttemptsAssumption DEF Attempts
  <1>5. QED
    BY <1>4

\* _latest_main_ledger_path finds the newest ledger there is.
LEMMA LatestIsNewest ==
    ASSUME NEW u \in Units, NEW e, NEW b \in Attempts, ledger[u][b].rev > 0
    PROVE  /\ LatestAttempt(u, e) \in Attempts
           /\ ledger[u][LatestAttempt(u, e)].rev > 0
           /\ \A a \in Attempts : ledger[u][a].rev > 0 => a <= LatestAttempt(u, e)
  <1> DEFINE written == {a \in Attempts : ledger[u][a].rev > 0}
  <1>1. written # {}
    OBVIOUS
  <1>2. \E a \in written : \A c \in written : c <= a
    BY <1>1, NewestExists
  <1>3. LatestAttempt(u, e) = CHOOSE a \in written : \A c \in written : c <= a
    BY <1>1 DEF LatestAttempt
  <1>4. QED
    BY <1>2, <1>3

\* Without a ledger it is the attempt the queue points to.
LEMMA LatestIsCurrent ==
    ASSUME NEW u \in Units, NEW e, \A a \in Attempts : ~ (ledger[u][a].rev > 0)
    PROVE  LatestAttempt(u, e) = CurrentAttempt(e)
  BY DEF LatestAttempt

\* Either way it is an attempt.
LEMMA LatestAttemptType ==
    ASSUME TypeOK, NEW u \in Units, NEW e \in Entries
    PROVE  LatestAttempt(u, e) \in Attempts
  <1>1. CASE \E b \in Attempts : ledger[u][b].rev > 0
    BY <1>1, LatestIsNewest
  <1>2. CASE \A b \in Attempts : ~ (ledger[u][b].rev > 0)
    <2>1. CurrentAttempt(e) \in Attempts
      BY MaxAttemptsAssumption DEF CurrentAttempt, Entries, Attempts
    <2>2. QED
      BY <1>2, <2>1, LatestIsCurrent
  <1>3. QED
    BY <1>1, <1>2

\* _current_ledger_path finds an attempt.
LEMMA CurrentAttemptType ==
    ASSUME NEW e \in Entries
    PROVE  CurrentAttempt(e) \in Attempts
  BY MaxAttemptsAssumption DEF CurrentAttempt, Entries, Attempts

\* A queue entry built from a status, an attempt and a revision is one.
LEMMA EntryType ==
    ASSUME NEW s \in UnitStatuses, NEW a \in Attempts, NEW r \in Nat
    PROVE  Entry(s, a, r) \in Entries
  BY DEF Entry, Entries, Attempts

\* The entry that the _reconcile helpers derive is an entry.
LEMMA ReconciledType ==
    ASSUME NEW r \in Records, NEW a \in Attempts
    PROVE  Reconciled(r, a) \in Entries
  <1>1. r.rev \in Nat
    BY DEF Records
  <1>2. (CASE r.status = "held" -> "needs_work"
           [] r.status = "completed" -> "done"
           [] OTHER -> "in_progress") \in UnitStatuses
    BY DEF UnitStatuses
  <1>3. QED
    BY <1>1, <1>2, EntryType DEF Reconciled

\* Locals with another entry of the unit are locals.
LEMMA WithEntryType ==
    ASSUME NEW l \in Locals, NEW e \in Entries
    PROVE  WithEntry(l, e) \in Locals
  BY DEF WithEntry, Locals

\* Locals with another step are locals.
LEMMA StepType ==
    ASSUME NEW l \in Locals, NEW s \in Steps
    PROVE  [l EXCEPT !.pc = s] \in Locals
  BY DEF Locals

\* What a command reads of its locals has its type.
LEMMA LocalsAccess ==
    ASSUME TypeOK, NEW p \in Procs
    PROVE  /\ proc[p] \in Locals
           /\ UnitOf(p) \in Units
           /\ PlanFor(p) \in Plans
           /\ ViewOf(p) \in Entries
           /\ proc[p].seen \in Records
           /\ proc[p].attempt \in Attempts
           /\ proc[p].view \in [Units -> Entries]
           /\ proc[p].lines \in SUBSET Lines
           /\ proc[p].paths \in SUBSET Paths
           /\ proc[p].commit \in Nat
  <1>1. proc[p] \in Locals
    BY DEF TypeOK
  <1>2. QED
    BY <1>1, PlanOfAssumption DEF Locals, UnitOf, PlanFor, ViewOf

\* A process that takes new locals keeps the type of proc.
LEMMA BecomeType ==
    ASSUME TypeOK, NEW p \in Procs, NEW l \in Locals, Become(p, l)
    PROVE  proc' \in [Procs -> Locals]
  BY DEF TypeOK, Become

\* So does a process whose command returns.
LEMMA ReturnType ==
    ASSUME TypeOK, NEW p \in Procs, Return(p)
    PROVE  proc' \in [Procs -> Locals]
  BY IdleType, BecomeType DEF Return

\* So does a process that only goes on to another step.
LEMMA GotoType ==
    ASSUME TypeOK, NEW p \in Procs, NEW s \in Steps, Goto(p, s)
    PROVE  proc' \in [Procs -> Locals]
  BY BecomeType, LocalsAccess, StepType DEF Goto

\* A record with the next revision is a record.
LEMMA RevisionType ==
    ASSUME NEW r \in Records, NEW v \in Nat
    PROVE  [r EXCEPT !.rev = v + 1] \in Records
  <1>1. v + 1 \in Nat
    OBVIOUS
  <1>2. QED
    BY <1>1 DEF Records

\* compare_and_set keeps the type of the ledgers.
LEMMA CompareAndSetType ==
    ASSUME TypeOK, NEW u \in Units, NEW a \in Attempts, NEW v \in Nat,
           NEW r \in Records, CompareAndSet(u, a, v, r)
    PROVE  ledger' \in [Units -> [Attempts -> Records]]
  BY RevisionType DEF CompareAndSet, TypeOK

\* Writing a copy of the queue keeps the types.
LEMMA SaveType ==
    ASSUME TypeOK, NEW p \in Procs, NEW s, NEW l \in Locals, Save(p, s, l)
    PROVE  TypeOK'
  <1>1. queue' \in [Units -> Entries]
    BY LocalsAccess DEF Save, SaveQueue, TypeOK
  <1>2. proc' \in [Procs -> Locals]
    BY BecomeType DEF Save
  <1>3. QED
    BY <1>1, <1>2 DEF Save, TypeOK, worktreeVars

\* Reading the log keeps the types.
LEMMA ReadLogType ==
    ASSUME TypeOK, NEW p \in Procs, NEW s, NEW n \in Steps, ReadLog(p, s, n)
    PROVE  TypeOK'
  <1>1. log[PlanFor(p)] \in SUBSET Lines
    BY LocalsAccess DEF TypeOK
  <1>2. [proc[p] EXCEPT !.pc = n, !.lines = log[PlanFor(p)]] \in Locals
    BY <1>1, LocalsAccess DEF Locals
  <1>3. proc' \in [Procs -> Locals]
    BY <1>2, BecomeType DEF ReadLog
  <1>4. QED
    BY <1>3 DEF ReadLog, TypeOK, worktreeVars, recordVars

\* Appending to the log keeps the types.
LEMMA AppendLogType ==
    ASSUME TypeOK, NEW p \in Procs, NEW s, NEW added \in SUBSET Lines, AppendLog(p, s, added)
    PROVE  TypeOK'
  <1>1. log' \in [Plans -> SUBSET Lines]
    BY LocalsAccess DEF AppendLog, WriteLog, TypeOK
  <1>2. proc' \in [Procs -> Locals]
    BY ReturnType DEF AppendLog
  <1>3. QED
    BY <1>1, <1>2 DEF AppendLog, TypeOK, worktreeVars

\* load_queue gives a command its copy of the queue.
LEMMA LoadType ==
    ASSUME TypeOK, NEW p \in Procs, NEW u \in Units, NEW s \in Steps, Load(p, u, s)
    PROVE  proc' \in [Procs -> Locals]
  <1> DEFINE view == Synced(PlanOf[u], queue, log[PlanOf[u]])
  <1>1. Fresh \in Entries
    BY MaxAttemptsAssumption DEF Fresh, Entry, Entries, UnitStatuses
  <1>2. ASSUME NEW v \in Units
        PROVE  [queue[v] EXCEPT !.status = SyncedStatus(log[PlanOf[u]], v, @)] \in Entries
    BY DEF TypeOK, SyncedStatus, Entries, UnitStatuses
  <1>3. view \in [Units -> Entries]
    BY <1>1, <1>2 DEF Synced
  <1>4. [Idle EXCEPT !.pc = s, !.unit = u, !.view = view] \in Locals
    BY <1>3, IdleType DEF Locals
  <1>5. QED
    BY <1>4, BecomeType DEF Load

\* prepare_branch leaves a branch with a tip checked out.
LEMMA PrepareBranchType ==
    ASSUME TypeOK, NEW b \in Branches, PrepareBranch(b)
    PROVE  /\ work' \in Trees
           /\ branch' \in Branches
           /\ tips' \in [Branches -> {NoTip} \cup 0..Len(commits')]
           /\ tips'[branch'] # NoTip
           /\ UNCHANGED <<commits, edits>>
  <1>1. tips' \in [Branches -> {NoTip} \cup 0..Len(commits)] /\ tips'[b] # NoTip
    BY HeadType DEF PrepareBranch, TypeOK, NoTip
  <1>2. tips'[b] \in 0..Len(commits)
    BY <1>1
  <1>3. work' \in Trees
    BY <1>2, TreeType DEF PrepareBranch
  <1>4. QED
    BY <1>1, <1>3 DEF PrepareBranch

\* A history with one more commit is a history.
LEMMA AppendCommitType ==
    ASSUME TypeOK, NEW commit \in Commits
    PROVE  /\ Len(commits) \in Nat
           /\ Append(commits, commit) \in Seq(Commits)
           /\ Len(Append(commits, commit)) = Len(commits) + 1
  <1>1. commits \in Seq(Commits)
    BY DEF TypeOK
  <1>2. QED
    BY <1>1

\* The tips of n commits are tips of n + 1 commits.
LEMMA SuccessorRange ==
    ASSUME NEW n \in Nat
    PROVE  /\ n + 1 # NoTip
           /\ n + 1 \in 0..(n + 1)
           /\ 0..n \subseteq 0..(n + 1)
  BY DEF NoTip

\* commit_paths keeps the types of the repository.
LEMMA CommitPathsType ==
    ASSUME TypeOK, NEW S \in SUBSET Paths, NEW m \in Messages \cup {""},
           NEW author \in (Units \X Attempts) \cup {Outsider},
           CommitPaths(S, m, author)
    PROVE  /\ commits' \in Seq(Commits)
           /\ Len(commits') = Len(commits) + 1
           /\ tips' \in [Branches -> {NoTip} \cup 0..Len(commits')]
           /\ tips'[branch'] # NoTip
           /\ UNCHANGED <<work, branch>>
  <1>1. PICK commit \in Commits : commits' = Append(commits, commit)
    <2> DEFINE tree == [x \in Paths |-> IF x \in S THEN work[x] ELSE Tree(HeadCommit)[x]]
               commit == [parent |-> HeadCommit, message |-> Cleanup[m], author |-> author,
                          tree |-> tree]
    <2>1. HeadCommit \in Nat /\ Tree(HeadCommit) \in Trees
      BY HeadType, TreeType
    <2>2. tree \in Trees
      BY <2>1 DEF Trees, TypeOK
    <2>3. commit \in Commits
      BY <2>1, <2>2, CleanupAssumption DEF Commits
    <2>4. commits' = Append(commits, commit)
      BY DEF CommitPaths
    <2>5. QED
      BY <2>3, <2>4
  <1>2. Len(commits) \in Nat
    BY AppendCommitType, <1>1
  <1>3. commits' \in Seq(Commits) /\ Len(commits') = Len(commits) + 1
    BY <1>1, AppendCommitType
  <1>4. /\ tips' = [tips EXCEPT ![branch] = Len(commits) + 1]
        /\ UNCHANGED <<work, branch>>
    BY DEF CommitPaths
  <1>5. tips \in [Branches -> {NoTip} \cup 0..Len(commits)] /\ branch \in Branches
    BY DEF TypeOK
  <1>6. /\ Len(commits) + 1 \in 0..Len(commits')
        /\ 0..Len(commits) \subseteq 0..Len(commits')
    BY <1>2, <1>3, SuccessorRange
  <1>7. tips' \in [Branches -> {NoTip} \cup 0..Len(commits')]
    BY <1>4, <1>5, <1>6
  <1>8. tips'[branch'] = Len(commits) + 1
    BY <1>4, <1>5
  <1>9. Len(commits) + 1 # NoTip
    BY <1>2, SuccessorRange
  <1>10. QED
    BY <1>3, <1>4, <1>7, <1>8, <1>9

-----------------------------------------------------------------------------
(* Each command's steps keep the types *)

\* Every step of begin-main-unit keeps the types.
LEMMA BeginType ==
    ASSUME TypeOK, NEW p \in Procs, Begin(p)
    PROVE  TypeOK'
  <1> USE LocalsAccess
  <1>1. CASE BeginLoad(p)
    <2>1. PICK u \in Units : Load(p, u, "begin_sync")
      BY <1>1 DEF BeginLoad
    <2>2. proc' \in [Procs -> Locals]
      BY <2>1, LoadType DEF Steps
    <2>3. QED
      BY <1>1, <2>2 DEF BeginLoad, TypeOK, worktreeVars, recordVars
  <1>2. CASE BeginSync(p)
    BY <1>2, SaveType, StepType DEF BeginSync, Steps
  <1>3. CASE BeginInspect(p)
    <2> DEFINE a == LatestAttempt(UnitOf(p), ViewOf(p))
               record == ledger[UnitOf(p)][a]
               local == [proc[p] EXCEPT !.attempt = a, !.seen = record]
               repaired == WithEntry(local, Reconciled(record, a))
    <2>1. a \in Attempts
      BY LatestAttemptType
    <2>2. record \in Records
      BY <2>1 DEF TypeOK
    <2>3. local \in Locals
      BY <2>1, <2>2 DEF Locals
    <2>4. repaired \in Locals
      BY <2>1, <2>2, <2>3, ReconciledType, WithEntryType
    <2>5. /\ [repaired EXCEPT !.pc = "begin_repair"] \in Locals
          /\ [repaired EXCEPT !.pc = "begin_repair_held"] \in Locals
          /\ [local EXCEPT !.pc = "begin_branch"] \in Locals
      BY <2>3, <2>4, StepType DEF Steps
    <2>6. proc' \in [Procs -> Locals]
      BY <1>3, <2>5, BecomeType, ReturnType DEF BeginInspect
    <2>7. QED
      BY <1>3, <2>6 DEF BeginInspect, TypeOK, worktreeVars, recordVars
  <1>4. CASE BeginRepair(p)
    BY <1>4, SaveType, IdleType DEF BeginRepair
  <1>5. CASE BeginRepairHeld(p)
    BY <1>5, SaveType, StepType DEF BeginRepairHeld, Steps
  <1>6. CASE BeginBranch(p)
    <2>1. proc' \in [Procs -> Locals]
      BY <1>6, GotoType, ReturnType DEF BeginBranch, Steps
    <2>2. CASE UNCHANGED worktreeVars
      BY <1>6, <2>1, <2>2 DEF BeginBranch, TypeOK, worktreeVars, recordVars
    <2>3. CASE PrepareBranch(PlanFor(p))
      <3>1. PlanFor(p) \in Branches
        BY BranchesAssumption
      <3>2. QED
        BY <1>6, <2>1, <2>3, <3>1, PrepareBranchType DEF BeginBranch, TypeOK, recordVars
    <2>4. QED
      BY <1>6, <2>2, <2>3 DEF BeginBranch
  <1>7. CASE BeginCheck(p)
    <2>1. CASE NextAttempt(p) \in Attempts
      <3>1. [proc[p] EXCEPT !.pc = "begin_open", !.attempt = NextAttempt(p)] \in Locals
        BY <2>1 DEF Locals, Steps
      <3>2. proc' \in [Procs -> Locals]
        BY <1>7, <3>1, BecomeType, ReturnType DEF BeginCheck
      <3>3. QED
        BY <1>7, <3>2 DEF BeginCheck, TypeOK, worktreeVars, recordVars
    <2>2. CASE NextAttempt(p) \notin Attempts
      BY <1>7, <2>2, ReturnType DEF BeginCheck, TypeOK, worktreeVars, recordVars
    <2>3. QED
      BY <2>1, <2>2
  <1>8. CASE BeginOpen(p)
    <2> DEFINE record == [NoRecord EXCEPT !.status = "open", !.head = HeadCommit,
                             !.outside = Diff(OutOfScope(UnitOf(p)))]
    <2>1. record \in Records
      <3>1. HeadCommit \in Nat
        BY HeadType DEF TypeOK
      <3>2. Diff(OutOfScope(UnitOf(p))) \in Diffs
        BY DiffType DEF OutOfScope
      <3>3. QED
        BY <3>1, <3>2, NoRecordType DEF Records, Statuses
    <2>2. CASE LedgerConflict(p, proc[p].attempt, 0)
      BY <1>8, <2>2, ReturnType DEF LedgerConflict, BeginOpen, TypeOK, worktreeVars, recordVars
    <2>3. CASE /\ CompareAndSet(UnitOf(p), proc[p].attempt, 0, record)
               /\ Become(p, WithEntry([proc[p] EXCEPT !.pc = "begin_save"],
                                      Entry("in_progress", proc[p].attempt, 1)))
      <3>1. ledger' \in [Units -> [Attempts -> Records]]
        BY <2>1, <2>3, CompareAndSetType
      <3>2. WithEntry([proc[p] EXCEPT !.pc = "begin_save"],
                      Entry("in_progress", proc[p].attempt, 1)) \in Locals
        BY StepType, EntryType, WithEntryType DEF Steps, UnitStatuses
      <3>3. proc' \in [Procs -> Locals]
        BY <2>3, <3>2, BecomeType
      <3>4. QED
        BY <1>8, <3>1, <3>3 DEF BeginOpen, TypeOK, worktreeVars, recordVars
    <2>4. QED
      BY <1>8, <2>2, <2>3 DEF BeginOpen
  <1>9. CASE BeginSave(p)
    BY <1>9, SaveType, StepType DEF BeginSave, Steps
  <1>10. CASE BeginLogRead(p)
    BY <1>10, ReadLogType DEF BeginLogRead, Steps
  <1>11. CASE BeginLogWrite(p)
    BY <1>11, AppendLogType DEF BeginLogWrite
  <1>12. QED
    BY <1>1, <1>2, <1>3, <1>4, <1>5, <1>6, <1>7, <1>8, <1>9, <1>10, <1>11 DEF Begin

\* _commit_mismatch keeps the type of proc.
LEMMA JudgeType ==
    ASSUME TypeOK, NEW p \in Procs, Judge(p)
    PROVE  proc' \in [Procs -> Locals]
  <1>1. HeadCommit \in Nat
    BY HeadType DEF TypeOK
  <1>2. [proc[p] EXCEPT !.pc = "finish_complete", !.commit = HeadCommit] \in Locals
    BY <1>1, LocalsAccess DEF Locals, Steps
  <1>3. QED
    BY <1>2, BecomeType, GotoType DEF Judge, Steps

\* The entry of a unit that was just held is an entry.
LEMMA HeldEntryType ==
    ASSUME TypeOK, NEW p \in Procs, NEW r \in Nat
    PROVE  HeldEntry(p, r) \in Entries
  BY LocalsAccess DEF HeldEntry, Entries, UnitStatuses

\* Every step of complete-main-unit keeps the types.
LEMMA CompleteType ==
    ASSUME TypeOK, NEW p \in Procs, Complete(p)
    PROVE  TypeOK'
  <1> USE LocalsAccess
  <1>0. proc[p].seen.rev \in Nat
    BY DEF Records
  <1>1. CASE CompleteLoad(p)
    <2>1. PICK u \in Units : Load(p, u, "complete_sync")
      BY <1>1 DEF CompleteLoad
    <2>2. proc' \in [Procs -> Locals]
      BY <2>1, LoadType DEF Steps
    <2>3. QED
      BY <1>1, <2>2 DEF CompleteLoad, TypeOK, worktreeVars, recordVars
  <1>2. CASE CompleteSync(p)
    BY <1>2, SaveType, StepType DEF CompleteSync, Steps
  <1>3. CASE CompleteInspect(p)
    <2> DEFINE a == CurrentAttempt(ViewOf(p))
               record == ledger[UnitOf(p)][a]
               local == [proc[p] EXCEPT !.attempt = a, !.seen = record]
    <2>1. a \in Attempts
      BY CurrentAttemptType
    <2>2. record \in Records
      BY <2>1 DEF TypeOK
    <2>3. local \in Locals
      BY <2>1, <2>2 DEF Locals
    <2>4. WithEntry(local, Reconciled(record, a)) \in Locals
      BY <2>1, <2>2, <2>3, ReconciledType, WithEntryType
    <2>5. /\ [WithEntry(local, Reconciled(record, a)) EXCEPT !.pc = "complete_repair"] \in Locals
          /\ [local EXCEPT !.pc = "finish_check"] \in Locals
          /\ [local EXCEPT !.pc = "complete_verify"] \in Locals
      BY <2>3, <2>4, StepType DEF Steps
    <2>6. proc' \in [Procs -> Locals]
      BY <1>3, <2>5, BecomeType, ReturnType DEF CompleteInspect
    <2>7. QED
      BY <1>3, <2>6 DEF CompleteInspect, TypeOK, worktreeVars, recordVars
  <1>4. CASE CompleteRepair(p)
    BY <1>4, SaveType, IdleType DEF CompleteRepair
  <1>5. CASE CompleteVerify(p)
    <2>1. Dirty(Allowed[UnitOf(p)]) \in SUBSET Paths
      BY AllowedAssumption, DiffType
    <2>2. [proc[p] EXCEPT !.pc = "complete_seal", !.paths = Dirty(Allowed[UnitOf(p)])] \in Locals
      BY <2>1 DEF Locals, Steps
    <2>3. proc' \in [Procs -> Locals]
      BY <1>5, <2>2, BecomeType, ReturnType DEF CompleteVerify
    <2>4. QED
      BY <1>5, <2>3 DEF CompleteVerify, TypeOK, worktreeVars, recordVars
  <1>6. CASE CompleteSeal(p)
    <2> DEFINE seen == proc[p].seen
               paths == proc[p].paths
               sealed(m) == [seen EXCEPT !.status = "committing", !.kind = "patch",
                                         !.paths = paths,
                                         !.candidate = Changes(seen.head, work, paths),
                                         !.message = m]
    <2>1. CASE LedgerConflict(p, proc[p].attempt, seen.rev)
      BY <1>6, <2>1, ReturnType DEF LedgerConflict, CompleteSeal, TypeOK, worktreeVars, recordVars
    <2>2. ASSUME NEW m \in Messages,
                 CompareAndSet(UnitOf(p), proc[p].attempt, seen.rev, sealed(m)),
                 Become(p, [proc[p] EXCEPT !.pc = "finish_check", !.paths = {},
                                           !.seen = [sealed(m) EXCEPT !.rev = seen.rev + 1]])
          PROVE  TypeOK'
      <3>1. Changes(seen.head, work, paths) \in Diffs
        BY ChangesType DEF TypeOK
      <3>2. sealed(m) \in Records
        BY <3>1 DEF Records, Statuses
      <3>3. [sealed(m) EXCEPT !.rev = seen.rev + 1] \in Records
        BY <1>0, <3>2, RevisionType
      <3>4. ledger' \in [Units -> [Attempts -> Records]]
        BY <1>0, <2>2, <3>2, CompareAndSetType
      <3>5. [proc[p] EXCEPT !.pc = "finish_check", !.paths = {},
                            !.seen = [sealed(m) EXCEPT !.rev = seen.rev + 1]] \in Locals
        BY <3>3 DEF Locals, Steps
      <3>6. proc' \in [Procs -> Locals]
        BY <2>2, <3>5, BecomeType
      <3>7. QED
        BY <1>6, <3>4, <3>6 DEF CompleteSeal, TypeOK, worktreeVars, recordVars
    <2>3. QED
      BY <1>6, <2>1, <2>2 DEF CompleteSeal
  <1>7. CASE FinishCheck(p)
    <2>1. proc' \in [Procs -> Locals]
      BY <1>7, JudgeType, GotoType DEF FinishCheck, Steps
    <2>2. QED
      BY <1>7, <2>1 DEF FinishCheck, TypeOK, worktreeVars, recordVars
  <1>8. CASE FinishStage(p)
    <2>1. proc' \in [Procs -> Locals]
      BY <1>8, ReturnType, GotoType DEF FinishStage, GitAddFails, Steps
    <2>2. QED
      BY <1>8, <2>1 DEF FinishStage, TypeOK, worktreeVars, recordVars
  <1>9. CASE FinishCommit(p)
    <2>1. proc' \in [Procs -> Locals]
      BY <1>9, ReturnType, GotoType DEF FinishCommit, Steps
    <2>2. CASE UNCHANGED worktreeVars
      BY <1>9, <2>1, <2>2 DEF FinishCommit, TypeOK, worktreeVars, recordVars
    <2>3. CASE /\ CommitPaths(proc[p].seen.paths, proc[p].seen.message,
                              <<UnitOf(p), proc[p].attempt>>)
               /\ UNCHANGED edits
      <3>1. /\ proc[p].seen.paths \in SUBSET Paths
            /\ proc[p].seen.message \in Messages \cup {""}
        BY DEF Records
      <3>2. <<UnitOf(p), proc[p].attempt>> \in (Units \X Attempts) \cup {Outsider}
        OBVIOUS
      <3>3. /\ commits' \in Seq(Commits)
            /\ tips' \in [Branches -> {NoTip} \cup 0..Len(commits')]
            /\ tips'[branch'] # NoTip
            /\ UNCHANGED <<work, branch>>
        BY <2>3, <3>1, <3>2, CommitPathsType
      <3>4. QED
        BY <1>9, <2>1, <2>3, <3>3 DEF FinishCommit, TypeOK, recordVars
    <2>4. QED
      BY <1>9, <2>2, <2>3 DEF FinishCommit
  <1>10. CASE FinishObserve(p)
    BY <1>10, JudgeType DEF FinishObserve, TypeOK, worktreeVars, recordVars
  <1>11. CASE FinishComplete(p)
    <2> DEFINE seen == proc[p].seen
               completed == [seen EXCEPT !.status = "completed", !.commit = proc[p].commit]
               local == WithEntry([proc[p] EXCEPT !.pc = "finish_save"],
                                  Entry("done", proc[p].attempt, seen.rev + 1))
    <2>1. CASE LedgerConflict(p, proc[p].attempt, seen.rev)
      BY <1>11, <2>1, ReturnType
         DEF LedgerConflict, FinishComplete, TypeOK, worktreeVars, recordVars
    <2>2. CASE /\ CompareAndSet(UnitOf(p), proc[p].attempt, seen.rev, completed)
               /\ Become(p, local)
      <3>1. completed \in Records
        BY DEF Records, Statuses
      <3>2. ledger' \in [Units -> [Attempts -> Records]]
        BY <1>0, <2>2, <3>1, CompareAndSetType
      <3>3. seen.rev + 1 \in Nat
        BY <1>0
      <3>4. local \in Locals
        BY <3>3, StepType, EntryType, WithEntryType DEF Steps, UnitStatuses
      <3>5. proc' \in [Procs -> Locals]
        BY <2>2, <3>4, BecomeType
      <3>6. QED
        BY <1>11, <3>2, <3>5 DEF FinishComplete, TypeOK, worktreeVars, recordVars
    <2>3. QED
      BY <1>11, <2>1, <2>2 DEF FinishComplete
  <1>12. CASE FinishSave(p)
    BY <1>12, SaveType, StepType DEF FinishSave, Steps
  <1>13. CASE FinishLogRead(p)
    BY <1>13, ReadLogType DEF FinishLogRead, Steps
  <1>14. CASE FinishLogWrite(p)
    BY <1>14, AppendLogType DEF FinishLogWrite, Lines
  <1>15. CASE ProtocolHold(p)
    <2> DEFINE seen == proc[p].seen
               held == [seen EXCEPT !.status = "held", !.class = Protocol]
               local == WithEntry([proc[p] EXCEPT !.pc = "protocol_save"],
                                  HeldEntry(p, seen.rev + 1))
    <2>1. CASE LedgerConflict(p, proc[p].attempt, seen.rev)
      BY <1>15, <2>1, ReturnType
         DEF LedgerConflict, ProtocolHold, TypeOK, worktreeVars, recordVars
    <2>2. CASE /\ CompareAndSet(UnitOf(p), proc[p].attempt, seen.rev, held)
               /\ Become(p, local)
      <3>1. held \in Records
        BY DEF Records, Statuses
      <3>2. ledger' \in [Units -> [Attempts -> Records]]
        BY <1>0, <2>2, <3>1, CompareAndSetType
      <3>3. seen.rev + 1 \in Nat
        BY <1>0
      <3>4. local \in Locals
        BY <3>3, StepType, HeldEntryType, WithEntryType DEF Steps
      <3>5. proc' \in [Procs -> Locals]
        BY <2>2, <3>4, BecomeType
      <3>6. QED
        BY <1>15, <3>2, <3>5 DEF ProtocolHold, TypeOK, worktreeVars, recordVars
    <2>3. QED
      BY <1>15, <2>1, <2>2 DEF ProtocolHold
  <1>16. CASE ProtocolSave(p)
    BY <1>16, SaveType, IdleType DEF ProtocolSave
  <1>17. QED
    BY <1>1, <1>2, <1>3, <1>4, <1>5, <1>6, <1>7, <1>8, <1>9, <1>10, <1>11, <1>12,
       <1>13, <1>14, <1>15, <1>16 DEF Complete

\* Every step of hold-main-unit keeps the types.
LEMMA HoldType ==
    ASSUME TypeOK, NEW p \in Procs, Hold(p)
    PROVE  TypeOK'
  <1> USE LocalsAccess
  <1>0. proc[p].seen.rev \in Nat
    BY DEF Records
  <1>1. CASE HoldLoad(p)
    <2>1. PICK u \in Units : Load(p, u, "hold_sync")
      BY <1>1 DEF HoldLoad
    <2>2. proc' \in [Procs -> Locals]
      BY <2>1, LoadType DEF Steps
    <2>3. QED
      BY <1>1, <2>2 DEF HoldLoad, TypeOK, worktreeVars, recordVars
  <1>2. CASE HoldSync(p)
    BY <1>2, SaveType, StepType DEF HoldSync, Steps
  <1>3. CASE HoldInspect(p)
    <2> DEFINE a == CurrentAttempt(ViewOf(p))
               record == ledger[UnitOf(p)][a]
    <2>1. a \in Attempts
      BY CurrentAttemptType
    <2>2. record \in Records
      BY <2>1 DEF TypeOK
    <2>3. [proc[p] EXCEPT !.pc = "hold_record", !.attempt = a, !.seen = record] \in Locals
      BY <2>1, <2>2 DEF Locals, Steps
    <2>4. proc' \in [Procs -> Locals]
      BY <1>3, <2>3, BecomeType, ReturnType DEF HoldInspect
    <2>5. QED
      BY <1>3, <2>4 DEF HoldInspect, TypeOK, worktreeVars, recordVars
  <1>4. CASE HoldRecord(p)
    <2> DEFINE seen == proc[p].seen
               inScope == Allowed[UnitOf(p)]
               held(class) == [seen EXCEPT !.status = "held", !.class = class,
                                           !.kind = "scoped", !.paths = Dirty(inScope),
                                           !.candidate = Diff(inScope)]
               local == WithEntry([proc[p] EXCEPT !.pc = "hold_save"],
                                  HeldEntry(p, seen.rev + 1))
    <2>1. CASE LedgerConflict(p, proc[p].attempt, seen.rev)
      BY <1>4, <2>1, ReturnType
         DEF LedgerConflict, HoldRecord, TypeOK, worktreeVars, recordVars
    <2>2. ASSUME NEW class \in FailureClasses,
                 CompareAndSet(UnitOf(p), proc[p].attempt, seen.rev, held(class)),
                 Become(p, local)
          PROVE  TypeOK'
      <3>1. Dirty(inScope) \in SUBSET Paths /\ Diff(inScope) \in Diffs
        BY AllowedAssumption, DiffType
      <3>2. held(class) \in Records
        BY <3>1 DEF Records, Statuses
      <3>3. seen.rev \in Nat /\ seen.rev + 1 \in Nat
        BY <1>0
      <3>4. ledger' \in [Units -> [Attempts -> Records]]
        BY <2>2, <3>2, <3>3, CompareAndSetType
      <3>5. local \in Locals
        BY <3>3, StepType, HeldEntryType, WithEntryType DEF Steps
      <3>6. proc' \in [Procs -> Locals]
        BY <2>2, <3>5, BecomeType
      <3>7. QED
        BY <1>4, <3>4, <3>6 DEF HoldRecord, TypeOK, worktreeVars, recordVars
    <2>3. QED
      BY <1>4, <2>1, <2>2 DEF HoldRecord
  <1>5. CASE HoldSave(p)
    BY <1>5, SaveType, StepType DEF HoldSave, Steps
  <1>6. CASE HoldLogRead(p)
    BY <1>6, ReadLogType DEF HoldLogRead, Steps
  <1>7. CASE HoldLogWrite(p)
    BY <1>7, AppendLogType DEF HoldLogWrite, Lines
  <1>8. QED
    BY <1>1, <1>2, <1>3, <1>4, <1>5, <1>6, <1>7 DEF Hold

\* A process that dies keeps the types.
LEMMA CrashType ==
    ASSUME TypeOK, NEW p \in Procs, Crash(p)
    PROVE  TypeOK'
  <1>1. proc' \in [Procs -> Locals]
    BY ReturnType DEF Crash
  <1>2. crashes' \in 0..MaxCrashes
    BY MaxCrashesAssumption DEF Crash, TypeOK
  <1>3. QED
    BY <1>1, <1>2 DEF Crash, TypeOK, worktreeVars, recordVars

\* Edits and commits of others keep the types.
LEMMA EnvironmentType ==
    ASSUME TypeOK, Environment
    PROVE  TypeOK'
  <1>1. ASSUME NEW x \in Paths, Edit(x)
        PROVE  TypeOK'
    <2>1. work' \in Trees
      BY <1>1 DEF Edit, TypeOK, Trees
    <2>2. edits' \in 0..MaxEdits
      BY <1>1, BoundsAssumption DEF Edit, TypeOK
    <2>3. QED
      BY <1>1, <2>1, <2>2 DEF Environment, Edit, TypeOK, recordVars
  <1>2. CASE OutsideCommit
    <2>1. PICK S \in SUBSET Dirty(Paths), m \in Messages : CommitPaths(S, m, Outsider)
      BY <1>2 DEF OutsideCommit
    <2>2. S \in SUBSET Paths
      BY DEF Dirty
    <2>3. /\ commits' \in Seq(Commits)
          /\ tips' \in [Branches -> {NoTip} \cup 0..Len(commits')]
          /\ tips'[branch'] # NoTip
          /\ UNCHANGED <<work, branch>>
      BY <2>1, <2>2, CommitPathsType
    <2>4. edits' \in 0..MaxEdits
      BY <1>2, BoundsAssumption DEF OutsideCommit, TypeOK
    <2>5. QED
      BY <2>3, <2>4 DEF Environment, TypeOK, recordVars
  <1>3. QED
    BY <1>1, <1>2 DEF Environment

\* The types hold before any command was run.
LEMMA InitType == Init => TypeOK
  <1> SUFFICES ASSUME Init
               PROVE  TypeOK
    OBVIOUS
  <1>1. work \in Trees
    BY OriginalAssumption DEF Init, WorktreeInit, InitialTree, Trees
  <1>2. commits \in Seq(Commits) /\ Len(commits) = 0
    BY DEF Init, WorktreeInit
  <1>3. /\ branch \in Branches
        /\ tips \in [Branches -> {NoTip} \cup 0..Len(commits)]
        /\ tips[branch] # NoTip
    BY <1>2, TrunkAssumption DEF Init, WorktreeInit, NoTip
  <1>4. queue \in [Units -> Entries]
    BY MaxAttemptsAssumption
       DEF Init, RecordsInit, Fresh, Entry, Entries, UnitStatuses
  <1>5. log \in [Plans -> SUBSET Lines]
    BY DEF Init, RecordsInit
  <1>6. ledger \in [Units -> [Attempts -> Records]]
    BY NoRecordType DEF Init
  <1>7. proc \in [Procs -> Locals]
    BY IdleType DEF Init
  <1>8. crashes \in 0..MaxCrashes /\ edits \in 0..MaxEdits
    BY MaxCrashesAssumption, BoundsAssumption DEF Init, WorktreeInit
  <1>9. QED
    BY <1>1, <1>2, <1>3, <1>4, <1>5, <1>6, <1>7, <1>8 DEF TypeOK

\* Whatever the constants, every file, the checkout and every command's locals
\* keep their types through all interleavings and crashes.
THEOREM TypeCorrect == Spec => []TypeOK
  <1>1. TypeOK /\ [Next]_vars => TypeOK'
    <2> SUFFICES ASSUME TypeOK, [Next]_vars
                 PROVE  TypeOK'
      OBVIOUS
    <2>1. CASE UNCHANGED vars
      BY <2>1 DEF vars, TypeOK
    <2>2. CASE Next
      BY <2>2, BeginType, CompleteType, HoldType, CrashType, EnvironmentType DEF Next
    <2>3. QED
      BY <2>1, <2>2
  <1>2. QED
    BY <1>1, InitType, PTL DEF Spec

-----------------------------------------------------------------------------
(* A completed unit carries its candidate *)

\* Commits are made on commits that exist.
HistoryInv == \A c \in 1..Len(commits) : commits[c].parent < c

\* A command that is about to record a completion has seen a commit that is
\* the candidate it loaded or sealed.
JudgedInv ==
    \A p \in Procs :
        At(p, "finish_complete") => Matches(proc[p].commit, proc[p].seen)

CandidateInv == TypeOK /\ HistoryInv /\ JudgedInv /\ CompletedIsCandidate

\* The step of p leaves the other processes alone and p before or past the
\* point where it records a completion.
Elsewhere(p) ==
    /\ \A q \in Procs \ {p} : proc'[q] = proc[q]
    /\ proc'[p].pc # "finish_complete"

\* The step completes no attempt.
NoneCompleted ==
    \A u \in Units, a \in Attempts :
        ledger'[u][a] = ledger[u][a] \/ ledger'[u][a].status # "completed"

\* A process that takes locals of another step is away from finish_complete.
LEMMA BecomeElsewhere ==
    ASSUME TypeOK, NEW p \in Procs, NEW l, l.pc # "finish_complete", Become(p, l)
    PROVE  Elsewhere(p)
  BY DEF TypeOK, Become, Elsewhere

\* So is one whose command returns.
LEMMA IdleElsewhere ==
    ASSUME TypeOK, NEW p \in Procs, Return(p)
    PROVE  Elsewhere(p)
  BY BecomeElsewhere DEF Return, Idle

\* Changing the step of locals changes it.
LEMMA StepPc ==
    ASSUME NEW l \in Locals, NEW s
    PROVE  [l EXCEPT !.pc = s].pc = s
  BY DEF Locals

\* Changing an entry of the copied queue leaves the step alone.
LEMMA WithEntryPc ==
    ASSUME NEW l \in Locals, NEW e
    PROVE  WithEntry(l, e).pc = l.pc
  BY DEF WithEntry, Locals

\* A process that goes on to another step is away from finish_complete.
LEMMA GotoElsewhere ==
    ASSUME TypeOK, NEW p \in Procs, NEW s, s # "finish_complete", Goto(p, s)
    PROVE  Elsewhere(p)
  BY LocalsAccess, StepPc, BecomeElsewhere DEF Goto

\* So is one that reads the log on its way to another step.
LEMMA ReadLogElsewhere ==
    ASSUME TypeOK, NEW p \in Procs, NEW s, NEW n, n # "finish_complete", ReadLog(p, s, n)
    PROVE  Elsewhere(p)
  <1>1. [proc[p] EXCEPT !.pc = n, !.lines = log[PlanFor(p)]].pc = n
    BY LocalsAccess DEF Locals
  <1>2. QED
    BY <1>1, BecomeElsewhere DEF ReadLog

\* So is one that has just loaded the queue.
LEMMA LoadElsewhere ==
    ASSUME TypeOK, NEW p \in Procs, NEW u, NEW s, s # "finish_complete", Load(p, u, s)
    PROVE  Elsewhere(p)
  <1>1. [Idle EXCEPT !.pc = s, !.unit = u,
                     !.view = Synced(PlanOf[u], queue, log[PlanOf[u]])].pc = s
    BY IdleType DEF Locals
  <1>2. QED
    BY <1>1, BecomeElsewhere DEF Load

\* Writing the queue completes nothing and commits nothing.
LEMMA SaveQuiet ==
    ASSUME TypeOK, NEW p \in Procs, NEW s, NEW l, l.pc # "finish_complete", Save(p, s, l)
    PROVE  Elsewhere(p) /\ NoneCompleted /\ UNCHANGED commits
  BY BecomeElsewhere DEF Save, NoneCompleted, worktreeVars

\* The same, when the command then goes on to another step.
LEMMA SaveAndStepQuiet ==
    ASSUME TypeOK, NEW p \in Procs, NEW s, NEW n, n # "finish_complete",
           Save(p, s, [proc[p] EXCEPT !.pc = n])
    PROVE  Elsewhere(p) /\ NoneCompleted /\ UNCHANGED commits
  BY LocalsAccess, StepPc, SaveQuiet

\* Both changes of locals leave the step that was asked for.
LEMMA StepWithEntryPc ==
    ASSUME NEW l \in Locals, NEW s \in Steps, NEW e
    PROVE  WithEntry([l EXCEPT !.pc = s], e).pc = s
  BY StepType, StepPc, WithEntryPc

\* A compare_and_set of a record that is not completed completes nothing.
LEMMA NotCompleted ==
    ASSUME TypeOK, NEW u \in Units, NEW a \in Attempts, NEW v, NEW r \in Records,
           r.status # "completed", CompareAndSet(u, a, v, r)
    PROVE  NoneCompleted
  <1>1. [r EXCEPT !.rev = v + 1].status # "completed"
    BY DEF Records
  <1>2. QED
    BY <1>1 DEF CompareAndSet, NoneCompleted, TypeOK

\* begin-main-unit completes nothing and commits nothing.
LEMMA BeginQuiet ==
    ASSUME TypeOK, NEW p \in Procs, Begin(p)
    PROVE  Elsewhere(p) /\ NoneCompleted /\ UNCHANGED commits
  <1> USE LocalsAccess
  <1>1. CASE BeginLoad(p)
    <2>1. PICK u \in Units : Load(p, u, "begin_sync")
      BY <1>1 DEF BeginLoad
    <2>2. Elsewhere(p)
      BY <2>1, LoadElsewhere
    <2>3. QED
      BY <1>1, <2>2 DEF BeginLoad, NoneCompleted, worktreeVars
  <1>2. CASE BeginSync(p)
    BY <1>2, SaveAndStepQuiet DEF BeginSync
  <1>3. CASE BeginInspect(p)
    <2> DEFINE a == LatestAttempt(UnitOf(p), ViewOf(p))
               record == ledger[UnitOf(p)][a]
               local == [proc[p] EXCEPT !.attempt = a, !.seen = record]
               repaired == WithEntry(local, Reconciled(record, a))
    <2>1. a \in Attempts /\ record \in Records
      BY LatestAttemptType DEF TypeOK
    <2>2. local \in Locals
      BY <2>1 DEF Locals
    <2>3. repaired \in Locals
      BY <2>1, <2>2, ReconciledType, WithEntryType
    <2>4. /\ [repaired EXCEPT !.pc = "begin_repair"].pc # "finish_complete"
          /\ [repaired EXCEPT !.pc = "begin_repair_held"].pc # "finish_complete"
          /\ [local EXCEPT !.pc = "begin_branch"].pc # "finish_complete"
      BY <2>2, <2>3, StepPc
    <2>5. Elsewhere(p)
      BY <1>3, <2>4, BecomeElsewhere, IdleElsewhere DEF BeginInspect
    <2>6. QED
      BY <1>3, <2>5 DEF BeginInspect, NoneCompleted, worktreeVars
  <1>4. CASE BeginRepair(p)
    <2>1. Idle.pc # "finish_complete"
      BY DEF Idle
    <2>2. QED
      BY <1>4, <2>1, SaveQuiet DEF BeginRepair
  <1>5. CASE BeginRepairHeld(p)
    BY <1>5, SaveAndStepQuiet DEF BeginRepairHeld
  <1>6. CASE BeginBranch(p)
    BY <1>6, GotoElsewhere, IdleElsewhere
       DEF BeginBranch, PrepareBranch, NoneCompleted, worktreeVars
  <1>7. CASE BeginCheck(p)
    <2>1. [proc[p] EXCEPT !.pc = "begin_open", !.attempt = NextAttempt(p)].pc = "begin_open"
      BY DEF Locals
    <2>2. QED
      BY <1>7, <2>1, BecomeElsewhere, IdleElsewhere DEF BeginCheck, NoneCompleted, worktreeVars
  <1>8. CASE BeginOpen(p)
    <2> DEFINE record == [NoRecord EXCEPT !.status = "open", !.head = HeadCommit,
                             !.outside = Diff(OutOfScope(UnitOf(p)))]
               local == WithEntry([proc[p] EXCEPT !.pc = "begin_save"],
                                  Entry("in_progress", proc[p].attempt, 1))
    <2>1. record \in Records /\ record.status # "completed"
      BY HeadType, DiffType, NoRecordType DEF OutOfScope, NoRecord, Records, Statuses
    <2>2. local.pc # "finish_complete"
      <3>1. proc[p] \in Locals
        OBVIOUS
      <3>2. "begin_save" \in Steps
        BY DEF Steps
      <3>3. local.pc = "begin_save"
        BY <3>1, <3>2, StepWithEntryPc
      <3>4. QED
        BY <3>3
    <2>3. CASE CompareAndSet(UnitOf(p), proc[p].attempt, 0, record) /\ Become(p, local)
      BY <1>8, <2>1, <2>2, <2>3, BecomeElsewhere, NotCompleted DEF BeginOpen, worktreeVars
    <2>4. CASE LedgerConflict(p, proc[p].attempt, 0)
      BY <1>8, <2>4, IdleElsewhere DEF BeginOpen, LedgerConflict, NoneCompleted, worktreeVars
    <2>5. QED
      BY <1>8, <2>3, <2>4 DEF BeginOpen
  <1>9. CASE BeginSave(p)
    BY <1>9, SaveAndStepQuiet DEF BeginSave
  <1>10. CASE BeginLogRead(p)
    BY <1>10, ReadLogElsewhere DEF BeginLogRead, ReadLog, NoneCompleted, worktreeVars
  <1>11. CASE BeginLogWrite(p)
    BY <1>11, IdleElsewhere DEF BeginLogWrite, AppendLog, NoneCompleted, worktreeVars
  <1>12. QED
    BY <1>1, <1>2, <1>3, <1>4, <1>5, <1>6, <1>7, <1>8, <1>9, <1>10, <1>11 DEF Begin

\* hold-main-unit completes nothing and commits nothing.
LEMMA HoldQuiet ==
    ASSUME TypeOK, NEW p \in Procs, Hold(p)
    PROVE  Elsewhere(p) /\ NoneCompleted /\ UNCHANGED commits
  <1> USE LocalsAccess
  <1>1. CASE HoldLoad(p)
    <2>1. PICK u \in Units : Load(p, u, "hold_sync")
      BY <1>1 DEF HoldLoad
    <2>2. Elsewhere(p)
      BY <2>1, LoadElsewhere
    <2>3. QED
      BY <1>1, <2>2 DEF HoldLoad, NoneCompleted, worktreeVars
  <1>2. CASE HoldSync(p)
    BY <1>2, SaveAndStepQuiet DEF HoldSync
  <1>3. CASE HoldInspect(p)
    <2> DEFINE a == CurrentAttempt(ViewOf(p))
    <2>1. [proc[p] EXCEPT !.pc = "hold_record", !.attempt = a,
                          !.seen = ledger[UnitOf(p)][a]].pc = "hold_record"
      BY DEF Locals
    <2>2. QED
      BY <1>3, <2>1, BecomeElsewhere, IdleElsewhere
         DEF HoldInspect, NoneCompleted, worktreeVars
  <1>4. CASE HoldRecord(p)
    <2> DEFINE seen == proc[p].seen
               inScope == Allowed[UnitOf(p)]
               held(class) == [seen EXCEPT !.status = "held", !.class = class,
                                           !.kind = "scoped", !.paths = Dirty(inScope),
                                           !.candidate = Diff(inScope)]
               local == WithEntry([proc[p] EXCEPT !.pc = "hold_save"],
                                  HeldEntry(p, seen.rev + 1))
    <2>1. \A class \in FailureClasses :
            held(class) \in Records /\ held(class).status # "completed"
      BY AllowedAssumption, DiffType DEF Records, Statuses
    <2>2. local.pc # "finish_complete"
      <3>1. proc[p] \in Locals
        OBVIOUS
      <3>2. "hold_save" \in Steps
        BY DEF Steps
      <3>3. local.pc = "hold_save"
        BY <3>1, <3>2, StepWithEntryPc
      <3>4. QED
        BY <3>3
    <2>3. ASSUME NEW class \in FailureClasses,
                 CompareAndSet(UnitOf(p), proc[p].attempt, seen.rev, held(class)),
                 Become(p, local)
          PROVE  Elsewhere(p) /\ NoneCompleted
      BY <2>1, <2>2, <2>3, BecomeElsewhere, NotCompleted
    <2>4. CASE LedgerConflict(p, proc[p].attempt, seen.rev)
      BY <1>4, <2>4, IdleElsewhere DEF HoldRecord, LedgerConflict, NoneCompleted, worktreeVars
    <2>5. QED
      BY <1>4, <2>3, <2>4 DEF HoldRecord, worktreeVars
  <1>5. CASE HoldSave(p)
    BY <1>5, SaveAndStepQuiet DEF HoldSave
  <1>6. CASE HoldLogRead(p)
    BY <1>6, ReadLogElsewhere DEF HoldLogRead, ReadLog, NoneCompleted, worktreeVars
  <1>7. CASE HoldLogWrite(p)
    BY <1>7, IdleElsewhere DEF HoldLogWrite, AppendLog, NoneCompleted, worktreeVars
  <1>8. QED
    BY <1>1, <1>2, <1>3, <1>4, <1>5, <1>6, <1>7 DEF Hold

\* Of complete-main-unit only four steps judge, commit or complete.
LEMMA CompleteQuiet ==
    ASSUME TypeOK, NEW p \in Procs, Complete(p),
           ~ FinishCheck(p), ~ FinishCommit(p), ~ FinishObserve(p), ~ FinishComplete(p)
    PROVE  Elsewhere(p) /\ NoneCompleted /\ UNCHANGED commits
  <1> USE LocalsAccess
  <1>1. CASE CompleteLoad(p)
    <2>1. PICK u \in Units : Load(p, u, "complete_sync")
      BY <1>1 DEF CompleteLoad
    <2>2. Elsewhere(p)
      BY <2>1, LoadElsewhere
    <2>3. QED
      BY <1>1, <2>2 DEF CompleteLoad, NoneCompleted, worktreeVars
  <1>2. CASE CompleteSync(p)
    BY <1>2, SaveAndStepQuiet DEF CompleteSync
  <1>3. CASE CompleteInspect(p)
    <2> DEFINE a == CurrentAttempt(ViewOf(p))
               record == ledger[UnitOf(p)][a]
               local == [proc[p] EXCEPT !.attempt = a, !.seen = record]
               repaired == WithEntry(local, Reconciled(record, a))
    <2>1. a \in Attempts /\ record \in Records
      BY CurrentAttemptType DEF TypeOK
    <2>2. local \in Locals
      BY <2>1 DEF Locals
    <2>3. repaired \in Locals
      BY <2>1, <2>2, ReconciledType, WithEntryType
    <2>4. /\ [repaired EXCEPT !.pc = "complete_repair"].pc # "finish_complete"
          /\ [local EXCEPT !.pc = "finish_check"].pc # "finish_complete"
          /\ [local EXCEPT !.pc = "complete_verify"].pc # "finish_complete"
      BY <2>2, <2>3, StepPc
    <2>5. Elsewhere(p)
      BY <1>3, <2>4, BecomeElsewhere, IdleElsewhere DEF CompleteInspect
    <2>6. QED
      BY <1>3, <2>5 DEF CompleteInspect, NoneCompleted, worktreeVars
  <1>4. CASE CompleteRepair(p)
    <2>1. Idle.pc # "finish_complete"
      BY DEF Idle
    <2>2. QED
      BY <1>4, <2>1, SaveQuiet DEF CompleteRepair
  <1>5. CASE CompleteVerify(p)
    <2>1. [proc[p] EXCEPT !.pc = "complete_seal",
                          !.paths = Dirty(Allowed[UnitOf(p)])].pc = "complete_seal"
      BY DEF Locals
    <2>2. Elsewhere(p)
      BY <1>5, <2>1, BecomeElsewhere, IdleElsewhere DEF CompleteVerify
    <2>3. QED
      BY <1>5, <2>2 DEF CompleteVerify, NoneCompleted, worktreeVars
  <1>6. CASE CompleteSeal(p)
    <2> DEFINE seen == proc[p].seen
               paths == proc[p].paths
               sealed(m) == [seen EXCEPT !.status = "committing", !.kind = "patch",
                                         !.paths = paths,
                                         !.candidate = Changes(seen.head, work, paths),
                                         !.message = m]
    <2>1. CASE LedgerConflict(p, proc[p].attempt, seen.rev)
      BY <1>6, <2>1, IdleElsewhere DEF CompleteSeal, LedgerConflict, NoneCompleted, worktreeVars
    <2>2. ASSUME NEW m \in Messages,
                 CompareAndSet(UnitOf(p), proc[p].attempt, seen.rev, sealed(m)),
                 Become(p, [proc[p] EXCEPT !.pc = "finish_check", !.paths = {},
                                           !.seen = [sealed(m) EXCEPT !.rev = seen.rev + 1]])
          PROVE  Elsewhere(p) /\ NoneCompleted
      <3>1. Changes(seen.head, work, paths) \in Diffs
        BY ChangesType DEF TypeOK
      <3>2. sealed(m) \in Records /\ sealed(m).status # "completed"
        BY <3>1 DEF Records, Statuses
      <3>3. [proc[p] EXCEPT !.pc = "finish_check", !.paths = {},
                            !.seen = [sealed(m) EXCEPT !.rev = seen.rev + 1]].pc = "finish_check"
        BY DEF Locals
      <3>4. QED
        BY <2>2, <3>2, <3>3, BecomeElsewhere, NotCompleted
    <2>3. QED
      BY <1>6, <2>1, <2>2 DEF CompleteSeal, worktreeVars
  <1>7. CASE FinishStage(p)
    BY <1>7, GotoElsewhere, IdleElsewhere
       DEF FinishStage, GitAddFails, NoneCompleted, worktreeVars
  <1>8. CASE FinishSave(p)
    BY <1>8, SaveAndStepQuiet DEF FinishSave
  <1>9. CASE FinishLogRead(p)
    BY <1>9, ReadLogElsewhere DEF FinishLogRead, ReadLog, NoneCompleted, worktreeVars
  <1>10. CASE FinishLogWrite(p)
    BY <1>10, IdleElsewhere DEF FinishLogWrite, AppendLog, NoneCompleted, worktreeVars
  <1>11. CASE ProtocolHold(p)
    <2> DEFINE seen == proc[p].seen
               held == [seen EXCEPT !.status = "held", !.class = Protocol]
               local == WithEntry([proc[p] EXCEPT !.pc = "protocol_save"],
                                  HeldEntry(p, seen.rev + 1))
    <2>1. held \in Records /\ held.status # "completed"
      BY DEF Records, Statuses
    <2>2. local.pc # "finish_complete"
      <3>1. proc[p] \in Locals
        OBVIOUS
      <3>2. "protocol_save" \in Steps
        BY DEF Steps
      <3>3. local.pc = "protocol_save"
        BY <3>1, <3>2, StepWithEntryPc
      <3>4. QED
        BY <3>3
    <2>3. CASE CompareAndSet(UnitOf(p), proc[p].attempt, seen.rev, held) /\ Become(p, local)
      BY <1>11, <2>1, <2>2, <2>3, BecomeElsewhere, NotCompleted DEF ProtocolHold, worktreeVars
    <2>4. CASE LedgerConflict(p, proc[p].attempt, seen.rev)
      BY <1>11, <2>4, IdleElsewhere
         DEF ProtocolHold, LedgerConflict, NoneCompleted, worktreeVars
    <2>5. QED
      BY <1>11, <2>3, <2>4 DEF ProtocolHold
  <1>12. CASE ProtocolSave(p)
    <2>1. Idle.pc # "finish_complete"
      BY DEF Idle
    <2>2. QED
      BY <1>12, <2>1, SaveQuiet DEF ProtocolSave
  <1>13. QED
    BY <1>1, <1>2, <1>3, <1>4, <1>5, <1>6, <1>7, <1>8, <1>9, <1>10, <1>11, <1>12
       DEF Complete

-----------------------------------------------------------------------------

\* What a commit is found to carry stays true.
MatchesKept ==
    \A r \in Records, c \in Nat : Matches(c, r) => Matches(c, r)'

\* Without a new commit, what commits are found to carry stays true.
LEMMA UnchangedKeeps ==
    ASSUME HistoryInv, UNCHANGED commits
    PROVE  HistoryInv' /\ MatchesKept
  BY DEF HistoryInv, MatchesKept, Matches, Changes, Tree

\* Commits are never rewritten: a new one leaves the earlier ones as judged.
LEMMA CommitKeeps ==
    ASSUME TypeOK, HistoryInv, NEW S, NEW m, NEW author, CommitPaths(S, m, author)
    PROVE  HistoryInv' /\ MatchesKept
  <1>1. PICK commit : commits' = Append(commits, commit) /\ commit.parent = HeadCommit
    BY DEF CommitPaths
  <1>2. commits \in Seq(Commits) /\ Len(commits) \in Nat
    BY DEF TypeOK
  <1>3. Len(commits') = Len(commits) + 1
    BY <1>1, <1>2
  <1>4. \A c \in 1..Len(commits) : commits'[c] = commits[c]
    BY <1>1, <1>2
  <1>5. commits'[Len(commits) + 1] = commit
    BY <1>1, <1>2
  <1>6. HeadCommit \in 0..Len(commits)
    BY HeadType
  <1>7. HistoryInv'
    <2> SUFFICES ASSUME NEW c \in 1..Len(commits')
                 PROVE  commits'[c].parent < c
      BY DEF HistoryInv
    <2>1. CASE c \in 1..Len(commits)
      BY <1>4, <2>1 DEF HistoryInv
    <2>2. CASE c = Len(commits) + 1
      BY <1>1, <1>2, <1>5, <1>6, <2>2
    <2>3. QED
      BY <1>2, <1>3, <2>1, <2>2
  <1>8. \A c \in 0..Len(commits) : Tree(c)' = Tree(c)
    BY <1>2, <1>4 DEF Tree
  <1>9. MatchesKept
    <2> SUFFICES ASSUME NEW r \in Records, NEW c \in Nat, Matches(c, r)
                 PROVE  Matches(c, r)'
      BY DEF MatchesKept
    <2>1. c \in 1..Len(commits) /\ r.head = commits[c].parent
      BY DEF Matches
    <2>2. c \in 1..Len(commits') /\ commits'[c] = commits[c]
      BY <1>2, <1>3, <1>4, <2>1
    <2>3. r.head < c /\ r.head \in Nat
      BY <2>1 DEF HistoryInv, Records
    <2>4. Tree(c)' = Tree(c) /\ Tree(r.head)' = Tree(r.head)
      <3>1. c \in 0..Len(commits) /\ r.head \in 0..Len(commits)
        BY <1>2, <2>1, <2>3
      <3>2. QED
        BY <1>8, <3>1
    <2>5. \A T : Changes(r.head, Tree(c), T)' = Changes(r.head, Tree(c), T)
      BY <2>4 DEF Changes
    <2>6. QED
      BY <2>1, <2>2, <2>5 DEF Matches
  <1>10. QED
    BY <1>7, <1>9

\* A completed record stays with its candidate if nothing else completes.
LEMMA CompletedKept ==
    ASSUME TypeOK, CompletedIsCandidate, NoneCompleted, MatchesKept
    PROVE  CompletedIsCandidate'
  <1> SUFFICES ASSUME NEW u \in Units, NEW a \in Attempts,
                      ledger'[u][a].status = "completed"
               PROVE  Matches(ledger[u][a].commit, ledger[u][a])'
    BY DEF CompletedIsCandidate
  <1>1. ledger'[u][a] = ledger[u][a]
    BY DEF NoneCompleted
  <1>2. Matches(ledger[u][a].commit, ledger[u][a])
    BY <1>1 DEF CompletedIsCandidate
  <1>3. PICK r \in Records, c \in Nat : r = ledger[u][a] /\ c = ledger[u][a].commit
    BY DEF TypeOK, Records
  <1>4. Matches(c, r)'
    BY <1>2, <1>3 DEF MatchesKept
  <1>5. r = ledger'[u][a] /\ c = ledger'[u][a].commit
    BY <1>1, <1>3
  <1>6. QED
    BY <1>4, <1>5

\* A commit that a process has judged stays judged.
LEMMA StillJudged ==
    ASSUME TypeOK, JudgedInv, MatchesKept, NEW q \in Procs, proc'[q] = proc[q]
    PROVE  At(q, "finish_complete")' => Matches(proc[q].commit, proc[q].seen)'
  <1> SUFFICES ASSUME At(q, "finish_complete")'
               PROVE  Matches(proc[q].commit, proc[q].seen)'
    OBVIOUS
  <1>1. Matches(proc[q].commit, proc[q].seen)
    BY DEF JudgedInv, At
  <1>2. PICK c \in Nat, r \in Records : c = proc[q].commit /\ r = proc[q].seen
    BY LocalsAccess
  <1>3. Matches(c, r)'
    BY <1>1, <1>2 DEF MatchesKept
  <1>4. c = proc'[q].commit /\ r = proc'[q].seen
    BY <1>2
  <1>5. QED
    BY <1>3, <1>4

\* A process away from finish_complete has nothing to keep.
LEMMA ElsewhereJudged ==
    ASSUME TypeOK, JudgedInv, MatchesKept, NEW p \in Procs, Elsewhere(p)
    PROVE  JudgedInv'
  <1> SUFFICES ASSUME NEW q \in Procs
               PROVE  At(q, "finish_complete")' => Matches(proc[q].commit, proc[q].seen)'
    BY DEF JudgedInv
  <1>1. CASE q = p
    BY <1>1 DEF Elsewhere, At
  <1>2. CASE q # p
    BY <1>2, StillJudged DEF Elsewhere
  <1>3. QED
    BY <1>1, <1>2

\* If no process moves, every judged commit stays judged.
LEMMA ProcJudged ==
    ASSUME TypeOK, JudgedInv, MatchesKept, UNCHANGED proc
    PROVE  JudgedInv'
  BY StillJudged DEF JudgedInv

\* A step that leaves p away from recording a completion, and completes
\* nothing, keeps both facts whatever was committed.
LEMMA ElsewhereKeeps ==
    ASSUME CandidateInv, NEW p \in Procs, Elsewhere(p), NoneCompleted, MatchesKept
    PROVE  JudgedInv' /\ CompletedIsCandidate'
  BY ElsewhereJudged, CompletedKept DEF CandidateInv

\* What a commit carries depends on the sealed part of a record only.
LEMMA SameCandidate ==
    ASSUME NEW c, NEW r, NEW s, r.head = s.head, r.paths = s.paths,
           r.candidate = s.candidate, r.message = s.message
    PROVE  Matches(c, r)' => Matches(c, s)'
  BY DEF Matches

\* A process goes on to finish_complete only with the commit it has judged.
LEMMA JudgeKeeps ==
    ASSUME CandidateInv, NEW p \in Procs, Judge(p), UNCHANGED <<worktreeVars, ledger>>
    PROVE  JudgedInv' /\ CompletedIsCandidate'
  <1>1. UNCHANGED commits /\ MatchesKept
    BY UnchangedKeeps DEF CandidateInv, worktreeVars
  <1>2. NoneCompleted
    BY DEF NoneCompleted
  <1>3. CompletedIsCandidate'
    BY <1>1, <1>2, CompletedKept DEF CandidateInv
  <1>4. JudgedInv'
    <2> SUFFICES ASSUME NEW q \in Procs, proc'[q].pc = "finish_complete"
                 PROVE  Matches(proc[q].commit, proc[q].seen)'
      BY DEF JudgedInv, At
    <2>1. proc[q] \in Locals /\ proc[p] \in Locals /\ proc \in [Procs -> Locals]
      BY DEF CandidateInv, TypeOK
    <2>2. CASE q = p /\ Matches(HeadCommit, proc[p].seen)
      <3>1. proc'[q] = [proc[p] EXCEPT !.pc = "finish_complete", !.commit = HeadCommit]
        BY <2>1, <2>2 DEF Judge, Become
      <3>2. proc'[q].seen = proc[p].seen /\ proc'[q].commit = HeadCommit
        BY <2>1, <3>1 DEF Locals
      <3>3. QED
        BY <1>1, <2>2, <3>2 DEF Matches, Changes, Tree
    <2>3. CASE q = p /\ ~ Matches(HeadCommit, proc[p].seen)
      <3>1. Elsewhere(p)
        BY <2>3, GotoElsewhere DEF Judge, CandidateInv
      <3>2. QED
        BY <2>3, <3>1 DEF Elsewhere
    <2>4. CASE q # p
      <3>1. proc'[q] = proc[q]
        BY <2>1, <2>4 DEF Judge, Become, Goto
      <3>2. Matches(proc[q].commit, proc[q].seen)
        BY <3>1 DEF CandidateInv, JudgedInv, At
      <3>3. QED
        BY <1>1, <3>1, <3>2 DEF Matches, Changes, Tree
    <2>5. QED
      BY <2>2, <2>3, <2>4
  <1>5. QED
    BY <1>3, <1>4

\* Every step of complete-main-unit keeps the inductive invariant.
LEMMA CompleteKeeps ==
    ASSUME CandidateInv, NEW p \in Procs, Complete(p)
    PROVE  CandidateInv'
  <1>1. TypeOK'
    BY CompleteType DEF CandidateInv
  <1>2. CASE /\ ~ FinishCheck(p) /\ ~ FinishCommit(p)
             /\ ~ FinishObserve(p) /\ ~ FinishComplete(p)
    <2>1. Elsewhere(p) /\ NoneCompleted /\ UNCHANGED commits
      BY <1>2, CompleteQuiet DEF CandidateInv
    <2>2. HistoryInv' /\ MatchesKept
      BY <2>1, UnchangedKeeps DEF CandidateInv
    <2>3. QED
      BY <1>1, <2>1, <2>2, ElsewhereKeeps DEF CandidateInv
  <1>3. CASE FinishCheck(p)
    <2>1. UNCHANGED <<worktreeVars, ledger, commits>>
      BY <1>3 DEF FinishCheck, worktreeVars
    <2>2. HistoryInv' /\ MatchesKept
      BY <2>1, UnchangedKeeps DEF CandidateInv
    <2>3. CASE Judge(p)
      BY <1>1, <2>1, <2>2, <2>3, JudgeKeeps DEF CandidateInv
    <2>4. CASE Goto(p, "protocol_hold") \/ Goto(p, "finish_stage")
      <3>1. Elsewhere(p)
        BY <2>4, GotoElsewhere DEF CandidateInv
      <3>2. NoneCompleted
        BY <2>1 DEF NoneCompleted
      <3>3. QED
        BY <1>1, <2>2, <3>1, <3>2, ElsewhereKeeps DEF CandidateInv
    <2>5. QED
      BY <1>3, <2>3, <2>4 DEF FinishCheck
  <1>4. CASE FinishCommit(p)
    <2>1. HistoryInv' /\ MatchesKept
      <3>1. CASE UNCHANGED worktreeVars
        BY <3>1, UnchangedKeeps DEF CandidateInv, worktreeVars
      <3>2. CASE CommitPaths(proc[p].seen.paths, proc[p].seen.message,
                             <<UnitOf(p), proc[p].attempt>>)
        BY <3>2, CommitKeeps DEF CandidateInv
      <3>3. QED
        BY <1>4, <3>1, <3>2 DEF FinishCommit
    <2>2. Elsewhere(p)
      BY <1>4, GotoElsewhere, IdleElsewhere DEF FinishCommit, CandidateInv
    <2>3. NoneCompleted
      BY <1>4 DEF FinishCommit, NoneCompleted
    <2>4. QED
      BY <1>1, <2>1, <2>2, <2>3, ElsewhereKeeps DEF CandidateInv
  <1>5. CASE FinishObserve(p)
    <2>1. UNCHANGED <<worktreeVars, ledger, commits>> /\ Judge(p)
      BY <1>5 DEF FinishObserve, worktreeVars
    <2>2. HistoryInv'
      BY <2>1, UnchangedKeeps DEF CandidateInv
    <2>3. QED
      BY <1>1, <2>1, <2>2, JudgeKeeps DEF CandidateInv
  <1>6. CASE FinishComplete(p)
    <2> DEFINE seen == proc[p].seen
               completed == [seen EXCEPT !.status = "completed", !.commit = proc[p].commit]
               local == WithEntry([proc[p] EXCEPT !.pc = "finish_save"],
                                  Entry("done", proc[p].attempt, seen.rev + 1))
    <2>1. UNCHANGED commits
      BY <1>6 DEF FinishComplete, worktreeVars
    <2>2. HistoryInv' /\ MatchesKept
      BY <2>1, UnchangedKeeps DEF CandidateInv
    <2>3. /\ proc[p] \in Locals /\ seen \in Records /\ proc[p].commit \in Nat
          /\ UnitOf(p) \in Units /\ proc[p].attempt \in Attempts
      BY LocalsAccess DEF CandidateInv
    <2>4. CASE LedgerConflict(p, proc[p].attempt, seen.rev)
      <3>1. Elsewhere(p) /\ NoneCompleted
        BY <2>4, IdleElsewhere DEF LedgerConflict, NoneCompleted, CandidateInv
      <3>2. QED
        BY <1>1, <2>2, <3>1, ElsewhereKeeps DEF CandidateInv
    <2>5. CASE CompareAndSet(UnitOf(p), proc[p].attempt, seen.rev, completed) /\ Become(p, local)
      <3>1. Matches(proc[p].commit, seen)
        BY <1>6 DEF FinishComplete, CandidateInv, JudgedInv
      <3>2. Elsewhere(p)
        <4>1. "finish_save" \in Steps
          BY DEF Steps
        <4>2. local.pc = "finish_save"
          BY <2>3, <4>1, StepWithEntryPc
        <4>3. QED
          BY <2>5, <4>2, BecomeElsewhere DEF CandidateInv
      <3>3. JudgedInv'
        BY <2>2, <3>2, ElsewhereJudged DEF CandidateInv
      <3>4. CompletedIsCandidate'
        <4> SUFFICES ASSUME NEW u \in Units, NEW a \in Attempts,
                            ledger'[u][a].status = "completed"
                     PROVE  Matches(ledger[u][a].commit, ledger[u][a])'
          BY DEF CompletedIsCandidate
        <4>1. CASE u = UnitOf(p) /\ a = proc[p].attempt
          <5> DEFINE r == [completed EXCEPT !.rev = seen.rev + 1]
          <5>1. ledger'[u][a] = r
            BY <2>5, <4>1 DEF CompareAndSet, CandidateInv, TypeOK
          <5>2. /\ r.commit = proc[p].commit /\ r.head = seen.head
                /\ r.paths = seen.paths /\ r.candidate = seen.candidate
                /\ r.message = seen.message
            BY <2>3 DEF Records
          <5>3. PICK s \in Records, c \in Nat : s = seen /\ c = proc[p].commit
            BY <2>3
          <5>4. Matches(c, s)'
            BY <2>2, <3>1, <5>3 DEF MatchesKept
          <5>5. PICK d : d = ledger'[u][a]
            OBVIOUS
          <5>6. Matches(c, d)'
            BY <5>1, <5>2, <5>3, <5>4, <5>5, SameCandidate
          <5>7. c = ledger'[u][a].commit
            BY <5>1, <5>2, <5>3
          <5>8. QED
            BY <5>5, <5>6, <5>7
        <4>2. CASE ~ (u = UnitOf(p) /\ a = proc[p].attempt)
          <5>1. ledger'[u][a] = ledger[u][a]
            BY <2>5, <4>2 DEF CompareAndSet, CandidateInv, TypeOK
          <5>2. Matches(ledger[u][a].commit, ledger[u][a])
            BY <5>1 DEF CandidateInv, CompletedIsCandidate
          <5>3. QED
            BY <2>1, <5>1, <5>2 DEF Matches, Changes, Tree
        <4>3. QED
          BY <4>1, <4>2
      <3>5. QED
        BY <1>1, <2>2, <3>3, <3>4 DEF CandidateInv
    <2>6. QED
      BY <1>6, <2>4, <2>5 DEF FinishComplete
  <1>7. QED
    BY <1>2, <1>3, <1>4, <1>5, <1>6

\* The invariant holds before any command was run.
LEMMA CandidateInit == Init => CandidateInv
  <1> SUFFICES ASSUME Init
               PROVE  CandidateInv
    OBVIOUS
  <1>1. TypeOK
    BY InitType
  <1>2. HistoryInv
    BY DEF Init, WorktreeInit, HistoryInv
  <1>3. JudgedInv
    BY DEF Init, Idle, JudgedInv, At
  <1>4. CompletedIsCandidate
    BY DEF Init, NoRecord, CompletedIsCandidate
  <1>5. QED
    BY <1>1, <1>2, <1>3, <1>4 DEF CandidateInv

\* Every step keeps it.
LEMMA CandidateNext == CandidateInv /\ [Next]_vars => CandidateInv'
  <1> SUFFICES ASSUME CandidateInv, [Next]_vars
               PROVE  CandidateInv'
    OBVIOUS
  <1>1. ASSUME NEW p \in Procs, Begin(p) \/ Hold(p)
        PROVE  CandidateInv'
    <2>1. Elsewhere(p) /\ NoneCompleted /\ UNCHANGED commits /\ TypeOK'
      BY <1>1, BeginQuiet, HoldQuiet, BeginType, HoldType DEF CandidateInv
    <2>2. HistoryInv' /\ MatchesKept
      BY <2>1, UnchangedKeeps DEF CandidateInv
    <2>3. QED
      BY <2>1, <2>2, ElsewhereKeeps DEF CandidateInv
  <1>2. ASSUME NEW p \in Procs, Complete(p)
        PROVE  CandidateInv'
    BY <1>2, CompleteKeeps
  <1>3. ASSUME NEW p \in Procs, Crash(p)
        PROVE  CandidateInv'
    <2>1. Elsewhere(p) /\ TypeOK'
      BY <1>3, IdleElsewhere, CrashType DEF Crash, CandidateInv
    <2>2. NoneCompleted /\ UNCHANGED commits
      BY <1>3 DEF Crash, NoneCompleted, worktreeVars
    <2>3. HistoryInv' /\ MatchesKept
      BY <2>2, UnchangedKeeps DEF CandidateInv
    <2>4. QED
      BY <2>1, <2>2, <2>3, ElsewhereKeeps DEF CandidateInv
  <1>4. CASE Environment
    <2>1. HistoryInv' /\ MatchesKept
      <3>1. CASE OutsideCommit
        BY <3>1, CommitKeeps DEF OutsideCommit, CandidateInv
      <3>2. CASE \E x \in Paths : Edit(x)
        BY <3>2, UnchangedKeeps DEF Edit, CandidateInv
      <3>3. QED
        BY <1>4, <3>1, <3>2 DEF Environment
    <2>2. TypeOK'
      BY <1>4, EnvironmentType DEF CandidateInv
    <2>3. NoneCompleted /\ UNCHANGED proc
      BY <1>4 DEF Environment, NoneCompleted
    <2>4. CompletedIsCandidate'
      BY <2>1, <2>3, CompletedKept DEF CandidateInv
    <2>5. JudgedInv'
      BY <2>1, <2>3, ProcJudged DEF CandidateInv
    <2>6. QED
      BY <2>1, <2>2, <2>4, <2>5 DEF CandidateInv
  <1>5. CASE UNCHANGED vars
    <2>1. TypeOK'
      BY <1>5 DEF vars, CandidateInv, TypeOK
    <2>2. HistoryInv' /\ MatchesKept
      BY <1>5, UnchangedKeeps DEF vars, CandidateInv
    <2>3. NoneCompleted /\ UNCHANGED proc
      BY <1>5 DEF vars, NoneCompleted
    <2>4. QED
      BY <2>1, <2>2, <2>3, CompletedKept, ProcJudged DEF CandidateInv
  <1>6. QED
    BY <1>1, <1>2, <1>3, <1>4, <1>5 DEF Next

\* Whatever the number of processes, units, attempts, edits and crashes, a unit
\* is recorded as completed only with a commit that carries exactly the
\* candidate that complete_main_unit sealed, on the sealed parent.
THEOREM CompletedCorrect == Spec => []CompletedIsCandidate
  <1>1. CandidateInv => CompletedIsCandidate
    BY DEF CandidateInv
  <1>2. QED
    BY <1>1, CandidateInit, CandidateNext, PTL DEF Spec

=============================================================================
