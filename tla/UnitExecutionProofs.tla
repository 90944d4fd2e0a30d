------------------------ MODULE UnitExecutionProofs --------------------------
(***************************************************************************)
(* Theorems about UnitExecution, for every value of its constants.         *)
(*                                                                         *)
(* For any number of processes: the files keep their types, and a released *)
(* commit is exactly what was prepared, in the scope of its unit.          *)
(*                                                                         *)
(* For one process at a time (OneAtATime), dying and started again as      *)
(* often as MaxCrashes allows: neither queue.json nor log.md runs ahead of *)
(* the ledger, units are taken up in the order of the plan, and no attempt *)
(* is committed twice.  With two processes none of them holds: each may    *)
(* write back a copy of the queue that the other has changed, or prepare a *)
(* release that the other has proved or is about to commit.                *)
(***************************************************************************)
EXTENDS UnitExecution, TLAPS, WellFoundedInduction

-----------------------------------------------------------------------------
(* The inductive type invariant *)

Commits == [parent : Nat, message : Messages \cup {""},
            author : (Units \X Attempts) \cup {Outsider}, tree : Trees]
Codes == {"untracked", "deleted", "modified"}
Statuses == UNION {[S -> Codes] : S \in SUBSET Paths}
Listings == {"none", "by-name", "otherwise"}
Verdicts == {"none", "pass", "hold", "failure", "finding", "protocol", "review_failure"}

\* A queue entry whose attempt has a place in the ledger.
Placed == {e \in Entries : e.attempt \in Attempts}

WorkSteps ==
    {"recover", "reload", "attest", "start", "begin", "repair", "open", "implement", "review",
     "reviewing", "finalize", "verify", "prepare", "check", "commit", "prove", "revalidate",
     "hold_save", "hold_log_read", "hold_log_write"}
DoneSteps == {"done_save", "done_log_read", "done_log_write"}
Steps == {"idle", "done_sync"} \cup WorkSteps \cup DoneSteps

Locals == [pc : Steps, unit : Units, view : [Units -> Placed], lines : SUBSET Lines,
           attempt : Attempts, limit : Nat, head : Nat, before : Statuses \cup {<< >>},
           kept : Statuses \cup {<< >>}, reviewing : Failures, verdict : Verdicts, seen : Records,
           changed : SUBSET Paths, listed : Listings, held : SUBSET Lines]

RepoOK ==
    /\ work \in Trees /\ branch \in Branches /\ edits \in 0..MaxEdits
    /\ commits \in Seq(Commits)
    /\ tips \in [Branches -> {NoTip} \cup 0..Len(commits)]
    /\ tips[branch] # NoTip
    /\ shelf \subseteq Diffs

FilesOK ==
    /\ queue \in [Units -> Placed]
    /\ log \in [Plans -> SUBSET Lines]
    /\ ledger \in [Units -> [Attempts -> Records]]

\* TypeOK, with the locals of a run in full, and that HEAD is a commit.
TypeInv ==
    /\ RepoOK
    /\ FilesOK
    /\ proc \in [Procs -> Locals]
    /\ crashes \in 0..MaxCrashes

-----------------------------------------------------------------------------
(* Data *)

\* A diff against a tree is a diff: a function on the paths that differ.
LEMMA ChangesType ==
    ASSUME NEW base, NEW tree \in Trees, NEW S \in SUBSET Paths
    PROVE  /\ Changes(base, tree, S) \in Diffs
           /\ DOMAIN Changes(base, tree, S) \subseteq S
  <1> DEFINE D == {x \in S : tree[x] # Tree(base)[x]}
  <1>1. D \in SUBSET Paths
    OBVIOUS
  <1>2. Changes(base, tree, S) \in [D -> Contents]
    BY <1>1 DEF Changes, Restrict, Trees
  <1>3. QED
    BY <1>1, <1>2 DEF Diffs

\* What git status and git diff report of the checkout is within the paths.
LEMMA DiffType ==
    ASSUME RepoOK, NEW S \in SUBSET Paths
    PROVE  /\ Dirty(S) \in SUBSET Paths
           /\ Diff(S) \in Diffs
  BY ChangesType DEF Dirty, Diff, RepoOK

\* Every commit, the initial one included, has a tree.
LEMMA TreeType ==
    ASSUME RepoOK, NEW c \in 0..Len(commits)
    PROVE  Tree(c) \in Trees
  <1>1. CASE c = 0
    BY <1>1, OriginalAssumption DEF Tree, InitialTree, Trees
  <1>2. CASE c # 0
    <2>1. c \in 1..Len(commits) /\ commits \in Seq(Commits)
      BY <1>2 DEF RepoOK
    <2>2. commits[c] \in Commits
      BY <2>1
    <2>3. QED
      BY <1>2, <2>2 DEF Tree, Commits
  <1>3. QED
    BY <1>1, <1>2

\* HEAD is a commit, because the branch checked out has a tip.
LEMMA HeadType ==
    ASSUME RepoOK
    PROVE  /\ HeadCommit \in 0..Len(commits) /\ HeadCommit \in Nat
           /\ Len(commits) \in Nat /\ HeadCommit <= Len(commits)
  <1>1. HeadCommit \in 0..Len(commits)
    BY DEF RepoOK, HeadCommit, NoTip
  <1>2. Len(commits) \in Nat
    BY DEF RepoOK
  <1>3. QED
    BY <1>1, <1>2

\* What git status reports of the dirty paths is a status.
LEMMA StatusType ==
    ASSUME RepoOK
    PROVE  Status \in Statuses
  <1>1. Dirty(Paths) \in SUBSET Paths
    BY DiffType
  <1>2. Status \in [Dirty(Paths) -> Codes]
    BY DEF Status, StatusCode, Codes
  <1>3. QED
    BY <1>1, <1>2 DEF Statuses

\* So is the part of it that lists the paths of S.
LEMMA RestrictStatusType ==
    ASSUME RepoOK, NEW S
    PROVE  Restrict(Status, Dirty(Paths) \cap S) \in Statuses
  <1> DEFINE D == Dirty(Paths) \cap S
  <1>1. Dirty(Paths) \in SUBSET Paths /\ D \in SUBSET Paths
    BY DiffType
  <1>2. Status \in [Dirty(Paths) -> Codes]
    BY DEF Status, StatusCode, Codes
  <1>3. Restrict(Status, D) \in [D -> Codes]
    BY <1>2 DEF Restrict
  <1>4. QED
    BY <1>1, <1>3 DEF Statuses

\* A list of changed paths is in the order of the names or not.
LEMMA ListingType ==
    ASSUME NEW kept, NEW changed
    PROVE  Listing(kept, changed) \in Listings
  BY DEF Listing, Listings

\* The paths a run counts as its changes are paths.
LEMMA ChangedPathsType ==
    ASSUME RepoOK, NEW kept, NEW before
    PROVE  ChangedPaths(kept, before) \in SUBSET Paths
  <1>1. Dirty(Paths) \in SUBSET Paths
    BY DiffType
  <1>2. QED
    BY <1>1 DEF ChangedPaths

\* What a failure is remembered by is a failure.
LEMMA FailureStateType ==
    ASSUME RepoOK, NEW head \in {NoTip} \cup Nat, NEW reason \in Reasons
    PROVE  FailureState(head, reason) \in Failures
  BY DiffType DEF FailureState, Failures

\* The empty diff is a diff.
LEMMA NoDiffType == NoDiff \in Diffs
  <1>1. NoDiff \in [{} -> Contents]
    BY DEF NoDiff
  <1>2. QED
    BY <1>1 DEF Diffs

\* So a ledger that was never written is a record, and no failure is one.
LEMMA NoRecordType == NoRecord \in Records /\ NoFailure \in Failures
  BY NoDiffType DEF NoRecord, Records, NoFailure, Failures, Reasons

\* A plan has a first unit.
LEMMA FirstUnitType == Order[1] \in Units /\ MainPlan \in Plans
  <1>1. Order \in Seq(Units) /\ Order # << >>
    BY OrderAssumption
  <1>2. Order[1] \in Units
    BY <1>1
  <1>3. QED
    BY <1>2, PlanOfAssumption DEF MainPlan

\* All units are in the plan that runs.
LEMMA SamePlan ==
    ASSUME NEW u \in Units
    PROVE  PlanOf[u] = MainPlan
  BY FirstUnitType, OrderAssumption DEF MainPlan

\* A unit nobody has begun points to the first attempt.
LEMMA FreshType == FreshUnit \in Placed
  BY NoRecordType, ExecutionBoundsAssumption
     DEF FreshUnit, Placed, Entries, UnitStatuses, Reasons, Attempts

\* The locals of a process that runs nothing are locals.
LEMMA IdleType == Idle \in Locals
  <1>1. 0 \in Attempts /\ 0 \in Nat
    BY ExecutionBoundsAssumption DEF Attempts
  <1>2. [u \in Units |-> FreshUnit] \in [Units -> Placed]
    BY FreshType
  <1>3. QED
    BY <1>1, <1>2, FirstUnitType, NoRecordType DEF Idle, Locals, Steps, Verdicts, Listings

\* The inductive types are the types that the run checks.
LEMMA TypesImplied == TypeInv => TypeOK
  <1>1. ASSUME TypeInv, NEW p \in Procs
        PROVE  /\ proc[p].unit \in Units /\ proc[p].attempt \in Attempts
               /\ proc[p].view \in [Units -> Entries] /\ proc[p].seen \in Records
    <2>1. proc[p] \in Locals
      BY <1>1 DEF TypeInv
    <2>2. Placed \subseteq Entries
      BY DEF Placed
    <2>3. proc[p].view \in [Units -> Placed]
      BY <2>1 DEF Locals
    <2>4. QED
      BY <2>1, <2>2, <2>3 DEF Locals
  <1>2. TypeInv => queue \in [Units -> Entries]
    BY DEF TypeInv, FilesOK, Placed
  <1>3. QED
    BY <1>1, <1>2 DEF TypeInv, RepoOK, FilesOK, TypeOK, Commits

-----------------------------------------------------------------------------
(* What the helpers of a step return *)

\* What a process runs are locals.
LEMMA ProcType ==
    ASSUME TypeInv, NEW p \in Procs
    PROVE  proc[p] \in Locals
  BY DEF TypeInv

\* What a run reads of its locals has its type.
LEMMA LocalsAccess ==
    ASSUME TypeInv, NEW p \in Procs
    PROVE  /\ proc[p] \in Locals
           /\ UnitOf(p) \in Units
           /\ EntryOf(p) \in Placed
           /\ proc[p].view \in [Units -> Placed]
           /\ proc[p].seen \in Records
           /\ proc[p].attempt \in Attempts
           /\ proc[p].lines \in SUBSET Lines
           /\ proc[p].held \in SUBSET Lines
           /\ proc[p].changed \in SUBSET Paths
           /\ RecordOf(p) \in Records
  <1>1. proc[p] \in Locals
    BY DEF TypeInv
  <1>2. UnitOf(p) \in Units /\ proc[p].view \in [Units -> Placed] /\ proc[p].attempt \in Attempts
    BY <1>1 DEF Locals, UnitOf
  <1>3. EntryOf(p) \in Placed
    BY <1>2 DEF EntryOf
  <1>4. RecordOf(p) \in Records
    BY <1>2 DEF RecordOf, TypeInv, FilesOK
  <1>5. QED
    BY <1>1, <1>2, <1>3, <1>4 DEF Locals

\* The steps by name.
LEMMA StepsKnown ==
    /\ "idle" \in Steps /\ "recover" \in Steps /\ "reload" \in Steps /\ "attest" \in Steps
    /\ "start" \in Steps /\ "begin" \in Steps /\ "repair" \in Steps /\ "open" \in Steps
    /\ "implement" \in Steps /\ "review" \in Steps /\ "reviewing" \in Steps
    /\ "finalize" \in Steps /\ "verify" \in Steps /\ "prepare" \in Steps /\ "check" \in Steps
    /\ "commit" \in Steps /\ "prove" \in Steps /\ "revalidate" \in Steps
    /\ "hold_save" \in Steps /\ "hold_log_read" \in Steps /\ "hold_log_write" \in Steps
    /\ "done_save" \in Steps /\ "done_log_read" \in Steps /\ "done_log_write" \in Steps
    /\ "done_sync" \in Steps
  BY DEF Steps, WorkSteps, DoneSteps

\* Locals with another step, and with what is read or decided on the way to it,
\* are locals.
LEMMA LocalsWith ==
    ASSUME NEW l \in Locals, NEW s \in Steps
    PROVE  /\ \A a \in Attempts, r \in Records :
                [l EXCEPT !.attempt = a, !.seen = r, !.pc = s] \in Locals
           /\ \A v \in [Units -> Placed] : [l EXCEPT !.pc = s, !.view = v] \in Locals
           /\ \A S \in SUBSET Lines : [l EXCEPT !.pc = s, !.lines = S] \in Locals
           /\ \A S \in SUBSET Lines : [l EXCEPT !.pc = s, !.held = S] \in Locals
           /\ \A S \in Statuses \cup {<< >>} : [l EXCEPT !.pc = s, !.kept = S] \in Locals
           /\ \A S \in SUBSET Paths, o \in Listings :
                [l EXCEPT !.pc = s, !.changed = S, !.listed = o] \in Locals
           /\ \A f \in Failures : [l EXCEPT !.pc = s, !.reviewing = f] \in Locals
           /\ \A r \in Records : [l EXCEPT !.pc = s, !.seen = r] \in Locals
           /\ \A v \in Verdicts : [l EXCEPT !.pc = s, !.verdict = v] \in Locals
           /\ \A v \in Verdicts : [l EXCEPT !.verdict = v, !.pc = s] \in Locals
           /\ \A a \in Attempts, n \in Nat, h \in Nat, b \in Statuses :
                [l EXCEPT !.pc = s, !.attempt = a, !.limit = n, !.head = h, !.before = b]
                    \in Locals
  BY DEF Locals

\* Locals with another step are locals.
LEMMA StepType ==
    ASSUME NEW l \in Locals, NEW s \in Steps
    PROVE  [l EXCEPT !.pc = s] \in Locals
  BY DEF Locals

\* Locals with another entry of the unit are locals.
LEMMA WithEntryType ==
    ASSUME NEW l \in Locals, NEW e \in Placed
    PROVE  WithEntry(l, e) \in Locals
  BY DEF WithEntry, Locals

\* An entry with another status or revision keeps its place.
LEMMA EntryType ==
    ASSUME NEW e \in Placed
    PROVE  /\ \A s \in UnitStatuses : [e EXCEPT !.status = s] \in Placed
           /\ \A r \in Nat : [e EXCEPT !.rev = r] \in Placed
           /\ \A s \in UnitStatuses, a \in Attempts :
                [e EXCEPT !.status = s, !.attempt = a] \in Placed
           /\ \A s \in UnitStatuses, a \in Attempts, r \in Nat, S \in SUBSET Paths :
                [e EXCEPT !.status = s, !.attempt = a, !.rev = r, !.changed = S] \in Placed
  <1>1. e \in Entries /\ e.attempt \in Attempts
    BY DEF Placed
  <1>2. Attempts \subseteq Nat
    BY ExecutionBoundsAssumption DEF Attempts
  <1>3. /\ \A s \in UnitStatuses : [e EXCEPT !.status = s] \in Entries
        /\ \A r \in Nat : [e EXCEPT !.rev = r] \in Entries
    BY <1>1 DEF Entries
  <1>4. \A s \in UnitStatuses, a \in Attempts : [e EXCEPT !.status = s, !.attempt = a] \in Entries
    BY <1>1, <1>2 DEF Entries
  <1>5. \A s \in UnitStatuses, a \in Attempts, r \in Nat, S \in SUBSET Paths :
          [e EXCEPT !.status = s, !.attempt = a, !.rev = r, !.changed = S] \in Entries
    BY <1>1, <1>2 DEF Entries
  <1>6. /\ \A s : [e EXCEPT !.status = s].attempt = e.attempt
        /\ \A r : [e EXCEPT !.rev = r].attempt = e.attempt
        /\ \A s, a : [e EXCEPT !.status = s, !.attempt = a].attempt = a
    BY <1>1 DEF Entries
  <1>7. /\ \A s \in UnitStatuses : [e EXCEPT !.status = s] \in Placed
        /\ \A r \in Nat : [e EXCEPT !.rev = r] \in Placed
    BY <1>1, <1>3, <1>6 DEF Placed
  <1>8. \A s \in UnitStatuses, a \in Attempts : [e EXCEPT !.status = s, !.attempt = a] \in Placed
    <2> TAKE s \in UnitStatuses, a \in Attempts
    <2> DEFINE n == [e EXCEPT !.status = s, !.attempt = a]
    <2>1. n \in Entries /\ n.attempt = a
      BY <1>4, <1>6
    <2> HIDE DEF n
    <2>2. n \in Placed
      BY <2>1 DEF Placed
    <2>3. QED
      BY <2>2 DEF n
  <1>9. \A s \in UnitStatuses, a \in Attempts, r \in Nat, S \in SUBSET Paths :
          [e EXCEPT !.status = s, !.attempt = a, !.rev = r, !.changed = S] \in Placed
    <2> TAKE s \in UnitStatuses, a \in Attempts, r \in Nat, S \in SUBSET Paths
    <2> DEFINE n == [e EXCEPT !.status = s, !.attempt = a, !.rev = r, !.changed = S]
    <2>1. n \in Entries
      BY <1>5
    <2>2. n.attempt = a
      BY <1>1 DEF Entries
    <2> HIDE DEF n
    <2>3. n \in Placed
      BY <1>1, <2>1, <2>2 DEF Placed
    <2>4. QED
      BY <2>3 DEF n
  <1>10. QED
    BY <1>7, <1>8, <1>9

\* A process that takes new locals keeps the type of proc.
LEMMA BecomeType ==
    ASSUME TypeInv, NEW p \in Procs, NEW l \in Locals, Become(p, l)
    PROVE  proc' \in [Procs -> Locals]
  BY DEF TypeInv, Become

\* So does a process whose run returns.
LEMMA ReturnType ==
    ASSUME TypeInv, NEW p \in Procs, Return(p)
    PROVE  proc' \in [Procs -> Locals]
  BY IdleType, BecomeType DEF Return

\* So does a process that only goes on to another step.
LEMMA GotoType ==
    ASSUME TypeInv, NEW p \in Procs, NEW s \in Steps, Goto(p, s)
    PROVE  proc' \in [Procs -> Locals]
  BY BecomeType, LocalsAccess, StepType DEF Goto

\* A hold leaves locals.
LEMMA HoldingType ==
    ASSUME NEW l \in Locals, NEW e \in Placed, NEW line \in BOOLEAN
    PROVE  Holding(l, e, line) \in Locals
  <1> DEFINE k == WithEntry(l, [e EXCEPT !.status = "needs_work"])
             h == IF line THEN {<<l.unit, "needs_work">>} ELSE {}
  <1>1. k \in Locals
    BY EntryType, WithEntryType DEF UnitStatuses
  <1>2. h \in SUBSET Lines
    BY DEF Locals, Lines
  <1>3. Holding(l, e, line) = [k EXCEPT !.pc = "hold_save", !.held = h]
    BY DEF Holding
  <1>4. QED
    BY <1>1, <1>2, <1>3 DEF Locals, Steps, WorkSteps

\* A repository that a step leaves alone stays well typed.
LEMMA RepoStays ==
    ASSUME RepoOK, UNCHANGED repoVars
    PROVE  RepoOK'
  BY DEF RepoOK, repoVars, worktreeVars

\* The files that a step leaves alone stay well typed.
LEMMA FilesStay ==
    ASSUME FilesOK, UNCHANGED <<recordVars, ledger>>
    PROVE  FilesOK'
  BY DEF FilesOK, recordVars

\* A record with another revision, or with how its attempt goes on, is a record.
LEMMA RecordsWith ==
    ASSUME NEW r \in Records, NEW n \in Nat
    PROVE  /\ r.rev \in Nat /\ r.rev + 1 \in Nat
           /\ [r EXCEPT !.rev = n] \in Records
           /\ \A closed \in BOOLEAN, status \in {"failure", "pass"} :
                [r EXCEPT !.closed = closed, !.status = status] \in Records
           /\ \A status \in {"finalized", "scope_mismatch", "process_cleanup_failed",
                             "held_adoption_required"} :
                [r EXCEPT !.status = status, !.head = n] \in Records
  <1>1. r.rev \in Nat /\ r.rev + 1 \in Nat
    <2>1. r.rev \in Nat
      BY DEF Records
    <2>2. QED
      BY <2>1
  <1>2. [r EXCEPT !.rev = n] \in Records
    BY DEF Records
  <1>3. ASSUME NEW closed \in BOOLEAN, NEW status \in {"failure", "pass"}
        PROVE  [r EXCEPT !.closed = closed, !.status = status] \in Records
    <2> DEFINE k == [r EXCEPT !.closed = closed]
    <2>1. k \in Records
      BY Zenon DEF Records
    <2>2. [k EXCEPT !.status = status] \in Records
      <3> HIDE DEF k
      <3>1. QED
        BY <2>1 DEF Records
    <2>3. [r EXCEPT !.closed = closed, !.status = status] = [k EXCEPT !.status = status]
      OBVIOUS
    <2>4. QED
      BY <2>2, <2>3
  <1>4. ASSUME NEW status \in {"finalized", "scope_mismatch", "process_cleanup_failed",
                               "held_adoption_required"}
        PROVE  [r EXCEPT !.status = status, !.head = n] \in Records
    <2> DEFINE k == [r EXCEPT !.status = status]
    <2>1. k \in Records
      BY DEF Records
    <2>2. [k EXCEPT !.head = n] \in Records
      <3> HIDE DEF k
      <3>1. QED
        BY <2>1 DEF Records
    <2>3. [r EXCEPT !.status = status, !.head = n] = [k EXCEPT !.head = n]
      OBVIOUS
    <2>4. QED
      BY <2>2, <2>3
  <1>5. QED
    BY <1>1, <1>2, <1>3, <1>4

\* The next revision is a revision.
LEMMA RevisionType ==
    ASSUME NEW r \in Records, NEW v \in Nat
    PROVE  [r EXCEPT !.rev = v + 1] \in Records
  <1>1. v + 1 \in Nat
    OBVIOUS
  <1>2. QED
    BY <1>1, RecordsWith

\* compare_and_set keeps the type of the ledgers.
LEMMA CompareAndSetType ==
    ASSUME TypeInv, NEW u \in Units, NEW a \in Attempts, NEW v \in Nat,
           NEW r \in Records, CompareAndSet(u, a, v, r), UNCHANGED recordVars
    PROVE  FilesOK' /\ ledger'[u][a] = [r EXCEPT !.rev = v + 1]
  <1>1. [r EXCEPT !.rev = v + 1] \in Records
    BY RevisionType
  <1>2. QED
    BY <1>1 DEF CompareAndSet, TypeInv, FilesOK, recordVars

\* Writing a copy of the queue keeps the types of the files.
LEMMA SaveType ==
    ASSUME TypeInv, NEW view \in [Units -> Placed], SaveQueue(MainPlan, view),
           UNCHANGED <<log, ledger>>
    PROVE  FilesOK' /\ queue' = view
  <1>1. queue' = view
    BY SamePlan DEF SaveQueue
  <1>2. QED
    BY <1>1 DEF TypeInv, FilesOK

\* The cache that load_queue synchronises with the log is a queue.
LEMMA SyncedType ==
    ASSUME TypeInv
    PROVE  /\ Synced(MainPlan, queue, log[MainPlan]) \in [Units -> Placed]
           /\ \A u \in Units : Synced(MainPlan, queue, log[MainPlan])[u] =
                [queue[u] EXCEPT !.status = SyncedStatus(log[MainPlan], u, queue[u].status)]
  <1> DEFINE e(u) == [queue[u] EXCEPT !.status = SyncedStatus(log[MainPlan], u, queue[u].status)]
  <1>1. Synced(MainPlan, queue, log[MainPlan]) = [u \in Units |-> e(u)]
    BY SamePlan DEF Synced
  <1>2. ASSUME NEW u \in Units
        PROVE  e(u) \in Placed
    <2>1. queue[u] \in Placed
      BY DEF TypeInv, FilesOK
    <2>2. SyncedStatus(log[MainPlan], u, queue[u].status) \in UnitStatuses
      BY <2>1 DEF SyncedStatus, Placed, Entries, UnitStatuses
    <2>3. QED
      BY <2>1, <2>2, EntryType
  <1>3. QED
    BY <1>1, <1>2

\* Writing the log keeps the types of the files.
LEMMA WriteLogType ==
    ASSUME TypeInv, NEW lines \in SUBSET Lines, WriteLog(MainPlan, lines),
           UNCHANGED <<queue, ledger>>
    PROVE  FilesOK' /\ log'[MainPlan] = lines
  BY FirstUnitType DEF WriteLog, TypeInv, FilesOK

\* Of the attempts that have a ledger one is the newest.
LEMMA NewestExists ==
    ASSUME NEW W \in SUBSET Attempts, W # {}
    PROVE  \E a \in W : \A b \in W : b <= a
  <1> DEFINE left == {MaxAttempts - a : a \in W}
  <1>1. left # {} /\ left \in SUBSET Nat
    <2>1. \A a \in W : MaxAttempts - a \in Nat
      BY ExecutionBoundsAssumption DEF Attempts
    <2>2. QED
      BY <2>1
  <1>2. PICK n \in left : \A m \in left : ~ (<<m, n>> \in OpToRel(<, Nat))
    BY <1>1, NatLessThanWellFounded, WFMin
  <1>3. PICK a \in W : n = MaxAttempts - a
    OBVIOUS
  <1>4. \A b \in W : b <= a
    <2> TAKE b \in W
    <2>1. ~ (MaxAttempts - b < MaxAttempts - a)
      BY <1>1, <1>2, <1>3 DEF OpToRel
    <2>2. QED
      BY <2>1, ExecutionBoundsAssumption DEF Attempts
  <1>5. QED
    BY <1>4

\* Recovery looks at an attempt.
LEMMA ReleaseAttemptType ==
    ASSUME NEW u \in Units, NEW e \in Placed
    PROVE  ReleaseAttempt(u, e) \in Attempts
  <1> DEFINE written == {a \in Attempts : ledger[u][a].rev > 0}
  <1>1. CASE written = {} \/ e.attempt \in written
    BY <1>1 DEF ReleaseAttempt, Placed
  <1>2. CASE ~ (written = {} \/ e.attempt \in written)
    <2>1. ReleaseAttempt(u, e) = CHOOSE a \in written : \A b \in written : b <= a
      BY <1>2 DEF ReleaseAttempt
    <2>2. \E a \in written : \A b \in written : b <= a
      BY <1>2, NewestExists
    <2>3. QED
      BY <2>1, <2>2
  <1>3. QED
    BY <1>1, <1>2

\* Nobody approves the retry that execute_unit asks for.
LEMMA NoRetry ==
    ASSUME NEW p
    PROVE  ~CanRetry(p)
  BY DEF CanRetry, RetryEligible

\* A history with one more commit is a history.
LEMMA AppendCommitType ==
    ASSUME RepoOK, NEW commit \in Commits
    PROVE  /\ Len(commits) \in Nat
           /\ Append(commits, commit) \in Seq(Commits)
           /\ Len(Append(commits, commit)) = Len(commits) + 1
           /\ \A c \in 1..Len(commits) : Append(commits, commit)[c] = commits[c]
           /\ Append(commits, commit)[Len(commits) + 1] = commit
  <1>1. commits \in Seq(Commits)
    BY DEF RepoOK
  <1>2. QED
    BY <1>1

\* The tips of n commits are tips of n + 1 commits.
LEMMA SuccessorRange ==
    ASSUME NEW n \in Nat
    PROVE  /\ n + 1 # NoTip
           /\ n + 1 \in 0..(n + 1)
           /\ 0..n \subseteq 0..(n + 1)
  BY DEF NoTip

\* commit_paths adds one commit on top of HEAD and keeps the types of the
\* repository.
LEMMA CommitPathsType ==
    ASSUME RepoOK, NEW S \in SUBSET Paths, NEW m \in Messages \cup {""},
           NEW author \in (Units \X Attempts) \cup {Outsider},
           CommitPaths(S, m, author), edits' \in 0..MaxEdits, UNCHANGED shelf
    PROVE  /\ RepoOK'
           /\ Len(commits') = Len(commits) + 1
           /\ \A c \in 1..Len(commits) : commits'[c] = commits[c]
           /\ commits'[Len(commits) + 1].parent = HeadCommit
  <1> DEFINE tree == [x \in Paths |-> IF x \in S THEN work[x] ELSE Tree(HeadCommit)[x]]
             commit == [parent |-> HeadCommit, message |-> Cleanup[m], author |-> author,
                        tree |-> tree]
  <1>1. commit \in Commits
    <2>1. HeadCommit \in Nat /\ Tree(HeadCommit) \in Trees
      BY HeadType, TreeType
    <2>2. tree \in Trees
      BY <2>1 DEF Trees, RepoOK
    <2>3. QED
      BY <2>1, <2>2, CleanupAssumption DEF Commits
  <1>2. /\ commits' = Append(commits, commit)
        /\ tips' = [tips EXCEPT ![branch] = Len(commits) + 1]
        /\ UNCHANGED <<work, branch>>
    BY DEF CommitPaths
  <1>3. commit.parent = HeadCommit
    OBVIOUS
  <1> HIDE DEF commit
  <1>4. /\ Len(commits) \in Nat
        /\ commits' \in Seq(Commits) /\ Len(commits') = Len(commits) + 1
        /\ \A c \in 1..Len(commits) : commits'[c] = commits[c]
        /\ commits'[Len(commits) + 1] = commit
    BY <1>1, <1>2, AppendCommitType
  <1>5. tips \in [Branches -> {NoTip} \cup 0..Len(commits)] /\ branch \in Branches
    BY DEF RepoOK
  <1>6. /\ Len(commits) + 1 \in 0..Len(commits')
        /\ 0..Len(commits) \subseteq 0..Len(commits')
        /\ Len(commits) + 1 # NoTip
    BY <1>4, SuccessorRange
  <1>7. tips' \in [Branches -> {NoTip} \cup 0..Len(commits')]
    BY <1>2, <1>5, <1>6
  <1>8. tips'[branch'] = Len(commits) + 1
    BY <1>2, <1>5
  <1>9. RepoOK'
    BY <1>2, <1>4, <1>6, <1>7, <1>8 DEF RepoOK
  <1>10. QED
    BY <1>3, <1>4, <1>9

-----------------------------------------------------------------------------
(* Every step keeps the types *)

\* So does a step that changes the locals of its process only.
LEMMA LocalStepType ==
    ASSUME TypeInv, NEW p \in Procs, NEW l \in Locals, Become(p, l),
           UNCHANGED <<repoVars, recordVars, ledger, crashes>>
    PROVE  TypeInv'
  <1>1. proc' \in [Procs -> Locals]
    BY BecomeType
  <1>2. RepoOK' /\ FilesOK'
    BY RepoStays, FilesStay DEF TypeInv
  <1>3. QED
    BY <1>1, <1>2 DEF TypeInv

\* So does a step that saves the queue.
LEMMA SaveStepType ==
    ASSUME TypeInv, NEW p \in Procs, NEW l \in Locals, Become(p, l),
           NEW view \in [Units -> Placed], SaveQueue(MainPlan, view),
           UNCHANGED <<repoVars, log, ledger, crashes>>
    PROVE  TypeInv'
  <1>1. proc' \in [Procs -> Locals]
    BY BecomeType
  <1>2. RepoOK' /\ FilesOK'
    BY RepoStays, SaveType DEF TypeInv
  <1>3. QED
    BY <1>1, <1>2 DEF TypeInv

\* So does one that writes the log.
LEMMA LogStepType ==
    ASSUME TypeInv, NEW p \in Procs, NEW l \in Locals, Become(p, l),
           NEW lines \in SUBSET Lines, WriteLog(MainPlan, lines),
           UNCHANGED <<repoVars, queue, ledger, crashes>>
    PROVE  TypeInv'
  <1>1. proc' \in [Procs -> Locals]
    BY BecomeType
  <1>2. RepoOK' /\ FilesOK'
    BY RepoStays, WriteLogType DEF TypeInv
  <1>3. QED
    BY <1>1, <1>2 DEF TypeInv

\* So does one that writes a ledger.
LEMMA LedgerStepType ==
    ASSUME TypeInv, NEW p \in Procs, NEW l \in Locals, Become(p, l),
           ledger' \in [Units -> [Attempts -> Records]],
           UNCHANGED <<repoVars, recordVars, crashes>>
    PROVE  TypeInv'
  <1>1. proc' \in [Procs -> Locals]
    BY BecomeType
  <1>2. RepoOK' /\ FilesOK'
    BY RepoStays DEF TypeInv, FilesOK, recordVars
  <1>3. QED
    BY <1>1, <1>2 DEF TypeInv

\* Selecting a unit keeps the types.
LEMMA SelectType ==
    ASSUME TypeInv, NEW p \in Procs, NEW u \in Units, Select(p, u)
    PROVE  TypeInv'
  <1>1. [Idle EXCEPT !.pc = "recover", !.unit = u, !.view = queue] \in Locals
    BY IdleType DEF Locals, Steps, WorkSteps, TypeInv, FilesOK
  <1>2. QED
    BY <1>1, LocalStepType DEF Select

\* So does looking for a release to recover.
LEMMA RecoverType ==
    ASSUME TypeInv, NEW p \in Procs, Recover(p)
    PROVE  TypeInv'
  <1> DEFINE a == ReleaseAttempt(UnitOf(p), EntryOf(p))
             record == ledger[UnitOf(p)][a]
             taken(s) == [proc[p] EXCEPT !.attempt = a, !.seen = record, !.pc = s]
  <1>1. a \in Attempts
    BY LocalsAccess, ReleaseAttemptType
  <1>2. record \in Records
    BY <1>1, LocalsAccess DEF TypeInv, FilesOK
  <1>3. taken("check") \in Locals /\ taken("revalidate") \in Locals
    BY <1>1, <1>2, ProcType, LocalsWith, StepsKnown
  <1>4. [proc[p] EXCEPT !.pc = "reload"] \in Locals
    BY LocalsAccess, StepType, StepsKnown
  <1>5. Become(p, taken("check")) \/ Become(p, taken("revalidate")) \/ Goto(p, "reload")
    BY DEF Recover
  <1>6. QED
    BY <1>3, <1>4, <1>5, LocalStepType DEF Recover, Goto

\* So does loading the queue.
LEMMA ReloadType ==
    ASSUME TypeInv, NEW p \in Procs, Reload(p)
    PROVE  TypeInv'
  <1> DEFINE synced == Synced(MainPlan, queue, log[MainPlan])
  <1>1. synced \in [Units -> Placed]
    BY SyncedType
  <1>2. [proc[p] EXCEPT !.pc = "attest", !.view = synced] \in Locals
    BY <1>1, ProcType, LocalsWith, StepsKnown
  <1>3. QED
    BY <1>1, <1>2, SaveStepType DEF Reload

\* So do the three steps of a hold.
LEMMA HoldType ==
    ASSUME TypeInv, NEW p \in Procs, Hold(p)
    PROVE  TypeInv'
  <1>1. CASE HoldSave(p)
    <2>1. [proc[p] EXCEPT !.pc = "hold_log_read"] \in Locals
      BY LocalsAccess, StepType, StepsKnown
    <2>2. QED
      BY <1>1, <2>1, LocalsAccess, SaveStepType DEF HoldSave, Goto
  <1>2. CASE HoldLogRead(p)
    <2>1. [proc[p] EXCEPT !.pc = "hold_log_write", !.lines = log[MainPlan]] \in Locals
      BY ProcType, LocalsWith, StepsKnown, FirstUnitType DEF TypeInv, FilesOK
    <2>2. QED
      BY <1>2, <2>1, LocalStepType DEF HoldLogRead, ReadLog
  <1>3. CASE HoldLogWrite(p)
    <2>1. proc[p].lines \cup proc[p].held \in SUBSET Lines
      BY LocalsAccess
    <2>2. QED
      BY <1>3, <2>1, IdleType, LogStepType DEF HoldLogWrite, Return
  <1>4. QED
    BY <1>1, <1>2, <1>3 DEF Hold

\* So does attesting the child.
LEMMA AttestType ==
    ASSUME TypeInv, NEW p \in Procs, Attest(p)
    PROVE  TypeInv'
  <1> DEFINE held == [EntryOf(p) EXCEPT !.changed = {}, !.reason = "attestation"]
  <1>1. held \in Placed
    BY LocalsAccess DEF Placed, Entries, Reasons
  <1>2. Holding(proc[p], held, TRUE) \in Locals
    BY <1>1, LocalsAccess, HoldingType
  <1>3. [proc[p] EXCEPT !.pc = "start"] \in Locals
    BY LocalsAccess, StepType, StepsKnown
  <1>4. Goto(p, "start") \/ Become(p, Holding(proc[p], held, TRUE))
    BY DEF Attest
  <1>5. QED
    BY <1>2, <1>3, <1>4, LocalStepType DEF Attest, Goto

\* What a dirty checkout puts aside is a diff, and it falls back to HEAD.
LEMMA ShelveType ==
    ASSUME RepoOK, NEW S \in SUBSET Paths, Shelve(S)
    PROVE  RepoOK' /\ UNCHANGED commits
  <1>1. Restrict(work, S) \in [S -> Contents]
    BY DEF Restrict, RepoOK, Trees
  <1>2. Restrict(work, S) \in Diffs
    BY <1>1 DEF Diffs
  <1>3. Tree(HeadCommit) \in Trees
    BY HeadType, TreeType
  <1>4. work' \in Trees
    BY <1>3 DEF Shelve, RepoOK, Trees
  <1>5. shelf' \subseteq Diffs
    BY <1>2 DEF Shelve, RepoOK
  <1>6. QED
    BY <1>4, <1>5 DEF Shelve, RepoOK

\* Starting an attempt keeps the types.
LEMMA StartType ==
    ASSUME TypeInv, NEW p \in Procs, Start(p)
    PROVE  TypeInv'
  <1> DEFINE local(kept) == [proc[p] EXCEPT !.pc = "begin", !.kept = kept]
  <1>1. RepoOK'
    <2>1. Dirty(Paths) \in SUBSET Paths
      BY DiffType DEF TypeInv
    <2>2. Unexpected(p) \in SUBSET Paths
      BY <2>1 DEF Unexpected
    <2>3. UNCHANGED repoVars \/ Shelve(Unexpected(p))
      BY DEF Start
    <2>4. QED
      BY <2>2, <2>3, RepoStays, ShelveType DEF TypeInv
  <1>2. proc' \in [Procs -> Locals]
    <2>1. CASE Return(p)
      BY <2>1, ReturnType
    <2>2. ASSUME NEW kept \in Statuses \cup {<< >>}
          PROVE  local(kept) \in Locals
      BY ProcType, LocalsWith, StepsKnown
    <2> DEFINE preserved == Restrict(Status, Dirty(Paths) \cap ResumePaths(p))
    <2>3. preserved \in Statuses
      BY RestrictStatusType DEF TypeInv
    <2>4. Return(p) \/ Become(p, local(<< >>)) \/ Become(p, local(preserved))
      BY DEF Start
    <2>5. local(<< >>) \in Locals /\ local(preserved) \in Locals
      BY <2>2, <2>3
    <2> HIDE DEF preserved, local
    <2>6. QED
      BY <2>1, <2>4, <2>5, BecomeType
  <1>3. FilesOK'
    BY FilesStay DEF Start, TypeInv
  <1>4. QED
    BY <1>1, <1>2, <1>3 DEF Start, TypeInv

\* So does beginning it.
LEMMA BeginType ==
    ASSUME TypeInv, NEW p \in Procs, Begin(p)
    PROVE  TypeInv'
  <1> DEFINE entry == [EntryOf(p) EXCEPT !.status = "in_progress"]
             local == [proc[p] EXCEPT !.pc = "repair", !.attempt = FirstAttempt(p),
                         !.limit = LastAttempt(p), !.head = HeadCommit, !.before = Status]
  <1>1. HeadCommit \in Nat /\ Status \in Statuses
    BY HeadType, StatusType DEF TypeInv
  <1>2. LastAttempt(p) \in Nat
    <2>1. EntryOf(p).attempt \in Nat
      BY LocalsAccess DEF Placed, Entries
    <2>2. QED
      BY <2>1, ExecutionBoundsAssumption DEF LastAttempt
  <1>3. CASE FirstAttempt(p) \in Attempts /\ SaveQueue(MainPlan, WithEntry(local, entry).view)
             /\ Become(p, WithEntry(local, entry))
    <2>1. entry \in Placed
      BY LocalsAccess, EntryType DEF UnitStatuses
    <2>2. local \in Locals
      BY <1>1, <1>2, <1>3, ProcType, LocalsWith, StepsKnown
    <2>3. WithEntry(local, entry) \in Locals
      BY <2>1, <2>2, WithEntryType
    <2>4. WithEntry(local, entry).view \in [Units -> Placed]
      BY <2>3 DEF Locals
    <2>5. QED
      BY <1>3, <2>3, <2>4, SaveStepType DEF Begin
  <1>4. CASE Return(p) /\ UNCHANGED queue
    BY <1>4, IdleType, LocalStepType DEF Begin, Return, recordVars
  <1>5. QED
    BY <1>3, <1>4 DEF Begin

\* So does announcing a repair.
LEMMA RepairType ==
    ASSUME TypeInv, NEW p \in Procs, Repair(p)
    PROVE  TypeInv'
  <1> DEFINE entry == [EntryOf(p) EXCEPT !.status = "in_progress", !.attempt = proc[p].attempt]
             local == WithEntry(proc[p], entry)
  <1>1. CASE SaveQueue(MainPlan, local.view) /\ Become(p, [local EXCEPT !.pc = "open"])
    <2>1. entry \in Placed
      BY LocalsAccess, EntryType DEF UnitStatuses
    <2>2. local \in Locals
      BY <2>1, LocalsAccess, WithEntryType
    <2>3. local.view \in [Units -> Placed] /\ [local EXCEPT !.pc = "open"] \in Locals
      BY <2>2, StepType, StepsKnown DEF Locals
    <2>4. QED
      BY <1>1, <2>3, SaveStepType DEF Repair
  <1>2. CASE Goto(p, "open") /\ UNCHANGED queue
    <2>1. [proc[p] EXCEPT !.pc = "open"] \in Locals
      BY LocalsAccess, StepType, StepsKnown
    <2>2. QED
      BY <1>2, <2>1, LocalStepType DEF Repair, Goto, recordVars
  <1>3. QED
    BY <1>1, <1>2 DEF Repair

\* The record of an attempt that starts is a record.
LEMMA StartedType ==
    ASSUME TypeInv, NEW p \in Procs
    PROVE  Started(p) \in Records
  <1>1. Outside(UnitOf(p)) \in SUBSET Paths
    BY DEF Outside
  <1>2. Diff(Paths) \in Diffs /\ Diff(Outside(UnitOf(p))) \in Diffs
    BY <1>1, DiffType DEF TypeInv
  <1>3. proc[p].head \in Nat
    BY LocalsAccess DEF Locals
  <1>4. QED
    BY <1>2, <1>3, NoRecordType DEF Started, Records

\* Opening an attempt keeps the types.
LEMMA OpenType ==
    ASSUME TypeInv, NEW p \in Procs, Open(p)
    PROVE  TypeInv'
  <1> DEFINE stale == [EntryOf(p) EXCEPT !.reason = "stale"]
  <1>1. [proc[p] EXCEPT !.pc = "implement"] \in Locals
    BY LocalsAccess, StepType, StepsKnown
  <1>2. stale \in Placed
    BY LocalsAccess DEF Placed, Entries, Reasons
  <1>3. Holding(proc[p], stale, FALSE) \in Locals
    BY <1>2, LocalsAccess, HoldingType
  <1>4. CASE CompareAndSet(UnitOf(p), proc[p].attempt, 0, Started(p)) /\ Goto(p, "implement")
    <2>1. ledger' \in [Units -> [Attempts -> Records]]
      <3>1. UNCHANGED recordVars
        BY DEF Open
      <3>2. QED
        BY <1>4, <3>1, LocalsAccess, StartedType, CompareAndSetType DEF FilesOK
    <2>2. QED
      BY <1>1, <1>4, <2>1, LedgerStepType DEF Open, Goto
  <1>5. CASE UNCHANGED ledger /\ Goto(p, "implement")
    BY <1>1, <1>5, LocalStepType DEF Open, Goto
  <1>6. CASE UNCHANGED ledger /\ Become(p, Holding(proc[p], stale, FALSE))
    BY <1>3, <1>6, LocalStepType DEF Open
  <1>7. QED
    BY <1>4, <1>5, <1>6 DEF Open

\* A process that reports how its child ended keeps the type of the ledgers.
LEMMA ReportedType ==
    ASSUME TypeInv, NEW p \in Procs, NEW closed \in BOOLEAN, NEW status \in {"failure", "pass"},
           CompareAndSet(UnitOf(p), proc[p].attempt, RecordOf(p).rev,
                         [RecordOf(p) EXCEPT !.closed = closed, !.status = status]),
           UNCHANGED recordVars
    PROVE  ledger' \in [Units -> [Attempts -> Records]]
  <1> DEFINE new == [RecordOf(p) EXCEPT !.closed = closed, !.status = status]
  <1>1. RecordOf(p) \in Records /\ RecordOf(p).rev \in Nat
    BY LocalsAccess, RecordsWith
  <1>2. new \in Records
    BY <1>1, RecordsWith
  <1> HIDE DEF new
  <1>3. QED
    BY <1>1, <1>2, LocalsAccess, CompareAndSetType DEF FilesOK, new

\* The child and the reviewer keep the types.
LEMMA WorkType ==
    ASSUME TypeInv, NEW p \in Procs,
           ChildEnds(p) \/ DeterministicGate(p) \/ ReviewStarts(p) \/ ReviewEnds(p)
    PROVE  TypeInv'
  <1>1. CASE ChildEnds(p)
    <2>1. PICK verdict \in {"pass", "hold", "failure"}, closed \in BOOLEAN :
             /\ CompareAndSet(UnitOf(p), proc[p].attempt, RecordOf(p).rev,
                   [RecordOf(p) EXCEPT !.closed = closed,
                      !.status = IF verdict = "failure" THEN "failure" ELSE "pass"])
             /\ Become(p, [proc[p] EXCEPT !.verdict = verdict,
                   !.pc = IF verdict = "pass" THEN "review" ELSE "finalize"])
      BY <1>1 DEF ChildEnds
    <2>2. ledger' \in [Units -> [Attempts -> Records]]
      <3>1. UNCHANGED recordVars
        BY <1>1 DEF ChildEnds
      <3>2. QED
        BY <2>1, <3>1, ReportedType
    <2>3. [proc[p] EXCEPT !.verdict = verdict,
             !.pc = IF verdict = "pass" THEN "review" ELSE "finalize"] \in Locals
      BY ProcType, LocalsWith, StepsKnown DEF Verdicts
    <2>4. QED
      BY <1>1, <2>1, <2>2, <2>3, LedgerStepType DEF ChildEnds
  <1>2. CASE DeterministicGate(p)
    <2>1. [proc[p] EXCEPT !.pc = "finalize", !.verdict = "pass"] \in Locals
      BY ProcType, LocalsWith, StepsKnown DEF Verdicts
    <2>2. QED
      BY <1>2, <2>1, LocalStepType DEF DeterministicGate
  <1>3. CASE ReviewStarts(p)
    <2>1. FailureState(HeadCommit, "none") \in Failures
      BY HeadType, FailureStateType DEF TypeInv, Reasons
    <2>2. [proc[p] EXCEPT !.pc = "reviewing", !.reviewing = FailureState(HeadCommit, "none")]
            \in Locals
      BY <2>1, ProcType, LocalsWith, StepsKnown
    <2>3. QED
      BY <1>3, <2>2, LocalStepType DEF ReviewStarts
  <1>4. CASE ReviewEnds(p)
    <2>1. PICK verdict \in ReviewVerdicts(p), closed \in BOOLEAN :
             /\ CompareAndSet(UnitOf(p), proc[p].attempt, RecordOf(p).rev,
                   [RecordOf(p) EXCEPT !.closed = closed,
                      !.status = IF verdict = "review_failure" THEN "failure" ELSE "pass"])
             /\ Become(p, [proc[p] EXCEPT !.pc = "finalize", !.verdict = verdict])
      BY <1>4 DEF ReviewEnds
    <2>2. verdict \in Verdicts
      BY DEF ReviewVerdicts, Verdicts
    <2>3. ledger' \in [Units -> [Attempts -> Records]]
      <3>1. UNCHANGED recordVars
        BY <1>4 DEF ReviewEnds
      <3>2. QED
        BY <2>1, <3>1, ReportedType
    <2>4. [proc[p] EXCEPT !.pc = "finalize", !.verdict = verdict] \in Locals
      BY <2>2, ProcType, LocalsWith, StepsKnown
    <2>5. QED
      BY <1>4, <2>1, <2>3, <2>4, LedgerStepType DEF ReviewEnds
  <1>5. QED
    BY <1>1, <1>2, <1>3, <1>4

\* An entry that names an attempt and why it is held keeps its place.
LEMMA HeldPlaced ==
    ASSUME NEW e \in Placed, NEW a \in Attempts, NEW S \in SUBSET Paths, NEW why \in Reasons
    PROVE  /\ [e EXCEPT !.attempt = a, !.changed = S, !.reason = why] \in Placed
           /\ \A r \in Nat, f \in Failures :
                 [e EXCEPT !.attempt = a, !.rev = r, !.changed = S, !.reason = why, !.failed = f]
                     \in Placed
  <1>1. e \in Entries /\ a \in Nat
    BY ExecutionBoundsAssumption DEF Placed, Attempts
  <1> DEFINE n == [e EXCEPT !.attempt = a, !.changed = S, !.reason = why]
  <1>2. n \in Entries /\ n.attempt = a
    BY <1>1 DEF Entries
  <1>3. ASSUME NEW r \in Nat, NEW f \in Failures
        PROVE  [e EXCEPT !.attempt = a, !.rev = r, !.changed = S, !.reason = why, !.failed = f]
                   \in Placed
    <2> DEFINE m == [e EXCEPT !.attempt = a, !.rev = r, !.changed = S, !.reason = why,
                              !.failed = f]
    <2>1. m \in Entries /\ m.attempt = a
      BY <1>1 DEF Entries
    <2> HIDE DEF m
    <2>2. m \in Placed
      BY <2>1 DEF Placed
    <2>3. QED
      BY <2>2 DEF m
  <1> HIDE DEF n
  <1>4. n \in Placed
    BY <1>2 DEF Placed
  <1>5. QED
    BY <1>3, <1>4 DEF n

\* The entry of a unit that an attempt is held with keeps its place.
LEMMA HeldEntryType ==
    ASSUME TypeInv, NEW p \in Procs, NEW rev \in Nat, proc[p].verdict # "pass"
    PROVE  HeldEntry(p, rev) \in Placed
  <1> DEFINE changed == ChangedPaths(proc[p].kept, proc[p].before)
             reason == IF proc[p].verdict = "hold" /\ changed \ Allowed[UnitOf(p)] # {}
                       THEN "scope" ELSE proc[p].verdict
             head == IF proc[p].verdict = "review_failure"
                     THEN proc[p].reviewing.head ELSE proc[p].head
  <1>1. changed \in SUBSET Paths
    BY ChangedPathsType DEF TypeInv
  <1>2. reason \in Reasons
    BY LocalsAccess DEF Locals, Verdicts, Reasons
  <1>3. head \in {NoTip} \cup Nat
    BY LocalsAccess DEF Locals, Failures
  <1>4. FailureState(head, reason) \in Failures
    BY <1>2, <1>3, FailureStateType DEF TypeInv
  <1> DEFINE failed == IF proc[p].verdict = "hold" THEN EntryOf(p).failed
                       ELSE FailureState(head, reason)
  <1>5. HeldEntry(p, rev) =
          [EntryOf(p) EXCEPT !.attempt = proc[p].attempt, !.rev = rev, !.changed = changed,
             !.reason = reason,
             !.failed = failed]
    <2>1. EntryOf(p) \in Entries
      BY LocalsAccess DEF Placed
    <2>2. CASE proc[p].verdict = "hold"
      BY <2>1, <2>2 DEF HeldEntry, Entries
    <2>3. CASE proc[p].verdict # "hold"
      BY <2>3 DEF HeldEntry
    <2>4. QED
      BY <2>2, <2>3
  <1>6. EntryOf(p) \in Placed /\ proc[p].attempt \in Attempts
    BY LocalsAccess
  <1>7. failed \in Failures
    BY <1>4, <1>6 DEF Placed, Entries
  <1> HIDE DEF changed, reason, failed
  <1>8. QED
    <2>1. [EntryOf(p) EXCEPT !.attempt = proc[p].attempt, !.rev = rev, !.changed = changed,
                             !.reason = reason, !.failed = failed] \in Placed
      BY <1>1, <1>2, <1>6, <1>7, HeldPlaced
    <2>2. QED
      BY <1>5, <2>1

\* What follows an attempt are locals: the candidate is verified or the unit
\* held, and no attempt is repeated.
LEMMA AfterAttemptType ==
    ASSUME TypeInv, NEW p \in Procs, NEW rev \in Nat
    PROVE  /\ AfterAttempt(p, rev) \in Locals
           /\ AfterAttempt(p, rev) =
                IF proc[p].verdict = "pass"
                THEN [WithEntry(proc[p], [EntryOf(p) EXCEPT !.rev = rev]) EXCEPT !.pc = "verify"]
                ELSE Holding(proc[p], HeldEntry(p, rev), TRUE)
  <1> DEFINE entry == [EntryOf(p) EXCEPT !.rev = rev]
  <1>1. AfterAttempt(p, rev) =
          IF proc[p].verdict = "pass"
          THEN [WithEntry(proc[p], entry) EXCEPT !.pc = "verify"]
          ELSE Holding(proc[p], HeldEntry(p, rev), TRUE)
    BY NoRetry DEF AfterAttempt
  <1>2. [WithEntry(proc[p], entry) EXCEPT !.pc = "verify"] \in Locals
    <2>1. entry \in Placed
      BY LocalsAccess, EntryType
    <2>2. QED
      BY <2>1, LocalsAccess, WithEntryType, StepType, StepsKnown
  <1>3. proc[p].verdict # "pass" => Holding(proc[p], HeldEntry(p, rev), TRUE) \in Locals
    BY LocalsAccess, HeldEntryType, HoldingType
  <1>4. QED
    BY <1>1, <1>2, <1>3

\* Finalizing an attempt keeps the types.
LEMMA FinalizeType ==
    ASSUME TypeInv, NEW p \in Procs, Finalize(p)
    PROVE  TypeInv'
  <1> DEFINE final == [RecordOf(p) EXCEPT !.status = FinalStatus(p), !.head = proc[p].head]
  <1>1. FinalStatus(p) \in {"finalized", "scope_mismatch", "process_cleanup_failed",
                            "held_adoption_required"}
    BY DEF FinalStatus
  <1>2. final \in Records
    <2>1. proc[p].head \in Nat
      BY ProcType DEF Locals
    <2>2. QED
      BY <1>1, <2>1, LocalsAccess, RecordsWith
  <1>3. RecordOf(p).rev \in Nat /\ RecordOf(p).rev + 1 \in Nat
    BY LocalsAccess, RecordsWith
  <1>4. CompareAndSet(UnitOf(p), proc[p].attempt, RecordOf(p).rev, final)
    BY DEF Finalize
  <1>5. ledger' \in [Units -> [Attempts -> Records]]
    <2>1. UNCHANGED recordVars
      BY DEF Finalize
    <2>2. QED
      BY <1>2, <1>3, <1>4, <2>1, LocalsAccess, CompareAndSetType DEF FilesOK
  <1>6. QED
    BY <1>3, <1>5, AfterAttemptType, LedgerStepType DEF Finalize

\* So does verifying the candidate; what goes on to be prepared is in scope.
LEMMA VerifyType ==
    ASSUME TypeInv, NEW p \in Procs, Verify(p)
    PROVE  TypeInv'
  <1> DEFINE changed == ChangedPaths(proc[p].kept, proc[p].before)
             held == [EntryOf(p) EXCEPT !.attempt = proc[p].attempt, !.changed = changed,
                                        !.reason = ReleaseObstacle(p, changed)]
             listed == Listing(proc[p].kept, changed)
  <1>1. changed \in SUBSET Paths
    BY ChangedPathsType DEF TypeInv
  <1>2. ReleaseObstacle(p, changed) \in Reasons
    BY DEF ReleaseObstacle, Reasons
  <1>3. Become(p, [proc[p] EXCEPT !.pc = "prepare", !.changed = changed, !.listed = listed])
        \/ Become(p, Holding(proc[p], held, TRUE))
    BY DEF Verify
  <1> HIDE DEF changed
  <1>4. held \in Placed
    BY <1>1, <1>2, LocalsAccess, HeldPlaced
  <1>5. Holding(proc[p], held, TRUE) \in Locals
    BY <1>4, LocalsAccess, HoldingType
  <1>6. [proc[p] EXCEPT !.pc = "prepare", !.changed = changed, !.listed = listed] \in Locals
    <2>1. listed \in Listings
      BY ListingType
    <2> HIDE DEF listed
    <2>2. QED
      BY <1>1, <2>1, ProcType, LocalsWith, StepsKnown
  <1>7. QED
    BY <1>3, <1>5, <1>6, LocalStepType DEF Verify

\* What a release is prepared with is a record.
LEMMA PreparedType ==
    ASSUME TypeInv, NEW p \in Procs, NEW commit \in BOOLEAN, NEW message \in Messages
    PROVE  [RecordOf(p) EXCEPT !.state = "committing",
              !.kind = ReleaseKind(commit, proc[p].changed), !.parent = HeadCommit,
              !.paths = proc[p].changed, !.listed = proc[p].listed,
              !.candidate = Changes(HeadCommit, work, proc[p].changed),
              !.outside = Diff(Outside(UnitOf(p))), !.message = message] \in Records
  <1> DEFINE changed == proc[p].changed
             kind == ReleaseKind(commit, changed)
             candidate == Changes(HeadCommit, work, changed)
             outside == Diff(Outside(UnitOf(p)))
             listed == proc[p].listed
  <1>1. kind \in {"none", "committed", "uncommitted", "skipped"}
    BY DEF ReleaseKind
  <1>2. changed \in SUBSET Paths
    BY LocalsAccess
  <1>3. candidate \in Diffs
    BY <1>2, ChangesType DEF TypeInv, RepoOK
  <1>4. outside \in Diffs
    BY DiffType DEF TypeInv, Outside
  <1>5. HeadCommit \in Nat
    BY HeadType DEF TypeInv
  <1>6. message \in Messages \cup {""}
    OBVIOUS
  <1>7. RecordOf(p) \in Records
    BY LocalsAccess
  <1>8. listed \in Listings
    BY ProcType DEF Locals
  <1> HIDE DEF changed, kind, candidate, outside, listed
  <1>9. [RecordOf(p) EXCEPT !.state = "committing", !.kind = kind, !.parent = HeadCommit,
           !.paths = changed, !.listed = listed, !.candidate = candidate, !.outside = outside,
           !.message = message] \in Records
    BY <1>1, <1>2, <1>3, <1>4, <1>5, <1>6, <1>7, <1>8 DEF Records, Listings
  <1>10. QED
    BY <1>9 DEF changed, kind, candidate, outside, listed

\* Preparing a release keeps the types.
LEMMA PrepareType ==
    ASSUME TypeInv, NEW p \in Procs, Prepare(p)
    PROVE  TypeInv'
  <1> DEFINE u == UnitOf(p)
             a == proc[p].attempt
             changed == proc[p].changed
             record(commit, message) ==
                 [RecordOf(p) EXCEPT !.state = "committing",
                    !.kind = ReleaseKind(commit, changed), !.parent = HeadCommit,
                    !.paths = changed, !.listed = proc[p].listed,
                    !.candidate = Changes(HeadCommit, work, changed),
                    !.outside = Diff(Outside(u)), !.message = message]
  <1>1. PICK commit \in CommitFlags, message \in Messages :
           /\ CompareAndSet(u, a, RecordOf(p).rev, record(commit, message))
           /\ Become(p, [proc[p] EXCEPT !.pc = "check", !.seen = ledger'[u][a]])
    BY DEF Prepare
  <1>2. commit \in BOOLEAN
    BY FlagsAssumption
  <1>3. record(commit, message) \in Records
    BY <1>2, PreparedType
  <1>4. RecordOf(p).rev \in Nat
    BY LocalsAccess, RecordsWith
  <1> DEFINE r == record(commit, message)
  <1> HIDE DEF r
  <1>5. CompareAndSet(u, a, RecordOf(p).rev, r) /\ r \in Records
    BY <1>1, <1>3 DEF r
  <1>6. FilesOK'
    <2>1. UNCHANGED recordVars
      BY DEF Prepare
    <2>2. QED
      BY <1>4, <1>5, <2>1, LocalsAccess, CompareAndSetType
  <1>7. ledger'[u][a] \in Records
    BY <1>6, LocalsAccess DEF FilesOK
  <1>8. [proc[p] EXCEPT !.pc = "check", !.seen = ledger'[u][a]] \in Locals
    BY <1>7, ProcType, LocalsWith, StepsKnown
  <1>9. QED
    BY <1>1, <1>6, <1>8, LedgerStepType DEF Prepare, FilesOK

\* So do the checks before and after the commit that only read.
LEMMA CheckType ==
    ASSUME TypeInv, NEW p \in Procs, Check(p) \/ Revalidate(p) \/ DoneLogRead(p)
    PROVE  TypeInv'
  <1>1. /\ [proc[p] EXCEPT !.pc = "commit"] \in Locals
        /\ [proc[p] EXCEPT !.pc = "prove"] \in Locals
        /\ [proc[p] EXCEPT !.pc = "done_save"] \in Locals
    BY LocalsAccess, StepType, StepsKnown
  <1>2. log[MainPlan] \in SUBSET Lines
    BY FirstUnitType DEF TypeInv, FilesOK
  <1>3. [proc[p] EXCEPT !.pc = "done_log_write", !.lines = log[MainPlan]] \in Locals
    BY <1>2, ProcType, LocalsWith, StepsKnown
  <1>4. CASE Check(p)
    <2>1. Goto(p, "commit") \/ Goto(p, "prove") \/ Return(p)
      BY <1>4 DEF Check
    <2>2. QED
      BY <1>1, <1>4, <2>1, IdleType, LocalStepType DEF Check, Goto, Return
  <1>5. CASE Revalidate(p)
    <2>1. Goto(p, "done_save") \/ Return(p)
      BY <1>5 DEF Revalidate
    <2>2. QED
      BY <1>1, <1>5, <2>1, IdleType, LocalStepType DEF Revalidate, Goto, Return
  <1>6. CASE DoneLogRead(p)
    BY <1>3, <1>6, LocalStepType DEF DoneLogRead, ReadLog
  <1>7. QED
    BY <1>4, <1>5, <1>6

\* What a run commits are paths, with a message, in the name of its attempt.
LEMMA CommitArgs ==
    ASSUME TypeInv, NEW p \in Procs
    PROVE  /\ proc[p].seen.paths \in SUBSET Paths
           /\ proc[p].seen.message \in Messages \cup {""}
           /\ <<UnitOf(p), proc[p].attempt>> \in (Units \X Attempts) \cup {Outsider}
  <1>1. proc[p].seen \in Records
    BY LocalsAccess
  <1>2. proc[p].seen.paths \in SUBSET Paths /\ proc[p].seen.message \in Messages \cup {""}
    BY <1>1 DEF Records
  <1>3. QED
    BY <1>2, LocalsAccess

\* The commit keeps the types.
LEMMA CommitType ==
    ASSUME TypeInv, NEW p \in Procs, Commit(p)
    PROVE  TypeInv'
  <1>1. FilesOK'
    BY FilesStay DEF Commit, TypeInv
  <1>2. CASE /\ CommitPaths(proc[p].seen.paths, proc[p].seen.message,
                            <<UnitOf(p), proc[p].attempt>>)
             /\ Goto(p, "prove")
    <2>1. RepoOK'
      <3>1. edits' \in 0..MaxEdits /\ UNCHANGED shelf
        BY DEF Commit, TypeInv, RepoOK
      <3>2. QED
        BY <1>2, <3>1, CommitArgs, CommitPathsType DEF TypeInv
    <2>2. proc' \in [Procs -> Locals]
      BY <1>2, GotoType, StepsKnown
    <2>3. QED
      BY <1>1, <2>1, <2>2 DEF Commit, TypeInv
  <1>3. CASE Return(p) /\ UNCHANGED <<work, branch, tips, commits>>
    <2>1. UNCHANGED <<repoVars, recordVars, ledger, crashes>>
      BY <1>3 DEF Commit, repoVars, worktreeVars
    <2>2. QED
      BY <1>3, <2>1, IdleType, LocalStepType DEF Return
  <1>4. QED
    BY <1>2, <1>3 DEF Commit

\* So does proving it.
LEMMA ProveType ==
    ASSUME TypeInv, NEW p \in Procs, Prove(p)
    PROVE  TypeInv'
  <1> DEFINE u == UnitOf(p)
             a == proc[p].attempt
             seen == proc[p].seen
             proved == [seen EXCEPT !.state = "completed", !.commit = HeadCommit]
  <1>1. CASE /\ CompareAndSet(u, a, seen.rev, proved)
             /\ Become(p, [proc[p] EXCEPT !.pc = "done_save", !.seen = ledger'[u][a]])
    <2>1. HeadCommit \in Nat
      BY HeadType DEF TypeInv
    <2>2. seen \in Records /\ seen.rev \in Nat
      BY LocalsAccess, RecordsWith
    <2>3. proved \in Records
      BY <2>1, <2>2 DEF Records
    <2> HIDE DEF proved, seen
    <2>4. FilesOK'
      <3>1. UNCHANGED recordVars
        BY DEF Prove
      <3>2. QED
        BY <1>1, <2>2, <2>3, <3>1, LocalsAccess, CompareAndSetType
    <2>5. ledger'[u][a] \in Records
      BY <2>4, LocalsAccess DEF FilesOK
    <2>6. [proc[p] EXCEPT !.pc = "done_save", !.seen = ledger'[u][a]] \in Locals
      BY <2>5, ProcType, LocalsWith, StepsKnown
    <2>7. QED
      BY <1>1, <2>4, <2>6, LedgerStepType DEF Prove, FilesOK
  <1>2. CASE Return(p) /\ UNCHANGED ledger
    BY <1>2, IdleType, LocalStepType DEF Prove, Return
  <1>3. QED
    BY <1>1, <1>2 DEF Prove

\* So does recording the unit as done, in the queue, the log and the cache.
LEMMA DoneType ==
    ASSUME TypeInv, NEW p \in Procs, DoneSave(p) \/ DoneLogWrite(p) \/ DoneSync(p)
    PROVE  TypeInv'
  <1>1. CASE DoneSave(p)
    <2> DEFINE record == proc[p].seen
               entry == [EntryOf(p) EXCEPT !.status = "done", !.attempt = proc[p].attempt,
                                           !.rev = record.rev, !.changed = record.paths]
               local == WithEntry(proc[p], entry)
    <2>1. record.rev \in Nat /\ record.paths \in SUBSET Paths
      BY LocalsAccess, RecordsWith, CommitArgs
    <2>2. entry \in Placed
      BY <2>1, LocalsAccess, EntryType DEF UnitStatuses
    <2>3. local \in Locals
      BY <2>2, LocalsAccess, WithEntryType
    <2>4. local.view \in [Units -> Placed] /\ [local EXCEPT !.pc = "done_log_read"] \in Locals
      BY <2>3, StepType, StepsKnown DEF Locals
    <2>5. QED
      BY <1>1, <2>4, SaveStepType DEF DoneSave
  <1>2. CASE DoneLogWrite(p)
    <2>1. proc[p].lines \cup {<<UnitOf(p), "Completed">>} \in SUBSET Lines
      BY LocalsAccess DEF Lines
    <2>2. [proc[p] EXCEPT !.pc = "done_sync"] \in Locals
      BY LocalsAccess, StepType, StepsKnown
    <2>3. QED
      BY <1>2, <2>1, <2>2, LogStepType DEF DoneLogWrite, Goto
  <1>3. CASE DoneSync(p)
    BY <1>3, IdleType, SyncedType, SaveStepType DEF DoneSync, Return
  <1>4. QED
    BY <1>1, <1>2, <1>3

\* A process that dies keeps the types.
LEMMA CrashType ==
    ASSUME TypeInv, NEW p \in Procs, Crash(p)
    PROVE  TypeInv'
  <1>1. proc' \in [Procs -> Locals]
    BY ReturnType DEF Crash
  <1>2. crashes' \in 0..MaxCrashes
    BY ExecutionBoundsAssumption DEF Crash, TypeInv
  <1>3. RepoOK' /\ FilesOK'
    BY RepoStays, FilesStay DEF Crash, TypeInv
  <1>4. QED
    BY <1>1, <1>2, <1>3 DEF TypeInv

\* Edits and commits of others keep the types.
LEMMA EnvironmentType ==
    ASSUME TypeInv, Environment
    PROVE  TypeInv'
  <1>1. edits' \in 0..MaxEdits
    BY BoundsAssumption DEF Environment, OutsideCommit, Edit, TypeInv, RepoOK
  <1>2. RepoOK'
    <2>1. CASE \E x \in Paths : Edit(x)
      BY <1>1, <2>1 DEF Environment, Edit, TypeInv, RepoOK, Trees
    <2>2. CASE OutsideCommit
      <3>1. PICK S \in SUBSET Dirty(Paths), m \in Messages : CommitPaths(S, m, Outsider)
        BY <2>2 DEF OutsideCommit
      <3>2. S \in SUBSET Paths /\ UNCHANGED shelf
        BY DEF Dirty, Environment
      <3>3. QED
        BY <1>1, <3>1, <3>2, CommitPathsType DEF TypeInv
    <2>3. QED
      BY <2>1, <2>2 DEF Environment
  <1>3. FilesOK'
    BY FilesStay DEF Environment, TypeInv
  <1>4. QED
    BY <1>2, <1>3 DEF Environment, TypeInv

\* The types hold before anything was run.
LEMMA InitType == Init => TypeInv
  <1> SUFFICES ASSUME Init
               PROVE  TypeInv
    OBVIOUS
  <1>1. work \in Trees
    BY OriginalAssumption DEF Init, WorktreeInit, InitialTree, Trees
  <1>2. commits \in Seq(Commits) /\ Len(commits) = 0
    BY DEF Init, WorktreeInit
  <1>3. /\ branch \in Branches
        /\ tips \in [Branches -> {NoTip} \cup 0..Len(commits)]
        /\ tips[branch] # NoTip
    BY <1>2, TrunkAssumption DEF Init, WorktreeInit, NoTip
  <1>4. queue \in [Units -> Placed]
    <2>1. PICK S \in PerUnit : queue = [u \in Units |->
             [FreshUnit EXCEPT !.review = IF u \in S THEN "per_unit" ELSE "final_only"]]
      BY DEF Init
    <2>2. ASSUME NEW review \in {"per_unit", "final_only"}
          PROVE  [FreshUnit EXCEPT !.review = review] \in Placed
      BY FreshType DEF Placed, Entries
    <2>3. QED
      BY <2>1, <2>2
  <1>5. log \in [Plans -> SUBSET Lines]
    BY DEF Init
  <1>6. ledger \in [Units -> [Attempts -> Records]]
    BY NoRecordType DEF Init
  <1>7. proc \in [Procs -> Locals]
    BY IdleType DEF Init
  <1>8. crashes \in 0..MaxCrashes /\ edits \in 0..MaxEdits
    BY ExecutionBoundsAssumption, BoundsAssumption DEF Init, WorktreeInit
  <1>9. shelf \subseteq Diffs
    BY DEF Init
  <1>10. QED
    BY <1>1, <1>2, <1>3, <1>4, <1>5, <1>6, <1>7, <1>8, <1>9 DEF TypeInv, RepoOK, FilesOK

\* Every step keeps the types.
LEMMA TypeStep ==
    ASSUME TypeInv, [Next]_vars
    PROVE  TypeInv'
  <1>1. CASE UNCHANGED vars
    BY <1>1, RepoStays, FilesStay DEF vars, TypeInv, repoVars, worktreeVars, recordVars
  <1>2. ASSUME NEW p \in Procs, Attempt(p)
        PROVE  TypeInv'
    BY <1>2, ReloadType, AttestType, StartType, BeginType, RepairType, OpenType, WorkType,
       FinalizeType, VerifyType DEF Attempt
  <1>3. ASSUME NEW p \in Procs, Release(p)
        PROVE  TypeInv'
    BY <1>3, PrepareType, CheckType, CommitType, ProveType, DoneType DEF Release
  <1>4. CASE Next
    BY <1>2, <1>3, <1>4, SelectType, RecoverType, HoldType, CrashType, EnvironmentType
       DEF Next, Continue
  <1>5. QED
    BY <1>1, <1>4

\* The inductive types hold in every reachable state.
LEMMA TypesHold == Spec => []TypeInv
  <1>1. TypeInv /\ [Next]_vars => TypeInv'
    BY TypeStep
  <1>2. QED
    BY <1>1, InitType, PTL DEF Spec

\* Whatever the constants, every file, the checkout, the ledgers and every
\* run's locals keep their types through all interleavings, edits and crashes.
THEOREM TypeCorrect == Spec => []TypeOK
  BY TypesHold, TypesImplied, PTL

-----------------------------------------------------------------------------
(* What a step leaves of the locals *)

\* k is l at another step: the unit, the queue, the snapshot and the line of a
\* hold are what they were.
Moves(l, k, s) ==
    k.pc = s /\ k.unit = l.unit /\ k.view = l.view /\ k.seen = l.seen /\ k.held = l.held

\* Becoming some locals leaves the other processes alone.
LEMMA BecomeEffect ==
    ASSUME TypeInv, NEW p \in Procs, NEW l, Become(p, l)
    PROVE  proc'[p] = l /\ \A q \in Procs : q # p => proc'[q] = proc[q]
  BY DEF TypeInv, Become

\* A run that only goes on to another step moves there.
LEMMA StepMoves ==
    ASSUME NEW l \in Locals, NEW s
    PROVE  Moves(l, [l EXCEPT !.pc = s], s)
  BY DEF Locals, Moves

\* So does one that remembers what it read or decided on the way.
LEMMA WithMoves ==
    ASSUME NEW l \in Locals, NEW s
    PROVE  /\ \A S : Moves(l, [l EXCEPT !.pc = s, !.lines = S], s)
           /\ \A S : Moves(l, [l EXCEPT !.pc = s, !.kept = S], s)
           /\ \A S, o : Moves(l, [l EXCEPT !.pc = s, !.changed = S, !.listed = o], s)
           /\ \A f : Moves(l, [l EXCEPT !.pc = s, !.reviewing = f], s)
           /\ \A v : Moves(l, [l EXCEPT !.pc = s, !.verdict = v], s)
           /\ \A v : Moves(l, [l EXCEPT !.verdict = v, !.pc = s], s)
  BY DEF Locals, Moves

\* What was read of the log, or counted as changed, is remembered.
LEMMA WithKept ==
    ASSUME NEW l \in Locals, NEW s
    PROVE  /\ \A S : [l EXCEPT !.pc = s, !.lines = S].lines = S
           /\ \A S, o : [l EXCEPT !.pc = s, !.changed = S, !.listed = o].changed = S
  BY DEF Locals

\* Another snapshot of the ledger leaves the rest of the locals.
LEMMA SeenMoves ==
    ASSUME NEW l \in Locals, NEW s, NEW r
    PROVE  LET k == [l EXCEPT !.pc = s, !.seen = r]
           IN  k.pc = s /\ k.unit = l.unit /\ k.view = l.view /\ k.seen = r /\ k.held = l.held
  BY DEF Locals

\* Another entry of the unit leaves the rest of the locals.
LEMMA WithEntryMoves ==
    ASSUME NEW l \in Locals, NEW e
    PROVE  LET k == WithEntry(l, e)
           IN  /\ k.pc = l.pc /\ k.unit = l.unit /\ k.seen = l.seen /\ k.held = l.held
               /\ k.view = [l.view EXCEPT ![l.unit] = e]
  BY DEF Locals, WithEntry

\* A hold shows the unit as needing work and says so in its line at most.
LEMMA HoldingMoves ==
    ASSUME NEW l \in Locals, NEW e \in Placed, NEW line \in BOOLEAN
    PROVE  LET k == Holding(l, e, line)
           IN  /\ k.pc = "hold_save" /\ k.unit = l.unit /\ k.seen = l.seen
               /\ k.held \subseteq {<<l.unit, "needs_work">>}
               /\ k.view[l.unit].status = "needs_work"
               /\ \A v \in Units : v # l.unit => k.view[v] = l.view[v]
  <1> DEFINE n == [e EXCEPT !.status = "needs_work"]
             w == WithEntry(l, n)
             h == IF line THEN {<<l.unit, "needs_work">>} ELSE {}
  <1>1. n \in Placed /\ n.status = "needs_work"
    <2>1. n \in Placed
      BY EntryType DEF UnitStatuses
    <2>2. n.status = "needs_work"
      BY DEF Placed, Entries
    <2>3. QED
      BY <2>1, <2>2
  <1>2. w \in Locals
    BY <1>1, WithEntryType
  <1>3. w.unit = l.unit /\ w.seen = l.seen /\ w.view = [l.view EXCEPT ![l.unit] = n]
    BY WithEntryMoves
  <1>4. l.unit \in Units /\ l.view \in [Units -> Placed]
    BY DEF Locals
  <1>5. w.view[l.unit].status = "needs_work" /\ \A v \in Units : v # l.unit => w.view[v] = l.view[v]
    BY <1>1, <1>3, <1>4
  <1>6. Holding(l, e, line) = [w EXCEPT !.pc = "hold_save", !.held = h]
    BY DEF Holding
  <1>7. h \subseteq {<<l.unit, "needs_work">>}
    OBVIOUS
  <1> HIDE DEF w, h, n
  <1>8. LET k == [w EXCEPT !.pc = "hold_save", !.held = h]
        IN  k.pc = "hold_save" /\ k.unit = w.unit /\ k.seen = w.seen /\ k.view = w.view
            /\ k.held = h
    BY <1>2 DEF Locals
  <1>9. QED
    BY <1>3, <1>5, <1>6, <1>7, <1>8

-----------------------------------------------------------------------------
(* How a run goes on *)

\* The run of p goes on with its unit, as far as the release: of the copy of the
\* queue it changes the entry of the unit only, the line of a hold reads as
\* needs_work, and what it read of the log is the log.
Onward(p) ==
    LET l == proc[p]
        n == proc'[p]
    IN  /\ \A q \in Procs : q # p => proc'[q] = proc[q]
        /\ n.pc \in WorkSteps /\ n.unit = l.unit
        /\ \A v \in Units : v # l.unit => n.view[v] = l.view[v]
        /\ n.held \subseteq l.held \cup {<<l.unit, "needs_work">>}
        /\ n.pc = "hold_save" => n.view[l.unit].status = "needs_work"
        /\ n.pc = "hold_log_write" => n.lines = log[MainPlan]

\* It takes no other snapshot of the ledger, and gets ready neither to prepare
\* nor to compare a release that was proved.
Keeps(p) == proc'[p].seen = proc[p].seen /\ proc'[p].pc \notin {"prepare", "revalidate"}

\* Or it ends.
Ends(p) == proc'[p] = Idle /\ \A q \in Procs : q # p => proc'[q] = proc[q]

\* The steps of a run up to the proof, by name.
LEMMA WorkKnown ==
    /\ "recover" \in WorkSteps /\ "reload" \in WorkSteps /\ "attest" \in WorkSteps
    /\ "start" \in WorkSteps /\ "begin" \in WorkSteps /\ "repair" \in WorkSteps
    /\ "open" \in WorkSteps /\ "implement" \in WorkSteps /\ "review" \in WorkSteps
    /\ "reviewing" \in WorkSteps /\ "finalize" \in WorkSteps /\ "verify" \in WorkSteps
    /\ "prepare" \in WorkSteps /\ "check" \in WorkSteps /\ "commit" \in WorkSteps
    /\ "prove" \in WorkSteps /\ "revalidate" \in WorkSteps /\ "hold_save" \in WorkSteps
    /\ "hold_log_read" \in WorkSteps /\ "hold_log_write" \in WorkSteps
    /\ WorkSteps \subseteq Steps
  BY DEF WorkSteps, Steps

\* A run that returns ends.
LEMMA ReturnEnds ==
    ASSUME TypeInv, NEW p \in Procs, Return(p)
    PROVE  Ends(p)
  BY BecomeEffect DEF Return, Ends

\* A run that moves to another step goes on.
LEMMA MovesOnward ==
    ASSUME TypeInv, NEW p \in Procs, NEW l, Become(p, l),
           NEW s \in WorkSteps, s \notin {"hold_save", "prepare", "revalidate"},
           Moves(proc[p], l, s),
           s = "hold_log_write" => l.lines = log[MainPlan]
    PROVE  Onward(p) /\ Keeps(p)
  BY BecomeEffect DEF Moves, Onward, Keeps

\* So does one that only changes its step.
LEMMA GotoOnward ==
    ASSUME TypeInv, NEW p \in Procs, NEW s \in WorkSteps,
           s \notin {"hold_save", "prepare", "revalidate", "hold_log_write"}, Goto(p, s)
    PROVE  Onward(p) /\ Keeps(p)
  BY ProcType, StepMoves, MovesOnward DEF Goto

\* So does one that gives its unit another entry.
LEMMA EntryOnward ==
    ASSUME TypeInv, NEW p \in Procs, NEW e \in Placed, NEW s \in WorkSteps,
           s \notin {"hold_save", "prepare", "revalidate", "hold_log_write"},
           Become(p, [WithEntry(proc[p], e) EXCEPT !.pc = s])
    PROVE  Onward(p) /\ Keeps(p)
  <1> DEFINE w == WithEntry(proc[p], e)
  <1>1. w \in Locals
    BY ProcType, WithEntryType
  <1>2. /\ w.unit = proc[p].unit /\ w.seen = proc[p].seen /\ w.held = proc[p].held
        /\ w.view = [proc[p].view EXCEPT ![proc[p].unit] = e]
    BY ProcType, WithEntryMoves
  <1>3. \A v \in Units : v # proc[p].unit => w.view[v] = proc[p].view[v]
    BY <1>2, ProcType DEF Locals
  <1> DEFINE k == [w EXCEPT !.pc = s]
  <1>4. proc'[p] = k /\ \A q \in Procs : q # p => proc'[q] = proc[q]
    BY BecomeEffect
  <1> HIDE DEF w
  <1>5. k.pc = s /\ k.unit = w.unit /\ k.seen = w.seen /\ k.held = w.held /\ k.view = w.view
    BY <1>1, StepMoves DEF Moves
  <1> HIDE DEF k
  <1>6. QED
    BY <1>2, <1>3, <1>4, <1>5 DEF Onward, Keeps

\* So does one that holds its unit.
LEMMA HoldingOnward ==
    ASSUME TypeInv, NEW p \in Procs, NEW e \in Placed, NEW line \in BOOLEAN,
           Become(p, Holding(proc[p], e, line))
    PROVE  Onward(p) /\ Keeps(p)
  <1> DEFINE k == Holding(proc[p], e, line)
  <1>1. /\ k.pc = "hold_save" /\ k.unit = proc[p].unit /\ k.seen = proc[p].seen
        /\ k.held \subseteq {<<proc[p].unit, "needs_work">>}
        /\ k.view[proc[p].unit].status = "needs_work"
        /\ \A v \in Units : v # proc[p].unit => k.view[v] = proc[p].view[v]
    BY ProcType, HoldingMoves
  <1>2. proc'[p] = k /\ \A q \in Procs : q # p => proc'[q] = proc[q]
    BY BecomeEffect
  <1> HIDE DEF k
  <1>3. QED
    BY <1>1, <1>2, WorkKnown DEF Onward, Keeps

\* Looking for a release leads to its check, to its comparison when it was
\* proved, or to a new attempt.
LEMMA RecoverOnward ==
    ASSUME TypeInv, NEW p \in Procs, Recover(p)
    PROVE  /\ Onward(p) /\ proc'[p].pc # "prepare"
           /\ \/ proc'[p].seen = proc[p].seen /\ proc'[p].pc = "reload"
              \/ \E a \in Attempts : /\ proc'[p].seen = ledger[UnitOf(p)][a]
                                     /\ proc'[p].pc = "revalidate" =>
                                            ledger[UnitOf(p)][a].state = "completed"
                                     /\ proc'[p].pc \in {"check", "revalidate"}
  <1> DEFINE a == ReleaseAttempt(UnitOf(p), EntryOf(p))
             record == ledger[UnitOf(p)][a]
             taken(s) == [proc[p] EXCEPT !.attempt = a, !.seen = record, !.pc = s]
  <1>1. a \in Attempts
    BY LocalsAccess, ReleaseAttemptType
  <1>2. CASE Goto(p, "reload")
    <2>1. Onward(p) /\ Keeps(p)
      BY <1>2, GotoOnward, WorkKnown
    <2>2. proc'[p] = [proc[p] EXCEPT !.pc = "reload"]
      BY <1>2, BecomeEffect DEF Goto
    <2>3. [proc[p] EXCEPT !.pc = "reload"].pc = "reload"
      BY ProcType, StepMoves DEF Moves
    <2>4. QED
      BY <2>1, <2>2, <2>3 DEF Keeps
  <1>3. ASSUME NEW s \in {"check", "revalidate"}, Become(p, taken(s)),
               s = "revalidate" => record.state = "completed"
        PROVE  /\ Onward(p) /\ proc'[p].pc = s /\ proc'[p].seen = record
    <2> HIDE DEF record, a
    <2>1. LET k == taken(s)
          IN  k.pc = s /\ k.unit = proc[p].unit /\ k.view = proc[p].view /\ k.seen = record
              /\ k.held = proc[p].held
      BY ProcType DEF Locals
    <2>2. s \in WorkSteps
      BY WorkKnown
    <2>3. QED
      BY <1>3, <2>1, <2>2, BecomeEffect DEF Onward
  <1>4. \/ Goto(p, "reload")
        \/ Become(p, taken("check"))
        \/ Become(p, taken("revalidate")) /\ record.state = "completed"
    BY DEF Recover, Recoverable
  <1> HIDE DEF taken
  <1>5. CASE Become(p, taken("check"))
    BY <1>1, <1>3, <1>5
  <1>6. CASE Become(p, taken("revalidate")) /\ record.state = "completed"
    BY <1>1, <1>3, <1>6
  <1>7. QED
    BY <1>2, <1>4, <1>5, <1>6

\* The steps that lead to an attempt go on or end.
LEMMA StartOnward ==
    ASSUME TypeInv, NEW p \in Procs, Attest(p) \/ Start(p)
    PROVE  \/ Onward(p) /\ Keeps(p)
           \/ Ends(p)
  <1> DEFINE held == [EntryOf(p) EXCEPT !.changed = {}, !.reason = "attestation"]
  <1>1. CASE Attest(p)
    <2>1. held \in Placed
      BY LocalsAccess DEF Placed, Entries, Reasons
    <2>2. Goto(p, "start") \/ Become(p, Holding(proc[p], held, TRUE))
      BY <1>1 DEF Attest
    <2>3. QED
      BY <2>1, <2>2, GotoOnward, HoldingOnward, WorkKnown
  <1>2. CASE Start(p)
    <2>1. Return(p) \/ \E kept : Become(p, [proc[p] EXCEPT !.pc = "begin", !.kept = kept])
      BY <1>2 DEF Start
    <2>2. ASSUME NEW kept, Become(p, [proc[p] EXCEPT !.pc = "begin", !.kept = kept])
          PROVE  Onward(p) /\ Keeps(p)
      <3>1. Moves(proc[p], [proc[p] EXCEPT !.pc = "begin", !.kept = kept], "begin")
        BY ProcType, WithMoves
      <3>2. QED
        BY <2>2, <3>1, MovesOnward, WorkKnown
    <2>3. QED
      BY <2>1, <2>2, ReturnEnds
  <1>3. QED
    BY <1>1, <1>2

\* Beginning an attempt and announcing a repair save the unit as in progress.
LEMMA BeginOnward ==
    ASSUME TypeInv, NEW p \in Procs, Begin(p) \/ Repair(p)
    PROVE  \/ Ends(p) /\ UNCHANGED queue
           \/ Onward(p) /\ Keeps(p) /\ UNCHANGED queue
           \/ /\ Onward(p) /\ Keeps(p)
              /\ queue' = proc'[p].view
              /\ queue'[UnitOf(p)].status = "in_progress"
  <1>0. UnitOf(p) \in Units /\ proc[p].view \in [Units -> Placed]
    BY LocalsAccess
  <1>1. CASE Begin(p)
    <2> DEFINE entry == [EntryOf(p) EXCEPT !.status = "in_progress"]
               local == [proc[p] EXCEPT !.pc = "repair", !.attempt = FirstAttempt(p),
                           !.limit = LastAttempt(p), !.head = HeadCommit, !.before = Status]
               n == WithEntry(local, entry)
    <2>1. CASE Return(p) /\ UNCHANGED queue
      BY <2>1, ReturnEnds
    <2>2. CASE /\ SaveQueue(MainPlan, n.view) /\ Become(p, n)
               /\ FirstAttempt(p) \in Attempts
      <3>1. Moves(proc[p], local, "repair")
        BY ProcType DEF Locals, Moves
      <3>2. entry \in Placed /\ entry.status = "in_progress"
        <4>1. entry \in Placed
          BY LocalsAccess, EntryType DEF UnitStatuses
        <4>2. entry.status = "in_progress"
          BY LocalsAccess DEF Placed, Entries
        <4>3. QED
          BY <4>1, <4>2
      <3>3. HeadCommit \in Nat /\ Status \in Statuses
        BY HeadType, StatusType DEF TypeInv
      <3>4. LastAttempt(p) \in Nat
        <4>1. EntryOf(p).attempt \in Nat
          BY LocalsAccess DEF Placed, Entries
        <4>2. QED
          BY <4>1, ExecutionBoundsAssumption DEF LastAttempt
      <3>5. local \in Locals
        BY <2>2, <3>3, <3>4, ProcType, LocalsWith, StepsKnown
      <3> HIDE DEF local, entry
      <3>6. n \in Locals
        BY <3>2, <3>5, WithEntryType
      <3>7. /\ n.pc = "repair" /\ n.unit = UnitOf(p) /\ n.seen = proc[p].seen
            /\ n.held = proc[p].held
            /\ n.view = [proc[p].view EXCEPT ![UnitOf(p)] = entry]
        BY <3>1, <3>5, WithEntryMoves DEF Moves, UnitOf
      <3> HIDE DEF n
      <3>8. /\ n.view[UnitOf(p)] = entry
            /\ \A v \in Units : v # UnitOf(p) => n.view[v] = proc[p].view[v]
        BY <1>0, <3>7
      <3>9. n.view \in [Units -> Placed]
        BY <3>6 DEF Locals
      <3>10. queue' = n.view
        BY <2>2, <3>9, SamePlan DEF SaveQueue
      <3>11. proc'[p] = n /\ \A q \in Procs : q # p => proc'[q] = proc[q]
        BY <2>2, BecomeEffect
      <3>12. Onward(p) /\ Keeps(p)
        BY <3>7, <3>8, <3>11, WorkKnown DEF Onward, Keeps, UnitOf
      <3>13. QED
        BY <3>2, <3>8, <3>10, <3>11, <3>12
    <2>3. QED
      BY <1>1, <2>1, <2>2 DEF Begin
  <1>2. CASE Repair(p)
    <2> DEFINE entry == [EntryOf(p) EXCEPT !.status = "in_progress", !.attempt = proc[p].attempt]
               n == WithEntry(proc[p], entry)
    <2>1. CASE Goto(p, "open") /\ UNCHANGED queue
      BY <2>1, GotoOnward, WorkKnown
    <2>2. CASE SaveQueue(MainPlan, n.view) /\ Become(p, [n EXCEPT !.pc = "open"])
      <3>1. entry \in Placed
        BY LocalsAccess, EntryType DEF UnitStatuses
      <3>2. entry.status = "in_progress"
        BY LocalsAccess DEF Placed, Entries
      <3> HIDE DEF entry
      <3>3. n \in Locals
        BY <3>1, ProcType, WithEntryType
      <3>4. Onward(p) /\ Keeps(p)
        BY <2>2, <3>1, EntryOnward, WorkKnown
      <3>5. n.view = [proc[p].view EXCEPT ![UnitOf(p)] = entry]
        BY ProcType, WithEntryMoves DEF UnitOf
      <3> HIDE DEF n
      <3>6. n.view \in [Units -> Placed] /\ n.view[UnitOf(p)] = entry
        BY <1>0, <3>3, <3>5 DEF Locals
      <3>7. queue' = n.view
        BY <2>2, <3>6, SamePlan DEF SaveQueue
      <3>8. proc'[p] = [n EXCEPT !.pc = "open"]
        BY <2>2, BecomeEffect
      <3>9. [n EXCEPT !.pc = "open"].view = n.view
        BY <3>3, StepMoves DEF Moves
      <3>10. QED
        BY <3>2, <3>4, <3>6, <3>7, <3>8, <3>9
    <2>3. QED
      BY <1>2, <2>1, <2>2 DEF Repair
  <1>3. QED
    BY <1>1, <1>2

-----------------------------------------------------------------------------
(* Exactness *)

Scoped(u, r) == r.paths \subseteq Allowed[u]

\* What a run holds is in scope, and so is what it is about to prepare.
LocalScoped(l) ==
    /\ Scoped(l.unit, l.seen)
    /\ l.pc = "prepare" => l.changed \subseteq Allowed[l.unit]

Exact(r) ==
    r.state = "completed" /\ r.kind = "committed" =>
        /\ r.commit \in 1..Len(commits)
        /\ commits[r.commit].parent = r.parent
        /\ commits[r.commit].message = r.message
        /\ Changes(r.parent, Tree(r.commit), Paths) = r.candidate
        /\ DOMAIN r.candidate = r.paths

HistoryInv == \A c \in 1..Len(commits) : commits[c].parent < c
ScopeInv ==
    /\ \A u \in Units, a \in Attempts : Scoped(u, ledger[u][a])
    /\ \A p \in Procs : LocalScoped(proc[p])
ReleaseInv == \A u \in Units, a \in Attempts : Exact(ledger[u][a])

ExactInv == TypeInv /\ HistoryInv /\ ScopeInv /\ ReleaseInv

\* Two records of the same release.
SameRelease(r, s) ==
    /\ s.state = r.state /\ s.kind = r.kind /\ s.parent = r.parent /\ s.paths = r.paths
    /\ s.candidate = r.candidate /\ s.message = r.message /\ s.commit = r.commit

\* The history only grows.
Grows ==
    /\ Len(commits) <= Len(commits')
    /\ \A c \in 1..Len(commits) : commits'[c] = commits[c]

\* A history with one more commit on top of HEAD has grown.
LEMMA OneMoreGrows ==
    ASSUME TypeInv, HistoryInv, Len(commits') = Len(commits) + 1,
           \A c \in 1..Len(commits) : commits'[c] = commits[c],
           commits'[Len(commits) + 1].parent = HeadCommit
    PROVE  Grows /\ HistoryInv'
  <1>1. RepoOK
    BY DEF TypeInv
  <1>2. Len(commits) \in Nat /\ HeadCommit \in Nat /\ HeadCommit <= Len(commits)
    BY <1>1, HeadType
  <1>3. HistoryInv'
    <2> SUFFICES ASSUME NEW c \in 1..Len(commits')
                 PROVE  commits'[c].parent < c
      BY DEF HistoryInv
    <2>1. CASE c \in 1..Len(commits)
      BY <2>1 DEF HistoryInv
    <2>2. CASE c = Len(commits) + 1
      BY <1>2, <2>2
    <2>3. QED
      BY <1>2, <2>1, <2>2
  <1>4. QED
    BY <1>2, <1>3 DEF Grows

\* Commits are made on commits that exist, and none is rewritten.
LEMMA CommitGrows ==
    ASSUME TypeInv, HistoryInv, NEW S \in SUBSET Paths, NEW m \in Messages \cup {""},
           NEW author \in (Units \X Attempts) \cup {Outsider},
           CommitPaths(S, m, author), edits' \in 0..MaxEdits, UNCHANGED shelf
    PROVE  Grows /\ HistoryInv'
  <1>1. RepoOK
    BY DEF TypeInv
  <1>2. QED
    BY <1>1, CommitPathsType, OneMoreGrows

\* A history that is left alone grows by nothing.
LEMMA SameGrows ==
    ASSUME TypeInv, HistoryInv, UNCHANGED commits
    PROVE  Grows /\ HistoryInv'
  BY DEF Grows, HistoryInv, TypeInv, RepoOK

\* An exact release stays exact, because no commit is rewritten.
LEMMA ExactStays ==
    ASSUME TypeInv, HistoryInv, Grows, TypeInv', NEW r \in Records, Exact(r)
    PROVE  Exact(r)'
  <1> SUFFICES ASSUME r.state = "completed", r.kind = "committed"
               PROVE  /\ r.commit \in 1..Len(commits')
                      /\ commits'[r.commit].parent = r.parent
                      /\ commits'[r.commit].message = r.message
                      /\ Changes(r.parent, Tree(r.commit), Paths)' = r.candidate
                      /\ DOMAIN r.candidate = r.paths
    BY DEF Exact
  <1> DEFINE c == r.commit
  <1>1. /\ c \in 1..Len(commits)
        /\ commits[c].parent = r.parent
        /\ commits[c].message = r.message
        /\ Changes(r.parent, Tree(c), Paths) = r.candidate
        /\ DOMAIN r.candidate = r.paths
    BY DEF Exact
  <1>2. Len(commits) \in Nat /\ Len(commits') \in Nat
    BY DEF TypeInv, RepoOK
  <1>3. c \in 1..Len(commits') /\ commits'[c] = commits[c]
    BY <1>1, <1>2 DEF Grows
  <1>4. Tree(c)' = Tree(c)
    BY <1>1, <1>3 DEF Tree
  <1>5. Tree(r.parent)' = Tree(r.parent)
    <2>1. r.parent \in Nat /\ r.parent < c
      <3>1. r.parent \in Nat
        BY DEF Records
      <3>2. QED
        BY <1>1, <3>1 DEF HistoryInv
    <2>2. r.parent = 0 \/ r.parent \in 1..Len(commits)
      BY <1>1, <1>2, <2>1
    <2>3. QED
      BY <2>2 DEF Grows, Tree
  <1>6. Changes(r.parent, Tree(c), Paths)' = Changes(r.parent, Tree(c), Paths)
    BY <1>4, <1>5 DEF Changes
  <1>7. QED
    BY <1>1, <1>3, <1>6

\* Another record of the same release is as exact, and in the same scope.
LEMMA SameExact ==
    ASSUME NEW r \in Records, NEW s \in Records, SameRelease(r, s)
    PROVE  /\ Exact(r) => Exact(s)
           /\ \A u \in Units : Scoped(u, r) => Scoped(u, s)
  BY DEF SameRelease, Exact, Scoped

\* A run that moves on, anywhere but to a preparation, stays in scope.
LEMMA MovesScoped ==
    ASSUME NEW l, NEW k, k.unit = l.unit, k.seen = l.seen, k.pc # "prepare", LocalScoped(l)
    PROVE  LocalScoped(k)
  BY DEF LocalScoped

\* So does one that returns or selects a unit.
LEMMA IdleScoped ==
    ASSUME NEW u \in Units
    PROVE  /\ LocalScoped(Idle)
           /\ LocalScoped([Idle EXCEPT !.pc = "recover", !.unit = u, !.view = queue])
  <1>1. NoRecord.paths = {}
    BY DEF NoRecord
  <1>2. /\ Idle.seen = NoRecord /\ Idle.pc = "idle"
        /\ [Idle EXCEPT !.pc = "recover", !.unit = u, !.view = queue].seen = NoRecord
        /\ [Idle EXCEPT !.pc = "recover", !.unit = u, !.view = queue].pc = "recover"
    BY DEF Idle
  <1>3. QED
    BY <1>1, <1>2 DEF LocalScoped, Scoped

\* What an attempt writes to its ledger before it is proved: nothing that looks
\* like another proved release, and nothing out of scope.
LedgerQuiet(p) ==
    /\ \A u \in Units : u # UnitOf(p) => ledger'[u] = ledger[u]
    /\ \A a \in Attempts :
          \/ SameRelease(ledger[UnitOf(p)][a], ledger'[UnitOf(p)][a])
          \/ /\ ledger'[UnitOf(p)][a].state # "completed"
             /\ Scoped(UnitOf(p), ledger'[UnitOf(p)][a])

\* A compare_and_set of such a record is quiet.
LEMMA CasQuiet ==
    ASSUME TypeInv, NEW p \in Procs, NEW v \in Nat, NEW r \in Records,
           CompareAndSet(UnitOf(p), proc[p].attempt, v, r),
           \/ SameRelease(RecordOf(p), r)
           \/ r.state # "completed" /\ Scoped(UnitOf(p), r)
    PROVE  LedgerQuiet(p)
  <1> DEFINE u == UnitOf(p)
             a == proc[p].attempt
             n == [r EXCEPT !.rev = v + 1]
  <1>1. u \in Units /\ a \in Attempts /\ ledger \in [Units -> [Attempts -> Records]]
    BY LocalsAccess DEF TypeInv, FilesOK
  <1>2. n.state = r.state /\ n.paths = r.paths /\ SameRelease(r, n)
    BY DEF Records, SameRelease
  <1>3. \/ SameRelease(RecordOf(p), n)
        \/ n.state # "completed" /\ Scoped(u, n)
    BY <1>2 DEF SameRelease, Scoped
  <1>4. ledger' = [ledger EXCEPT ![u][a] = n]
    BY DEF CompareAndSet
  <1> HIDE DEF n
  <1>5. /\ \A w \in Units : w # u => ledger'[w] = ledger[w]
        /\ ledger'[u][a] = n
        /\ \A b \in Attempts : b # a => ledger'[u][b] = ledger[u][b]
    BY <1>1, <1>4
  <1>6. \A b \in Attempts : SameRelease(ledger[u][b], ledger[u][b])
    BY DEF SameRelease
  <1>7. RecordOf(p) = ledger[u][a]
    BY DEF RecordOf
  <1> HIDE DEF u, a
  <1>8. ASSUME NEW b \in Attempts
        PROVE  \/ SameRelease(ledger[u][b], ledger'[u][b])
               \/ ledger'[u][b].state # "completed" /\ Scoped(u, ledger'[u][b])
    <2>1. CASE b = a
      BY <1>3, <1>5, <1>7, <2>1
    <2>2. CASE b # a
      BY <1>5, <1>6, <2>2
    <2>3. QED
      BY <2>1, <2>2
  <1>9. QED
    BY <1>5, <1>8 DEF LedgerQuiet, u

\* A ledger that is left alone is quiet.
LEMMA SameQuiet ==
    ASSUME UNCHANGED ledger, NEW p
    PROVE  LedgerQuiet(p)
  BY DEF LedgerQuiet, SameRelease

\* Opening an attempt is quiet, and the run goes on.
LEMMA OpenOnward ==
    ASSUME TypeInv, NEW p \in Procs, Open(p)
    PROVE  Onward(p) /\ Keeps(p) /\ LedgerQuiet(p)
  <1> DEFINE stale == [EntryOf(p) EXCEPT !.reason = "stale"]
  <1>1. CASE CompareAndSet(UnitOf(p), proc[p].attempt, 0, Started(p)) /\ Goto(p, "implement")
    <2>1. Started(p).state # "completed" /\ Started(p).paths = {}
      BY NoRecordType DEF Started, NoRecord, Records
    <2>2. LedgerQuiet(p)
      BY <1>1, <2>1, StartedType, CasQuiet DEF Scoped
    <2>3. QED
      BY <1>1, <2>2, GotoOnward, WorkKnown
  <1>2. CASE UNCHANGED ledger /\ Goto(p, "implement")
    BY <1>2, SameQuiet, GotoOnward, WorkKnown
  <1>3. CASE UNCHANGED ledger /\ Become(p, Holding(proc[p], stale, FALSE))
    <2>1. stale \in Placed
      BY LocalsAccess DEF Placed, Entries, Reasons
    <2>2. QED
      BY <1>3, <2>1, SameQuiet, HoldingOnward
  <1>4. QED
    BY <1>1, <1>2, <1>3 DEF Open

\* So are the child and the reviewer, who write how they ended.
LEMMA WorkOnward ==
    ASSUME TypeInv, NEW p \in Procs,
           ChildEnds(p) \/ DeterministicGate(p) \/ ReviewStarts(p) \/ ReviewEnds(p)
    PROVE  Onward(p) /\ Keeps(p) /\ LedgerQuiet(p)
  <1>1. RecordOf(p) \in Records /\ RecordOf(p).rev \in Nat
    BY LocalsAccess, RecordsWith
  <1>2. ASSUME NEW closed \in BOOLEAN, NEW status \in {"failure", "pass"},
               CompareAndSet(UnitOf(p), proc[p].attempt, RecordOf(p).rev,
                             [RecordOf(p) EXCEPT !.closed = closed, !.status = status])
        PROVE  LedgerQuiet(p)
    <2> DEFINE new == [RecordOf(p) EXCEPT !.closed = closed, !.status = status]
    <2>1. new \in Records
      BY <1>1, RecordsWith
    <2>2. SameRelease(RecordOf(p), new)
      BY <1>1 DEF Records, SameRelease
    <2>3. CompareAndSet(UnitOf(p), proc[p].attempt, RecordOf(p).rev, new)
      BY <1>2
    <2> HIDE DEF new
    <2>4. \/ SameRelease(RecordOf(p), new)
          \/ new.state # "completed" /\ Scoped(UnitOf(p), new)
      BY <2>2
    <2>5. QED
      BY <1>1, <2>1, <2>3, <2>4, CasQuiet
  <1>3. CASE ChildEnds(p)
    <2>1. PICK verdict \in {"pass", "hold", "failure"}, closed \in BOOLEAN :
             /\ CompareAndSet(UnitOf(p), proc[p].attempt, RecordOf(p).rev,
                   [RecordOf(p) EXCEPT !.closed = closed,
                      !.status = IF verdict = "failure" THEN "failure" ELSE "pass"])
             /\ Become(p, [proc[p] EXCEPT !.verdict = verdict,
                   !.pc = IF verdict = "pass" THEN "review" ELSE "finalize"])
      BY <1>3 DEF ChildEnds
    <2>2. LedgerQuiet(p)
      BY <1>2, <2>1
    <2> DEFINE s == IF verdict = "pass" THEN "review" ELSE "finalize"
    <2>3. Moves(proc[p], [proc[p] EXCEPT !.verdict = verdict, !.pc = s], s)
      BY ProcType, WithMoves
    <2>4. s \in WorkSteps /\ s \notin {"hold_save", "prepare", "revalidate", "hold_log_write"}
      BY WorkKnown
    <2>5. QED
      BY <2>1, <2>2, <2>3, <2>4, MovesOnward
  <1>4. CASE DeterministicGate(p)
    <2>1. Become(p, [proc[p] EXCEPT !.pc = "finalize", !.verdict = "pass"]) /\ UNCHANGED ledger
      BY <1>4 DEF DeterministicGate
    <2>2. Moves(proc[p], [proc[p] EXCEPT !.pc = "finalize", !.verdict = "pass"], "finalize")
      BY ProcType, WithMoves
    <2>3. QED
      BY <2>1, <2>2, MovesOnward, SameQuiet, WorkKnown
  <1>5. CASE ReviewStarts(p)
    <2> DEFINE k == [proc[p] EXCEPT !.pc = "reviewing",
                                    !.reviewing = FailureState(HeadCommit, "none")]
    <2>1. Become(p, k) /\ UNCHANGED ledger
      BY <1>5 DEF ReviewStarts
    <2>2. Moves(proc[p], k, "reviewing")
      BY ProcType, WithMoves
    <2> HIDE DEF k
    <2>3. QED
      BY <2>1, <2>2, MovesOnward, SameQuiet, WorkKnown
  <1>6. CASE ReviewEnds(p)
    <2>1. PICK verdict \in ReviewVerdicts(p), closed \in BOOLEAN :
             /\ CompareAndSet(UnitOf(p), proc[p].attempt, RecordOf(p).rev,
                   [RecordOf(p) EXCEPT !.closed = closed,
                      !.status = IF verdict = "review_failure" THEN "failure" ELSE "pass"])
             /\ Become(p, [proc[p] EXCEPT !.pc = "finalize", !.verdict = verdict])
      BY <1>6 DEF ReviewEnds
    <2>2. LedgerQuiet(p)
      BY <1>2, <2>1
    <2>3. Moves(proc[p], [proc[p] EXCEPT !.pc = "finalize", !.verdict = verdict], "finalize")
      BY ProcType, WithMoves
    <2>4. QED
      BY <2>1, <2>2, <2>3, MovesOnward, WorkKnown
  <1>7. QED
    BY <1>3, <1>4, <1>5, <1>6

\* So is finalizing the attempt.
LEMMA FinalizeOnward ==
    ASSUME TypeInv, NEW p \in Procs, Finalize(p)
    PROVE  Onward(p) /\ Keeps(p) /\ LedgerQuiet(p)
  <1> DEFINE final == [RecordOf(p) EXCEPT !.status = FinalStatus(p), !.head = proc[p].head]
             rev == RecordOf(p).rev
             entry == [EntryOf(p) EXCEPT !.rev = rev + 1]
  <1>1. RecordOf(p) \in Records /\ rev \in Nat /\ rev + 1 \in Nat
    BY LocalsAccess, RecordsWith
  <1>2. LedgerQuiet(p)
    <2>1. FinalStatus(p) \in {"finalized", "scope_mismatch", "process_cleanup_failed",
                              "held_adoption_required"}
      BY DEF FinalStatus
    <2>2. proc[p].head \in Nat
      BY ProcType DEF Locals
    <2>3. final \in Records
      BY <1>1, <2>1, <2>2, RecordsWith
    <2>4. SameRelease(RecordOf(p), final)
      BY <1>1 DEF Records, SameRelease
    <2>5. CompareAndSet(UnitOf(p), proc[p].attempt, rev, final)
      BY DEF Finalize
    <2> HIDE DEF final, rev
    <2>6. \/ SameRelease(RecordOf(p), final)
          \/ final.state # "completed" /\ Scoped(UnitOf(p), final)
      BY <2>4
    <2>7. QED
      BY <1>1, <2>3, <2>5, <2>6, CasQuiet
  <1>3. Become(p, IF proc[p].verdict = "pass"
                  THEN [WithEntry(proc[p], entry) EXCEPT !.pc = "verify"]
                  ELSE Holding(proc[p], HeldEntry(p, rev + 1), TRUE))
    BY <1>1, AfterAttemptType DEF Finalize
  <1>4. CASE proc[p].verdict = "pass"
    <2>1. entry \in Placed
      BY <1>1, LocalsAccess, EntryType
    <2>2. QED
      BY <1>2, <1>3, <1>4, <2>1, EntryOnward, WorkKnown
  <1>5. CASE proc[p].verdict # "pass"
    <2>1. HeldEntry(p, rev + 1) \in Placed
      BY <1>1, <1>5, HeldEntryType
    <2>2. QED
      BY <1>2, <1>3, <1>5, <2>1, HoldingOnward
  <1>6. QED
    BY <1>4, <1>5

\* Only what is in scope goes on to be prepared.
LEMMA VerifyOnward ==
    ASSUME TypeInv, NEW p \in Procs, Verify(p)
    PROVE  /\ Onward(p) /\ proc'[p].seen = proc[p].seen /\ proc'[p].pc # "revalidate"
           /\ proc'[p].pc = "prepare" => proc'[p].changed \subseteq Allowed[UnitOf(p)]
  <1> DEFINE changed == ChangedPaths(proc[p].kept, proc[p].before)
             held == [EntryOf(p) EXCEPT !.attempt = proc[p].attempt, !.changed = changed,
                                        !.reason = ReleaseObstacle(p, changed)]
             listed == Listing(proc[p].kept, changed)
             k == [proc[p] EXCEPT !.pc = "prepare", !.changed = changed, !.listed = listed]
  <1>1. \/ Become(p, k) /\ ReleaseObstacle(p, changed) = "none"
        \/ Become(p, Holding(proc[p], held, TRUE))
    BY DEF Verify
  <1>2. changed \in SUBSET Paths
    BY ChangedPathsType DEF TypeInv
  <1>3. ReleaseObstacle(p, changed) \in Reasons
    BY DEF ReleaseObstacle, Reasons
  <1>4. ReleaseObstacle(p, changed) = "none" => changed \subseteq Allowed[UnitOf(p)]
    BY DEF ReleaseObstacle
  <1> HIDE DEF changed
  <1>5. CASE Become(p, Holding(proc[p], held, TRUE))
    <2>1. held \in Placed
      BY <1>2, <1>3, LocalsAccess, HeldPlaced
    <2>2. QED
      BY <1>5, <2>1, HoldingOnward DEF Keeps
  <1>6. CASE Become(p, k) /\ ReleaseObstacle(p, changed) = "none"
    <2>1. Moves(proc[p], k, "prepare")
      BY ProcType, WithMoves
    <2>2. k.changed = changed
      BY ProcType, WithKept
    <2> HIDE DEF k
    <2>3. QED
      BY <1>4, <1>6, <2>1, <2>2, BecomeEffect, WorkKnown DEF Moves, Onward
  <1>7. QED
    BY <1>1, <1>5, <1>6

\* What is prepared is not proved yet, and in scope.
LEMMA PrepareOnward ==
    ASSUME TypeInv, NEW p \in Procs, LocalScoped(proc[p]), Prepare(p)
    PROVE  /\ Onward(p) /\ LedgerQuiet(p)
           /\ proc'[p].pc = "check" /\ proc'[p].seen = ledger'[UnitOf(p)][proc[p].attempt]
           /\ Scoped(UnitOf(p), proc'[p].seen)
  <1> DEFINE u == UnitOf(p)
             a == proc[p].attempt
             changed == proc[p].changed
             record(commit, message) ==
                 [RecordOf(p) EXCEPT !.state = "committing",
                    !.kind = ReleaseKind(commit, changed), !.parent = HeadCommit,
                    !.paths = changed, !.listed = proc[p].listed,
                    !.candidate = Changes(HeadCommit, work, changed),
                    !.outside = Diff(Outside(u)), !.message = message]
  <1>1. PICK commit \in CommitFlags, message \in Messages :
           /\ CompareAndSet(u, a, RecordOf(p).rev, record(commit, message))
           /\ Become(p, [proc[p] EXCEPT !.pc = "check", !.seen = ledger'[u][a]])
    BY DEF Prepare
  <1>2. record(commit, message) \in Records
    BY FlagsAssumption, PreparedType
  <1>3. RecordOf(p) \in Records /\ RecordOf(p).rev \in Nat
    BY LocalsAccess, RecordsWith
  <1> DEFINE r == record(commit, message)
  <1>4. r.state = "committing" /\ r.paths = changed
    BY <1>3 DEF Records
  <1>5. changed \subseteq Allowed[u]
    BY DEF Prepare, LocalScoped, At, UnitOf
  <1> HIDE DEF r
  <1>6. CompareAndSet(u, a, RecordOf(p).rev, r) /\ r \in Records
    BY <1>1, <1>2 DEF r
  <1>7. LedgerQuiet(p)
    BY <1>3, <1>4, <1>5, <1>6, CasQuiet DEF Scoped
  <1>8. Scoped(u, ledger'[u][a])
    <2>1. UNCHANGED recordVars
      BY DEF Prepare
    <2>2. ledger'[u][a] = [r EXCEPT !.rev = RecordOf(p).rev + 1]
      BY <1>3, <1>6, <2>1, LocalsAccess, CompareAndSetType
    <2>3. [r EXCEPT !.rev = RecordOf(p).rev + 1].paths = r.paths
      BY <1>6 DEF Records
    <2>4. QED
      BY <1>4, <1>5, <2>2, <2>3 DEF Scoped
  <1> DEFINE k == [proc[p] EXCEPT !.pc = "check", !.seen = ledger'[u][a]]
  <1>9. /\ k.pc = "check" /\ k.unit = proc[p].unit /\ k.view = proc[p].view
        /\ k.seen = ledger'[u][a] /\ k.held = proc[p].held
    BY ProcType, SeenMoves
  <1>10. proc'[p] = k /\ \A q \in Procs : q # p => proc'[q] = proc[q]
    BY <1>1, BecomeEffect
  <1> HIDE DEF k
  <1>11. Onward(p)
    BY <1>9, <1>10, WorkKnown DEF Onward
  <1>12. QED
    BY <1>7, <1>8, <1>9, <1>10, <1>11

\* The check before the commit, the commit and the first two steps of a hold go
\* on or end.
LEMMA CheckOnward ==
    ASSUME TypeInv, NEW p \in Procs, Check(p) \/ Commit(p) \/ HoldSave(p) \/ HoldLogRead(p)
    PROVE  \/ Onward(p) /\ Keeps(p)
           \/ Ends(p)
  <1>1. CASE Check(p)
    <2>1. Goto(p, "commit") \/ Goto(p, "prove") \/ Return(p)
      BY <1>1 DEF Check
    <2>2. QED
      BY <2>1, GotoOnward, ReturnEnds, WorkKnown
  <1>2. CASE Commit(p)
    <2>1. Goto(p, "prove") \/ Return(p)
      BY <1>2 DEF Commit
    <2>2. QED
      BY <2>1, GotoOnward, ReturnEnds, WorkKnown
  <1>3. CASE HoldSave(p)
    BY <1>3, GotoOnward, WorkKnown DEF HoldSave
  <1>4. CASE HoldLogRead(p)
    <2> DEFINE k == [proc[p] EXCEPT !.pc = "hold_log_write", !.lines = log[MainPlan]]
    <2>1. Become(p, k)
      BY <1>4 DEF HoldLogRead, ReadLog
    <2>2. Moves(proc[p], k, "hold_log_write")
      BY ProcType, WithMoves
    <2>3. k.lines = log[MainPlan]
      BY ProcType, WithKept
    <2> HIDE DEF k
    <2>4. QED
      BY <2>1, <2>2, <2>3, MovesOnward, WorkKnown
  <1>5. QED
    BY <1>1, <1>2, <1>3, <1>4

\* A run that only changes its step leaves the other processes alone.
LEMMA GotoEffect ==
    ASSUME TypeInv, NEW p \in Procs, NEW s, Goto(p, s)
    PROVE  /\ Moves(proc[p], proc'[p], s) /\ proc'[p].lines = proc[p].lines
           /\ \A q \in Procs : q # p => proc'[q] = proc[q]
  <1> DEFINE k == [proc[p] EXCEPT !.pc = s]
  <1>1. Moves(proc[p], k, s)
    BY ProcType, StepMoves
  <1>2. k.lines = proc[p].lines
    BY ProcType DEF Locals
  <1>3. proc'[p] = k /\ \A q \in Procs : q # p => proc'[q] = proc[q]
    BY BecomeEffect DEF Goto
  <1>4. QED
    BY <1>1, <1>2, <1>3

\* Loading the queue saves it, synchronised with the log, and keeps a copy.
LEMMA ReloadEffect ==
    ASSUME TypeInv, NEW p \in Procs, Reload(p)
    PROVE  /\ proc'[p].pc = "attest" /\ proc'[p].unit = proc[p].unit
           /\ proc'[p].seen = proc[p].seen /\ proc'[p].held = proc[p].held
           /\ proc'[p].view = Synced(MainPlan, queue, log[MainPlan])
           /\ queue' = Synced(MainPlan, queue, log[MainPlan])
           /\ \A q \in Procs : q # p => proc'[q] = proc[q]
  <1> DEFINE synced == Synced(MainPlan, queue, log[MainPlan])
             k == [proc[p] EXCEPT !.pc = "attest", !.view = synced]
  <1>1. synced \in [Units -> Placed]
    BY SyncedType
  <1>2. queue' = synced
    BY <1>1, SaveType DEF Reload
  <1>3. proc'[p] = k /\ \A q \in Procs : q # p => proc'[q] = proc[q]
    BY BecomeEffect DEF Reload
  <1> HIDE DEF synced
  <1>4. /\ k.pc = "attest" /\ k.unit = proc[p].unit /\ k.seen = proc[p].seen
        /\ k.held = proc[p].held /\ k.view = synced
    BY ProcType DEF Locals
  <1> HIDE DEF k
  <1>5. QED
    BY <1>2, <1>3, <1>4 DEF synced

\* A released unit is saved as done, and its entry only is changed.
LEMMA DoneSaveEffect ==
    ASSUME TypeInv, NEW p \in Procs, DoneSave(p)
    PROVE  /\ proc'[p].pc = "done_log_read" /\ proc'[p].unit = proc[p].unit
           /\ proc'[p].seen = proc[p].seen /\ proc'[p].held = proc[p].held
           /\ queue' = proc'[p].view
           /\ queue'[UnitOf(p)].status = "done"
           /\ \A v \in Units : v # UnitOf(p) => queue'[v] = proc[p].view[v]
           /\ \A q \in Procs : q # p => proc'[q] = proc[q]
  <1> DEFINE record == proc[p].seen
             entry == [EntryOf(p) EXCEPT !.status = "done", !.attempt = proc[p].attempt,
                                         !.rev = record.rev, !.changed = record.paths]
             local == WithEntry(proc[p], entry)
             k == [local EXCEPT !.pc = "done_log_read"]
  <1>1. record.rev \in Nat /\ record.paths \in SUBSET Paths
    BY LocalsAccess, RecordsWith, CommitArgs
  <1>2. entry \in Placed
    BY <1>1, LocalsAccess, EntryType DEF UnitStatuses
  <1>3. entry.status = "done"
    BY LocalsAccess DEF Placed, Entries
  <1>4. local \in Locals /\ local.view \in [Units -> Placed]
    <2>1. local \in Locals
      BY <1>2, LocalsAccess, WithEntryType
    <2>2. QED
      BY <2>1 DEF Locals
  <1>5. queue' = local.view
    BY <1>4, SaveType DEF DoneSave
  <1>6. proc'[p] = k /\ \A q \in Procs : q # p => proc'[q] = proc[q]
    BY BecomeEffect DEF DoneSave
  <1>7. /\ local.unit = proc[p].unit /\ local.seen = proc[p].seen /\ local.held = proc[p].held
        /\ local.view = [proc[p].view EXCEPT ![proc[p].unit] = entry]
    BY ProcType, WithEntryMoves
  <1> HIDE DEF entry, local
  <1>8. Moves(local, k, "done_log_read")
    BY <1>4, StepMoves
  <1> HIDE DEF k
  <1>9. UnitOf(p) \in Units /\ proc[p].view \in [Units -> Placed]
    BY LocalsAccess
  <1>10. /\ local.view[UnitOf(p)] = entry
         /\ \A v \in Units : v # UnitOf(p) => local.view[v] = proc[p].view[v]
    BY <1>7, <1>9 DEF UnitOf
  <1>11. QED
    BY <1>3, <1>5, <1>6, <1>7, <1>8, <1>10 DEF Moves

\* Before its completion is logged the log is read again.
LEMMA DoneLogReadEffect ==
    ASSUME TypeInv, NEW p \in Procs, DoneLogRead(p)
    PROVE  /\ Moves(proc[p], proc'[p], "done_log_write") /\ proc'[p].lines = log[MainPlan]
           /\ \A q \in Procs : q # p => proc'[q] = proc[q]
  <1> DEFINE k == [proc[p] EXCEPT !.pc = "done_log_write", !.lines = log[MainPlan]]
  <1>1. proc'[p] = k /\ \A q \in Procs : q # p => proc'[q] = proc[q]
    BY BecomeEffect DEF DoneLogRead, ReadLog
  <1>2. Moves(proc[p], k, "done_log_write")
    BY ProcType, WithMoves
  <1>3. k.lines = log[MainPlan]
    BY ProcType, WithKept
  <1>4. QED
    BY <1>1, <1>2, <1>3

\* What a release that was proved has in its ledger.
Proof(seen) == [seen EXCEPT !.state = "completed", !.commit = HeadCommit,
                            !.rev = seen.rev + 1]

\* A proof is written to the ledger of the attempt, or the run ends.
LEMMA ProveEffect ==
    ASSUME TypeInv, NEW p \in Procs, Prove(p)
    PROVE  \/ Ends(p) /\ UNCHANGED ledger
           \/ /\ Proved(proc[p].seen, HeadCommit)
              /\ ledger' = [ledger EXCEPT ![UnitOf(p)][proc[p].attempt] = Proof(proc[p].seen)]
              /\ proc'[p].pc = "done_save" /\ proc'[p].unit = proc[p].unit
              /\ proc'[p].view = proc[p].view /\ proc'[p].held = proc[p].held
              /\ proc'[p].seen = Proof(proc[p].seen)
              /\ \A q \in Procs : q # p => proc'[q] = proc[q]
  <1> DEFINE u == UnitOf(p)
             a == proc[p].attempt
             seen == proc[p].seen
             proved == [seen EXCEPT !.state = "completed", !.commit = HeadCommit]
             k == [proc[p] EXCEPT !.pc = "done_save", !.seen = ledger'[u][a]]
  <1>1. CASE Return(p) /\ UNCHANGED ledger
    BY <1>1, ReturnEnds
  <1>2. CASE /\ Proved(seen, HeadCommit)
             /\ CompareAndSet(u, a, seen.rev, proved)
             /\ Become(p, k)
    <2>1. seen \in Records
      BY LocalsAccess
    <2>2. [proved EXCEPT !.rev = seen.rev + 1] = Proof(seen)
      BY <2>1 DEF Proof, Records
    <2>3. ledger' = [ledger EXCEPT ![u][a] = Proof(seen)]
      BY <1>2, <2>2 DEF CompareAndSet
    <2>4. u \in Units /\ a \in Attempts /\ ledger \in [Units -> [Attempts -> Records]]
      BY LocalsAccess DEF TypeInv, FilesOK
    <2>5. ledger'[u][a] = Proof(seen)
      BY <2>3, <2>4
    <2>6. /\ k.pc = "done_save" /\ k.unit = proc[p].unit /\ k.view = proc[p].view
          /\ k.seen = ledger'[u][a] /\ k.held = proc[p].held
      BY ProcType, SeenMoves
    <2>7. proc'[p] = k /\ \A q \in Procs : q # p => proc'[q] = proc[q]
      BY <1>2, BecomeEffect
    <2> HIDE DEF k
    <2>8. QED
      BY <1>2, <2>3, <2>5, <2>6, <2>7
  <1>3. QED
    BY <1>1, <1>2 DEF Prove

\* What is proved is exact: the commit at HEAD is the one that was prepared.
LEMMA ProvedIsExact ==
    ASSUME TypeInv, NEW r \in Records, Proved(r, HeadCommit)
    PROVE  /\ Exact(Proof(r)) /\ Proof(r).state = "completed" /\ Proof(r).paths = r.paths
           /\ Proof(r) \in Records
  <1> DEFINE n == Proof(r)
  <1>1. RepoOK
    BY DEF TypeInv
  <1>2. HeadCommit \in Nat /\ HeadCommit <= Len(commits) /\ Len(commits) \in Nat
    BY <1>1, HeadType DEF RepoOK
  <1>3. r.rev + 1 \in Nat
    BY RecordsWith
  <1>4. /\ n.state = "completed" /\ n.commit = HeadCommit /\ n.kind = r.kind
        /\ n.parent = r.parent /\ n.paths = r.paths /\ n.candidate = r.candidate
        /\ n.message = r.message
    BY DEF Proof, Records
  <1>5. n \in Records
    BY <1>2, <1>3 DEF Proof, Records
  <1> HIDE DEF n
  <1>6. ASSUME n.kind = "committed"
        PROVE  /\ HeadCommit \in 1..Len(commits)
               /\ commits[HeadCommit].parent = r.parent
               /\ commits[HeadCommit].message = r.message
               /\ Changes(r.parent, Tree(HeadCommit), Paths) = r.candidate
               /\ DOMAIN r.candidate = r.paths
    <2>1. /\ HeadCommit > 0
          /\ commits[HeadCommit].parent = r.parent
          /\ DOMAIN Changes(r.parent, Tree(HeadCommit), Paths) = r.paths
          /\ Changes(r.parent, Tree(HeadCommit), r.paths) = r.candidate
          /\ commits[HeadCommit].message = r.message
      BY <1>4, <1>6 DEF Proved, AsPrepared
    <2> DEFINE tree == Tree(HeadCommit)
               base == Tree(r.parent)
               D == {x \in Paths : tree[x] # base[x]}
    <2>2. Changes(r.parent, tree, Paths) = Restrict(tree, D)
      BY DEF Changes
    <2>3. DOMAIN Restrict(tree, D) = D
      BY DEF Restrict
    <2>4. r.paths = D
      BY <2>1, <2>2, <2>3
    <2>5. {x \in r.paths : tree[x] # base[x]} = D
      BY <2>4
    <2>6. Changes(r.parent, tree, r.paths) = Restrict(tree, D)
      BY <2>5 DEF Changes
    <2>7. HeadCommit \in 1..Len(commits)
      BY <1>2, <2>1
    <2>8. QED
      BY <2>1, <2>2, <2>3, <2>4, <2>6, <2>7
  <1>7. Exact(n)
    BY <1>4, <1>6 DEF Exact
  <1>8. QED
    BY <1>4, <1>5, <1>7 DEF n

\* A quiet write leaves every release exact and in scope.
LEMMA QuietIsExact ==
    ASSUME ExactInv, TypeInv', Grows, NEW p \in Procs, LedgerQuiet(p),
           NEW u \in Units, NEW a \in Attempts
    PROVE  Exact(ledger[u][a])' /\ Scoped(u, ledger[u][a])'
  <1>1. TypeInv /\ HistoryInv
    BY DEF ExactInv
  <1>2. PICK r \in Records : r = ledger[u][a]
    BY <1>1 DEF TypeInv, FilesOK
  <1>3. PICK s \in Records : s = ledger'[u][a]
    BY DEF TypeInv, FilesOK
  <1>4. Exact(r) /\ Scoped(u, r)
    <2>1. Exact(ledger[u][a]) /\ Scoped(u, ledger[u][a])
      BY DEF ExactInv, ReleaseInv, ScopeInv
    <2>2. QED
      BY <1>2, <2>1
  <1>5. \/ SameRelease(r, s)
        \/ s.state # "completed" /\ Scoped(u, s)
    <2>1. CASE u = UnitOf(p)
      BY <1>2, <1>3, <2>1 DEF LedgerQuiet
    <2>2. CASE u # UnitOf(p)
      BY <1>2, <1>3, <2>2 DEF LedgerQuiet, SameRelease
    <2>3. QED
      BY <2>1, <2>2
  <1>6. Scoped(u, s) /\ Exact(s)
    <2>1. CASE SameRelease(r, s)
      BY <1>4, <2>1, SameExact
    <2>2. CASE s.state # "completed" /\ Scoped(u, s)
      BY <2>2 DEF Exact
    <2>3. QED
      BY <1>5, <2>1, <2>2
  <1>7. Exact(s)'
    BY <1>1, <1>6, ExactStays
  <1>8. QED
    BY <1>3, <1>6, <1>7 DEF Exact, Tree, Changes, Scoped

\* A write that is quiet, in a history that grows, by a run that stays in scope.
LEMMA QuietStep ==
    ASSUME ExactInv, TypeInv', Grows, HistoryInv', NEW p \in Procs, LedgerQuiet(p),
           LocalScoped(proc'[p]), \A q \in Procs : q # p => proc'[q] = proc[q]
    PROVE  ExactInv'
  <1>1. ReleaseInv'
    BY QuietIsExact DEF ReleaseInv
  <1>2. ScopeInv'
    <2>1. \A u \in Units, a \in Attempts : Scoped(u, ledger[u][a])'
      BY QuietIsExact
    <2>2. \A q \in Procs : LocalScoped(proc'[q])
      BY DEF ExactInv, ScopeInv
    <2>3. QED
      BY <2>1, <2>2 DEF ScopeInv
  <1>3. QED
    BY <1>1, <1>2 DEF ExactInv

\* A run that goes on, and keeps its snapshot, or ends, stays in scope.
LEMMA OnwardScoped ==
    ASSUME TypeInv, NEW p \in Procs, LocalScoped(proc[p]),
           \/ Onward(p) /\ Keeps(p)
           \/ Ends(p)
    PROVE  LocalScoped(proc'[p]) /\ \A q \in Procs : q # p => proc'[q] = proc[q]
  <1>1. CASE Onward(p) /\ Keeps(p)
    BY <1>1, MovesScoped DEF Onward, Keeps
  <1>2. CASE Ends(p)
    BY <1>2, FirstUnitType, IdleScoped DEF Ends
  <1>3. QED
    BY <1>1, <1>2

\* The attempt keeps every release exact.
LEMMA AttemptExact ==
    ASSUME ExactInv, TypeInv', NEW p \in Procs, Attempt(p) \/ Hold(p)
    PROVE  ExactInv'
  <1>1. TypeInv /\ HistoryInv /\ LocalScoped(proc[p])
    BY DEF ExactInv, ScopeInv
  <1>2. UNCHANGED commits
    BY DEF Attempt, Hold, Reload, Attest, Start, Shelve, Begin, Repair, Open, ChildEnds,
           DeterministicGate, ReviewStarts, ReviewEnds, Finalize, Verify, HoldSave, HoldLogRead,
           HoldLogWrite, ReadLog, repoVars, worktreeVars
  <1>3. Grows /\ HistoryInv'
    BY <1>1, <1>2, SameGrows
  <1>4. ASSUME LedgerQuiet(p),
               \/ Onward(p) /\ Keeps(p)
               \/ Ends(p)
        PROVE  ExactInv'
    BY <1>1, <1>3, <1>4, OnwardScoped, QuietStep
  <1>5. CASE Reload(p)
    <2>1. LedgerQuiet(p)
      BY <1>5, SameQuiet DEF Reload
    <2>2. LocalScoped(proc'[p])
      BY <1>1, <1>5, ReloadEffect, MovesScoped
    <2>3. QED
      BY <1>1, <1>3, <1>5, <2>1, <2>2, ReloadEffect, QuietStep
  <1>6. CASE Attest(p) \/ Start(p)
    <2>1. LedgerQuiet(p)
      BY <1>6, SameQuiet DEF Attest, Start
    <2>2. QED
      BY <1>1, <1>4, <1>6, <2>1, StartOnward
  <1>7. CASE Begin(p) \/ Repair(p)
    <2>1. LedgerQuiet(p)
      BY <1>7, SameQuiet DEF Begin, Repair
    <2>2. QED
      BY <1>1, <1>4, <1>7, <2>1, BeginOnward
  <1>8. CASE Open(p)
    BY <1>1, <1>4, <1>8, OpenOnward
  <1>9. CASE ChildEnds(p) \/ DeterministicGate(p) \/ ReviewStarts(p) \/ ReviewEnds(p)
    BY <1>1, <1>4, <1>9, WorkOnward
  <1>10. CASE Finalize(p)
    BY <1>1, <1>4, <1>10, FinalizeOnward
  <1>11. CASE Verify(p)
    <2>1. LedgerQuiet(p)
      BY <1>11, SameQuiet DEF Verify
    <2>2. LocalScoped(proc'[p]) /\ \A q \in Procs : q # p => proc'[q] = proc[q]
      BY <1>1, <1>11, VerifyOnward DEF Onward, LocalScoped, UnitOf
    <2>3. QED
      BY <1>1, <1>3, <2>1, <2>2, QuietStep
  <1>12. CASE HoldSave(p) \/ HoldLogRead(p)
    <2>1. LedgerQuiet(p)
      BY <1>12, SameQuiet DEF HoldSave, HoldLogRead, ReadLog
    <2>2. QED
      BY <1>1, <1>4, <1>12, <2>1, CheckOnward
  <1>13. CASE HoldLogWrite(p)
    <2>1. LedgerQuiet(p) /\ Ends(p)
      BY <1>1, <1>13, SameQuiet, ReturnEnds DEF HoldLogWrite
    <2>2. QED
      BY <1>4, <2>1
  <1>14. QED
    BY <1>5, <1>6, <1>7, <1>8, <1>9, <1>10, <1>11, <1>12, <1>13 DEF Attempt, Hold

\* So does the proof: what it writes is exact.
LEMMA ProveExact ==
    ASSUME ExactInv, TypeInv', NEW p \in Procs, Prove(p)
    PROVE  ExactInv'
  <1> DEFINE w == UnitOf(p)
             b == proc[p].attempt
             seen == proc[p].seen
  <1>1. TypeInv /\ HistoryInv /\ LocalScoped(proc[p])
    BY DEF ExactInv, ScopeInv
  <1>2. UNCHANGED commits
    BY DEF Prove, repoVars, worktreeVars
  <1>3. Grows /\ HistoryInv'
    BY <1>1, <1>2, SameGrows
  <1>4. CASE Ends(p) /\ UNCHANGED ledger
    BY <1>1, <1>3, <1>4, SameQuiet, OnwardScoped, QuietStep
  <1>5. CASE /\ Proved(seen, HeadCommit)
             /\ ledger' = [ledger EXCEPT ![w][b] = Proof(seen)]
             /\ proc'[p].pc = "done_save" /\ proc'[p].unit = proc[p].unit
             /\ proc'[p].seen = Proof(seen)
             /\ \A q \in Procs : q # p => proc'[q] = proc[q]
    <2>1. PICK r \in Records : r = seen
      BY <1>1, LocalsAccess
    <2> DEFINE n == Proof(r)
    <2>2. Exact(n) /\ n.paths = r.paths /\ n \in Records
      BY <1>1, <1>5, <2>1, ProvedIsExact
    <2>3. w \in Units /\ b \in Attempts /\ ledger \in [Units -> [Attempts -> Records]]
      BY <1>1, LocalsAccess DEF TypeInv, FilesOK
    <2>4. PICK k \in Records : k = n
      BY <2>2
    <2>5. Exact(k)' /\ Scoped(w, k)
      BY <1>1, <1>3, <2>1, <2>2, <2>4, ExactStays DEF LocalScoped, Scoped, UnitOf
    <2>6. ledger' = [ledger EXCEPT ![w][b] = k] /\ proc'[p].seen = k
      BY <1>5, <2>1, <2>4
    <2> HIDE DEF n, w, b, seen
    <2>7. ASSUME NEW u \in Units, NEW a \in Attempts
          PROVE  Exact(ledger[u][a])' /\ Scoped(u, ledger[u][a])'
      <3>1. CASE u = w /\ a = b
        <4>1. ledger'[u][a] = k
          BY <2>3, <2>6, <3>1
        <4>2. QED
          BY <2>5, <3>1, <4>1 DEF Exact, Tree, Changes, Scoped
      <3>2. CASE u # w \/ a # b
        <4>1. PICK s \in Records : s = ledger[u][a]
          BY <2>3
        <4>2. ledger'[u][a] = s
          BY <2>3, <2>6, <3>2, <4>1
        <4>3. Exact(s) /\ Scoped(u, s)
          <5>1. Exact(ledger[u][a]) /\ Scoped(u, ledger[u][a])
            BY DEF ExactInv, ReleaseInv, ScopeInv
          <5>2. QED
            BY <4>1, <5>1
        <4>4. Exact(s)'
          BY <1>1, <1>3, <4>3, ExactStays
        <4>5. QED
          BY <4>2, <4>3, <4>4 DEF Exact, Tree, Changes, Scoped
      <3>3. QED
        BY <3>1, <3>2
    <2>8. LocalScoped(proc'[p])
      BY <1>5, <2>5, <2>6 DEF LocalScoped, UnitOf, w
    <2>9. \A q \in Procs : LocalScoped(proc'[q])
      BY <1>5, <2>8 DEF ExactInv, ScopeInv
    <2>10. QED
      BY <1>3, <2>7, <2>9 DEF ExactInv, ReleaseInv, ScopeInv
  <1>6. QED
    BY <1>1, <1>4, <1>5, ProveEffect

\* So do the other steps of the release.
LEMMA ReleaseStepExact ==
    ASSUME ExactInv, TypeInv', NEW p \in Procs, Release(p)
    PROVE  ExactInv'
  <1>1. TypeInv /\ HistoryInv /\ LocalScoped(proc[p])
    BY DEF ExactInv, ScopeInv
  <1>2. CASE Commit(p)
    <2>1. LedgerQuiet(p)
      BY <1>2, SameQuiet DEF Commit
    <2>2. Grows /\ HistoryInv'
      <3>1. CASE UNCHANGED commits
        BY <1>1, <3>1, SameGrows
      <3>2. CASE CommitPaths(proc[p].seen.paths, proc[p].seen.message,
                             <<UnitOf(p), proc[p].attempt>>)
        <4>1. edits' \in 0..MaxEdits /\ UNCHANGED shelf
          BY <1>1, <1>2 DEF Commit, TypeInv, RepoOK
        <4>2. QED
          BY <1>1, <3>2, <4>1, CommitArgs, CommitGrows
      <3>3. QED
        BY <1>2, <3>1, <3>2 DEF Commit
    <2>3. QED
      BY <1>1, <1>2, <2>1, <2>2, CheckOnward, OnwardScoped, QuietStep
  <1>3. CASE Prove(p)
    BY <1>3, ProveExact
  <1>4. CASE ~Commit(p)
    <2>1. UNCHANGED commits
      BY <1>4 DEF Release, Prepare, Check, Prove, Revalidate, DoneSave, DoneLogRead, DoneLogWrite,
                  DoneSync, ReadLog, repoVars, worktreeVars
    <2>2. Grows /\ HistoryInv'
      BY <1>1, <2>1, SameGrows
    <2>3. ASSUME UNCHANGED ledger, LocalScoped(proc'[p]),
                 \A q \in Procs : q # p => proc'[q] = proc[q]
          PROVE  ExactInv'
      BY <2>2, <2>3, SameQuiet, QuietStep
    <2>4. CASE Prepare(p)
      <3>1. LocalScoped(proc'[p]) /\ \A q \in Procs : q # p => proc'[q] = proc[q]
        BY <1>1, <2>4, PrepareOnward DEF Onward, LocalScoped, UnitOf
      <3>2. QED
        BY <1>1, <2>2, <2>4, <3>1, PrepareOnward, QuietStep
    <2>5. CASE Check(p)
      BY <1>1, <2>3, <2>5, CheckOnward, OnwardScoped DEF Check
    <2>6. CASE Revalidate(p)
      <3>1. CASE Goto(p, "done_save")
        BY <1>1, <2>3, <2>6, <3>1, GotoEffect, MovesScoped DEF Revalidate, Moves
      <3>2. CASE Return(p)
        BY <1>1, <2>3, <2>6, <3>2, ReturnEnds, OnwardScoped DEF Revalidate
      <3>3. QED
        BY <2>6, <3>1, <3>2 DEF Revalidate
    <2>7. CASE DoneSave(p)
      BY <1>1, <2>3, <2>7, DoneSaveEffect, MovesScoped DEF DoneSave
    <2>8. CASE DoneLogRead(p)
      BY <1>1, <2>3, <2>8, DoneLogReadEffect, MovesScoped DEF DoneLogRead, ReadLog, Moves
    <2>9. CASE DoneLogWrite(p)
      BY <1>1, <2>3, <2>9, GotoEffect, MovesScoped DEF DoneLogWrite, Moves
    <2>10. CASE DoneSync(p)
      BY <1>1, <2>3, <2>10, ReturnEnds, OnwardScoped DEF DoneSync
    <2>11. QED
      BY <1>3, <1>4, <2>4, <2>5, <2>6, <2>7, <2>8, <2>9, <2>10 DEF Release
  <1>5. QED
    BY <1>2, <1>4

\* Selecting and recovering a unit, dying, and what others do keep it too.
LEMMA OtherExact ==
    ASSUME ExactInv, TypeInv',
           \/ \E p \in Procs, u \in Units : Select(p, u)
           \/ \E p \in Procs : Recover(p) \/ Crash(p)
           \/ Environment
    PROVE  ExactInv'
  <1>1. TypeInv /\ HistoryInv /\ \A p \in Procs : LocalScoped(proc[p])
    BY DEF ExactInv, ScopeInv
  <1>2. ASSUME UNCHANGED commits, UNCHANGED ledger, NEW p \in Procs, LocalScoped(proc'[p]),
               \A q \in Procs : q # p => proc'[q] = proc[q]
        PROVE  ExactInv'
    BY <1>1, <1>2, SameGrows, SameQuiet, QuietStep
  <1>3. ASSUME NEW p \in Procs, NEW u \in Units, Select(p, u)
        PROVE  ExactInv'
    <2>1. UNCHANGED <<commits, ledger>>
      BY <1>3 DEF Select, repoVars, worktreeVars
    <2> DEFINE k == [Idle EXCEPT !.pc = "recover", !.unit = u, !.view = queue]
    <2>2. LocalScoped(k)
      BY IdleScoped
    <2>3. proc'[p] = k /\ \A q \in Procs : q # p => proc'[q] = proc[q]
      BY <1>1, <1>3, BecomeEffect DEF Select
    <2> HIDE DEF k
    <2>4. QED
      BY <1>2, <2>1, <2>2, <2>3
  <1>4. ASSUME NEW p \in Procs, Recover(p)
        PROVE  ExactInv'
    <2>1. UNCHANGED <<commits, ledger>>
      BY <1>4 DEF Recover, repoVars, worktreeVars
    <2>2. /\ Onward(p) /\ proc'[p].pc # "prepare"
          /\ \/ proc'[p].seen = proc[p].seen
             \/ \E a \in Attempts : proc'[p].seen = ledger[UnitOf(p)][a]
      BY <1>1, <1>4, RecoverOnward
    <2>3. LocalScoped(proc'[p])
      <3>1. CASE proc'[p].seen = proc[p].seen
        BY <1>1, <2>2, <3>1, MovesScoped DEF Onward
      <3>2. ASSUME NEW a \in Attempts, proc'[p].seen = ledger[UnitOf(p)][a]
            PROVE  LocalScoped(proc'[p])
        <4>1. Scoped(UnitOf(p), ledger[UnitOf(p)][a])
          BY <1>1, LocalsAccess DEF ExactInv, ScopeInv
        <4>2. QED
          BY <2>2, <3>2, <4>1 DEF Onward, LocalScoped, UnitOf
      <3>3. QED
        BY <2>2, <3>1, <3>2
    <2>4. QED
      BY <1>2, <2>1, <2>2, <2>3 DEF Onward
  <1>5. ASSUME NEW p \in Procs, Crash(p)
        PROVE  ExactInv'
    <2>1. UNCHANGED <<commits, ledger>> /\ Ends(p)
      BY <1>1, <1>5, ReturnEnds DEF Crash, repoVars, worktreeVars
    <2>2. QED
      BY <1>1, <1>2, <2>1, OnwardScoped
  <1>6. CASE Environment
    <2>1. Grows /\ HistoryInv'
      <3>1. CASE UNCHANGED commits
        BY <1>1, <3>1, SameGrows
      <3>2. CASE OutsideCommit
        <4>1. PICK S \in SUBSET Dirty(Paths), m \in Messages : CommitPaths(S, m, Outsider)
          BY <3>2 DEF OutsideCommit
        <4>2. S \in SUBSET Paths /\ UNCHANGED shelf /\ edits' \in 0..MaxEdits
          BY <1>6 DEF Dirty, Environment, TypeInv, RepoOK
        <4>3. QED
          BY <1>1, <4>1, <4>2, CommitGrows
      <3>3. QED
        BY <1>6, <3>1, <3>2 DEF Environment, Edit
    <2>2. ASSUME NEW u \in Units, NEW a \in Attempts
          PROVE  Exact(ledger[u][a])'
      <3>1. PICK s \in Records : s = ledger[u][a] /\ s = ledger'[u][a]
        BY <1>1, <1>6 DEF TypeInv, FilesOK, Environment
      <3>2. Exact(s)
        BY <3>1 DEF ExactInv, ReleaseInv
      <3>3. Exact(s)'
        BY <1>1, <2>1, <3>2, ExactStays
      <3>4. QED
        BY <3>1, <3>3 DEF Exact, Tree, Changes
    <2>3. ScopeInv'
      BY <1>6 DEF ExactInv, ScopeInv, Environment
    <2>4. QED
      BY <2>1, <2>2, <2>3 DEF ExactInv, ReleaseInv
  <1>7. QED
    BY <1>3, <1>4, <1>5, <1>6

\* Every step keeps every release exact.
LEMMA ExactStep ==
    ASSUME ExactInv, [Next]_vars
    PROVE  ExactInv'
  <1>1. TypeInv'
    BY TypeStep DEF ExactInv
  <1>2. CASE UNCHANGED vars
    <2>1. UNCHANGED <<commits, ledger, proc>>
      BY <1>2 DEF vars
    <2>2. TypeInv /\ HistoryInv /\ Grows /\ HistoryInv'
      BY <2>1, SameGrows DEF ExactInv
    <2>3. ASSUME NEW u \in Units, NEW a \in Attempts
          PROVE  Exact(ledger[u][a])'
      <3>1. PICK s \in Records : s = ledger[u][a] /\ s = ledger'[u][a]
        BY <2>1, <2>2 DEF TypeInv, FilesOK
      <3>2. Exact(s)
        BY <3>1 DEF ExactInv, ReleaseInv
      <3>3. Exact(s)'
        BY <1>1, <2>2, <3>2, ExactStays
      <3>4. QED
        BY <3>1, <3>3 DEF Exact, Tree, Changes
    <2>4. ScopeInv'
      BY <2>1 DEF ExactInv, ScopeInv
    <2>5. QED
      BY <1>1, <2>2, <2>3, <2>4 DEF ExactInv, ReleaseInv
  <1>3. CASE Next
    BY <1>1, <1>3, AttemptExact, ReleaseStepExact, OtherExact DEF Next, Continue
  <1>4. QED
    BY <1>2, <1>3

\* Nothing is released before anything was run.
LEMMA InitExact == Init => ExactInv
  <1> SUFFICES ASSUME Init
               PROVE  ExactInv
    OBVIOUS
  <1>1. NoRecord.paths = {} /\ NoRecord.state # "completed"
    BY DEF NoRecord
  <1>2. ScopeInv
    BY <1>1, FirstUnitType, IdleScoped DEF Init, ScopeInv, Scoped
  <1>3. ReleaseInv
    BY <1>1 DEF Init, ReleaseInv, Exact
  <1>4. HistoryInv
    BY DEF Init, WorktreeInit, HistoryInv
  <1>5. QED
    BY <1>2, <1>3, <1>4, InitType DEF ExactInv

\* However many processes run the units, and whatever others do to the checkout
\* between the review, the preparation and the proof: a released commit has
\* exactly the parent, paths, content and message that were prepared, and touches
\* allowed paths only.
THEOREM ReleaseExact == Spec => []ReleaseIsExact
  <1>1. ExactInv => ReleaseIsExact
    <2> SUFFICES ASSUME ExactInv
                 PROVE  ReleaseIsExact
      OBVIOUS
    <2>1. ASSUME NEW u \in Units, NEW a \in Attempts
          PROVE  Exact(ledger[u][a]) /\ Scoped(u, ledger[u][a])
      BY DEF ExactInv, ReleaseInv, ScopeInv
    <2>2. QED
      BY <2>1 DEF ReleaseIsExact, Exact, Scoped
  <1>2. ExactInv /\ [Next]_vars => ExactInv'
    BY ExactStep
  <1>3. QED
    BY <1>1, <1>2, InitExact, PTL DEF Spec

-----------------------------------------------------------------------------
(* One process at a time *)

OneAtATime == \A p, q \in Procs : p = q

Logged(u) == <<u, "Completed">> \in log[MainPlan]
NotDone(u) == queue[u].status # "done" /\ ~Logged(u)

\* What InPlanOrder says of the units before u.
InOrder(u) ==
    \A i, j \in DOMAIN Order : i < j /\ Order[j] = u =>
        /\ queue[Order[i]].status # "ready"
        /\ Released(Order[i]) \/ crashes > 0

\* What a run may rely on at its step.
StepOK(l) ==
    /\ l.pc \in WorkSteps => NotDone(l.unit)
    /\ l.pc \in WorkSteps /\ crashes = 0 => ~Released(l.unit)
    /\ l.pc \in DoneSteps \cup {"done_sync", "revalidate"} => Released(l.unit)
    /\ l.pc = "done_save" => ~Logged(l.unit)
    /\ l.pc \in {"done_log_read", "done_log_write"} => queue[l.unit].status = "done"
    /\ l.pc \in WorkSteps \cup {"done_save"} =>
          \A v \in Units : v # l.unit => l.view[v].status = queue[v].status
    /\ l.pc = "hold_save" => l.view[l.unit].status = "needs_work"
    /\ l.pc \in {"hold_log_write", "done_log_write"} => l.lines = log[MainPlan]
    /\ l.pc # "idle" => InOrder(l.unit)
    /\ \A v \in Units : <<v, "Completed">> \notin l.held

\* A logged completion is in the queue as well.
LoggedIsDone == \A u \in Units : Logged(u) => queue[u].status = "done"

\* While no run has died, a released unit is logged or about to be.
LoggedInTime ==
    crashes = 0 => \A u \in Units : Released(u) =>
        \/ Logged(u)
        \/ \E p \in Procs : UnitOf(p) = u /\ proc[p].pc \in DoneSteps

SoloInv ==
    /\ TypeInv
    /\ \A p \in Procs, l \in Locals : l = proc[p] => StepOK(l)
    /\ LoggedIsDone
    /\ LoggedInTime
    /\ NoPrematureCompletion
    /\ InPlanOrder

\* The plan names its units once each.
LEMMA OrderFacts ==
    /\ DOMAIN Order \subseteq Nat
    /\ \A i \in DOMAIN Order : Order[i] \in Units
    /\ \A i, j \in DOMAIN Order : i < j => Order[i] # Order[j]
  <1>1. Order \in Seq(Units)
    BY OrderAssumption
  <1>2. Len(Order) \in Nat /\ DOMAIN Order = 1..Len(Order)
    BY <1>1
  <1>3. \A i, j \in DOMAIN Order : Order[i] = Order[j] => i = j
    BY OrderAssumption DEF IsInjective
  <1>4. QED
    BY <1>1, <1>2, <1>3

\* Of the places in the plan the first is the least.
LEMMA FirstIsLeast ==
    ASSUME NEW S \in SUBSET DOMAIN Order, S # {}
    PROVE  First(S) \in S /\ \A j \in S : First(S) <= j
  <1>1. S \subseteq Nat
    BY OrderFacts
  <1>2. PICK n \in S : \A m \in S : ~ (<<m, n>> \in OpToRel(<, Nat))
    BY <1>1, NatLessThanWellFounded, WFMin
  <1>3. \A m \in S : n <= m
    <2> TAKE m \in S
    <2>1. m \in Nat /\ n \in Nat
      BY <1>1
    <2>2. ~ (m < n)
      BY <1>2, <2>1 DEF OpToRel
    <2>3. QED
      BY <2>1, <2>2
  <1>4. QED
    BY <1>3 DEF First

\* A quiet write proves no release, and leaves the other units alone.
LEMMA QuietReleased ==
    ASSUME TypeInv, NEW p \in Procs, LedgerQuiet(p), NEW u \in Units
    PROVE  /\ Released(u)' => Released(u)
           /\ u # UnitOf(p) => Released(u)' = Released(u)
           /\ u # UnitOf(p) => ledger'[u] = ledger[u]
  <1>1. u # UnitOf(p) => ledger'[u] = ledger[u]
    BY DEF LedgerQuiet
  <1>2. CASE u # UnitOf(p)
    BY <1>1, <1>2 DEF Released
  <1>3. CASE u = UnitOf(p)
    <2> SUFFICES ASSUME NEW a \in Attempts, ledger'[u][a].state = "completed"
                 PROVE  ledger[u][a].state = "completed"
      BY <1>3 DEF Released
    <2>1. \/ SameRelease(ledger[u][a], ledger'[u][a])
          \/ ledger'[u][a].state # "completed"
      BY <1>3 DEF LedgerQuiet
    <2>2. QED
      BY <2>1 DEF SameRelease
  <1>4. QED
    BY <1>1, <1>2, <1>3

\* The one process, its locals now and next, and what the others cannot disturb.
LEMMA SoloNext ==
    ASSUME OneAtATime, TypeInv', NEW p \in Procs, NEW k \in Locals, k = proc'[p],
           StepOK(k)', LoggedIsDone', LoggedInTime', NoPrematureCompletion', InPlanOrder'
    PROVE  SoloInv'
  <1>1. ASSUME NEW q \in Procs, NEW m \in Locals, m = proc'[q]
        PROVE  StepOK(m)'
    <2>1. q = p
      BY DEF OneAtATime
    <2>2. m = k
      BY <1>1, <2>1
    <2>3. QED
      BY <2>2
  <1>2. QED
    BY <1>1 DEF SoloInv

\* A step up to the proof, which goes on with its unit.
LEMMA WorkSolo ==
    ASSUME OneAtATime, SoloInv, TypeInv', NEW p \in Procs, proc[p].pc \in WorkSteps,
           Onward(p), LedgerQuiet(p), UNCHANGED <<log, crashes>>,
           \/ UNCHANGED queue
           \/ queue' = proc'[p].view /\ queue'[UnitOf(p)].status \notin {"ready", "done"},
           proc'[p].pc = "revalidate" => Released(UnitOf(p)) /\ UNCHANGED ledger
    PROVE  SoloInv'
  <1>1. TypeInv /\ LoggedIsDone /\ LoggedInTime /\ NoPrematureCompletion /\ InPlanOrder
    BY DEF SoloInv
  <1>2. PICK l \in Locals : l = proc[p]
    BY <1>1, ProcType
  <1>3. PICK k \in Locals : k = proc'[p]
    BY DEF TypeInv
  <1>4. StepOK(l)
    BY <1>2 DEF SoloInv
  <1>5. PICK u \in Units : u = l.unit
    BY DEF Locals
  <1>6. /\ UnitOf(p) = u /\ l.pc \in WorkSteps /\ k.pc \in WorkSteps /\ k.unit = u
        /\ \A v \in Units : v # u => k.view[v] = l.view[v]
        /\ k.held \subseteq l.held \cup {<<u, "needs_work">>}
        /\ k.pc = "hold_save" => k.view[u].status = "needs_work"
        /\ k.pc = "hold_log_write" => k.lines = log[MainPlan]
    BY <1>2, <1>3, <1>5 DEF Onward, UnitOf
  <1>7. \/ UNCHANGED queue
        \/ queue' = k.view /\ queue'[u].status \notin {"ready", "done"}
    BY <1>3, <1>6
  <1>8. /\ NotDone(u) /\ (crashes = 0 => ~Released(u)) /\ InOrder(u)
        /\ \A v \in Units : v # u => l.view[v].status = queue[v].status
        /\ \A v \in Units : <<v, "Completed">> \notin l.held
    BY <1>4, <1>5, <1>6 DEF StepOK, WorkSteps
  <1>9. ASSUME NEW v \in Units, v # u
        PROVE  /\ queue'[v].status = queue[v].status /\ k.view[v].status = queue'[v].status
               /\ Released(v)' = Released(v) /\ ledger'[v] = ledger[v]
    BY <1>1, <1>6, <1>7, <1>8, <1>9, QuietReleased
  <1>10. queue'[u].status # "done" /\ (queue[u].status # "ready" => queue'[u].status # "ready")
    BY <1>7, <1>8 DEF NotDone
  <1>11. Released(u)' => Released(u)
    BY <1>1, QuietReleased
  <1>12. \A v \in Units : Logged(v)' = Logged(v)
    BY DEF Logged
  <1>13. NotDone(u)'
    BY <1>8, <1>10, <1>12 DEF NotDone
  <1>14. crashes' = crashes
    OBVIOUS
  <1>15. InOrder(u)'
    <2> SUFFICES ASSUME NEW i \in DOMAIN Order, NEW j \in DOMAIN Order, i < j, Order[j] = u
                 PROVE  /\ queue'[Order[i]].status # "ready"
                        /\ Released(Order[i])' \/ crashes' > 0
      BY DEF InOrder
    <2>1. Order[i] \in Units /\ Order[i] # u
      BY OrderFacts
    <2>2. queue[Order[i]].status # "ready" /\ (Released(Order[i]) \/ crashes > 0)
      BY <1>8 DEF InOrder
    <2>3. QED
      BY <1>9, <1>14, <2>1, <2>2
  <1>16. StepOK(k)'
    <2>1. k.pc = "revalidate" => Released(u)'
      BY <1>3, <1>6 DEF Released
    <2>2. k.pc \notin DoneSteps \cup {"idle", "done_sync", "done_log_write"}
      BY <1>6 DEF WorkSteps, DoneSteps
    <2>3. k.pc = "hold_log_write" => k.lines = log'[MainPlan]
      BY <1>6
    <2>4. \A v \in Units : <<v, "Completed">> \notin k.held
      BY <1>6, <1>8
    <2>5. crashes' = 0 => ~Released(u)'
      BY <1>8, <1>11, <1>14
    <2>6. \A v \in Units : v # u => k.view[v].status = queue'[v].status
      BY <1>9
    <2>7. QED
      BY <1>6, <1>13, <1>15, <2>1, <2>2, <2>3, <2>4, <2>5, <2>6 DEF StepOK, DoneSteps
  <1>17. LoggedIsDone'
    <2> SUFFICES ASSUME NEW v \in Units, Logged(v)'
                 PROVE  queue'[v].status = "done"
      BY DEF LoggedIsDone
    <2>1. Logged(v) /\ v # u
      BY <1>8, <1>12 DEF NotDone
    <2>2. QED
      BY <1>1, <1>9, <2>1 DEF LoggedIsDone
  <1>18. LoggedInTime'
    <2> SUFFICES ASSUME crashes' = 0, NEW v \in Units, Released(v)'
                 PROVE  Logged(v)'
      BY DEF LoggedInTime
    <2>1. Released(v) /\ v # u
      BY <1>8, <1>9, <1>11, <1>14
    <2>2. ASSUME NEW q \in Procs, UnitOf(q) = v
          PROVE  FALSE
      BY <1>6, <2>1, <2>2 DEF OneAtATime
    <2>3. Logged(v)
      BY <1>1, <1>14, <2>1, <2>2 DEF LoggedInTime
    <2>4. QED
      BY <1>12, <2>3
  <1>19. NoPrematureCompletion'
    <2> SUFFICES ASSUME NEW v \in Units, queue'[v].status = "done" \/ Logged(v)'
                 PROVE  Released(v)'
      BY SamePlan DEF NoPrematureCompletion, Logged
    <2>1. v # u
      BY <1>13 DEF NotDone
    <2>2. queue[v].status = "done" \/ Logged(v)
      BY <1>9, <1>12, <2>1
    <2>3. Released(v)
      BY <1>1, <2>2, SamePlan DEF NoPrematureCompletion, Logged
    <2>4. QED
      BY <1>9, <2>1, <2>3
  <1>20. InPlanOrder'
    <2> SUFFICES ASSUME NEW i \in DOMAIN Order, NEW j \in DOMAIN Order, i < j,
                        NEW a \in Attempts, ledger'[Order[j]][a].rev > 0
                 PROVE  /\ queue'[Order[i]].status # "ready"
                        /\ Released(Order[i])' \/ crashes' > 0
      BY DEF InPlanOrder
    <2>1. CASE Order[j] = u
      BY <1>15, <2>1 DEF InOrder
    <2>2. CASE Order[j] # u
      <3>1. ledger[Order[j]][a].rev > 0
        <4>1. PICK w \in Units : w = Order[j]
          BY OrderFacts
        <4>2. ledger'[w] = ledger[w]
          BY <1>9, <2>2, <4>1
        <4>3. QED
          BY <4>1, <4>2
      <3>2. queue[Order[i]].status # "ready" /\ (Released(Order[i]) \/ crashes > 0)
        BY <1>1, <3>1 DEF InPlanOrder
      <3>3. CASE Order[i] = u
        <4>1. crashes > 0
          <5>1. crashes # 0
            BY <1>8, <1>11, <3>2, <3>3 DEF Released
          <5>2. QED
            BY <1>1, <3>2, <5>1, ExecutionBoundsAssumption DEF TypeInv
        <4>2. QED
          BY <1>10, <1>14, <3>2, <3>3, <4>1
      <3>4. CASE Order[i] # u
        <4>1. PICK w \in Units : w = Order[i]
          BY OrderFacts
        <4>2. queue'[w].status = queue[w].status /\ Released(w)' = Released(w)
          BY <1>9, <3>4, <4>1
        <4>3. queue[w].status # "ready" /\ (Released(w) \/ crashes > 0)
          BY <3>2, <4>1
        <4>4. queue'[w].status # "ready" /\ (Released(w)' \/ crashes' > 0)
          BY <1>14, <4>2, <4>3
        <4>5. QED
          BY <4>1, <4>4 DEF Released
      <3>5. QED
        BY <3>3, <3>4
    <2>3. QED
      BY <2>1, <2>2
  <1>21. QED
    BY <1>3, <1>16, <1>17, <1>18, <1>19, <1>20, SoloNext

\* A run ends: what it leaves in the queue and the log reads as before, but for
\* a cache that was synchronised.
LEMMA EndSolo ==
    ASSUME OneAtATime, SoloInv, TypeInv', NEW p \in Procs, Ends(p), UNCHANGED ledger,
           \A u \in Units : Logged(u)' = Logged(u),
           \A u \in Units :
              /\ queue'[u].status = "done" => queue[u].status = "done" \/ Logged(u)
              /\ queue[u].status # "ready" => queue'[u].status # "ready"
              /\ Logged(u) => queue'[u].status = "done",
           \/ crashes' > 0
           \/ crashes' = crashes /\ proc[p].pc \notin DoneSteps
    PROVE  SoloInv'
  <1>1. TypeInv /\ LoggedIsDone /\ LoggedInTime /\ NoPrematureCompletion /\ InPlanOrder
    BY DEF SoloInv
  <1>2. PICK k \in Locals : k = proc'[p]
    BY DEF TypeInv
  <1>3. k = Idle
    BY <1>2 DEF Ends
  <1>4. StepOK(k)'
    <2>1. k.pc = "idle" /\ k.held = {}
      BY <1>3 DEF Idle
    <2>2. QED
      BY <2>1 DEF StepOK, WorkSteps, DoneSteps
  <1>5. \A v \in Units : Released(v)' = Released(v)
    BY DEF Released
  <1>6. LoggedIsDone'
    BY DEF LoggedIsDone
  <1>7. LoggedInTime'
    <2> SUFFICES ASSUME crashes' = 0, NEW v \in Units, Released(v)'
                 PROVE  Logged(v)'
      BY DEF LoggedInTime
    <2>1. crashes = 0 /\ proc[p].pc \notin DoneSteps /\ Released(v)
      BY <1>5
    <2>2. \A q \in Procs : proc[q].pc \notin DoneSteps
      BY <2>1 DEF OneAtATime
    <2>3. Logged(v)
      BY <1>1, <2>1, <2>2 DEF LoggedInTime
    <2>4. QED
      BY <2>3
  <1>8. NoPrematureCompletion'
    <2> SUFFICES ASSUME NEW v \in Units, queue'[v].status = "done" \/ Logged(v)'
                 PROVE  Released(v)'
      BY SamePlan DEF NoPrematureCompletion, Logged
    <2>1. queue[v].status = "done" \/ Logged(v)
      OBVIOUS
    <2>2. Released(v)
      BY <1>1, <2>1, SamePlan DEF NoPrematureCompletion, Logged
    <2>3. QED
      BY <1>5, <2>2
  <1>9. InPlanOrder'
    <2> SUFFICES ASSUME NEW i \in DOMAIN Order, NEW j \in DOMAIN Order, i < j,
                        NEW a \in Attempts, ledger'[Order[j]][a].rev > 0
                 PROVE  /\ queue'[Order[i]].status # "ready"
                        /\ Released(Order[i])' \/ crashes' > 0
      BY DEF InPlanOrder
    <2>1. queue[Order[i]].status # "ready" /\ (Released(Order[i]) \/ crashes > 0)
      BY <1>1 DEF InPlanOrder
    <2>2. PICK w \in Units : w = Order[i]
      BY OrderFacts
    <2>3. queue'[w].status # "ready" /\ (Released(w)' \/ crashes' > 0)
      BY <1>5, <2>1, <2>2
    <2>4. QED
      BY <2>2, <2>3 DEF Released
  <1>10. QED
    BY <1>2, <1>4, <1>6, <1>7, <1>8, <1>9, SoloNext

\* A run ends and writes nothing more.
LEMMA StopSolo ==
    ASSUME OneAtATime, SoloInv, TypeInv', NEW p \in Procs, Ends(p),
           UNCHANGED <<queue, log, ledger>>,
           \/ crashes' > 0
           \/ crashes' = crashes /\ proc[p].pc \notin DoneSteps
    PROVE  SoloInv'
  <1>1. \A u \in Units : Logged(u)' = Logged(u)
    BY DEF Logged
  <1>2. \A u \in Units : Logged(u) => queue[u].status = "done"
    BY DEF SoloInv, LoggedIsDone
  <1>3. QED
    BY <1>1, <1>2, EndSolo

\* A step that touches neither the records nor any run keeps the invariant.
LEMMA SameSolo ==
    ASSUME SoloInv, TypeInv', UNCHANGED <<queue, log, ledger, proc, crashes>>
    PROVE  SoloInv'
  <1>1. /\ \A u \in Units : Released(u)' = Released(u) /\ Logged(u)' = Logged(u)
        /\ \A u \in Units : NotDone(u)' = NotDone(u)
    BY DEF Released, Logged, NotDone
  <1>2. \A i \in DOMAIN Order : Released(Order[i])' = Released(Order[i])
    BY DEF Released
  <1>3. ASSUME NEW p \in Procs, NEW l \in Locals, l = proc'[p]
        PROVE  StepOK(l)'
    <2>1. StepOK(l)
      BY <1>3 DEF SoloInv
    <2>2. PICK u \in Units : u = l.unit
      BY DEF Locals
    <2>3. InOrder(u)' = InOrder(u)
      BY <1>2 DEF InOrder
    <2>4. QED
      BY <1>1, <2>1, <2>2, <2>3 DEF StepOK
  <1>4. LoggedIsDone' /\ LoggedInTime'
    BY <1>1 DEF SoloInv, LoggedIsDone, LoggedInTime, UnitOf
  <1>5. NoPrematureCompletion'
    BY <1>1 DEF SoloInv, NoPrematureCompletion
  <1>6. InPlanOrder'
    BY <1>2 DEF SoloInv, InPlanOrder
  <1>7. QED
    BY <1>3, <1>4, <1>5, <1>6 DEF SoloInv

\* The plan's first unit without a completion, or the next one the queue allows
\* when it already shows that one as done, has every earlier unit taken up.
LEMMA SelectedInOrder ==
    ASSUME SoloInv, NEW u \in Units, SelectedUnit(u), \A p \in Procs : proc[p].pc \notin DoneSteps
    PROVE  NotDone(u) /\ InOrder(u) /\ (crashes = 0 => ~Released(u))
  <1> DEFINE open == Incomplete(log[MainPlan])
             f == First(open)
             g == First(Actionable)
  <1>1. LoggedIsDone /\ LoggedInTime /\ NoPrematureCompletion
    BY DEF SoloInv
  <1>2. open # {} /\ open \in SUBSET DOMAIN Order /\ Actionable \in SUBSET DOMAIN Order
    BY DEF SelectedUnit, Incomplete, Actionable
  <1>3. f \in open /\ \A j \in open : f <= j
    BY <1>2, FirstIsLeast
  <1>4. \A v \in Units : crashes = 0 /\ Released(v) => Logged(v)
    BY <1>1 DEF LoggedInTime
  <1>5. \A v \in Units : queue[v].status = "done" \/ Logged(v) => Released(v)
    BY <1>1, SamePlan DEF NoPrematureCompletion, Logged
  <1>6. NotDone(u) => (crashes = 0 => ~Released(u))
    BY <1>4 DEF NotDone
  <1>7. f \in DOMAIN Order /\ Order[f] \in Units /\ ~Logged(Order[f])
    BY <1>2, <1>3, OrderFacts DEF Incomplete, Logged
  <1>8. CASE queue[Order[f]].status # "done"
    <2>1. u = Order[f]
      BY <1>8 DEF SelectedUnit
    <2>2. NotDone(u)
      BY <1>7, <1>8, <2>1 DEF NotDone
    <2>3. InOrder(u)
      <3> SUFFICES ASSUME NEW i \in DOMAIN Order, NEW j \in DOMAIN Order, i < j, Order[j] = u
                   PROVE  queue[Order[i]].status # "ready" /\ Released(Order[i])
        BY DEF InOrder
      <3>1. i \in Nat /\ j \in Nat /\ f \in Nat
        BY <1>7, OrderFacts
      <3>2. j = f
        BY <1>7, <2>1, <3>1, OrderFacts
      <3>3. i \notin open
        BY <1>3, <3>1, <3>2
      <3>4. PICK v \in Units : v = Order[i]
        BY OrderFacts
      <3>5. Logged(v)
        BY <3>3, <3>4 DEF Incomplete, Logged
      <3>6. queue[v].status = "done" /\ Released(v)
        BY <1>1, <1>5, <3>5 DEF LoggedIsDone
      <3>7. QED
        BY <3>4, <3>6 DEF Released
    <2>4. QED
      BY <1>6, <2>2, <2>3
  <1>9. CASE queue[Order[f]].status = "done"
    <2>1. Actionable # {} /\ u = Order[g]
      BY <1>9 DEF SelectedUnit
    <2>2. g \in Actionable /\ \A j \in Actionable : g <= j
      BY <1>2, <2>1, FirstIsLeast
    <2>3. g \in DOMAIN Order /\ queue[u].status \in {"ready", "needs_work"}
      BY <2>1, <2>2 DEF Actionable
    <2>4. NotDone(u)
      BY <1>1, <2>3 DEF NotDone, LoggedIsDone
    <2>5. crashes # 0
      <3>1. PICK v \in Units : v = Order[f]
        BY <1>7
      <3>2. Released(v) /\ ~Logged(v)
        BY <1>5, <1>7, <1>9, <3>1 DEF Logged
      <3>3. QED
        BY <1>4, <3>2
    <2>6. crashes > 0
      BY <2>5, ExecutionBoundsAssumption DEF SoloInv, TypeInv
    <2>7. InOrder(u)
      <3> SUFFICES ASSUME NEW i \in DOMAIN Order, NEW j \in DOMAIN Order, i < j, Order[j] = u
                   PROVE  queue[Order[i]].status # "ready"
        BY <2>6 DEF InOrder
      <3>1. i \in Nat /\ j \in Nat /\ g \in Nat
        BY <2>3, OrderFacts
      <3>2. j = g
        BY <2>1, <2>3, <3>1, OrderFacts
      <3>3. i \notin Actionable
        BY <2>2, <3>1, <3>2
      <3>4. QED
        BY <3>3 DEF Actionable
    <2>8. QED
      BY <1>6, <2>4, <2>7
  <1>10. QED
    BY <1>8, <1>9

\* Selecting a unit: the one process takes up its locals afresh.
LEMMA SelectSolo ==
    ASSUME OneAtATime, SoloInv, TypeInv', NEW p \in Procs, NEW u \in Units, Select(p, u)
    PROVE  SoloInv'
  <1>1. TypeInv /\ LoggedIsDone /\ LoggedInTime /\ NoPrematureCompletion /\ InPlanOrder
    BY DEF SoloInv
  <1> DEFINE n == [Idle EXCEPT !.pc = "recover", !.unit = u, !.view = queue]
  <1>2. /\ n.pc = "recover" /\ n.unit = u /\ n.view = queue /\ n.held = {}
    BY DEF Idle
  <1>3. proc'[p] = n
    BY <1>1, BecomeEffect DEF Select
  <1> HIDE DEF n
  <1>4. PICK k \in Locals : k = proc'[p]
    BY DEF TypeInv
  <1>5. UNCHANGED <<queue, log, ledger, crashes>>
    BY DEF Select, recordVars
  <1>6. /\ \A v \in Units : Released(v)' = Released(v) /\ Logged(v)' = Logged(v)
        /\ NotDone(u)' = NotDone(u)
    BY <1>5 DEF Released, Logged, NotDone
  <1>7. \A q \in Procs : proc[q].pc \notin DoneSteps
    BY DEF Select, At, OneAtATime, DoneSteps
  <1>8. NotDone(u) /\ InOrder(u) /\ (crashes = 0 => ~Released(u))
    BY <1>7, SelectedInOrder DEF Select
  <1>9. InOrder(u)'
    BY <1>5, <1>8 DEF InOrder, Released
  <1>10. StepOK(k)'
    <2>1. k.pc = "recover" /\ k.unit = u /\ k.view = queue' /\ k.held = {}
      BY <1>2, <1>3, <1>4, <1>5
    <2>2. NotDone(u)' /\ (crashes' = 0 => ~Released(u)')
      BY <1>5, <1>6, <1>8
    <2>3. QED
      BY <1>9, <2>1, <2>2 DEF StepOK, DoneSteps
  <1>11. LoggedIsDone' /\ NoPrematureCompletion'
    BY <1>1, <1>5, <1>6 DEF LoggedIsDone, NoPrematureCompletion
  <1>12. LoggedInTime'
    BY <1>1, <1>5, <1>6, <1>7 DEF LoggedInTime
  <1>13. InPlanOrder'
    BY <1>1, <1>5 DEF InPlanOrder, Released
  <1>14. QED
    BY <1>4, <1>10, <1>11, <1>12, <1>13, SoloNext

\* What the cache shows once it is synchronised with the log.
LEMMA SyncedFacts ==
    ASSUME TypeInv, queue' = Synced(MainPlan, queue, log[MainPlan]), NEW u \in Units
    PROVE  /\ queue'[u].status = "done" => queue[u].status = "done" \/ Logged(u)
           /\ queue[u].status # "ready" => queue'[u].status # "ready"
           /\ Logged(u) => queue'[u].status = "done"
  <1>1. queue'[u] = [queue[u] EXCEPT !.status =
                        SyncedStatus(log[MainPlan], u, queue[u].status)]
    BY SyncedType
  <1>2. queue[u] \in Placed
    BY DEF TypeInv, FilesOK
  <1>3. queue'[u].status = SyncedStatus(log[MainPlan], u, queue[u].status)
    BY <1>1, <1>2 DEF Placed, Entries
  <1>4. QED
    BY <1>3 DEF SyncedStatus, Logged

\* Loading the queue synchronises it, and the run goes on with a copy.
LEMMA ReloadSolo ==
    ASSUME OneAtATime, SoloInv, TypeInv', NEW p \in Procs, Reload(p)
    PROVE  SoloInv'
  <1>1. TypeInv /\ LoggedIsDone /\ LoggedInTime /\ NoPrematureCompletion /\ InPlanOrder
    BY DEF SoloInv
  <1>2. PICK l \in Locals : l = proc[p]
    BY <1>1, ProcType
  <1>3. PICK k \in Locals : k = proc'[p]
    BY DEF TypeInv
  <1>4. PICK u \in Units : u = l.unit
    BY DEF Locals
  <1>5. /\ k.pc = "attest" /\ k.unit = u /\ k.held = l.held /\ k.view = queue'
        /\ queue' = Synced(MainPlan, queue, log[MainPlan])
    BY <1>1, <1>2, <1>3, <1>4, ReloadEffect
  <1>6. UNCHANGED <<log, ledger, crashes>>
    BY DEF Reload
  <1>7. \A v \in Units : Released(v)' = Released(v) /\ Logged(v)' = Logged(v)
    BY <1>6 DEF Released, Logged
  <1>8. l.pc = "reload" /\ StepOK(l)
    BY <1>2 DEF SoloInv, Reload, At
  <1>9. /\ NotDone(u) /\ (crashes = 0 => ~Released(u)) /\ InOrder(u)
        /\ \A v \in Units : <<v, "Completed">> \notin l.held
    BY <1>4, <1>8 DEF StepOK, WorkSteps
  <1>10. \A v \in Units :
            /\ queue'[v].status = "done" => queue[v].status = "done" \/ Logged(v)
            /\ queue[v].status # "ready" => queue'[v].status # "ready"
            /\ Logged(v) => queue'[v].status = "done"
    BY <1>1, <1>5, SyncedFacts
  <1>11. NotDone(u)'
    BY <1>7, <1>9, <1>10 DEF NotDone
  <1>12. ASSUME NEW i \in DOMAIN Order, queue[Order[i]].status # "ready",
                Released(Order[i]) \/ crashes > 0
         PROVE  /\ queue'[Order[i]].status # "ready"
                /\ Released(Order[i])' \/ crashes' > 0
    <2>1. PICK w \in Units : w = Order[i]
      BY OrderFacts
    <2>2. queue'[w].status # "ready" /\ (Released(w) \/ crashes > 0)
      BY <1>10, <1>12, <2>1
    <2>3. QED
      BY <1>6, <2>1, <2>2 DEF Released
  <1>13. InOrder(u)'
    BY <1>9, <1>12 DEF InOrder
  <1>14. StepOK(k)'
    <2>1. crashes' = 0 => ~Released(u)'
      BY <1>6, <1>7, <1>9
    <2>2. QED
      BY <1>5, <1>9, <1>11, <1>13, <2>1 DEF StepOK, DoneSteps
  <1>15. LoggedIsDone'
    BY <1>7, <1>10 DEF LoggedIsDone
  <1>16. LoggedInTime'
    <2> SUFFICES ASSUME crashes' = 0, NEW v \in Units, Released(v)'
                 PROVE  Logged(v)'
      BY DEF LoggedInTime
    <2>1. \A q \in Procs : proc[q].pc \notin DoneSteps
      BY <1>2, <1>8 DEF OneAtATime, DoneSteps
    <2>2. QED
      BY <1>1, <1>6, <1>7, <2>1 DEF LoggedInTime
  <1>17. NoPrematureCompletion'
    <2> SUFFICES ASSUME NEW v \in Units, queue'[v].status = "done" \/ Logged(v)'
                 PROVE  Released(v)'
      BY SamePlan DEF NoPrematureCompletion, Logged
    <2>1. queue[v].status = "done" \/ Logged(v)
      BY <1>7, <1>10
    <2>2. QED
      BY <1>1, <1>7, <2>1, SamePlan DEF NoPrematureCompletion, Logged
  <1>18. InPlanOrder'
    BY <1>1, <1>6, <1>12 DEF InPlanOrder
  <1>19. QED
    BY <1>3, <1>14, <1>15, <1>16, <1>17, <1>18, SoloNext

\* From the proof on: the unit is released, then done in the queue, then in the log.
LEMMA ReleasedSolo ==
    ASSUME OneAtATime, SoloInv, TypeInv', NEW p \in Procs, NEW u \in Units, UnitOf(p) = u,
           proc[p].pc # "idle", proc'[p].unit = u, proc'[p].held = proc[p].held,
           proc'[p].pc \in DoneSteps \cup {"done_sync"}, UNCHANGED crashes,
           Released(u)',
           \A v \in Units : v # u => ledger'[v] = ledger[v],
           \A v \in Units : v # u => queue'[v].status = queue[v].status,
           queue'[u].status \in {queue[u].status, "done"},
           \A v \in Units : v # u => Logged(v)' = Logged(v),
           Logged(u)' => queue'[u].status = "done",
           proc'[p].pc = "done_sync" => Logged(u)',
           proc'[p].pc = "done_save" =>
              /\ ~Logged(u)'
              /\ \A v \in Units : v # u => proc'[p].view[v].status = queue'[v].status,
           proc'[p].pc \in {"done_log_read", "done_log_write"} => queue'[u].status = "done",
           proc'[p].pc = "done_log_write" => proc'[p].lines = log'[MainPlan]
    PROVE  SoloInv'
  <1>1. TypeInv /\ LoggedIsDone /\ LoggedInTime /\ NoPrematureCompletion /\ InPlanOrder
    BY DEF SoloInv
  <1>2. PICK l \in Locals : l = proc[p]
    BY <1>1, ProcType
  <1>3. PICK k \in Locals : k = proc'[p]
    BY DEF TypeInv
  <1>4. l.pc # "idle" /\ l.unit = u /\ StepOK(l)
    BY <1>2 DEF SoloInv, UnitOf
  <1>5. InOrder(u) /\ \A v \in Units : <<v, "Completed">> \notin l.held
    BY <1>4 DEF StepOK
  <1>6. \A v \in Units : v # u => Released(v)' = Released(v)
    BY DEF Released
  <1>7. InOrder(u)'
    <2> SUFFICES ASSUME NEW i \in DOMAIN Order, NEW j \in DOMAIN Order, i < j, Order[j] = u
                 PROVE  /\ queue'[Order[i]].status # "ready"
                        /\ Released(Order[i])' \/ crashes' > 0
      BY DEF InOrder
    <2>1. PICK w \in Units : w = Order[i] /\ w # u
      BY OrderFacts
    <2>2. queue[w].status # "ready" /\ (Released(w) \/ crashes > 0)
      BY <1>5, <2>1 DEF InOrder
    <2>3. queue'[w].status # "ready" /\ (Released(w)' \/ crashes' > 0)
      BY <1>6, <2>1, <2>2
    <2>4. QED
      BY <2>1, <2>3 DEF Released
  <1>8. StepOK(k)'
    <2>1. /\ k.unit = u /\ k.held = l.held /\ k.pc \in DoneSteps \cup {"done_sync"}
          /\ k.pc \notin WorkSteps \cup {"idle"}
      BY <1>2, <1>3 DEF DoneSteps, WorkSteps
    <2>2. k.pc = "done_save" =>
             ~Logged(u)' /\ \A v \in Units : v # u => k.view[v].status = queue'[v].status
      BY <1>3
    <2>3. k.pc \in {"done_log_read", "done_log_write"} => queue'[u].status = "done"
      BY <1>3
    <2>4. k.pc = "done_log_write" => k.lines = log'[MainPlan]
      BY <1>3
    <2>5. \A v \in Units : <<v, "Completed">> \notin k.held
      BY <1>5, <2>1
    <2>6. k.pc \notin {"revalidate", "hold_save", "hold_log_write"}
      BY <2>1 DEF DoneSteps
    <2>7. QED
      BY <1>7, <2>1, <2>2, <2>3, <2>4, <2>5, <2>6 DEF StepOK
  <1>9. LoggedIsDone'
    BY <1>1 DEF LoggedIsDone
  <1>10. LoggedInTime'
    <2> SUFFICES ASSUME crashes' = 0, NEW v \in Units, Released(v)'
                 PROVE  \/ Logged(v)'
                        \/ \E q \in Procs : proc'[q].unit = v /\ proc'[q].pc \in DoneSteps
      BY DEF LoggedInTime, UnitOf
    <2>1. CASE v = u
      BY <2>1
    <2>2. CASE v # u
      <3>1. \A q \in Procs : UnitOf(q) # v
        BY <2>2 DEF OneAtATime
      <3>2. Logged(v)
        BY <1>1, <1>6, <2>2, <3>1 DEF LoggedInTime
      <3>3. QED
        BY <2>2, <3>2
    <2>3. QED
      BY <2>1, <2>2
  <1>11. NoPrematureCompletion'
    <2> SUFFICES ASSUME NEW v \in Units, queue'[v].status = "done" \/ Logged(v)'
                 PROVE  Released(v)'
      BY SamePlan DEF NoPrematureCompletion, Logged
    <2>1. CASE v = u
      BY <2>1
    <2>2. CASE v # u
      <3>1. queue[v].status = "done" \/ Logged(v)
        BY <2>2
      <3>2. Released(v)
        BY <1>1, <3>1, SamePlan DEF NoPrematureCompletion, Logged
      <3>3. QED
        BY <1>6, <2>2, <3>2
    <2>3. QED
      BY <2>1, <2>2
  <1>12. InPlanOrder'
    <2> SUFFICES ASSUME NEW i \in DOMAIN Order, NEW j \in DOMAIN Order, i < j,
                        NEW a \in Attempts, ledger'[Order[j]][a].rev > 0
                 PROVE  /\ queue'[Order[i]].status # "ready"
                        /\ Released(Order[i])' \/ crashes' > 0
      BY DEF InPlanOrder
    <2>1. CASE Order[j] = u
      BY <1>7, <2>1 DEF InOrder
    <2>2. CASE Order[j] # u
      <3>1. PICK x \in Units : x = Order[j]
        BY OrderFacts
      <3>2. ledger[Order[j]][a].rev > 0
        BY <2>2, <3>1
      <3>3. PICK w \in Units : w = Order[i]
        BY OrderFacts
      <3>4. queue[w].status # "ready" /\ (Released(w) \/ crashes > 0)
        BY <1>1, <3>2, <3>3 DEF InPlanOrder
      <3>5. queue'[w].status # "ready" /\ (Released(w)' \/ crashes' > 0)
        BY <1>6, <3>4
      <3>6. QED
        BY <3>3, <3>5 DEF Released
    <2>3. QED
      BY <2>1, <2>2
  <1>13. QED
    BY <1>3, <1>8, <1>9, <1>10, <1>11, <1>12, SoloNext

\* Looking for a release, attempting the unit and holding it.
LEMMA AttemptSolo ==
    ASSUME OneAtATime, SoloInv, TypeInv', NEW p \in Procs, Recover(p) \/ Attempt(p) \/ Hold(p)
    PROVE  SoloInv'
  <1>1. TypeInv
    BY DEF SoloInv
  <1>2. proc[p].pc \in WorkSteps
    BY DEF Recover, Attempt, Hold, Reload, Attest, Start, Begin, Repair, Open, ChildEnds,
           DeterministicGate, ReviewStarts, ReviewEnds, Finalize, Verify, HoldSave, HoldLogRead,
           HoldLogWrite, ReadLog, At, WorkSteps
  <1>3. proc[p].pc \notin DoneSteps
    BY <1>2 DEF WorkSteps, DoneSteps
  <1>4. ASSUME UNCHANGED <<log, queue, crashes>>, LedgerQuiet(p), Onward(p), Keeps(p)
        PROVE  SoloInv'
    BY <1>2, <1>4, WorkSolo DEF Keeps
  <1>5. ASSUME UNCHANGED <<log, queue, ledger, crashes>>, Ends(p)
        PROVE  SoloInv'
    BY <1>3, <1>5, StopSolo
  <1>6. CASE Recover(p)
    <2>1. UNCHANGED <<log, queue, ledger, crashes>> /\ LedgerQuiet(p)
      BY <1>6, SameQuiet DEF Recover, recordVars
    <2>2. /\ Onward(p)
          /\ \/ proc'[p].pc = "reload"
             \/ \E a \in Attempts :
                   proc'[p].pc = "revalidate" => ledger[UnitOf(p)][a].state = "completed"
      BY <1>1, <1>6, RecoverOnward
    <2>3. proc'[p].pc = "revalidate" => Released(UnitOf(p))
      BY <2>2 DEF Released
    <2>4. QED
      BY <1>2, <2>1, <2>2, <2>3, WorkSolo
  <1>7. CASE Reload(p)
    BY <1>7, ReloadSolo
  <1>8. CASE Attest(p) \/ Start(p)
    <2>1. UNCHANGED <<log, queue, ledger, crashes>> /\ LedgerQuiet(p)
      BY <1>8, SameQuiet DEF Attest, Start, recordVars
    <2>2. QED
      BY <1>1, <1>4, <1>5, <1>8, <2>1, StartOnward
  <1>9. CASE Begin(p) \/ Repair(p)
    <2>1. UNCHANGED <<log, ledger, crashes>> /\ LedgerQuiet(p)
      BY <1>9, SameQuiet DEF Begin, Repair
    <2>2. CASE Ends(p) /\ UNCHANGED queue
      BY <1>5, <2>1, <2>2
    <2>3. CASE Onward(p) /\ Keeps(p) /\ UNCHANGED queue
      BY <1>4, <2>1, <2>3
    <2>4. CASE /\ Onward(p) /\ Keeps(p)
               /\ queue' = proc'[p].view
               /\ queue'[UnitOf(p)].status = "in_progress"
      BY <1>2, <2>1, <2>4, WorkSolo DEF Keeps
    <2>5. QED
      BY <1>1, <1>9, <2>2, <2>3, <2>4, BeginOnward
  <1>10. CASE Open(p)
    BY <1>1, <1>4, <1>10, OpenOnward DEF Open, recordVars
  <1>11. CASE ChildEnds(p) \/ DeterministicGate(p) \/ ReviewStarts(p) \/ ReviewEnds(p)
    <2>1. UNCHANGED <<log, queue, crashes>>
      BY <1>11 DEF ChildEnds, DeterministicGate, ReviewStarts, ReviewEnds, recordVars
    <2>2. QED
      BY <1>1, <1>4, <1>11, <2>1, WorkOnward
  <1>12. CASE Finalize(p)
    BY <1>1, <1>4, <1>12, FinalizeOnward DEF Finalize, recordVars
  <1>13. CASE Verify(p)
    <2>1. UNCHANGED <<log, queue, ledger, crashes>> /\ LedgerQuiet(p)
      BY <1>13, SameQuiet DEF Verify, recordVars
    <2>2. QED
      BY <1>1, <1>2, <1>13, <2>1, VerifyOnward, WorkSolo
  <1>14. CASE HoldSave(p)
    <2>1. UNCHANGED <<log, ledger, crashes>> /\ LedgerQuiet(p)
      BY <1>14, SameQuiet DEF HoldSave
    <2>2. \/ Onward(p) /\ Keeps(p)
          \/ Ends(p)
      BY <1>1, <1>14, CheckOnward
    <2>3. queue' = proc[p].view
      BY <1>1, <1>14, LocalsAccess, SaveType DEF HoldSave
    <2>4. proc'[p].view = proc[p].view /\ proc'[p].pc = "hold_log_read"
      BY <1>1, <1>14, GotoEffect DEF HoldSave, Moves
    <2>5. queue'[UnitOf(p)].status = "needs_work"
      <3>1. PICK l \in Locals : l = proc[p]
        BY <1>1, ProcType
      <3>2. StepOK(l) /\ l.pc = "hold_save"
        BY <1>14, <3>1 DEF SoloInv, HoldSave, At
      <3>3. QED
        BY <2>3, <3>1, <3>2 DEF StepOK, UnitOf
    <2>6. Onward(p) /\ Keeps(p)
      BY <2>2, <2>4 DEF Ends, Idle
    <2>7. QED
      BY <1>2, <2>1, <2>3, <2>4, <2>5, <2>6, WorkSolo
  <1>15. CASE HoldLogRead(p)
    <2>1. UNCHANGED <<log, queue, ledger, crashes>> /\ LedgerQuiet(p)
      BY <1>15, SameQuiet DEF HoldLogRead, ReadLog, recordVars
    <2>2. QED
      BY <1>1, <1>4, <1>5, <1>15, <2>1, CheckOnward
  <1>16. CASE HoldLogWrite(p)
    <2>1. UNCHANGED <<queue, ledger, crashes>> /\ Ends(p)
      BY <1>1, <1>16, ReturnEnds DEF HoldLogWrite
    <2>2. PICK l \in Locals : l = proc[p]
      BY <1>1, ProcType
    <2>3. /\ l.lines = log[MainPlan]
          /\ \A u \in Units : <<u, "Completed">> \notin l.held
      <3>1. StepOK(l) /\ l.pc = "hold_log_write"
        BY <1>16, <2>2 DEF SoloInv, HoldLogWrite, At
      <3>2. QED
        BY <3>1 DEF StepOK
    <2>4. log'[MainPlan] = l.lines \cup l.held
      <3>1. proc[p].lines \cup proc[p].held \in SUBSET Lines
        BY <1>1, LocalsAccess
      <3>2. log'[MainPlan] = proc[p].lines \cup proc[p].held
        BY <1>1, <1>16, <2>1, <3>1, WriteLogType DEF HoldLogWrite
      <3>3. QED
        BY <2>2, <3>2
    <2>5. \A u \in Units : Logged(u)' = Logged(u)
      <3> TAKE u \in Units
      <3> DEFINE line == <<u, "Completed">>
      <3>1. line \in l.lines \cup l.held <=> line \in log[MainPlan]
        BY <2>3
      <3> HIDE DEF line
      <3>2. (line \in log'[MainPlan]) <=> (line \in log[MainPlan])
        BY <2>4, <3>1
      <3>3. QED
        BY <3>2 DEF Logged, line
    <2>6. \A u \in Units : Logged(u) => queue[u].status = "done"
      BY DEF SoloInv, LoggedIsDone
    <2>7. QED
      BY <1>3, <2>1, <2>5, <2>6, EndSolo
  <1>17. QED
    BY <1>6, <1>7, <1>8, <1>9, <1>10, <1>11, <1>12, <1>13, <1>14, <1>15, <1>16
       DEF Attempt, Hold

\* Before the proof the release is a step like any other.
LEMMA ReleaseWorkSolo ==
    ASSUME OneAtATime, SoloInv, TypeInv', NEW p \in Procs, Prepare(p) \/ Check(p) \/ Commit(p),
           LocalScoped(proc[p])
    PROVE  SoloInv'
  <1>1. TypeInv
    BY DEF SoloInv
  <1>2. proc[p].pc \in WorkSteps
    BY DEF Prepare, Check, Commit, At, WorkSteps
  <1>3. proc[p].pc \notin DoneSteps
    BY <1>2 DEF WorkSteps, DoneSteps
  <1>4. UNCHANGED <<log, queue, crashes>>
    BY DEF Prepare, Check, Commit, recordVars
  <1>5. CASE Prepare(p)
    BY <1>1, <1>2, <1>4, <1>5, PrepareOnward, WorkSolo
  <1>6. CASE Check(p) \/ Commit(p)
    <2>1. UNCHANGED ledger /\ LedgerQuiet(p)
      BY <1>6, SameQuiet DEF Check, Commit
    <2>2. CASE Onward(p) /\ Keeps(p)
      BY <1>2, <1>4, <2>1, <2>2, WorkSolo DEF Keeps
    <2>3. CASE Ends(p)
      BY <1>3, <1>4, <2>1, <2>3, StopSolo
    <2>4. QED
      BY <1>1, <1>6, <2>2, <2>3, CheckOnward
  <1>7. QED
    BY <1>5, <1>6

\* The proof, or the comparison of a release that was proved already: the unit is
\* released, and not logged yet.
LEMMA ProofSolo ==
    ASSUME OneAtATime, SoloInv, TypeInv', NEW p \in Procs, Prove(p) \/ Revalidate(p)
    PROVE  SoloInv'
  <1>1. TypeInv
    BY DEF SoloInv
  <1>2. PICK l \in Locals : l = proc[p]
    BY <1>1, ProcType
  <1>3. PICK u \in Units : u = l.unit
    BY DEF Locals
  <1>4. l.pc \in WorkSteps /\ l.pc \notin DoneSteps /\ StepOK(l)
    BY <1>2 DEF Prove, Revalidate, At, WorkSteps, DoneSteps, SoloInv
  <1>5. /\ ~Logged(u)
        /\ \A v \in Units : v # u => l.view[v].status = queue[v].status
        /\ l.pc = "revalidate" => Released(u)
    BY <1>3, <1>4 DEF StepOK, NotDone
  <1>6. UNCHANGED <<log, queue, crashes>>
    BY DEF Prove, Revalidate, recordVars
  <1>7. \A v \in Units : Logged(v)' = Logged(v)
    BY <1>6 DEF Logged
  <1>8. UnitOf(p) = u /\ proc[p].pc # "idle"
    BY <1>2, <1>3, <1>4 DEF UnitOf, WorkSteps
  <1>9. ASSUME Released(u)', \A v \in Units : v # u => ledger'[v] = ledger[v],
               proc'[p].pc = "done_save", proc'[p].unit = proc[p].unit,
               proc'[p].view = proc[p].view, proc'[p].held = proc[p].held
        PROVE  SoloInv'
    <2>1. \A v \in Units : v # u => proc'[p].view[v].status = queue'[v].status
      BY <1>2, <1>5, <1>6, <1>9
    <2>2. proc'[p].unit = u
      BY <1>8, <1>9 DEF UnitOf
    <2>3. ~Logged(u)'
      BY <1>5, <1>7
    <2>4. "done_save" \in DoneSteps \cup {"done_sync"}
      BY DEF DoneSteps
    <2>5. QED
      BY <1>6, <1>7, <1>8, <1>9, <2>1, <2>2, <2>3, <2>4, ReleasedSolo
  <1>10. ASSUME Ends(p), UNCHANGED ledger
         PROVE  SoloInv'
    BY <1>2, <1>4, <1>6, <1>10, StopSolo
  <1>11. CASE Prove(p)
    <2>1. CASE Ends(p) /\ UNCHANGED ledger
      BY <1>10, <2>1
    <2>2. CASE /\ ledger' = [ledger EXCEPT ![UnitOf(p)][proc[p].attempt] = Proof(proc[p].seen)]
               /\ proc'[p].pc = "done_save" /\ proc'[p].unit = proc[p].unit
               /\ proc'[p].view = proc[p].view /\ proc'[p].held = proc[p].held
      <3>1. PICK a \in Attempts : a = proc[p].attempt
        BY <1>1, LocalsAccess
      <3>2. ledger \in [Units -> [Attempts -> Records]]
        BY <1>1 DEF TypeInv, FilesOK
      <3>3. PICK r \in Records : r = proc[p].seen
        BY <1>1, LocalsAccess
      <3> DEFINE n == Proof(r)
      <3>4. n.state = "completed"
        BY DEF Proof, Records
      <3>5. ledger' = [ledger EXCEPT ![u][a] = n]
        BY <1>8, <2>2, <3>1, <3>3
      <3> HIDE DEF n
      <3>6. ledger'[u][a] = n /\ \A v \in Units : v # u => ledger'[v] = ledger[v]
        BY <3>2, <3>5
      <3>7. Released(u)'
        BY <3>4, <3>6 DEF Released
      <3>8. QED
        BY <1>9, <2>2, <3>6, <3>7
    <2>3. QED
      BY <1>1, <1>11, <2>1, <2>2, ProveEffect
  <1>12. CASE Revalidate(p)
    <2>1. l.pc = "revalidate" /\ UNCHANGED ledger
      BY <1>2, <1>12 DEF Revalidate, At
    <2>2. Released(u)'
      BY <1>5, <2>1 DEF Released
    <2>3. CASE Goto(p, "done_save")
      BY <1>1, <1>9, <2>1, <2>2, <2>3, GotoEffect DEF Moves
    <2>4. CASE Return(p)
      BY <1>1, <1>10, <2>1, <2>4, ReturnEnds
    <2>5. QED
      BY <1>12, <2>3, <2>4 DEF Revalidate
  <1>13. QED
    BY <1>11, <1>12

\* Recording a released unit as done, in the queue, the log and the cache.
LEMMA DoneSolo ==
    ASSUME OneAtATime, SoloInv, TypeInv', NEW p \in Procs,
           DoneSave(p) \/ DoneLogRead(p) \/ DoneLogWrite(p) \/ DoneSync(p)
    PROVE  SoloInv'
  <1>1. TypeInv
    BY DEF SoloInv
  <1>2. PICK l \in Locals : l = proc[p]
    BY <1>1, ProcType
  <1>3. PICK u \in Units : u = l.unit
    BY DEF Locals
  <1>4. l.pc \in DoneSteps \cup {"done_sync"} /\ StepOK(l)
    BY <1>2 DEF DoneSave, DoneLogRead, ReadLog, DoneLogWrite, DoneSync, At, DoneSteps, SoloInv
  <1>5. UNCHANGED <<ledger, crashes>>
    BY DEF DoneSave, DoneLogRead, ReadLog, DoneLogWrite, DoneSync
  <1>6. /\ Released(u)
        /\ l.pc = "done_save" => ~Logged(u)
        /\ l.pc = "done_save" => \A v \in Units : v # u => l.view[v].status = queue[v].status
        /\ l.pc \in {"done_log_read", "done_log_write"} => queue[u].status = "done"
        /\ l.pc = "done_log_write" => l.lines = log[MainPlan]
    BY <1>3, <1>4 DEF StepOK
  <1>7. Released(u)'
    BY <1>5, <1>6 DEF Released
  <1>8. UnitOf(p) = u /\ proc[p].pc # "idle"
    BY <1>2, <1>3, <1>4 DEF UnitOf, DoneSteps
  <1>9. {"done_log_read", "done_log_write"} \subseteq DoneSteps
    BY DEF DoneSteps
  <1>10. Logged(u) => queue[u].status = "done"
    BY DEF SoloInv, LoggedIsDone
  <1>11. CASE DoneSave(p)
    <2>1. l.pc = "done_save" /\ UNCHANGED log
      BY <1>2, <1>11 DEF DoneSave, At
    <2>2. /\ proc'[p].pc = "done_log_read" /\ proc'[p].unit = u /\ proc'[p].held = proc[p].held
          /\ queue'[u].status = "done"
          /\ \A v \in Units : v # u => queue'[v].status = queue[v].status
      BY <1>1, <1>2, <1>6, <1>8, <1>11, <2>1, DoneSaveEffect DEF UnitOf
    <2>3. \A v \in Units : Logged(v)' = Logged(v)
      BY <2>1 DEF Logged
    <2>4. QED
      BY <1>5, <1>7, <1>8, <1>9, <2>2, <2>3, ReleasedSolo
  <1>12. CASE DoneLogRead(p)
    <2>1. l.pc = "done_log_read" /\ UNCHANGED <<queue, log>>
      BY <1>2, <1>12 DEF DoneLogRead, ReadLog, At, recordVars
    <2>2. /\ proc'[p].pc = "done_log_write" /\ proc'[p].unit = u /\ proc'[p].held = proc[p].held
          /\ proc'[p].lines = log'[MainPlan]
      BY <1>1, <1>8, <1>12, <2>1, DoneLogReadEffect DEF Moves, UnitOf
    <2>3. \A v \in Units : Logged(v)' = Logged(v)
      BY <2>1 DEF Logged
    <2>4. queue'[u].status = "done" /\ \A v \in Units : queue'[v].status = queue[v].status
      BY <1>6, <2>1
    <2>5. QED
      BY <1>5, <1>7, <1>8, <1>9, <2>2, <2>3, <2>4, ReleasedSolo
  <1>13. CASE DoneLogWrite(p)
    <2>1. l.pc = "done_log_write" /\ UNCHANGED queue
      BY <1>2, <1>13 DEF DoneLogWrite, At
    <2>2. proc'[p].pc = "done_sync" /\ proc'[p].unit = u /\ proc'[p].held = proc[p].held
      BY <1>1, <1>8, <1>13, GotoEffect DEF DoneLogWrite, Moves, UnitOf
    <2>3. log'[MainPlan] = log[MainPlan] \cup {<<u, "Completed">>}
      <3>1. proc[p].lines \cup {<<UnitOf(p), "Completed">>} \in SUBSET Lines
        BY <1>1, LocalsAccess DEF Lines
      <3>2. log'[MainPlan] = proc[p].lines \cup {<<UnitOf(p), "Completed">>}
        BY <1>1, <1>5, <1>13, <2>1, <3>1, WriteLogType DEF DoneLogWrite
      <3>3. QED
        BY <1>2, <1>6, <1>8, <2>1, <3>2
    <2>4. Logged(u)' /\ \A v \in Units : v # u => Logged(v)' = Logged(v)
      BY <2>3 DEF Logged
    <2>5. queue'[u].status = "done" /\ \A v \in Units : queue'[v].status = queue[v].status
      BY <1>6, <2>1
    <2>6. QED
      BY <1>5, <1>7, <1>8, <2>2, <2>4, <2>5, ReleasedSolo
  <1>14. CASE DoneSync(p)
    <2>1. l.pc = "done_sync" /\ UNCHANGED log
      BY <1>2, <1>14 DEF DoneSync, At
    <2>2. Ends(p) /\ proc[p].pc \notin DoneSteps
      BY <1>1, <1>2, <1>14, <2>1, ReturnEnds DEF DoneSync, DoneSteps
    <2>3. queue' = Synced(MainPlan, queue, log[MainPlan])
      BY <1>1, <1>5, <1>14, <2>1, SyncedType, SaveType DEF DoneSync
    <2>4. \A v \in Units : Logged(v)' = Logged(v)
      BY <2>1 DEF Logged
    <2>5. \A v \in Units :
             /\ queue'[v].status = "done" => queue[v].status = "done" \/ Logged(v)
             /\ queue[v].status # "ready" => queue'[v].status # "ready"
             /\ Logged(v) => queue'[v].status = "done"
      BY <1>1, <2>3, SyncedFacts
    <2>6. QED
      BY <1>5, <2>2, <2>4, <2>5, EndSolo
  <1>15. QED
    BY <1>11, <1>12, <1>13, <1>14

\* Every step of the one process, and of everybody else, keeps the invariant.
LEMMA SoloStep ==
    ASSUME OneAtATime, ExactInv, SoloInv, [Next]_vars
    PROVE  SoloInv'
  <1>1. TypeInv /\ TypeInv' /\ \A p \in Procs : LocalScoped(proc[p])
    BY TypeStep DEF SoloInv, ExactInv, ScopeInv
  <1>2. CASE UNCHANGED vars
    BY <1>1, <1>2, SameSolo DEF vars
  <1>3. ASSUME NEW p \in Procs, Release(p)
        PROVE  SoloInv'
    BY <1>1, <1>3, ReleaseWorkSolo, ProofSolo, DoneSolo DEF Release
  <1>4. ASSUME NEW p \in Procs, Crash(p)
        PROVE  SoloInv'
    <2>1. Ends(p) /\ UNCHANGED <<queue, log, ledger>>
      BY <1>1, <1>4, ReturnEnds DEF Crash, recordVars
    <2>2. crashes' > 0
      BY <1>1, <1>4, ExecutionBoundsAssumption DEF Crash, TypeInv
    <2>3. QED
      BY <1>1, <2>1, <2>2, StopSolo
  <1>5. CASE Environment
    BY <1>1, <1>5, SameSolo DEF Environment, recordVars
  <1>6. CASE Next
    BY <1>1, <1>3, <1>4, <1>5, <1>6, SelectSolo, AttemptSolo DEF Next, Continue
  <1>7. QED
    BY <1>2, <1>6

\* Nothing is done before anything was run.
LEMMA InitSolo == Init => SoloInv
  <1> SUFFICES ASSUME Init
               PROVE  SoloInv
    OBVIOUS
  <1>1. ASSUME NEW u \in Units
        PROVE  queue[u].status = "ready" /\ ~Logged(u) /\ ~Released(u)
    <2>1. PICK S \in PerUnit : queue = [w \in Units |->
             [FreshUnit EXCEPT !.review = IF w \in S THEN "per_unit" ELSE "final_only"]]
      BY DEF Init
    <2>2. queue[u].status = "ready"
      BY <2>1 DEF FreshUnit
    <2>3. ~Logged(u)
      BY FirstUnitType DEF Init, Logged
    <2>4. ~Released(u)
      BY DEF Init, Released, NoRecord
    <2>5. QED
      BY <2>2, <2>3, <2>4
  <1>2. ASSUME NEW p \in Procs, NEW l \in Locals, l = proc[p]
        PROVE  StepOK(l)
    <2>1. l.pc = "idle" /\ l.held = {}
      BY <1>2 DEF Init, Idle
    <2>2. QED
      BY <2>1 DEF StepOK, WorkSteps, DoneSteps
  <1>3. LoggedIsDone /\ LoggedInTime
    BY <1>1 DEF LoggedIsDone, LoggedInTime
  <1>4. NoPrematureCompletion
    BY <1>1, SamePlan DEF NoPrematureCompletion, Logged
  <1>5. InPlanOrder
    <2>1. \A u \in Units, a \in Attempts : ledger[u][a].rev = 0
      BY DEF Init, NoRecord
    <2>2. QED
      BY <2>1, OrderFacts DEF InPlanOrder
  <1>6. QED
    BY <1>2, <1>3, <1>4, <1>5, InitType DEF SoloInv

\* With one process at a time the invariant holds in every reachable state.
LEMMA SoloHolds ==
    ASSUME OneAtATime
    PROVE  Spec => []SoloInv
  <1>1. ExactInv /\ SoloInv /\ [Next]_vars => (ExactInv /\ SoloInv)'
    BY ExactStep, SoloStep
  <1>2. Init => ExactInv /\ SoloInv
    BY InitExact, InitSolo
  <1>3. QED
    BY <1>1, <1>2, PTL DEF Spec

\* While one process runs the plan, dying and started again as often as it may:
\* a unit that queue.json or log.md shows as done has a proved release, although
\* the release, the queue, the log and the cache are written one after another
\* and a run may die between any two of them.
THEOREM CompletionNeverPremature ==
    ASSUME OneAtATime
    PROVE  Spec => []NoPrematureCompletion
  <1>1. SoloInv => NoPrematureCompletion
    BY DEF SoloInv
  <1>2. QED
    BY <1>1, SoloHolds, PTL

\* While one process runs the plan, units are begun in the order of the plan: each
\* has an attempt only when every earlier one was taken up, and, as long as no run
\* has died, released.
THEOREM UnitsRunInOrder ==
    ASSUME OneAtATime
    PROVE  Spec => []InPlanOrder
  <1>1. SoloInv => InPlanOrder
    BY DEF SoloInv
  <1>2. QED
    BY <1>1, SoloHolds, PTL

-----------------------------------------------------------------------------
(* An attempt is committed once *)

\* The commit c was made for the attempt a of u.
MadeFor(c, u, a) == commits[c].author = <<u, a>>

\* The steps of an attempt, and those at which it is released.
AttemptSteps == {"implement", "review", "reviewing", "finalize", "verify", "prepare"}
OpeningSteps == {"repair", "open"} \cup AttemptSteps
ReleaseSteps == {"check", "commit", "prove"}
Relied == OpeningSteps \cup ReleaseSteps

\* A record r of the attempt a of u agrees with the commits: those of the attempt
\* are above the HEAD it started from and above the one it was prepared on.
RecordMade(u, a, r) ==
    /\ r.head <= Len(commits) /\ r.parent <= Len(commits)
    /\ \A c \in 1..Len(commits) : MadeFor(c, u, a) =>
          r.state # "none" /\ r.head < c /\ r.parent < c
NewIsBlank == \A u \in Units, a \in Attempts : ledger[u][a].rev = 0 => ledger[u][a].state = "none"

\* What a run may rely on: every commit of the unit is below the HEAD that the
\* run has read; the attempt that it works on has none; the release that it
\* finishes is the one in the ledger; and before the commit there is none.
MadeOK(l) ==
    /\ l.pc \in OpeningSteps =>
          /\ l.head <= Len(commits)
          /\ \A c \in 1..Len(commits), a \in Attempts : MadeFor(c, l.unit, a) => c <= l.head
    /\ l.pc \in AttemptSteps \cup {"commit"} =>
          \A c \in 1..Len(commits) : ~MadeFor(c, l.unit, l.attempt)
    /\ l.pc \in ReleaseSteps =>
          l.seen = ledger[l.unit][l.attempt] /\ l.seen.state = "committing"

FilesMade ==
    /\ HeadCommit = Len(commits)
    /\ \A u \in Units, a \in Attempts : RecordMade(u, a, ledger[u][a])
    /\ NewIsBlank
    /\ OneCommitPerAttempt
MadeInv == FilesMade /\ \A p \in Procs : MadeOK(proc[p])

\* What is said of records and locals stays true of the same commits and ledgers.
LEMMA SameMade ==
    ASSUME FilesMade, UNCHANGED <<branch, tips, commits, ledger>>
    PROVE  FilesMade' /\ \A l : MadeOK(l) => MadeOK(l)'
  <1>1. \A c, u, a : MadeFor(c, u, a)' <=> MadeFor(c, u, a)
    BY DEF MadeFor
  <1>2. HeadCommit' = Len(commits')
    BY DEF FilesMade, HeadCommit
  <1>3. \A u \in Units, a \in Attempts : RecordMade(u, a, ledger[u][a])'
    BY <1>1 DEF FilesMade, RecordMade
  <1>4. OneCommitPerAttempt' /\ NewIsBlank'
    BY DEF FilesMade, OneCommitPerAttempt, NewIsBlank
  <1>5. ASSUME NEW l, MadeOK(l)
        PROVE  MadeOK(l)'
    BY <1>1, <1>5 DEF MadeOK
  <1>6. QED
    BY <1>2, <1>3, <1>4, <1>5 DEF FilesMade

\* The only process takes locals that may be relied on.
LEMMA MovesMade ==
    ASSUME OneAtATime, TypeInv, FilesMade', NEW p \in Procs, NEW l, Become(p, l), MadeOK(l)'
    PROVE  MadeInv'
  <1>1. proc'[p] = l /\ \A q \in Procs : q = p
    BY BecomeEffect DEF OneAtATime
  <1>2. \A q \in Procs : MadeOK(proc[q])'
    BY <1>1
  <1>3. QED
    BY <1>2 DEF MadeInv

\* Nothing is relied on at another step.
LEMMA RestMade ==
    ASSUME OneAtATime, TypeInv, FilesMade', NEW p \in Procs, NEW l, Become(p, l),
           l.pc \notin Relied
    PROVE  MadeInv'
  <1>1. MadeOK(l)'
    BY DEF MadeOK, Relied, OpeningSteps, AttemptSteps, ReleaseSteps
  <1>2. QED
    BY <1>1, MovesMade

\* The run returns.
LEMMA ReturnMade ==
    ASSUME OneAtATime, TypeInv, FilesMade', NEW p \in Procs, Return(p)
    PROVE  MadeInv'
  <1>1. Idle.pc \notin Relied
    BY DEF Idle, Relied, OpeningSteps, AttemptSteps, ReleaseSteps
  <1>2. QED
    BY <1>1, RestMade DEF Return

\* A hold goes on with its records.
LEMMA HoldingMade ==
    ASSUME OneAtATime, TypeInv, FilesMade', NEW p \in Procs, NEW e \in Placed,
           NEW line \in BOOLEAN, Become(p, Holding(proc[p], e, line))
    PROVE  MadeInv'
  <1>1. Holding(proc[p], e, line).pc = "hold_save"
    BY ProcType, HoldingMoves
  <1>2. "hold_save" \notin Relied
    BY DEF Relied, OpeningSteps, AttemptSteps, ReleaseSteps
  <1>3. QED
    BY <1>1, <1>2, RestMade

\* k works on the same attempt as l, from the same HEAD and snapshot.
SameAttempt(l, k) ==
    k.unit = l.unit /\ k.attempt = l.attempt /\ k.head = l.head /\ k.seen = l.seen

\* k is at the step s of that attempt.
AttemptAt(l, k, s) == SameAttempt(l, k) /\ k.pc = s

\* Steps that remember something else keep to the attempt.
LEMMA StepKept ==
    ASSUME NEW l \in Locals, NEW s
    PROVE  AttemptAt(l, [l EXCEPT !.pc = s], s)
  BY DEF Locals, SameAttempt, AttemptAt
LEMMA ChangedKept ==
    ASSUME NEW l \in Locals, NEW s, NEW S, NEW o
    PROVE  AttemptAt(l, [l EXCEPT !.pc = s, !.changed = S, !.listed = o], s)
  BY DEF Locals, SameAttempt, AttemptAt
LEMMA ReviewingKept ==
    ASSUME NEW l \in Locals, NEW s, NEW f
    PROVE  AttemptAt(l, [l EXCEPT !.pc = s, !.reviewing = f], s)
  BY DEF Locals, SameAttempt, AttemptAt
LEMMA VerdictKept ==
    ASSUME NEW l \in Locals, NEW s, NEW v
    PROVE  /\ AttemptAt(l, [l EXCEPT !.pc = s, !.verdict = v], s)
           /\ AttemptAt(l, [l EXCEPT !.verdict = v, !.pc = s], s)
  BY DEF Locals, SameAttempt, AttemptAt

\* So does one that gives its unit another entry.
LEMMA EntryKept ==
    ASSUME NEW l \in Locals, NEW e \in Placed, NEW s
    PROVE  AttemptAt(l, [WithEntry(l, e) EXCEPT !.pc = s], s)
  <1> DEFINE w == WithEntry(l, e)
  <1>1. w \in Locals
    BY WithEntryType
  <1>2. SameAttempt(l, w)
    BY DEF WithEntry, Locals, SameAttempt
  <1> HIDE DEF w
  <1>3. AttemptAt(w, [w EXCEPT !.pc = s], s)
    BY <1>1, StepKept
  <1>4. QED
    BY <1>2, <1>3 DEF SameAttempt, AttemptAt, w

\* What may be relied on is, at another step of the same attempt that asks for
\* no more.
LEMMA StepMade ==
    ASSUME NEW l, NEW k, MadeOK(l), SameAttempt(l, k),
           k.pc \in OpeningSteps => l.pc \in OpeningSteps,
           k.pc \in AttemptSteps \cup {"commit"} => l.pc \in AttemptSteps \cup {"commit"},
           k.pc \in ReleaseSteps => l.pc \in ReleaseSteps
    PROVE  MadeOK(k)
  BY DEF MadeOK, SameAttempt

\* A step that writes neither ledger nor repository.
LEMMA QuietMade ==
    ASSUME OneAtATime, TypeInv, MadeInv, UNCHANGED <<branch, tips, commits, ledger>>,
           NEW p \in Procs, NEW l, Become(p, l), MadeOK(l)
    PROVE  MadeInv'
  <1>1. FilesMade' /\ MadeOK(l)'
    BY SameMade DEF MadeInv
  <1>2. QED
    BY <1>1, MovesMade

\* A ledger is written that agrees with the commits.
LEMMA WriteMade ==
    ASSUME TypeInv, FilesMade, UNCHANGED <<branch, tips, commits>>,
           NEW u \in Units, NEW a \in Attempts, NEW v \in Nat, NEW r \in Records,
           CompareAndSet(u, a, v, r), RecordMade(u, a, r)
    PROVE  FilesMade' /\ ledger'[u][a] = [r EXCEPT !.rev = v + 1]
  <1> DEFINE n == [r EXCEPT !.rev = v + 1]
  <1>1. n.head = r.head /\ n.parent = r.parent /\ n.state = r.state /\ n.rev = v + 1
    BY DEF Records
  <1>2. v + 1 # 0
    OBVIOUS
  <1>3. ledger' = [ledger EXCEPT ![u][a] = n] /\ ledger \in [Units -> [Attempts -> Records]]
    BY DEF CompareAndSet, TypeInv, FilesOK
  <1> HIDE DEF n
  <1>4. /\ ledger'[u][a] = n
        /\ \A w \in Units, b \in Attempts : w # u \/ b # a => ledger'[w][b] = ledger[w][b]
    BY <1>3
  <1>5. \A c, w, b : MadeFor(c, w, b)' <=> MadeFor(c, w, b)
    BY DEF MadeFor
  <1>6. RecordMade(u, a, n)
    BY <1>1, <1>2 DEF RecordMade
  <1>7. ASSUME NEW w \in Units, NEW b \in Attempts
        PROVE  RecordMade(w, b, ledger[w][b])'
    <2>1. RecordMade(w, b, ledger'[w][b])
      <3>1. CASE w = u /\ b = a
        BY <1>4, <1>6, <3>1
      <3>2. CASE w # u \/ b # a
        BY <1>4, <3>2 DEF FilesMade
      <3>3. QED
        BY <3>1, <3>2
    <2>2. QED
      BY <1>5, <2>1 DEF RecordMade
  <1>8. HeadCommit' = Len(commits') /\ OneCommitPerAttempt'
    BY DEF FilesMade, HeadCommit, OneCommitPerAttempt
  <1>9. NewIsBlank'
    <2> SUFFICES ASSUME NEW w \in Units, NEW b \in Attempts, ledger'[w][b].rev = 0
                 PROVE  ledger'[w][b].state = "none"
      BY DEF NewIsBlank
    <2>1. w # u \/ b # a
      BY <1>1, <1>2, <1>4
    <2>2. QED
      BY <1>4, <2>1 DEF FilesMade, NewIsBlank
  <1>10. QED
    BY <1>4, <1>7, <1>8, <1>9 DEF FilesMade, n

\* What a commit is made with: a message, or none.
Texts == Messages \cup {""}

\* The new commit is the last one.
LEMMA CommitLine ==
    ASSUME TypeInv, FilesMade, NEW S \in SUBSET Paths, NEW m \in Texts,
           NEW author \in (Units \X Attempts) \cup {Outsider}, CommitPaths(S, m, author)
    PROVE  /\ HeadCommit' = Len(commits') /\ Len(commits') = Len(commits) + 1
           /\ \A c \in 1..Len(commits) : commits'[c] = commits[c]
           /\ commits'[Len(commits) + 1].author = author
  <1> DEFINE tree == [x \in Paths |-> IF x \in S THEN work[x] ELSE Tree(HeadCommit)[x]]
             commit == [parent |-> HeadCommit, message |-> Cleanup[m], author |-> author,
                        tree |-> tree]
  <1>1. commits' = Append(commits, commit) /\ commit.author = author
    BY DEF CommitPaths
  <1>2. commit \in Commits
    <2>1. RepoOK
      BY DEF TypeInv
    <2>2. HeadCommit \in Nat /\ Tree(HeadCommit) \in Trees /\ work \in Trees
      BY <2>1, HeadType, TreeType DEF RepoOK
    <2>3. tree \in Trees
      BY <2>2 DEF Trees
    <2>4. QED
      BY <2>2, <2>3, CleanupAssumption DEF Commits, Texts
  <1> HIDE DEF commit
  <1>3. /\ Len(commits') = Len(commits) + 1 /\ commits'[Len(commits) + 1] = commit
        /\ \A c \in 1..Len(commits) : commits'[c] = commits[c]
    BY <1>1, <1>2, AppendCommitType DEF TypeInv
  <1>4. HeadCommit' = Len(commits')
    <2>1. tips' = [tips EXCEPT ![branch] = Len(commits) + 1] /\ branch' = branch
      BY DEF CommitPaths
    <2>2. tips'[branch] = Len(commits) + 1
      BY <2>1 DEF TypeInv, RepoOK
    <2>3. QED
      BY <1>3, <2>1, <2>2 DEF HeadCommit
  <1>5. QED
    BY <1>1, <1>3, <1>4

\* The author is an attempt that was prepared and has no commit yet, or nobody.
NewAuthor(author) ==
    /\ \A u \in Units, a \in Attempts : author = <<u, a>> => ledger[u][a].state # "none"
    /\ author # Outsider => \A c \in 1..Len(commits) : commits[c].author # author

\* A commit for such an author.
LEMMA CommitMade ==
    ASSUME TypeInv, FilesMade, NEW S \in SUBSET Paths, NEW m \in Texts,
           NEW author \in (Units \X Attempts) \cup {Outsider}, CommitPaths(S, m, author),
           UNCHANGED ledger, NewAuthor(author)
    PROVE  FilesMade'
  <1> DEFINE n == Len(commits)
  <1>1. /\ HeadCommit' = Len(commits') /\ Len(commits') = n + 1 /\ n \in Nat
        /\ \A c \in 1..n : commits'[c] = commits[c]
        /\ commits'[n + 1].author = author
    <2>1. n \in Nat
      BY DEF TypeInv, RepoOK
    <2>2. QED
      BY <2>1, CommitLine
  <1> HIDE DEF n
  <1>2. \A c \in 1..(n + 1) : c \in 1..n \/ c = n + 1
    BY <1>1
  <1>3. ASSUME NEW u \in Units, NEW a \in Attempts
        PROVE  RecordMade(u, a, ledger[u][a])'
    <2>1. PICK r \in Records : r = ledger[u][a]
      BY DEF TypeInv, FilesOK
    <2>2. RecordMade(u, a, r)
      BY <2>1 DEF FilesMade
    <2>3. r.head \in Nat /\ r.parent \in Nat /\ r.head <= n /\ r.parent <= n
      BY <2>2 DEF RecordMade, Records, n
    <2>4. ASSUME NEW c \in 1..(n + 1), commits'[c].author = <<u, a>>
          PROVE  r.state # "none" /\ r.head < c /\ r.parent < c
      <3>1. CASE c \in 1..n
        BY <1>1, <2>2, <2>4, <3>1 DEF RecordMade, MadeFor, n
      <3>2. CASE c = n + 1
        <4>1. author = <<u, a>>
          BY <1>1, <2>4, <3>2
        <4>2. r.state # "none"
          BY <2>1, <4>1 DEF NewAuthor
        <4>3. QED
          BY <1>1, <2>3, <3>2, <4>2
      <3>3. QED
        BY <1>2, <3>1, <3>2
    <2>5. r.head <= n + 1 /\ r.parent <= n + 1
      BY <1>1, <2>3
    <2>6. RecordMade(u, a, r)'
      BY <1>1, <2>2, <2>4, <2>5 DEF RecordMade, MadeFor
    <2>7. QED
      BY <2>1, <2>6
  <1>4. OneCommitPerAttempt'
    <2> SUFFICES ASSUME NEW c \in 1..(n + 1), NEW d \in 1..(n + 1),
                        commits'[c].author = commits'[d].author, commits'[c].author # Outsider
                 PROVE  c = d
      BY <1>1 DEF OneCommitPerAttempt
    <2>1. CASE c \in 1..n /\ d \in 1..n
      BY <1>1, <2>1 DEF FilesMade, OneCommitPerAttempt, n
    <2>2. ASSUME NEW e \in 1..n, commits'[e].author = commits'[n + 1].author,
                 commits'[e].author # Outsider
          PROVE  FALSE
      <3>1. commits[e].author = author /\ author # Outsider
        BY <1>1, <2>2
      <3>2. QED
        BY <2>2, <3>1 DEF NewAuthor, n
    <2>3. QED
      BY <1>2, <2>1, <2>2
  <1>5. NewIsBlank'
    BY DEF FilesMade, NewIsBlank
  <1>6. QED
    BY <1>1, <1>3, <1>4, <1>5 DEF FilesMade

\* A step that writes neither, to where nothing is relied on.
LEMMA QuietRest ==
    ASSUME OneAtATime, TypeInv, MadeInv, UNCHANGED <<branch, tips, commits, ledger>>,
           NEW p \in Procs, NEW l, Become(p, l), l.pc \notin Relied
    PROVE  MadeInv'
  <1>1. FilesMade'
    BY SameMade DEF MadeInv
  <1>2. QED
    BY <1>1, RestMade

\* So does one after which the run returns, or holds its unit.
LEMMA QuietReturn ==
    ASSUME OneAtATime, TypeInv, MadeInv, UNCHANGED <<branch, tips, commits, ledger>>,
           NEW p \in Procs, Return(p)
    PROVE  MadeInv'
  <1>1. FilesMade'
    BY SameMade DEF MadeInv
  <1>2. QED
    BY <1>1, ReturnMade
LEMMA QuietHolding ==
    ASSUME OneAtATime, TypeInv, MadeInv, UNCHANGED <<branch, tips, commits, ledger>>,
           NEW p \in Procs, NEW e \in Placed, NEW line \in BOOLEAN,
           Become(p, Holding(proc[p], e, line))
    PROVE  MadeInv'
  <1>1. FilesMade'
    BY SameMade DEF MadeInv
  <1>2. QED
    BY <1>1, HoldingMade

\* Before the release nothing is relied on that the ledger says.
LEMMA LedgerMade ==
    ASSUME OneAtATime, TypeInv, FilesMade', UNCHANGED commits,
           NEW p \in Procs, NEW l, Become(p, l), MadeOK(l), l.pc \notin ReleaseSteps
    PROVE  MadeInv'
  <1>1. \A c, u, a : MadeFor(c, u, a)' <=> MadeFor(c, u, a)
    BY DEF MadeFor
  <1>2. MadeOK(l)'
    BY <1>1 DEF MadeOK
  <1>3. QED
    BY <1>2, MovesMade

\* The repository and the ledgers are among what a step may leave alone.
LEMMA LeftAlone ==
    /\ UNCHANGED repoVars => UNCHANGED <<work, branch, tips, commits, edits, shelf>>
    /\ UNCHANGED repoVars /\ UNCHANGED ledger => UNCHANGED <<branch, tips, commits, ledger>>
  BY DEF repoVars, worktreeVars

\* Where a step leads to.
LEMMA StepOf ==
    ASSUME NEW l \in Locals, NEW s
    PROVE  /\ [l EXCEPT !.pc = s].pc = s
           /\ \A v : [l EXCEPT !.pc = s, !.view = v].pc = s
           /\ \A S : [l EXCEPT !.pc = s, !.lines = S].pc = s
           /\ \A S : [l EXCEPT !.pc = s, !.kept = S].pc = s
           /\ \A u, v : [l EXCEPT !.pc = s, !.unit = u, !.view = v].pc = s
           /\ \A r : LET k == [l EXCEPT !.pc = s, !.seen = r]
                     IN  k.pc = s /\ k.unit = l.unit /\ k.attempt = l.attempt /\ k.seen = r
           /\ \A a, r : LET k == [l EXCEPT !.attempt = a, !.seen = r, !.pc = s]
                        IN  k.pc = s /\ k.unit = l.unit /\ k.attempt = a /\ k.seen = r
  BY DEF Locals

\* Selecting a unit, loading the queue, attesting the child and clearing the
\* checkout rely on nothing.
LEMMA BeforeMade ==
    ASSUME OneAtATime, TypeInv, MadeInv, NEW p \in Procs,
           (\E u \in Units : Select(p, u)) \/ Reload(p) \/ Attest(p) \/ Start(p)
    PROVE  MadeInv'
  <1>1. UNCHANGED <<branch, tips, commits, ledger>>
    BY LeftAlone DEF Select, Reload, Attest, Start, Shelve
  <1>2. {"recover", "attest", "start", "begin"} \cap Relied = {}
    BY DEF Relied, OpeningSteps, AttemptSteps, ReleaseSteps
  <1>3. CASE \E u \in Units : Select(p, u)
    <2>1. PICK u \in Units : Become(p, [Idle EXCEPT !.pc = "recover", !.unit = u, !.view = queue])
      BY <1>3 DEF Select
    <2>2. [Idle EXCEPT !.pc = "recover", !.unit = u, !.view = queue].pc = "recover"
      BY IdleType, StepOf
    <2>3. QED
      BY <1>1, <1>2, <2>1, <2>2, QuietRest
  <1>4. CASE Reload(p)
    <2> DEFINE synced == Synced(MainPlan, queue, log[MainPlan])
               k == [proc[p] EXCEPT !.pc = "attest", !.view = synced]
    <2>1. Become(p, k)
      BY <1>4 DEF Reload
    <2>2. k.pc = "attest"
      BY ProcType, StepOf
    <2> HIDE DEF k
    <2>3. QED
      BY <1>1, <1>2, <2>1, <2>2, QuietRest
  <1>5. CASE Attest(p)
    <2> DEFINE held == [EntryOf(p) EXCEPT !.changed = {}, !.reason = "attestation"]
    <2>1. [proc[p] EXCEPT !.pc = "start"].pc = "start"
      BY ProcType, StepOf
    <2>2. held \in Placed
      BY LocalsAccess DEF Placed, Entries, Reasons
    <2>3. Goto(p, "start") \/ Become(p, Holding(proc[p], held, TRUE))
      BY <1>5 DEF Attest
    <2> HIDE DEF held
    <2>4. QED
      BY <1>1, <1>2, <2>1, <2>2, <2>3, QuietRest, QuietHolding DEF Goto
  <1>6. CASE Start(p)
    <2>1. Return(p) \/ \E kept : Become(p, [proc[p] EXCEPT !.pc = "begin", !.kept = kept])
      BY <1>6 DEF Start
    <2>2. \A kept : [proc[p] EXCEPT !.pc = "begin", !.kept = kept].pc = "begin"
      BY ProcType, StepOf
    <2>3. QED
      BY <1>1, <1>2, <2>1, <2>2, QuietRest, QuietReturn
  <1>7. QED
    BY <1>3, <1>4, <1>5, <1>6

\* A release that is taken up is the one in the ledger.
LEMMA RecoverMade ==
    ASSUME OneAtATime, TypeInv, MadeInv, NEW p \in Procs, Recover(p)
    PROVE  MadeInv'
  <1> DEFINE a == ReleaseAttempt(UnitOf(p), EntryOf(p))
             record == ledger[UnitOf(p)][a]
             k == [proc[p] EXCEPT !.attempt = a, !.seen = record, !.pc = "check"]
             d == [proc[p] EXCEPT !.attempt = a, !.seen = record, !.pc = "revalidate"]
  <1>1. UNCHANGED <<branch, tips, commits, ledger>>
    BY LeftAlone DEF Recover
  <1>2. CASE record.state = "committing" /\ Become(p, k)
    <2>1. k.pc = "check" /\ k.unit = UnitOf(p) /\ k.attempt = a /\ k.seen = record
      BY ProcType, StepOf DEF UnitOf
    <2> HIDE DEF k
    <2>2. MadeOK(k)
      BY <1>2, <2>1 DEF MadeOK, OpeningSteps, AttemptSteps
    <2>3. QED
      BY <1>1, <1>2, <2>2, QuietMade
  <1>3. CASE Become(p, d)
    <2>1. d.pc = "revalidate"
      BY ProcType, StepOf
    <2>2. "revalidate" \notin Relied
      BY DEF Relied, OpeningSteps, AttemptSteps, ReleaseSteps
    <2> HIDE DEF d
    <2>3. QED
      BY <1>1, <1>3, <2>1, <2>2, QuietRest
  <1>4. CASE Goto(p, "reload")
    <2>1. [proc[p] EXCEPT !.pc = "reload"].pc = "reload"
      BY ProcType, StepOf
    <2>2. "reload" \notin Relied
      BY DEF Relied, OpeningSteps, AttemptSteps, ReleaseSteps
    <2>3. QED
      BY <1>1, <1>4, <2>1, <2>2, QuietRest DEF Goto
  <1>5. QED
    BY <1>2, <1>3, <1>4 DEF Recover

\* An attempt begins at HEAD, above every commit.
LEMMA BeginMade ==
    ASSUME OneAtATime, TypeInv, MadeInv, NEW p \in Procs, Begin(p)
    PROVE  MadeInv'
  <1> DEFINE entry == [EntryOf(p) EXCEPT !.status = "in_progress"]
             local == [proc[p] EXCEPT !.pc = "repair", !.attempt = FirstAttempt(p),
                         !.limit = LastAttempt(p), !.head = HeadCommit, !.before = Status]
             k == WithEntry(local, entry)
  <1>1. UNCHANGED <<branch, tips, commits, ledger>>
    BY LeftAlone DEF Begin
  <1>2. CASE Return(p)
    BY <1>1, <1>2, QuietReturn
  <1>3. CASE Become(p, k)
    <2>1. k.pc = "repair" /\ k.head = HeadCommit
      BY ProcType DEF WithEntry, Locals
    <2>2. HeadCommit = Len(commits) /\ Len(commits) \in Nat
      <3>1. HeadCommit \in Nat
        BY HeadType DEF TypeInv
      <3>2. QED
        BY <3>1 DEF MadeInv, FilesMade
    <2> HIDE DEF k
    <2>3. MadeOK(k)
      BY <2>1, <2>2 DEF MadeOK, AttemptSteps, ReleaseSteps
    <2>4. QED
      BY <1>1, <1>3, <2>3, QuietMade
  <1>4. QED
    BY <1>2, <1>3 DEF Begin

\* Announcing a repair changes none of that.
LEMMA RepairMade ==
    ASSUME OneAtATime, TypeInv, MadeInv, NEW p \in Procs, Repair(p)
    PROVE  MadeInv'
  <1> DEFINE entry == [EntryOf(p) EXCEPT !.status = "in_progress", !.attempt = proc[p].attempt]
             k == [WithEntry(proc[p], entry) EXCEPT !.pc = "open"]
             d == [proc[p] EXCEPT !.pc = "open"]
  <1>1. UNCHANGED <<branch, tips, commits, ledger>> /\ proc[p].pc = "repair" /\ MadeOK(proc[p])
    BY LeftAlone DEF Repair, At, MadeInv
  <1>2. entry \in Placed /\ proc[p] \in Locals
    BY LocalsAccess, EntryType DEF UnitStatuses
  <1>3. AttemptAt(proc[p], k, "open")
    <2> HIDE DEF entry
    <2>1. QED
      BY <1>2, EntryKept
  <1>4. AttemptAt(proc[p], d, "open")
    BY <1>2, StepKept
  <1>5. Become(p, k) \/ Become(p, d)
    <2>1. CASE proc[p].attempt > 0
      BY <2>1 DEF Repair
    <2>2. CASE ~(proc[p].attempt > 0)
      BY <2>2 DEF Repair, Goto
    <2>3. QED
      BY <2>1, <2>2
  <1> HIDE DEF k, d
  <1>6. MadeOK(k) /\ MadeOK(d)
    BY <1>1, <1>3, <1>4, StepMade DEF AttemptAt, OpeningSteps, AttemptSteps, ReleaseSteps
  <1>7. QED
    BY <1>1, <1>5, <1>6, QuietMade

\* An attempt is opened that has no commit: a new record is blank, and one that
\* is continued started from the same HEAD, which is above every commit.
LEMMA OpenMade ==
    ASSUME OneAtATime, TypeInv, MadeInv, NEW p \in Procs, Open(p)
    PROVE  MadeInv'
  <1> DEFINE u == UnitOf(p)
             a == proc[p].attempt
             k == [proc[p] EXCEPT !.pc = "implement"]
             stale == [EntryOf(p) EXCEPT !.reason = "stale"]
  <1>1. /\ UNCHANGED <<branch, tips, commits>> /\ proc[p].pc = "open" /\ MadeOK(proc[p])
        /\ FilesMade
    BY LeftAlone DEF Open, At, MadeInv
  <1>2. /\ u \in Units /\ a \in Attempts /\ RecordOf(p) = ledger[u][a] /\ RecordOf(p) \in Records
        /\ proc[p].head \in Nat
    BY LocalsAccess DEF RecordOf, Locals
  <1>3. /\ proc[p].head <= Len(commits)
        /\ \A c \in 1..Len(commits) : MadeFor(c, u, a) => c <= proc[p].head
    BY <1>1, <1>2 DEF MadeOK, OpeningSteps, UnitOf
  <1>4. SameAttempt(proc[p], k) /\ k.pc = "implement"
    BY LocalsAccess, StepKept DEF AttemptAt
  <1> HIDE DEF k
  <1>5. ASSUME \A c \in 1..Len(commits) : ~MadeFor(c, u, a)
        PROVE  MadeOK(k)
    <2>1. k.unit = u /\ k.attempt = a /\ k.head = proc[p].head
      BY <1>4 DEF SameAttempt, UnitOf
    <2>2. \A b \in Attempts, c \in 1..Len(commits) : MadeFor(c, u, b) => c <= proc[p].head
      BY <1>1, <1>2 DEF MadeOK, OpeningSteps, UnitOf
    <2>3. QED
      BY <1>3, <1>4, <1>5, <2>1, <2>2 DEF MadeOK, ReleaseSteps
  <1>6. CASE RecordOf(p).rev = 0 /\ CompareAndSet(u, a, 0, Started(p)) /\ Become(p, k)
    <2>1. \A c \in 1..Len(commits) : ~MadeFor(c, u, a)
      BY <1>1, <1>2, <1>6 DEF FilesMade, NewIsBlank, RecordMade
    <2>2. Started(p).head = proc[p].head /\ Started(p).parent = 0
      BY NoRecordType DEF Started, Records, NoRecord
    <2>3. 0 <= Len(commits)
      BY DEF TypeInv, RepoOK
    <2>4. RecordMade(u, a, Started(p))
      BY <1>3, <2>1, <2>2, <2>3 DEF RecordMade
    <2>5. PICK r \in Records : r = Started(p)
      BY StartedType
    <2>6. FilesMade'
      <3> HIDE DEF u, a
      <3>1. CompareAndSet(u, a, 0, r) /\ RecordMade(u, a, r) /\ 0 \in Nat
        BY <1>6, <2>4, <2>5
      <3>2. QED
        BY <1>1, <1>2, <3>1, WriteMade
    <2>7. "implement" \notin ReleaseSteps
      BY DEF ReleaseSteps
    <2>8. QED
      BY <1>1, <1>4, <1>5, <1>6, <2>1, <2>6, <2>7, LedgerMade
  <1>7. CASE RecordOf(p).rev > 0 /\ Continues(RecordOf(p), Started(p)) /\ Become(p, k)
             /\ UNCHANGED ledger
    <2>1. RecordOf(p).head = proc[p].head
      BY <1>7, NoRecordType DEF Continues, Started, Records
    <2>2. ASSUME NEW c \in 1..Len(commits), MadeFor(c, u, a)
          PROVE  FALSE
      <3>1. RecordOf(p).head < c
        BY <1>1, <1>2, <2>2 DEF FilesMade, RecordMade
      <3>2. c <= proc[p].head
        BY <1>3, <2>2
      <3>3. QED
        BY <1>2, <2>1, <3>1, <3>2
    <2>3. QED
      BY <1>1, <1>5, <1>7, <2>2, QuietMade
  <1>8. CASE Become(p, Holding(proc[p], stale, FALSE)) /\ UNCHANGED ledger
    <2>1. stale \in Placed
      BY LocalsAccess DEF Placed, Entries, Reasons
    <2> HIDE DEF stale
    <2>2. QED
      BY <1>1, <1>8, <2>1, QuietHolding
  <1>9. QED
    BY <1>6, <1>7, <1>8 DEF Open, Goto, k

\* The child and the reviewer report on an attempt that has no commit.
LEMMA ReportMade ==
    ASSUME OneAtATime, TypeInv, MadeInv, NEW p \in Procs, NEW k,
           NEW closed \in BOOLEAN, NEW status \in {"failure", "pass"},
           CompareAndSet(UnitOf(p), proc[p].attempt, RecordOf(p).rev,
                         [RecordOf(p) EXCEPT !.closed = closed, !.status = status]),
           Become(p, k), SameAttempt(proc[p], k), UNCHANGED repoVars,
           proc[p].pc \in AttemptSteps, k.pc \in AttemptSteps
    PROVE  MadeInv'
  <1> DEFINE new == [RecordOf(p) EXCEPT !.closed = closed, !.status = status]
             u == UnitOf(p)
             a == proc[p].attempt
  <1>1. /\ UNCHANGED <<branch, tips, commits>> /\ MadeOK(proc[p]) /\ FilesMade
    BY LeftAlone DEF MadeInv
  <1>2. /\ u \in Units /\ a \in Attempts /\ RecordOf(p) = ledger[u][a] /\ RecordOf(p) \in Records
        /\ RecordOf(p).rev \in Nat /\ new \in Records
    BY LocalsAccess, RecordsWith DEF RecordOf
  <1>3. new.head = RecordOf(p).head /\ new.parent = RecordOf(p).parent
        /\ new.state = RecordOf(p).state
    BY <1>2 DEF Records
  <1> HIDE DEF new
  <1>4. RecordMade(u, a, new)
    BY <1>1, <1>2, <1>3 DEF FilesMade, RecordMade
  <1>5. FilesMade'
    BY <1>1, <1>2, <1>4, WriteMade DEF new
  <1>6. MadeOK(k) /\ k.pc \notin ReleaseSteps
    BY <1>1, StepMade DEF OpeningSteps, AttemptSteps, ReleaseSteps
  <1>7. QED
    BY <1>1, <1>5, <1>6, LedgerMade

\* The child ends, the gate decides, the reviewer starts and ends.
LEMMA WorkMade ==
    ASSUME OneAtATime, TypeInv, MadeInv, NEW p \in Procs,
           ChildEnds(p) \/ DeterministicGate(p) \/ ReviewStarts(p) \/ ReviewEnds(p)
    PROVE  MadeInv'
  <1>1. MadeOK(proc[p]) /\ proc[p] \in Locals
    BY ProcType DEF MadeInv
  <1>2. UNCHANGED repoVars /\ UNCHANGED <<branch, tips, commits>>
    BY LeftAlone DEF ChildEnds, DeterministicGate, ReviewStarts, ReviewEnds
  <1>3. CASE ChildEnds(p)
    <2>1. PICK verdict \in {"pass", "hold", "failure"}, closed \in BOOLEAN :
             /\ CompareAndSet(UnitOf(p), proc[p].attempt, RecordOf(p).rev,
                   [RecordOf(p) EXCEPT !.closed = closed,
                      !.status = IF verdict = "failure" THEN "failure" ELSE "pass"])
             /\ Become(p, [proc[p] EXCEPT !.verdict = verdict,
                   !.pc = IF verdict = "pass" THEN "review" ELSE "finalize"])
      BY <1>3 DEF ChildEnds
    <2> DEFINE s == IF verdict = "pass" THEN "review" ELSE "finalize"
               k == [proc[p] EXCEPT !.verdict = verdict, !.pc = s]
    <2>2. AttemptAt(proc[p], k, s)
      <3> HIDE DEF s
      <3>1. QED
        BY <1>1, VerdictKept
    <2>3. proc[p].pc \in AttemptSteps /\ s \in AttemptSteps
      BY <1>3 DEF ChildEnds, At, AttemptSteps
    <2>4. Become(p, k)
      BY <2>1
    <2> HIDE DEF k, s
    <2>5. QED
      BY <1>2, <2>1, <2>2, <2>3, <2>4, ReportMade DEF AttemptAt
  <1>4. CASE DeterministicGate(p)
    <2> DEFINE k == [proc[p] EXCEPT !.pc = "finalize", !.verdict = "pass"]
    <2>1. AttemptAt(proc[p], k, "finalize") /\ Become(p, k)
      BY <1>1, <1>4, VerdictKept DEF DeterministicGate
    <2>2. proc[p].pc = "review" /\ UNCHANGED ledger
      BY <1>4 DEF DeterministicGate, At
    <2> HIDE DEF k
    <2>3. MadeOK(k)
      BY <1>1, <2>1, <2>2, StepMade DEF AttemptAt, OpeningSteps, AttemptSteps, ReleaseSteps
    <2>4. QED
      BY <1>2, <2>1, <2>2, <2>3, QuietMade
  <1>5. CASE ReviewStarts(p)
    <2> DEFINE k == [proc[p] EXCEPT !.pc = "reviewing",
                                    !.reviewing = FailureState(HeadCommit, "none")]
    <2>1. AttemptAt(proc[p], k, "reviewing") /\ Become(p, k)
      BY <1>1, <1>5, ReviewingKept DEF ReviewStarts
    <2>2. proc[p].pc = "review" /\ UNCHANGED ledger
      BY <1>5 DEF ReviewStarts, At
    <2> HIDE DEF k
    <2>3. MadeOK(k)
      BY <1>1, <2>1, <2>2, StepMade DEF AttemptAt, OpeningSteps, AttemptSteps, ReleaseSteps
    <2>4. QED
      BY <1>2, <2>1, <2>2, <2>3, QuietMade
  <1>6. CASE ReviewEnds(p)
    <2>1. PICK verdict \in ReviewVerdicts(p), closed \in BOOLEAN :
             /\ CompareAndSet(UnitOf(p), proc[p].attempt, RecordOf(p).rev,
                   [RecordOf(p) EXCEPT !.closed = closed,
                      !.status = IF verdict = "review_failure" THEN "failure" ELSE "pass"])
             /\ Become(p, [proc[p] EXCEPT !.pc = "finalize", !.verdict = verdict])
      BY <1>6 DEF ReviewEnds
    <2> DEFINE k == [proc[p] EXCEPT !.pc = "finalize", !.verdict = verdict]
    <2>2. AttemptAt(proc[p], k, "finalize")
      BY <1>1, VerdictKept
    <2>3. proc[p].pc \in AttemptSteps /\ "finalize" \in AttemptSteps
      BY <1>6 DEF ReviewEnds, At, AttemptSteps
    <2>4. Become(p, k)
      BY <2>1
    <2> HIDE DEF k
    <2>5. QED
      BY <1>2, <2>1, <2>2, <2>3, <2>4, ReportMade DEF AttemptAt
  <1>7. QED
    BY <1>3, <1>4, <1>5, <1>6

\* An attempt is finalized with the HEAD that it read.
LEMMA FinalizeMade ==
    ASSUME OneAtATime, TypeInv, MadeInv, NEW p \in Procs, Finalize(p)
    PROVE  MadeInv'
  <1> DEFINE u == UnitOf(p)
             a == proc[p].attempt
             rev == RecordOf(p).rev
             final == [RecordOf(p) EXCEPT !.status = FinalStatus(p), !.head = proc[p].head]
             entry == [EntryOf(p) EXCEPT !.rev = rev + 1]
             k == [WithEntry(proc[p], entry) EXCEPT !.pc = "verify"]
  <1>1. /\ UNCHANGED <<branch, tips, commits>> /\ MadeOK(proc[p]) /\ FilesMade
        /\ proc[p].pc = "finalize"
    BY LeftAlone DEF Finalize, At, MadeInv
  <1>2. /\ u \in Units /\ a \in Attempts /\ RecordOf(p) = ledger[u][a] /\ RecordOf(p) \in Records
        /\ rev \in Nat /\ rev + 1 \in Nat /\ proc[p] \in Locals
    BY LocalsAccess, RecordsWith DEF RecordOf
  <1>3. final \in Records /\ final.head = proc[p].head /\ final.parent = RecordOf(p).parent
    <2>1. proc[p].head \in Nat
      BY <1>2 DEF Locals
    <2>2. FinalStatus(p) \in {"finalized", "scope_mismatch", "process_cleanup_failed",
                              "held_adoption_required"}
      BY DEF FinalStatus
    <2>3. final \in Records
      BY <1>2, <2>1, <2>2, RecordsWith
    <2>4. QED
      BY <1>2, <2>3 DEF Records
  <1>4. /\ CompareAndSet(u, a, rev, final)
        /\ Become(p, AfterAttempt(p, rev + 1))
    BY DEF Finalize
  <1>5. proc[p].head <= Len(commits) /\ \A c \in 1..Len(commits) : ~MadeFor(c, u, a)
    BY <1>1 DEF MadeOK, OpeningSteps, AttemptSteps, UnitOf
  <1>6. FilesMade'
    <2>1. RecordMade(u, a, final)
      BY <1>1, <1>2, <1>3, <1>5 DEF FilesMade, RecordMade
    <2> HIDE DEF u, a, rev, final
    <2>2. QED
      BY <1>1, <1>2, <1>3, <1>4, <2>1, WriteMade
  <1>7. CASE proc[p].verdict = "pass"
    <2>1. AfterAttempt(p, rev + 1) = k
      BY <1>7 DEF AfterAttempt
    <2>2. entry \in Placed
      BY <1>2, LocalsAccess, EntryType
    <2>3. AttemptAt(proc[p], k, "verify")
      <3> HIDE DEF entry
      <3>1. QED
        BY <1>2, <2>2, EntryKept
    <2>4. Become(p, k)
      BY <1>4, <2>1
    <2> HIDE DEF k
    <2>5. MadeOK(k) /\ k.pc \notin ReleaseSteps
      BY <1>1, <2>3, StepMade DEF AttemptAt, OpeningSteps, AttemptSteps, ReleaseSteps
    <2>6. QED
      BY <1>1, <1>6, <2>4, <2>5, LedgerMade
  <1>8. CASE proc[p].verdict # "pass"
    <2>1. AfterAttempt(p, rev + 1) = Holding(proc[p], HeldEntry(p, rev + 1), TRUE)
      BY <1>2, <1>8, AfterAttemptType
    <2>2. HeldEntry(p, rev + 1) \in Placed
      BY <1>2, <1>8, HeldEntryType
    <2>3. QED
      BY <1>4, <1>6, <2>1, <2>2, HoldingMade
  <1>9. QED
    BY <1>7, <1>8

\* A candidate that is verified goes on; one that is not holds the unit.
LEMMA VerifyMade ==
    ASSUME OneAtATime, TypeInv, MadeInv, NEW p \in Procs, Verify(p)
    PROVE  MadeInv'
  <1> DEFINE changed == ChangedPaths(proc[p].kept, proc[p].before)
             held == [EntryOf(p) EXCEPT !.attempt = proc[p].attempt, !.changed = changed,
                                        !.reason = ReleaseObstacle(p, changed)]
             listed == Listing(proc[p].kept, changed)
             k == [proc[p] EXCEPT !.pc = "prepare", !.changed = changed, !.listed = listed]
  <1>1. UNCHANGED <<branch, tips, commits, ledger>> /\ MadeOK(proc[p]) /\ proc[p].pc = "verify"
    BY LeftAlone DEF Verify, At, MadeInv
  <1>2. changed \in SUBSET Paths /\ ReleaseObstacle(p, changed) \in Reasons
    BY ChangedPathsType DEF TypeInv, ReleaseObstacle, Reasons
  <1>3. Become(p, k) \/ Become(p, Holding(proc[p], held, TRUE))
    BY DEF Verify
  <1> HIDE DEF changed
  <1>4. AttemptAt(proc[p], k, "prepare")
    BY ProcType, ChangedKept
  <1>5. held \in Placed
    BY <1>2, LocalsAccess, HeldPlaced
  <1> HIDE DEF k, held
  <1>6. MadeOK(k)
    BY <1>1, <1>4, StepMade DEF AttemptAt, OpeningSteps, AttemptSteps, ReleaseSteps
  <1>7. QED
    BY <1>1, <1>3, <1>5, <1>6, QuietMade, QuietHolding

\* A release is prepared on HEAD, for an attempt that has no commit.
LEMMA PrepareMade ==
    ASSUME OneAtATime, TypeInv, MadeInv, NEW p \in Procs, Prepare(p)
    PROVE  MadeInv'
  <1> DEFINE u == UnitOf(p)
             a == proc[p].attempt
             changed == proc[p].changed
             record(commit, message) ==
                 [RecordOf(p) EXCEPT !.state = "committing",
                    !.kind = ReleaseKind(commit, changed), !.parent = HeadCommit,
                    !.paths = changed, !.listed = proc[p].listed,
                    !.candidate = Changes(HeadCommit, work, changed),
                    !.outside = Diff(Outside(u)), !.message = message]
             k == [proc[p] EXCEPT !.pc = "check", !.seen = ledger'[u][a]]
  <1>1. PICK commit \in CommitFlags, message \in Messages :
           CompareAndSet(u, a, RecordOf(p).rev, record(commit, message)) /\ Become(p, k)
    BY DEF Prepare
  <1>2. /\ UNCHANGED <<branch, tips, commits>> /\ MadeOK(proc[p]) /\ FilesMade
        /\ proc[p].pc = "prepare"
    BY LeftAlone DEF Prepare, At, MadeInv
  <1>3. /\ u \in Units /\ a \in Attempts /\ RecordOf(p) = ledger[u][a] /\ RecordOf(p) \in Records
        /\ RecordOf(p).rev \in Nat
    BY LocalsAccess, RecordsWith DEF RecordOf
  <1> DEFINE r == record(commit, message)
  <1>4. r \in Records
    BY FlagsAssumption, PreparedType
  <1>5. r.state = "committing" /\ r.head = RecordOf(p).head /\ r.parent = HeadCommit
    BY <1>3 DEF Records
  <1> HIDE DEF r
  <1>6. /\ k.pc = "check" /\ k.unit = u /\ k.attempt = a /\ k.seen = ledger'[u][a]
        /\ Become(p, k)
    BY <1>1, ProcType, StepOf DEF UnitOf
  <1>7. \A c \in 1..Len(commits) : ~MadeFor(c, u, a)
    BY <1>2 DEF MadeOK, AttemptSteps, UnitOf
  <1>8. RecordMade(u, a, r)
    <2>1. HeadCommit <= Len(commits)
      BY <1>2, HeadType DEF FilesMade, TypeInv
    <2>2. QED
      BY <1>2, <1>3, <1>5, <1>7, <2>1 DEF FilesMade, RecordMade
  <1>9. FilesMade' /\ ledger'[u][a] = [r EXCEPT !.rev = RecordOf(p).rev + 1]
    <2>1. CompareAndSet(u, a, RecordOf(p).rev, r)
      BY <1>1 DEF r
    <2> HIDE DEF u, a
    <2>2. QED
      BY <1>2, <1>3, <1>4, <1>8, <2>1, WriteMade
  <1>10. ledger'[u][a].state = "committing"
    BY <1>4, <1>5, <1>9 DEF Records
  <1> HIDE DEF k
  <1>11. PICK l : l = k
    OBVIOUS
  <1>12. l.pc = "check" /\ l.seen = ledger'[l.unit][l.attempt] /\ l.seen.state = "committing"
    BY <1>6, <1>10, <1>11
  <1>13. MadeOK(l)'
    BY <1>12 DEF MadeOK, OpeningSteps, AttemptSteps
  <1>14. Become(p, l)
    BY <1>6, <1>11
  <1>15. QED
    BY <1>9, <1>13, <1>14, MovesMade

\* A commit is due only while HEAD is the one the release was prepared on, and
\* the commits of the attempt are above that one.
LEMMA CheckMade ==
    ASSUME OneAtATime, TypeInv, MadeInv, NEW p \in Procs, Check(p)
    PROVE  MadeInv'
  <1> DEFINE k == [proc[p] EXCEPT !.pc = "commit"]
             d == [proc[p] EXCEPT !.pc = "prove"]
             seen == proc[p].seen
             u == UnitOf(p)
             a == proc[p].attempt
  <1>1. /\ UNCHANGED <<branch, tips, commits, ledger>> /\ MadeOK(proc[p]) /\ FilesMade
        /\ proc[p].pc = "check"
    BY LeftAlone DEF Check, At, MadeInv
  <1>2. AttemptAt(proc[p], k, "commit") /\ AttemptAt(proc[p], d, "prove")
    BY ProcType, StepKept
  <1> HIDE DEF k, d
  <1>3. CASE CommitIsDue(seen) /\ Become(p, k)
    <2>1. seen = ledger[u][a] /\ seen.state = "committing" /\ u \in Units /\ a \in Attempts
      BY <1>1, LocalsAccess DEF MadeOK, ReleaseSteps, UnitOf
    <2>2. HeadCommit = seen.parent /\ HeadCommit = Len(commits) /\ HeadCommit \in Nat
      BY <1>1, <1>3, HeadType DEF CommitIsDue, FilesMade, TypeInv
    <2>3. \A c \in 1..Len(commits) : ~MadeFor(c, u, a)
      <3> SUFFICES ASSUME NEW c \in 1..Len(commits), MadeFor(c, u, a)
                   PROVE  FALSE
        OBVIOUS
      <3>1. seen.parent < c
        BY <1>1, <2>1 DEF FilesMade, RecordMade
      <3>2. QED
        BY <2>2, <3>1
    <2>4. /\ k.pc = "commit" /\ k.unit = u /\ k.attempt = a /\ k.seen = seen
      BY <1>2 DEF AttemptAt, SameAttempt, UnitOf
    <2> HIDE DEF u, a, seen
    <2>5. MadeOK(k)
      BY <2>1, <2>3, <2>4 DEF MadeOK, OpeningSteps, AttemptSteps
    <2>6. QED
      BY <1>1, <1>3, <2>5, QuietMade
  <1>4. CASE Become(p, d)
    <2>1. MadeOK(d)
      BY <1>1, <1>2, StepMade DEF AttemptAt, OpeningSteps, AttemptSteps, ReleaseSteps
    <2>2. QED
      BY <1>1, <1>4, <2>1, QuietMade
  <1>5. CASE Return(p)
    BY <1>1, <1>5, QuietReturn
  <1>6. (CommitIsDue(seen) /\ Become(p, k)) \/ Become(p, d) \/ Return(p)
    BY DEF Check, Goto, k, d
  <1>7. QED
    BY <1>3, <1>4, <1>5, <1>6

\* The commit of the attempt is its only one.
LEMMA CommitStepMade ==
    ASSUME OneAtATime, TypeInv, MadeInv, NEW p \in Procs, Commit(p)
    PROVE  MadeInv'
  <1> DEFINE k == [proc[p] EXCEPT !.pc = "prove"]
             seen == proc[p].seen
             u == UnitOf(p)
             a == proc[p].attempt
  <1>1. MadeOK(proc[p]) /\ FilesMade /\ proc[p].pc = "commit" /\ UNCHANGED ledger
    BY DEF Commit, At, MadeInv
  <1>2. /\ seen = ledger[u][a] /\ seen.state = "committing"
        /\ \A c \in 1..Len(commits) : ~MadeFor(c, u, a)
    BY <1>1 DEF MadeOK, ReleaseSteps, UnitOf
  <1>3. AttemptAt(proc[p], k, "prove")
    BY ProcType, StepKept
  <1> HIDE DEF k
  <1>4. CASE CommitPaths(seen.paths, seen.message, <<u, a>>) /\ Become(p, k)
    <2>1. /\ seen.paths \in SUBSET Paths /\ seen.message \in Texts
          /\ <<u, a>> \in (Units \X Attempts) \cup {Outsider}
      BY CommitArgs DEF Texts
    <2>2. NewAuthor(<<u, a>>)
      BY <1>2 DEF NewAuthor, MadeFor
    <2>3. FilesMade'
      <3> HIDE DEF seen, u, a
      <3>1. QED
        BY <1>1, <1>4, <2>1, <2>2, CommitMade
    <2>4. PICK l : l = k
      OBVIOUS
    <2>5. l.pc = "prove" /\ l.seen = ledger'[l.unit][l.attempt] /\ l.seen.state = "committing"
      BY <1>1, <1>2, <1>3, <2>4 DEF AttemptAt, SameAttempt, UnitOf
    <2>6. MadeOK(l)'
      BY <2>5 DEF MadeOK, OpeningSteps, AttemptSteps
    <2>7. Become(p, l)
      BY <1>4, <2>4
    <2>8. QED
      BY <2>3, <2>6, <2>7, MovesMade
  <1>5. CASE Return(p) /\ UNCHANGED <<branch, tips, commits>>
    BY <1>1, <1>5, QuietReturn
  <1>6. QED
    BY <1>4, <1>5 DEF Commit, Goto, k

\* The proof of a release keeps what it was prepared with.
LEMMA ProveMade ==
    ASSUME OneAtATime, TypeInv, MadeInv, NEW p \in Procs, Prove(p)
    PROVE  MadeInv'
  <1> DEFINE u == UnitOf(p)
             a == proc[p].attempt
             seen == proc[p].seen
             proved == [seen EXCEPT !.state = "completed", !.commit = HeadCommit]
             k == [proc[p] EXCEPT !.pc = "done_save", !.seen = ledger'[u][a]]
  <1>1. /\ UNCHANGED <<branch, tips, commits>> /\ MadeOK(proc[p]) /\ FilesMade
        /\ proc[p].pc = "prove"
    BY LeftAlone DEF Prove, At, MadeInv
  <1>2. CASE CompareAndSet(u, a, seen.rev, proved) /\ Become(p, k)
    <2>1. u \in Units /\ a \in Attempts /\ seen \in Records /\ seen.rev \in Nat
      BY LocalsAccess, RecordsWith
    <2>2. HeadCommit \in Nat
      BY HeadType DEF TypeInv
    <2>3. proved \in Records
      BY <2>1, <2>2 DEF Records
    <2>4. /\ proved.head = seen.head /\ proved.parent = seen.parent
          /\ proved.state = "completed"
      BY <2>1 DEF Records
    <2>5. k.pc = "done_save"
      BY ProcType, StepOf
    <2>6. seen = ledger[u][a]
      BY <1>1 DEF MadeOK, ReleaseSteps, UnitOf
    <2> HIDE DEF proved, k, seen, u, a
    <2>7. RecordMade(u, a, proved)
      BY <1>1, <2>1, <2>4, <2>6 DEF FilesMade, RecordMade
    <2>8. FilesMade'
      BY <1>1, <1>2, <2>1, <2>3, <2>7, WriteMade
    <2>9. k.pc \notin Relied
      BY <2>5 DEF Relied, OpeningSteps, AttemptSteps, ReleaseSteps
    <2>10. QED
      BY <1>2, <2>8, <2>9, RestMade
  <1>3. CASE Return(p) /\ UNCHANGED ledger
    BY <1>1, <1>3, QuietReturn
  <1>4. QED
    BY <1>2, <1>3 DEF Prove

\* Recording the unit as done, or holding it, relies on nothing.
LEMMA AfterMade ==
    ASSUME OneAtATime, TypeInv, MadeInv, NEW p \in Procs,
           \/ Revalidate(p) \/ DoneSave(p) \/ DoneLogRead(p) \/ DoneLogWrite(p) \/ DoneSync(p)
           \/ Hold(p) \/ Crash(p)
    PROVE  MadeInv'
  <1>1. UNCHANGED <<branch, tips, commits, ledger>>
    BY LeftAlone DEF Revalidate, DoneSave, DoneLogRead, ReadLog, DoneLogWrite, DoneSync, Hold,
       HoldSave, HoldLogRead, HoldLogWrite, Crash
  <1>2. {"done_save", "done_log_read", "done_log_write", "done_sync", "hold_log_read",
         "hold_log_write"} \cap Relied = {}
    BY DEF Relied, OpeningSteps, AttemptSteps, ReleaseSteps
  <1>3. ASSUME NEW s, s \notin Relied, Goto(p, s)
        PROVE  MadeInv'
    <2>1. [proc[p] EXCEPT !.pc = s].pc = s
      BY ProcType, StepOf
    <2>2. QED
      BY <1>1, <1>3, <2>1, QuietRest DEF Goto
  <1>4. ASSUME NEW s, NEW next, next \notin Relied, ReadLog(p, s, next)
        PROVE  MadeInv'
    <2>1. [proc[p] EXCEPT !.pc = next, !.lines = log[MainPlan]].pc = next
      BY ProcType, StepOf
    <2>2. QED
      BY <1>1, <1>4, <2>1, QuietRest DEF ReadLog
  <1>5. CASE DoneSave(p)
    <2> DEFINE entry == [EntryOf(p) EXCEPT !.status = "done", !.attempt = proc[p].attempt,
                           !.rev = proc[p].seen.rev, !.changed = proc[p].seen.paths]
               k == [WithEntry(proc[p], entry) EXCEPT !.pc = "done_log_read"]
    <2>1. Become(p, k)
      BY <1>5 DEF DoneSave
    <2>2. k.pc = "done_log_read"
      BY ProcType DEF WithEntry, Locals
    <2> HIDE DEF k
    <2>3. QED
      BY <1>1, <1>2, <2>1, <2>2, QuietRest
  <1>6. CASE Revalidate(p)
    <2>1. Goto(p, "done_save") \/ Return(p)
      BY <1>6 DEF Revalidate
    <2>2. QED
      BY <1>1, <1>2, <1>3, <2>1, QuietReturn
  <1>7. CASE DoneLogRead(p) \/ HoldLogRead(p)
    BY <1>2, <1>4, <1>7 DEF DoneLogRead, HoldLogRead
  <1>8. CASE DoneLogWrite(p) \/ HoldSave(p)
    BY <1>2, <1>3, <1>8 DEF DoneLogWrite, HoldSave
  <1>9. CASE DoneSync(p) \/ HoldLogWrite(p) \/ Crash(p)
    BY <1>1, <1>9, QuietReturn DEF DoneSync, HoldLogWrite, Crash
  <1>10. QED
    BY <1>5, <1>6, <1>7, <1>8, <1>9 DEF Hold

\* Others commit on top of HEAD, in nobody's name.
LEMMA EnvironmentMade ==
    ASSUME OneAtATime, TypeInv, MadeInv, Environment
    PROVE  MadeInv'
  <1>1. FilesMade /\ UNCHANGED <<ledger, proc>> /\ \A q \in Procs : MadeOK(proc[q])
    BY DEF MadeInv, Environment
  <1>2. CASE \E x \in Paths : Edit(x)
    <2>1. UNCHANGED <<branch, tips, commits, ledger>>
      BY <1>1, <1>2 DEF Edit
    <2>2. QED
      BY <1>1, <2>1, SameMade DEF MadeInv
  <1>3. CASE OutsideCommit
    <2>1. PICK S \in SUBSET Dirty(Paths), m \in Messages : CommitPaths(S, m, Outsider)
      BY <1>3 DEF OutsideCommit
    <2>2. S \in SUBSET Paths /\ m \in Texts /\ Outsider \in (Units \X Attempts) \cup {Outsider}
      BY DEF Dirty, Texts
    <2>3. \A u, a : Outsider # <<u, a>>
      BY DEF Outsider
    <2>4. NewAuthor(Outsider)
      BY <2>3 DEF NewAuthor
    <2>5. FilesMade'
      BY <1>1, <2>1, <2>2, <2>4, CommitMade
    <2>6. /\ Len(commits) \in Nat /\ Len(commits') = Len(commits) + 1
          /\ \A c \in 1..Len(commits) : commits'[c] = commits[c]
          /\ commits'[Len(commits) + 1].author = Outsider
      <3>1. Len(commits) \in Nat
        BY DEF TypeInv, RepoOK
      <3>2. QED
        BY <1>1, <2>1, <2>2, <3>1, CommitLine
    <2>7. \A c \in 1..Len(commits') : \A u, a : MadeFor(c, u, a)' =>
             c \in 1..Len(commits) /\ MadeFor(c, u, a)
      <3> SUFFICES ASSUME NEW c \in 1..Len(commits'), NEW u, NEW a, commits'[c].author = <<u, a>>
                   PROVE  c \in 1..Len(commits) /\ commits[c].author = <<u, a>>
        BY DEF MadeFor
      <3>1. c # Len(commits) + 1
        BY <2>3, <2>6
      <3>2. QED
        BY <2>6, <3>1
    <2>8. ASSUME NEW q \in Procs
          PROVE  MadeOK(proc[q])'
      <3>1. PICK l \in Locals : l = proc[q]
        BY ProcType
      <3>2. MadeOK(l) /\ l.head \in Nat
        BY <1>1, <3>1 DEF Locals
      <3>3. MadeOK(l)'
        BY <1>1, <2>6, <2>7, <3>2 DEF MadeOK
      <3>4. QED
        BY <1>1, <3>1, <3>3
    <2>9. QED
      BY <2>5, <2>8 DEF MadeInv
  <1>4. QED
    BY <1>2, <1>3 DEF Environment

\* Every step of the one process, and of everybody else, keeps the invariant.
LEMMA MadeStep ==
    ASSUME OneAtATime, TypeInv, MadeInv, [Next]_vars
    PROVE  MadeInv'
  <1>1. CASE UNCHANGED vars
    <2>1. UNCHANGED <<branch, tips, commits, ledger, proc>>
      BY <1>1 DEF vars
    <2>2. QED
      BY <2>1, SameMade DEF MadeInv
  <1>2. ASSUME NEW p \in Procs, Attempt(p)
        PROVE  MadeInv'
    BY <1>2, BeforeMade, BeginMade, RepairMade, OpenMade, WorkMade, FinalizeMade, VerifyMade
       DEF Attempt
  <1>3. ASSUME NEW p \in Procs, Release(p)
        PROVE  MadeInv'
    BY <1>3, PrepareMade, CheckMade, CommitStepMade, ProveMade, AfterMade DEF Release
  <1>4. CASE Next
    BY <1>2, <1>3, <1>4, BeforeMade, RecoverMade, AfterMade, EnvironmentMade DEF Next, Continue
  <1>5. QED
    BY <1>1, <1>4

\* Nothing was committed before anything was run.
LEMMA MadeInit == Init => MadeInv
  <1> SUFFICES ASSUME Init
               PROVE  MadeInv
    OBVIOUS
  <1>1. Len(commits) = 0 /\ HeadCommit = 0
    BY TrunkAssumption DEF Init, WorktreeInit, HeadCommit
  <1>2. \A u \in Units, a \in Attempts : ledger[u][a] = NoRecord
    BY DEF Init
  <1>3. NoRecord.head = 0 /\ NoRecord.parent = 0 /\ NoRecord.state = "none"
    BY DEF NoRecord
  <1>4. FilesMade
    BY <1>1, <1>2, <1>3 DEF FilesMade, RecordMade, NewIsBlank, OneCommitPerAttempt
  <1>5. Idle.pc \notin Relied
    BY DEF Idle, Relied, OpeningSteps, AttemptSteps, ReleaseSteps
  <1>6. \A p \in Procs : MadeOK(proc[p])
    BY <1>5 DEF Init, MadeOK, Relied, OpeningSteps, AttemptSteps, ReleaseSteps
  <1>7. QED
    BY <1>4, <1>6 DEF MadeInv

\* While one process runs the plan, an attempt is committed at most once, however
\* often its release dies and is recovered, and whatever others commit between.
THEOREM AttemptsCommitOnce ==
    ASSUME OneAtATime
    PROVE  Spec => []OneCommitPerAttempt
  <1>1. TypeInv /\ MadeInv /\ [Next]_vars => (TypeInv /\ MadeInv)'
    BY TypeStep, MadeStep
  <1>2. Init => TypeInv /\ MadeInv
    BY InitType, MadeInit
  <1>3. MadeInv => OneCommitPerAttempt
    BY DEF MadeInv, FilesMade
  <1>4. QED
    BY <1>1, <1>2, <1>3, PTL DEF Spec
=============================================================================
