--------------------------- MODULE MainUnitSafety ---------------------------
(***************************************************************************)
(* What else MainUnit guarantees for every value of its constants, by one  *)
(* inductive invariant: attempts come one at a time, nothing is shown as   *)
(* done before it is, commits stay in scope, and two units with disjoint   *)
(* scopes never complete with the same commit.                             *)
(*                                                                         *)
(* The files are shared and every command works from copies of them, so    *)
(* the invariant says what a copy may still be relied on for.  A ledger    *)
(* only moves forward, held and completed being final, hence what a copy   *)
(* says of a finished attempt stays true however old it is; and a snapshot *)
(* with the ledger's own revision is the ledger.                           *)
(*                                                                         *)
(* The last part is about commands that run one at a time, in the checkout *)
(* of one plan: an attempt then makes at most one commit, and a commit     *)
(* that landed as it was sealed is given up only under a later one.        *)
(***************************************************************************)
EXTENDS MainUnitProofs

-----------------------------------------------------------------------------
(* The inductive invariant *)

\* A ledger record of the unit u, or a snapshot of one.
RecordOK(u, r) ==
    /\ r.rev = 0 => r = NoRecord
    /\ r.rev > 0 => r.status # "absent"
    /\ r.paths \subseteq Allowed[u]
    /\ r.status \in {"committing", "completed"} => r.paths # {} /\ r.message \in Messages
    /\ r.status # "completed" => r.commit = 0

\* A queue entry of u, or a copy of one: what it shows as done is done.
EntryOK(u, e) ==
    /\ e.status = "ready" => e.attempt = 0
    /\ e.status = "done" => HasCompleted(u)

\* So is what the log, or a copy of it, lists as completed.
LinesOK(lines) == \A u \in Units : <<u, "Completed">> \in lines => HasCompleted(u)

EarlierHeld(u, b) == \A a \in Attempts : a < b => ledger[u][a].status = "held"

\* Steps that rely on the snapshot of an open, of a committing transaction.
OpenSteps == {"complete_verify", "complete_seal", "hold_record"}
SealedSteps == {"finish_check", "finish_stage", "finish_commit", "finish_observe",
                "finish_complete", "protocol_hold"}

\* The snapshot r of attempt a is the ledger unless the ledger has moved on.
Snapshot(u, a, r) ==
    /\ 0 < r.rev /\ r.rev <= ledger[u][a].rev
    /\ r.rev = ledger[u][a].rev => r = ledger[u][a]

\* What the copies among the locals of a command say.
CopiesOK(l) ==
    /\ \A u \in Units : EntryOK(u, l.view[u])
    /\ LinesOK(l.lines)
    /\ RecordOK(l.unit, l.seen)

\* What holds besides at the command's step.
StepOK(l) ==
    /\ l.pc \in {"finish_save", "finish_log_read", "finish_log_write"} => HasCompleted(l.unit)
    /\ l.pc \in {"begin_repair_held", "begin_branch", "begin_check"}
         => l.attempt = CurrentAttempt(l.view[l.unit])
    /\ l.pc = "begin_check" => l.view[l.unit].status \in {"ready", "needs_work"}
    /\ l.pc = "begin_open" => EarlierHeld(l.unit, l.attempt)
    /\ l.pc = "complete_seal" => l.paths \subseteq Allowed[l.unit] /\ l.paths # {}
    /\ l.pc \in OpenSteps => l.seen.status = "open"
    /\ l.pc \in SealedSteps => l.seen.status = "committing"
    /\ l.pc \in OpenSteps \cup SealedSteps => Snapshot(l.unit, l.attempt, l.seen)

LedgerInv == \A u \in Units, a \in Attempts : RecordOK(u, ledger[u][a])
QueueInv == \A u \in Units : EntryOK(u, queue[u])
LogInv == \A pl \in Plans : LinesOK(log[pl])
ProcInv == \A p \in Procs : CopiesOK(proc[p]) /\ StepOK(proc[p])
CommitInv == HistoryInv /\ CommitsInScope

SafetyInv ==
    /\ TypeOK
    /\ LedgerInv
    /\ QueueInv
    /\ LogInv
    /\ ProcInv
    /\ OneAttemptAtATime
    /\ CommitInv

-----------------------------------------------------------------------------
(* A ledger only moves forward *)

Transitions ==
    {<<"absent", "open">>, <<"open", "committing">>, <<"open", "held">>,
     <<"committing", "completed">>, <<"committing", "held">>}

\* Every ledger stays as it is or takes the next revision, along a transition.
Grown ==
    \A u \in Units, a \in Attempts :
        \/ ledger'[u][a] = ledger[u][a]
        \/ /\ ledger'[u][a].rev = ledger[u][a].rev + 1
           /\ <<ledger[u][a].status, ledger'[u][a].status>> \in Transitions

\* A held or completed ledger is final.
LEMMA FinalStays ==
    ASSUME Grown, NEW u \in Units, NEW a \in Attempts,
           ledger[u][a].status \in {"held", "completed"}
    PROVE  ledger'[u][a] = ledger[u][a]
  BY DEF Grown, Transitions

\* A unit that has completed stays completed.
LEMMA CompletedStays ==
    ASSUME Grown, NEW u \in Units, HasCompleted(u)
    PROVE  HasCompleted(u)'
  BY FinalStays DEF HasCompleted

\* What was held before an attempt stays held.
LEMMA EarlierStays ==
    ASSUME Grown, NEW u \in Units, NEW b, EarlierHeld(u, b)
    PROVE  EarlierHeld(u, b)'
  BY FinalStays DEF EarlierHeld

\* A snapshot of an older revision stays older.
LEMMA SnapshotStays ==
    ASSUME TypeOK, TypeOK', Grown, NEW u \in Units, NEW a \in Attempts, NEW r \in Records,
           Snapshot(u, a, r)
    PROVE  Snapshot(u, a, r)'
  <1>1. r.rev \in Nat /\ ledger[u][a].rev \in Nat
    BY DEF TypeOK, Records
  <1>2. CASE ledger'[u][a] = ledger[u][a]
    BY <1>2 DEF Snapshot
  <1>3. CASE ledger'[u][a].rev = ledger[u][a].rev + 1
    BY <1>1, <1>3 DEF Snapshot
  <1>4. QED
    BY <1>2, <1>3 DEF Grown

\* What an entry or a copy of the log shows as done stays done.
LEMMA ShownStays ==
    ASSUME Grown
    PROVE  /\ \A u \in Units : \A e : EntryOK(u, e) => EntryOK(u, e)'
           /\ \A lines : LinesOK(lines) => LinesOK(lines)'
  BY CompletedStays DEF EntryOK, LinesOK

\* Locals that nobody touches stay as good as they were.
LEMMA LocalsStay ==
    ASSUME TypeOK, TypeOK', Grown, NEW l \in Locals, CopiesOK(l), StepOK(l)
    PROVE  CopiesOK(l)' /\ StepOK(l)'
  <1>1. l.unit \in Units /\ l.attempt \in Attempts /\ l.seen \in Records
    BY DEF Locals
  <1>2. CopiesOK(l)'
    <2>1. \A u \in Units : EntryOK(u, l.view[u])'
      BY ShownStays DEF CopiesOK
    <2>2. LinesOK(l.lines)'
      BY ShownStays DEF CopiesOK
    <2>3. RecordOK(l.unit, l.seen)'
      BY DEF CopiesOK, RecordOK
    <2>4. QED
      BY <2>1, <2>2, <2>3 DEF CopiesOK
  <1>3. HasCompleted(l.unit) => HasCompleted(l.unit)'
    BY <1>1, CompletedStays
  <1>4. EarlierHeld(l.unit, l.attempt) => EarlierHeld(l.unit, l.attempt)'
    BY <1>1, EarlierStays
  <1>5. Snapshot(l.unit, l.attempt, l.seen) => Snapshot(l.unit, l.attempt, l.seen)'
    BY <1>1, SnapshotStays
  <1>6. StepOK(l)'
    BY <1>3, <1>4, <1>5 DEF StepOK
  <1>7. QED
    BY <1>2, <1>6

\* If one process takes good locals, all processes have good locals.
LEMMA ProcMoves ==
    ASSUME TypeOK, TypeOK', ProcInv, Grown, NEW p \in Procs, NEW l \in Locals,
           Become(p, l), CopiesOK(l)', StepOK(l)'
    PROVE  ProcInv'
  <1> SUFFICES ASSUME NEW q \in Procs
               PROVE  CopiesOK(proc[q])' /\ StepOK(proc[q])'
    BY DEF ProcInv
  <1>1. PICK k \in Locals : k = proc[q]
    BY DEF TypeOK
  <1>2. CASE q = p
    <2>1. proc'[q] = l
      BY <1>2 DEF Become, TypeOK
    <2>2. QED
      BY <2>1
  <1>3. CASE q # p
    <2>1. proc'[q] = k
      BY <1>1, <1>3 DEF Become, TypeOK
    <2>2. CopiesOK(k)' /\ StepOK(k)'
      BY <1>1, LocalsStay DEF ProcInv
    <2>3. QED
      BY <2>1, <2>2
  <1>4. QED
    BY <1>2, <1>3

-----------------------------------------------------------------------------
(* Steps that write no ledger *)

\* No ledger is written.
LEMMA UnwrittenGrows ==
    ASSUME UNCHANGED ledger
    PROVE  Grown
  BY DEF Grown

\* What is said of ledgers and commits stays true of the same ones.
LEMMA SameFiles ==
    ASSUME SafetyInv, UNCHANGED <<commits, ledger>>
    PROVE  LedgerInv' /\ OneAttemptAtATime' /\ CommitInv'
  <1>1. LedgerInv'
    BY DEF SafetyInv, LedgerInv, RecordOK
  <1>2. OneAttemptAtATime'
    BY DEF SafetyInv, OneAttemptAtATime
  <1>3. HistoryInv'
    BY DEF SafetyInv, CommitInv, HistoryInv
  <1>4. CommitsInScope'
    BY DEF SafetyInv, CommitInv, CommitsInScope, Changes, Tree
  <1>5. QED
    BY <1>1, <1>2, <1>3, <1>4 DEF CommitInv

\* What is said of the queue and the log stays true of the same ones.
LEMMA SameRecords ==
    ASSUME SafetyInv, Grown, UNCHANGED recordVars
    PROVE  QueueInv' /\ LogInv'
  BY ShownStays DEF SafetyInv, QueueInv, LogInv, recordVars

\* A process takes good locals, and no file is written.
LEMMA CommittingMove ==
    ASSUME SafetyInv, TypeOK', CommitInv', UNCHANGED <<recordVars, ledger>>,
           NEW p \in Procs, NEW l \in Locals, Become(p, l), CopiesOK(l), StepOK(l)
    PROVE  SafetyInv'
  <1>1. Grown
    BY UnwrittenGrows
  <1>2. CopiesOK(l)' /\ StepOK(l)'
    BY <1>1, LocalsStay DEF SafetyInv
  <1>3. ProcInv'
    BY <1>1, <1>2, ProcMoves DEF SafetyInv
  <1>4. LedgerInv'
    BY DEF SafetyInv, LedgerInv, RecordOK
  <1>5. OneAttemptAtATime'
    BY DEF SafetyInv, OneAttemptAtATime
  <1>6. QED
    BY <1>1, <1>3, <1>4, <1>5, SameRecords DEF SafetyInv

\* The same without a commit.
LEMMA QuietMove ==
    ASSUME SafetyInv, TypeOK', UNCHANGED <<commits, recordVars, ledger>>,
           NEW p \in Procs, NEW l \in Locals, Become(p, l), CopiesOK(l), StepOK(l)
    PROVE  SafetyInv'
  BY SameFiles, CommittingMove

\* Nothing is relied on between two commands.
LEMMA IdleOK == CopiesOK(Idle) /\ StepOK(Idle)
  <1>1. Idle.view = [u \in Units |-> Fresh] /\ Idle.lines = {}
    BY DEF Idle
  <1>2. Idle.seen = NoRecord /\ Idle.unit \in Units /\ Idle.pc = "idle"
    BY IdleType DEF Idle, Locals
  <1>3. \A u \in Units : EntryOK(u, Fresh)
    BY DEF EntryOK, Fresh, Entry
  <1>4. \A u \in Units : RecordOK(u, NoRecord)
    BY DEF RecordOK, NoRecord
  <1>5. CopiesOK(Idle)
    BY <1>1, <1>2, <1>3, <1>4 DEF CopiesOK, LinesOK
  <1>6. StepOK(Idle)
    BY <1>2 DEF StepOK, OpenSteps, SealedSteps
  <1>7. QED
    BY <1>5, <1>6

\* A command that returns without writing.
LEMMA ReturnSafe ==
    ASSUME SafetyInv, TypeOK', UNCHANGED <<commits, recordVars, ledger>>,
           NEW p \in Procs, Return(p)
    PROVE  SafetyInv'
  BY IdleType, IdleOK, QuietMove DEF Return

\* The steps at which something besides the copies is relied on.
MarkedSteps ==
    {"finish_save", "finish_log_read", "finish_log_write", "begin_repair_held",
     "begin_branch", "begin_check", "begin_open"} \cup OpenSteps \cup SealedSteps

\* Going on to another step leaves the copies as they are.
LEMMA CopiesGoOn ==
    ASSUME NEW l \in Locals, CopiesOK(l), NEW s
    PROVE  CopiesOK([l EXCEPT !.pc = s])
  BY DEF CopiesOK, Locals

\* Nothing is relied on at an unmarked step.
LEMMA UnmarkedOK ==
    ASSUME NEW l \in Locals, l.pc \notin MarkedSteps
    PROVE  StepOK(l)
  BY DEF StepOK, MarkedSteps, OpenSteps, SealedSteps

\* A process has good locals.
LEMMA LocalsOK ==
    ASSUME SafetyInv, NEW p \in Procs
    PROVE  /\ CopiesOK(proc[p]) /\ StepOK(proc[p])
           /\ TypeOK /\ proc[p] \in Locals
  BY LocalsAccess DEF SafetyInv, ProcInv

\* load_queue: what the queue and the log show as done is done.
LEMMA LoadSafe ==
    ASSUME SafetyInv, TypeOK', UNCHANGED <<commits, recordVars, ledger>>,
           NEW p \in Procs, NEW u \in Units, NEW s \in Steps \ MarkedSteps, Load(p, u, s)
    PROVE  SafetyInv'
  <1> DEFINE view == Synced(PlanOf[u], queue, log[PlanOf[u]])
             l == [Idle EXCEPT !.pc = s, !.unit = u, !.view = view]
  <1>1. PlanOf[u] \in Plans
    BY PlanOfAssumption
  <1>2. ASSUME NEW v \in Units
        PROVE  EntryOK(v, view[v])
    <2>1. queue[v] \in Entries /\ EntryOK(v, queue[v]) /\ LinesOK(log[PlanOf[u]])
      BY <1>1 DEF SafetyInv, TypeOK, QueueInv, LogInv
    <2>2. CASE PlanOf[v] = PlanOf[u]
      <3>1. view[v] = [queue[v] EXCEPT !.status = SyncedStatus(log[PlanOf[u]], v, @)]
        BY <2>2 DEF Synced
      <3>2. /\ view[v].status = SyncedStatus(log[PlanOf[u]], v, queue[v].status)
            /\ view[v].attempt = queue[v].attempt
        BY <2>1, <3>1 DEF Entries
      <3>3. QED
        BY <2>1, <3>2 DEF SyncedStatus, EntryOK, LinesOK
    <2>3. CASE PlanOf[v] # PlanOf[u]
      BY <2>3 DEF Synced, EntryOK, Fresh, Entry
    <2>4. QED
      BY <2>2, <2>3
  <1>3. l \in Locals
    <2>1. view \in [Units -> Entries]
      <3>1. Fresh \in Entries
        BY MaxAttemptsAssumption DEF Fresh, Entry, Entries, UnitStatuses
      <3>2. ASSUME NEW v \in Units
            PROVE  [queue[v] EXCEPT !.status = SyncedStatus(log[PlanOf[u]], v, @)] \in Entries
        BY DEF SafetyInv, TypeOK, SyncedStatus, Entries, UnitStatuses
      <3>3. QED
        BY <3>1, <3>2 DEF Synced
    <2>2. QED
      BY <2>1, IdleType DEF Locals
  <1>4. l.view = view /\ l.lines = {} /\ l.seen = NoRecord /\ l.unit = u /\ l.pc = s
    BY IdleType DEF Locals, Idle
  <1>5. RecordOK(u, NoRecord)
    BY DEF RecordOK, NoRecord
  <1>6. CopiesOK(l)
    BY <1>2, <1>4, <1>5 DEF CopiesOK, LinesOK
  <1>7. StepOK(l)
    BY <1>3, <1>4, UnmarkedOK
  <1>8. QED
    BY <1>3, <1>6, <1>7, QuietMove DEF Load

\* save_queue: the copy that replaces the file shows only what is done.
LEMMA SaveSafe ==
    ASSUME SafetyInv, TypeOK', NEW p \in Procs, NEW s, NEW l \in Locals, Save(p, s, l),
           CopiesOK(l), StepOK(l)
    PROVE  SafetyInv'
  <1>1. UNCHANGED <<commits, log, ledger>> /\ Grown
    BY UnwrittenGrows DEF Save, worktreeVars
  <1>2. CopiesOK(l)' /\ StepOK(l)'
    BY <1>1, LocalsStay DEF SafetyInv
  <1>3. ProcInv'
    BY <1>1, <1>2, ProcMoves DEF SafetyInv, Save
  <1>4. LogInv'
    BY <1>1, ShownStays DEF SafetyInv, LogInv
  <1>5. QueueInv'
    <2>1. \A u \in Units : EntryOK(u, queue[u]) /\ EntryOK(u, proc[p].view[u])
      BY LocalsOK DEF SafetyInv, QueueInv, CopiesOK
    <2>2. \A u \in Units : EntryOK(u, queue'[u])
      BY <2>1 DEF Save, SaveQueue
    <2>3. QED
      BY <1>1, <2>2 DEF QueueInv, EntryOK, HasCompleted
  <1>6. QED
    BY <1>1, <1>3, <1>4, <1>5, SameFiles DEF SafetyInv

\* The first half of _append_plan_log.
LEMMA ReadLogSafe ==
    ASSUME SafetyInv, TypeOK', NEW p \in Procs, NEW s, NEW n \in Steps, ReadLog(p, s, n),
           StepOK([proc[p] EXCEPT !.pc = n, !.lines = log[PlanFor(p)]])
    PROVE  SafetyInv'
  <1> DEFINE l == [proc[p] EXCEPT !.pc = n, !.lines = log[PlanFor(p)]]
  <1>1. log[PlanFor(p)] \in SUBSET Lines /\ LinesOK(log[PlanFor(p)])
    BY LocalsAccess DEF SafetyInv, TypeOK, LogInv
  <1>2. CopiesOK(proc[p]) /\ proc[p] \in Locals
    BY LocalsOK
  <1>3. l \in Locals
    BY <1>1, <1>2 DEF Locals
  <1>4. CopiesOK(l)
    BY <1>1, <1>2 DEF CopiesOK, Locals
  <1>5. QED
    BY <1>3, <1>4, QuietMove DEF ReadLog, worktreeVars

\* The same on the way to an unmarked step.
LEMMA ReadLogFreely ==
    ASSUME SafetyInv, TypeOK', NEW p \in Procs, NEW s, NEW n \in Steps \ MarkedSteps,
           ReadLog(p, s, n)
    PROVE  SafetyInv'
  <1> DEFINE l == [proc[p] EXCEPT !.pc = n, !.lines = log[PlanFor(p)]]
  <1>1. proc[p] \in Locals /\ log[PlanFor(p)] \in SUBSET Lines
    BY LocalsOK, LocalsAccess DEF SafetyInv, TypeOK
  <1>2. l \in Locals /\ l.pc = n
    BY <1>1 DEF Locals
  <1>3. StepOK(l)
    BY <1>2, UnmarkedOK
  <1>4. QED
    BY <1>3, ReadLogSafe

\* The second half: the copy of the log and a line about what is done.
LEMMA AppendLogSafe ==
    ASSUME SafetyInv, TypeOK', NEW p \in Procs, NEW s, NEW added, AppendLog(p, s, added),
           LinesOK(added)
    PROVE  SafetyInv'
  <1>1. UNCHANGED <<commits, queue, ledger>> /\ Grown
    BY UnwrittenGrows DEF AppendLog, worktreeVars
  <1>2. CopiesOK(Idle)' /\ StepOK(Idle)'
    BY <1>1, IdleOK, IdleType, LocalsStay DEF SafetyInv
  <1>3. ProcInv'
    BY <1>1, <1>2, IdleType, ProcMoves DEF SafetyInv, AppendLog, Return
  <1>4. QueueInv'
    BY <1>1, ShownStays DEF SafetyInv, QueueInv
  <1>5. LogInv'
    <2>1. LinesOK(proc[p].lines) /\ \A pl \in Plans : LinesOK(log[pl])
      BY LocalsOK DEF SafetyInv, LogInv, CopiesOK
    <2>2. \A pl \in Plans : LinesOK(log'[pl])
      BY <2>1 DEF AppendLog, WriteLog, LinesOK, SafetyInv, TypeOK
    <2>3. QED
      BY <1>1, <2>2 DEF LogInv, LinesOK, HasCompleted
  <1>6. QED
    BY <1>1, <1>3, <1>4, <1>5, SameFiles DEF SafetyInv

-----------------------------------------------------------------------------
(* Steps that write a ledger *)

\* What a ledger holds that was never written.
LEMMA NoRecordFields ==
    NoRecord.status = "absent" /\ NoRecord.rev = 0 /\ NoRecord.commit = 0
  BY DEF NoRecord

\* The next revision of a record differs from it in the revision only.
LEMMA RevisionFields ==
    ASSUME NEW r \in Records, NEW v
    PROVE  LET n == [r EXCEPT !.rev = v]
           IN  /\ n.rev = v /\ n.status = r.status /\ n.head = r.head
               /\ n.paths = r.paths /\ n.candidate = r.candidate
               /\ n.message = r.message /\ n.commit = r.commit
  BY DEF Records

\* A revision compare-and-set along a transition keeps what is said of the
\* files; an attempt is opened only when every earlier one is held.
LEMMA LedgerWrite ==
    ASSUME SafetyInv, TypeOK', UNCHANGED <<commits, recordVars>>,
           NEW u \in Units, NEW a \in Attempts, NEW v \in Nat, NEW r \in Records,
           CompareAndSet(u, a, v, r),
           RecordOK(u, [r EXCEPT !.rev = v + 1]),
           <<ledger[u][a].status, r.status>> \in Transitions,
           ledger[u][a].status = "absent" => EarlierHeld(u, a)
    PROVE  /\ ledger'[u][a] = [r EXCEPT !.rev = v + 1]
           /\ Grown /\ LedgerInv' /\ OneAttemptAtATime' /\ CommitInv' /\ QueueInv' /\ LogInv'
  <1> DEFINE n == [r EXCEPT !.rev = v + 1]
  <1>1. ledger \in [Units -> [Attempts -> Records]]
    BY DEF SafetyInv, TypeOK
  <1>2. ledger'[u][a] = n /\ ledger[u][a].rev = v
    BY <1>1 DEF CompareAndSet
  <1>3. ASSUME NEW w \in Units, NEW b \in Attempts, w # u \/ b # a
        PROVE  ledger'[w][b] = ledger[w][b]
    BY <1>1, <1>3 DEF CompareAndSet
  <1>4. n.rev = v + 1 /\ n.status = r.status
    BY DEF Records
  <1>5. Grown
    BY <1>2, <1>3, <1>4 DEF Grown
  <1>6. LedgerInv'
    <2>1. \A w \in Units, b \in Attempts : RecordOK(w, ledger'[w][b])
      BY <1>2, <1>3 DEF SafetyInv, LedgerInv
    <2>2. QED
      BY <2>1 DEF LedgerInv, RecordOK
  <1>7. OneAttemptAtATime'
    <2> SUFFICES ASSUME NEW w \in Units, NEW b \in Attempts, NEW c \in Attempts,
                        b < c, ledger'[w][c].rev > 0
                 PROVE  ledger'[w][b].status = "held"
      BY DEF OneAttemptAtATime
    <2>1. ledger[w][b].status = "held" => ledger'[w][b].status = "held"
      BY <1>5, FinalStays
    <2>2. CASE ledger[w][c].rev > 0
      BY <2>1, <2>2 DEF SafetyInv, OneAttemptAtATime
    <2>3. CASE ~ (ledger[w][c].rev > 0)
      <3>1. w = u /\ c = a
        BY <1>3, <2>3
      <3>2. v = 0 /\ RecordOK(u, ledger[u][a])
        BY <1>2, <2>3, <3>1 DEF SafetyInv, LedgerInv
      <3>3. ledger[u][a].status = "absent"
        <4>1. ledger[u][a] = NoRecord
          BY <1>2, <3>2 DEF RecordOK
        <4>2. QED
          BY <4>1, NoRecordFields
      <3>4. QED
        BY <2>1, <3>1, <3>3 DEF EarlierHeld
    <2>4. QED
      BY <2>2, <2>3
  <1>8. HistoryInv'
    BY DEF SafetyInv, CommitInv, HistoryInv
  <1>9. CommitsInScope'
    BY DEF SafetyInv, CommitInv, CommitsInScope, Changes, Tree
  <1>10. QED
    BY <1>2, <1>5, <1>6, <1>7, <1>8, <1>9, SameRecords DEF CommitInv

\* The writer of a ledger takes good locals.
LEMMA WriterMoves ==
    ASSUME SafetyInv, TypeOK', Grown, LedgerInv', OneAttemptAtATime', CommitInv',
           QueueInv', LogInv', NEW p \in Procs, NEW l \in Locals, Become(p, l),
           CopiesOK(l)', StepOK(l)'
    PROVE  SafetyInv'
  BY ProcMoves DEF SafetyInv

\* An entry that shows its unit as anything but ready or done is fine.
LEMMA ActiveEntryOK ==
    ASSUME NEW u \in Units, NEW e, e.status \notin {"ready", "done"}
    PROVE  EntryOK(u, e) /\ EntryOK(u, e)'
  BY DEF EntryOK

\* A copy in which only the entry of the command's unit is replaced.
LEMMA WithEntryOK ==
    ASSUME NEW l \in Locals, NEW e \in Entries
    PROVE  /\ CopiesOK(l) /\ EntryOK(l.unit, e) => CopiesOK(WithEntry(l, e))
           /\ CopiesOK(l)' /\ EntryOK(l.unit, e)' => CopiesOK(WithEntry(l, e))'
  <1> DEFINE k == WithEntry(l, e)
  <1>1. /\ k.unit = l.unit /\ k.lines = l.lines /\ k.seen = l.seen
        /\ k.view = [l.view EXCEPT ![l.unit] = e]
    BY DEF WithEntry, Locals
  <1>2. l.view \in [Units -> Entries] /\ l.unit \in Units
    BY DEF Locals
  <1>3. k.view[l.unit] = e /\ \A u \in Units \ {l.unit} : k.view[u] = l.view[u]
    BY <1>1, <1>2
  <1>4. CopiesOK(l) /\ EntryOK(l.unit, e) => CopiesOK(k)
    BY <1>1, <1>2, <1>3 DEF CopiesOK
  <1>5. CopiesOK(l)' /\ EntryOK(l.unit, e)' => CopiesOK(k)'
    BY <1>1, <1>2, <1>3 DEF CopiesOK
  <1>6. QED
    BY <1>4, <1>5

\* A command that writes the ledger and then has to save the entry e.
LEMMA WriteAndShow ==
    ASSUME SafetyInv, TypeOK', Grown, LedgerInv', OneAttemptAtATime', CommitInv',
           QueueInv', LogInv', NEW p \in Procs, NEW u, u = UnitOf(p),
           NEW e \in Entries, EntryOK(u, e)',
           NEW s \in Steps \ (MarkedSteps \ {"finish_save"}),
           s = "finish_save" => HasCompleted(u)',
           Become(p, WithEntry([proc[p] EXCEPT !.pc = s], e))
    PROVE  SafetyInv'
  <1>1. PICK l \in Locals : l = proc[p]
    BY LocalsOK
  <1>2. PICK k : k = [l EXCEPT !.pc = s]
    OBVIOUS
  <1>3. k \in Locals /\ k.pc = s /\ k.unit = l.unit
    BY <1>2, StepType DEF Locals
  <1>4. CopiesOK(l) /\ StepOK(l)
    BY <1>1, LocalsOK
  <1>5. CopiesOK(l)'
    BY <1>4, LocalsStay DEF SafetyInv
  <1>6. CopiesOK(k)'
    BY <1>2, <1>5 DEF CopiesOK, Locals
  <1>7. EntryOK(k.unit, e)'
    BY <1>1, <1>3 DEF UnitOf
  <1>8. PICK w : w = WithEntry(k, e)
    OBVIOUS
  <1>9. w \in Locals /\ w.pc = s /\ w.unit = l.unit
    BY <1>3, <1>8, WithEntryType, WithEntryPc DEF WithEntry, Locals
  <1>10. CopiesOK(w)'
    BY <1>3, <1>6, <1>7, <1>8, WithEntryOK
  <1>11. s = "finish_save" => HasCompleted(w.unit)'
    BY <1>1, <1>9 DEF UnitOf
  <1>12. StepOK(w)'
    BY <1>9, <1>11 DEF StepOK, MarkedSteps, OpenSteps, SealedSteps
  <1>13. Become(p, w)
    BY <1>1, <1>2, <1>8
  <1>14. QED
    BY <1>9, <1>10, <1>12, <1>13, WriterMoves

-----------------------------------------------------------------------------
(* begin-main-unit *)

\* Locals that a command has saved, and that it goes on with.
LEMMA SaveAndGoOn ==
    ASSUME SafetyInv, TypeOK', NEW p \in Procs, NEW s, NEW n \in Steps,
           Save(p, s, [proc[p] EXCEPT !.pc = n]), StepOK([proc[p] EXCEPT !.pc = n])
    PROVE  SafetyInv'
  BY LocalsOK, StepType, CopiesGoOn, SaveSafe

\* The same at an unmarked step.
LEMMA SaveAndGoOnFreely ==
    ASSUME SafetyInv, TypeOK', NEW p \in Procs, NEW s, NEW n \in Steps \ MarkedSteps,
           Save(p, s, [proc[p] EXCEPT !.pc = n])
    PROVE  SafetyInv'
  <1>1. proc[p] \in Locals
    BY LocalsOK
  <1>2. [proc[p] EXCEPT !.pc = n] \in Locals /\ [proc[p] EXCEPT !.pc = n].pc = n
    BY <1>1, StepType, StepPc
  <1>3. StepOK([proc[p] EXCEPT !.pc = n])
    BY <1>2, UnmarkedOK
  <1>4. QED
    BY <1>3, SaveAndGoOn

\* A ledger brought back into a copy of the queue shows what is done.
LEMMA ReconciledOK ==
    ASSUME NEW u \in Units, NEW a \in Attempts
    PROVE  /\ EntryOK(u, Reconciled(ledger[u][a], a))
           /\ CurrentAttempt(Reconciled(ledger[u][a], a)) = a
  BY DEF EntryOK, Reconciled, Entry, HasCompleted, CurrentAttempt, Attempts

\* A command has loaded the newest ledger, or the one its copy points to.
LEMMA InspectedOK ==
    ASSUME SafetyInv, NEW p \in Procs, NEW a \in Attempts
    PROVE  LET record == ledger[UnitOf(p)][a]
               local == [proc[p] EXCEPT !.attempt = a, !.seen = record]
               repaired == WithEntry(local, Reconciled(record, a))
           IN  /\ local \in Locals /\ CopiesOK(local)
               /\ local.view = proc[p].view /\ local.unit = UnitOf(p)
               /\ local.attempt = a /\ local.seen = record
               /\ repaired \in Locals /\ CopiesOK(repaired)
               /\ repaired.view[UnitOf(p)] = Reconciled(record, a)
               /\ repaired.unit = UnitOf(p) /\ repaired.attempt = a
  <1> DEFINE record == ledger[UnitOf(p)][a]
             local == [proc[p] EXCEPT !.attempt = a, !.seen = record]
             repaired == WithEntry(local, Reconciled(record, a))
  <1>1. TypeOK /\ UnitOf(p) \in Units /\ proc[p] \in Locals
    BY LocalsAccess DEF SafetyInv
  <1>2. record \in Records /\ RecordOK(UnitOf(p), record)
    BY <1>1 DEF SafetyInv, TypeOK, LedgerInv
  <1>3. /\ local \in Locals /\ local.view = proc[p].view /\ local.unit = UnitOf(p)
        /\ local.lines = proc[p].lines /\ local.seen = record /\ local.attempt = a
    BY <1>1, <1>2 DEF Locals, UnitOf
  <1>4. CopiesOK(local)
    BY <1>1, <1>2, <1>3, LocalsOK DEF CopiesOK
  <1>5. Reconciled(record, a) \in Entries
    BY <1>2, ReconciledType
  <1>6. repaired \in Locals /\ CopiesOK(repaired)
    BY <1>1, <1>3, <1>4, <1>5, ReconciledOK, WithEntryType, WithEntryOK
  <1>7. /\ repaired.view[UnitOf(p)] = Reconciled(record, a)
        /\ repaired.unit = UnitOf(p) /\ repaired.attempt = a
    BY <1>1, <1>3, <1>5 DEF WithEntry, Locals
  <1>8. QED
    BY <1>3, <1>4, <1>6, <1>7

\* What begin_main_unit has found stays what its copy points to.
LEMMA BeginInspectSafe ==
    ASSUME SafetyInv, TypeOK', NEW p \in Procs, BeginInspect(p)
    PROVE  SafetyInv'
  <1> DEFINE u == UnitOf(p)
             a == LatestAttempt(u, ViewOf(p))
             record == ledger[u][a]
             agrees == ViewOf(p) = Reconciled(record, a)
             local == [proc[p] EXCEPT !.attempt = a, !.seen = record]
             repaired == WithEntry(local, Reconciled(record, a))
  <1>1. UNCHANGED <<commits, recordVars, ledger>>
    BY DEF BeginInspect, worktreeVars
  <1>2. TypeOK /\ u \in Units /\ ViewOf(p) \in Entries /\ a \in Attempts
    BY LocalsAccess, LatestAttemptType DEF SafetyInv
  <1>3. /\ local \in Locals /\ CopiesOK(local)
        /\ local.view = proc[p].view /\ local.unit = u /\ local.attempt = a
        /\ repaired \in Locals /\ CopiesOK(repaired)
        /\ repaired.view[u] = Reconciled(record, a)
        /\ repaired.unit = u /\ repaired.attempt = a
    BY <1>2, InspectedOK
  <1>4. CASE Return(p)
    BY <1>1, <1>4, ReturnSafe
  <1>5. CASE Become(p, [repaired EXCEPT !.pc = "begin_repair"])
    <2>1. [repaired EXCEPT !.pc = "begin_repair"].pc \notin MarkedSteps
      BY <1>3, StepPc DEF MarkedSteps, OpenSteps, SealedSteps
    <2>2. "begin_repair" \in Steps
      BY DEF Steps
    <2>3. QED
      BY <1>1, <1>3, <1>5, <2>1, <2>2, StepType, CopiesGoOn, UnmarkedOK, QuietMove
  <1>6. CASE Become(p, [repaired EXCEPT !.pc = "begin_repair_held"])
    <2> DEFINE l == [repaired EXCEPT !.pc = "begin_repair_held"]
    <2>1. /\ l.pc = "begin_repair_held" /\ l.attempt = a
          /\ l.view[l.unit] = Reconciled(record, a)
      BY <1>3 DEF Locals
    <2>2. CurrentAttempt(l.view[l.unit]) = a
      BY <1>2, <2>1, ReconciledOK
    <2>3. StepOK(l)
      BY <2>1, <2>2 DEF StepOK, OpenSteps, SealedSteps
    <2>4. l \in Locals
      BY <1>3, StepType DEF Steps
    <2>5. QED
      BY <1>1, <1>3, <1>6, <2>3, <2>4, CopiesGoOn, QuietMove
  <1>7. CASE /\ Become(p, [local EXCEPT !.pc = "begin_branch"])
             /\ agrees \/ record.status = "absent"
    <2> DEFINE l == [local EXCEPT !.pc = "begin_branch"]
    <2>1. l.pc = "begin_branch" /\ l.attempt = a /\ l.view[l.unit] = ViewOf(p)
      BY <1>3 DEF Locals, ViewOf, UnitOf
    <2>2. CurrentAttempt(ViewOf(p)) = a
      <3>1. CASE agrees
        BY <1>2, <3>1, ReconciledOK
      <3>2. CASE record.status = "absent"
        <4>1. ~ (record.rev > 0)
          BY <1>2, <3>2 DEF SafetyInv, LedgerInv, RecordOK
        <4>2. \A b \in Attempts : ~ (ledger[u][b].rev > 0)
          BY <1>2, <4>1, LatestIsNewest
        <4>3. QED
          BY <1>2, <4>2, LatestIsCurrent
      <3>3. QED
        BY <1>7, <3>1, <3>2
    <2>3. StepOK(l)
      BY <2>1, <2>2 DEF StepOK, OpenSteps, SealedSteps
    <2>4. l \in Locals
      BY <1>3, StepType DEF Steps
    <2>5. QED
      BY <1>1, <1>3, <1>7, <2>3, <2>4, CopiesGoOn, QuietMove
  <1>8. QED
    BY <1>4, <1>5, <1>6, <1>7 DEF BeginInspect

\* The attempt that begin_main_unit is about to open follows a held one, or
\* is the first.
LEMMA BeginCheckSafe ==
    ASSUME SafetyInv, TypeOK', NEW p \in Procs, BeginCheck(p)
    PROVE  SafetyInv'
  <1> DEFINE u == UnitOf(p)
             n == NextAttempt(p)
             l == [proc[p] EXCEPT !.pc = "begin_open", !.attempt = n]
  <1>1. UNCHANGED <<commits, recordVars, ledger>>
    BY DEF BeginCheck, worktreeVars
  <1>2. CASE Return(p)
    BY <1>1, <1>2, ReturnSafe
  <1>3. CASE /\ Become(p, l) /\ n \in Attempts
             /\ IF ViewOf(p).status = "needs_work"
                THEN CandidateKept(u, ledger[u][proc[p].attempt]) ELSE TRUE
    <2>1. /\ CopiesOK(proc[p]) /\ StepOK(proc[p]) /\ proc[p] \in Locals /\ u \in Units
          /\ ViewOf(p) \in Entries /\ proc[p].attempt \in Attempts
      BY LocalsOK, LocalsAccess
    <2>2. l \in Locals /\ l.pc = "begin_open" /\ l.attempt = n /\ l.unit = u
      BY <1>3, <2>1 DEF Locals, Steps, UnitOf
    <2>3. CopiesOK(l)
      BY <2>1 DEF CopiesOK, Locals
    <2>4. proc[p].attempt = CurrentAttempt(ViewOf(p))
      BY <2>1 DEF StepOK, BeginCheck, At, ViewOf, UnitOf
    <2>5. ViewOf(p).attempt \in Nat /\ n = ViewOf(p).attempt + 1
      BY <2>1 DEF Entries, NextAttempt
    <2>6. EarlierHeld(u, n)
      <3>1. CASE ViewOf(p).attempt = 0
        BY <2>5, <3>1 DEF EarlierHeld, Attempts
      <3>2. CASE ViewOf(p).attempt # 0
        <4>1. proc[p].attempt = ViewOf(p).attempt
          BY <2>4, <3>2 DEF CurrentAttempt
        <4>2. CASE ViewOf(p).status = "needs_work"
          <5>1. ledger[u][proc[p].attempt].status = "held"
            BY <1>3, <4>2 DEF CandidateKept
          <5>2. ledger[u][proc[p].attempt].rev > 0
            <6>1. /\ ledger[u][proc[p].attempt] \in Records
                  /\ RecordOK(u, ledger[u][proc[p].attempt])
              BY <2>1 DEF SafetyInv, TypeOK, LedgerInv
            <6>2. ledger[u][proc[p].attempt].rev # 0
              BY <5>1, <6>1, NoRecordFields DEF RecordOK
            <6>3. ledger[u][proc[p].attempt].rev \in Nat
              BY <6>1 DEF Records
            <6>4. QED
              BY <6>2, <6>3
          <5>3. \A b \in Attempts : b < proc[p].attempt => ledger[u][b].status = "held"
            BY <2>1, <5>2 DEF SafetyInv, OneAttemptAtATime
          <5>4. \A b \in Attempts : b < n => b < proc[p].attempt \/ b = proc[p].attempt
            BY <2>1, <2>5, <4>1 DEF Attempts
          <5>5. QED
            BY <5>1, <5>3, <5>4 DEF EarlierHeld
        <4>3. CASE ViewOf(p).status = "ready"
          BY <2>1, <3>2, <4>3 DEF CopiesOK, EntryOK, ViewOf, UnitOf
        <4>4. ViewOf(p).status \in {"ready", "needs_work"}
          BY <2>1 DEF StepOK, BeginCheck, At, ViewOf, UnitOf
        <4>5. QED
          BY <4>2, <4>3, <4>4
      <3>3. QED
        BY <3>1, <3>2
    <2>7. StepOK(l)
      BY <2>2, <2>6 DEF StepOK, OpenSteps, SealedSteps
    <2>8. QED
      BY <1>1, <1>3, <2>2, <2>3, <2>7, QuietMove
  <1>4. QED
    BY <1>2, <1>3 DEF BeginCheck

\* Every step of begin-main-unit keeps the invariant.
LEMMA BeginSafe ==
    ASSUME SafetyInv, NEW p \in Procs, Begin(p)
    PROVE  SafetyInv'
  <1>0. /\ TypeOK' /\ proc[p] \in Locals /\ CopiesOK(proc[p]) /\ StepOK(proc[p])
        /\ UnitOf(p) \in Units /\ ViewOf(p) \in Entries /\ proc[p].attempt \in Attempts
    BY BeginType, LocalsOK, LocalsAccess DEF SafetyInv
  <1>1. CASE BeginLoad(p)
    <2>1. PICK u \in Units : Load(p, u, "begin_sync")
      BY <1>1 DEF BeginLoad
    <2>2. "begin_sync" \in Steps \ MarkedSteps
      BY DEF Steps, MarkedSteps, OpenSteps, SealedSteps
    <2>3. QED
      BY <1>0, <1>1, <2>1, <2>2, LoadSafe DEF BeginLoad, worktreeVars
  <1>2. CASE BeginSync(p)
    <2>1. "begin_inspect" \in Steps \ MarkedSteps
      BY DEF Steps, MarkedSteps, OpenSteps, SealedSteps
    <2>2. QED
      BY <1>0, <1>2, <2>1, SaveAndGoOnFreely DEF BeginSync
  <1>3. CASE BeginInspect(p)
    BY <1>0, <1>3, BeginInspectSafe
  <1>4. CASE BeginRepair(p)
    BY <1>0, <1>4, IdleType, IdleOK, SaveSafe DEF BeginRepair
  <1>5. CASE BeginRepairHeld(p)
    <2> DEFINE l == [proc[p] EXCEPT !.pc = "begin_branch"]
    <2>1. At(p, "begin_repair_held") /\ Save(p, "begin_repair_held", l)
      BY <1>5 DEF BeginRepairHeld, Save
    <2>2. /\ l.pc = "begin_branch" /\ l.attempt = proc[p].attempt
          /\ l.view = proc[p].view /\ l.unit = proc[p].unit
      BY <1>0 DEF Locals
    <2>3. l.attempt = CurrentAttempt(l.view[l.unit])
      BY <1>0, <2>1, <2>2 DEF StepOK, At
    <2>4. StepOK(l)
      BY <2>2, <2>3 DEF StepOK, OpenSteps, SealedSteps
    <2>5. "begin_branch" \in Steps
      BY DEF Steps
    <2>6. QED
      BY <1>0, <2>1, <2>4, <2>5, SaveAndGoOn
  <1>6. CASE BeginBranch(p)
    <2> DEFINE l == [proc[p] EXCEPT !.pc = "begin_check"]
    <2>1. UNCHANGED <<commits, recordVars, ledger>>
      BY <1>6 DEF BeginBranch, PrepareBranch, worktreeVars
    <2>2. CASE Return(p)
      BY <1>0, <2>1, <2>2, ReturnSafe
    <2>3. CASE Goto(p, "begin_check") /\ ViewOf(p).status \in {"ready", "needs_work"}
      <3>1. /\ l.pc = "begin_check" /\ l.attempt = proc[p].attempt
            /\ l.view = proc[p].view /\ l.unit = proc[p].unit
        BY <1>0 DEF Locals
      <3>2. l.attempt = CurrentAttempt(l.view[l.unit])
        BY <1>0, <1>6, <3>1 DEF StepOK, At, BeginBranch
      <3>3. l.view[l.unit].status \in {"ready", "needs_work"}
        BY <2>3, <3>1 DEF ViewOf, UnitOf
      <3>4. StepOK(l)
        BY <3>1, <3>2, <3>3 DEF StepOK, OpenSteps, SealedSteps
      <3>5. l \in Locals /\ CopiesOK(l)
        BY <1>0, StepType, CopiesGoOn DEF Steps
      <3>6. QED
        BY <1>0, <2>1, <2>3, <3>4, <3>5, QuietMove DEF Goto
    <2>4. QED
      BY <1>6, <2>2, <2>3 DEF BeginBranch
  <1>7. CASE BeginCheck(p)
    BY <1>0, <1>7, BeginCheckSafe
  <1>8. CASE BeginOpen(p)
    <2> DEFINE u == UnitOf(p)
               a == proc[p].attempt
               record == [NoRecord EXCEPT !.status = "open", !.head = HeadCommit,
                                          !.outside = Diff(OutOfScope(u))]
               entry == Entry("in_progress", a, 1)
    <2>1. UNCHANGED <<commits, recordVars>>
      BY <1>8 DEF BeginOpen, worktreeVars
    <2>2. CASE LedgerConflict(p, a, 0)
      BY <1>0, <2>1, <2>2, ReturnSafe DEF LedgerConflict
    <2>3. CASE /\ CompareAndSet(u, a, 0, record)
               /\ Become(p, WithEntry([proc[p] EXCEPT !.pc = "begin_save"], entry))
      <3>1. record \in Records
        <4>1. HeadCommit \in Nat /\ Diff(OutOfScope(u)) \in Diffs
          BY HeadType, DiffType DEF SafetyInv, OutOfScope
        <4>2. QED
          BY <4>1, NoRecordType DEF Records, Statuses
      <3>2. PICK r \in Records : r = record
        BY <3>1
      <3>3. r.status = "open" /\ r.paths = {} /\ r.commit = 0
        BY <3>2 DEF NoRecord
      <3>4. RecordOK(u, [r EXCEPT !.rev = 0 + 1])
        <4>1. /\ [r EXCEPT !.rev = 0 + 1].rev = 1 /\ [r EXCEPT !.rev = 0 + 1].status = "open"
              /\ [r EXCEPT !.rev = 0 + 1].paths = {} /\ [r EXCEPT !.rev = 0 + 1].commit = 0
          BY <3>3, RevisionFields
        <4>2. QED
          BY <4>1 DEF RecordOK
      <3>5. ledger[u][a].status = "absent"
        <4>1. ledger[u][a].rev = 0
          BY <2>3 DEF CompareAndSet
        <4>2. ledger[u][a] = NoRecord
          BY <1>0, <4>1 DEF SafetyInv, LedgerInv, RecordOK
        <4>3. QED
          BY <4>2, NoRecordFields
      <3>6. EarlierHeld(u, a)
        BY <1>0, <1>8 DEF StepOK, BeginOpen, At, UnitOf
      <3>7. <<ledger[u][a].status, r.status>> \in Transitions
        BY <3>3, <3>5 DEF Transitions
      <3>8. CompareAndSet(u, a, 0, r)
        BY <2>3, <3>2
      <3>9. Grown /\ LedgerInv' /\ OneAttemptAtATime' /\ CommitInv' /\ QueueInv' /\ LogInv'
        BY <1>0, <2>1, <3>4, <3>6, <3>7, <3>8, LedgerWrite
      <3>10. PICK e \in Entries : e = entry
        BY <1>0, EntryType DEF UnitStatuses
      <3>11. PICK v \in Units : v = u
        BY <1>0
      <3>12. EntryOK(v, e)'
        <4>1. e.status = "in_progress"
          BY <3>10 DEF Entry
        <4>2. QED
          BY <4>1, ActiveEntryOK
      <3>13. "begin_save" \in Steps \ (MarkedSteps \ {"finish_save"})
        BY DEF Steps, MarkedSteps, OpenSteps, SealedSteps
      <3>14. QED
        BY <1>0, <2>3, <3>9, <3>10, <3>11, <3>12, <3>13, WriteAndShow
    <2>4. QED
      BY <1>8, <2>2, <2>3 DEF BeginOpen
  <1>9. CASE BeginSave(p)
    <2>1. "begin_log_read" \in Steps \ MarkedSteps
      BY DEF Steps, MarkedSteps, OpenSteps, SealedSteps
    <2>2. QED
      BY <1>0, <1>9, <2>1, SaveAndGoOnFreely DEF BeginSave
  <1>10. CASE BeginLogRead(p)
    <2>1. "begin_log_write" \in Steps \ MarkedSteps
      BY DEF Steps, MarkedSteps, OpenSteps, SealedSteps
    <2>2. QED
      BY <1>0, <1>10, <2>1, ReadLogFreely DEF BeginLogRead
  <1>11. CASE BeginLogWrite(p)
    BY <1>0, <1>11, AppendLogSafe DEF BeginLogWrite, LinesOK
  <1>12. QED
    BY <1>1, <1>2, <1>3, <1>4, <1>5, <1>6, <1>7, <1>8, <1>9, <1>10, <1>11 DEF Begin

-----------------------------------------------------------------------------
(* complete-main-unit *)

\* A commit of paths in the scope of its author stays in scope, and so do the
\* earlier ones, because no commit is rewritten.
LEMMA CommitInScope ==
    ASSUME SafetyInv, NEW S \in SUBSET Paths, NEW m, NEW author,
           CommitPaths(S, m, author),
           author # Outsider => S \subseteq Allowed[author[1]]
    PROVE  CommitInv'
  <1> DEFINE tree == [x \in Paths |-> IF x \in S THEN work[x] ELSE Tree(HeadCommit)[x]]
             commit == [parent |-> HeadCommit, message |-> Cleanup[m], author |-> author,
                        tree |-> tree]
  <1>0. TypeOK /\ HistoryInv /\ CommitsInScope
    BY DEF SafetyInv, CommitInv
  <1>1. commits' = Append(commits, commit)
    BY DEF CommitPaths
  <1>2. commits \in Seq(Commits) /\ Len(commits) \in Nat
    BY <1>0 DEF TypeOK
  <1>3. Len(commits') = Len(commits) + 1
    BY <1>1, <1>2
  <1>4. \A c \in 1..Len(commits) : commits'[c] = commits[c]
    BY <1>1, <1>2
  <1>5. commits'[Len(commits) + 1] = commit
    BY <1>1, <1>2
  <1>6. HeadCommit \in 0..Len(commits)
    BY <1>0, HeadType
  <1>7. \A c \in 0..Len(commits) : Tree(c)' = Tree(c)
    BY <1>2, <1>4 DEF Tree
  <1>8. HistoryInv'
    BY <1>0, CommitKeeps
  <1>9. CommitsInScope'
    <2> SUFFICES ASSUME NEW c \in 1..Len(commits'), commits'[c].author # Outsider
                 PROVE  DOMAIN Changes(commits[c].parent, Tree(c), Paths)'
                           \subseteq Allowed[commits'[c].author[1]]
      BY DEF CommitsInScope
    <2>1. CASE c \in 1..Len(commits)
      <3>1. commits'[c] = commits[c] /\ Tree(c)' = Tree(c)
        BY <1>2, <1>4, <1>7, <2>1
      <3>2. commits[c].parent \in Nat /\ commits[c].parent < c
        <4>1. commits[c] \in Commits
          BY <1>2, <2>1
        <4>2. commits[c].parent \in Nat
          BY <4>1 DEF Commits
        <4>3. QED
          BY <1>0, <2>1, <4>2 DEF HistoryInv
      <3>3. commits[c].parent \in 0..Len(commits)
        BY <1>2, <2>1, <3>2
      <3>4. Tree(commits[c].parent)' = Tree(commits[c].parent)
        <4>1. PICK h \in 0..Len(commits) : h = commits[c].parent
          BY <3>3
        <4>2. Tree(h)' = Tree(h)
          BY <1>7
        <4>3. h = commits'[c].parent
          BY <3>1, <4>1
        <4>4. QED
          BY <4>1, <4>2, <4>3
      <3>5. Changes(commits[c].parent, Tree(c), Paths)' = Changes(commits[c].parent, Tree(c), Paths)
        BY <3>1, <3>4 DEF Changes
      <3>6. DOMAIN Changes(commits[c].parent, Tree(c), Paths) \subseteq Allowed[commits[c].author[1]]
        BY <1>0, <2>1, <3>1 DEF CommitsInScope
      <3>7. QED
        BY <3>1, <3>5, <3>6
    <2>2. CASE c = Len(commits) + 1
      <3>1. commits'[c] = commit
        BY <1>5, <2>2
      <3>2. commits'[c].parent = HeadCommit /\ commits'[c].author = author
        BY <3>1
      <3>3. Tree(c)' = tree
        BY <1>2, <2>2, <3>1 DEF Tree
      <3>4. Tree(commits[c].parent)' = Tree(HeadCommit)
        <4>1. PICK h \in 0..Len(commits) : h = HeadCommit
          BY <1>6
        <4>2. Tree(h)' = Tree(h)
          BY <1>7
        <4>3. h = commits'[c].parent
          BY <3>2, <4>1
        <4>4. QED
          BY <4>1, <4>2, <4>3
      <3>5. Changes(commits[c].parent, Tree(c), Paths)'
              = Restrict(tree, {x \in Paths : tree[x] # Tree(HeadCommit)[x]})
        BY <3>3, <3>4 DEF Changes
      <3>6. DOMAIN Changes(commits[c].parent, Tree(c), Paths)'
              = {x \in Paths : tree[x] # Tree(HeadCommit)[x]}
        BY <3>5 DEF Restrict
      <3>7. {x \in Paths : tree[x] # Tree(HeadCommit)[x]} \subseteq S
        OBVIOUS
      <3>8. QED
        BY <3>2, <3>6, <3>7
    <2>3. QED
      BY <1>2, <1>3, <2>1, <2>2
  <1>10. QED
    BY <1>8, <1>9 DEF CommitInv

\* A snapshot that was just loaded is the ledger.
LEMMA FreshSnapshot ==
    ASSUME SafetyInv, NEW u \in Units, NEW a \in Attempts,
           ledger[u][a].status # "absent"
    PROVE  Snapshot(u, a, ledger[u][a])
  <1>1. ledger[u][a].rev \in Nat /\ RecordOK(u, ledger[u][a])
    BY DEF SafetyInv, TypeOK, LedgerInv, Records
  <1>2. ledger[u][a].rev # 0
    BY <1>1, NoRecordFields DEF RecordOK
  <1>3. QED
    BY <1>1, <1>2 DEF Snapshot

\* Between the steps that rely on a sealed snapshot the locals stay good.
LEMMA SealedGoOn ==
    ASSUME SafetyInv, NEW p \in Procs, proc[p].pc \in SealedSteps,
           NEW l \in Locals, l.pc \in SealedSteps,
           l.unit = proc[p].unit, l.view = proc[p].view, l.lines = proc[p].lines,
           l.seen = proc[p].seen, l.attempt = proc[p].attempt
    PROVE  CopiesOK(l) /\ StepOK(l)
  <1>1. CopiesOK(proc[p]) /\ StepOK(proc[p])
    BY LocalsOK
  <1>2. CopiesOK(l)
    BY <1>1 DEF CopiesOK
  <1>3. proc[p].seen.status = "committing" /\ Snapshot(proc[p].unit, proc[p].attempt, proc[p].seen)
    BY <1>1 DEF StepOK
  <1>4. StepOK(l)
    BY <1>3 DEF StepOK, OpenSteps, SealedSteps
  <1>5. QED
    BY <1>2, <1>4

\* Going from one of them to another.
LEMMA SealedGoto ==
    ASSUME SafetyInv, TypeOK', UNCHANGED <<commits, recordVars, ledger>>, NEW p \in Procs,
           proc[p].pc \in SealedSteps, NEW s \in SealedSteps, Goto(p, s)
    PROVE  SafetyInv'
  <1> DEFINE l == [proc[p] EXCEPT !.pc = s]
  <1>1. proc[p] \in Locals /\ s \in Steps
    BY LocalsOK DEF SealedSteps, Steps
  <1>2. /\ l \in Locals /\ l.pc = s /\ l.unit = proc[p].unit /\ l.view = proc[p].view
        /\ l.lines = proc[p].lines /\ l.seen = proc[p].seen /\ l.attempt = proc[p].attempt
    BY <1>1, StepType DEF Locals
  <1>3. CopiesOK(l) /\ StepOK(l)
    BY <1>2, SealedGoOn
  <1>4. QED
    BY <1>2, <1>3, QuietMove DEF Goto

\* So does judging the commit at HEAD.
LEMMA JudgeSafe ==
    ASSUME SafetyInv, TypeOK', UNCHANGED <<commits, recordVars, ledger>>, NEW p \in Procs,
           proc[p].pc \in SealedSteps, Judge(p)
    PROVE  SafetyInv'
  <1> DEFINE l == [proc[p] EXCEPT !.pc = "finish_complete", !.commit = HeadCommit]
  <1>1. CASE Goto(p, "protocol_hold")
    <2>1. "protocol_hold" \in SealedSteps
      BY DEF SealedSteps
    <2>2. QED
      BY <1>1, <2>1, SealedGoto
  <1>2. CASE Become(p, l)
    <2>1. proc[p] \in Locals /\ HeadCommit \in Nat
      BY LocalsOK, HeadType
    <2>2. /\ l \in Locals /\ l.pc = "finish_complete" /\ l.unit = proc[p].unit
          /\ l.view = proc[p].view /\ l.lines = proc[p].lines /\ l.seen = proc[p].seen
          /\ l.attempt = proc[p].attempt
      BY <2>1 DEF Locals, Steps
    <2>3. CopiesOK(l) /\ StepOK(l)
      BY <2>2, SealedGoOn DEF SealedSteps
    <2>4. QED
      BY <1>2, <2>2, <2>3, QuietMove
  <1>3. QED
    BY <1>1, <1>2 DEF Judge

\* At a step that relies on its snapshot a matching revision makes the
\* snapshot the ledger.
LEMMA SnapshotIsLedger ==
    ASSUME SafetyInv, NEW p \in Procs, proc[p].pc \in OpenSteps \cup SealedSteps,
           ledger[UnitOf(p)][proc[p].attempt].rev = proc[p].seen.rev
    PROVE  ledger[UnitOf(p)][proc[p].attempt] = proc[p].seen
  BY LocalsOK DEF StepOK, Snapshot, UnitOf

\* complete_main_unit goes on with a snapshot that is the ledger.
LEMMA CompleteInspectSafe ==
    ASSUME SafetyInv, TypeOK', NEW p \in Procs, CompleteInspect(p)
    PROVE  SafetyInv'
  <1> DEFINE u == UnitOf(p)
             a == CurrentAttempt(ViewOf(p))
             record == ledger[u][a]
             local == [proc[p] EXCEPT !.attempt = a, !.seen = record]
             repaired == WithEntry(local, Reconciled(record, a))
  <1>1. UNCHANGED <<commits, recordVars, ledger>>
    BY DEF CompleteInspect, worktreeVars
  <1>2. TypeOK /\ u \in Units /\ ViewOf(p) \in Entries /\ a \in Attempts
    BY LocalsAccess, CurrentAttemptType DEF SafetyInv
  <1>3. /\ local \in Locals /\ CopiesOK(local)
        /\ local.unit = u /\ local.attempt = a /\ local.seen = record
        /\ repaired \in Locals /\ CopiesOK(repaired)
    BY <1>2, InspectedOK
  <1>4. CASE Return(p)
    BY <1>1, <1>4, ReturnSafe
  <1>5. CASE Become(p, [repaired EXCEPT !.pc = "complete_repair"])
    <2>1. [repaired EXCEPT !.pc = "complete_repair"].pc \notin MarkedSteps
      BY <1>3, StepPc DEF MarkedSteps, OpenSteps, SealedSteps
    <2>2. "complete_repair" \in Steps
      BY DEF Steps
    <2>3. QED
      BY <1>1, <1>3, <1>5, <2>1, <2>2, StepType, CopiesGoOn, UnmarkedOK, QuietMove
  <1>6. CASE /\ record.status = "committing"
             /\ Become(p, [local EXCEPT !.pc = "finish_check"])
    <2> DEFINE l == [local EXCEPT !.pc = "finish_check"]
    <2>1. l \in Locals /\ CopiesOK(l)
      BY <1>3, StepType, CopiesGoOn DEF Steps
    <2>2. l.pc = "finish_check" /\ l.unit = u /\ l.attempt = a /\ l.seen = record
      BY <1>3 DEF Locals
    <2>3. Snapshot(l.unit, l.attempt, l.seen)
      BY <1>2, <1>6, <2>2, FreshSnapshot
    <2>4. StepOK(l)
      BY <1>6, <2>2, <2>3 DEF StepOK, OpenSteps, SealedSteps
    <2>5. QED
      BY <1>1, <1>6, <2>1, <2>4, QuietMove
  <1>7. CASE /\ record.status = "open"
             /\ Become(p, [local EXCEPT !.pc = "complete_verify"])
    <2> DEFINE l == [local EXCEPT !.pc = "complete_verify"]
    <2>1. l \in Locals /\ CopiesOK(l)
      BY <1>3, StepType, CopiesGoOn DEF Steps
    <2>2. l.pc = "complete_verify" /\ l.unit = u /\ l.attempt = a /\ l.seen = record
      BY <1>3 DEF Locals
    <2>3. Snapshot(l.unit, l.attempt, l.seen)
      BY <1>2, <1>7, <2>2, FreshSnapshot
    <2>4. StepOK(l)
      BY <1>7, <2>2, <2>3 DEF StepOK, OpenSteps, SealedSteps
    <2>5. QED
      BY <1>1, <1>7, <2>1, <2>4, QuietMove
  <1>8. QED
    BY <1>4, <1>5, <1>6, <1>7 DEF CompleteInspect

\* The paths it is going to commit are in scope.
LEMMA CompleteVerifySafe ==
    ASSUME SafetyInv, TypeOK', NEW p \in Procs, CompleteVerify(p)
    PROVE  SafetyInv'
  <1> DEFINE u == UnitOf(p)
             paths == Dirty(Allowed[u])
             l == [proc[p] EXCEPT !.pc = "complete_seal", !.paths = paths]
  <1>1. UNCHANGED <<commits, recordVars, ledger>> /\ proc[p].pc = "complete_verify"
    BY DEF CompleteVerify, worktreeVars, At
  <1>2. /\ TypeOK /\ u \in Units /\ proc[p] \in Locals
        /\ CopiesOK(proc[p]) /\ StepOK(proc[p])
    BY LocalsOK, LocalsAccess
  <1>3. CASE Return(p)
    BY <1>1, <1>3, ReturnSafe
  <1>4. CASE paths # {} /\ Become(p, l)
    <2>1. paths \in SUBSET Paths /\ paths \subseteq Allowed[u]
      BY <1>2, AllowedAssumption, DiffType DEF Dirty
    <2>2. /\ l \in Locals /\ l.pc = "complete_seal" /\ l.unit = u /\ l.paths = paths
          /\ l.view = proc[p].view /\ l.lines = proc[p].lines /\ l.seen = proc[p].seen
          /\ l.attempt = proc[p].attempt
      BY <1>2, <2>1 DEF Locals, Steps, UnitOf
    <2>3. CopiesOK(l)
      BY <1>2, <2>2 DEF CopiesOK, UnitOf
    <2>4. proc[p].seen.status = "open" /\ Snapshot(u, proc[p].attempt, proc[p].seen)
      BY <1>1, <1>2 DEF StepOK, OpenSteps, UnitOf
    <2>5. StepOK(l)
      BY <1>4, <2>1, <2>2, <2>4 DEF StepOK, OpenSteps, SealedSteps
    <2>6. QED
      BY <1>1, <1>4, <2>2, <2>3, <2>5, QuietMove
  <1>5. QED
    BY <1>3, <1>4 DEF CompleteVerify

\* The candidate it seals is in scope, and its own copy is the new ledger.
LEMMA CompleteSealSafe ==
    ASSUME SafetyInv, TypeOK', NEW p \in Procs, CompleteSeal(p)
    PROVE  SafetyInv'
  <1> DEFINE u == UnitOf(p)
             a == proc[p].attempt
             seen == proc[p].seen
             paths == proc[p].paths
             sealed(m) == [seen EXCEPT !.status = "committing", !.kind = "patch",
                                       !.paths = paths,
                                       !.candidate = Changes(seen.head, work, paths),
                                       !.message = m]
  <1>1. UNCHANGED <<commits, recordVars>> /\ proc[p].pc = "complete_seal"
    BY DEF CompleteSeal, worktreeVars, At
  <1>2. /\ TypeOK /\ u \in Units /\ proc[p] \in Locals /\ a \in Attempts
        /\ seen \in Records /\ paths \in SUBSET Paths
        /\ CopiesOK(proc[p]) /\ StepOK(proc[p])
    BY LocalsOK, LocalsAccess
  <1>3. /\ seen.status = "open" /\ RecordOK(u, seen)
        /\ paths \subseteq Allowed[u] /\ paths # {}
    BY <1>1, <1>2 DEF StepOK, CopiesOK, OpenSteps, UnitOf
  <1>4. CASE LedgerConflict(p, a, seen.rev)
    BY <1>1, <1>4, ReturnSafe DEF LedgerConflict
  <1>5. ASSUME NEW m \in Messages, CompareAndSet(u, a, seen.rev, sealed(m)),
               Become(p, [proc[p] EXCEPT !.pc = "finish_check", !.paths = {},
                                         !.seen = [sealed(m) EXCEPT !.rev = seen.rev + 1]])
        PROVE  SafetyInv'
    <2>1. seen.rev \in Nat /\ seen.rev + 1 \in Nat /\ seen.rev + 1 > 0
      <3>1. seen.rev \in Nat
        BY <1>2 DEF Records
      <3>2. QED
        BY <3>1
    <2>2. sealed(m) \in Records
      <3>1. Changes(seen.head, work, paths) \in Diffs
        BY <1>2, ChangesType DEF TypeOK
      <3>2. QED
        BY <1>2, <3>1 DEF Records, Statuses
    <2>3. PICK r \in Records : r = sealed(m)
      BY <2>2
    <2>4. /\ r.status = "committing" /\ r.paths = paths /\ r.message = m
          /\ r.commit = seen.commit
      BY <1>2, <2>3 DEF Records
    <2>5. PICK n \in Records : n = [r EXCEPT !.rev = seen.rev + 1]
      BY <2>1, <2>3, RevisionType
    <2>6. /\ n.rev = seen.rev + 1 /\ n.status = "committing" /\ n.paths = paths
          /\ n.message = m /\ n.commit = 0
      <3>1. seen.commit = 0
        BY <1>3 DEF RecordOK
      <3>2. QED
        BY <2>4, <2>5, <3>1, RevisionFields
    <2>7. RecordOK(u, n)
      BY <1>3, <2>1, <2>6 DEF RecordOK
    <2>8. ledger[u][a] = seen
      BY <1>1, <1>5, SnapshotIsLedger DEF CompareAndSet, OpenSteps
    <2>9. <<ledger[u][a].status, r.status>> \in Transitions
      BY <1>3, <2>4, <2>8 DEF Transitions
    <2>10. CompareAndSet(u, a, seen.rev, r)
      BY <1>5, <2>3
    <2>11. PICK v \in Nat : v = seen.rev
      BY <2>1
    <2>12. /\ ledger'[u][a] = n
           /\ Grown /\ LedgerInv' /\ OneAttemptAtATime' /\ CommitInv' /\ QueueInv' /\ LogInv'
      <3>1. CompareAndSet(u, a, v, r) /\ n = [r EXCEPT !.rev = v + 1]
        BY <2>5, <2>10, <2>11
      <3>2. QED
        BY <1>1, <1>2, <1>3, <2>7, <2>8, <2>9, <3>1, LedgerWrite
    <2>13. PICK l : l = [proc[p] EXCEPT !.pc = "finish_check", !.paths = {}, !.seen = n]
      OBVIOUS
    <2>14. Become(p, l)
      BY <1>5, <2>3, <2>5, <2>13
    <2>15. /\ l \in Locals /\ l.pc = "finish_check" /\ l.unit = u /\ l.attempt = a
           /\ l.seen = n /\ l.view = proc[p].view /\ l.lines = proc[p].lines
      BY <1>2, <2>13 DEF Locals, Steps, UnitOf
    <2>16. PICK k \in Locals : k = proc[p]
      BY <1>2
    <2>17. CopiesOK(k)'
      BY <1>2, <2>12, <2>16, LocalsStay
    <2>18. l.unit = k.unit /\ l.view = k.view /\ l.lines = k.lines
      BY <2>15, <2>16 DEF UnitOf
    <2>19. CopiesOK(l)'
      <3>1. RecordOK(l.unit, l.seen)
        BY <2>7, <2>15
      <3>2. RecordOK(l.unit, l.seen)'
        BY <3>1 DEF RecordOK
      <3>3. QED
        BY <2>17, <2>18, <3>2 DEF CopiesOK
    <2>20. Snapshot(l.unit, l.attempt, l.seen)'
      <3>1. l.seen = ledger'[l.unit][l.attempt] /\ l.seen.rev = seen.rev + 1
        BY <2>6, <2>12, <2>15
      <3>2. QED
        BY <2>1, <3>1 DEF Snapshot
    <2>21. StepOK(l)'
      BY <2>6, <2>15, <2>20 DEF StepOK, OpenSteps, SealedSteps
    <2>22. QED
      BY <2>12, <2>14, <2>15, <2>19, <2>21, WriterMoves
  <1>6. QED
    BY <1>4, <1>5 DEF CompleteSeal

\* A unit shows as done from the step that completes its ledger.
LEMMA FinishCompleteSafe ==
    ASSUME SafetyInv, TypeOK', NEW p \in Procs, FinishComplete(p)
    PROVE  SafetyInv'
  <1> DEFINE u == UnitOf(p)
             a == proc[p].attempt
             seen == proc[p].seen
             completed == [seen EXCEPT !.status = "completed", !.commit = proc[p].commit]
             entry == Entry("done", a, seen.rev + 1)
  <1>1. UNCHANGED <<commits, recordVars>> /\ proc[p].pc = "finish_complete"
    BY DEF FinishComplete, worktreeVars, At
  <1>2. /\ TypeOK /\ u \in Units /\ proc[p] \in Locals /\ a \in Attempts
        /\ seen \in Records /\ proc[p].commit \in Nat
        /\ CopiesOK(proc[p]) /\ StepOK(proc[p])
    BY LocalsOK, LocalsAccess
  <1>3. seen.status = "committing" /\ RecordOK(u, seen)
    BY <1>1, <1>2 DEF StepOK, CopiesOK, SealedSteps, UnitOf
  <1>4. CASE LedgerConflict(p, a, seen.rev)
    BY <1>1, <1>4, ReturnSafe DEF LedgerConflict
  <1>5. CASE /\ CompareAndSet(u, a, seen.rev, completed)
             /\ Become(p, WithEntry([proc[p] EXCEPT !.pc = "finish_save"], entry))
    <2>1. seen.rev \in Nat
      BY <1>2 DEF Records
    <2>2. PICK v \in Nat : v = seen.rev
      BY <2>1
    <2>3. completed \in Records
      BY <1>2 DEF Records, Statuses
    <2>4. PICK r \in Records : r = completed
      BY <2>3
    <2>5. r.status = "completed" /\ r.paths = seen.paths /\ r.message = seen.message
      BY <1>2, <2>4 DEF Records
    <2>6. RecordOK(u, [r EXCEPT !.rev = v + 1])
      <3>1. v + 1 > 0
        OBVIOUS
      <3>2. QED
        BY <1>3, <2>5, <3>1, RevisionFields DEF RecordOK
    <2>7. CompareAndSet(u, a, v, r)
      BY <1>5, <2>2, <2>4
    <2>8. ledger[u][a] = seen
      BY <1>1, <1>5, SnapshotIsLedger DEF CompareAndSet, SealedSteps
    <2>9. <<ledger[u][a].status, r.status>> \in Transitions
      BY <1>3, <2>5, <2>8 DEF Transitions
    <2>10. /\ ledger'[u][a] = [r EXCEPT !.rev = v + 1]
           /\ Grown /\ LedgerInv' /\ OneAttemptAtATime' /\ CommitInv' /\ QueueInv' /\ LogInv'
      BY <1>1, <1>2, <1>3, <2>6, <2>7, <2>8, <2>9, LedgerWrite
    <2>11. PICK w \in Units : w = u
      BY <1>2
    <2>12. HasCompleted(w)'
      <3>1. [r EXCEPT !.rev = v + 1].status = "completed"
        BY <2>5, RevisionFields
      <3>2. ledger'[w][a].status = "completed"
        BY <2>10, <2>11, <3>1
      <3>3. QED
        BY <1>2, <3>2 DEF HasCompleted
    <2>13. PICK e \in Entries : e = entry
      BY <1>2, <2>1, EntryType DEF UnitStatuses
    <2>14. EntryOK(w, e)'
      BY <2>12, <2>13 DEF EntryOK, Entry
    <2>15. "finish_save" \in Steps \ (MarkedSteps \ {"finish_save"})
      BY DEF Steps
    <2>16. QED
      BY <1>5, <2>10, <2>11, <2>12, <2>13, <2>14, <2>15, WriteAndShow
  <1>6. QED
    BY <1>4, <1>5 DEF FinishComplete

\* A transaction is held from its own revision on only.
LEMMA HoldingSafe ==
    ASSUME SafetyInv, TypeOK', UNCHANGED <<commits, recordVars>>, NEW p \in Procs,
           proc[p].pc \in OpenSteps \cup SealedSteps, NEW r \in Records,
           r.status = "held", r.paths \subseteq Allowed[UnitOf(p)],
           r.commit = proc[p].seen.commit,
           CompareAndSet(UnitOf(p), proc[p].attempt, proc[p].seen.rev, r),
           NEW s \in Steps \ MarkedSteps,
           Become(p, WithEntry([proc[p] EXCEPT !.pc = s], HeldEntry(p, proc[p].seen.rev + 1)))
    PROVE  SafetyInv'
  <1> DEFINE u == UnitOf(p)
             a == proc[p].attempt
             seen == proc[p].seen
             entry == HeldEntry(p, seen.rev + 1)
  <1>1. /\ TypeOK /\ u \in Units /\ proc[p] \in Locals /\ a \in Attempts
        /\ seen \in Records /\ CopiesOK(proc[p]) /\ StepOK(proc[p])
    BY LocalsOK, LocalsAccess
  <1>2. seen.status \in {"open", "committing"} /\ RecordOK(u, seen)
    BY <1>1 DEF StepOK, CopiesOK, UnitOf
  <1>3. seen.rev \in Nat
    BY <1>1 DEF Records
  <1>4. PICK v \in Nat : v = seen.rev
    BY <1>3
  <1>5. r.commit = 0
    BY <1>2 DEF RecordOK
  <1>6. RecordOK(u, [r EXCEPT !.rev = v + 1])
    <2>1. v + 1 > 0
      OBVIOUS
    <2>2. QED
      BY <1>5, <2>1, RevisionFields DEF RecordOK
  <1>7. CompareAndSet(u, a, v, r)
    BY <1>4
  <1>8. ledger[u][a] = seen
    BY SnapshotIsLedger DEF CompareAndSet
  <1>9. <<ledger[u][a].status, r.status>> \in Transitions
    BY <1>2, <1>8 DEF Transitions
  <1>10. Grown /\ LedgerInv' /\ OneAttemptAtATime' /\ CommitInv' /\ QueueInv' /\ LogInv'
    BY <1>1, <1>2, <1>6, <1>7, <1>8, <1>9, LedgerWrite
  <1>11. PICK w \in Units : w = u
    BY <1>1
  <1>12. PICK e \in Entries : e = entry
    <2>1. seen.rev + 1 \in Nat
      BY <1>3
    <2>2. QED
      BY <1>1, <2>1, HeldEntryType
  <1>13. e.status = "needs_work"
    BY <1>1, <1>12, LocalsAccess DEF HeldEntry, Entries
  <1>14. EntryOK(w, e)'
    BY <1>13, ActiveEntryOK
  <1>15. s \in Steps \ (MarkedSteps \ {"finish_save"}) /\ s # "finish_save"
    BY DEF MarkedSteps
  <1>16. QED
    BY <1>10, <1>11, <1>12, <1>14, <1>15, WriteAndShow

\* Every step of complete-main-unit keeps the invariant.
LEMMA CompleteSafe ==
    ASSUME SafetyInv, NEW p \in Procs, Complete(p)
    PROVE  SafetyInv'
  <1>0. /\ TypeOK /\ TypeOK' /\ proc[p] \in Locals /\ CopiesOK(proc[p]) /\ StepOK(proc[p])
        /\ UnitOf(p) \in Units /\ proc[p].attempt \in Attempts /\ proc[p].seen \in Records
    BY CompleteType, LocalsOK, LocalsAccess
  <1>1. CASE CompleteLoad(p)
    <2>1. PICK u \in Units : Load(p, u, "complete_sync")
      BY <1>1 DEF CompleteLoad
    <2>2. "complete_sync" \in Steps \ MarkedSteps
      BY DEF Steps, MarkedSteps, OpenSteps, SealedSteps
    <2>3. QED
      BY <1>0, <1>1, <2>1, <2>2, LoadSafe DEF CompleteLoad, worktreeVars
  <1>2. CASE CompleteSync(p)
    <2>1. "complete_inspect" \in Steps \ MarkedSteps
      BY DEF Steps, MarkedSteps, OpenSteps, SealedSteps
    <2>2. QED
      BY <1>0, <1>2, <2>1, SaveAndGoOnFreely DEF CompleteSync
  <1>3. CASE CompleteInspect(p)
    BY <1>0, <1>3, CompleteInspectSafe
  <1>4. CASE CompleteRepair(p)
    BY <1>0, <1>4, IdleType, IdleOK, SaveSafe DEF CompleteRepair
  <1>5. CASE CompleteVerify(p)
    BY <1>0, <1>5, CompleteVerifySafe
  <1>6. CASE CompleteSeal(p)
    BY <1>0, <1>6, CompleteSealSafe
  <1>7. CASE FinishCheck(p)
    <2>1. UNCHANGED <<commits, recordVars, ledger>> /\ proc[p].pc \in SealedSteps
      BY <1>7 DEF FinishCheck, worktreeVars, At, SealedSteps
    <2>2. CASE Judge(p)
      BY <1>0, <2>1, <2>2, JudgeSafe
    <2>3. CASE Goto(p, "protocol_hold") \/ Goto(p, "finish_stage")
      <3>1. "protocol_hold" \in SealedSteps /\ "finish_stage" \in SealedSteps
        BY DEF SealedSteps
      <3>2. QED
        BY <1>0, <2>1, <2>3, <3>1, SealedGoto
    <2>4. QED
      BY <1>7, <2>2, <2>3 DEF FinishCheck
  <1>8. CASE FinishStage(p)
    <2>1. UNCHANGED <<commits, recordVars, ledger>> /\ proc[p].pc \in SealedSteps
      BY <1>8 DEF FinishStage, worktreeVars, At, SealedSteps
    <2>2. CASE Return(p)
      BY <1>0, <2>1, <2>2, ReturnSafe
    <2>3. CASE Goto(p, "finish_commit") \/ Goto(p, "protocol_hold")
      <3>1. "protocol_hold" \in SealedSteps /\ "finish_commit" \in SealedSteps
        BY DEF SealedSteps
      <3>2. QED
        BY <1>0, <2>1, <2>3, <3>1, SealedGoto
    <2>4. QED
      BY <1>8, <2>2, <2>3 DEF FinishStage, GitAddFails
  <1>9. CASE FinishCommit(p)
    <2> DEFINE l == [proc[p] EXCEPT !.pc = "finish_observe"]
               author == <<UnitOf(p), proc[p].attempt>>
    <2>1. UNCHANGED <<recordVars, ledger>> /\ proc[p].pc = "finish_commit"
      BY <1>9 DEF FinishCommit, At
    <2>2. CASE Return(p) /\ UNCHANGED worktreeVars
      BY <1>0, <2>1, <2>2, ReturnSafe DEF worktreeVars
    <2>3. CASE /\ CommitPaths(proc[p].seen.paths, proc[p].seen.message, author)
               /\ Goto(p, "finish_observe")
      <3>1. /\ proc[p].seen.paths \in SUBSET Paths
            /\ proc[p].seen.paths \subseteq Allowed[author[1]]
        BY <1>0 DEF Records, CopiesOK, RecordOK, UnitOf
      <3>2. CommitInv'
        BY <2>3, <3>1, CommitInScope
      <3>3. /\ l \in Locals /\ l.pc = "finish_observe" /\ l.unit = proc[p].unit
            /\ l.view = proc[p].view /\ l.lines = proc[p].lines /\ l.seen = proc[p].seen
            /\ l.attempt = proc[p].attempt
        BY <1>0 DEF Locals, Steps
      <3>4. CopiesOK(l) /\ StepOK(l)
        BY <2>1, <3>3, SealedGoOn DEF SealedSteps
      <3>5. QED
        BY <1>0, <2>1, <2>3, <3>2, <3>3, <3>4, CommittingMove DEF Goto
    <2>4. QED
      BY <1>9, <2>2, <2>3 DEF FinishCommit
  <1>10. CASE FinishObserve(p)
    <2>1. UNCHANGED <<commits, recordVars, ledger>> /\ proc[p].pc \in SealedSteps
      BY <1>10 DEF FinishObserve, worktreeVars, At, SealedSteps
    <2>2. QED
      BY <1>0, <1>10, <2>1, JudgeSafe DEF FinishObserve
  <1>11. CASE FinishComplete(p)
    BY <1>0, <1>11, FinishCompleteSafe
  <1>12. CASE FinishSave(p)
    <2> DEFINE l == [proc[p] EXCEPT !.pc = "finish_log_read"]
    <2>1. HasCompleted(proc[p].unit)
      BY <1>0, <1>12 DEF StepOK, FinishSave, Save, At
    <2>2. l.pc = "finish_log_read" /\ l.unit = proc[p].unit
      BY <1>0 DEF Locals
    <2>3. StepOK(l)
      BY <2>1, <2>2 DEF StepOK, OpenSteps, SealedSteps
    <2>4. "finish_log_read" \in Steps
      BY DEF Steps
    <2>5. QED
      BY <1>0, <1>12, <2>3, <2>4, SaveAndGoOn DEF FinishSave
  <1>13. CASE FinishLogRead(p)
    <2> DEFINE l == [proc[p] EXCEPT !.pc = "finish_log_write", !.lines = log[PlanFor(p)]]
    <2>1. HasCompleted(proc[p].unit)
      BY <1>0, <1>13 DEF StepOK, FinishLogRead, ReadLog, At
    <2>2. l.pc = "finish_log_write" /\ l.unit = proc[p].unit
      BY <1>0 DEF Locals
    <2>3. StepOK(l)
      BY <2>1, <2>2 DEF StepOK, OpenSteps, SealedSteps
    <2>4. "finish_log_write" \in Steps
      BY DEF Steps
    <2>5. QED
      BY <1>0, <1>13, <2>3, <2>4, ReadLogSafe DEF FinishLogRead
  <1>14. CASE FinishLogWrite(p)
    <2>1. HasCompleted(UnitOf(p))
      BY <1>0, <1>14 DEF StepOK, FinishLogWrite, AppendLog, At, UnitOf
    <2>2. LinesOK({<<UnitOf(p), "Completed">>})
      BY <2>1 DEF LinesOK
    <2>3. QED
      BY <1>0, <1>14, <2>2, AppendLogSafe DEF FinishLogWrite
  <1>15. CASE ProtocolHold(p)
    <2> DEFINE seen == proc[p].seen
               held == [seen EXCEPT !.status = "held", !.class = Protocol]
    <2>1. UNCHANGED <<commits, recordVars>> /\ proc[p].pc \in SealedSteps
      BY <1>15 DEF ProtocolHold, worktreeVars, At, SealedSteps
    <2>2. CASE LedgerConflict(p, proc[p].attempt, seen.rev)
      BY <1>0, <2>1, <2>2, ReturnSafe DEF LedgerConflict
    <2>3. CASE /\ CompareAndSet(UnitOf(p), proc[p].attempt, seen.rev, held)
               /\ Become(p, WithEntry([proc[p] EXCEPT !.pc = "protocol_save"],
                                      HeldEntry(p, seen.rev + 1)))
      <3>1. held \in Records
        BY <1>0 DEF Records, Statuses
      <3>2. held.status = "held" /\ held.paths = seen.paths /\ held.commit = seen.commit
        BY <1>0 DEF Records
      <3>3. seen.paths \subseteq Allowed[UnitOf(p)]
        BY <1>0 DEF CopiesOK, RecordOK, UnitOf
      <3>4. "protocol_save" \in Steps \ MarkedSteps
        BY DEF Steps, MarkedSteps, OpenSteps, SealedSteps
      <3>5. QED
        BY <1>0, <2>1, <2>3, <3>1, <3>2, <3>3, <3>4, HoldingSafe
    <2>4. QED
      BY <1>15, <2>2, <2>3 DEF ProtocolHold
  <1>16. CASE ProtocolSave(p)
    BY <1>0, <1>16, IdleType, IdleOK, SaveSafe DEF ProtocolSave
  <1>17. QED
    BY <1>1, <1>2, <1>3, <1>4, <1>5, <1>6, <1>7, <1>8, <1>9, <1>10, <1>11, <1>12,
       <1>13, <1>14, <1>15, <1>16 DEF Complete

-----------------------------------------------------------------------------
(* hold-main-unit, crashes and others *)

\* Every step of hold-main-unit keeps the invariant.
LEMMA HoldSafe ==
    ASSUME SafetyInv, NEW p \in Procs, Hold(p)
    PROVE  SafetyInv'
  <1>0. /\ TypeOK /\ TypeOK' /\ proc[p] \in Locals /\ CopiesOK(proc[p]) /\ StepOK(proc[p])
        /\ UnitOf(p) \in Units /\ proc[p].attempt \in Attempts /\ proc[p].seen \in Records
        /\ ViewOf(p) \in Entries
    BY HoldType, LocalsOK, LocalsAccess
  <1>1. CASE HoldLoad(p)
    <2>1. PICK u \in Units : Load(p, u, "hold_sync")
      BY <1>1 DEF HoldLoad
    <2>2. "hold_sync" \in Steps \ MarkedSteps
      BY DEF Steps, MarkedSteps, OpenSteps, SealedSteps
    <2>3. QED
      BY <1>0, <1>1, <2>1, <2>2, LoadSafe DEF HoldLoad, worktreeVars
  <1>2. CASE HoldSync(p)
    <2>1. "hold_inspect" \in Steps \ MarkedSteps
      BY DEF Steps, MarkedSteps, OpenSteps, SealedSteps
    <2>2. QED
      BY <1>0, <1>2, <2>1, SaveAndGoOnFreely DEF HoldSync
  <1>3. CASE HoldInspect(p)
    <2> DEFINE u == UnitOf(p)
               a == CurrentAttempt(ViewOf(p))
               record == ledger[u][a]
               l == [proc[p] EXCEPT !.pc = "hold_record", !.attempt = a, !.seen = record]
    <2>1. UNCHANGED <<commits, recordVars, ledger>>
      BY <1>3 DEF HoldInspect, worktreeVars
    <2>2. CASE Return(p)
      BY <1>0, <2>1, <2>2, ReturnSafe
    <2>3. CASE record.status = "open" /\ Become(p, l)
      <3>1. a \in Attempts
        BY <1>0, CurrentAttemptType
      <3>2. record \in Records /\ RecordOK(u, record)
        BY <1>0, <3>1 DEF SafetyInv, TypeOK, LedgerInv
      <3>3. /\ l \in Locals /\ l.pc = "hold_record" /\ l.unit = u /\ l.attempt = a
            /\ l.seen = record /\ l.view = proc[p].view /\ l.lines = proc[p].lines
        BY <1>0, <3>1, <3>2 DEF Locals, Steps, UnitOf
      <3>4. CopiesOK(l)
        BY <1>0, <3>2, <3>3 DEF CopiesOK
      <3>5. Snapshot(l.unit, l.attempt, l.seen)
        BY <1>0, <2>3, <3>1, <3>3, FreshSnapshot
      <3>6. StepOK(l)
        BY <2>3, <3>3, <3>5 DEF StepOK, OpenSteps, SealedSteps
      <3>7. QED
        BY <1>0, <2>1, <2>3, <3>3, <3>4, <3>6, QuietMove
    <2>4. QED
      BY <1>3, <2>2, <2>3 DEF HoldInspect
  <1>4. CASE HoldRecord(p)
    <2> DEFINE seen == proc[p].seen
               inScope == Allowed[UnitOf(p)]
               held(class) == [seen EXCEPT !.status = "held", !.class = class,
                                           !.kind = "scoped", !.paths = Dirty(inScope),
                                           !.candidate = Diff(inScope)]
    <2>1. UNCHANGED <<commits, recordVars>> /\ proc[p].pc \in OpenSteps
      BY <1>4 DEF HoldRecord, worktreeVars, At, OpenSteps
    <2>2. CASE LedgerConflict(p, proc[p].attempt, seen.rev)
      BY <1>0, <2>1, <2>2, ReturnSafe DEF LedgerConflict
    <2>3. ASSUME NEW class \in FailureClasses,
                 CompareAndSet(UnitOf(p), proc[p].attempt, seen.rev, held(class)),
                 Become(p, WithEntry([proc[p] EXCEPT !.pc = "hold_save"],
                                     HeldEntry(p, seen.rev + 1)))
          PROVE  SafetyInv'
      <3>1. Dirty(inScope) \in SUBSET Paths /\ Diff(inScope) \in Diffs
        BY <1>0, AllowedAssumption, DiffType
      <3>2. held(class) \in Records
        BY <1>0, <3>1 DEF Records, Statuses
      <3>3. /\ held(class).status = "held" /\ held(class).paths = Dirty(inScope)
            /\ held(class).commit = seen.commit
        BY <1>0 DEF Records
      <3>4. Dirty(inScope) \subseteq inScope
        BY DEF Dirty
      <3>5. "hold_save" \in Steps \ MarkedSteps
        BY DEF Steps, MarkedSteps, OpenSteps, SealedSteps
      <3>6. QED
        BY <1>0, <2>1, <2>3, <3>2, <3>3, <3>4, <3>5, HoldingSafe
    <2>4. QED
      BY <1>4, <2>2, <2>3 DEF HoldRecord
  <1>5. CASE HoldSave(p)
    <2>1. "hold_log_read" \in Steps \ MarkedSteps
      BY DEF Steps, MarkedSteps, OpenSteps, SealedSteps
    <2>2. QED
      BY <1>0, <1>5, <2>1, SaveAndGoOnFreely DEF HoldSave
  <1>6. CASE HoldLogRead(p)
    <2>1. "hold_log_write" \in Steps \ MarkedSteps
      BY DEF Steps, MarkedSteps, OpenSteps, SealedSteps
    <2>2. QED
      BY <1>0, <1>6, <2>1, ReadLogFreely DEF HoldLogRead
  <1>7. CASE HoldLogWrite(p)
    <2>1. LinesOK({<<UnitOf(p), "needs_work">>})
      BY DEF LinesOK
    <2>2. QED
      BY <1>0, <1>7, <2>1, AppendLogSafe DEF HoldLogWrite
  <1>8. QED
    BY <1>1, <1>2, <1>3, <1>4, <1>5, <1>6, <1>7 DEF Hold

\* A process that dies relies on nothing any more.
LEMMA CrashSafe ==
    ASSUME SafetyInv, NEW p \in Procs, Crash(p)
    PROVE  SafetyInv'
  BY CrashType, ReturnSafe DEF SafetyInv, Crash, worktreeVars

\* Edits and commits of others, and steps that change nothing.
LEMMA OthersSafe ==
    ASSUME SafetyInv, TypeOK', CommitInv', UNCHANGED <<recordVars, ledger, proc>>
    PROVE  SafetyInv'
  <1>1. Grown
    BY UnwrittenGrows
  <1>2. ProcInv'
    <2> SUFFICES ASSUME NEW q \in Procs
                 PROVE  CopiesOK(proc[q])' /\ StepOK(proc[q])'
      BY DEF ProcInv
    <2>1. PICK l \in Locals : l = proc[q]
      BY LocalsOK
    <2>2. CopiesOK(l)' /\ StepOK(l)'
      BY <1>1, <2>1, LocalsOK, LocalsStay DEF SafetyInv
    <2>3. l = proc'[q]
      BY <2>1
    <2>4. QED
      BY <2>2, <2>3
  <1>3. LedgerInv'
    BY DEF SafetyInv, LedgerInv, RecordOK
  <1>4. OneAttemptAtATime'
    BY DEF SafetyInv, OneAttemptAtATime
  <1>5. QED
    BY <1>1, <1>2, <1>3, <1>4, SameRecords DEF SafetyInv

\* The environment keeps the invariant.
LEMMA EnvironmentSafe ==
    ASSUME SafetyInv, Environment
    PROVE  SafetyInv'
  <1>1. TypeOK' /\ UNCHANGED <<recordVars, ledger, proc>>
    BY EnvironmentType DEF SafetyInv, Environment
  <1>2. CASE \E x \in Paths : Edit(x)
    <2>1. UNCHANGED commits
      BY <1>2 DEF Edit
    <2>2. CommitInv'
      BY <1>1, <2>1, SameFiles
    <2>3. QED
      BY <1>1, <2>2, OthersSafe
  <1>3. CASE OutsideCommit
    <2>1. PICK S \in SUBSET Dirty(Paths), m \in Messages : CommitPaths(S, m, Outsider)
      BY <1>3 DEF OutsideCommit
    <2>2. S \in SUBSET Paths
      BY DEF Dirty
    <2>3. CommitInv'
      BY <2>1, <2>2, CommitInScope
    <2>4. QED
      BY <1>1, <2>3, OthersSafe
  <1>4. QED
    BY <1>2, <1>3 DEF Environment

-----------------------------------------------------------------------------
(* The theorems *)

\* The invariant holds before any command was run.
LEMMA SafetyInit == Init => SafetyInv
  <1> SUFFICES ASSUME Init
               PROVE  SafetyInv
    OBVIOUS
  <1>1. TypeOK
    BY InitType
  <1>2. \A u \in Units, a \in Attempts : ledger[u][a] = NoRecord
    BY DEF Init
  <1>3. LedgerInv
    <2>1. \A u \in Units : RecordOK(u, NoRecord)
      BY DEF RecordOK, NoRecord
    <2>2. QED
      BY <1>2, <2>1 DEF LedgerInv
  <1>4. QueueInv
    BY DEF Init, RecordsInit, QueueInv, EntryOK, Fresh, Entry
  <1>5. LogInv
    BY DEF Init, RecordsInit, LogInv, LinesOK
  <1>6. ProcInv
    BY IdleOK DEF Init, ProcInv
  <1>7. OneAttemptAtATime
    BY <1>2, NoRecordFields DEF OneAttemptAtATime
  <1>8. commits = << >>
    BY DEF Init, WorktreeInit
  <1>9. CommitInv
    BY <1>8 DEF CommitInv, HistoryInv, CommitsInScope
  <1>10. QED
    BY <1>1, <1>3, <1>4, <1>5, <1>6, <1>7, <1>9 DEF SafetyInv

\* Every step keeps it.
LEMMA SafetyNext == SafetyInv /\ [Next]_vars => SafetyInv'
  <1> SUFFICES ASSUME SafetyInv, [Next]_vars
               PROVE  SafetyInv'
    OBVIOUS
  <1>1. CASE \E p \in Procs : Begin(p) \/ Complete(p) \/ Hold(p) \/ Crash(p)
    BY <1>1, BeginSafe, CompleteSafe, HoldSafe, CrashSafe
  <1>2. CASE Environment
    BY <1>2, EnvironmentSafe
  <1>3. CASE UNCHANGED vars
    <2>1. TypeOK'
      BY <1>3 DEF vars, SafetyInv, TypeOK
    <2>2. UNCHANGED <<recordVars, ledger, proc, commits>>
      BY <1>3 DEF vars, recordVars
    <2>3. QED
      BY <2>1, <2>2, SameFiles, OthersSafe
  <1>4. QED
    BY <1>1, <1>2, <1>3 DEF Next

\* However many processes begin a unit, from however old a copy of the queue
\* they number the attempt: when an attempt has a ledger, every earlier one
\* was held.
THEOREM AttemptsComeOneAtATime == Spec => []OneAttemptAtATime
  <1>1. SafetyInv => OneAttemptAtATime
    BY DEF SafetyInv
  <1>2. QED
    BY <1>1, SafetyInit, SafetyNext, PTL DEF Spec

\* The queue and the log are rewritten whole from copies of any age, and yet
\* neither ever shows a unit as done that has no completed transaction.
THEOREM CompletionNeverPremature == Spec => []NoPrematureCompletion
  <1>1. SafetyInv => NoPrematureCompletion
    <2> SUFFICES ASSUME SafetyInv, NEW u \in Units,
                        queue[u].status = "done" \/ <<u, "Completed">> \in log[PlanOf[u]]
                 PROVE  HasCompleted(u)
      BY DEF NoPrematureCompletion, HasCompleted
    <2>1. PlanOf[u] \in Plans
      BY PlanOfAssumption
    <2>2. QED
      BY <2>1 DEF SafetyInv, QueueInv, EntryOK, LogInv, LinesOK
  <1>2. QED
    BY <1>1, SafetyInit, SafetyNext, PTL DEF Spec

\* Every commit that complete_main_unit makes touches paths its unit is allowed
\* to touch only, on whatever HEAD it ends up.
THEOREM CommitsStayInScope == Spec => []CommitsInScope
  <1>1. SafetyInv => CommitsInScope
    BY DEF SafetyInv, CommitInv
  <1>2. QED
    BY <1>1, SafetyInit, SafetyNext, PTL DEF Spec

\* The paths a commit changes are those sealed in every ledger it matches, which
\* are some, and in the unit's scope.
LEMMA SharedCommit == SafetyInv /\ CandidateInv => SharedInScope
  <1> SUFFICES ASSUME SafetyInv, CandidateInv, NEW u \in Units, NEW v \in Units,
                      NEW a \in Attempts, NEW b \in Attempts,
                      ledger[u][a].status = "completed", ledger[v][b].status = "completed",
                      ledger[u][a].commit = ledger[v][b].commit
               PROVE  LET c == ledger[u][a].commit
                          changed == DOMAIN Changes(commits[c].parent, Tree(c), Paths)
                      IN  changed # {} /\ changed \subseteq Allowed[u] \cap Allowed[v]
    BY DEF SharedInScope
  <1> DEFINE c == ledger[u][a].commit
             changed == DOMAIN Changes(commits[c].parent, Tree(c), Paths)
  <1>1. Matches(c, ledger[u][a]) /\ Matches(c, ledger[v][b])
    BY DEF CandidateInv, CompletedIsCandidate
  <1>2. changed = ledger[u][a].paths /\ changed = ledger[v][b].paths
    BY <1>1 DEF Matches
  <1>3. RecordOK(u, ledger[u][a]) /\ RecordOK(v, ledger[v][b])
    BY DEF SafetyInv, LedgerInv
  <1>4. changed # {} /\ changed \subseteq Allowed[u] /\ changed \subseteq Allowed[v]
    BY <1>2, <1>3 DEF RecordOK
  <1>5. QED
    BY <1>4

\* Whatever units there are and however their allowed paths overlap: a commit
\* that two of them completed with stays within what each is allowed to touch.
THEOREM SharedCommitsOverlap == Spec => []SharedInScope
  <1>1. QED
    BY SafetyInit, SafetyNext, CandidateInit, CandidateNext, SharedCommit, PTL DEF Spec

-----------------------------------------------------------------------------
(* Commands run one at a time *)

\* One command at a time, however often it is interrupted.
OneAtATime == \A p, q \in Procs : p = q

\* One plan in the checkout.  Another one would have a branch of its own, and
\* an attempt is looked for in the commits of the branch it was made on.
OnePlan == \A pl, q \in Plans : pl = q

\* The steps at which a snapshot is relied on.
Relied == OpenSteps \cup SealedSteps

\* The commit c was made for the attempt a of u.
MadeFor(c, u, a) == commits[c].author = <<u, a>>

\* Every commit is made on the one before, and HEAD is the last one: the branch
\* of the plan is created where HEAD is and never left.
LineInv ==
    /\ HeadCommit = Len(commits)
    /\ \A c \in 1..Len(commits) : commits[c].parent = c - 1
    /\ branch = Trunk => \A pl \in Plans : tips[pl] = NoTip

\* An attempt has sealed its candidate before it commits, on top of its base.
AuthorInv ==
    \A u \in Units, a \in Attempts :
        /\ ledger[u][a].head <= Len(commits)
        /\ \A c \in 1..Len(commits) : MadeFor(c, u, a) =>
              /\ ledger[u][a].status \in {"committing", "completed", "held"}
              /\ ledger[u][a].head < c

\* What an attempt that is held had landed is not at HEAD any more.
BuriedInv ==
    \A u \in Units, a \in Attempts : \A c \in 1..Len(commits) :
        ledger[u][a].status = "held" /\ MadeFor(c, u, a) /\ Matches(c, ledger[u][a])
            => c < Len(commits)

\* A snapshot that is relied on is the ledger; a command that stages has found
\* no commit of its attempt, and one that gives up none that matches at HEAD.
ReliedOK(l) ==
    /\ l.pc \in Relied => l.seen = ledger[l.unit][l.attempt]
    /\ l.pc \in {"finish_stage", "finish_commit"} =>
          \A c \in 1..Len(commits) : ~MadeFor(c, l.unit, l.attempt)
    /\ l.pc = "protocol_hold" =>
          \A c \in 1..Len(commits) :
              MadeFor(c, l.unit, l.attempt) /\ Matches(c, l.seen) => c < Len(commits)

FilesSolo == LineInv /\ AuthorInv /\ BuriedInv /\ AtMostOneCommit
SoloInv == FilesSolo /\ \A p \in Procs : ReliedOK(proc[p])

-----------------------------------------------------------------------------

\* Commits of nobody's attempt are of no attempt.
LEMMA OutsiderIsNobody == \A u \in Units, a \in Attempts : <<u, a>> # Outsider
BY DEF Outsider

\* What is said of commits and ledgers stays true of the same ones.
LEMMA SameSolo ==
    ASSUME FilesSolo, UNCHANGED <<branch, tips, commits, ledger>>
    PROVE  FilesSolo' /\ \A l : ReliedOK(l) => ReliedOK(l)'
<1>1. \A c, r : Matches(c, r)' <=> Matches(c, r)
  BY DEF Matches, Changes, Tree
<1>2. \A c, u, a : MadeFor(c, u, a)' <=> MadeFor(c, u, a)
  BY DEF MadeFor
<1>3. LineInv'
  BY DEF FilesSolo, LineInv, HeadCommit
<1>4. AuthorInv'
  BY <1>2 DEF FilesSolo, AuthorInv
<1>5. BuriedInv'
  BY <1>1, <1>2 DEF FilesSolo, BuriedInv
<1>6. AtMostOneCommit'
  BY DEF FilesSolo, AtMostOneCommit
<1>7. ASSUME NEW l, ReliedOK(l)
      PROVE  ReliedOK(l)'
  BY <1>1, <1>2, <1>7 DEF ReliedOK
<1> QED BY <1>3, <1>4, <1>5, <1>6, <1>7 DEF FilesSolo

\* The only process takes locals that may be relied on.
LEMMA SoloMoves ==
    ASSUME OneAtATime, TypeOK, FilesSolo', NEW p \in Procs, NEW l, Become(p, l), ReliedOK(l)'
    PROVE  SoloInv'
<1>1. proc'[p] = l
  BY DEF Become, TypeOK
<1>2. \A q \in Procs : q = p
  BY DEF OneAtATime
<1>3. \A q \in Procs : ReliedOK(proc[q])'
  BY <1>1, <1>2
<1> QED BY <1>3 DEF SoloInv

\* Nothing is relied on at another step.
LEMMA RestsOK ==
    ASSUME NEW l, l.pc \notin Relied
    PROVE  ReliedOK(l) /\ ReliedOK(l)'
BY DEF ReliedOK, Relied, OpenSteps, SealedSteps

\* A step that writes neither ledger nor repository.
LEMMA QuietSolo ==
    ASSUME OneAtATime, TypeOK, SoloInv, UNCHANGED <<branch, tips, commits, ledger>>,
           NEW p \in Procs, NEW l, Become(p, l), ReliedOK(l)
    PROVE  SoloInv'
<1>1. FilesSolo' /\ ReliedOK(l)'
  BY SameSolo DEF SoloInv
<1> QED BY <1>1, SoloMoves

\* A process that is past the steps at which it relies on something.
LEMMA RestSolo ==
    ASSUME OneAtATime, TypeOK, FilesSolo', NEW p \in Procs, NEW l, Become(p, l),
           l.pc \notin Relied
    PROVE  SoloInv'
BY RestsOK, SoloMoves

\* The command returns.
LEMMA ReturnSolo ==
    ASSUME OneAtATime, TypeOK, FilesSolo', NEW p \in Procs, Return(p)
    PROVE  SoloInv'
<1>1. Idle.pc \notin Relied
  BY DEF Idle, Relied, OpenSteps, SealedSteps
<1> QED BY <1>1, RestSolo DEF Return

\* A record n for the attempt a of u agrees with the commits made for it.
Agrees(u, a, n) ==
    /\ n.head <= Len(commits)
    /\ \A c \in 1..Len(commits) : MadeFor(c, u, a) =>
          /\ n.status \in {"committing", "completed", "held"}
          /\ n.head < c
          /\ n.status = "held" /\ Matches(c, n) => c < Len(commits)

\* A ledger is written that agrees with the commits.
LEMMA WriteSolo ==
    ASSUME TypeOK, FilesSolo, UNCHANGED <<branch, tips, commits>>,
           NEW u \in Units, NEW a \in Attempts, NEW n,
           ledger' = [ledger EXCEPT ![u][a] = n],
           Agrees(u, a, n)
    PROVE  FilesSolo' /\ ledger'[u][a] = n
<1>1. ledger'[u][a] = n
  BY DEF TypeOK
<1>2. ASSUME NEW w \in Units, NEW b \in Attempts, w # u \/ b # a
      PROVE  ledger'[w][b] = ledger[w][b]
  BY <1>2 DEF TypeOK
<1>3. \A c, r : Matches(c, r)' <=> Matches(c, r)
  BY DEF Matches, Changes, Tree
<1>4. \A c, w, b : MadeFor(c, w, b)' <=> MadeFor(c, w, b)
  BY DEF MadeFor
<1>5. LineInv'
  BY DEF FilesSolo, LineInv, HeadCommit
<1>6. AuthorInv'
  <2> SUFFICES ASSUME NEW w \in Units, NEW b \in Attempts
               PROVE  /\ ledger'[w][b].head <= Len(commits)
                      /\ \A c \in 1..Len(commits) : MadeFor(c, w, b) =>
                            /\ ledger'[w][b].status \in {"committing", "completed", "held"}
                            /\ ledger'[w][b].head < c
    BY <1>4 DEF AuthorInv
  <2>1. CASE w = u /\ b = a
    BY <1>1, <2>1 DEF Agrees
  <2>2. CASE w # u \/ b # a
    BY <1>2, <2>2 DEF FilesSolo, AuthorInv
  <2> QED BY <2>1, <2>2
<1>7. BuriedInv'
  <2> SUFFICES ASSUME NEW w \in Units, NEW b \in Attempts, NEW c \in 1..Len(commits),
                      ledger'[w][b].status = "held", MadeFor(c, w, b), Matches(c, ledger'[w][b])
               PROVE  c < Len(commits)
    BY <1>3, <1>4 DEF BuriedInv
  <2>1. CASE w = u /\ b = a
    BY <1>1, <2>1 DEF Agrees
  <2>2. CASE w # u \/ b # a
    BY <1>2, <2>2 DEF FilesSolo, BuriedInv
  <2> QED BY <2>1, <2>2
<1>8. AtMostOneCommit'
  BY DEF FilesSolo, AtMostOneCommit
<1> QED BY <1>1, <1>5, <1>6, <1>7, <1>8 DEF FilesSolo

\* The new commit is the last one, on top of the one before.
LEMMA CommitLine ==
    ASSUME TypeOK, LineInv, NEW S, NEW m, NEW author, CommitPaths(S, m, author)
    PROVE  /\ LineInv'
           /\ Len(commits) \in Nat /\ Len(commits') = Len(commits) + 1
           /\ \A c \in 1..Len(commits) : commits'[c] = commits[c]
           /\ commits'[Len(commits) + 1].author = author
<1>1. PICK commit : /\ commits' = Append(commits, commit)
                    /\ commit.parent = HeadCommit /\ commit.author = author
  BY DEF CommitPaths
<1>2. commits \in Seq(Commits) /\ Len(commits) \in Nat
  BY DEF TypeOK
<1>3. Len(commits') = Len(commits) + 1
  BY <1>1, <1>2
<1>4. \A c \in 1..Len(commits) : commits'[c] = commits[c]
  BY <1>1, <1>2
<1>5. commits'[Len(commits) + 1] = commit
  BY <1>1, <1>2
<1>6. HeadCommit' = Len(commits')
  <2>1. tips' = [tips EXCEPT ![branch] = Len(commits) + 1] /\ branch' = branch
    BY DEF CommitPaths
  <2>2. tips'[branch] = Len(commits) + 1
    BY <2>1 DEF TypeOK
  <2> QED BY <1>3, <2>1, <2>2 DEF HeadCommit
<1>7. \A c \in 1..Len(commits') : commits'[c].parent = c - 1
  <2> SUFFICES ASSUME NEW c \in 1..Len(commits')
               PROVE  commits'[c].parent = c - 1
    OBVIOUS
  <2>1. CASE c \in 1..Len(commits)
    BY <1>4, <2>1 DEF LineInv
  <2>2. CASE c = Len(commits) + 1
    BY <1>1, <1>2, <1>5, <2>2 DEF LineInv
  <2> QED BY <1>2, <1>3, <2>1, <2>2
<1>8. branch' = Trunk => \A pl \in Plans : tips'[pl] = NoTip
  <2> SUFFICES ASSUME branch' = Trunk, NEW pl \in Plans
               PROVE  tips'[pl] = NoTip
    OBVIOUS
  <2>1. pl # branch /\ tips' = [tips EXCEPT ![branch] = Len(commits) + 1]
    BY BranchesAssumption DEF CommitPaths
  <2>2. tips[pl] = NoTip /\ pl \in Branches
    BY BranchesAssumption DEF LineInv, CommitPaths
  <2> QED BY <2>1, <2>2 DEF TypeOK
<1> QED BY <1>1, <1>2, <1>3, <1>4, <1>5, <1>6, <1>7, <1>8 DEF LineInv

\* A commit for an attempt that has sealed its candidate and made none yet, or
\* for nobody's.
LEMMA CommitSolo ==
    ASSUME TypeOK, FilesSolo, NEW S, NEW m, NEW author, CommitPaths(S, m, author),
           UNCHANGED ledger,
           \A u \in Units, a \in Attempts : author = <<u, a>> =>
              ledger[u][a].status = "committing",
           author # Outsider => \A c \in 1..Len(commits) : commits[c].author # author
    PROVE  FilesSolo'
<1> DEFINE n == Len(commits)
<1>0. LineInv
  BY DEF FilesSolo
<1>1. /\ LineInv' /\ n \in Nat /\ Len(commits') = n + 1
      /\ \A c \in 1..n : commits'[c] = commits[c]
      /\ commits'[n + 1].author = author
  BY <1>0, CommitLine
<1> HIDE DEF n
<1>2. \A c \in 1..(n + 1) : c \in 1..n \/ c = n + 1
  BY <1>1
<1>3. AuthorInv'
  <2> SUFFICES ASSUME NEW u \in Units, NEW a \in Attempts
               PROVE  /\ ledger[u][a].head <= n + 1
                      /\ \A c \in 1..(n + 1) : commits'[c].author = <<u, a>> =>
                            /\ ledger[u][a].status \in {"committing", "completed", "held"}
                            /\ ledger[u][a].head < c
    BY <1>1 DEF AuthorInv, MadeFor
  <2>1. /\ ledger[u][a].head <= n
        /\ \A c \in 1..n : commits[c].author = <<u, a>> =>
              /\ ledger[u][a].status \in {"committing", "completed", "held"}
              /\ ledger[u][a].head < c
    BY DEF FilesSolo, AuthorInv, MadeFor, n
  <2>2. PICK h \in Nat : h = ledger[u][a].head
    BY DEF TypeOK, Records
  <2>3. h <= n + 1 /\ h < n + 1
    BY <1>1, <2>1, <2>2
  <2>4. ASSUME NEW c \in 1..(n + 1), commits'[c].author = <<u, a>>
        PROVE  ledger[u][a].status \in {"committing", "completed", "held"} /\ h < c
    <3>1. CASE c \in 1..n
      BY <1>1, <2>1, <2>2, <2>4, <3>1
    <3>2. CASE c = n + 1
      BY <1>1, <2>3, <2>4, <3>2
    <3> QED BY <1>2, <3>1, <3>2
  <2> QED BY <2>2, <2>3, <2>4
<1>4. BuriedInv'
  <2> SUFFICES ASSUME NEW u \in Units, NEW a \in Attempts, NEW c \in 1..(n + 1),
                      ledger[u][a].status = "held", commits'[c].author = <<u, a>>
               PROVE  c < n + 1
    BY <1>1 DEF BuriedInv, MadeFor
  <2>1. c # n + 1
    BY <1>1
  <2> QED BY <1>1, <1>2, <2>1
<1>5. AtMostOneCommit'
  <2> SUFFICES ASSUME NEW c \in 1..(n + 1), NEW d \in 1..(n + 1),
                      commits'[c].author = commits'[d].author, commits'[c].author # Outsider
               PROVE  c = d
    BY <1>1 DEF AtMostOneCommit
  <2>1. CASE c \in 1..n /\ d \in 1..n
    BY <1>1, <2>1 DEF FilesSolo, AtMostOneCommit, n
  <2>2. CASE c = n + 1 \/ d = n + 1
    BY <1>1, <1>2, <2>2 DEF n
  <2> QED BY <1>2, <2>1, <2>2
<1> QED BY <1>1, <1>3, <1>4, <1>5 DEF FilesSolo

\* Reading a log, or loading or saving a queue, relies on nothing.
LEMMA RecordsSolo ==
    ASSUME OneAtATime, TypeOK, SoloInv, NEW p \in Procs, NEW s, NEW n \in Steps \ Relied,
           \/ Save(p, s, [proc[p] EXCEPT !.pc = n])
           \/ Save(p, s, Idle)
           \/ ReadLog(p, s, n)
           \/ \E added : AppendLog(p, s, added)
           \/ /\ \E u \in Units : Load(p, u, n)
              /\ UNCHANGED <<branch, tips, commits, ledger>>
    PROVE  SoloInv'
<1>1. UNCHANGED <<branch, tips, commits, ledger>>
  BY DEF Save, ReadLog, AppendLog, worktreeVars
<1>2. FilesSolo'
  BY <1>1, SameSolo DEF SoloInv
<1>3. proc[p] \in Locals
  BY LocalsAccess
<1>4. CASE Save(p, s, [proc[p] EXCEPT !.pc = n])
  BY <1>2, <1>3, <1>4, StepPc, RestSolo DEF Save
<1>5. CASE Save(p, s, Idle)
  BY <1>2, <1>5, ReturnSolo DEF Save, Return
<1>6. CASE ReadLog(p, s, n)
  <2>1. [proc[p] EXCEPT !.pc = n, !.lines = log[PlanFor(p)]].pc = n
    BY <1>3 DEF Locals
  <2> QED BY <1>2, <1>6, <2>1, RestSolo DEF ReadLog
<1>7. CASE \E added : AppendLog(p, s, added)
  BY <1>2, <1>7, ReturnSolo DEF AppendLog
<1>8. CASE \E u \in Units : Load(p, u, n)
  <2>1. PICK u \in Units : Load(p, u, n)
    BY <1>8
  <2>2. [Idle EXCEPT !.pc = n, !.unit = u,
                     !.view = Synced(PlanOf[u], queue, log[PlanOf[u]])].pc = n
    BY IdleType DEF Locals
  <2> QED BY <1>2, <2>1, <2>2, RestSolo DEF Load
<1> QED BY <1>4, <1>5, <1>6, <1>7, <1>8

\* The branch of the plan is created at HEAD, and then it is the one that is
\* checked out.
LEMMA BranchSolo ==
    ASSUME OnePlan, TypeOK, FilesSolo, NEW pl \in Plans, PrepareBranch(pl), branch # pl,
           UNCHANGED ledger
    PROVE  FilesSolo'
<1>1. branch = Trunk /\ pl # Trunk
  BY BranchesAssumption DEF OnePlan, TypeOK
<1>2. tips[pl] = NoTip /\ branch' = pl /\ UNCHANGED commits
  BY <1>1 DEF FilesSolo, LineInv, PrepareBranch
<1>3. tips' = [tips EXCEPT ![pl] = HeadCommit]
  BY <1>2 DEF PrepareBranch
<1>4. HeadCommit' = HeadCommit
  <2>1. pl \in Branches
    BY BranchesAssumption
  <2> QED BY <1>2, <1>3, <2>1 DEF HeadCommit, TypeOK
<1>5. LineInv'
  BY <1>1, <1>2, <1>4 DEF FilesSolo, LineInv
<1>6. \A c, r : Matches(c, r)' <=> Matches(c, r)
  BY <1>2 DEF Matches, Changes, Tree
<1>7. AuthorInv'
  BY <1>2 DEF FilesSolo, AuthorInv, MadeFor
<1>8. BuriedInv'
  BY <1>2, <1>6 DEF FilesSolo, BuriedInv, MadeFor
<1>9. AtMostOneCommit'
  BY <1>2 DEF FilesSolo, AtMostOneCommit
<1> QED BY <1>5, <1>7, <1>8, <1>9 DEF FilesSolo

\* begin-main-unit opens an attempt at HEAD of which there is no commit yet.
LEMMA BeginSolo ==
    ASSUME OneAtATime, OnePlan, SafetyInv, SoloInv, NEW p \in Procs, Begin(p)
    PROVE  SoloInv'
<1>0. TypeOK /\ proc[p] \in Locals /\ PlanFor(p) \in Plans /\ FilesSolo
  BY LocalsAccess DEF SafetyInv, SoloInv
<1> DEFINE u == UnitOf(p)
<1>1. CASE \/ BeginLoad(p) \/ BeginSync(p) \/ BeginRepair(p) \/ BeginRepairHeld(p)
           \/ BeginSave(p) \/ BeginLogRead(p) \/ BeginLogWrite(p)
  <2>1. {"begin_sync", "begin_inspect", "begin_branch", "begin_log_read", "begin_log_write"}
           \subseteq Steps \ Relied
    BY DEF Steps, Relied, OpenSteps, SealedSteps
  <2>2. CASE BeginLoad(p)
    BY <1>0, <2>1, <2>2, RecordsSolo DEF BeginLoad, worktreeVars
  <2>3. CASE BeginSync(p)
    BY <1>0, <2>1, <2>3, RecordsSolo DEF BeginSync
  <2>4. CASE BeginRepair(p)
    BY <1>0, <2>1, <2>4, RecordsSolo DEF BeginRepair
  <2>5. CASE BeginRepairHeld(p)
    BY <1>0, <2>1, <2>5, RecordsSolo DEF BeginRepairHeld
  <2>6. CASE BeginSave(p)
    BY <1>0, <2>1, <2>6, RecordsSolo DEF BeginSave
  <2>7. CASE BeginLogRead(p)
    BY <1>0, <2>1, <2>7, RecordsSolo DEF BeginLogRead
  <2>8. CASE BeginLogWrite(p)
    BY <1>0, <2>1, <2>8, RecordsSolo DEF BeginLogWrite
  <2> QED BY <1>1, <2>2, <2>3, <2>4, <2>5, <2>6, <2>7, <2>8
<1>2. CASE BeginInspect(p)
  <2> DEFINE a == LatestAttempt(u, ViewOf(p))
             record == ledger[u][a]
             local == [proc[p] EXCEPT !.attempt = a, !.seen = record]
             repaired == WithEntry(local, Reconciled(record, a))
  <2>1. a \in Attempts
    BY <1>0, LatestAttemptType, LocalsAccess
  <2>2. local \in Locals /\ repaired \in Locals
    BY <2>1, InspectedOK
  <2>3. FilesSolo'
    BY <1>0, <1>2, SameSolo DEF BeginInspect, worktreeVars
  <2>4. \A s : [local EXCEPT !.pc = s].pc = s /\ [repaired EXCEPT !.pc = s].pc = s
    BY <2>2, StepPc
  <2>5. {"begin_repair", "begin_repair_held", "begin_branch"} \cap Relied = {}
    BY DEF Relied, OpenSteps, SealedSteps
  <2>6. \/ Return(p)
        \/ Become(p, [repaired EXCEPT !.pc = "begin_repair"])
        \/ Become(p, [repaired EXCEPT !.pc = "begin_repair_held"])
        \/ Become(p, [local EXCEPT !.pc = "begin_branch"])
    BY <1>2 DEF BeginInspect
  <2> HIDE DEF local, repaired
  <2>7. PICK l : Return(p) \/ (Become(p, l) /\ l.pc \notin Relied)
    BY <2>4, <2>5, <2>6
  <2> QED BY <1>0, <2>3, <2>7, RestSolo, ReturnSolo
<1>3. CASE BeginBranch(p)
  <2>1. FilesSolo'
    <3>1. CASE branch # PlanFor(p) /\ PrepareBranch(PlanFor(p))
      BY <1>0, <1>3, <3>1, BranchSolo DEF BeginBranch
    <3>2. CASE UNCHANGED worktreeVars
      BY <1>0, <1>3, <3>2, SameSolo DEF BeginBranch, worktreeVars
    <3> QED BY <1>3, <3>1, <3>2 DEF BeginBranch
  <2>2. Goto(p, "begin_check") \/ Return(p)
    BY <1>3 DEF BeginBranch
  <2>3. [proc[p] EXCEPT !.pc = "begin_check"].pc \notin Relied
    BY <1>0, StepPc DEF Relied, OpenSteps, SealedSteps
  <2> QED BY <1>0, <2>1, <2>2, <2>3, RestSolo, ReturnSolo DEF Goto
<1>4. CASE BeginCheck(p)
  <2>1. FilesSolo'
    BY <1>0, <1>4, SameSolo DEF BeginCheck, worktreeVars
  <2>2. \/ Become(p, [proc[p] EXCEPT !.pc = "begin_open", !.attempt = NextAttempt(p)])
        \/ Return(p)
    BY <1>4 DEF BeginCheck
  <2>3. [proc[p] EXCEPT !.pc = "begin_open", !.attempt = NextAttempt(p)].pc \notin Relied
    <3>1. [proc[p] EXCEPT !.pc = "begin_open", !.attempt = NextAttempt(p)].pc = "begin_open"
      BY <1>0 DEF Locals
    <3> QED BY <3>1 DEF Relied, OpenSteps, SealedSteps
  <2> QED BY <1>0, <2>1, <2>2, <2>3, RestSolo, ReturnSolo
<1>5. CASE BeginOpen(p)
  <2> DEFINE a == proc[p].attempt
             record == [NoRecord EXCEPT !.status = "open", !.head = HeadCommit,
                                        !.outside = Diff(OutOfScope(u))]
             n == [record EXCEPT !.rev = 0 + 1]
             l == WithEntry([proc[p] EXCEPT !.pc = "begin_save"], Entry("in_progress", a, 1))
  <2>1. u \in Units /\ a \in Attempts
    BY <1>0, LocalsAccess
  <2>2. CASE LedgerConflict(p, a, 0)
    <3>1. FilesSolo'
      BY <1>0, <1>5, <2>2, SameSolo DEF BeginOpen, LedgerConflict, worktreeVars
    <3> QED BY <1>0, <2>2, <3>1, ReturnSolo DEF LedgerConflict
  <2>3. CASE CompareAndSet(u, a, 0, record) /\ Become(p, l)
    <3>1. record \in Records /\ record.head = HeadCommit
      BY <1>0, HeadType, DiffType, NoRecordType DEF OutOfScope, NoRecord, Records, Statuses
    <3>2. n.head = HeadCommit
      BY <3>1, RevisionFields
    <3>3. ledger' = [ledger EXCEPT ![u][a] = n] /\ ledger[u][a].rev = 0
      BY <2>3 DEF CompareAndSet
    <3>4. ledger[u][a].status = "absent"
      <4>1. RecordOK(u, ledger[u][a])
        BY <2>1 DEF SafetyInv, LedgerInv
      <4>2. ledger[u][a] = NoRecord
        BY <3>3, <4>1 DEF RecordOK
      <4> QED BY <4>2, NoRecordFields
    <3>5. \A c \in 1..Len(commits) : ~MadeFor(c, u, a)
      BY <1>0, <2>1, <3>4 DEF FilesSolo, AuthorInv
    <3>6. n.head <= Len(commits)
      BY <1>0, <3>2, HeadType DEF FilesSolo, LineInv
    <3> HIDE DEF n
    <3>7. FilesSolo'
      <4>1. Agrees(u, a, n)
        BY <3>5, <3>6 DEF Agrees
      <4> QED BY <1>0, <1>5, <2>1, <3>3, <4>1, WriteSolo DEF BeginOpen, worktreeVars
    <3>8. l.pc \notin Relied
      <4>1. "begin_save" \in Steps
        BY DEF Steps
      <4>2. l.pc = "begin_save"
        BY <1>0, <4>1, StepWithEntryPc
      <4> QED BY <4>2 DEF Relied, OpenSteps, SealedSteps
    <3> HIDE DEF l
    <3> QED BY <1>0, <2>3, <3>7, <3>8, RestSolo
  <2> QED BY <1>5, <2>2, <2>3 DEF BeginOpen
<1> QED BY <1>1, <1>2, <1>3, <1>4, <1>5 DEF Begin

\* A snapshot that is relied on is the ledger, which is then not written by the
\* others, as there are none.
LEMMA ReliesOnLedger ==
    ASSUME SafetyInv, SoloInv, NEW p \in Procs, proc[p].pc \in Relied
    PROVE  /\ proc[p].seen = ledger[UnitOf(p)][proc[p].attempt]
           /\ ReliedOK(proc[p]) /\ FilesSolo
BY DEF SoloInv, ReliedOK, UnitOf

\* The fields of locals with another step.
LEMMA StepFields ==
    ASSUME NEW l \in Locals, NEW s
    PROVE  LET k == [l EXCEPT !.pc = s]
           IN  /\ k.pc = s /\ k.unit = l.unit /\ k.attempt = l.attempt /\ k.seen = l.seen
BY DEF Locals

\* Snapshots just taken are the ledger, and there is nothing else to rely on.
LEMMA TakenOK ==
    ASSUME NEW l, l.pc \in OpenSteps \cup {"finish_check", "finish_observe", "finish_complete"},
           l.seen = ledger[l.unit][l.attempt]
    PROVE  ReliedOK(l)
BY DEF ReliedOK, OpenSteps

\* The commit at HEAD either is the candidate or does not match it.
LEMMA JudgeSolo ==
    ASSUME OneAtATime, SafetyInv, SoloInv, NEW p \in Procs, proc[p].pc \in Relied, Judge(p),
           UNCHANGED <<branch, tips, commits, ledger>>
    PROVE  SoloInv'
<1>1. /\ TypeOK /\ proc[p] \in Locals /\ LineInv
      /\ proc[p].seen = ledger[proc[p].unit][proc[p].attempt]
  BY LocalsAccess, ReliesOnLedger DEF SafetyInv, FilesSolo, UnitOf
<1>2. CASE Become(p, [proc[p] EXCEPT !.pc = "finish_complete", !.commit = HeadCommit])
  <2> DEFINE l == [proc[p] EXCEPT !.pc = "finish_complete", !.commit = HeadCommit]
  <2>1. /\ l.pc = "finish_complete" /\ l.unit = proc[p].unit /\ l.attempt = proc[p].attempt
        /\ l.seen = proc[p].seen
    BY <1>1 DEF Locals
  <2> HIDE DEF l
  <2>2. ReliedOK(l)
    BY <1>1, <2>1, TakenOK
  <2>3. Become(p, l)
    BY <1>2 DEF l
  <2> QED BY <1>1, <2>2, <2>3, QuietSolo
<1>3. CASE ~Matches(HeadCommit, proc[p].seen) /\ Goto(p, "protocol_hold")
  <2> DEFINE l == [proc[p] EXCEPT !.pc = "protocol_hold"]
  <2>1. /\ l.pc = "protocol_hold" /\ l.unit = proc[p].unit /\ l.attempt = proc[p].attempt
        /\ l.seen = proc[p].seen
    BY <1>1, StepFields
  <2>2. Become(p, l)
    BY <1>3 DEF Goto
  <2> HIDE DEF l
  <2>3. ASSUME NEW c \in 1..Len(commits), Matches(c, l.seen)
        PROVE  c < Len(commits)
    <3>1. c # Len(commits)
      BY <1>1, <1>3, <2>1, <2>3 DEF LineInv
    <3>2. Len(commits) \in Nat
      BY <1>1 DEF TypeOK
    <3> QED BY <3>1, <3>2
  <2>4. ReliedOK(l)
    BY <1>1, <2>1, <2>3 DEF ReliedOK
  <2> QED BY <1>1, <2>2, <2>4, QuietSolo
<1> QED BY <1>2, <1>3 DEF Judge

\* HEAD still at the base of the attempt: there is no commit of it.
LEMMA FinishCheckSolo ==
    ASSUME OneAtATime, SafetyInv, SoloInv, NEW p \in Procs, FinishCheck(p)
    PROVE  SoloInv'
<1>1. /\ TypeOK /\ proc[p] \in Locals /\ proc[p].pc \in Relied /\ FilesSolo
      /\ proc[p].unit \in Units /\ proc[p].attempt \in Attempts
      /\ proc[p].seen = ledger[proc[p].unit][proc[p].attempt]
      /\ UNCHANGED <<branch, tips, commits, ledger>>
  <2>1. proc[p].pc \in Relied /\ UNCHANGED <<branch, tips, commits, ledger>>
    BY DEF FinishCheck, At, Relied, SealedSteps, worktreeVars
  <2> QED BY <2>1, LocalsAccess, ReliesOnLedger DEF SafetyInv, UnitOf
<1>2. CASE Judge(p)
  BY <1>1, <1>2, JudgeSolo
<1>3. ASSUME NEW s \in {"protocol_hold", "finish_stage"}, Goto(p, s), HeadCommit = proc[p].seen.head
      PROVE  SoloInv'
  <2> DEFINE l == [proc[p] EXCEPT !.pc = s]
  <2>1. l.pc = s /\ l.unit = proc[p].unit /\ l.attempt = proc[p].attempt /\ l.seen = proc[p].seen
    BY <1>1, StepFields
  <2>2. Become(p, l)
    BY <1>3 DEF Goto
  <2> HIDE DEF l
  <2>3. Len(commits) = ledger[proc[p].unit][proc[p].attempt].head /\ Len(commits) \in Nat
    <3>1. HeadCommit = Len(commits) /\ Len(commits) \in Nat
      BY <1>1 DEF FilesSolo, LineInv, TypeOK
    <3> QED BY <1>1, <1>3, <3>1
  <2>4. ASSUME NEW c \in 1..Len(commits)
        PROVE  ~MadeFor(c, proc[p].unit, proc[p].attempt)
    <3>1. MadeFor(c, proc[p].unit, proc[p].attempt) => Len(commits) < c
      BY <1>1, <2>3 DEF FilesSolo, AuthorInv
    <3> QED BY <2>3, <3>1
  <2>5. ReliedOK(l)
    BY <1>1, <2>1, <2>4 DEF ReliedOK
  <2> QED BY <1>1, <2>2, <2>5, QuietSolo
<1> QED BY <1>2, <1>3 DEF FinishCheck

\* Staging commits nothing.
LEMMA FinishStageSolo ==
    ASSUME OneAtATime, SafetyInv, SoloInv, NEW p \in Procs, FinishStage(p)
    PROVE  SoloInv'
<1>1. /\ TypeOK /\ proc[p] \in Locals /\ FilesSolo /\ ReliedOK(proc[p])
      /\ proc[p].pc = "finish_stage"
      /\ proc[p].seen = ledger[proc[p].unit][proc[p].attempt]
      /\ UNCHANGED <<branch, tips, commits, ledger>>
  <2>1. /\ proc[p].pc = "finish_stage" /\ proc[p].pc \in Relied
        /\ UNCHANGED <<branch, tips, commits, ledger>>
    BY DEF FinishStage, At, Relied, SealedSteps, worktreeVars
  <2> QED BY <2>1, LocalsAccess, ReliesOnLedger DEF SafetyInv, UnitOf
<1>2. CASE Return(p)
  BY <1>1, <1>2, SameSolo, ReturnSolo
<1>3. ASSUME NEW s \in {"protocol_hold", "finish_commit"}, Goto(p, s)
      PROVE  SoloInv'
  <2> DEFINE l == [proc[p] EXCEPT !.pc = s]
  <2>1. l.pc = s /\ l.unit = proc[p].unit /\ l.attempt = proc[p].attempt /\ l.seen = proc[p].seen
    BY <1>1, StepFields
  <2>2. Become(p, l)
    BY <1>3 DEF Goto
  <2> HIDE DEF l
  <2>3. \A c \in 1..Len(commits) : ~MadeFor(c, proc[p].unit, proc[p].attempt)
    BY <1>1 DEF ReliedOK
  <2>4. ReliedOK(l)
    BY <1>1, <2>1, <2>3 DEF ReliedOK
  <2> QED BY <1>1, <2>2, <2>4, QuietSolo
<1>4. Return(p) \/ Goto(p, "finish_commit") \/ Goto(p, "protocol_hold")
  BY DEF FinishStage, GitAddFails
<1> QED BY <1>2, <1>3, <1>4

\* The commit of an attempt is its first.
LEMMA FinishCommitSolo ==
    ASSUME OneAtATime, SafetyInv, SoloInv, NEW p \in Procs, FinishCommit(p)
    PROVE  SoloInv'
<1> DEFINE u == proc[p].unit
           a == proc[p].attempt
<1>1. /\ TypeOK /\ proc[p] \in Locals /\ FilesSolo /\ ReliedOK(proc[p])
      /\ proc[p].pc = "finish_commit" /\ proc[p].seen = ledger[u][a]
      /\ proc[p].seen.status = "committing" /\ u \in Units /\ a \in Attempts
      /\ UNCHANGED ledger
  <2>1. /\ proc[p].pc = "finish_commit" /\ proc[p].pc \in Relied
        /\ proc[p].pc \in SealedSteps /\ UNCHANGED ledger
    BY DEF FinishCommit, At, Relied, SealedSteps
  <2>2. StepOK(proc[p]) /\ proc[p] \in Locals
    BY LocalsOK
  <2> QED BY <2>1, <2>2, LocalsAccess, ReliesOnLedger DEF SafetyInv, UnitOf, StepOK
<1>2. CASE Return(p) /\ UNCHANGED worktreeVars
  BY <1>1, <1>2, SameSolo, ReturnSolo DEF worktreeVars
<1>3. ASSUME CommitPaths(proc[p].seen.paths, proc[p].seen.message, <<u, a>>),
             Goto(p, "finish_observe")
      PROVE  SoloInv'
  <2>0. PICK l : l = [proc[p] EXCEPT !.pc = "finish_observe"]
    OBVIOUS
  <2>1. \A c \in 1..Len(commits) : commits[c].author # <<u, a>>
    BY <1>1 DEF ReliedOK, MadeFor
  <2>2. ASSUME NEW w \in Units, NEW b \in Attempts, <<u, a>> = <<w, b>>
        PROVE  ledger[w][b].status = "committing"
    BY <1>1, <2>2
  <2>3. FilesSolo'
    BY <1>1, <1>3, <2>1, <2>2, CommitSolo
  <2>4. l.pc = "finish_observe" /\ l.unit = u /\ l.attempt = a /\ l.seen = proc[p].seen
    BY <1>1, <2>0, StepFields
  <2>5. Become(p, l)
    BY <1>3, <2>0 DEF Goto
  <2>6. l.seen = ledger'[l.unit][l.attempt]
    BY <1>1, <2>4
  <2>7. ReliedOK(l)'
    BY <2>4, <2>6 DEF ReliedOK
  <2> QED BY <1>1, <2>3, <2>5, <2>7, SoloMoves
<1> QED BY <1>2, <1>3 DEF FinishCommit, UnitOf

\* The record of a ledger that is written with another status, on the same base.
LEMMA WriterSolo ==
    ASSUME OneAtATime, SafetyInv, SoloInv, NEW p \in Procs, proc[p].pc \in Relied,
           NEW r \in Records, NEW v, r.head = proc[p].seen.head,
           CompareAndSet(UnitOf(p), proc[p].attempt, v, r),
           UNCHANGED <<branch, tips, commits>>,
           \A c \in 1..Len(commits) : MadeFor(c, UnitOf(p), proc[p].attempt) =>
              /\ r.status \in {"committing", "completed", "held"}
              /\ r.status = "held" /\ Matches(c, r) => c < Len(commits)
    PROVE  FilesSolo' /\ ledger'[UnitOf(p)][proc[p].attempt] = [r EXCEPT !.rev = v + 1]
<1> DEFINE u == UnitOf(p)
           a == proc[p].attempt
<1>1. /\ TypeOK /\ FilesSolo /\ u \in Units /\ a \in Attempts
      /\ proc[p].seen = ledger[u][a]
  BY LocalsAccess, ReliesOnLedger DEF SafetyInv
<1>2. PICK n : n = [r EXCEPT !.rev = v + 1]
  OBVIOUS
<1>3. /\ n.status = r.status /\ n.head = r.head /\ n.paths = r.paths
      /\ n.candidate = r.candidate /\ n.message = r.message
  BY <1>2, RevisionFields
<1>4. \A c : Matches(c, n) <=> Matches(c, r)
  BY <1>3 DEF Matches
<1>5. ledger' = [ledger EXCEPT ![u][a] = n]
  BY <1>2 DEF CompareAndSet
<1>6. /\ ledger[u][a].head <= Len(commits)
      /\ \A c \in 1..Len(commits) : MadeFor(c, u, a) => ledger[u][a].head < c
  BY <1>1 DEF FilesSolo, AuthorInv
<1>7. n.head = ledger[u][a].head
  BY <1>1, <1>3
<1>8. n.head <= Len(commits)
  BY <1>6, <1>7
<1>9. Agrees(u, a, n)
  BY <1>3, <1>4, <1>6, <1>7, <1>8 DEF Agrees
<1>10. PICK w \in Units, b \in Attempts : w = u /\ b = a
  BY <1>1
<1>11. ledger' = [ledger EXCEPT ![w][b] = n] /\ Agrees(w, b, n)
  BY <1>5, <1>9, <1>10
<1>12. FilesSolo' /\ ledger'[w][b] = n
  BY <1>1, <1>11, WriteSolo
<1> QED BY <1>2, <1>10, <1>12

\* After an open attempt there is no commit of it.
LEMMA OpenHasNone ==
    ASSUME SafetyInv, SoloInv, NEW p \in Procs, proc[p].pc \in OpenSteps
    PROVE  \A c \in 1..Len(commits) : ~MadeFor(c, UnitOf(p), proc[p].attempt)
<1>1. /\ UnitOf(p) \in Units /\ proc[p].attempt \in Attempts /\ FilesSolo
      /\ ledger[UnitOf(p)][proc[p].attempt].status = "open"
  <2>1. proc[p].pc \in Relied /\ proc[p].seen.status = "open"
    BY LocalsOK DEF StepOK, Relied
  <2> QED BY <2>1, LocalsAccess, ReliesOnLedger DEF SafetyInv
<1> QED BY <1>1 DEF FilesSolo, AuthorInv

\* complete_main_unit loads the ledger that it relies on.
LEMMA CompleteInspectSolo ==
    ASSUME OneAtATime, SafetyInv, SoloInv, NEW p \in Procs, CompleteInspect(p)
    PROVE  SoloInv'
<1> DEFINE u == UnitOf(p)
           a == CurrentAttempt(ViewOf(p))
           record == ledger[u][a]
           local == [proc[p] EXCEPT !.attempt = a, !.seen = record]
           repaired == WithEntry(local, Reconciled(record, a))
<1>1. TypeOK /\ FilesSolo /\ a \in Attempts /\ UNCHANGED <<branch, tips, commits, ledger>>
  BY LocalsAccess, CurrentAttemptType DEF SafetyInv, SoloInv, CompleteInspect, worktreeVars
<1>2. /\ local \in Locals /\ local.unit = u /\ local.attempt = a /\ local.seen = record
      /\ repaired \in Locals
  BY <1>1, InspectedOK
<1>3. \/ Return(p)
      \/ Become(p, [repaired EXCEPT !.pc = "complete_repair"])
      \/ Become(p, [local EXCEPT !.pc = "finish_check"])
      \/ Become(p, [local EXCEPT !.pc = "complete_verify"])
  BY DEF CompleteInspect
<1>4. FilesSolo'
  BY <1>1, SameSolo
<1> HIDE DEF local, repaired
<1>5. CASE Return(p)
  BY <1>1, <1>4, <1>5, ReturnSolo
<1>6. CASE Become(p, [repaired EXCEPT !.pc = "complete_repair"])
  <2>1. [repaired EXCEPT !.pc = "complete_repair"].pc \notin Relied
    BY <1>2, StepPc DEF Relied, OpenSteps, SealedSteps
  <2> QED BY <1>1, <1>4, <1>6, <2>1, RestSolo
<1>7. ASSUME NEW s \in {"finish_check", "complete_verify"}, Become(p, [local EXCEPT !.pc = s])
      PROVE  SoloInv'
  <2> DEFINE l == [local EXCEPT !.pc = s]
  <2>1. l.pc = s /\ l.unit = u /\ l.attempt = a /\ l.seen = record
    BY <1>2, StepFields
  <2> HIDE DEF l
  <2>2. ReliedOK(l)
    BY <2>1, TakenOK DEF OpenSteps
  <2>3. Become(p, l)
    BY <1>7 DEF l
  <2> QED BY <1>1, <2>2, <2>3, QuietSolo
<1> QED BY <1>3, <1>5, <1>6, <1>7

\* hold_main_unit does, too.
LEMMA HoldInspectSolo ==
    ASSUME OneAtATime, SafetyInv, SoloInv, NEW p \in Procs, HoldInspect(p)
    PROVE  SoloInv'
<1> DEFINE a == CurrentAttempt(ViewOf(p))
           l == [proc[p] EXCEPT !.pc = "hold_record", !.attempt = a, !.seen = ledger[UnitOf(p)][a]]
<1>1. /\ TypeOK /\ FilesSolo /\ proc[p] \in Locals /\ UNCHANGED <<branch, tips, commits, ledger>>
  BY LocalsAccess DEF SafetyInv, SoloInv, HoldInspect, worktreeVars
<1>2. Return(p) \/ Become(p, l)
  BY DEF HoldInspect
<1>3. /\ l.pc = "hold_record" /\ l.unit = UnitOf(p) /\ l.attempt = a
      /\ l.seen = ledger[UnitOf(p)][a]
  BY <1>1 DEF Locals, UnitOf
<1> HIDE DEF l
<1>4. ReliedOK(l)
  BY <1>3, TakenOK DEF OpenSteps
<1> QED BY <1>1, <1>2, <1>4, QuietSolo, SameSolo, ReturnSolo

\* The candidate is computed from a snapshot that is still the ledger.
LEMMA CompleteVerifySolo ==
    ASSUME OneAtATime, SafetyInv, SoloInv, NEW p \in Procs, CompleteVerify(p)
    PROVE  SoloInv'
<1> DEFINE paths == Dirty(Allowed[UnitOf(p)])
           l == [proc[p] EXCEPT !.pc = "complete_seal", !.paths = paths]
<1>1. /\ TypeOK /\ FilesSolo /\ proc[p] \in Locals /\ proc[p].pc \in Relied
      /\ UNCHANGED <<branch, tips, commits, ledger>>
  BY LocalsAccess DEF SafetyInv, SoloInv, CompleteVerify, worktreeVars, At, Relied, OpenSteps
<1>2. Return(p) \/ Become(p, l)
  BY DEF CompleteVerify
<1>3. /\ l.pc = "complete_seal" /\ l.unit = UnitOf(p) /\ l.attempt = proc[p].attempt
      /\ l.seen = ledger[UnitOf(p)][proc[p].attempt]
  <2>1. proc[p].seen = ledger[UnitOf(p)][proc[p].attempt]
    BY <1>1, ReliesOnLedger
  <2> QED BY <1>1, <2>1 DEF Locals, UnitOf
<1> HIDE DEF l
<1>4. ReliedOK(l)
  BY <1>3, TakenOK DEF OpenSteps
<1> QED BY <1>1, <1>2, <1>4, QuietSolo, SameSolo, ReturnSolo

\* The candidate is sealed, and the command relies on the record it has written.
LEMMA CompleteSealSolo ==
    ASSUME OneAtATime, SafetyInv, SoloInv, NEW p \in Procs, CompleteSeal(p)
    PROVE  SoloInv'
<1> DEFINE u == UnitOf(p)
           a == proc[p].attempt
           seen == proc[p].seen
           paths == proc[p].paths
           sealed(m) == [seen EXCEPT !.status = "committing", !.kind = "patch",
                                     !.paths = paths,
                                     !.candidate = Changes(seen.head, work, paths),
                                     !.message = m]
<1>1. /\ TypeOK /\ FilesSolo /\ proc[p] \in Locals /\ proc[p].pc \in OpenSteps
      /\ seen \in Records /\ paths \in SUBSET Paths /\ UNCHANGED <<branch, tips, commits>>
  BY LocalsAccess DEF SafetyInv, SoloInv, CompleteSeal, worktreeVars, At, OpenSteps, Locals
<1>2. proc[p].pc \in Relied /\ \A c \in 1..Len(commits) : ~MadeFor(c, u, a)
  BY <1>1, OpenHasNone DEF Relied
<1>3. CASE LedgerConflict(p, a, seen.rev)
  BY <1>1, <1>3, SameSolo, ReturnSolo DEF LedgerConflict
<1>4. ASSUME NEW m \in Messages, CompareAndSet(u, a, seen.rev, sealed(m)),
             Become(p, [proc[p] EXCEPT !.pc = "finish_check", !.paths = {},
                                       !.seen = [sealed(m) EXCEPT !.rev = seen.rev + 1]])
      PROVE  SoloInv'
  <2>1. PICK r \in Records : r = sealed(m)
    <3>1. Changes(seen.head, work, paths) \in Diffs
      BY <1>1, ChangesType DEF TypeOK
    <3>2. sealed(m) \in Records
      BY <1>1, <3>1 DEF Records, Statuses
    <3> QED BY <3>2
  <2>2. r.head = seen.head
    BY <1>1, <2>1 DEF Records
  <2>3. FilesSolo' /\ ledger'[u][a] = [r EXCEPT !.rev = seen.rev + 1]
    <3>1. CompareAndSet(UnitOf(p), proc[p].attempt, seen.rev, r)
      BY <1>4, <2>1
    <3>2. PICK v : v = seen.rev
      OBVIOUS
    <3>3. CompareAndSet(UnitOf(p), proc[p].attempt, v, r)
      BY <3>1, <3>2
    <3>4. FilesSolo' /\ ledger'[UnitOf(p)][proc[p].attempt] = [r EXCEPT !.rev = v + 1]
      BY <1>1, <1>2, <2>2, <3>3, WriterSolo
    <3> QED BY <3>2, <3>4
  <2>4. PICK l : l = [proc[p] EXCEPT !.pc = "finish_check", !.paths = {},
                                     !.seen = [r EXCEPT !.rev = seen.rev + 1]]
    OBVIOUS
  <2>5. /\ l.pc = "finish_check" /\ l.unit = u /\ l.attempt = a
        /\ l.seen = [r EXCEPT !.rev = seen.rev + 1]
    BY <1>1, <2>4 DEF Locals, UnitOf
  <2>6. Become(p, l)
    BY <1>4, <2>1, <2>4
  <2>7. l.seen = ledger'[l.unit][l.attempt]
    BY <2>3, <2>5
  <2>8. ReliedOK(l)'
    BY <2>5, <2>7 DEF ReliedOK
  <2> QED BY <1>1, <2>3, <2>6, <2>8, SoloMoves
<1> QED BY <1>3, <1>4 DEF CompleteSeal

\* The record of a completion is written once; its commits stay below it.
LEMMA FinishCompleteSolo ==
    ASSUME OneAtATime, SafetyInv, SoloInv, NEW p \in Procs, FinishComplete(p)
    PROVE  SoloInv'
<1> DEFINE seen == proc[p].seen
           completed == [seen EXCEPT !.status = "completed", !.commit = proc[p].commit]
           entry == Entry("done", proc[p].attempt, seen.rev + 1)
           l == WithEntry([proc[p] EXCEPT !.pc = "finish_save"], entry)
<1>1. /\ TypeOK /\ FilesSolo /\ proc[p] \in Locals /\ proc[p].pc \in Relied
      /\ seen \in Records /\ proc[p].commit \in Nat /\ UNCHANGED <<branch, tips, commits>>
  BY LocalsAccess
     DEF SafetyInv, SoloInv, FinishComplete, worktreeVars, At, Relied, SealedSteps, Locals
<1>2. CASE LedgerConflict(p, proc[p].attempt, seen.rev)
  BY <1>1, <1>2, SameSolo, ReturnSolo DEF LedgerConflict
<1>3. CASE CompareAndSet(UnitOf(p), proc[p].attempt, seen.rev, completed) /\ Become(p, l)
  <2>1. PICK r \in Records : r = completed
    <3>1. completed \in Records
      BY <1>1 DEF Records, Statuses
    <3> QED BY <3>1
  <2>2. r.head = seen.head /\ r.status = "completed"
    BY <1>1, <2>1 DEF Records
  <2>3. FilesSolo'
    BY <1>1, <1>3, <2>1, <2>2, WriterSolo
  <2>4. l.pc \notin Relied
    <3>1. "finish_save" \in Steps
      BY DEF Steps
    <3>2. l.pc = "finish_save"
      BY <1>1, <3>1, StepWithEntryPc
    <3> QED BY <3>2 DEF Relied, OpenSteps, SealedSteps
  <2> HIDE DEF l
  <2> QED BY <1>1, <1>3, <2>3, <2>4, RestSolo
<1> QED BY <1>2, <1>3 DEF FinishComplete

\* An attempt is held only when no commit of it at HEAD is its candidate.
LEMMA ProtocolHoldSolo ==
    ASSUME OneAtATime, SafetyInv, SoloInv, NEW p \in Procs, ProtocolHold(p)
    PROVE  SoloInv'
<1> DEFINE seen == proc[p].seen
           held == [seen EXCEPT !.status = "held", !.class = Protocol]
           l == WithEntry([proc[p] EXCEPT !.pc = "protocol_save"], HeldEntry(p, seen.rev + 1))
<1>1. /\ TypeOK /\ FilesSolo /\ proc[p] \in Locals /\ proc[p].pc \in Relied
      /\ proc[p].pc = "protocol_hold" /\ seen \in Records /\ UNCHANGED <<branch, tips, commits>>
  BY LocalsAccess
     DEF SafetyInv, SoloInv, ProtocolHold, worktreeVars, At, Relied, SealedSteps
<1>2. CASE LedgerConflict(p, proc[p].attempt, seen.rev)
  BY <1>1, <1>2, SameSolo, ReturnSolo DEF LedgerConflict
<1>3. CASE CompareAndSet(UnitOf(p), proc[p].attempt, seen.rev, held) /\ Become(p, l)
  <2>1. PICK r \in Records : r = held
    <3>1. held \in Records
      BY <1>1 DEF Records, Statuses
    <3> QED BY <3>1
  <2>2. /\ r.head = seen.head /\ r.status = "held" /\ r.paths = seen.paths
        /\ r.candidate = seen.candidate /\ r.message = seen.message
    BY <1>1, <2>1 DEF Records
  <2>3. \A c : Matches(c, r) <=> Matches(c, seen)
    BY <2>2 DEF Matches
  <2>4. \A c \in 1..Len(commits) :
           MadeFor(c, UnitOf(p), proc[p].attempt) /\ Matches(c, seen) => c < Len(commits)
    BY <1>1, ReliesOnLedger DEF ReliedOK, UnitOf
  <2>5. FilesSolo'
    BY <1>1, <1>3, <2>1, <2>2, <2>3, <2>4, WriterSolo
  <2>6. l.pc \notin Relied
    <3>1. "protocol_save" \in Steps
      BY DEF Steps
    <3>2. l.pc = "protocol_save"
      BY <1>1, <3>1, StepWithEntryPc
    <3> QED BY <3>2 DEF Relied, OpenSteps, SealedSteps
  <2> HIDE DEF l
  <2> QED BY <1>1, <1>3, <2>5, <2>6, RestSolo
<1> QED BY <1>2, <1>3 DEF ProtocolHold

\* The coordinator holds an open attempt, of which there is no commit.
LEMMA HoldRecordSolo ==
    ASSUME OneAtATime, SafetyInv, SoloInv, NEW p \in Procs, HoldRecord(p)
    PROVE  SoloInv'
<1> DEFINE seen == proc[p].seen
           inScope == Allowed[UnitOf(p)]
           held(class) == [seen EXCEPT !.status = "held", !.class = class, !.kind = "scoped",
                                       !.paths = Dirty(inScope), !.candidate = Diff(inScope)]
           l == WithEntry([proc[p] EXCEPT !.pc = "hold_save"], HeldEntry(p, seen.rev + 1))
<1>1. /\ TypeOK /\ FilesSolo /\ proc[p] \in Locals /\ proc[p].pc \in OpenSteps
      /\ seen \in Records /\ UnitOf(p) \in Units /\ UNCHANGED <<branch, tips, commits>>
  BY LocalsAccess DEF SafetyInv, SoloInv, HoldRecord, worktreeVars, At, OpenSteps
<1>2. /\ proc[p].pc \in Relied
      /\ \A c \in 1..Len(commits) : ~MadeFor(c, UnitOf(p), proc[p].attempt)
  BY <1>1, OpenHasNone DEF Relied
<1>3. CASE LedgerConflict(p, proc[p].attempt, seen.rev)
  BY <1>1, <1>3, SameSolo, ReturnSolo DEF LedgerConflict
<1>4. ASSUME NEW class \in FailureClasses,
             CompareAndSet(UnitOf(p), proc[p].attempt, seen.rev, held(class)), Become(p, l)
      PROVE  SoloInv'
  <2>1. PICK r \in Records : r = held(class)
    <3>1. inScope \in SUBSET Paths
      BY <1>1, AllowedAssumption
    <3>2. held(class) \in Records
      BY <1>1, <3>1, DiffType DEF Records, Statuses
    <3> QED BY <3>2
  <2>2. r.head = seen.head
    BY <1>1, <2>1 DEF Records
  <2>3. FilesSolo'
    BY <1>1, <1>2, <1>4, <2>1, <2>2, WriterSolo
  <2>4. l.pc \notin Relied
    <3>1. "hold_save" \in Steps
      BY DEF Steps
    <3>2. l.pc = "hold_save"
      BY <1>1, <3>1, StepWithEntryPc
    <3> QED BY <3>2 DEF Relied, OpenSteps, SealedSteps
  <2> HIDE DEF l
  <2> QED BY <1>1, <1>4, <2>3, <2>4, RestSolo
<1> QED BY <1>3, <1>4 DEF HoldRecord

\* Every step of complete-main-unit keeps the invariant.
LEMMA CompleteSolo ==
    ASSUME OneAtATime, SafetyInv, SoloInv, NEW p \in Procs, Complete(p)
    PROVE  SoloInv'
<1>1. TypeOK
  BY DEF SafetyInv
<1>2. {"complete_sync", "complete_inspect", "finish_log_read", "finish_log_write"}
         \subseteq Steps \ Relied
  BY DEF Steps, Relied, OpenSteps, SealedSteps
<1>3. CASE CompleteLoad(p)
  BY <1>1, <1>2, <1>3, RecordsSolo DEF CompleteLoad, worktreeVars
<1>4. CASE CompleteSync(p)
  BY <1>1, <1>2, <1>4, RecordsSolo DEF CompleteSync
<1>5. CASE CompleteRepair(p)
  BY <1>1, <1>2, <1>5, RecordsSolo DEF CompleteRepair
<1>6. CASE FinishSave(p)
  BY <1>1, <1>2, <1>6, RecordsSolo DEF FinishSave
<1>7. CASE FinishLogRead(p)
  BY <1>1, <1>2, <1>7, RecordsSolo DEF FinishLogRead
<1>8. CASE FinishLogWrite(p)
  BY <1>1, <1>2, <1>8, RecordsSolo DEF FinishLogWrite
<1>9. CASE ProtocolSave(p)
  BY <1>1, <1>2, <1>9, RecordsSolo DEF ProtocolSave
<1>10. CASE FinishObserve(p)
  BY <1>10, JudgeSolo DEF FinishObserve, At, Relied, SealedSteps, worktreeVars
<1> QED BY <1>3, <1>4, <1>5, <1>6, <1>7, <1>8, <1>9, <1>10, CompleteInspectSolo,
           CompleteVerifySolo, CompleteSealSolo, FinishCheckSolo, FinishStageSolo,
           FinishCommitSolo, FinishCompleteSolo, ProtocolHoldSolo DEF Complete

\* Every step of hold-main-unit keeps the invariant.
LEMMA HoldSolo ==
    ASSUME OneAtATime, SafetyInv, SoloInv, NEW p \in Procs, Hold(p)
    PROVE  SoloInv'
<1>1. TypeOK
  BY DEF SafetyInv
<1>2. {"hold_sync", "hold_inspect", "hold_log_read", "hold_log_write"} \subseteq Steps \ Relied
  BY DEF Steps, Relied, OpenSteps, SealedSteps
<1>3. CASE HoldLoad(p)
  BY <1>1, <1>2, <1>3, RecordsSolo DEF HoldLoad, worktreeVars
<1>4. CASE HoldSync(p)
  BY <1>1, <1>2, <1>4, RecordsSolo DEF HoldSync
<1>5. CASE HoldSave(p)
  BY <1>1, <1>2, <1>5, RecordsSolo DEF HoldSave
<1>6. CASE HoldLogRead(p)
  BY <1>1, <1>2, <1>6, RecordsSolo DEF HoldLogRead
<1>7. CASE HoldLogWrite(p)
  BY <1>1, <1>2, <1>7, RecordsSolo DEF HoldLogWrite
<1> QED BY <1>3, <1>4, <1>5, <1>6, <1>7, HoldInspectSolo, HoldRecordSolo DEF Hold

\* Others edit, or commit for nobody's attempt.
LEMMA EnvironmentSolo ==
    ASSUME SafetyInv, SoloInv, Environment
    PROVE  SoloInv'
<1>1. TypeOK /\ FilesSolo /\ UNCHANGED <<ledger, proc>>
  BY DEF SafetyInv, SoloInv, Environment
<1>2. CASE \E x \in Paths : Edit(x)
  <2>1. UNCHANGED <<branch, tips, commits>>
    BY <1>2 DEF Edit
  <2>2. FilesSolo' /\ \A l : ReliedOK(l) => ReliedOK(l)'
    BY <1>1, <2>1, SameSolo
  <2>3. ASSUME NEW p \in Procs
        PROVE  ReliedOK(proc[p])'
    <3>1. PICK l : l = proc[p]
      OBVIOUS
    <3>2. ReliedOK(l)' /\ proc'[p] = l
      BY <1>1, <2>2, <3>1 DEF SoloInv
    <3> QED BY <3>2
  <2> QED BY <2>2, <2>3 DEF SoloInv
<1>3. CASE OutsideCommit
  <2>1. PICK S \in SUBSET Dirty(Paths), m \in Messages : CommitPaths(S, m, Outsider)
    BY <1>3 DEF OutsideCommit
  <2>2. FilesSolo'
    BY <1>1, <2>1, OutsiderIsNobody, CommitSolo
  <2>3. /\ Len(commits) \in Nat /\ Len(commits') = Len(commits) + 1
        /\ \A c \in 1..Len(commits) : commits'[c] = commits[c]
        /\ commits'[Len(commits) + 1].author = Outsider
    BY <1>1, <2>1, CommitLine DEF FilesSolo
  <2>4. ASSUME NEW p \in Procs
        PROVE  ReliedOK(proc[p])'
    <3>1. PICK l \in Locals : l = proc[p]
      BY <1>1, LocalsAccess
    <3>2. ReliedOK(l) /\ proc'[p] = l /\ l.unit \in Units /\ l.attempt \in Attempts
      BY <1>1, <3>1 DEF SoloInv, Locals
    <3>3. \A c \in 1..Len(commits') : MadeFor(c, l.unit, l.attempt)' =>
             c \in 1..Len(commits) /\ MadeFor(c, l.unit, l.attempt)
      <4> SUFFICES ASSUME NEW c \in 1..Len(commits'), commits'[c].author = <<l.unit, l.attempt>>
                   PROVE  c \in 1..Len(commits) /\ commits[c].author = <<l.unit, l.attempt>>
        BY DEF MadeFor
      <4>1. c # Len(commits) + 1
        BY <2>3, <3>2, OutsiderIsNobody
      <4> QED BY <2>3, <4>1
    <3>4. \A c \in 1..Len(commits) : c < Len(commits')
      BY <2>3
    <3>5. ReliedOK(l)'
      BY <1>1, <3>2, <3>3, <3>4 DEF ReliedOK
    <3> QED BY <3>2, <3>5
  <2> QED BY <2>2, <2>4 DEF SoloInv
<1> QED BY <1>2, <1>3 DEF Environment

\* Nothing was committed before any command was run.
LEMMA SoloInit == Init => SoloInv
<1> SUFFICES ASSUME Init PROVE SoloInv
  OBVIOUS
<1>1. /\ commits = << >> /\ branch = Trunk /\ Len(commits) = 0
      /\ tips = [b \in Branches |-> IF b = Trunk THEN 0 ELSE NoTip]
      /\ \A p \in Procs : proc[p].pc = "idle"
      /\ \A u \in Units, a \in Attempts : ledger[u][a].head = 0
  BY DEF Init, WorktreeInit, Idle, NoRecord
<1>2. LineInv
  BY <1>1, BranchesAssumption, TrunkAssumption DEF LineInv, HeadCommit
<1>3. AuthorInv /\ BuriedInv /\ AtMostOneCommit
  BY <1>1 DEF AuthorInv, BuriedInv, AtMostOneCommit
<1>4. \A p \in Procs : ReliedOK(proc[p])
  BY <1>1, RestsOK DEF Relied, OpenSteps, SealedSteps
<1> QED BY <1>2, <1>3, <1>4 DEF SoloInv, FilesSolo

\* Every step keeps it.
LEMMA SoloNext ==
    ASSUME OneAtATime, OnePlan
    PROVE  SafetyInv /\ SoloInv /\ [Next]_vars => SoloInv'
<1> SUFFICES ASSUME SafetyInv, SoloInv, [Next]_vars PROVE SoloInv'
  OBVIOUS
<1>1. TypeOK /\ FilesSolo
  BY DEF SafetyInv, SoloInv
<1>2. ASSUME NEW p \in Procs, Crash(p)
      PROVE  SoloInv'
  BY <1>1, <1>2, SameSolo, ReturnSolo DEF Crash, worktreeVars
<1>3. CASE UNCHANGED vars
  <2>1. UNCHANGED <<branch, tips, commits, ledger, proc>>
    BY <1>3 DEF vars
  <2>2. FilesSolo' /\ \A l : ReliedOK(l) => ReliedOK(l)'
    BY <1>1, <2>1, SameSolo
  <2>3. ASSUME NEW p \in Procs
        PROVE  ReliedOK(proc[p])'
    <3>1. PICK l : l = proc[p]
      OBVIOUS
    <3>2. ReliedOK(l)' /\ proc'[p] = l
      BY <2>1, <2>2, <3>1 DEF SoloInv
    <3> QED BY <3>2
  <2> QED BY <2>2, <2>3 DEF SoloInv
<1> QED BY <1>2, <1>3, BeginSolo, CompleteSolo, HoldSolo, EnvironmentSolo DEF Next

\* However often the completion of an attempt dies and is resumed, and whatever
\* others commit in between, the attempt makes at most one commit, as long as
\* commands are run one at a time and for one plan.
THEOREM AttemptsCommitOnce ==
    ASSUME OneAtATime, OnePlan
    PROVE  Spec => []AtMostOneCommit
<1>1. SoloInv => AtMostOneCommit
  BY DEF SoloInv, FilesSolo
<1> QED BY <1>1, SafetyInit, SafetyNext, SoloInit, SoloNext, PTL DEF Spec

\* Nor is a commit given up that landed as it was sealed: if its attempt is held
\* nevertheless, somebody had committed on top of it before.
THEOREM LandedCommitsAreRecognised ==
    ASSUME OneAtATime, OnePlan
    PROVE  Spec => []LandedIsRecognised
<1>1. TypeOK /\ SoloInv => LandedIsRecognised
  <2> SUFFICES ASSUME TypeOK, SoloInv, NEW u \in Units, NEW a \in Attempts,
                      NEW c \in 1..Len(commits),
                      ledger[u][a].status = "held", commits[c].author = <<u, a>>,
                      Matches(c, ledger[u][a])
               PROVE  \E d \in 1..Len(commits) : commits[d].parent = c
    BY DEF LandedIsRecognised
  <2>1. c < Len(commits) /\ Len(commits) \in Nat
    BY DEF SoloInv, FilesSolo, BuriedInv, MadeFor, TypeOK
  <2>2. c + 1 \in 1..Len(commits) /\ (c + 1) - 1 = c
    BY <2>1
  <2>3. commits[c + 1].parent = (c + 1) - 1
    BY <2>2 DEF SoloInv, FilesSolo, LineInv
  <2> QED BY <2>2, <2>3
<1>2. SafetyInv => TypeOK
  BY DEF SafetyInv
<1> QED BY <1>1, <1>2, SafetyInit, SafetyNext, SoloInit, SoloNext, PTL DEF Spec
=============================================================================
