---------------------------- MODULE PlanRecords -----------------------------
(***************************************************************************)
(* The two files that record a plan's progress: log.md, the canonical list *)
(* of completion and needs_work lines, and queue.json, the cache of unit   *)
(* statuses that load_queue recomputes from the log                        *)
(* (codex_flow/plan_readiness.py, codex_flow/plans.py).                    *)
(*                                                                         *)
(* Both files are rewritten whole: a writer replaces the file by the copy  *)
(* it read earlier plus its own change.  Neither write takes a lock.       *)
(***************************************************************************)
EXTENDS Integers

CONSTANTS
    Plans,
    Units,
    PlanOf     \* the plan a commit unit belongs to

ASSUME PlanOfAssumption == PlanOf \in [Units -> Plans]

VARIABLES
    queue,      \* queue.json of every plan, as the entry of each unit
    log         \* log.md of every plan, as the set of its status lines

recordVars == <<queue, log>>

\* "ready" stands for ready and prompted, which the commands treat alike.
UnitStatuses == {"ready", "in_progress", "needs_work", "done"}

Lines == Units \X {"Completed", "needs_work"}

\* A queue entry: the status, the number of the main attempt the unit points
\* to (0 for none) and the ledger revision last copied from it.
Entry(status, attempt, rev) == [status |-> status, attempt |-> attempt, rev |-> rev]
Fresh == Entry("ready", 0, 0)

RecordsInit ==
    /\ queue = [u \in Units |-> Fresh]
    /\ log = [pl \in Plans |-> {}]

-----------------------------------------------------------------------------
(* Reading *)

\* sync_queue_cache_from_plan: a logged completion wins, then a logged
\* needs_work, then what the cache said.
SyncedStatus(lines, u, old) ==
    IF <<u, "Completed">> \in lines THEN "done"
    ELSE IF <<u, "needs_work">> \in lines THEN "needs_work" ELSE old

\* What load_queue returns, as a copy of the plan's own entries.
Synced(pl, entries, lines) ==
    [u \in Units |->
        IF PlanOf[u] = pl
        THEN [entries[u] EXCEPT !.status = SyncedStatus(lines, u, @)]
        ELSE Fresh]

\* conflicting_in_place_plan: another plan whose queue file, taken as it is,
\* has a unit in progress.
ConflictingPlan(pl) ==
    \E u \in Units : PlanOf[u] # pl /\ queue[u].status = "in_progress"

-----------------------------------------------------------------------------
(* Writing *)

\* save_queue: the plan's whole file is replaced by the writer's copy.
SaveQueue(pl, entries) ==
    queue' = [u \in Units |-> IF PlanOf[u] = pl THEN entries[u] ELSE queue[u]]

\* _append_plan_log: the whole file is replaced by what the writer read and
\* one more line.
WriteLog(pl, lines) == log' = [log EXCEPT ![pl] = lines]
=============================================================================
