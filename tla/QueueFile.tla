----------------------------- MODULE QueueFile ------------------------------
(***************************************************************************)
(* queue.json as a file: every command reads it and writes it in place,    *)
(* truncated first and filled afterwards, without a lock                   *)
(* (codex_flow/plans.py, codex_flow/plan_readiness.py).  load_queue reads  *)
(* it twice: a strict read that fails on a torn file, and the read of the  *)
(* cache sync, which takes a torn file for an empty one and writes the     *)
(* result back.                                                            *)
(*                                                                         *)
(* One commit unit.  What the file keeps of it: the status, the persisted  *)
(* execution policy; of the plan: where it executes and the requests.      *)
(***************************************************************************)
EXTENDS ExecutionPolicy

CONSTANTS
    Procs,      \* the processes that run commands on the plan
    Requests,   \* follow-up requests
    Declarations,   \* policies a plan may be created with, before classification
    MaxEdits,   \* bound: edits of plan.md
    MaxCrashes  \* bound: commands that die

ASSUME DeclarationsAssumption == Declarations \subseteq Policies
ASSUME BoundsAssumption == MaxEdits \in Nat /\ MaxCrashes \in Nat

VARIABLES
    file,       \* queue.json
    requestsMd, \* requests.md
    text,       \* what plan.md and the allowed paths show about the unit
    logged,     \* the status that log.md gives the unit, or Missing
    proc,       \* the command of every process
    kept,       \* ghost: the last complete content of the file
    edits, crashes

vars == <<file, requestsMd, text, logged, proc, kept, edits, crashes>>

Torn == [status |-> "torn"]
UnitStatuses == {"ready", "prompted", "in_progress", "done", "needs_work", "blocked", "human_gate"}
Content == [status : UnitStatuses, policy : Policies, context : {"isolated_worktree", Missing},
            requests : SUBSET Requests]

\* read_json of a file that is not readable: no unit, no context, no request.
Empty == [status |-> "ready", policy |-> NoPolicy, context |-> Missing, requests |-> {}]

Commands == {"load", "mark", "requeue", "request", "cleanup"}
Idle == [pc |-> "idle", command |-> "load", view |-> Empty, request |-> Missing]

TypeOK ==
    /\ file \in Content \cup {Torn} /\ kept \in Content
    /\ requestsMd \subseteq Requests
    /\ text \in Evidence
    /\ logged \in {Missing, "needs_work", "done"}
    /\ \A p \in Procs : proc[p].command \in Commands /\ proc[p].view \in Content
    /\ edits \in 0..MaxEdits /\ crashes \in 0..MaxCrashes

\* A plan routed to an isolated worktree, classified when it was created; a unit
\* extracted with little confidence is held for a person.
Init ==
    /\ text \in Evidence
    /\ \E d \in Declarations, status \in {"ready", "human_gate"} :
          file = [status |-> status, policy |-> Classify(d, text),
                  context |-> "isolated_worktree", requests |-> {}]
    /\ kept = file
    /\ requestsMd = {} /\ logged = Missing
    /\ proc = [p \in Procs |-> Idle]
    /\ edits = 0 /\ crashes = 0

-----------------------------------------------------------------------------
At(p, step) == proc[p].pc = step
Become(p, local) == proc' = [proc EXCEPT ![p] = local]
Goto(p, step) == Become(p, [proc[p] EXCEPT !.pc = step])
others == <<text, logged, edits, crashes>>

\* write_text, in its two halves.
Truncate(p, step, next) ==
    /\ At(p, step)
    /\ file' = Torn
    /\ Goto(p, next)
    /\ UNCHANGED <<requestsMd, kept, others>>

Fill(p, next) ==
    /\ file' = proc[p].view
    /\ kept' = proc[p].view
    /\ Goto(p, next)
    /\ UNCHANGED <<requestsMd, others>>

\* The strict read of load_queue: a torn file is a ValueError.
Start(p) ==
    /\ At(p, "idle")
    /\ file # Torn
    /\ \E command \in Commands, request \in Requests :
          Become(p, [Idle EXCEPT !.pc = "sync", !.command = command, !.request = request])
    /\ UNCHANGED <<file, requestsMd, kept, others>>

\* Mutant: a unit without a line in the log keeps no status.
SyncedFromLog(content) ==
    [content EXCEPT !.status = logged, !.policy = Classify(content.policy, text)]

\* sync_queue_cache_from_plan: the log wins over the status, and the persisted
\* policy is classified again with what the plan says now.
Synced(content) ==
    [content EXCEPT !.status = IF logged = Missing THEN @ ELSE logged,
                    !.policy = Classify(content.policy, text)]

\* Mutant: the cache is rebuilt and nothing else of the file is kept.
ReadForSyncRebuilt == [Empty EXCEPT !.policy = IF file = Torn THEN NoPolicy ELSE file.policy]

\* The lenient read of the sync.
ReadForSync == IF file = Torn THEN Empty ELSE file

SyncRead(p) ==
    /\ At(p, "sync")
    /\ Become(p, [proc[p] EXCEPT !.pc = "truncate", !.view = Synced(ReadForSync)])
    /\ UNCHANGED <<file, requestsMd, kept, others>>

SyncTruncate(p) == Truncate(p, "truncate", "fill")
SyncFill(p) == At(p, "fill") /\ Fill(p, "change")

\* Mutant: a request makes the unit ready for the follow-up.
ChangedByRequest(p, status) ==
    LET view == proc[p].view
    IN  CASE proc[p].command = "mark" -> [view EXCEPT !.status = status]
          [] proc[p].command = "requeue" -> [view EXCEPT !.status = "ready"]
          [] proc[p].command = "request" ->
                [view EXCEPT !.requests = @ \cup {proc[p].request}, !.status = "ready"]

\* What the command does with the queue it loaded: mark_unit,
\* requeue_unfinished_units, append_plan_request (requests.md is written
\* first), or nothing.
Changed(p, status) ==
    LET view == proc[p].view
    IN  CASE proc[p].command = "mark" -> [view EXCEPT !.status = status]
          [] proc[p].command = "requeue" -> [view EXCEPT !.status = "ready"]
          [] proc[p].command = "request" -> [view EXCEPT !.requests = @ \cup {proc[p].request}]

ChangeQueue(p) ==
    /\ At(p, "change")
    /\ proc[p].command \in {"mark", "requeue", "request"}
    /\ proc[p].command = "requeue" => proc[p].view.status \notin {"done", "ready"}
    /\ \E status \in UnitStatuses :
          Become(p, [proc[p] EXCEPT !.pc = "save", !.view = Changed(p, status)])
    /\ requestsMd' = IF proc[p].command = "request" THEN requestsMd \cup {proc[p].request}
                     ELSE requestsMd
    /\ UNCHANGED <<file, kept, others>>

\* Nothing to change: the command ends.
LeaveQueue(p) ==
    /\ At(p, "change")
    /\ \/ proc[p].command = "load"
       \/ proc[p].command = "requeue" /\ proc[p].view.status \in {"done", "ready"}
    /\ Become(p, Idle)
    /\ UNCHANGED <<file, requestsMd, kept, others>>

\* persist_execution_context reads the file once more, strictly, and writes it
\* back with the context it was given.
PersistContext(p) ==
    /\ At(p, "change")
    /\ proc[p].command = "cleanup"
    /\ IF file = Torn THEN Become(p, Idle)
       ELSE Become(p, [proc[p] EXCEPT !.pc = "save",
                         !.view = [file EXCEPT !.context = proc[p].view.context]])
    /\ UNCHANGED <<file, requestsMd, kept, others>>

\* save_queue.
SaveTruncate(p) == Truncate(p, "save", "save_fill")
SaveFill(p) ==
    /\ At(p, "save_fill")
    /\ file' = proc[p].view /\ kept' = proc[p].view
    /\ Become(p, Idle)
    /\ UNCHANGED <<requestsMd, others>>

Crash(p) ==
    /\ ~At(p, "idle") /\ crashes < MaxCrashes
    /\ crashes' = crashes + 1
    /\ Become(p, Idle)
    /\ UNCHANGED <<file, requestsMd, text, logged, kept, edits>>

\* The plan is edited, or another command appends to the log.
Edit ==
    /\ edits < MaxEdits
    /\ edits' = edits + 1
    /\ \/ text' \in Evidence \ {text} /\ UNCHANGED logged
       \/ logged' \in {"needs_work", "done"} \ {logged} /\ logged # "done" /\ UNCHANGED text
    /\ UNCHANGED <<file, requestsMd, proc, kept, crashes>>

Command(p) == Start(p) \/ SyncRead(p) \/ SyncTruncate(p) \/ SyncFill(p) \/ ChangeQueue(p)
              \/ LeaveQueue(p) \/ PersistContext(p) \/ SaveTruncate(p) \/ SaveFill(p)

Next == (\E p \in Procs : Command(p) \/ Crash(p)) \/ Edit
Spec == Init /\ [][Next]_vars

-----------------------------------------------------------------------------
(* Properties                                                               *)

\* From one complete queue.json to the next, a unit's protection is never
\* lowered: not its effective profile, not its isolation, not its own review,
\* however plan.md was edited in between.
ProtectionKept ==
    [][LET old == kept.policy
           new == kept'.policy
       IN  /\ Rank[new.effective] >= Rank[old.effective]
           /\ old.adapter = "isolated-child" => new.adapter = "isolated-child"
           /\ old.review = "per_unit" => new.review = "per_unit"]_kept

\* A plan that executes in a worktree of its own never falls back to the
\* source checkout.
ContextKept == kept.context = "isolated_worktree"

\* A unit held for a person becomes ready by a mark, or by the requeue before
\* create-pr and merge, which asks nobody: not by a load, a request, a cleanup
\* or what a dead command left behind.
HeldForPerson ==
    [][kept.status = "human_gate" /\ kept'.status = "ready" =>
          \E p \in Procs : ~At(p, "idle") /\ proc[p].command \in {"mark", "requeue"}]_kept

\* A request that was routed to the plan is in queue.json when no command
\* runs and none has died.
RequestsKept ==
    crashes = 0 /\ (\A p \in Procs : At(p, "idle")) => requestsMd = kept.requests
=============================================================================
