------------------------- MODULE AttemptSupervisor --------------------------
(***************************************************************************)
(* The supervision of one child process (codex_flow/attempt_supervisor.py): *)
(* poll it, notice its progress, stop it when it is cancelled, too late or *)
(* silent, and close the attempt in the ledger when its whole process      *)
(* group is gone.                                                          *)
(*                                                                         *)
(* Time is counted in polls.  The group is the child (leader) and what it  *)
(* started.  A member may ignore SIGTERM; one that hangs in the kernel     *)
(* outlives SIGKILL for a while; one that leaves the process group, or     *)
(* runs as another user, is out of reach: no signal gets to it, and        *)
(* killpg(group, 0) does not tell that it is there.                        *)
(***************************************************************************)
EXTENDS Integers

CONSTANTS
    Attempts,       \* what an attempt may be started with: the profile, the
                    \* polls until it is stopped (0 for no limit), and what
                    \* its processes may do: start another one, hang in the
                    \* kernel, get out of reach, wait instead of computing, or
                    \* be such that ps does not answer for them
    SlowAfter, StalledAfter, TakeoverAfter, \* thresholds of silence, in polls
    Grace,          \* polls between SIGTERM and SIGKILL, and of a wait
    CpuGrain,       \* polls of work until ps shows another CPU time
    RoundTime,      \* polls that one round of the loop takes at most
    MaxTime         \* bound: the loop sleeps until then

ASSUME AttemptsAssumption ==
    Attempts \subseteq [profile : {"docs_only", "contract", "high_risk"}, limit : Nat,
                         may : SUBSET {"fork", "hang", "leave", "block", "hide"}]
ASSUME ThresholdAssumption ==
    /\ {SlowAfter, StalledAfter, TakeoverAfter, Grace, RoundTime, MaxTime} \subseteq Nat
    /\ CpuGrain \in Nat \ {0}

VARIABLES
    attempt,    \* what this attempt was started with
    now,        \* the clock
    pc,         \* where run stands
    group,      \* the processes of the attempt that are alive
    returncode, \* what the leader exited with
    hanging,    \* members that hang in the kernel
    busy,       \* the leader computes
    cpu,        \* polls it has computed for
    lines,      \* when the last progress line was queued that is not drained yet
    files,      \* when an allowed file was last written since the diff was probed
                \* (both until the loop is left: later nobody asks)
    cancel,     \* the marker of an operator's cancel request
    round,      \* the locals of a round of the loop: the clock as it read it,
                \* whether there was progress, whether the child is silent
    progress,   \* ProgressState and the last CPU time ps has shown
    seen,       \* ghost: when the leader had last written, as far as the
                \* supervisor has looked, and what it had computed at the last
                \* three probes of the CPU time
    deadline,   \* when the step under way times out
    signalled,  \* SIGTERM was sent, SIGKILL follows
    reason,     \* why the attempt ends
    ledger,     \* status and descendants_remaining, in the attempt ledger
    outcome,    \* what run_codex_exec gives its caller
    stopped     \* ghost: the supervisor has decided to stop the child

childVars == <<attempt, group, returncode, hanging, busy, cpu>>
loopVars == <<lines, files, round, progress, seen>>
endVars == <<deadline, signalled, reason, ledger, outcome, stopped>>
vars == <<now, pc, cancel, childVars, loopVars, endVars>>

\* A descendant that gets out of reach is a stray.
Members == {"leader", "descendant", "stray"}
LeaderRuns == "leader" \in group
Reached == group \ {"stray"}
Visible == "hide" \notin attempt.may

NoWrite == -1
\* After the loop there are five waits of Grace at most.
LastTime == MaxTime + RoundTime + 5 * Grace
Times == {NoWrite} \cup 0..LastTime
NoRound == [now |-> 0, heard |-> FALSE, silent |-> FALSE]
NoProgress == [at |-> 0, failed |-> 0, shown |-> -1, slow |-> FALSE, stalled |-> FALSE]
NothingSeen == [wrote |-> 0, probed |-> <<0, 0, 0>>]

Reasons == {"completed", "explicit_cancelled", "hard_timeout", "main_takeover_ready",
            "process_failure", "process_cleanup_failed", "supervisor_probe_failed",
            "stdin_write_failed"}
RoundSteps == {"cancel", "diff", "cpu", "decide"}
Looping == {"poll", "drain", "sleep"} \cup RoundSteps
Steps == {"stop", "wait", "stop-again", "wait-again", "sweep",
          "last-stop", "close", "closed", "raised", "returned"} \cup Looping

TypeOK ==
    /\ attempt \in Attempts
    /\ now \in 0..LastTime /\ deadline \in 0..LastTime
    /\ pc \in Steps
    /\ group \subseteq Members /\ hanging \subseteq Members
    /\ returncode \in {0, 1}
    /\ {busy, cancel, signalled, stopped} \subseteq BOOLEAN
    /\ cpu \in 0..LastTime /\ lines \in Times /\ files \in Times
    /\ round \in [now : 0..LastTime, heard : BOOLEAN, silent : BOOLEAN]
    /\ seen \in [wrote : 0..LastTime, probed : (0..LastTime) \X (0..LastTime) \X (0..LastTime)]
    /\ progress \in [at : 0..LastTime, failed : Nat, shown : -1..LastTime,
                     slow : BOOLEAN, stalled : BOOLEAN]
    /\ reason \in Reasons
    /\ ledger \in [status : {"running", "pass", "diagnostic_redaction_failed"}
                             \cup (Reasons \ {"completed"}), remaining : BOOLEAN]
    /\ outcome \in {"none", "result", "timeout", "failure"}

Init ==
    /\ attempt \in Attempts
    /\ now = 0 /\ pc = "poll"
    /\ group = {"leader"} /\ returncode = 0 /\ hanging = {} /\ busy = TRUE /\ cpu = 0
    /\ lines = NoWrite /\ files = NoWrite /\ cancel = FALSE
    /\ round = NoRound /\ progress = NoProgress /\ seen = NothingSeen
    /\ deadline = 0 /\ signalled = FALSE /\ reason = "completed" /\ stopped = FALSE
    /\ ledger = [status |-> "running", remaining |-> FALSE] /\ outcome = "none"

-----------------------------------------------------------------------------
(* Watching                                                                 *)

Goto(step) == pc' = step
Watched == <<now, cancel, childVars, signalled, ledger, outcome>>

\* The loop is left: nothing reads its locals after that.
LeavesLoop ==
    /\ lines' = NoWrite /\ files' = NoWrite
    /\ round' = NoRound /\ progress' = NoProgress /\ seen' = NothingSeen

\* process.poll, at the head of the loop.
Poll ==
    /\ pc = "poll"
    /\ \/ LeaderRuns /\ Goto("drain") /\ UNCHANGED <<loopVars, deadline>>
       \/ ~LeaderRuns /\ Goto("wait") /\ LeavesLoop /\ deadline' = now + Grace
    /\ UNCHANGED <<Watched, reason, stopped>>

\* A round of the loop ends it, for a reason to stop the child.
Leave(why) ==
    /\ Goto("stop") /\ LeavesLoop
    /\ reason' = why
    /\ stopped' = TRUE

\* The round goes on.
GoOn(step) == Goto(step) /\ UNCHANGED <<reason, stopped>>

\* What was written at the time t has now been noticed.
Noticing(t) == IF t > seen.wrote THEN [seen EXCEPT !.wrote = t] ELSE seen

\* _drain and the clock.
Drain ==
    /\ pc = "drain"
    /\ GoOn("cancel")
    /\ round' = [NoRound EXCEPT !.now = now, !.heard = lines # NoWrite]
    /\ lines' = NoWrite
    /\ seen' = Noticing(lines)
    /\ UNCHANGED <<Watched, files, progress, deadline>>

\* effective_hard_timeout has passed.
TimedOut == attempt.limit # 0 /\ round.now >= attempt.limit

\* cancel_probe, then the hard timeout.
CheckCancel ==
    /\ pc = "cancel"
    /\ \/ cancel /\ Leave("explicit_cancelled")
       \/ ~cancel /\ TimedOut /\ Leave("hard_timeout")
       \/ ~cancel /\ ~TimedOut /\ GoOn("diff") /\ UNCHANGED loopVars
    /\ UNCHANGED <<Watched, deadline>>

\* diff_probe: the diff of the allowed files is another one than last time.
ProbeDiff ==
    /\ pc = "diff"
    /\ GoOn("cpu")
    /\ round' = [round EXCEPT !.heard = @ \/ files # NoWrite]
    /\ files' = NoWrite
    /\ seen' = Noticing(files)
    /\ UNCHANGED <<Watched, lines, progress, deadline>>

\* Mutant: a child that shows no output is silent, whatever it computes.
SilentAlways(answered) == TRUE

\* ProcessActivityProbe: ps does not answer, or the CPU time is what it was when
\* ps last answered.
Silent(answered) == ~answered \/ progress.shown = cpu \div CpuGrain

ProbeCpu ==
    /\ pc = "cpu"
    /\ GoOn("decide")
    /\ \E answered \in {TRUE, Visible} :
          /\ round' = [round EXCEPT !.silent = Silent(answered)]
          /\ progress' = IF answered THEN [progress EXCEPT !.shown = cpu \div CpuGrain] ELSE progress
    /\ seen' = [seen EXCEPT !.probed = <<@[2], @[3], cpu>>]
    /\ UNCHANGED <<Watched, lines, files, deadline>>

\* The drain and each of the probes may raise.
ProbeFails ==
    /\ pc \in {"drain", "cancel", "diff", "cpu"}
    /\ Leave("supervisor_probe_failed")
    /\ UNCHANGED <<Watched, deadline>>

\* ProgressState.observe: progress starts the silence again; a stalled child that
\* is not silent clears the count of silent probes.
Observed ==
    LET at == IF round.heard THEN round.now ELSE progress.at
        age == round.now - at
        counted == IF round.heard THEN 0 ELSE progress.failed
    IN  [at |-> at,
         shown |-> progress.shown,
         failed |-> IF age < StalledAfter THEN counted
                    ELSE IF round.silent THEN counted + 1 ELSE 0,
         slow |-> (~round.heard /\ progress.slow) \/ age >= SlowAfter,
         stalled |-> (~round.heard /\ progress.stalled) \/ age >= StalledAfter]

TakenOver(observed) ==
    attempt.profile = "docs_only" /\ round.now - observed.at >= TakeoverAfter /\ observed.failed >= 2

\* The child is taken over, or watched on after a while.
Decide ==
    /\ pc = "decide"
    /\ \/ TakenOver(Observed) /\ Leave("main_takeover_ready")
       \/ /\ ~TakenOver(Observed) /\ GoOn("sleep")
          /\ progress' = Observed
          /\ round' = NoRound
          /\ UNCHANGED <<lines, files, seen>>
    /\ UNCHANGED <<Watched, deadline>>

-----------------------------------------------------------------------------
(* Stopping and closing                                                     *)

Rest == <<loopVars, cancel, now, outcome>>

\* Mutant: the group is taken to be gone with its leader.
GroupAliveLeader == LeaderRuns

\* _group_alive: there is a process in the group that may be signalled;
\* PermissionError says that there is none.
GroupAlive == Reached # {}

\* _terminate_group: SIGTERM, which some members obey and some ignore; later
\* SIGKILL for the members that are left.  A child that obeys may exit with 0.
\* A stray gets neither signal.
SendTerm(step) ==
    /\ pc = step /\ ~signalled
    /\ \E obey \in SUBSET (Reached \ hanging) :
          /\ group' = group \ obey
          /\ IF "leader" \in obey THEN returncode' \in {0, 1} ELSE UNCHANGED returncode
    /\ signalled' = TRUE
    /\ deadline' = now + Grace
    /\ stopped' = (stopped \/ LeaderRuns)
    /\ UNCHANGED <<attempt, pc, hanging, busy, cpu, Rest, reason, ledger>>

SendKill(step, next) ==
    /\ pc = step /\ signalled
    /\ now >= deadline \/ ~GroupAlive
    /\ group' = group \cap (hanging \cup {"stray"})
    /\ returncode' = IF LeaderRuns /\ "leader" \notin group' THEN 1 ELSE returncode
    /\ signalled' = FALSE
    /\ deadline' = now + Grace
    /\ Goto(next)
    /\ UNCHANGED <<attempt, hanging, busy, cpu, Rest, reason, ledger, stopped>>

\* After the loop: the child is stopped unless it exited meanwhile.
StopOrWait ==
    /\ pc = "stop" /\ ~signalled /\ ~LeaderRuns
    /\ deadline' = now + Grace
    /\ Goto("wait")
    /\ UNCHANGED <<childVars, Rest, signalled, reason, ledger, stopped>>

\* Mutant: process.wait() has no timeout.
WaitForLeader(step, late) ==
    /\ pc = step
    /\ ~LeaderRuns /\ Goto("sweep")
    /\ UNCHANGED <<childVars, Rest, deadline, signalled, reason, ledger, stopped>>

\* process.wait(timeout): once more with another termination, then it raises.
Wait(step, late) ==
    /\ pc = step
    /\ \/ ~LeaderRuns /\ Goto("sweep")
       \/ LeaderRuns /\ now >= deadline /\ Goto(late)
    /\ UNCHANGED <<childVars, Rest, deadline, signalled, reason, ledger, stopped>>

\* The finally clause: descendants that outlive the leader are stopped too.
Sweep ==
    /\ pc = "sweep" /\ ~signalled
    /\ ~GroupAlive
    /\ Goto("close")
    /\ UNCHANGED <<childVars, Rest, deadline, signalled, reason, ledger, stopped>>

\* Mutant: a child that ends with 0 has passed, whatever stopped it.
FinalReasonByReturncode(written) ==
    IF GroupAlive THEN "process_cleanup_failed"
    ELSE IF returncode = 0 THEN "completed"
    ELSE IF reason = "completed" THEN "process_failure" ELSE reason

\* Whether the prompt was written to the child in full.
FinalReason(written) ==
    IF GroupAlive THEN "process_cleanup_failed"
    ELSE IF reason # "completed" THEN reason
    ELSE IF returncode # 0 THEN "process_failure"
    ELSE IF written THEN "completed" ELSE "stdin_write_failed"

FinalStatus(why) == IF why = "completed" THEN "pass" ELSE why

Close ==
    /\ pc = "close"
    /\ \E written \in BOOLEAN : reason' = FinalReason(written)
    /\ ledger' = [status |-> FinalStatus(reason'), remaining |-> GroupAlive]
    /\ Goto("closed")
    /\ UNCHANGED <<childVars, Rest, deadline, signalled, stopped>>

\* The end of run_codex_exec: the last message is redacted, which may fail; a
\* failure is noted in the ledger, and the caller gets a result or an exception.
Return ==
    /\ pc \in {"closed", "raised"}
    /\ Goto("returned")
    /\ \E redacted \in BOOLEAN :
          /\ ledger' = IF redacted \/ pc = "raised" THEN ledger
                       ELSE [ledger EXCEPT !.status = "diagnostic_redaction_failed"]
          /\ outcome' = IF pc = "raised" \/ reason = "hard_timeout" THEN "timeout"
                        ELSE IF reason = "completed" /\ redacted THEN "result"
                        ELSE "failure"
    /\ UNCHANGED <<childVars, loopVars, cancel, now, deadline, signalled, reason, stopped>>

-----------------------------------------------------------------------------
(* The child, the operator and the clock                                    *)

Stop ==
    \/ LeaderRuns /\ SendTerm("stop")
    \/ SendKill("stop", "wait")
    \/ SendTerm("stop-again")
    \/ SendKill("stop-again", "wait-again")
    \/ GroupAlive /\ SendTerm("sweep")
    \/ SendKill("sweep", "close")
    \/ SendTerm("last-stop")
    \/ SendKill("last-stop", "raised")

Round == Drain \/ CheckCancel \/ ProbeDiff \/ ProbeCpu \/ ProbeFails \/ Decide
Supervisor == Poll \/ Round \/ StopOrWait \/ Stop \/ Wait("wait", "stop-again")
              \/ Wait("wait-again", "last-stop") \/ Sweep \/ Close \/ Return

Same == UNCHANGED <<attempt, now, pc, cpu, round, progress, seen, endVars>>

LeaderExits ==
    /\ LeaderRuns /\ "leader" \notin hanging
    /\ group' = group \ {"leader"}
    /\ returncode' \in {0, 1}
    /\ UNCHANGED <<hanging, busy, lines, files, cancel>> /\ Same

\* The leader writes a progress event or an allowed file, or starts another
\* process.
LeaderWorks ==
    /\ LeaderRuns
    /\ \/ pc \in Looping /\ lines' = now /\ UNCHANGED <<files, group>>
       \/ pc \in Looping /\ files' = now /\ UNCHANGED <<lines, group>>
       \/ "fork" \in attempt.may /\ group' = group \cup {"descendant"} /\ UNCHANGED <<lines, files>>
    /\ UNCHANGED <<returncode, hanging, busy, cancel>> /\ Same

\* The leader waits for something, or computes again.
LeaderBlocks ==
    /\ "block" \in attempt.may /\ LeaderRuns /\ pc \in Looping
    /\ busy' = ~busy
    /\ UNCHANGED <<group, returncode, hanging, lines, files, cancel>> /\ Same

DescendantExits ==
    /\ \E m \in group \ (hanging \cup {"leader"}) : group' = group \ {m}
    /\ UNCHANGED <<returncode, hanging, busy, lines, files, cancel>> /\ Same

\* A descendant starts a session of its own, or goes on as another user.
DescendantLeaves ==
    /\ "leave" \in attempt.may /\ "descendant" \in group \ hanging
    /\ group' = (group \ {"descendant"}) \cup {"stray"}
    /\ UNCHANGED <<returncode, hanging, busy, lines, files, cancel>> /\ Same

Hang ==
    /\ "hang" \in attempt.may /\ hanging = {}
    /\ \E m \in Reached : hanging' = {m}
    /\ UNCHANGED <<group, returncode, busy, lines, files, cancel>> /\ Same

\* request_cancel: the attempt is running when the marker is written.
RequestCancel ==
    /\ ~cancel /\ ledger.status = "running"
    /\ cancel' = TRUE
    /\ UNCHANGED <<group, returncode, hanging, busy, lines, files>> /\ Same

\* Time passes while the supervisor sleeps or waits, not after the wait is over,
\* and in a round of the loop for RoundTime at most.
Tick ==
    /\ \/ pc = "sleep" /\ now < MaxTime
       \/ pc \in RoundSteps /\ now < round.now + RoundTime
       \/ pc \in {"wait", "wait-again"} /\ LeaderRuns /\ now < deadline
       \/ signalled /\ GroupAlive /\ now < deadline
    /\ now' = now + 1
    /\ cpu' = IF LeaderRuns /\ busy /\ pc \in Looping THEN cpu + 1 ELSE cpu
    /\ pc' = IF pc = "sleep" THEN "poll" ELSE pc
    /\ UNCHANGED <<attempt, group, returncode, hanging, busy, cancel, loopVars, endVars>>

Environment == LeaderExits \/ LeaderWorks \/ LeaderBlocks \/ DescendantExits
               \/ DescendantLeaves \/ Hang \/ RequestCancel

Next == Supervisor \/ Environment \/ Tick
Spec == Init /\ [][Next]_vars

\* The supervisor runs and the clock goes on; nothing is asked of the child.
FairSpec == Spec /\ WF_vars(Supervisor) /\ WF_vars(Tick)

-----------------------------------------------------------------------------
(* Properties                                                               *)

\* When the ledger says that no descendant remains, no process of the attempt
\* is left that could still write to the checkout, but for those that no signal
\* would have reached.
ClosedMeansGone == ledger.status # "running" /\ ~ledger.remaining => group \subseteq {"stray"}

\* An attempt passes, and its caller gets a result, only if the child ended by
\* itself, with 0: once the supervisor has decided to stop it or has signalled
\* it, a late answer of 0 does not count.
PassIsUndisturbed ==
    ledger.status = "pass" \/ outcome = "result" => returncode = 0 /\ ~stopped

\* A child is taken over only after it has written nothing for TakeoverAfter
\* polls, less the time one round may take, among all that was there when the
\* supervisor looked: lines at the drain of the round that decides, files at its
\* diff probe.  What is written between these and the decision comes too late.
\* And while ps answers, only a child that has computed for less than CpuGrain
\* between the last probe and the last but two: one that has shown work is alive,
\* however silent it is.
TakeoverIsEarned ==
    [][reason # reason' /\ reason' = "main_takeover_ready" =>
          /\ round.now - seen.wrote >= TakeoverAfter - RoundTime
          /\ Visible => seen.probed[3] - seen.probed[1] < CpuGrain]_vars

\* An attempt with a hard timeout comes to an end, whatever its child does:
\* it ignores SIGTERM, leaves descendants behind or hangs in the kernel.
Ends == attempt.limit # 0 ~> pc = "returned"
=============================================================================
