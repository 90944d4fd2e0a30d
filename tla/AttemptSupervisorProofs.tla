----------------------- MODULE AttemptSupervisorProofs -----------------------
(***************************************************************************)
(* What the supervision of a child promises for every attempt, threshold   *)
(* and clock: when the ledger says that nothing remains of an attempt,     *)
(* nothing does that a signal would have reached, and an attempt that was  *)
(* stopped never passes.  Last, when a child may be taken over.            *)
(***************************************************************************)
EXTENDS AttemptSupervisor, TLAPS

Statuses == {"running", "pass", "diagnostic_redaction_failed"} \cup (Reasons \ {"completed"})

\* The part of the type that the argument needs.
Typed ==
    /\ pc \in Steps /\ group \subseteq Members /\ reason \in Reasons
    /\ ledger \in [status : Statuses, remaining : BOOLEAN]
    /\ stopped \in BOOLEAN
    /\ outcome \in {"none", "result", "timeout", "failure"}

Stopping == {"stop", "stop-again", "wait-again", "last-stop", "raised"}

\* A reason to stop the child is there whenever it is stopped; without one the
\* child has left the loop by itself.
StoppedInv ==
    /\ reason = "completed" => ~stopped
    /\ reason = "completed" /\ LeaderRuns => pc \in Looping
    /\ pc \in Stopping => reason # "completed"

\* What Close has found stays so, as nothing is started without the leader.
ClosedInv ==
    /\ pc = "closed" => ledger.status # "running"
    /\ pc \in {"closed", "returned"} /\ reason = "completed" => Reached = {} /\ returncode = 0
    /\ ledger.status = "pass" => pc \in {"closed", "returned"} /\ reason = "completed"
    /\ outcome = "result" => pc = "returned" /\ reason = "completed"

IInv == Typed /\ StoppedInv /\ ClosedInv /\ ClosedMeansGone

LEMMA InitIInv == Init => IInv
<1> SUFFICES ASSUME Init PROVE IInv
  OBVIOUS
<1>1. /\ pc = "poll" /\ group = {"leader"} /\ reason = "completed" /\ stopped = FALSE
      /\ ledger = [status |-> "running", remaining |-> FALSE] /\ outcome = "none"
  BY DEF Init
<1>2. Typed
  BY <1>1 DEF Typed, Steps, Looping, RoundSteps, Statuses, Reasons, Members
<1>3. StoppedInv
  BY <1>1 DEF StoppedInv, Looping, Stopping
<1>4. ClosedInv /\ ClosedMeansGone
  BY <1>1 DEF ClosedInv, ClosedMeansGone
<1> QED BY <1>2, <1>3, <1>4 DEF IInv

\* A step within the loop, or from it to a stop, moves neither group nor ledger.
LEMMA LoopStep ==
    ASSUME IInv, pc \in Looping, UNCHANGED <<group, returncode, ledger, outcome>>,
           \/ pc' \in Looping /\ UNCHANGED <<reason, stopped>>
           \/ pc' = "stop" /\ stopped' = TRUE /\ reason' \in Reasons \ {"completed"}
           \/ pc' = "wait" /\ ~LeaderRuns /\ UNCHANGED <<reason, stopped>>
    PROVE  IInv'
<1>1. LeaderRuns' = LeaderRuns /\ Reached' = Reached /\ ClosedMeansGone'
  BY DEF LeaderRuns, Reached, IInv, ClosedMeansGone
<1>2. Typed'
  BY DEF IInv, Typed, Steps
<1>3. StoppedInv'
  BY <1>1 DEF IInv, StoppedInv, Looping, RoundSteps, Stopping
<1>4. ClosedInv'
  BY <1>1 DEF IInv, ClosedInv, Looping, RoundSteps
<1> QED BY <1>1, <1>2, <1>3, <1>4 DEF IInv

LEMMA WatchStep == IInv /\ (Poll \/ Round) => IInv'
<1> SUFFICES ASSUME IInv, Poll \/ Round PROVE IInv'
  OBVIOUS
<1> USE DEF Watched, childVars, Goto, GoOn, Leave, Looping, RoundSteps
<1>1. CASE Poll
  BY <1>1, LoopStep DEF Poll
<1>2. CASE Drain
  BY <1>2, LoopStep DEF Drain
<1>3. CASE CheckCancel
  BY <1>3, LoopStep DEF CheckCancel, Reasons
<1>4. CASE ProbeDiff
  BY <1>4, LoopStep DEF ProbeDiff
<1>5. CASE ProbeCpu
  BY <1>5, LoopStep DEF ProbeCpu
<1>6. CASE ProbeFails
  BY <1>6, LoopStep DEF ProbeFails, Reasons
<1>7. CASE Decide
  BY <1>7, LoopStep DEF Decide, Reasons
<1> QED BY <1>1, <1>2, <1>3, <1>4, <1>5, <1>6, <1>7 DEF Round

LEMMA SendTermStep ==
    ASSUME IInv, NEW step \in Stopping \cup {"sweep"}, SendTerm(step), step = "stop" => LeaderRuns
    PROVE  IInv'
<1>1. group' \subseteq group /\ (ledger.status # "running" /\ ~ledger.remaining => group \subseteq {"stray"})
  BY DEF SendTerm, IInv, ClosedMeansGone
<1>2. /\ pc = step /\ pc' = pc /\ pc \notin Looping /\ pc \notin {"closed", "returned"}
      /\ UNCHANGED <<reason, ledger, outcome>> /\ stopped' \in BOOLEAN
      /\ stopped' = (stopped \/ LeaderRuns)
  BY DEF SendTerm, Rest, Looping, RoundSteps, Stopping, IInv, Typed
<1>3. Typed' /\ ClosedMeansGone'
  BY <1>1, <1>2 DEF IInv, Typed, ClosedMeansGone
<1>4. StoppedInv'
  BY <1>1, <1>2 DEF IInv, StoppedInv, LeaderRuns
<1>5. ClosedInv'
  BY <1>2 DEF IInv, ClosedInv
<1> QED BY <1>3, <1>4, <1>5 DEF IInv

LEMMA SendKillStep ==
    ASSUME IInv, NEW step, NEW next, SendKill(step, next),
           <<step, next>> \in {<<"stop", "wait">>, <<"stop-again", "wait-again">>,
                               <<"sweep", "close">>, <<"last-stop", "raised">>}
    PROVE  IInv'
BY DEF IInv, Typed, StoppedInv, ClosedInv, ClosedMeansGone, Steps, RoundSteps, Looping, Stopping,
       SendKill, Rest, Goto, LeaderRuns

LEMMA WaitStep ==
    ASSUME IInv, NEW step, NEW late, Wait(step, late),
           <<step, late>> \in {<<"wait", "stop-again">>, <<"wait-again", "last-stop">>}
    PROVE  IInv'
BY DEF IInv, Typed, StoppedInv, ClosedInv, ClosedMeansGone, Steps, RoundSteps, Looping, Stopping,
       Wait, Rest, childVars, Goto, LeaderRuns

LEMMA StopOrWaitStep == IInv /\ StopOrWait => IInv'
BY DEF IInv, Typed, StoppedInv, ClosedInv, ClosedMeansGone, Steps, RoundSteps, Looping, Stopping,
       StopOrWait, Rest, childVars, Goto, LeaderRuns

LEMMA SweepStep == IInv /\ Sweep => IInv'
BY DEF IInv, Typed, StoppedInv, ClosedInv, ClosedMeansGone, Steps, RoundSteps, Looping, Stopping,
       Sweep, Rest, childVars, Goto, LeaderRuns

LEMMA CloseStep == IInv /\ Close => IInv'
<1> SUFFICES ASSUME IInv, Close PROVE IInv'
  OBVIOUS
<1> USE DEF Close, Rest, childVars, Goto
<1>1. reason' \in Reasons /\ (reason' = "completed" => reason = "completed" /\ Reached = {} /\ returncode = 0)
  BY DEF IInv, Typed, Reasons, FinalReason, GroupAlive
<1>2. /\ ledger'.status = FinalStatus(reason') /\ ledger'.remaining = GroupAlive
      /\ ledger' \in [status : Statuses, remaining : BOOLEAN]
      /\ ledger'.status # "running"
      /\ ledger'.status = "pass" => reason' = "completed"
  BY <1>1 DEF GroupAlive, FinalStatus, Statuses, Reasons
<1>3. Typed'
  BY <1>1, <1>2 DEF IInv, Typed, Steps
<1>4. StoppedInv'
  <2>1. reason' = "completed" => ~LeaderRuns'
    BY <1>1 DEF LeaderRuns, Reached
  <2> QED BY <1>1, <2>1 DEF IInv, StoppedInv, Stopping
<1>5. ClosedInv'
  BY <1>1, <1>2 DEF IInv, ClosedInv, Reached
<1>6. ClosedMeansGone'
  <2>1. UNCHANGED group /\ (~GroupAlive => group \subseteq {"stray"})
    BY DEF GroupAlive, Reached
  <2> QED BY <1>2, <2>1 DEF ClosedMeansGone
<1> QED BY <1>3, <1>4, <1>5, <1>6 DEF IInv

LEMMA ReturnStep == IInv /\ Return => IInv'
BY DEF IInv, Typed, StoppedInv, ClosedInv, ClosedMeansGone, Steps, RoundSteps, Statuses, Looping,
       Stopping, Return, childVars, Goto, LeaderRuns, Reached

\* The processes come and go, but nothing new comes without the leader.
LEMMA EnvironmentStep == IInv /\ Environment => IInv'
<1> SUFFICES ASSUME IInv, Environment PROVE IInv'
  OBVIOUS
<1>1. UNCHANGED <<pc, reason, ledger, outcome, stopped>>
  BY DEF Environment, LeaderExits, LeaderWorks, LeaderBlocks, DescendantExits, DescendantLeaves,
         Hang, RequestCancel, Same, endVars
<1>2. /\ group' \subseteq Members /\ (LeaderRuns' => LeaderRuns)
      /\ group \subseteq {"stray"} => group' \subseteq {"stray"} /\ UNCHANGED returncode
  BY DEF Environment, LeaderExits, LeaderWorks, LeaderBlocks, DescendantExits, DescendantLeaves,
         Hang, RequestCancel, LeaderRuns, Members, IInv, Typed
<1>3. group \subseteq {"stray"} <=> Reached = {}
  BY DEF Reached
<1>4. group' \subseteq {"stray"} <=> Reached' = {}
  BY DEF Reached
<1> QED BY <1>1, <1>2, <1>3, <1>4 DEF IInv, Typed, StoppedInv, ClosedInv, ClosedMeansGone

LEMMA TickStep == IInv /\ Tick => IInv'
<1> SUFFICES ASSUME IInv, Tick PROVE IInv'
  OBVIOUS
<1>1. /\ \/ pc' = pc
         \/ pc = "sleep" /\ pc' = "poll"
      /\ UNCHANGED <<group, returncode, reason, ledger, outcome, stopped>>
      /\ LeaderRuns' = LeaderRuns /\ Reached' = Reached
  BY Zenon DEF Tick, LeaderRuns, Reached, endVars
<1> QED BY <1>1 DEF IInv, Typed, StoppedInv, ClosedInv, ClosedMeansGone, Steps, RoundSteps, Looping, Stopping

LEMMA NextIInv == IInv /\ [Next]_vars => IInv'
<1> SUFFICES ASSUME IInv, [Next]_vars PROVE IInv'
  OBVIOUS
<1>1. CASE Stop
  BY <1>1, SendTermStep, SendKillStep DEF Stop, Stopping
<1>2. CASE Wait("wait", "stop-again") \/ Wait("wait-again", "last-stop")
  BY <1>2, WaitStep
<1>3. CASE UNCHANGED vars
  BY <1>3 DEF vars, childVars, endVars, IInv, Typed, StoppedInv, ClosedInv, ClosedMeansGone, LeaderRuns, Reached
<1> QED BY <1>1, <1>2, <1>3, WatchStep, StopOrWaitStep, SweepStep, CloseStep,
           ReturnStep, EnvironmentStep, TickStep DEF Next, Supervisor

-----------------------------------------------------------------------------
\* The ledger's descendants_remaining is true to what a signal can reach: when
\* it is FALSE in a closed attempt, nothing is left to write to the checkout but
\* a process that has got out of the supervisor's reach.
THEOREM ClosedIsGone == Spec => []ClosedMeansGone
<1>1. IInv => ClosedMeansGone
  BY DEF IInv
<1> QED BY <1>1, InitIInv, NextIInv, PTL DEF Spec

\* An attempt that was cancelled, timed out or taken over does not pass,
\* whatever its child exits with.
THEOREM StoppedNeverPasses == Spec => []PassIsUndisturbed
<1>1. IInv => PassIsUndisturbed
  BY DEF IInv, StoppedInv, ClosedInv, PassIsUndisturbed
<1> QED BY <1>1, InitIInv, NextIInv, PTL DEF Spec

-----------------------------------------------------------------------------
(* The takeover of a silent child                                           *)

\* Numbers and Booleans of the loop.
Clocked ==
    /\ now \in Nat /\ cpu \in Nat /\ lines \in Int /\ files \in Int
    /\ seen \in [wrote : Nat, probed : Nat \X Nat \X Nat]
    /\ progress \in [at : Int, failed : Nat, shown : Int, slow : BOOLEAN, stalled : BOOLEAN]
    /\ round \in [now : Nat, heard : BOOLEAN, silent : BOOLEAN]
    /\ reason \in Reasons

\* The progress that a round will give the silence its start with.
LastHeard == IF pc \in RoundSteps /\ round.heard THEN round.now ELSE progress.at

\* A round reads the clock once and takes RoundTime at most; a count of silent
\* probes is one of a silence that has lasted.
ClockInv ==
    /\ lines <= now /\ files <= now
    /\ progress.at <= now
    /\ pc \in RoundSteps => progress.at <= round.now /\ round.now <= now /\ now <= round.now + RoundTime
    /\ progress.failed > 0 => now - progress.at >= StalledAfter
    /\ progress.failed > 0 /\ pc \in RoundSteps => round.now - progress.at >= StalledAfter

\* What has been noticed is not younger than the last progress, but for the time
\* of one round.
WrittenInv == seen.wrote <= LastHeard + RoundTime

\* What ps shows for x polls of work.
Shown(x) == x \div CpuGrain

\* Each silent probe that counts has shown what the probe before it has shown.
ProbedBefore ==
    \/ progress.shown = -1 /\ progress.failed = 0
    \/ /\ progress.shown = Shown(seen.probed[3])
       /\ progress.failed >= 1 => Shown(seen.probed[2]) = Shown(seen.probed[3])
       /\ progress.failed >= 2 => Shown(seen.probed[1]) = Shown(seen.probed[2])

ProbedNow ==
    /\ progress.shown = Shown(seen.probed[3])
    /\ round.silent => Shown(seen.probed[2]) = Shown(seen.probed[3])
    /\ progress.failed >= 1 => Shown(seen.probed[1]) = Shown(seen.probed[2])

IdleInv == Visible => IF pc = "decide" THEN ProbedNow ELSE ProbedBefore

LoopInv == ClockInv /\ WrittenInv /\ IdleInv
TakeoverInv == Clocked /\ (pc \in Looping => LoopInv /\ ~signalled)

\* What a takeover must have been preceded by.
Earned ==
    /\ round.now - seen.wrote >= TakeoverAfter - RoundTime
    /\ Visible => seen.probed[3] - seen.probed[1] < CpuGrain

LEMMA ShownType == \A x \in Nat : Shown(x) \in Nat
BY ThresholdAssumption DEF Shown

\* Work that ps does not show is less than its grain.
LEMMA SameShown ==
    ASSUME NEW a \in Nat, NEW b \in Nat, Shown(a) = Shown(b)
    PROVE  b - a < CpuGrain
<1>1. CpuGrain \in Nat /\ CpuGrain > 0
  BY ThresholdAssumption
<1>2. /\ a = CpuGrain * (a \div CpuGrain) + (a % CpuGrain) /\ a % CpuGrain >= 0
      /\ b = CpuGrain * (b \div CpuGrain) + (b % CpuGrain) /\ b % CpuGrain < CpuGrain
  BY <1>1
<1> DEFINE k == CpuGrain * (a \div CpuGrain)
           ra == a % CpuGrain
           rb == b % CpuGrain
<1>3. k \in Int /\ ra \in Int /\ rb \in Int
  BY <1>1
<1>4. a = k + ra /\ b = k + rb /\ ra >= 0 /\ rb < CpuGrain
  BY <1>2 DEF Shown
<1> HIDE DEF k, ra, rb
<1> QED BY <1>1, <1>3, <1>4

\* What the loop knows at first.
LEMMA InitTakeover == Init => TakeoverInv
<1> SUFFICES ASSUME Init PROVE TakeoverInv
  OBVIOUS
<1>1. /\ now = 0 /\ pc = "poll" /\ cpu = 0 /\ lines = -1 /\ files = -1
      /\ signalled = FALSE /\ reason = "completed"
      /\ round = NoRound /\ progress = NoProgress /\ seen = NothingSeen
  BY DEF Init, NoWrite
<1>2. Clocked
  BY <1>1 DEF Clocked, Reasons, NoRound, NoProgress, NothingSeen
<1>3. /\ seen.wrote = 0 /\ progress.at = 0 /\ progress.failed = 0 /\ progress.shown = -1
  BY <1>1 DEF NothingSeen, NoProgress
<1>4. ClockInv /\ WrittenInv /\ IdleInv
  BY <1>1, <1>3, ThresholdAssumption DEF ClockInv, WrittenInv, IdleInv, LastHeard, ProbedBefore, RoundSteps
<1> QED BY <1>1, <1>2, <1>4 DEF TakeoverInv, LoopInv

\* Out of the loop there is nothing left to know.
LEMMA OutOfLoop ==
    ASSUME TakeoverInv, pc' \notin Looping, now' \in Nat, reason' \in Reasons, UNCHANGED cpu,
           UNCHANGED loopVars \/ LeavesLoop
    PROVE  TakeoverInv'
<1>1. CASE UNCHANGED loopVars
  BY <1>1 DEF TakeoverInv, Clocked, loopVars
<1>2. CASE LeavesLoop
  BY <1>2 DEF TakeoverInv, Clocked, LeavesLoop, NoWrite, NoRound, NoProgress, NothingSeen
<1> QED BY <1>1, <1>2

LEMMA PollTakeover == TakeoverInv /\ Poll => TakeoverInv' /\ UNCHANGED reason
<1> SUFFICES ASSUME TakeoverInv, Poll PROVE TakeoverInv' /\ UNCHANGED reason
  OBVIOUS
<1>1. UNCHANGED <<now, cpu, signalled, reason>> /\ pc = "poll" /\ Clocked
  BY DEF Poll, Watched, childVars, TakeoverInv
<1>2. CASE LeaderRuns /\ Goto("drain") /\ UNCHANGED <<loopVars, deadline>>
  <2>1. pc' = "drain" /\ UNCHANGED <<lines, files, round, progress, seen, attempt>> /\ LoopInv /\ ~signalled
    BY <1>1, <1>2 DEF Goto, loopVars, TakeoverInv, Looping, Poll, Watched, childVars
  <2> QED BY <1>1, <2>1 DEF TakeoverInv, Clocked, LoopInv, ClockInv, WrittenInv, IdleInv, LastHeard,
             ProbedBefore, RoundSteps, Visible
<1>3. CASE ~LeaderRuns /\ Goto("wait") /\ LeavesLoop
  <2>1. pc' \notin Looping
    BY <1>3 DEF Goto, Looping, RoundSteps
  <2> QED BY <1>1, <1>3, <2>1, OutOfLoop DEF Clocked
<1> QED BY <1>1, <1>2, <1>3 DEF Poll

LEMMA LeaveTakeover ==
    ASSUME TakeoverInv, NEW why \in Reasons, Leave(why), UNCHANGED Watched
    PROVE  TakeoverInv'
<1>1. pc' \notin Looping /\ LeavesLoop /\ reason' = why /\ UNCHANGED <<now, cpu>>
  BY DEF Leave, Goto, Looping, RoundSteps, Watched, childVars
<1> QED BY <1>1, OutOfLoop DEF TakeoverInv, Clocked

\* What Noticing leaves of the ghost.
LEMMA NoticingFields ==
    ASSUME Clocked, NEW t \in Int
    PROVE  /\ Noticing(t) \in [wrote : Nat, probed : Nat \X Nat \X Nat]
           /\ Noticing(t).wrote = IF t > seen.wrote THEN t ELSE seen.wrote
           /\ Noticing(t).probed = seen.probed
BY DEF Noticing, Clocked

\* Lines count from the time the clock is read.
LEMMA DrainTakeover == TakeoverInv /\ Drain => TakeoverInv' /\ UNCHANGED reason
<1> SUFFICES ASSUME TakeoverInv, Drain PROVE TakeoverInv' /\ UNCHANGED reason
  OBVIOUS
<1>1. /\ pc = "drain" /\ pc' = "cancel" /\ lines' = NoWrite /\ seen' = Noticing(lines)
      /\ round' = [NoRound EXCEPT !.now = now, !.heard = lines # NoWrite]
      /\ UNCHANGED <<now, cpu, attempt, signalled, reason, files, progress>>
  BY DEF Drain, GoOn, Goto, Watched, childVars
<1>2. Clocked /\ LoopInv /\ ~signalled
  BY <1>1 DEF TakeoverInv, Looping
<1>3. /\ round'.now = now /\ round'.heard = (lines # NoWrite)
      /\ round' \in [now : Nat, heard : BOOLEAN, silent : BOOLEAN]
  BY <1>1, <1>2 DEF NoRound, Clocked
<1>4. /\ seen' \in [wrote : Nat, probed : Nat \X Nat \X Nat] /\ seen'.probed = seen.probed
      /\ seen'.wrote = IF lines > seen.wrote THEN lines ELSE seen.wrote
  BY <1>1, <1>2, NoticingFields DEF Clocked
<1>5. Clocked'
  BY <1>1, <1>2, <1>3, <1>4 DEF Clocked, NoWrite
<1>6. ClockInv'
  BY <1>1, <1>2, <1>3, ThresholdAssumption DEF ClockInv, Clocked, NoWrite, LoopInv, RoundSteps
<1>7. WrittenInv'
  <2>1. seen.wrote <= progress.at + RoundTime /\ lines <= now /\ progress.at <= now
    BY <1>1, <1>2 DEF LoopInv, WrittenInv, LastHeard, RoundSteps, ClockInv
  <2>2. LastHeard' = IF lines # -1 THEN now ELSE progress.at
    BY <1>1, <1>3 DEF LastHeard, RoundSteps, NoWrite
  <2>3. lines = -1 => seen'.wrote <= progress.at + RoundTime
    <3>1. CASE lines > seen.wrote /\ lines = -1
      BY <1>2, <1>4, <2>1, <3>1, ThresholdAssumption DEF Clocked
    <3> QED BY <1>4, <2>1, <3>1
  <2> QED BY <1>2, <1>4, <2>1, <2>2, <2>3, ThresholdAssumption DEF WrittenInv, Clocked
<1>8. IdleInv'
  BY <1>1, <1>2, <1>4 DEF IdleInv, LoopInv, ProbedBefore, Visible
<1> QED BY <1>1, <1>2, <1>5, <1>6, <1>7, <1>8 DEF TakeoverInv, LoopInv

LEMMA CancelTakeover ==
    TakeoverInv /\ CheckCancel =>
        TakeoverInv' /\ (reason' # "main_takeover_ready" \/ UNCHANGED reason)
<1> SUFFICES ASSUME TakeoverInv, CheckCancel
             PROVE  TakeoverInv' /\ (reason' # "main_takeover_ready" \/ UNCHANGED reason)
  OBVIOUS
<1>1. CASE Leave("explicit_cancelled") \/ Leave("hard_timeout")
  <2>1. reason' \in {"explicit_cancelled", "hard_timeout"} /\ UNCHANGED Watched
    BY <1>1 DEF Leave, CheckCancel
  <2> QED BY <1>1, <2>1, LeaveTakeover DEF Reasons
<1>2. CASE GoOn("diff") /\ UNCHANGED loopVars
  <2>1. pc = "cancel" /\ pc' = "diff"
        /\ UNCHANGED <<now, cpu, attempt, signalled, reason, lines, files, round, progress, seen>>
    BY <1>2 DEF CheckCancel, GoOn, Goto, loopVars, Watched, childVars
  <2> QED BY <2>1 DEF TakeoverInv, Looping, RoundSteps, Clocked, LoopInv, ClockInv, WrittenInv,
             IdleInv, LastHeard, ProbedBefore, Visible
<1> QED BY <1>1, <1>2 DEF CheckCancel

\* Files count from then too, though they may be younger by the time of a round.
LEMMA DiffTakeover == TakeoverInv /\ ProbeDiff => TakeoverInv' /\ UNCHANGED reason
<1> SUFFICES ASSUME TakeoverInv, ProbeDiff PROVE TakeoverInv' /\ UNCHANGED reason
  OBVIOUS
<1>1. /\ pc = "diff" /\ pc' = "cpu" /\ files' = NoWrite /\ seen' = Noticing(files)
      /\ round' = [round EXCEPT !.heard = @ \/ files # NoWrite]
      /\ UNCHANGED <<now, cpu, attempt, signalled, reason, lines, progress>>
  BY DEF ProbeDiff, GoOn, Goto, Watched, childVars
<1>2. Clocked /\ LoopInv /\ ~signalled
  BY <1>1 DEF TakeoverInv, Looping, RoundSteps
<1>3. /\ round'.now = round.now /\ round'.heard = (round.heard \/ files # NoWrite)
      /\ round' \in [now : Nat, heard : BOOLEAN, silent : BOOLEAN]
  BY <1>1, <1>2 DEF Clocked
<1>4. /\ seen' \in [wrote : Nat, probed : Nat \X Nat \X Nat] /\ seen'.probed = seen.probed
      /\ seen'.wrote = IF files > seen.wrote THEN files ELSE seen.wrote
  BY <1>1, <1>2, NoticingFields DEF Clocked
<1>5. Clocked'
  BY <1>1, <1>2, <1>3, <1>4 DEF Clocked, NoWrite
<1>6. ClockInv'
  BY <1>1, <1>2, <1>3 DEF ClockInv, Clocked, NoWrite, LoopInv, RoundSteps
<1>7. WrittenInv'
  <2>1. /\ seen.wrote <= LastHeard + RoundTime /\ files <= now /\ now <= round.now + RoundTime
        /\ progress.at <= round.now
    BY <1>1, <1>2 DEF LoopInv, WrittenInv, RoundSteps, ClockInv
  <2>2. /\ LastHeard = IF round.heard THEN round.now ELSE progress.at
        /\ LastHeard' = IF round.heard \/ files # -1 THEN round.now ELSE progress.at
    BY <1>1, <1>3 DEF LastHeard, RoundSteps, NoWrite
  <2>3. CASE round.heard
    BY <1>2, <1>4, <2>1, <2>2, <2>3, ThresholdAssumption DEF WrittenInv, Clocked
  <2>4. CASE files # -1
    BY <1>2, <1>4, <2>1, <2>2, <2>4, ThresholdAssumption DEF WrittenInv, Clocked
  <2>5. CASE ~round.heard /\ files = -1
    BY <1>2, <1>4, <2>1, <2>2, <2>5, ThresholdAssumption DEF WrittenInv, Clocked
  <2> QED BY <2>3, <2>4, <2>5
<1>8. IdleInv'
  BY <1>1, <1>2, <1>4 DEF IdleInv, LoopInv, ProbedBefore, Visible
<1> QED BY <1>1, <1>2, <1>5, <1>6, <1>7, <1>8 DEF TakeoverInv, LoopInv

\* A probe is silent when it shows what the one before has shown.
LEMMA CpuTakeover == TakeoverInv /\ ProbeCpu => TakeoverInv' /\ UNCHANGED reason
<1> SUFFICES ASSUME TakeoverInv, ProbeCpu PROVE TakeoverInv' /\ UNCHANGED reason
  OBVIOUS
<1>1. /\ pc = "cpu" /\ pc' = "decide" /\ seen' = [seen EXCEPT !.probed = <<@[2], @[3], cpu>>]
      /\ UNCHANGED <<now, cpu, attempt, signalled, reason, lines, files>>
  BY DEF ProbeCpu, GoOn, Goto, Watched, childVars
<1>2. Clocked /\ LoopInv /\ ~signalled
  BY <1>1 DEF TakeoverInv, Looping, RoundSteps
<1>3. PICK answered \in {TRUE, Visible} :
         /\ round' = [round EXCEPT !.silent = Silent(answered)]
         /\ progress' = IF answered THEN [progress EXCEPT !.shown = cpu \div CpuGrain] ELSE progress
  BY DEF ProbeCpu
<1>4. Silent(answered) \in BOOLEAN
  BY DEF Silent, Visible
<1>5. /\ round' \in [now : Nat, heard : BOOLEAN, silent : BOOLEAN]
      /\ round'.now = round.now /\ round'.heard = round.heard /\ round'.silent = Silent(answered)
  BY <1>2, <1>3, <1>4, Zenon DEF Clocked
<1>6. /\ seen' \in [wrote : Nat, probed : Nat \X Nat \X Nat] /\ seen'.wrote = seen.wrote
      /\ seen'.probed[1] = seen.probed[2] /\ seen'.probed[2] = seen.probed[3] /\ seen'.probed[3] = cpu
  BY <1>1, <1>2 DEF Clocked
<1>7. Shown(cpu) \in Nat /\ Shown(cpu) = cpu \div CpuGrain
  BY <1>2, ShownType DEF Clocked, Shown
<1>8. /\ progress' \in [at : Int, failed : Nat, shown : Int, slow : BOOLEAN, stalled : BOOLEAN]
      /\ progress'.at = progress.at /\ progress'.failed = progress.failed
      /\ progress'.shown = IF answered THEN Shown(cpu) ELSE progress.shown
  BY <1>2, <1>3, <1>7 DEF Clocked
<1>9. Clocked'
  BY <1>1, <1>2, <1>5, <1>6, <1>8 DEF Clocked
<1>10. ClockInv' /\ WrittenInv'
  BY <1>1, <1>2, <1>5, <1>6, <1>8 DEF LoopInv, ClockInv, WrittenInv, LastHeard, RoundSteps
<1>11. ASSUME Visible PROVE ProbedNow'
  <2>1. answered = TRUE /\ ProbedBefore
    BY <1>1, <1>2, <1>11 DEF LoopInv, IdleInv
  <2>2. progress'.shown = Shown(cpu) /\ (Silent(answered) => progress.shown = Shown(cpu))
    BY <1>7, <1>8, <2>1 DEF Silent
  <2>3. progress.shown # Shown(cpu) \/ progress.shown = Shown(seen.probed[3])
    BY <1>7, <2>1 DEF ProbedBefore
  <2>4. progress.failed >= 1 => Shown(seen.probed[2]) = Shown(seen.probed[3])
    BY <1>2, <2>1 DEF ProbedBefore, Clocked
  <2> QED BY <1>5, <1>6, <1>8, <2>2, <2>3, <2>4 DEF ProbedNow
<1>12. IdleInv'
  BY <1>1, <1>11 DEF IdleInv, Visible
<1> QED BY <1>1, <1>2, <1>9, <1>10, <1>12 DEF TakeoverInv, LoopInv

\* The decision: the silent probe counts if the silence has lasted, and a
\* takeover has been earned.
LEMMA DecideTakeover ==
    TakeoverInv /\ Decide =>
        TakeoverInv' /\ (reason # reason' /\ reason' = "main_takeover_ready" => Earned)
<1> SUFFICES ASSUME TakeoverInv, Decide
             PROVE  TakeoverInv' /\ (reason # reason' /\ reason' = "main_takeover_ready" => Earned)
  OBVIOUS
<1>1. pc = "decide" /\ UNCHANGED <<now, cpu, attempt, signalled>> /\ UNCHANGED Watched
  BY DEF Decide, Watched, childVars
<1>2. Clocked /\ LoopInv /\ ~signalled
  BY <1>1 DEF TakeoverInv, Looping, RoundSteps
<1> DEFINE at == IF round.heard THEN round.now ELSE progress.at
           failed == Observed.failed
<1>3. /\ Observed \in [at : Int, failed : Nat, shown : Int, slow : BOOLEAN, stalled : BOOLEAN]
      /\ Observed.at = at /\ Observed.shown = progress.shown
      /\ failed = IF round.now - at < StalledAfter
                  THEN (IF round.heard THEN 0 ELSE progress.failed)
                  ELSE IF round.silent THEN (IF round.heard THEN 0 ELSE progress.failed) + 1 ELSE 0
  BY <1>2 DEF Observed, Clocked
<1>4. at \in Int /\ at = LastHeard /\ at <= round.now /\ round.now <= now
  BY <1>1, <1>2 DEF LastHeard, RoundSteps, Clocked, LoopInv, ClockInv
<1>5. failed \in Nat /\ (failed > 0 => round.now - at >= StalledAfter)
  BY <1>1, <1>2, <1>3, ThresholdAssumption DEF Clocked, LoopInv, ClockInv, RoundSteps
<1>6. /\ failed >= 1 => round.silent
      /\ failed >= 2 => progress.failed >= 1
  BY <1>2, <1>3, <1>5, ThresholdAssumption DEF Clocked
<1>7. seen.wrote <= at + RoundTime
  BY <1>2, <1>4 DEF LoopInv, WrittenInv
<1>8. Visible =>
         /\ progress.shown = Shown(seen.probed[3])
         /\ failed >= 1 => Shown(seen.probed[2]) = Shown(seen.probed[3])
         /\ failed >= 2 => Shown(seen.probed[1]) = Shown(seen.probed[2])
  BY <1>1, <1>2, <1>6 DEF LoopInv, IdleInv, ProbedNow
<1> HIDE DEF at, failed
<1>9. CASE TakenOver(Observed) /\ Leave("main_takeover_ready")
  <2>1. TakeoverInv'
    BY <1>1, <1>9, LeaveTakeover DEF Reasons
  <2>2. round.now - at >= TakeoverAfter /\ failed >= 2
    BY <1>3, <1>9 DEF TakenOver, failed
  <2>3. round.now - seen.wrote >= TakeoverAfter - RoundTime
    BY <1>2, <1>4, <1>7, <2>2, ThresholdAssumption DEF Clocked
  <2>4. ASSUME Visible PROVE seen.probed[3] - seen.probed[1] < CpuGrain
    <3>1. Shown(seen.probed[1]) = Shown(seen.probed[3])
      BY <1>5, <1>8, <2>2, <2>4
    <3>2. seen.probed[1] \in Nat /\ seen.probed[3] \in Nat
      BY <1>2 DEF Clocked
    <3> QED BY <3>1, <3>2, SameShown
  <2> QED BY <2>1, <2>3, <2>4 DEF Earned
<1>10. CASE ~TakenOver(Observed) /\ GoOn("sleep") /\ progress' = Observed /\ round' = NoRound
            /\ UNCHANGED <<lines, files, seen>>
  <2>1. pc' = "sleep" /\ UNCHANGED reason
    BY <1>10 DEF GoOn, Goto
  <2>2. progress'.at = at /\ progress'.failed = failed /\ progress'.shown = progress.shown
    BY <1>3, <1>10 DEF failed
  <2>3. Clocked'
    BY <1>1, <1>2, <1>3, <1>10, <2>1 DEF Clocked, NoRound
  <2>4. ClockInv'
    BY <1>1, <1>2, <1>4, <1>5, <1>10, <2>1, <2>2, ThresholdAssumption DEF ClockInv, Clocked, LoopInv, RoundSteps
  <2>5. WrittenInv'
    BY <1>7, <1>10, <2>1, <2>2 DEF WrittenInv, LastHeard, RoundSteps
  <2>6. IdleInv'
    BY <1>1, <1>8, <1>10, <2>1, <2>2 DEF IdleInv, ProbedBefore, Visible
  <2> QED BY <1>1, <1>2, <2>1, <2>3, <2>4, <2>5, <2>6 DEF TakeoverInv, LoopInv
<1> QED BY <1>9, <1>10 DEF Decide

\* Any other step of the supervisor keeps the reason that it had, or closes the
\* attempt with it; past the loop there is nothing left to observe.
LEMMA ElseTakeover ==
    ASSUME TakeoverInv, StopOrWait \/ Stop \/ Wait("wait", "stop-again") \/ Wait("wait-again", "last-stop")
                        \/ Sweep \/ Close \/ Return
    PROVE  TakeoverInv' /\ ~(reason # reason' /\ reason' = "main_takeover_ready")
<1>1. reason \in Reasons /\ now \in Nat
  BY DEF TakeoverInv, Clocked
<1>2. ASSUME pc' \notin Looping, UNCHANGED <<now, cpu, reason, loopVars>>
      PROVE  TakeoverInv' /\ ~(reason # reason' /\ reason' = "main_takeover_ready")
  BY <1>1, <1>2, OutOfLoop
<1> USE DEF Rest, Goto, Looping, RoundSteps
<1>3. ASSUME NEW step \in {"stop", "stop-again", "sweep", "last-stop"}, SendTerm(step)
      PROVE  pc' \notin Looping /\ UNCHANGED <<now, cpu, reason, loopVars>>
  BY <1>3 DEF SendTerm
<1>4. ASSUME NEW step, NEW next \in {"wait", "wait-again", "close", "raised"}, SendKill(step, next)
      PROVE  pc' \notin Looping /\ UNCHANGED <<now, cpu, reason, loopVars>>
  BY <1>4 DEF SendKill
<1>5. ASSUME NEW step \in {"wait", "wait-again"}, NEW late \in {"stop-again", "last-stop"}, Wait(step, late)
      PROVE  pc' \notin Looping /\ UNCHANGED <<now, cpu, reason, loopVars>>
  BY <1>5 DEF Wait, childVars
<1>6. CASE StopOrWait \/ Sweep
  BY <1>2, <1>6 DEF StopOrWait, Sweep, childVars
<1>7. CASE Close
  <2>1. pc' \notin Looping /\ UNCHANGED <<now, cpu, loopVars>>
    BY <1>7 DEF Close, childVars
  <2>2. reason' \in Reasons /\ (reason' = "main_takeover_ready" => reason' = reason)
    BY <1>1, <1>7 DEF Close, FinalReason, Reasons
  <2> QED BY <1>1, <2>1, <2>2, OutOfLoop
<1>8. CASE Return
  BY <1>2, <1>8 DEF Return, childVars
<1>9. CASE Stop
  BY <1>2, <1>3, <1>4, <1>9 DEF Stop
<1>10. CASE Wait("wait", "stop-again") \/ Wait("wait-again", "last-stop")
  BY <1>2, <1>5, <1>10
<1> QED BY <1>6, <1>7, <1>8, <1>9, <1>10

LEMMA SupervisorTakeover ==
    TakeoverInv /\ Supervisor =>
        TakeoverInv' /\ (reason # reason' /\ reason' = "main_takeover_ready" => Earned)
<1> SUFFICES ASSUME TakeoverInv, Supervisor
             PROVE  TakeoverInv' /\ (reason # reason' /\ reason' = "main_takeover_ready" => Earned)
  OBVIOUS
<1>1. CASE ProbeFails
  <2>1. reason' = "supervisor_probe_failed" /\ TakeoverInv'
    BY <1>1, LeaveTakeover DEF ProbeFails, Leave, Reasons
  <2> QED BY <2>1
<1>2. CASE Poll \/ Drain \/ ProbeDiff \/ ProbeCpu
  BY <1>2, PollTakeover, DrainTakeover, DiffTakeover, CpuTakeover
<1>3. CASE CheckCancel \/ Decide
  BY <1>3, CancelTakeover, DecideTakeover
<1>4. CASE ~(ProbeFails \/ Poll \/ Drain \/ ProbeDiff \/ ProbeCpu \/ CheckCancel \/ Decide)
  BY <1>4, ElseTakeover DEF Supervisor, Round
<1> QED BY <1>1, <1>2, <1>3, <1>4

\* What the child writes now has not been noticed.
LEMMA EnvironmentTakeover == TakeoverInv /\ Environment => TakeoverInv' /\ UNCHANGED reason
<1> SUFFICES ASSUME TakeoverInv, Environment PROVE TakeoverInv' /\ UNCHANGED reason
  OBVIOUS
<1>1. /\ UNCHANGED <<now, pc, cpu, attempt, round, progress, seen, signalled, reason>>
      /\ lines' \in {lines, now} /\ files' \in {files, now}
  BY DEF Environment, LeaderExits, LeaderWorks, LeaderBlocks, DescendantExits, DescendantLeaves,
         Hang, RequestCancel, Same, endVars
<1>2. Clocked'
  BY <1>1 DEF TakeoverInv, Clocked
<1>3. ASSUME LoopInv PROVE LoopInv'
  BY <1>1, <1>3 DEF TakeoverInv, Clocked, LoopInv, ClockInv, WrittenInv, IdleInv, LastHeard, ProbedBefore,
     ProbedNow, Visible
<1> QED BY <1>1, <1>2, <1>3 DEF TakeoverInv

\* A poll goes by, in a sleep or within a round.
LEMMA TickTakeover == TakeoverInv /\ Tick => TakeoverInv' /\ UNCHANGED reason
<1> SUFFICES ASSUME TakeoverInv, Tick PROVE TakeoverInv' /\ UNCHANGED reason
  OBVIOUS
<1>1. /\ now' = now + 1 /\ cpu' \in {cpu, cpu + 1}
      /\ UNCHANGED <<attempt, lines, files, round, progress, seen, signalled, reason>>
      /\ pc' = IF pc = "sleep" THEN "poll" ELSE pc
  BY DEF Tick, loopVars, endVars
<1>2. Clocked'
  BY <1>1 DEF TakeoverInv, Clocked
<1>3. ASSUME pc' \in Looping PROVE LoopInv' /\ ~signalled'
  <2>1. /\ pc \in Looping /\ LoopInv /\ ~signalled /\ Clocked
        /\ pc = "sleep" \/ (pc \in RoundSteps /\ now < round.now + RoundTime)
    <3>1. pc \in Looping
      BY <1>1, <1>3 DEF Looping
    <3>2. LoopInv /\ ~signalled /\ Clocked
      BY <3>1 DEF TakeoverInv
    <3>3. pc \notin {"wait", "wait-again"}
      BY <3>1 DEF Looping, RoundSteps
    <3>4. pc = "sleep" \/ (pc \in RoundSteps /\ now < round.now + RoundTime)
      BY <3>2, <3>3, Zenon DEF Tick
    <3> QED BY <3>1, <3>2, <3>4
  <2>2. CASE pc = "sleep"
    BY <1>1, <2>1, <2>2, ThresholdAssumption DEF Clocked, LoopInv, ClockInv, WrittenInv, IdleInv,
       LastHeard, ProbedBefore, Visible, RoundSteps
  <2>3. CASE pc \in RoundSteps /\ now < round.now + RoundTime
    <3>1. pc' = pc /\ pc # "sleep"
      BY <1>1, <2>3 DEF RoundSteps
    <3>2. ClockInv'
      BY <1>1, <2>1, <2>3, <3>1, ThresholdAssumption DEF Clocked, LoopInv, ClockInv
    <3>3. WrittenInv' /\ IdleInv'
      BY <1>1, <2>1, <3>1 DEF LoopInv, WrittenInv, IdleInv, LastHeard, ProbedBefore, ProbedNow, Visible
    <3> QED BY <1>1, <2>1, <3>2, <3>3 DEF LoopInv
  <2> QED BY <2>1, <2>2, <2>3
<1> QED BY <1>1, <1>2, <1>3 DEF TakeoverInv

\* Whatever the child does between the steps of a round: it is taken over only
\* after TakeoverAfter polls, less those of a round, without anything written that
\* the supervisor could have found, and, while ps answers, without the work
\* between three probes that ps would have shown.
THEOREM TakeoverMustBeEarned == Spec => TakeoverIsEarned
<1>1. TakeoverInv /\ [Next]_vars =>
         /\ TakeoverInv'
         /\ [reason # reason' /\ reason' = "main_takeover_ready" =>
                /\ round.now - seen.wrote >= TakeoverAfter - RoundTime
                /\ Visible => seen.probed[3] - seen.probed[1] < CpuGrain]_vars
  <2> SUFFICES ASSUME TakeoverInv, [Next]_vars
               PROVE  /\ TakeoverInv'
                      /\ reason # reason' /\ reason' = "main_takeover_ready" =>
                            /\ round.now - seen.wrote >= TakeoverAfter - RoundTime
                            /\ Visible => seen.probed[3] - seen.probed[1] < CpuGrain
    BY Zenon
  <2>1. CASE UNCHANGED vars
    BY <2>1 DEF vars, childVars, loopVars, endVars, TakeoverInv, Clocked, LoopInv, ClockInv, WrittenInv,
       IdleInv, LastHeard, ProbedBefore, ProbedNow, Visible
  <2> QED BY <2>1, SupervisorTakeover, EnvironmentTakeover, TickTakeover DEF Next, Earned
<1> QED BY <1>1, InitTakeover, PTL DEF Spec, TakeoverIsEarned
=============================================================================
