---------------------------- MODULE MCComponents ----------------------------
(***************************************************************************)
(* Four components that share no state, checked in one run: queue.json as  *)
(* a file (QueueFile), the PR lock and the inbox (PrInbox), the review of  *)
(* a candidate (ReviewGate) and the way to the merged branch (Release).    *)
(* The one that is moving does so while the others rest where they start,  *)
(* so the run is the sum of four state spaces.                             *)
(***************************************************************************)
EXTENDS QueueFile, FiniteSets

CONSTANTS Sources, Branches, MaxDeaths, MaxGates, MaxTerminals, MaxChanges
CONSTANTS Isolation, MergeCommands, Habits, Kinds, MaxPaperEdits

ASSUME ComponentsAssumption ==
    /\ {MaxDeaths, MaxGates, MaxTerminals, MaxChanges, MaxPaperEdits} \subseteq Nat
    /\ Isolation \subseteq BOOLEAN /\ MergeCommands \subseteq {"local", "remote", "cleanup"}
    /\ {"none", "unreadable"} \cap Branches = {} /\ Procs # {}

VARIABLES lock, pulls, inbox, plans, accepted, pc, doing, mine, read, deaths, lost, bare
VARIABLES repo, expected, session, gates, terminals, blank, outcome
VARIABLES isolated, habit, ref, upstream, checkout, merging, worktree, removed, paper, evidence,
          gate, approved, required, pr, prLock, step, command, held
VARIABLE moving  \* which of the four

Inbox == INSTANCE PrInbox
Review == INSTANCE ReviewGate
Merge == INSTANCE Release WITH
    Commands <- MergeCommands, MaxEdits <- MaxPaperEdits, lock <- prLock, pc <- step

queueVars == vars
inboxVars == <<lock, pulls, inbox, plans, accepted, pc, doing, mine, read, deaths, lost, bare>>
reviewVars == <<repo, expected, session, gates, terminals, blank, outcome>>
mergeVars == <<isolated, habit, ref, upstream, checkout, merging, worktree, removed, paper, evidence,
               gate, approved, required, pr, prLock, step, command, held>>

\* Every policy a plan can be created with.
AnyDeclaration == Policies

\* Where a component rests while another one moves.
QueueRests ==
    /\ text = [docs |-> FALSE, tests |-> FALSE, risk |-> FALSE]
    /\ file = [status |-> "ready", policy |-> Classify(NoPolicy, text),
               context |-> "isolated_worktree", requests |-> {}]
MergeRests == isolated /\ habit = "between" /\ prLock = "none"

ComponentsInit ==
    /\ moving \in {"queue", "inbox", "review", "merge"}
    /\ Init /\ Inbox!Init /\ Review!Init /\ Merge!Init
    /\ moving # "queue" => QueueRests
    /\ moving # "merge" => MergeRests

ComponentsNext ==
    /\ UNCHANGED moving
    /\ \/ moving = "queue" /\ Next /\ UNCHANGED <<inboxVars, reviewVars, mergeVars>>
       \/ moving = "inbox" /\ Inbox!Next /\ UNCHANGED <<queueVars, reviewVars, mergeVars>>
       \/ moving = "review" /\ Review!Next /\ UNCHANGED <<queueVars, inboxVars, mergeVars>>
       \/ moving = "merge" /\ Merge!Next /\ UNCHANGED <<queueVars, inboxVars, reviewVars>>

componentsVars == <<moving, queueVars, inboxVars, reviewVars, mergeVars>>

ComponentsSpec ==
    ComponentsInit /\ [][ComponentsNext]_componentsVars

\* The gate is examined with edits of the plan and of the queue for a plan in
\* a worktree of its own; commits that come at any time, for plans of both
\* kinds, with one review.  Requests are routed around one pull request.
Focus ==
    /\ IF habit = "between" THEN isolated
       ELSE paper = [plan |-> 0, queue |-> 0] /\ \A kind \in Kinds : Cardinality(approved[kind]) <= 1
    /\ \/ accepted = {}
       \/ Cardinality({b \in Branches : pulls[b] # "none"} \cup bare) <= 1

\* The type invariants of the four components.
ComponentsTypeOK == TypeOK /\ Inbox!TypeOK /\ Review!TypeOK /\ Merge!TypeOK

\* QueueFile: a complete queue.json has forgotten neither where the plan
\* executes nor a request.
NothingForgotten == ContextKept /\ RequestsKept

\* PrInbox: an accepted source is in the inbox or has its plan, unless a rewrite
\* of the inbox died over it, and every death makes one plan too many at most.
RoutedExactlyOnce == Inbox!RequestsKept /\ Inbox!RoutedOnce

\* PrInbox: an open pull request is the one the lock names, unless it never got
\* its lock or a person took it away.
LockCoversOpen == Inbox!LockCoversOpen

\* ReviewGate: a candidate is ready exactly when its review has earned it, and
\* only a well-formed answer is a finding.
ReviewIsEarned == Review!ReadyWhenEarned /\ Review!FindingIsWellFormed

\* Release: a worktree that is recorded as removed is merged and gone.
RemovedIsMerged == Merge!RemovedIsMerged

\* Release: no commit of the branch is lost.
NoWorkLost == Merge!NoWorkLost

\* Release: nothing lands unless the gate let a command through, at an identity
\* that the reviews have passed.
LandsGated == Merge!LandsGated
=============================================================================
