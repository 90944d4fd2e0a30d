------------------------------- MODULE Release -------------------------------
(***************************************************************************)
(* From the last unit to the merged branch: the final gate                 *)
(* (codex_flow/final_gate.py), the merge commands (codex_flow/merge.py) and *)
(* the removal of the execution worktree (codex_flow/git_ops.py,           *)
(* codex_flow/plans.py), of one plan whose units are all done.             *)
(*                                                                         *)
(* A reference is the set of commits it reaches; {} is a deleted one.  A   *)
(* command may die at every step and is then given again.                  *)
(***************************************************************************)
EXTENDS Naturals

CONSTANTS
    Isolation,      \* where plans run: a worktree of their own or in place
    Commands,       \* the commands that are given, of "local", "remote", "cleanup"
    Habits,         \* when commits come on the branch: "between" commands or
                    \* "anytime"
    Kinds,          \* the evidence a gate asks for: a review and tests, or {}
                    \* where a run is not about it
    MaxEdits        \* bound: edits of plan.md and of the queue

VARIABLES
    isolated,   \* the plan has a worktree
    habit,      \* when commits come on the branch
    ref,        \* what every branch reaches
    upstream,   \* the branch was pushed with -u
    checkout,   \* the branch the source repository has checked out
    merging,    \* what a merge that stopped at conflicts brings in
    worktree,   \* the execution worktree is there
    removed,    \* queue.json says so: cleanup_state
    paper,      \* revisions of plan.md and of the terminal queue
    evidence,   \* the latest review and the latest tests
    gate,       \* final-gate.json
    approved,   \* ghost: the identities each of them has passed
    required,   \* ghost: the identity FinalizeGuard has let through last
    pr, lock,   \* the pull request and the PR lock
    pc,         \* the step of the command under way
    command, held \* which one, and the head its cleanup has read

files == <<removed, paper, evidence, gate, approved, required>>
git == <<ref, upstream, checkout, merging, worktree>>
vars == <<isolated, habit, git, files, pr, lock, pc, command, held>>

Commits == {"base", "work", "more", "others", "fix"}
Refs == {"branch", "target", "origin-branch", "origin-target", "tracking"}
Identities == [head : SUBSET Commits, plan : 0..MaxEdits, queue : 0..MaxEdits]
NoGate == [head |-> {}, plan |-> 0, queue |-> 0]

Steps == {"idle", "guard", "dirty", "merge", "resolve", "finalize", "remove", "delete",
          "persist", "locked", "push", "pr", "merge-pr", "fetch-base", "rebase", "resolve-rebase",
          "push-again", "merge-again", "clear-lock", "fetch", "converge"}

TypeOK ==
    /\ habit \in Habits
    /\ {isolated, upstream, worktree, removed} \subseteq BOOLEAN
    /\ ref \in [Refs -> SUBSET Commits]
    /\ checkout \in {"branch", "target"} /\ merging \subseteq Commits
    /\ paper \in [plan : 0..MaxEdits, queue : 0..MaxEdits]
    /\ evidence \in [Kinds -> [of : Identities, pass : BOOLEAN]]
    /\ {gate, required} \subseteq Identities /\ approved \in [Kinds -> SUBSET Identities]
    /\ pr \in {"none", "open"} /\ lock \in {"none", "ours", "theirs"}
    /\ pc \in Steps /\ command \in {"local", "remote", "cleanup"} /\ held \subseteq Commits

Init ==
    /\ isolated \in Isolation /\ habit \in Habits
    /\ ref = [r \in Refs |-> IF r = "branch" THEN {"base", "work"}
                             ELSE IF r = "origin-branch" THEN {} ELSE {"base"}]
    /\ upstream = FALSE /\ merging = {}
    /\ checkout = IF isolated THEN "target" ELSE "branch"
    /\ worktree = isolated /\ removed = FALSE
    /\ paper = [plan |-> 0, queue |-> 0]
    /\ evidence = [k \in Kinds |-> [of |-> NoGate, pass |-> FALSE]]
    /\ gate = NoGate /\ required = NoGate /\ approved = [k \in Kinds |-> {}]
    /\ pr = "none" /\ lock \in {"none", "ours", "theirs"}
    /\ pc = "idle" /\ command = "local" /\ held = {}

-----------------------------------------------------------------------------
(* The final gate                                                           *)

\* head_sha of the execution repository.
Head == IF isolated THEN ref["branch"] ELSE ref[checkout]

\* final_evidence_identity.
Identity == [head |-> Head, plan |-> paper.plan, queue |-> paper.queue]

\* A review or a test run, outside of the program, ends and names what it saw.
Examine(kind) ==
    /\ worktree = isolated
    /\ \E pass \in BOOLEAN :
          /\ evidence' = [evidence EXCEPT ![kind] = [of |-> Identity, pass |-> pass]]
          /\ approved' = IF pass THEN [approved EXCEPT ![kind] = @ \cup {Identity}]
                         ELSE approved
    /\ UNCHANGED <<isolated, habit, git, removed, paper, gate, required, pr, lock, pc, command, held>>

EvidenceHolds(kind) == evidence[kind].of = Identity /\ evidence[kind].pass

\* produce_final_gate: the unit's commit is in the history of the head.
ProduceGate ==
    /\ worktree = isolated
    /\ "work" \in Head
    /\ \A kind \in Kinds : EvidenceHolds(kind)
    /\ gate' = Identity
    /\ UNCHANGED <<isolated, habit, git, removed, paper, evidence, approved, required, pr, lock, pc,
                   command, held>>

\* Mutant: the plan may have changed since.
GateHoldsForHead == gate.head = Head /\ gate.queue = paper.queue

\* require_final_gate.
GateHolds == gate = Identity

-----------------------------------------------------------------------------
(* Git                                                                      *)

\* git switch: not with unresolved conflicts, and not to a branch that another
\* worktree has checked out.
CanSwitch(b) == merging = {} /\ ref[b] # {} /\ ~(isolated /\ worktree /\ b = "branch")

Diverged(a, b) == ~(a \subseteq b) /\ ~(b \subseteq a)

\* git merge of from into branch b: nothing to do, fast forward or a merge
\* commit; conflicts; or a refusal, which leaves everything as it was.
MergeDone(b, from) == ref' = [ref EXCEPT ![b] = @ \cup from] /\ UNCHANGED merging
MergeStopped(b, from) == Diverged(ref[b], from) /\ merging' = from /\ UNCHANGED ref
MergeRefused == UNCHANGED <<ref, merging>>

\* git branch -d: not the branch that is checked out, and merged to its
\* upstream when it has one, to HEAD otherwise.
Deletable ==
    /\ checkout # "branch"
    /\ ref["branch"] \subseteq ref[IF upstream THEN "origin-branch" ELSE checkout]

-----------------------------------------------------------------------------
(* The steps of both merge commands                                         *)

Goto(step) == pc' = step
Keep == UNCHANGED <<isolated, habit, files, command>>
KeepRemote == UNCHANGED <<upstream, pr, lock>>

Give ==
    /\ pc = "idle"
    /\ command' \in Commands
    /\ Goto(IF command' = "cleanup" THEN "finalize" ELSE "guard")
    /\ UNCHANGED <<isolated, habit, git, files, pr, lock, held>>

\* FinalizeGuard.require; without the worktree it raises.
Guard ==
    /\ pc = "guard"
    /\ IF worktree # isolated \/ ~GateHolds
       THEN Goto("idle") /\ UNCHANGED required
       ELSE Goto(IF command = "local" THEN "dirty" ELSE "locked") /\ required' = Identity
    /\ UNCHANGED <<isolated, habit, git, removed, paper, evidence, gate, approved, pr, lock, command,
                   held>>

\* resolve_conflict: the agent gives up, or leaves paths unmerged; or all is
\* resolved, or there was nothing to resolve, and a pending merge is committed.
Resolve(step, b, done) ==
    /\ pc = step
    /\ \/ Goto("idle") /\ UNCHANGED <<ref, merging>>
       \/ /\ Goto(done)
          /\ ref' = IF merging = {} THEN ref
                    ELSE [ref EXCEPT ![b] = @ \cup merging \cup {"fix"}]
          /\ merging' = {}
    /\ UNCHANGED <<checkout, worktree, held>> /\ Keep /\ KeepRemote

-----------------------------------------------------------------------------
(* merge_local                                                              *)

Dirty ==
    /\ pc = "dirty"
    /\ Goto(IF merging # {} THEN "idle" ELSE "merge")
    /\ UNCHANGED <<git, pr, lock, held>> /\ Keep

\* merge_branch; whatever made it fail, the agent is called.
MergeLocal ==
    /\ pc = "merge"
    /\ \/ /\ CanSwitch("target") /\ checkout' = "target"
          /\ \/ /\ ref["branch"] # {}
                /\ \/ MergeDone("target", ref["branch"]) /\ Goto("finalize")
                   \/ MergeStopped("target", ref["branch"]) /\ Goto("resolve")
             \/ MergeRefused /\ Goto("resolve")
       \/ ~CanSwitch("target") /\ Goto("resolve") /\ UNCHANGED <<checkout, ref, merging>>
    /\ UNCHANGED <<worktree, held>> /\ Keep /\ KeepRemote

-----------------------------------------------------------------------------
(* merge_remote                                                             *)

ReadLock ==
    /\ pc = "locked"
    /\ Goto(IF lock = "theirs" THEN "idle" ELSE "push")
    /\ UNCHANGED <<git, pr, lock, held>> /\ Keep

\* push_branch, which raises when the push is rejected.
Push(step, next) ==
    /\ pc = step
    /\ \/ /\ ref["branch"] # {} /\ ref["origin-branch"] \subseteq ref["branch"]
          /\ ref' = [ref EXCEPT !["origin-branch"] = ref["branch"]]
          /\ upstream' = TRUE
          /\ Goto(next)
       \/ Goto("idle") /\ UNCHANGED <<ref, upstream>>
    /\ UNCHANGED <<checkout, merging, worktree, pr, lock, held>> /\ Keep

\* ensure_remote_pr: there is none to create without a commit between.
EnsurePr ==
    /\ pc = "pr"
    /\ \/ /\ pr = "open" \/ ~(ref["origin-branch"] \subseteq ref["origin-target"])
          /\ pr' = "open"
          /\ Goto("merge-pr")
       \/ pr = "none" /\ Goto("idle") /\ UNCHANGED pr
    /\ UNCHANGED <<git, lock, held>> /\ Keep

Behind == ~(ref["origin-target"] \subseteq ref["origin-branch"])

\* gh pr merge: it may fail because the pull request is behind, or otherwise.
MergePr(step, behind) ==
    /\ pc = step
    /\ \/ /\ pr = "open"
          /\ ref' = [ref EXCEPT !["origin-target"] = @ \cup ref["origin-branch"]]
          /\ pr' = "none"
          /\ Goto("clear-lock")
       \/ Behind /\ Goto(behind) /\ UNCHANGED <<ref, pr>>
       \/ Goto("idle") /\ UNCHANGED <<ref, pr>>
    /\ UNCHANGED <<upstream, checkout, merging, worktree, lock, held>> /\ Keep

Fetch(step, next) ==
    /\ pc = step
    /\ \/ Goto(next) /\ ref' = [ref EXCEPT !["tracking"] = ref["origin-target"]]
       \/ Goto("idle") /\ UNCHANGED ref
    /\ UNCHANGED <<checkout, merging, worktree, held>> /\ Keep /\ KeepRemote

\* rebase_source_on_target, after its fetch: switch to the branch and merge.
Rebase ==
    /\ pc = "rebase"
    /\ \/ /\ CanSwitch("branch") /\ checkout' = "branch"
          /\ \/ MergeDone("branch", ref["tracking"]) /\ Goto("push-again")
             \/ MergeStopped("branch", ref["tracking"]) /\ Goto("resolve-rebase")
             \/ MergeRefused /\ Goto("resolve-rebase")
       \/ Goto("idle") /\ UNCHANGED <<checkout, ref, merging>>
    /\ UNCHANGED <<worktree, held>> /\ Keep /\ KeepRemote

ClearLock ==
    /\ pc = "clear-lock"
    /\ lock' = IF lock = "ours" THEN "none" ELSE lock
    /\ Goto("fetch")
    /\ UNCHANGED <<git, pr, held>> /\ Keep

Converge ==
    /\ pc = "converge"
    /\ \/ /\ CanSwitch("target") /\ checkout' = "target"
          /\ \/ MergeDone("target", ref["tracking"]) /\ Goto("finalize")
             \/ MergeStopped("target", ref["tracking"]) /\ Goto("idle")
       \/ Goto("idle") /\ UNCHANGED <<checkout, ref, merging>>
    /\ UNCHANGED <<worktree, held>> /\ Keep /\ KeepRemote

-----------------------------------------------------------------------------
(* finalize_source_branch                                                   *)

\* The checks of cleanup_execution_worktree.
Cleanable == worktree /\ ref["branch"] # {} /\ ref["branch"] \subseteq ref["target"]

\* close_source_branch of a plan in place; the checks of a cleanup otherwise.
Finalize ==
    /\ pc = "finalize"
    /\ IF isolated
       THEN /\ Goto(IF ~removed /\ Cleanable THEN "remove" ELSE "idle")
            /\ held' = ref["branch"]
            /\ UNCHANGED ref
       ELSE /\ Goto("idle")
            /\ ref' = IF Deletable /\ command # "cleanup"
                      THEN [ref EXCEPT !["branch"] = {}] ELSE ref
            /\ UNCHANGED held
    /\ UNCHANGED <<checkout, merging, worktree>> /\ Keep /\ KeepRemote

Remove ==
    /\ pc = "remove"
    /\ \/ worktree' = FALSE /\ Goto("delete")
       \/ UNCHANGED worktree /\ Goto("idle")
    /\ UNCHANGED <<ref, checkout, merging, held>> /\ Keep /\ KeepRemote

\* Mutant: the branch is deleted whatever it names by now.
DeletedAnyway == TRUE

\* git update-ref -d with the head that was checked.
DeleteHolds == ref["branch"] = held

\* Mutant: the removal is recorded although the branch was not deleted.
DeleteOrKeep ==
    /\ pc = "delete"
    /\ ref' = IF DeleteHolds THEN [ref EXCEPT !["branch"] = {}] ELSE ref
    /\ Goto("persist")
    /\ UNCHANGED <<checkout, merging, worktree, held>> /\ Keep /\ KeepRemote

Delete ==
    /\ pc = "delete"
    /\ IF DeleteHolds
       THEN ref' = [ref EXCEPT !["branch"] = {}] /\ Goto("persist")
       ELSE Goto("idle") /\ UNCHANGED ref
    /\ UNCHANGED <<checkout, merging, worktree, held>> /\ Keep /\ KeepRemote

\* persist_execution_context.
Persist ==
    /\ pc = "persist"
    /\ removed' = TRUE
    /\ Goto("idle")
    /\ UNCHANGED <<isolated, habit, git, paper, evidence, gate, approved, required, pr, lock, command,
                   held>>

-----------------------------------------------------------------------------
(* What happens around the commands                                         *)

Quiet == pc = "idle"
Around == UNCHANGED <<isolated, habit, removed, evidence, gate, approved, required, pr, pc, command, held>>

\* A person commits on the branch, where it is checked out.
Commit ==
    /\ habit = "anytime" \/ Quiet
    /\ ref["branch"] # {} /\ (isolated \/ checkout = "branch")
    /\ ref' = [ref EXCEPT !["branch"] = @ \cup {"more"}]
    /\ UNCHANGED <<upstream, checkout, merging, worktree, paper, lock>> /\ Around

\* plan.md is edited, or a unit of the queue is marked again, also while a
\* command runs.
Edit ==
    /\ paper.plan + paper.queue < MaxEdits
    /\ \E part \in {"plan", "queue"} : paper' = [paper EXCEPT ![part] = @ + 1]
    /\ UNCHANGED <<git, lock>> /\ Around

\* Others push to the target.
Others ==
    /\ ref' = [ref EXCEPT !["origin-target"] = @ \cup {"others"}]
    /\ UNCHANGED <<upstream, checkout, merging, worktree, paper, lock>> /\ Around

\* A person looks at another branch, or gives a stopped merge up.
Switch ==
    /\ Quiet
    /\ \/ \E b \in {"branch", "target"} : CanSwitch(b) /\ checkout' = b /\ UNCHANGED merging
       \/ merging' = {} /\ UNCHANGED checkout
    /\ UNCHANGED <<ref, upstream, worktree, paper, lock>> /\ Around

Die ==
    /\ ~Quiet
    /\ Goto("idle")
    /\ UNCHANGED <<isolated, habit, git, files, pr, lock, command, held>>

Work ==
    \/ Guard \/ Dirty \/ MergeLocal \/ Resolve("resolve", "target", "finalize")
    \/ ReadLock \/ Push("push", "pr") \/ EnsurePr \/ MergePr("merge-pr", "fetch-base")
    \/ Fetch("fetch-base", "rebase")
    \/ Rebase \/ Resolve("resolve-rebase", "branch", "push-again")
    \/ Push("push-again", "merge-again") \/ MergePr("merge-again", "idle")
    \/ ClearLock \/ Fetch("fetch", "converge") \/ Converge \/ Finalize \/ Remove \/ Delete \/ Persist

Next ==
    \/ Give \/ Work \/ Die
    \/ (\E kind \in Kinds : Examine(kind)) \/ ProduceGate
    \/ Commit \/ Edit \/ Others \/ Switch

Spec == Init /\ [][Next]_vars

-----------------------------------------------------------------------------
(* Properties                                                               *)

\* The branch leaves the repository, or its work reaches a target branch.
Lands(r) ==
    IF r = "origin-branch" THEN ref'[r] # ref[r]
    ELSE ((ref'[r] \ ref[r]) \cap {"work", "more"}) # {}

\* Nothing is pushed or lands on a target unless the guard of a command has let
\* it through, at an identity (head, plan and queue) that a review and the tests
\* have passed.  What lands of a plan in a worktree of its own is the branch at
\* exactly that head, when nobody commits to it while a command runs.  (The
\* guard is asked once: an edit of the plan or of the queue after it stops
\* nothing, nor does a commit, and a plan in place gets past it through the
\* rebase of merge_remote.)
LandsGated ==
    [][\A r \in {"target", "origin-branch", "origin-target"} :
          Lands(r) =>
             /\ \A kind \in Kinds : required \in approved[kind]
             /\ isolated /\ habit = "between" =>
                   required.head = ref[IF r = "origin-target" THEN "origin-branch" ELSE "branch"]]_vars

\* No commit of the branch is lost: whatever is deleted, and whoever commits
\* meanwhile, some branch still reaches it.
NoWorkLost == [][(ref["branch"] \ UNION {ref'[r] : r \in Refs}) = {}]_vars

\* When the queue says that the worktree was removed, it is gone and so is its
\* branch, and the work is on the target.
RemovedIsMerged == removed => ~worktree /\ ref["branch"] = {} /\ "work" \in ref["target"]
=============================================================================
