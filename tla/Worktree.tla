------------------------------ MODULE Worktree ------------------------------
(***************************************************************************)
(* The Git repository a plan executes in, as codex_flow/git_ops.py sees    *)
(* it: one checkout, the branch it is on, the tip of every branch and the  *)
(* commits made so far.                                                    *)
(*                                                                         *)
(* A digest of a diff is the diff itself (SHA-256 is taken to be           *)
(* injective), and a diff is the function from the paths that differ to    *)
(* what they hold now.                                                     *)
(***************************************************************************)
EXTENDS Integers, Sequences, FiniteSets, Functions

CONSTANTS
    Paths,      \* paths of the repository outside .codex-flow/
    Contents,   \* what a path may hold, its absence included
    Original,   \* what every path holds in the initial commit: no file yet
    Messages,   \* commit messages as they are asked for
    Cleanup,    \* what git makes of a message: it strips blank lines and
                \* trailing spaces
    Branches,   \* branch names
    Trunk,      \* the branch checked out before any unit starts
    MaxCommits, \* bound: commits made on top of the initial one
    MaxEdits    \* bound: edits and commits made by others

ASSUME OriginalAssumption == Original \in Contents
ASSUME CleanupAssumption == Cleanup \in [Messages \cup {""} -> Messages \cup {""}]
ASSUME TrunkAssumption == Trunk \in Branches
ASSUME BoundsAssumption == MaxCommits \in Nat /\ MaxEdits \in Nat

VARIABLES
    work,       \* the checkout: what every path holds
    branch,     \* the branch checked out
    tips,       \* the commit every branch points to
    commits,    \* commits in the order they were made; 0 is the initial one
    edits       \* edits and commits made by others so far

worktreeVars == <<work, branch, tips, commits, edits>>

NoTip == -1         \* a branch that has not been created
Outsider == << >>   \* the author of a commit that no attempt made

InitialTree == [x \in Paths |-> Original]

WorktreeInit ==
    /\ work = InitialTree
    /\ branch = Trunk
    /\ tips = [b \in Branches |-> IF b = Trunk THEN 0 ELSE NoTip]
    /\ commits = << >>
    /\ edits = 0

-----------------------------------------------------------------------------
(* Queries *)

HeadCommit == tips[branch]
Tree(c) == IF c = 0 THEN InitialTree ELSE commits[c].tree

\* The diff of nothing.
NoDiff == [x \in {} |-> Original]

\* git diff base -- S, against a tree: changed_paths_between and
\* binary_patch_digest when the tree is a commit's; worktree_patch_digest, and
\* binary_patch_digest of freshly staged paths, when it is the checkout.
Changes(base, tree, S) == Restrict(tree, {x \in S : tree[x] # Tree(base)[x]})

\* The paths of S that git status reports.
Dirty(S) == {x \in S : work[x] # Tree(HeadCommit)[x]}

\* scoped_diff_digest and out_of_scope_diff_digest: the diff against HEAD.
Diff(S) == Changes(HeadCommit, work, S)

-----------------------------------------------------------------------------
(* Commands *)

\* Mutant: the branch is checked out and not created.
PrepareBranchUncreated(b) ==
    /\ branch' = b
    /\ UNCHANGED <<work, tips, commits, edits>>

\* git switch in a clean checkout, creating the branch at HEAD when it does
\* not exist.
PrepareBranch(b) ==
    /\ branch' = b
    /\ tips' = IF tips[b] = NoTip THEN [tips EXCEPT ![b] = HeadCommit] ELSE tips
    /\ work' = Tree(tips'[b])
    /\ UNCHANGED <<commits, edits>>

\* git commit --only -- S: what the checkout holds now at the paths of S, on
\* top of whatever HEAD is now.  With nothing to commit git fails.
CommitPaths(S, message, author) ==
    /\ Dirty(S) # {}
    /\ Len(commits) < MaxCommits
    /\ commits' = Append(commits,
          [parent |-> HeadCommit, message |-> Cleanup[message], author |-> author,
           tree |-> [x \in Paths |-> IF x \in S THEN work[x] ELSE Tree(HeadCommit)[x]]])
    /\ tips' = [tips EXCEPT ![branch] = Len(commits) + 1]
    /\ UNCHANGED <<work, branch>>

-----------------------------------------------------------------------------
(* Whoever else writes to the checkout: the coordinating agent that         *)
(* implements the unit, the user, an editor.                                *)

Edit(x) ==
    /\ edits < MaxEdits
    /\ \E c \in Contents : c # work[x] /\ work' = [work EXCEPT ![x] = c]
    /\ edits' = edits + 1
    /\ UNCHANGED <<branch, tips, commits>>

OutsideCommit ==
    /\ edits < MaxEdits
    /\ \E S \in SUBSET Dirty(Paths), message \in Messages :
          CommitPaths(S, message, Outsider)
    /\ edits' = edits + 1
=============================================================================
