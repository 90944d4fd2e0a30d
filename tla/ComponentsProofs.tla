-------------------------- MODULE ComponentsProofs --------------------------
(***************************************************************************)
(* Theorems about the components of MCComponents, for every value of their *)
(* constants.                                                              *)
(*                                                                         *)
(* The review and the way to the merged branch are proved as they stand.   *)
(* queue.json, the PR lock and the inbox are written without a lock, and   *)
(* what is proved about them is proved for one process at a time           *)
(* (OneAtATime), which may die after every step and be started again.      *)
(***************************************************************************)
EXTENDS MCComponents, Sequences, TLAPS, FiniteSetTheorems, FunctionTheorems

-----------------------------------------------------------------------------
(* One component moves at a time                                            *)

\* A step of the four is a step of each, or leaves it as it is.
LEMMA StepOfEach ==
    ASSUME [ComponentsNext]_componentsVars
    PROVE  /\ [Next]_queueVars /\ [Inbox!Next]_inboxVars
           /\ [Review!Next]_reviewVars /\ [Merge!Next]_mergeVars
  <1>1. CASE ComponentsNext
    BY <1>1 DEF ComponentsNext
  <1>2. CASE UNCHANGED componentsVars
    BY <1>2 DEF componentsVars
  <1>3. QED
    BY <1>1, <1>2

-----------------------------------------------------------------------------
(* Release                                                                  *)

PaperTypes ==
    /\ habit \in Habits /\ isolated \in BOOLEAN
    /\ paper \in [plan : 0..MaxPaperEdits, queue : 0..MaxPaperEdits]
    /\ evidence \in [Kinds -> [of : Merge!Identities, pass : BOOLEAN]]
    /\ gate \in Merge!Identities /\ required \in Merge!Identities
    /\ approved \in [Kinds -> SUBSET Merge!Identities]

GitTypes ==
    /\ upstream \in BOOLEAN /\ worktree \in BOOLEAN /\ removed \in BOOLEAN
    /\ ref \in [Merge!Refs -> SUBSET Merge!Commits]
    /\ checkout \in {"branch", "target"} /\ merging \subseteq Merge!Commits
    /\ pr \in {"none", "open"} /\ prLock \in {"none", "ours", "theirs"}
    /\ step \in Merge!Steps /\ command \in {"local", "remote", "cleanup"}
    /\ held \subseteq Merge!Commits

\* The type invariant of Release, with every Boolean on its own.
MergeTypeInv == PaperTypes /\ GitTypes

\* What the actions name is a step, a reference or a commit.
LEMMA MergeNames ==
    /\ Merge!Steps = {"idle", "guard", "dirty", "merge", "resolve", "finalize", "remove", "delete",
        "persist", "locked", "push", "pr", "merge-pr", "fetch-base", "rebase", "resolve-rebase",
        "push-again", "merge-again", "clear-lock", "fetch", "converge"}
    /\ Merge!Refs = {"branch", "target", "origin-branch", "origin-target", "tracking"}
    /\ Merge!Commits = {"base", "work", "more", "others", "fix"}
  BY DEF Merge!Steps, Merge!Refs, Merge!Commits

\* A command under way leaves the papers alone, but for what its guard has seen.
LEMMA WorkKeepsPapers ==
    ASSUME Merge!Work
    PROVE  /\ UNCHANGED <<isolated, habit, paper, evidence, gate, approved, command>>
           /\ UNCHANGED required \/ required' = Merge!Identity
  BY DEF Merge!Work, Merge!Keep, Merge!files,
         Merge!Guard, Merge!Dirty, Merge!MergeLocal, Merge!Resolve, Merge!ReadLock, Merge!Push, Merge!EnsurePr,
         Merge!MergePr, Merge!Fetch, Merge!Rebase, Merge!ClearLock, Merge!Converge, Merge!Finalize,
         Merge!Remove, Merge!Delete, Merge!Persist

\* The identity that a gate records now is one, and HEAD reaches commits only.
LEMMA IdentityType ==
    ASSUME MergeTypeInv
    PROVE  Merge!Identity \in Merge!Identities /\ Merge!Head \subseteq Merge!Commits
  BY
     DEF MergeTypeInv, GitTypes, PaperTypes, Merge!Identities, Merge!Identity, Merge!Head,
         Merge!Refs

\* A step keeps the types of the plan, its queue and its gate.
LEMMA PaperTypeStep ==
    ASSUME MergeTypeInv, [Merge!Next]_mergeVars
    PROVE  PaperTypes'
  <1>1. CASE \E kind \in Kinds : Merge!Examine(kind)
    BY <1>1, IdentityType DEF MergeTypeInv, PaperTypes, Merge!Examine
  <1>2. CASE Merge!ProduceGate
    BY <1>2, IdentityType DEF MergeTypeInv, PaperTypes, Merge!ProduceGate
  <1>3. CASE Merge!Edit
    BY <1>3, ComponentsAssumption DEF MergeTypeInv, PaperTypes, Merge!Edit, Merge!Around
  <1>4. CASE /\ UNCHANGED <<isolated, habit, paper, evidence, gate, approved>>
             /\ UNCHANGED required \/ required' = Merge!Identity
    BY <1>4, IdentityType DEF MergeTypeInv, PaperTypes
  <1>5. QED
    BY <1>1, <1>2, <1>3, <1>4, WorkKeepsPapers
       DEF Merge!Next, Merge!Give, Merge!Die, Merge!Commit, Merge!Others, Merge!Switch, Merge!Around,
           Merge!files, mergeVars

\* A step keeps the types of the branches, the worktree and the command.
LEMMA GitTypeStep ==
    ASSUME MergeTypeInv, [Merge!Next]_mergeVars
    PROVE  GitTypes'
  <1> USE MergeNames, ComponentsAssumption
      DEF MergeTypeInv, GitTypes, mergeVars, 
          Merge!Goto, Merge!Keep, Merge!KeepRemote, Merge!Around, Merge!git, Merge!files
  <1>1. CASE Merge!Give
    BY <1>1 DEF Merge!Give
  <1>2. CASE Merge!Guard
    BY <1>2 DEF Merge!Guard
  <1>3. CASE Merge!Dirty
    BY <1>3 DEF Merge!Dirty
  <1>4. CASE Merge!MergeLocal
    BY <1>4 DEF Merge!MergeLocal, Merge!MergeDone, Merge!MergeStopped, Merge!MergeRefused
  <1>5. CASE Merge!Resolve("resolve", "target", "finalize")
    <2>1. /\ merging' \in {merging, {}}
          /\ ref' \in {ref, [ref EXCEPT !["target"] = @ \cup merging \cup {"fix"}]}
      BY <1>5 DEF Merge!Resolve
    <2>2. merging' \subseteq Merge!Commits /\ ref' \in [Merge!Refs -> SUBSET Merge!Commits]
      BY <2>1
    <2>3. QED
      BY <1>5, <2>2 DEF Merge!Resolve
  <1>6. CASE Merge!ReadLock
    BY <1>6 DEF Merge!ReadLock
  <1>7. CASE Merge!Push("push", "pr")
    BY <1>7 DEF Merge!Push
  <1>8. CASE Merge!EnsurePr
    BY <1>8 DEF Merge!EnsurePr
  <1>9. CASE Merge!MergePr("merge-pr", "fetch-base")
    BY <1>9 DEF Merge!MergePr
  <1>10. CASE Merge!Fetch("fetch-base", "rebase")
    BY <1>10 DEF Merge!Fetch
  <1>11. CASE Merge!Rebase
    BY <1>11 DEF Merge!Rebase, Merge!MergeDone, Merge!MergeStopped, Merge!MergeRefused
  <1>12. CASE Merge!Resolve("resolve-rebase", "branch", "push-again")
    <2>1. /\ merging' \in {merging, {}}
          /\ ref' \in {ref, [ref EXCEPT !["branch"] = @ \cup merging \cup {"fix"}]}
      BY <1>12 DEF Merge!Resolve
    <2>2. merging' \subseteq Merge!Commits /\ ref' \in [Merge!Refs -> SUBSET Merge!Commits]
      BY <2>1
    <2>3. QED
      BY <1>12, <2>2 DEF Merge!Resolve
  <1>13. CASE Merge!Push("push-again", "merge-again")
    BY <1>13 DEF Merge!Push
  <1>14. CASE Merge!MergePr("merge-again", "idle")
    BY <1>14 DEF Merge!MergePr
  <1>15. CASE Merge!ClearLock
    BY <1>15 DEF Merge!ClearLock
  <1>16. CASE Merge!Fetch("fetch", "converge")
    BY <1>16 DEF Merge!Fetch
  <1>17. CASE Merge!Converge
    BY <1>17 DEF Merge!Converge, Merge!MergeDone, Merge!MergeStopped
  <1>18. CASE Merge!Finalize
    BY <1>18 DEF Merge!Finalize
  <1>19. CASE Merge!Remove
    BY <1>19 DEF Merge!Remove
  <1>20. CASE Merge!Delete
    BY <1>20 DEF Merge!Delete
  <1>21. CASE Merge!Persist
    BY <1>21 DEF Merge!Persist
  <1>22. CASE Merge!Die
    BY <1>22 DEF Merge!Die
  <1>23. CASE \E kind \in Kinds : Merge!Examine(kind)
    BY <1>23 DEF Merge!Examine
  <1>24. CASE Merge!ProduceGate
    BY <1>24 DEF Merge!ProduceGate
  <1>25. CASE Merge!Commit
    BY <1>25 DEF Merge!Commit
  <1>26. CASE Merge!Edit
    BY <1>26 DEF Merge!Edit
  <1>27. CASE Merge!Others
    BY <1>27 DEF Merge!Others
  <1>28. CASE Merge!Switch
    BY <1>28 DEF Merge!Switch
  <1>29. CASE UNCHANGED mergeVars
    BY <1>29
  <1>30. QED
    BY <1>1, <1>2, <1>3, <1>4, <1>5, <1>6, <1>7, <1>8, <1>9, <1>10, <1>11, <1>12, <1>13, <1>14,
       <1>15, <1>16, <1>17, <1>18, <1>19, <1>20, <1>21, <1>22, <1>23, <1>24, <1>25, <1>26, <1>27,
       <1>28, <1>29
       DEF Merge!Next, Merge!Work

\* Release: a step keeps the types.
LEMMA MergeTypeStep ==
    ASSUME MergeTypeInv, [Merge!Next]_mergeVars
    PROVE  MergeTypeInv'
  BY PaperTypeStep, GitTypeStep DEF MergeTypeInv

\* Release: types hold at first.
LEMMA MergeTypeInit ==
    ASSUME Merge!Init
    PROVE  MergeTypeInv
  <1>1. Merge!NoGate \in Merge!Identities
    BY ComponentsAssumption DEF Merge!NoGate, Merge!Identities
  <1>2. PaperTypes
    <2>1. evidence = [k \in Kinds |-> [of |-> Merge!NoGate, pass |-> FALSE]]
      BY DEF Merge!Init
    <2>2. evidence \in [Kinds -> [of : Merge!Identities, pass : BOOLEAN]]
      BY <1>1, <2>1
    <2>3. /\ habit \in Habits /\ isolated \in BOOLEAN /\ gate = Merge!NoGate /\ required = Merge!NoGate
          /\ approved = [k \in Kinds |-> {}]
          /\ paper = [plan |-> 0, queue |-> 0]
      BY ComponentsAssumption DEF Merge!Init
    <2>4. paper \in [plan : 0..MaxPaperEdits, queue : 0..MaxPaperEdits]
      BY <2>3, ComponentsAssumption
    <2>5. approved \in [Kinds -> SUBSET Merge!Identities]
      BY <2>3
    <2>6. QED
      BY <1>1, <2>2, <2>3, <2>4, <2>5 DEF PaperTypes
  <1>3. GitTypes
    <2>1. ref \in [Merge!Refs -> SUBSET Merge!Commits]
      BY MergeNames DEF Merge!Init
    <2>2. checkout \in {"branch", "target"} /\ worktree \in BOOLEAN
      BY ComponentsAssumption DEF Merge!Init
    <2>3. QED
      BY <2>1, <2>2, MergeNames DEF Merge!Init, GitTypes
  <1>4. QED
    BY <1>2, <1>3 DEF MergeTypeInv

\* How far a removal has come.  While there is a branch it reaches the unit's
\* commit; a cleanup goes on only with a head that is on the target, and the
\* branch goes after the worktree and before the record of it.
RemovalInv ==
    /\ ref["branch"] # {} => "work" \in ref["branch"]
    /\ step = "resolve-rebase" => ref["branch"] # {}
    /\ step \in {"remove", "delete", "persist"} => "work" \in ref["target"] /\ held \subseteq ref["target"]
    /\ step \in {"delete", "persist"} => ~worktree
    /\ step = "persist" => ref["branch"] = {}
    /\ Merge!RemovedIsMerged

\* No step of a command, of git or of a person breaks the order of a removal.
LEMMA RemovalStep ==
    ASSUME MergeTypeInv, RemovalInv, [Merge!Next]_mergeVars
    PROVE  RemovalInv'
  <1> USE MergeNames
      DEF MergeTypeInv, GitTypes, RemovalInv, Merge!RemovedIsMerged, mergeVars, 
          Merge!Goto, Merge!Keep, Merge!KeepRemote, Merge!Around, Merge!git, Merge!files
  <1>1. CASE Merge!Give
    BY <1>1 DEF Merge!Give
  <1>2. CASE Merge!Guard
    BY <1>2 DEF Merge!Guard
  <1>3. CASE Merge!Dirty
    BY <1>3 DEF Merge!Dirty
  <1>4. CASE Merge!MergeLocal
    BY <1>4 DEF Merge!MergeLocal, Merge!MergeDone, Merge!MergeStopped, Merge!MergeRefused
  <1>5. CASE Merge!Resolve("resolve", "target", "finalize")
    <2>1. \/ UNCHANGED ref
          \/ ref' = [ref EXCEPT !["target"] = @ \cup merging \cup {"fix"}]
      BY <1>5 DEF Merge!Resolve
    <2>2. /\ ref["target"] \subseteq ref'["target"]
          /\ ref["branch"] \subseteq ref'["branch"]
          /\ ref["branch"] = {} => ref'["branch"] = {}
      BY <1>5, <2>1 DEF Merge!Resolve
    <2>3. QED
      BY <1>5, <2>2 DEF Merge!Resolve
  <1>6. CASE Merge!ReadLock
    BY <1>6 DEF Merge!ReadLock
  <1>7. CASE Merge!Push("push", "pr")
    BY <1>7 DEF Merge!Push
  <1>8. CASE Merge!EnsurePr
    BY <1>8 DEF Merge!EnsurePr
  <1>9. CASE Merge!MergePr("merge-pr", "fetch-base")
    BY <1>9 DEF Merge!MergePr
  <1>10. CASE Merge!Fetch("fetch-base", "rebase")
    BY <1>10 DEF Merge!Fetch
  <1>11. CASE Merge!Rebase
    BY <1>11
       DEF Merge!Rebase, Merge!MergeDone, Merge!MergeStopped, Merge!MergeRefused, Merge!CanSwitch
  <1>12. CASE Merge!Resolve("resolve-rebase", "branch", "push-again")
    <2>1. \/ UNCHANGED ref
          \/ ref' = [ref EXCEPT !["branch"] = @ \cup merging \cup {"fix"}]
      BY <1>12 DEF Merge!Resolve
    <2>2. /\ ref["target"] \subseteq ref'["target"]
          /\ ref["branch"] \subseteq ref'["branch"]
          /\ ref["branch"] = {} => ref'["branch"] = {}
      BY <1>12, <2>1 DEF Merge!Resolve
    <2>3. QED
      BY <1>12, <2>2 DEF Merge!Resolve
  <1>13. CASE Merge!Push("push-again", "merge-again")
    BY <1>13 DEF Merge!Push
  <1>14. CASE Merge!MergePr("merge-again", "idle")
    BY <1>14 DEF Merge!MergePr
  <1>15. CASE Merge!ClearLock
    BY <1>15 DEF Merge!ClearLock
  <1>16. CASE Merge!Fetch("fetch", "converge")
    BY <1>16 DEF Merge!Fetch
  <1>17. CASE Merge!Converge
    BY <1>17 DEF Merge!Converge, Merge!MergeDone, Merge!MergeStopped
  <1>18. CASE Merge!Finalize
    BY <1>18 DEF Merge!Finalize, Merge!Cleanable
  <1>19. CASE Merge!Remove
    <2>1. CASE ~worktree' /\ step' = "delete"
      BY <1>19, <2>1 DEF Merge!Remove
    <2>2. CASE worktree' = worktree /\ step' = "idle"
      BY <1>19, <2>2 DEF Merge!Remove
    <2>3. QED
      BY <1>19, <2>1, <2>2 DEF Merge!Remove
  <1>20. CASE Merge!Delete
    BY <1>20 DEF Merge!Delete, Merge!DeleteHolds
  <1>21. CASE Merge!Persist
    BY <1>21 DEF Merge!Persist
  <1>22. CASE Merge!Die
    BY <1>22 DEF Merge!Die
  <1>23. CASE \E kind \in Kinds : Merge!Examine(kind)
    <2>1. UNCHANGED <<ref, step, held, worktree, removed>>
      BY <1>23 DEF Merge!Examine
    <2>2. QED
      BY <2>1
  <1>24. CASE Merge!ProduceGate
    BY <1>24 DEF Merge!ProduceGate
  <1>25. CASE Merge!Commit
    BY <1>25 DEF Merge!Commit
  <1>26. CASE Merge!Edit
    BY <1>26 DEF Merge!Edit
  <1>27. CASE Merge!Others
    BY <1>27 DEF Merge!Others
  <1>28. CASE Merge!Switch
    BY <1>28 DEF Merge!Switch
  <1>29. CASE UNCHANGED mergeVars
    BY <1>29
  <1>30. QED
    BY <1>1, <1>2, <1>3, <1>4, <1>5, <1>6, <1>7, <1>8, <1>9, <1>10, <1>11, <1>12, <1>13, <1>14,
       <1>15, <1>16, <1>17, <1>18, <1>19, <1>20, <1>21, <1>22, <1>23, <1>24, <1>25, <1>26, <1>27,
       <1>28, <1>29
       DEF Merge!Next, Merge!Work

\* At first nothing is being removed.
LEMMA RemovalInit ==
    ASSUME Merge!Init
    PROVE  RemovalInv
  BY MergeNames DEF Merge!Init, RemovalInv, Merge!RemovedIsMerged

\* A commit leaves the branch when the branch is deleted, and is then on the
\* target, on the branch of origin or where the cleanup has found it.
LEMMA NothingDeletedUnmerged ==
    ASSUME MergeTypeInv, RemovalInv, [Merge!Next]_mergeVars
    PROVE  ref["branch"] \subseteq UNION {ref'[r] : r \in Merge!Refs}
  <1> USE MergeNames
      DEF MergeTypeInv, GitTypes, mergeVars, 
          Merge!Goto, Merge!Keep, Merge!KeepRemote, Merge!Around, Merge!git, Merge!files
  <1>1. CASE ref["branch"] \subseteq ref'["branch"]
    BY <1>1
  <1>2. CASE Merge!Finalize
    <2>1. CASE UNCHANGED ref
      BY <2>1
    <2>2. CASE Merge!Deletable /\ ref' = [ref EXCEPT !["branch"] = {}]
      <3>1. PICK r \in {"target", "origin-branch"} : ref["branch"] \subseteq ref[r]
        BY <2>2 DEF Merge!Deletable
      <3>2. ref'[r] = ref[r]
        BY <2>2, <3>1
      <3>3. QED
        BY <3>1, <3>2
    <2>3. QED
      BY <1>2, <2>1, <2>2 DEF Merge!Finalize
  <1>3. CASE Merge!Delete
    <2>1. CASE UNCHANGED ref
      BY <2>1
    <2>2. CASE Merge!DeleteHolds /\ ref' = [ref EXCEPT !["branch"] = {}]
      <3>1. ref["branch"] \subseteq ref'["target"]
        BY <1>3, <2>2 DEF Merge!DeleteHolds, Merge!Delete, RemovalInv
      <3>2. QED
        BY <3>1
    <2>3. QED
      BY <1>3, <2>1, <2>2 DEF Merge!Delete
  <1>4. ASSUME ~Merge!Finalize, ~Merge!Delete
        PROVE  ref["branch"] \subseteq ref'["branch"]
    <2>1. CASE Merge!Give
      BY <2>1 DEF Merge!Give
    <2>2. CASE Merge!Guard
      BY <2>2 DEF Merge!Guard
    <2>3. CASE Merge!Dirty
      BY <2>3 DEF Merge!Dirty
    <2>4. CASE Merge!MergeLocal
      BY <2>4 DEF Merge!MergeLocal, Merge!MergeDone, Merge!MergeStopped, Merge!MergeRefused
    <2>5. CASE Merge!Resolve("resolve", "target", "finalize")
      BY <2>5 DEF Merge!Resolve
    <2>6. CASE Merge!ReadLock
      BY <2>6 DEF Merge!ReadLock
    <2>7. CASE Merge!Push("push", "pr")
      BY <2>7 DEF Merge!Push
    <2>8. CASE Merge!EnsurePr
      BY <2>8 DEF Merge!EnsurePr
    <2>9. CASE Merge!MergePr("merge-pr", "fetch-base")
      BY <2>9 DEF Merge!MergePr
    <2>10. CASE Merge!Fetch("fetch-base", "rebase")
      BY <2>10 DEF Merge!Fetch
    <2>11. CASE Merge!Rebase
      BY <2>11 DEF Merge!Rebase, Merge!MergeDone, Merge!MergeStopped, Merge!MergeRefused
    <2>12. CASE Merge!Resolve("resolve-rebase", "branch", "push-again")
      <3>1. \/ UNCHANGED ref
            \/ ref' = [ref EXCEPT !["branch"] = @ \cup merging \cup {"fix"}]
        BY <2>12 DEF Merge!Resolve
      <3>2. CASE UNCHANGED ref
        BY <3>2
      <3>3. CASE ref' = [ref EXCEPT !["branch"] = @ \cup merging \cup {"fix"}]
        BY <3>3
      <3>4. QED
        BY <3>1, <3>2, <3>3
    <2>13. CASE Merge!Push("push-again", "merge-again")
      BY <2>13 DEF Merge!Push
    <2>14. CASE Merge!MergePr("merge-again", "idle")
      BY <2>14 DEF Merge!MergePr
    <2>15. CASE Merge!ClearLock
      BY <2>15 DEF Merge!ClearLock
    <2>16. CASE Merge!Fetch("fetch", "converge")
      BY <2>16 DEF Merge!Fetch
    <2>17. CASE Merge!Converge
      BY <2>17 DEF Merge!Converge, Merge!MergeDone, Merge!MergeStopped
    <2>18. CASE Merge!Remove
      BY <2>18 DEF Merge!Remove
    <2>19. CASE Merge!Persist
      BY <2>19 DEF Merge!Persist
    <2>20. CASE Merge!Die
      BY <2>20 DEF Merge!Die
    <2>21. CASE \E kind \in Kinds : Merge!Examine(kind)
      BY <2>21 DEF Merge!Examine
    <2>22. CASE Merge!ProduceGate
      BY <2>22 DEF Merge!ProduceGate
    <2>23. CASE Merge!Commit
      BY <2>23 DEF Merge!Commit
    <2>24. CASE Merge!Edit
      BY <2>24 DEF Merge!Edit
    <2>25. CASE Merge!Others
      BY <2>25 DEF Merge!Others
    <2>26. CASE Merge!Switch
      BY <2>26 DEF Merge!Switch
    <2>27. CASE UNCHANGED mergeVars
      BY <2>27
    <2>28. QED
      BY <1>4, <2>1, <2>2, <2>3, <2>4, <2>5, <2>6, <2>7, <2>8, <2>9, <2>10, <2>11, <2>12, <2>13,
         <2>14, <2>15, <2>16, <2>17, <2>18, <2>19, <2>20, <2>21, <2>22, <2>23, <2>24, <2>25, <2>26,
         <2>27
         DEF Merge!Next, Merge!Work
  <1>5. QED
    BY <1>1, <1>2, <1>3, <1>4

\* From the guard on, a command goes by an identity that all the evidence has
\* passed; of a plan in a worktree to which nobody commits meanwhile, the branch
\* is still at its head.
GatedSteps == {"dirty", "merge", "resolve", "locked", "push", "pr", "merge-pr", "fetch-base", "rebase",
               "clear-lock", "fetch", "converge"}
RebaseSteps == {"resolve-rebase", "push-again", "merge-again"}

LandInv ==
    /\ \A kind \in Kinds : evidence[kind].pass => evidence[kind].of \in approved[kind]
    /\ gate.head # {} => \A kind \in Kinds : gate \in approved[kind]
    /\ worktree => isolated /\ ref["branch"] # {}
    /\ step \in {"remove", "delete", "persist"} => isolated
    /\ ~isolated => ref[checkout] # {}
    /\ step \in GatedSteps \cup RebaseSteps => \A kind \in Kinds : required \in approved[kind]
    /\ isolated =>
          /\ step \in GatedSteps => worktree
          /\ step \notin RebaseSteps
          /\ habit = "between" =>
                /\ step \in GatedSteps => required.head = ref["branch"]
                /\ step \in {"pr", "merge-pr"} => ref["origin-branch"] = ref["branch"]

\* At first nothing has landed.
LEMMA LandInit ==
    ASSUME Merge!Init
    PROVE  LandInv
  <1>1. /\ gate = Merge!NoGate /\ step = "idle" /\ ref["branch"] # {} /\ (worktree => isolated)
        /\ ~isolated => checkout = "branch"
    BY MergeNames DEF Merge!Init
  <1>2. evidence = [k \in Kinds |-> [of |-> Merge!NoGate, pass |-> FALSE]]
    BY DEF Merge!Init
  <1>3. \A kind \in Kinds : ~evidence[kind].pass
    BY <1>2
  <1>4. QED
    BY <1>1, <1>3 DEF LandInv, GatedSteps, RebaseSteps, Merge!NoGate

\* No step lets a commit that the gate has not seen on its way to the target.
LEMMA LandStep ==
    ASSUME MergeTypeInv, RemovalInv, LandInv, [Merge!Next]_mergeVars
    PROVE  LandInv'
  <1> USE MergeNames
      DEF MergeTypeInv, GitTypes, LandInv, GatedSteps, RebaseSteps, mergeVars,
          Merge!Goto, Merge!Keep, Merge!KeepRemote, Merge!Around, Merge!git, Merge!files
  <1>1. CASE Merge!Give
    BY <1>1 DEF Merge!Give
  <1>2. CASE Merge!Guard
    <2>1. UNCHANGED <<ref, checkout, evidence, approved, gate, worktree, isolated, habit>>
      BY <1>2 DEF Merge!Guard
    <2>2. CASE step' = "idle"
      BY <2>1, <2>2
    <2>3. CASE /\ worktree = isolated /\ Merge!GateHolds /\ step' \in {"dirty", "locked"}
               /\ required' = Merge!Identity
      <3>1. Merge!Identity.head = Merge!Head /\ required' = gate /\ gate.head = Merge!Head
        BY <2>3 DEF Merge!GateHolds, Merge!Identity
      <3>2. Merge!Head # {} /\ (isolated => Merge!Head = ref["branch"])
        BY <2>3 DEF Merge!Head
      <3>3. \A kind \in Kinds : required' \in approved'[kind]
        BY <2>1, <3>1, <3>2
      <3>4. isolated => worktree
        BY <2>3
      <3>5. QED
        BY <2>1, <2>3, <3>1, <3>2, <3>3, <3>4
    <2>4. QED
      BY <1>2, <2>2, <2>3 DEF Merge!Guard
  <1>3. CASE Merge!Dirty
    BY <1>3 DEF Merge!Dirty
  <1>4. CASE Merge!MergeLocal
    <2>1. /\ UNCHANGED <<evidence, approved, gate, required, worktree, isolated, habit>>
          /\ step = "merge" /\ step' \in {"resolve", "finalize"}
      BY <1>4 DEF Merge!MergeLocal
    <2>2. \/ UNCHANGED ref
          \/ ref' = [ref EXCEPT !["target"] = @ \cup ref["branch"]]
      BY <1>4 DEF Merge!MergeLocal, Merge!MergeDone, Merge!MergeStopped, Merge!MergeRefused
    <2>3. /\ \A r \in {"branch", "target"} : ref[r] \subseteq ref'[r]
          /\ ref'["branch"] = ref["branch"]
      BY <2>2
    <2>4. checkout' = checkout \/ (checkout' = "target" /\ ref["target"] # {})
      BY <1>4 DEF Merge!MergeLocal, Merge!CanSwitch
    <2>5. QED
      BY <2>1, <2>3, <2>4
  <1>5. CASE Merge!Resolve("resolve", "target", "finalize")
    <2>1. /\ UNCHANGED <<checkout, evidence, approved, gate, required, worktree, isolated, habit>>
          /\ step = "resolve" /\ step' \in {"idle", "finalize"}
      BY <1>5 DEF Merge!Resolve
    <2>2. \/ UNCHANGED ref
          \/ ref' = [ref EXCEPT !["target"] = @ \cup merging \cup {"fix"}]
      BY <1>5 DEF Merge!Resolve
    <2>3. /\ \A r \in {"branch", "target"} : ref[r] \subseteq ref'[r]
          /\ ref'["branch"] = ref["branch"]
      BY <2>2
    <2>4. QED
      BY <2>1, <2>3
  <1>6. CASE Merge!ReadLock
    BY <1>6 DEF Merge!ReadLock
  <1>7. CASE Merge!Push("push", "pr")
    BY <1>7 DEF Merge!Push
  <1>8. CASE Merge!EnsurePr
    BY <1>8 DEF Merge!EnsurePr
  <1>9. CASE Merge!MergePr("merge-pr", "fetch-base")
    BY <1>9 DEF Merge!MergePr
  <1>10. CASE Merge!Fetch("fetch-base", "rebase")
    BY <1>10 DEF Merge!Fetch
  <1>11. CASE Merge!Rebase
    <2>1. UNCHANGED <<evidence, approved, gate, required, worktree, isolated, habit>> /\ step = "rebase"
      BY <1>11 DEF Merge!Rebase
    <2>2. CASE step' = "idle" /\ UNCHANGED <<ref, checkout>>
      BY <2>1, <2>2
    <2>3. CASE /\ Merge!CanSwitch("branch") /\ checkout' = "branch"
               /\ ref["branch"] \subseteq ref'["branch"] /\ step' \in RebaseSteps
      <3>1. ~isolated
        BY <2>1, <2>3 DEF Merge!CanSwitch
      <3>2. ref'["branch"] # {}
        BY <2>3 DEF Merge!CanSwitch
      <3>3. QED
        BY <2>1, <2>3, <3>1, <3>2
    <2>4. \/ UNCHANGED ref
          \/ ref' = [ref EXCEPT !["branch"] = @ \cup ref["tracking"]]
      BY <1>11 DEF Merge!Rebase, Merge!MergeDone, Merge!MergeStopped, Merge!MergeRefused
    <2>5. ref["branch"] \subseteq ref'["branch"]
      BY <2>4
    <2>6. QED
      BY <1>11, <2>2, <2>3, <2>5 DEF Merge!Rebase
  <1>12. CASE Merge!Resolve("resolve-rebase", "branch", "push-again")
    <2>1. UNCHANGED <<evidence, approved, gate, required, worktree, isolated, habit>> /\ step = "resolve-rebase"
      BY <1>12 DEF Merge!Resolve
    <2>2. ~isolated /\ step' \in {"idle", "push-again"} /\ checkout' = checkout
      BY <1>12, <2>1 DEF Merge!Resolve
    <2>3. \/ UNCHANGED ref
          \/ ref' = [ref EXCEPT !["branch"] = @ \cup merging \cup {"fix"}]
      BY <1>12 DEF Merge!Resolve
    <2>4. ref[checkout] \subseteq ref'[checkout]
      BY <2>3
    <2>5. QED
      BY <2>1, <2>2, <2>4
  <1>13. CASE Merge!Push("push-again", "merge-again")
    BY <1>13 DEF Merge!Push
  <1>14. CASE Merge!MergePr("merge-again", "idle")
    BY <1>14 DEF Merge!MergePr
  <1>15. CASE Merge!ClearLock
    BY <1>15 DEF Merge!ClearLock
  <1>16. CASE Merge!Fetch("fetch", "converge")
    BY <1>16 DEF Merge!Fetch
  <1>17. CASE Merge!Converge
    <2>1. /\ UNCHANGED <<evidence, approved, gate, required, worktree, isolated, habit>>
          /\ step' \in {"idle", "finalize"}
      BY <1>17 DEF Merge!Converge
    <2>2. \/ UNCHANGED ref
          \/ ref' = [ref EXCEPT !["target"] = @ \cup ref["tracking"]]
      BY <1>17 DEF Merge!Converge, Merge!MergeDone, Merge!MergeStopped
    <2>3. /\ \A r \in {"branch", "target"} : ref[r] \subseteq ref'[r]
          /\ ref'["branch"] = ref["branch"]
      BY <2>2
    <2>4. checkout' = checkout \/ (checkout' = "target" /\ ref["target"] # {})
      BY <1>17 DEF Merge!Converge, Merge!CanSwitch
    <2>5. QED
      BY <2>1, <2>3, <2>4
  <1>18. CASE Merge!Finalize
    <2>1. /\ UNCHANGED <<evidence, approved, gate, required, worktree, isolated, habit, checkout>>
          /\ step' \in {"idle", "remove"} /\ (step' = "remove" => isolated)
      BY <1>18 DEF Merge!Finalize
    <2>2. isolated => UNCHANGED ref
      BY <1>18 DEF Merge!Finalize
    <2>3. ~isolated => ref'[checkout] # {}
      BY <1>18 DEF Merge!Finalize, Merge!Deletable
    <2>4. QED
      BY <2>1, <2>2, <2>3
  <1>19. CASE Merge!Remove
    <2>1. /\ UNCHANGED <<ref, checkout, evidence, approved, gate, required, isolated, habit>>
          /\ step = "remove" /\ step' \in {"idle", "delete"}
      BY <1>19 DEF Merge!Remove
    <2>2. worktree' => worktree
      BY <1>19 DEF Merge!Remove
    <2>3. QED
      BY <2>1, <2>2
  <1>20. CASE Merge!Delete
    <2>1. /\ UNCHANGED <<evidence, approved, gate, required, worktree, isolated, habit>>
          /\ step = "delete" /\ step' \in {"idle", "persist"} /\ ~worktree
      BY <1>20 DEF Merge!Delete, RemovalInv
    <2>2. QED
      BY <2>1
  <1>21. CASE Merge!Persist
    BY <1>21 DEF Merge!Persist
  <1>22. CASE Merge!Die
    BY <1>22 DEF Merge!Die
  <1>23. CASE \E kind \in Kinds : Merge!Examine(kind)
    <2>1. PICK kind \in Kinds : Merge!Examine(kind)
      BY <1>23
    <2>2. UNCHANGED <<ref, checkout, gate, required, worktree, isolated, habit, step>>
      BY <2>1 DEF Merge!Examine
    <2>3. PICK pass \in BOOLEAN :
             /\ evidence' = [evidence EXCEPT ![kind] = [of |-> Merge!Identity, pass |-> pass]]
             /\ approved' = IF pass THEN [approved EXCEPT ![kind] = @ \cup {Merge!Identity}] ELSE approved
      BY <2>1 DEF Merge!Examine
    <2>4. ASSUME NEW k \in Kinds
          PROVE  approved[k] \subseteq approved'[k] /\ (evidence'[k].pass => evidence'[k].of \in approved'[k])
      <3>1. evidence'[k] = IF k = kind THEN [of |-> Merge!Identity, pass |-> pass] ELSE evidence[k]
        BY <2>3 DEF PaperTypes
      <3>2. approved'[k] = IF pass /\ k = kind THEN approved[k] \cup {Merge!Identity} ELSE approved[k]
        BY <2>3 DEF PaperTypes
      <3>3. evidence[k].pass => evidence[k].of \in approved[k]
        OBVIOUS
      <3>4. CASE k = kind
        <4>1. evidence'[k].of = Merge!Identity /\ evidence'[k].pass = pass
          <5>1. evidence'[k] = [of |-> Merge!Identity, pass |-> pass]
            BY Zenon, <3>1, <3>4
          <5>2. [of |-> Merge!Identity, pass |-> pass].of = Merge!Identity
            OBVIOUS
          <5>3. [of |-> Merge!Identity, pass |-> pass].pass = pass
            BY Zenon
          <5>4. QED
            BY Zenon, <5>1, <5>2, <5>3
        <4>2. /\ pass => approved'[k] = approved[k] \cup {Merge!Identity}
              /\ ~pass => approved'[k] = approved[k]
          BY Zenon, <3>2, <3>4
        <4>3. QED
          BY <4>1, <4>2
      <3>5. CASE k # kind
        BY <3>1, <3>2, <3>3, <3>5
      <3>6. QED
        BY <3>4, <3>5
    <2>5. QED
      BY <2>2, <2>4
  <1>24. CASE Merge!ProduceGate
    <2>1. UNCHANGED <<ref, checkout, evidence, approved, required, worktree, isolated, habit, step>>
      BY <1>24 DEF Merge!ProduceGate
    <2>2. \A kind \in Kinds : gate' \in approved[kind]
      BY <1>24 DEF Merge!ProduceGate, Merge!EvidenceHolds
    <2>3. QED
      BY <2>1, <2>2
  <1>25. CASE Merge!Commit
    <2>1. /\ UNCHANGED <<checkout, evidence, approved, gate, required, worktree, isolated, habit, step>>
          /\ habit = "between" => step = "idle"
          /\ ref' = [ref EXCEPT !["branch"] = @ \cup {"more"}]
      BY <1>25 DEF Merge!Commit, Merge!Quiet
    <2>2. QED
      BY <2>1
  <1>26. CASE Merge!Edit
    <2>1. UNCHANGED <<ref, checkout, evidence, approved, gate, required, worktree, isolated, habit, step>>
      BY <1>26 DEF Merge!Edit
    <2>2. QED
      BY <2>1
  <1>27. CASE Merge!Others
    BY <1>27 DEF Merge!Others
  <1>28. CASE Merge!Switch
    BY <1>28 DEF Merge!Switch, Merge!CanSwitch
  <1>29. CASE UNCHANGED mergeVars
    BY <1>29
  <1>30. QED
    BY <1>1, <1>2, <1>3, <1>4, <1>5, <1>6, <1>7, <1>8, <1>9, <1>10, <1>11, <1>12, <1>13, <1>14,
       <1>15, <1>16, <1>17, <1>18, <1>19, <1>20, <1>21, <1>22, <1>23, <1>24, <1>25, <1>26, <1>27,
       <1>28, <1>29
       DEF Merge!Next, Merge!Work

\* What a step lands is what the guard has let through.
LandsPassed(r) ==
    /\ \A kind \in Kinds : required \in approved[kind]
    /\ isolated /\ habit = "between" =>
          required.head = ref[IF r = "origin-target" THEN "origin-branch" ELSE "branch"]

LEMMA LandingIsGated ==
    ASSUME MergeTypeInv, LandInv, [Merge!Next]_mergeVars,
           NEW r \in {"target", "origin-branch", "origin-target"}, Merge!Lands(r)
    PROVE  LandsPassed(r)
  <1> USE MergeNames
      DEF MergeTypeInv, GitTypes, Merge!Lands, mergeVars,
          Merge!Goto, Merge!Keep, Merge!KeepRemote, Merge!Around, Merge!git, Merge!files
  <1>1. CASE step \in GatedSteps \cup RebaseSteps /\ r # "origin-target"
    BY <1>1 DEF LandInv, LandsPassed
  <1>2. CASE step \in {"merge-pr", "merge-again"}
    BY <1>2 DEF LandInv, LandsPassed, GatedSteps, RebaseSteps
  <1>3. CASE UNCHANGED <<ref["target"], ref["origin-branch"], ref["origin-target"]>>
    BY <1>3
  <1>4. CASE Merge!Others
    <2>1. ref' = [ref EXCEPT !["origin-target"] = @ \cup {"others"}]
      BY <1>4 DEF Merge!Others
    <2>2. QED
      BY <2>1
  <1>5. CASE Merge!Give
    BY <1>5, <1>1, <1>2, <1>3 DEF Merge!Give, GatedSteps, RebaseSteps
  <1>6. CASE Merge!Guard
    BY <1>6, <1>1, <1>2, <1>3 DEF Merge!Guard, GatedSteps, RebaseSteps
  <1>7. CASE Merge!Dirty
    BY <1>7, <1>1, <1>2, <1>3 DEF Merge!Dirty, GatedSteps, RebaseSteps
  <1>8. CASE Merge!MergeLocal
    BY <1>8, <1>1, <1>2, <1>3
       DEF Merge!MergeLocal, Merge!MergeDone, Merge!MergeStopped, Merge!MergeRefused, GatedSteps, RebaseSteps
  <1>9. CASE Merge!Resolve("resolve", "target", "finalize")
    BY <1>9, <1>1, <1>2, <1>3 DEF Merge!Resolve, GatedSteps, RebaseSteps
  <1>10. CASE Merge!ReadLock
    BY <1>10, <1>1, <1>2, <1>3 DEF Merge!ReadLock, GatedSteps, RebaseSteps
  <1>11. CASE Merge!Push("push", "pr")
    BY <1>11, <1>1, <1>2, <1>3 DEF Merge!Push, GatedSteps, RebaseSteps
  <1>12. CASE Merge!EnsurePr
    BY <1>12, <1>1, <1>2, <1>3 DEF Merge!EnsurePr, GatedSteps, RebaseSteps
  <1>13. CASE Merge!MergePr("merge-pr", "fetch-base")
    BY <1>13, <1>1, <1>2, <1>3 DEF Merge!MergePr, GatedSteps, RebaseSteps
  <1>14. CASE Merge!Fetch("fetch-base", "rebase")
    BY <1>14, <1>1, <1>2, <1>3 DEF Merge!Fetch, GatedSteps, RebaseSteps
  <1>15. CASE Merge!Rebase
    BY <1>15, <1>1, <1>2, <1>3
       DEF Merge!Rebase, Merge!MergeDone, Merge!MergeStopped, Merge!MergeRefused, GatedSteps, RebaseSteps
  <1>16. CASE Merge!Resolve("resolve-rebase", "branch", "push-again")
    BY <1>16, <1>1, <1>2, <1>3 DEF Merge!Resolve, GatedSteps, RebaseSteps
  <1>17. CASE Merge!Push("push-again", "merge-again")
    BY <1>17, <1>1, <1>2, <1>3 DEF Merge!Push, GatedSteps, RebaseSteps
  <1>18. CASE Merge!MergePr("merge-again", "idle")
    BY <1>18, <1>1, <1>2, <1>3 DEF Merge!MergePr, GatedSteps, RebaseSteps
  <1>19. CASE Merge!ClearLock
    BY <1>19, <1>1, <1>2, <1>3 DEF Merge!ClearLock, GatedSteps, RebaseSteps
  <1>20. CASE Merge!Fetch("fetch", "converge")
    BY <1>20, <1>1, <1>2, <1>3 DEF Merge!Fetch, GatedSteps, RebaseSteps
  <1>21. CASE Merge!Converge
    BY <1>21, <1>1, <1>2, <1>3
       DEF Merge!Converge, Merge!MergeDone, Merge!MergeStopped, GatedSteps, RebaseSteps
  <1>22. CASE Merge!Finalize
    BY <1>22, <1>1, <1>2, <1>3 DEF Merge!Finalize, GatedSteps, RebaseSteps
  <1>23. CASE Merge!Remove
    BY <1>23, <1>1, <1>2, <1>3 DEF Merge!Remove, GatedSteps, RebaseSteps
  <1>24. CASE Merge!Delete
    BY <1>24, <1>1, <1>2, <1>3 DEF Merge!Delete, GatedSteps, RebaseSteps
  <1>25. CASE Merge!Persist
    BY <1>25, <1>1, <1>2, <1>3 DEF Merge!Persist, GatedSteps, RebaseSteps
  <1>26. CASE Merge!Die
    BY <1>26, <1>1, <1>2, <1>3 DEF Merge!Die, GatedSteps, RebaseSteps
  <1>27. CASE \E kind \in Kinds : Merge!Examine(kind)
    BY <1>27, <1>1, <1>2, <1>3 DEF Merge!Examine, GatedSteps, RebaseSteps
  <1>28. CASE Merge!ProduceGate
    BY <1>28, <1>1, <1>2, <1>3 DEF Merge!ProduceGate, GatedSteps, RebaseSteps
  <1>29. CASE Merge!Commit
    BY <1>29, <1>1, <1>2, <1>3 DEF Merge!Commit, GatedSteps, RebaseSteps
  <1>30. CASE Merge!Edit
    BY <1>30, <1>1, <1>2, <1>3 DEF Merge!Edit, GatedSteps, RebaseSteps
  <1>31. CASE Merge!Switch
    BY <1>31, <1>1, <1>2, <1>3 DEF Merge!Switch, GatedSteps, RebaseSteps
  <1>32. CASE UNCHANGED mergeVars
    BY <1>32
  <1>33. QED
    BY <1>4, <1>5, <1>6, <1>7, <1>8, <1>9, <1>10, <1>11, <1>12, <1>13, <1>14, <1>15, <1>16, <1>17,
       <1>18, <1>19, <1>20, <1>21, <1>22, <1>23, <1>24, <1>25, <1>26, <1>27, <1>28, <1>29, <1>30,
       <1>31, <1>32
       DEF Merge!Next, Merge!Work

MergeInv == MergeTypeInv /\ RemovalInv /\ LandInv

\* The invariant of Release is inductive.
LEMMA MergeInductive ==
    /\ Merge!Init => MergeInv
    /\ MergeInv /\ [Merge!Next]_mergeVars => MergeInv'
  BY MergeTypeInit, RemovalInit, LandInit, MergeTypeStep, RemovalStep, LandStep DEF MergeInv

\* The invariant of Release holds while any of the four components moves.
LEMMA MergeHolds == ComponentsSpec => []MergeInv
  <1>1. ComponentsInit => MergeInv
    BY MergeInductive DEF ComponentsInit
  <1>2. MergeInv /\ [ComponentsNext]_componentsVars => MergeInv'
    BY MergeInductive, StepOfEach
  <1>3. QED
    BY <1>1, <1>2, PTL DEF ComponentsSpec, componentsVars

\* A worktree that queue.json records as removed is gone, its branch too, and
\* its work is on the target, whatever died or was committed between the check
\* and the removal.
THEOREM RemovalIsSafe == ComponentsSpec => []RemovedIsMerged
  <1>1. MergeInv => RemovedIsMerged
    BY DEF MergeInv, RemovalInv, RemovedIsMerged
  <1>2. QED
    BY <1>1, MergeHolds, PTL

\* No step of the merge commands, of a cleanup or of the people around them
\* loses a commit of the branch.
THEOREM WorkIsNeverLost == ComponentsSpec => NoWorkLost
  <1>1. MergeInv /\ [ComponentsNext]_componentsVars =>
            [(ref["branch"] \ UNION {ref'[r] : r \in Merge!Refs}) = {}]_(Merge!vars)
    <2> SUFFICES ASSUME MergeInv, [ComponentsNext]_componentsVars
                 PROVE  (ref["branch"] \ UNION {ref'[r] : r \in Merge!Refs}) = {}
      OBVIOUS
    <2>1. ref["branch"] \subseteq UNION {ref'[r] : r \in Merge!Refs}
      BY NothingDeletedUnmerged, StepOfEach DEF MergeInv
    <2>2. QED
      BY <2>1
  <1>2. QED
    BY <1>1, MergeHolds, PTL DEF ComponentsSpec, componentsVars, NoWorkLost, Merge!NoWorkLost

\* What is pushed or reaches a target has passed the guard of its command, at
\* an identity that every kind of evidence has passed; of a plan in a worktree
\* to whose branch nobody commits during a command it is the branch at that
\* head: through edits of the plan and of the queue at any step, conflicts,
\* commands that die and are given again, and pull requests that fall behind.
THEOREM LandsOnlyGated == ComponentsSpec => LandsGated
  <1> DEFINE Gated == \A r \in {"target", "origin-branch", "origin-target"} :
                 Merge!Lands(r) => LandsPassed(r)
  <1>1. MergeInv /\ [ComponentsNext]_componentsVars => [Gated]_(Merge!vars)
    BY LandingIsGated, StepOfEach DEF MergeInv
  <1>2. QED
    BY <1>1, MergeHolds, PTL
       DEF ComponentsSpec, componentsVars, LandsGated, Merge!LandsGated, LandsPassed

------------------------------------------------------------------------------
(* ReviewGate                                                               *)

GateLine == Review!GateLines
TerminalLine == Review!Terminals
Verdict == Review!Review

ReviewTypeInv ==
    /\ repo \in 0..MaxChanges /\ expected \in 0..MaxChanges
    /\ session \in {"none", "reused", "fresh"}
    /\ gates \in Seq(GateLine) /\ Len(gates) <= MaxGates
    /\ terminals \in Seq(TerminalLine) /\ Len(terminals) <= MaxTerminals
    /\ blank \in BOOLEAN
    /\ outcome \in Review!Outcomes

\* ReviewGate: a step keeps the types.
LEMMA ReviewTypeStep ==
    ASSUME ReviewTypeInv, [Review!Next]_reviewVars
    PROVE  ReviewTypeInv'
  <1> USE ComponentsAssumption DEF ReviewTypeInv, Review!Outcomes, reviewVars
  <1>1. CASE Review!Ask
    BY <1>1 DEF Review!Ask
  <1>2. CASE Review!Fail
    BY <1>2 DEF Review!Fail
  <1>3. CASE Review!Write
    <2>1. UNCHANGED <<repo, expected, session, outcome>>
      BY <1>3 DEF Review!Write
    <2>2. CASE /\ UNCHANGED <<terminals, blank>> /\ Len(gates) < MaxGates
               /\ \E gateLine \in GateLine : gates' = Append(gates, gateLine)
      BY <2>1, <2>2
    <2>3. CASE /\ UNCHANGED <<gates, blank>> /\ Len(terminals) < MaxTerminals
               /\ \E line \in TerminalLine : terminals' = Append(terminals, line)
      BY <2>1, <2>3
    <2>4. CASE blank' = TRUE /\ UNCHANGED <<gates, terminals>>
      BY <2>1, <2>4
    <2>5. QED
      BY <1>3, <2>2, <2>3, <2>4 DEF Review!Write, GateLine, TerminalLine
  <1>4. CASE Review!Finish
    <2>1. \A reported \in {"none", "reused", "fresh"} : Review!Judge(reported) \in Review!Outcomes
      BY DEF Review!Judge, Review!Review, Review!Decision
    <2>2. QED
      BY <1>4, <2>1 DEF Review!Finish
  <1>5. CASE Review!Change
    BY <1>5 DEF Review!Change
  <1>6. CASE UNCHANGED reviewVars
    BY <1>6
  <1>7. QED
    BY <1>1, <1>2, <1>3, <1>4, <1>5, <1>6 DEF Review!Next

\* A gate line without a blank field that passes is the clean one.
LEMMA OnlyCleanPasses ==
    ASSUME NEW line \in GateLine, "bad" \notin {line.blockers, line.important}, line.rest
    PROVE  Review!Passed(line) <=> line = Review!Clean
  <1>1. ASSUME Review!Passed(line)
        PROVE  line = Review!Clean
    <2>1. line.status = "pass" /\ line.blockers = "zero" /\ line.important = "zero" /\ line.rest = TRUE
      BY <1>1 DEF Review!Passed, GateLine, Review!GateLines, Review!Counts
    <2>2. QED
      BY <2>1 DEF Review!Clean, GateLine, Review!GateLines
  <1>2. Review!Passed(Review!Clean)
    BY DEF Review!Passed, Review!Clean
  <1>3. QED
    BY <1>1, <1>2

\* What the message of one complete gate line is taken for.
LEMMA WellFormedMessage ==
    ASSUME ReviewTypeInv, Review!Evidence
    PROVE  /\ Review!Passed(gates[1]) <=> gates[1] = Review!Clean
           /\ Len(gates) = 1 /\ gates[1] \in GateLine /\ Review!Last(gates) = gates[1]
           /\ gates = <<Review!Clean>> <=> gates[1] = Review!Clean
  <1>1. Len(gates) = 1 /\ gates[1] \in GateLine
    <2>1. Len(gates) = 1
      BY DEF Review!Evidence
    <2>2. gates \in Seq(GateLine)
      BY DEF ReviewTypeInv
    <2>3. QED
      BY <2>1, <2>2
  <1>2. "bad" \notin {gates[1].blockers, gates[1].important} /\ gates[1].rest
    BY DEF Review!Evidence
  <1>3. Review!Passed(gates[1]) <=> gates[1] = Review!Clean
    BY <1>1, <1>2, OnlyCleanPasses
  <1>4. Review!Last(gates) = gates[1]
    BY <1>1 DEF Review!Last
  <1>5. gates = <<Review!Clean>> <=> gates[1] = Review!Clean
    BY <1>1 DEF ReviewTypeInv
  <1>6. QED
    BY <1>1, <1>3, <1>4, <1>5

\* Review reads READY from one clean gate line and one READY line, and from
\* nothing else.
LEMMA ReviewReadyWhenClean ==
    ASSUME ReviewTypeInv
    PROVE  Verdict = "ready" <=> ~blank /\ gates = <<Review!Clean>> /\ terminals = <<"READY">>
  <1>1. ASSUME Verdict = "ready"
        PROVE  ~blank /\ gates = <<Review!Clean>> /\ terminals = <<"READY">>
    <2>1. ~blank /\ Review!Evidence /\ Review!Decision = "ready"
      BY <1>1 DEF Verdict, Review!Review, ReviewTypeInv
    <2>2. Len(terminals) = 1 /\ terminals[1] = "READY"
      BY <2>1 DEF Review!Decision, ReviewTypeInv, TerminalLine, Review!Terminals
    <2>3. Review!Passed(gates[1])
      <3>1. gates # << >> /\ Review!Last(gates) = gates[1]
        BY <2>1, WellFormedMessage
      <3>2. QED
        BY <2>1, <2>2, <3>1 DEF Review!Decision
    <2>4. terminals = <<"READY">>
      BY <2>2 DEF ReviewTypeInv
    <2>5. QED
      BY <2>1, <2>3, <2>4, WellFormedMessage
  <1>2. ASSUME ~blank, gates = <<Review!Clean>>, terminals = <<"READY">>
        PROVE  Verdict = "ready"
    <2>1. Review!Evidence
      BY <1>2 DEF Review!Evidence, Review!Clean
    <2>2. Review!Passed(gates[1]) /\ Review!Last(gates) = gates[1]
      BY <1>2, <2>1, WellFormedMessage
    <2>3. Review!Decision = "ready"
      BY <1>2, <2>2 DEF Review!Decision
    <2>4. QED
      BY <1>2, <2>1, <2>3 DEF Verdict, Review!Review
  <1>3. QED
    BY <1>1, <1>2

\* Review reads a finding only from one gate line without bad fields and one
\* terminal line that gives its reason.
LEMMA ReviewFindsWhenWellFormed ==
    ASSUME ReviewTypeInv, Verdict = "finding"
    PROVE  /\ Len(gates) = 1 /\ gates[1].status # "bad" /\ gates[1].rest
           /\ "bad" \notin {gates[1].blockers, gates[1].important}
           /\ terminals \in {<<t>> : t \in TerminalLine \ {"NEEDS_WORK without a reason"}}
           /\ ~(gates[1] = Review!Clean /\ terminals = <<"READY">>)
  <1>1. ~blank /\ Review!Evidence /\ Review!Decision = "finding"
    BY DEF Verdict, Review!Review, ReviewTypeInv
  <1>2. Len(terminals) = 1
    BY <1>1 DEF Review!Decision
  <1>3. PICK line \in TerminalLine : line = terminals[1] /\ terminals = <<line>>
    <2>1. terminals \in Seq(TerminalLine)
      BY DEF ReviewTypeInv
    <2>2. terminals[1] \in TerminalLine /\ terminals = <<terminals[1]>>
      BY <1>2, <2>1
    <2>3. QED
      BY <2>2
  <1>4. line # "NEEDS_WORK without a reason"
    <2>1. terminals # <<"NEEDS_WORK without a reason">>
      BY <1>1 DEF Review!Decision
    <2>2. QED
      BY Zenon, <1>3, <2>1
  <1>5. Verdict # "ready"
    OBVIOUS
  <1>6. ~(gates = <<Review!Clean>> /\ terminals = <<"READY">>)
    BY <1>1, <1>5, ReviewReadyWhenClean
  <1>7. terminals \in {<<l>> : l \in TerminalLine \ {"NEEDS_WORK without a reason"}}
    BY Zenon, <1>3, <1>4
  <1>8. QED
    BY <1>1, <1>6, <1>7, WellFormedMessage DEF Review!Evidence

\* Asking, reviewing and failing leave the outcome earned.
LEMMA ReviewStep ==
    ASSUME ReviewTypeInv, ReviewIsEarned, [Review!Next]_reviewVars
    PROVE  ReviewIsEarned'
  <1> DEFINE earned == /\ repo = expected /\ session = "fresh" /\ ~blank
                       /\ gates = <<Review!Clean>> /\ terminals = <<"READY">>
             well == /\ repo = expected /\ session = "fresh"
                     /\ Len(gates) = 1 /\ gates[1].status # "bad" /\ gates[1].rest
                     /\ "bad" \notin {gates[1].blockers, gates[1].important}
                     /\ terminals \in {<<t>> : t \in TerminalLine \ {"NEEDS_WORK without a reason"}}
                     /\ ~(gates[1] = Review!Clean /\ terminals = <<"READY">>)
  <1>1. ReviewIsEarned <=> /\ outcome \in {"ready", "finding", "protocol", "raised"} => (outcome = "ready" <=> earned)
                           /\ outcome = "finding" => well
    BY DEF ReviewIsEarned, Review!ReadyWhenEarned, Review!FindingIsWellFormed, TerminalLine
  <1>2. ReviewIsEarned' <=>
            /\ outcome' \in {"ready", "finding", "protocol", "raised"} => (outcome' = "ready" <=> earned')
            /\ outcome' = "finding" => well'
    BY DEF ReviewIsEarned, Review!ReadyWhenEarned, Review!FindingIsWellFormed, TerminalLine
  <1>3. CASE Review!Ask
    BY <1>2, <1>3 DEF Review!Ask
  <1>4. CASE Review!Fail \/ Review!Write \/ Review!Change
    BY <1>2, <1>4 DEF Review!Fail, Review!Write, Review!Change
  <1>5. CASE Review!Finish
    <2>1. UNCHANGED <<repo, expected, gates, terminals, blank>>
      BY <1>5 DEF Review!Finish
    <2>2. PICK reported \in {"none", "reused", "fresh"} :
             session' = reported /\ outcome' = Review!Judge(reported)
      BY <1>5 DEF Review!Finish
    <2>3. CASE repo # expected \/ reported # "fresh"
      <3>1. outcome' = "protocol" /\ ~earned'
        BY <2>1, <2>2, <2>3 DEF Verdict, Review!Judge
      <3>2. QED
        BY <1>2, <3>1
    <2>4. CASE repo = expected /\ reported = "fresh"
      <3>1. outcome' = Verdict
        BY <2>2, <2>4 DEF Verdict, Review!Judge
      <3>2. outcome' = "ready" <=> earned'
        <4>1. session' = "fresh"
          BY <2>2, <2>4
        <4>2. earned' <=> ~blank /\ gates = <<Review!Clean>> /\ terminals = <<"READY">>
          BY <2>1, <2>4, <4>1
        <4>3. QED
          BY <3>1, <4>2, ReviewReadyWhenClean
      <3>3. ASSUME outcome' = "finding"
            PROVE  well'
        <4>1. session' = "fresh" /\ Verdict = "finding"
          BY <2>2, <2>4, <3>1, <3>3
        <4>2. QED
          BY <2>1, <2>4, <4>1, ReviewFindsWhenWellFormed
      <3>4. QED
        BY <1>2, <3>2, <3>3
    <2>5. QED
      BY <2>3, <2>4
  <1>6. CASE UNCHANGED reviewVars
    BY <1>1, <1>2, <1>6 DEF reviewVars
  <1>7. QED
    BY <1>3, <1>4, <1>5, <1>6 DEF Review!Next

\* The review has been earned in every state.
LEMMA ReviewHolds == ComponentsSpec => [](ReviewTypeInv /\ ReviewIsEarned)
  <1>1. ComponentsInit => ReviewTypeInv /\ ReviewIsEarned
    <2> SUFFICES ASSUME Review!Init
                 PROVE  ReviewTypeInv /\ ReviewIsEarned
      BY DEF ComponentsInit
    <2>1. /\ repo = 0 /\ expected = 0 /\ session = "none" /\ blank = FALSE /\ outcome = "asked"
          /\ gates = << >> /\ terminals = << >>
      BY DEF Review!Init
    <2>2. ReviewTypeInv
      <3>1. {MaxGates, MaxTerminals, MaxChanges} \subseteq Nat
        BY ComponentsAssumption
      <3>2. gates \in Seq(GateLine) /\ terminals \in Seq(TerminalLine)
        BY <2>1
      <3>3. Len(gates) = 0 /\ Len(terminals) = 0
        BY <2>1
      <3>4. QED
        <4>1. repo \in 0..MaxChanges /\ expected \in 0..MaxChanges
          BY <2>1, <3>1
        <4>2. Len(gates) <= MaxGates /\ Len(terminals) <= MaxTerminals
          BY <3>1, <3>3
        <4>3. QED
          BY <2>1, <3>2, <4>1, <4>2 DEF ReviewTypeInv, Review!Outcomes
    <2>3. ReviewIsEarned
      BY <2>1 DEF ReviewIsEarned, Review!ReadyWhenEarned, Review!FindingIsWellFormed
    <2>4. QED
      BY <2>2, <2>3
  <1>2. ReviewTypeInv /\ ReviewIsEarned /\ [ComponentsNext]_componentsVars => (ReviewTypeInv /\ ReviewIsEarned)'
    BY ReviewTypeStep, ReviewStep, StepOfEach
  <1>3. QED
    BY <1>1, <1>2, PTL DEF ComponentsSpec, componentsVars

\* A candidate is ready exactly when a fresh session over an unchanged
\* repository wrote one clean gate line and READY, for messages of any length,
\* and only a well-formed answer is a finding that may be repaired.
THEOREM ReviewMustBeEarned == ComponentsSpec => []ReviewIsEarned
  BY ReviewHolds, PTL

-----------------------------------------------------------------------------
(* ExecutionPolicy                                                          *)

\* The order of the profiles.
LEMMA Ranks ==
    /\ Rank["docs_only"] = 0 /\ Rank["contract"] = 1 /\ Rank["high_risk"] = 2
    /\ \A p \in Profiles : Rank[p] \in 0..2
  BY DEF Rank, Profiles

\* The highest of some profiles is one of them, and none is above it.
LEMMA HighestIsHighest ==
    ASSUME NEW S \in SUBSET Profiles, S # {}
    PROVE  Highest(S) \in S /\ \A q \in S : Rank[q] <= Rank[Highest(S)]
  <1>1. \E p \in S : \A q \in S : Rank[q] <= Rank[p]
    <2>1. CASE "high_risk" \in S
      <3>1. \A q \in S : Rank[q] <= Rank["high_risk"]
        BY Ranks
      <3>2. QED
        BY <2>1, <3>1
    <2>2. CASE "high_risk" \notin S /\ "contract" \in S
      <3>1. \A q \in S : Rank[q] <= Rank["contract"]
        BY <2>2, Ranks DEF Profiles
      <3>2. QED
        BY <2>2, <3>1
    <2>3. CASE "high_risk" \notin S /\ "contract" \notin S
      <3>1. "docs_only" \in S /\ \A q \in S : q = "docs_only"
        BY <2>3 DEF Profiles
      <3>2. QED
        BY <3>1, Ranks
    <2>4. QED
      BY <2>1, <2>2, <2>3
  <1>2. QED
    BY <1>1 DEF Highest

\* What ProtectionKept asks of a new policy.
Protects(old, new) ==
    /\ Rank[new.effective] >= Rank[old.effective]
    /\ old.adapter = "isolated-child" => new.adapter = "isolated-child"
    /\ old.review = "per_unit" => new.review = "per_unit"

Classified == {policy \in Policies : policy.effective \in Profiles}

\* A policy protects as much as itself.
LEMMA ProtectsItself ==
    ASSUME NEW policy \in Classified
    PROVE  Protects(policy, policy)
  BY Ranks DEF Protects, Classified

\* Classification gives every unit an effective profile.
LEMMA ClassifyType ==
    ASSUME NEW policy \in Policies, NEW e \in Evidence
    PROVE  /\ Classify(policy, e) \in Classified
           /\ Classify(policy, e).effective = Effective(policy, e)
           /\ {Declared(policy), LowerBound(e), Floor(policy)} \subseteq Profiles
           /\ Rank[Floor(policy)] <= Rank[Effective(policy, e)]
  <1>1. Declared(policy) \in Profiles
    BY DEF Declared, Profiles
  <1>2. LowerBound(e) \in Profiles
    BY DEF LowerBound, Profiles
  <1>3. Floor(policy) \in Profiles
    BY DEF Floor, Policies, Profiles, Missing, Unknown
  <1>4. /\ Effective(policy, e) \in Profiles
        /\ Rank[Floor(policy)] <= Rank[Effective(policy, e)]
    BY <1>1, <1>2, <1>3, HighestIsHighest DEF Effective
  <1> DEFINE effective == Effective(policy, e)
             result == Classify(policy, e)
  <1>5. /\ result.effective = effective
        /\ result \in [declared : Profiles \cup {Missing}, effective : {effective},
                       adapter : {"main", "isolated-child"}, review : {"final_only", "per_unit"}]
    BY DEF Classify, ReviewPolicy
  <1> HIDE DEF effective, result
  <1>6. result \in Classified
    BY <1>4, <1>5 DEF Classified, Policies, effective
  <1>7. QED
    BY <1>1, <1>2, <1>3, <1>4, <1>5, <1>6 DEF result, effective

\* Classifying again never lowers the protection of a unit, whatever the plan
\* shows about it now.
LEMMA ClassifyProtects ==
    ASSUME NEW policy \in Classified, NEW e \in Evidence
    PROVE  Protects(policy, Classify(policy, e))
  <1>1. policy \in Policies /\ policy.effective \in Profiles
    BY DEF Classified
  <1>2. Floor(policy) = policy.effective
    BY <1>1 DEF Floor, Profiles, Missing, Unknown
  <1>3. Rank[policy.effective] <= Rank[Classify(policy, e).effective]
    BY <1>1, <1>2, ClassifyType
  <1>4. /\ policy.adapter = "isolated-child" => Classify(policy, e).adapter = "isolated-child"
        /\ policy.review = "per_unit" => Classify(policy, e).review = "per_unit"
    BY DEF Classify, Mode, ReviewPolicy
  <1>5. QED
    BY <1>1, <1>3, <1>4, Ranks, ClassifyType DEF Protects, Classified

-----------------------------------------------------------------------------
(* QueueFile, for one process at a time                                     *)

OneAtATime == \A p, q \in Procs : p = q

QueueSteps == {"idle", "sync", "truncate", "fill", "change", "save", "save_fill"}
QueueLocals == [pc : QueueSteps, command : Commands, view : Content, request : Requests \cup {Missing}]

QueueTypes ==
    /\ file \in Content \cup {Torn} /\ kept \in Content
    /\ requestsMd \in SUBSET Requests
    /\ text \in Evidence
    /\ logged \in {Missing, "needs_work", "done"}
    /\ proc \in [Procs -> QueueLocals]
    /\ edits \in 0..MaxEdits /\ crashes \in 0..MaxCrashes

\* The view of a command that is about to be written: no worse than what the
\* file kept.
ViewOK(l) ==
    /\ l.view.context = "isolated_worktree"
    /\ l.view.policy \in Classified /\ Protects(kept.policy, l.view.policy)
    /\ l.view.status = "ready" /\ kept.status = "human_gate" =>
          l.pc \in {"save", "save_fill"} /\ l.command \in {"mark", "requeue"}
    /\ crashes = 0 => l.view.requests = requestsMd

QueueLocalOK(l) ==
    /\ l.pc # "idle" => l.request \in Requests
    /\ l.pc \in {"sync", "truncate", "change", "save"} => file # Torn
    /\ l.pc \in {"truncate", "fill", "change", "save", "save_fill"} => ViewOK(l)
    /\ l.pc \in {"sync", "truncate", "fill", "change"} /\ crashes = 0 => requestsMd = kept.requests

\* A torn file is one whose writer is under way or died; otherwise the file is
\* what was written last.
FileOK ==
    /\ file \in {Torn, kept}
    /\ kept.policy \in Classified

QueueInv ==
    /\ QueueTypes /\ FileOK /\ NothingForgotten
    /\ \A p \in Procs : \A l \in QueueLocals : l = proc[p] => QueueLocalOK(l)

\* The fields of what a process holds and of what queue.json keeps.
LEMMA QueueFields ==
    /\ \A l \in QueueLocals : /\ l.pc \in QueueSteps /\ l.command \in Commands
                              /\ l.view \in Content /\ l.request \in Requests \cup {Missing}
    /\ \A c \in Content : /\ c.status \in UnitStatuses /\ c.policy \in Policies
                          /\ c.context \in {"isolated_worktree", Missing} /\ c.requests \in SUBSET Requests
  BY DEF QueueLocals, Content

\* The one process, its locals now and next.
LEMMA SoloQueue ==
    ASSUME OneAtATime, QueueTypes', FileOK', ContextKept',
           NEW p \in Procs, NEW k \in QueueLocals, k = proc'[p], QueueLocalOK(k)',
           k.pc = "idle" /\ crashes' = 0 => requestsMd' = kept'.requests
    PROVE  QueueInv'
  <1>1. ASSUME NEW q \in Procs, NEW m \in QueueLocals, m = proc'[q]
        PROVE  QueueLocalOK(m)'
    <2>1. m = k
      BY <1>1 DEF OneAtATime
    <2>2. QED
      BY <2>1
  <1>2. RequestsKept'
    BY DEF RequestsKept, At
  <1>3. QED
    BY <1>1, <1>2 DEF QueueInv, NothingForgotten

\* A step of the one process moves from a local state that is as it should be.
LEMMA QueueAt ==
    ASSUME OneAtATime, QueueInv, NEW p \in Procs
    PROVE  \E l \in QueueLocals :
              /\ l = proc[p] /\ QueueLocalOK(l)
              /\ l.pc = "idle" /\ crashes = 0 => requestsMd = kept.requests
  <1>1. proc[p] \in QueueLocals
    BY DEF QueueInv, QueueTypes
  <1>2. QueueLocalOK(proc[p])
    BY <1>1 DEF QueueInv
  <1>3. proc[p].pc = "idle" => \A q \in Procs : At(q, "idle")
    BY DEF OneAtATime, At
  <1>4. QED
    BY <1>1, <1>2, <1>3 DEF QueueInv, NothingForgotten, RequestsKept

\* What a command becomes.
LEMMA QueueBecomes ==
    ASSUME QueueTypes, NEW p \in Procs, NEW k, Become(p, k)
    PROVE  k = proc'[p] /\ (k \in QueueLocals => proc' \in [Procs -> QueueLocals])
  BY DEF QueueTypes, Become

\* A step to another local state that touches nothing ViewOK looks at.
LEMMA ViewKept ==
    ASSUME NEW l \in QueueLocals, NEW k \in QueueLocals, ViewOK(l), k.view = l.view,
           k.command = l.command, k.pc \in {"save", "save_fill"} <=> l.pc \in {"save", "save_fill"},
           UNCHANGED <<kept, requestsMd, crashes>>
    PROVE  ViewOK(k)'
  BY DEF ViewOK

\* The cache sync rebuilds nothing: what it is about to write is the file with
\* the status of the log and the policy classified again.
LEMMA SyncedIsOK ==
    ASSUME QueueTypes, FileOK, ContextKept, file # Torn, NEW l, l.pc = "truncate",
           l.view = Synced(file), crashes = 0 => requestsMd = kept.requests
    PROVE  ViewOK(l) /\ Synced(file) \in Content
  <1>1. file = kept /\ kept \in Content /\ kept.policy \in Classified /\ text \in Evidence
    BY DEF QueueTypes, FileOK
  <1>2. Classify(kept.policy, text) \in Classified /\ Protects(kept.policy, Classify(kept.policy, text))
    BY <1>1, ClassifyType, ClassifyProtects DEF Classified
  <1> DEFINE policy == Classify(kept.policy, text)
             status == IF logged = Missing THEN kept.status ELSE logged
             view == Synced(kept)
  <1>3. view = [kept EXCEPT !.status = status, !.policy = policy]
    BY DEF Synced
  <1>4. status \in UnitStatuses /\ policy \in Policies /\ (status = "ready" => kept.status = "ready")
    BY <1>1, <1>2, QueueFields DEF QueueTypes, UnitStatuses, Missing, Classified
  <1> HIDE DEF policy, status, view
  <1>5. /\ view \in Content /\ view.status = status /\ view.policy = policy
        /\ view.context = kept.context /\ view.requests = kept.requests
    BY <1>1, <1>3, <1>4 DEF Content
  <1>6. ViewOK(l)
    BY <1>1, <1>2, <1>4, <1>5 DEF ViewOK, ContextKept, view, policy
  <1>7. QED
    BY <1>1, <1>5, <1>6 DEF view

\* A step that leaves the files alone takes the one process to a state that is
\* as it should be.
LEMMA LocalQueueStep ==
    ASSUME OneAtATime, QueueInv, NEW p \in Procs, NEW k \in QueueLocals, Become(p, k),
           UNCHANGED <<file, requestsMd, kept, text, logged, edits, crashes>>,
           QueueLocalOK(k), k.pc = "idle" /\ crashes = 0 => requestsMd = kept.requests
    PROVE  QueueInv'
  <1>1. QueueTypes /\ FileOK /\ ContextKept
    BY DEF QueueInv, NothingForgotten
  <1>2. k = proc'[p] /\ proc' \in [Procs -> QueueLocals]
    BY <1>1, QueueBecomes
  <1>3. QueueTypes'
    BY <1>1, <1>2 DEF QueueTypes
  <1>4. FileOK' /\ ContextKept'
    BY <1>1 DEF FileOK, ContextKept
  <1>5. QueueLocalOK(k)'
    BY DEF QueueLocalOK, ViewOK
  <1>6. QED
    BY <1>2, <1>3, <1>4, <1>5, SoloQueue

\* An idle process.
LEMMA IdleType == Idle \in QueueLocals /\ Idle.pc = "idle"
  BY DEF Idle, Empty, Content, UnitStatuses, NoPolicy, Policies, QueueLocals, QueueSteps, Commands

\* A command starts with nothing read.
LEMMA StartStep ==
    ASSUME OneAtATime, QueueInv, NEW p \in Procs, Start(p)
    PROVE  QueueInv'
  <1>1. PICK l \in QueueLocals : /\ l = proc[p] /\ QueueLocalOK(l)
                                 /\ l.pc = "idle" /\ crashes = 0 => requestsMd = kept.requests
    BY QueueAt
  <1>2. PICK c \in Commands, request \in Requests :
           Become(p, [Idle EXCEPT !.pc = "sync", !.command = c, !.request = request])
    BY DEF Start
  <1> DEFINE k == [Idle EXCEPT !.pc = "sync", !.command = c, !.request = request]
  <1>5. k \in QueueLocals /\ k.pc = "sync" /\ k.request = request
    BY IdleType DEF QueueLocals, QueueSteps
  <1> HIDE DEF k
  <1>6. Become(p, k)
    BY <1>2 DEF k
  <1>7. /\ UNCHANGED <<file, requestsMd, kept, text, logged, edits, crashes>>
        /\ file # Torn /\ l.pc = "idle"
    BY <1>1 DEF Start, others, At
  <1>8. QueueLocalOK(k)
    BY <1>1, <1>5, <1>7 DEF QueueLocalOK
  <1>9. QED
    BY <1>5, <1>6, <1>7, <1>8, LocalQueueStep

\* The one process reads what it started with: the file is not torn.
LEMMA SyncReadStep ==
    ASSUME OneAtATime, QueueInv, NEW p \in Procs, SyncRead(p)
    PROVE  QueueInv'
  <1>1. QueueTypes /\ FileOK /\ ContextKept
    BY DEF QueueInv, NothingForgotten
  <1>2. PICK l \in QueueLocals : l = proc[p] /\ QueueLocalOK(l)
    BY QueueAt
  <1>3. l.pc = "sync" /\ file # Torn /\ l.request \in Requests /\ (crashes = 0 => requestsMd = kept.requests)
    BY <1>2 DEF SyncRead, At, QueueLocalOK
  <1>4. UNCHANGED <<file, requestsMd, kept, text, logged, edits, crashes>>
    BY DEF SyncRead, others
  <1> DEFINE view == Synced(file)
             k == [l EXCEPT !.pc = "truncate", !.view = view]
  <1>5. Become(p, k)
    BY <1>2, <1>3 DEF SyncRead, ReadForSync
  <1> HIDE DEF view
  <1>6. k.pc = "truncate" /\ k.view = view /\ k.request = l.request
    BY DEF QueueLocals
  <1>7. view \in Content /\ ViewOK(k)
    BY <1>1, <1>3, <1>6, SyncedIsOK DEF view
  <1>8. k \in QueueLocals
    BY <1>7 DEF QueueLocals, QueueSteps
  <1> HIDE DEF k
  <1>9. QueueLocalOK(k)
    BY <1>3, <1>6, <1>7 DEF QueueLocalOK
  <1>10. QED
    BY <1>4, <1>5, <1>6, <1>8, <1>9, LocalQueueStep

\* The first half of a write.
LEMMA TruncateStep ==
    ASSUME OneAtATime, QueueInv, NEW p \in Procs,
           SyncTruncate(p) \/ SaveTruncate(p)
    PROVE  QueueInv' /\ UNCHANGED kept
  <1>1. QueueTypes /\ FileOK /\ ContextKept
    BY DEF QueueInv, NothingForgotten
  <1>2. PICK l \in QueueLocals : l = proc[p] /\ QueueLocalOK(l)
    BY QueueAt
  <1>3. PICK next \in {"fill", "save_fill"} :
           /\ l.pc = (IF next = "fill" THEN "truncate" ELSE "save")
           /\ Become(p, [l EXCEPT !.pc = next]) /\ file' = Torn
           /\ UNCHANGED <<requestsMd, kept, text, logged, edits, crashes>>
    BY <1>2 DEF SyncTruncate, SaveTruncate, Truncate, At, Goto, others
  <1> DEFINE k == [l EXCEPT !.pc = next]
  <1>4. /\ k \in QueueLocals /\ k.pc = next /\ k.view = l.view /\ k.command = l.command
        /\ k.request = l.request
    BY DEF QueueLocals, QueueSteps
  <1> HIDE DEF k
  <1>5. k = proc'[p] /\ proc' \in [Procs -> QueueLocals]
    BY <1>1, <1>3, <1>4, QueueBecomes DEF k
  <1>6. ViewOK(l) /\ l.request \in Requests
    BY <1>2, <1>3 DEF QueueLocalOK
  <1>7. ViewOK(k)'
    BY <1>3, <1>4, <1>6 DEF ViewOK
  <1>8. QueueLocalOK(k)'
    BY <1>2, <1>3, <1>4, <1>6, <1>7 DEF QueueLocalOK
  <1>9. QueueTypes' /\ FileOK' /\ ContextKept'
    BY <1>1, <1>3, <1>5 DEF QueueTypes, FileOK, ContextKept
  <1>10. QED
    BY <1>3, <1>4, <1>5, <1>8, <1>9, SoloQueue

\* The second half: what the file keeps is now the view.
LEMMA FillStep ==
    ASSUME OneAtATime, QueueInv, NEW p \in Procs, SyncFill(p) \/ SaveFill(p)
    PROVE  /\ QueueInv'
           /\ Protects(kept.policy, kept'.policy)
           /\ kept.status = "human_gate" /\ kept'.status = "ready" =>
                 \E q \in Procs : ~At(q, "idle") /\ proc[q].command \in {"mark", "requeue"}
  <1>1. QueueTypes /\ FileOK /\ ContextKept
    BY DEF QueueInv, NothingForgotten
  <1>2. PICK l \in QueueLocals : l = proc[p] /\ QueueLocalOK(l)
    BY QueueAt
  <1>3. PICK k : /\ Become(p, k) /\ file' = l.view /\ kept' = l.view
                 /\ \/ l.pc = "fill" /\ k = [l EXCEPT !.pc = "change"]
                    \/ l.pc = "save_fill" /\ k = Idle
                 /\ UNCHANGED <<requestsMd, text, logged, edits, crashes>>
    BY <1>2 DEF SyncFill, SaveFill, Fill, At, Goto, others
  <1>4. ViewOK(l) /\ l.request \in Requests /\ l.view \in Content
    BY <1>2, <1>3, QueueFields DEF QueueLocalOK
  <1>5. Idle \in QueueLocals /\ Idle.pc = "idle"
    BY IdleType
  <1>6. /\ k \in QueueLocals
        /\ k.pc # "idle" => /\ l.pc = "fill" /\ k.pc = "change"
                            /\ k.view = l.view /\ k.command = l.command /\ k.request = l.request
    <2>1. CASE l.pc = "fill" /\ k = [l EXCEPT !.pc = "change"]
      BY <2>1 DEF QueueLocals, QueueSteps
    <2>2. CASE k = Idle
      BY <2>2, <1>5
    <2>3. QED
      BY <1>3, <2>1, <2>2
  <1>7. k = proc'[p] /\ proc' \in [Procs -> QueueLocals]
    BY <1>1, <1>3, <1>6, QueueBecomes
  <1>8. kept' \in Content /\ kept'.policy \in Classified /\ Protects(kept.policy, kept'.policy)
    BY <1>3, <1>4 DEF ViewOK
  <1>9. Protects(kept'.policy, kept'.policy)
    BY <1>8, ProtectsItself
  <1>10. crashes' = 0 => requestsMd' = kept'.requests
    BY <1>3, <1>4 DEF ViewOK
  <1>11. k.pc # "idle" => ViewOK(k)'
    BY <1>3, <1>4, <1>6, <1>8, <1>9 DEF ViewOK
  <1>12. QueueLocalOK(k)'
    <2>1. file' # Torn
      BY <1>3, <1>4 DEF Torn, Content, UnitStatuses
    <2>2. k.pc # "idle" => k.pc = "change" /\ k.request \in Requests
      BY <1>4, <1>6
    <2>3. QED
      BY <1>10, <1>11, <2>1, <2>2 DEF QueueLocalOK
  <1>13. QueueTypes' /\ FileOK' /\ ContextKept'
    BY <1>1, <1>3, <1>4, <1>7, <1>8 DEF QueueTypes, FileOK, ContextKept, ViewOK
  <1>14. QueueInv'
    BY <1>6, <1>7, <1>10, <1>12, <1>13, SoloQueue
  <1>15. ASSUME kept.status = "human_gate", kept'.status = "ready"
         PROVE  ~At(p, "idle") /\ proc[p].command \in {"mark", "requeue"}
    BY <1>2, <1>3, <1>4, <1>15 DEF ViewOK, At
  <1>16. QED
    BY <1>8, <1>14, <1>15

\* What a command changes of its copy leaves policy and context alone; a
\* request is added to both files, and the status is a mark's or a requeue's.
LEMMA ChangeStep ==
    ASSUME OneAtATime, QueueInv, NEW p \in Procs, ChangeQueue(p)
    PROVE  QueueInv'
  <1>1. QueueTypes /\ FileOK /\ ContextKept
    BY DEF QueueInv, NothingForgotten
  <1>2. PICK l \in QueueLocals : l = proc[p] /\ QueueLocalOK(l)
    BY QueueAt
  <1>0. PICK status \in UnitStatuses :
           Become(p, [l EXCEPT !.pc = "save", !.view = Changed(p, status)])
    BY <1>2 DEF ChangeQueue
  <1>3. PICK v, k : v = Changed(p, status) /\ k = [l EXCEPT !.pc = "save", !.view = v] /\ Become(p, k)
    BY <1>0
  <1>4. /\ l.pc = "change" /\ l.command \in {"mark", "requeue", "request"}
        /\ UNCHANGED <<file, kept, text, logged, edits, crashes>>
        /\ requestsMd' = IF l.command = "request" THEN requestsMd \cup {l.request} ELSE requestsMd
    BY <1>2 DEF ChangeQueue, At, others
  <1>5. ViewOK(l) /\ l.request \in Requests /\ l.view \in Content /\ file # Torn
    BY <1>2, <1>4, QueueFields DEF QueueLocalOK
  <1>6. /\ v \in Content /\ v.context = l.view.context /\ v.policy = l.view.policy
        /\ v.requests = IF l.command = "request" THEN l.view.requests \cup {l.request} ELSE l.view.requests
        /\ l.command = "request" => v.status = l.view.status
    <2>1. CASE l.command = "mark"
      <3>1. v = [l.view EXCEPT !.status = status]
        BY <1>2, <1>3, <2>1 DEF Changed
      <3>2. QED
        BY <1>5, <2>1, <3>1 DEF Content
    <2>2. CASE l.command = "requeue"
      <3>1. v = [l.view EXCEPT !.status = "ready"]
        BY <1>2, <1>3, <2>2 DEF Changed
      <3>2. QED
        BY <1>5, <2>2, <3>1 DEF Content, UnitStatuses
    <2>3. CASE l.command = "request"
      <3>1. v = [l.view EXCEPT !.requests = @ \cup {l.request}]
        BY <1>2, <1>3, <2>3 DEF Changed
      <3>2. QED
        BY <1>5, <2>3, <3>1 DEF Content
    <2>4. QED
      BY <1>4, <2>1, <2>2, <2>3
  <1>7. /\ k \in QueueLocals /\ k.pc = "save" /\ k.view = v /\ k.command = l.command
        /\ k.request = l.request
    BY <1>3, <1>6 DEF QueueLocals, QueueSteps
  <1>9. k = proc'[p] /\ proc' \in [Procs -> QueueLocals]
    BY <1>1, <1>3, <1>7, QueueBecomes
  <1>10. ViewOK(k)'
    <2>1. /\ v.context = "isolated_worktree" /\ v.policy \in Classified
          /\ Protects(kept'.policy, v.policy)
          /\ crashes' = 0 => v.requests = requestsMd'
      BY <1>4, <1>5, <1>6 DEF ViewOK
    <2>2. v.status = "ready" /\ kept'.status = "human_gate" => l.command \in {"mark", "requeue"}
      BY <1>4, <1>5, <1>6 DEF ViewOK
    <2>3. QED
      BY <1>7, <2>1, <2>2 DEF ViewOK
  <1>11. QueueLocalOK(k)'
    BY <1>4, <1>5, <1>7, <1>10 DEF QueueLocalOK
  <1>12. QueueTypes' /\ FileOK' /\ ContextKept'
    BY <1>1, <1>4, <1>5, <1>9 DEF QueueTypes, FileOK, ContextKept
  <1>13. QED
    BY <1>7, <1>9, <1>11, <1>12, SoloQueue

\* A command that finds nothing to change leaves queue.json as it was.
LEMMA LeaveStep ==
    ASSUME OneAtATime, QueueInv, NEW p \in Procs, LeaveQueue(p)
    PROVE  QueueInv'
  <1>1. PICK l \in QueueLocals : l = proc[p] /\ QueueLocalOK(l)
    BY QueueAt
  <1>2. /\ l.pc = "change" /\ Become(p, Idle)
        /\ UNCHANGED <<file, requestsMd, kept, text, logged, edits, crashes>>
    BY <1>1 DEF LeaveQueue, At, others
  <1>3. QueueLocalOK(Idle) /\ (crashes = 0 => requestsMd = kept.requests)
    BY <1>1, <1>2, IdleType DEF QueueLocalOK
  <1>4. QED
    BY <1>2, <1>3, IdleType, LocalQueueStep

\* persist_execution_context: what it reads is what the process has written.
LEMMA PersistStep ==
    ASSUME OneAtATime, QueueInv, NEW p \in Procs, PersistContext(p)
    PROVE  QueueInv'
  <1>1. QueueTypes /\ FileOK /\ ContextKept
    BY DEF QueueInv, NothingForgotten
  <1>2. PICK l \in QueueLocals : l = proc[p] /\ QueueLocalOK(l)
    BY QueueAt
  <1>3. /\ l.pc = "change" /\ UNCHANGED <<file, requestsMd, kept, text, logged, edits, crashes>>
    BY <1>2 DEF PersistContext, At, others
  <1>4. /\ ViewOK(l) /\ l.request \in Requests /\ l.view \in Content /\ file # Torn
        /\ crashes = 0 => requestsMd = kept.requests
    BY <1>2, <1>3, QueueFields DEF QueueLocalOK
  <1>5. PICK k : k = [l EXCEPT !.pc = "save", !.view = [file EXCEPT !.context = l.view.context]] /\ Become(p, k)
    BY <1>2, <1>4 DEF PersistContext
  <1>6. file = kept /\ kept \in Content /\ kept.policy \in Classified
    BY <1>1, <1>4 DEF FileOK, QueueTypes
  <1>7. PICK v : v = [kept EXCEPT !.context = l.view.context]
    OBVIOUS
  <1>8. /\ v \in Content /\ v.context = "isolated_worktree" /\ v.policy = kept.policy
        /\ v.status = kept.status /\ v.requests = kept.requests
    BY <1>4, <1>6, <1>7 DEF ViewOK, Content
  <1>9. k = [l EXCEPT !.pc = "save", !.view = v]
    BY <1>5, <1>6, <1>7
  <1>10. k \in QueueLocals /\ k.pc = "save" /\ k.view = v /\ k.request = l.request
    BY <1>8, <1>9 DEF QueueLocals, QueueSteps
  <1>11. ViewOK(k)
    BY <1>4, <1>6, <1>8, <1>10, ProtectsItself DEF ViewOK
  <1>12. QueueLocalOK(k)
    BY <1>4, <1>10, <1>11 DEF QueueLocalOK
  <1>13. QED
    BY <1>3, <1>5, <1>10, <1>12, LocalQueueStep

\* A command dies between any two of its steps.
LEMMA CrashStep ==
    ASSUME OneAtATime, QueueInv, NEW p \in Procs, Crash(p)
    PROVE  QueueInv'
  <1>1. QueueTypes /\ FileOK /\ ContextKept
    BY DEF QueueInv, NothingForgotten
  <1>2. /\ Become(p, Idle) /\ crashes < MaxCrashes /\ crashes' = crashes + 1
        /\ UNCHANGED <<file, requestsMd, text, logged, kept, edits>>
    BY DEF Crash
  <1>3. Idle = proc'[p] /\ proc' \in [Procs -> QueueLocals]
    BY <1>1, <1>2, IdleType, QueueBecomes
  <1>4. QueueTypes' /\ crashes' # 0
    BY <1>1, <1>2, <1>3, BoundsAssumption DEF QueueTypes
  <1>5. PICK k \in QueueLocals : k = Idle
    BY IdleType
  <1>6. QueueLocalOK(k)'
    BY <1>5, IdleType DEF QueueLocalOK
  <1>7. FileOK' /\ ContextKept'
    BY <1>1, <1>2 DEF FileOK, ContextKept
  <1>8. QED
    BY <1>3, <1>4, <1>5, <1>6, <1>7, SoloQueue

\* Edits of the plan and lines of the log touch nothing that was written.
LEMMA EditStep ==
    ASSUME OneAtATime, QueueInv, Edit
    PROVE  QueueInv'
  <1>1. /\ edits' = edits + 1 /\ edits < MaxEdits
        /\ UNCHANGED <<file, requestsMd, proc, kept, crashes>>
    BY DEF Edit
  <1>2. text' \in Evidence /\ logged' \in {Missing, "needs_work", "done"}
    BY DEF Edit, QueueInv, QueueTypes
  <1>3. QueueTypes'
    BY <1>1, <1>2, BoundsAssumption DEF QueueInv, QueueTypes
  <1>4. FileOK' /\ NothingForgotten'
    BY <1>1 DEF QueueInv, FileOK, NothingForgotten, ContextKept, RequestsKept, At
  <1>5. ASSUME NEW p \in Procs, NEW l \in QueueLocals, l = proc'[p]
        PROVE  QueueLocalOK(l)'
    <2>1. QueueLocalOK(l)
      BY <1>1, <1>5 DEF QueueInv
    <2>2. QED
      BY <1>1, <2>1 DEF QueueLocalOK, ViewOK
  <1>6. QED
    BY <1>3, <1>4, <1>5 DEF QueueInv

\* The invariant of QueueFile holds after every step.
LEMMA QueueStep ==
    ASSUME OneAtATime, QueueInv, [Next]_queueVars
    PROVE  /\ QueueInv'
           /\ \/ UNCHANGED kept
              \/ /\ Protects(kept.policy, kept'.policy)
                 /\ kept.status = "human_gate" /\ kept'.status = "ready" =>
                       \E q \in Procs : ~At(q, "idle") /\ proc[q].command \in {"mark", "requeue"}
  <1>1. ASSUME NEW p \in Procs, SyncFill(p) \/ SaveFill(p)
        PROVE  /\ QueueInv' /\ Protects(kept.policy, kept'.policy)
               /\ kept.status = "human_gate" /\ kept'.status = "ready" =>
                     \E q \in Procs : ~At(q, "idle") /\ proc[q].command \in {"mark", "requeue"}
    BY <1>1, FillStep
  <1>2. ASSUME NEW p \in Procs,
               \/ Start(p) \/ SyncRead(p) \/ SyncTruncate(p) \/ ChangeQueue(p) \/ LeaveQueue(p)
               \/ PersistContext(p) \/ SaveTruncate(p) \/ Crash(p)
        PROVE  QueueInv' /\ UNCHANGED kept
    <2>1. QueueInv'
      BY <1>2, StartStep, SyncReadStep, TruncateStep, ChangeStep, LeaveStep, PersistStep, CrashStep
    <2>2. UNCHANGED kept
      BY <1>2
         DEF Start, SyncRead, SyncTruncate, ChangeQueue, LeaveQueue, PersistContext, SaveTruncate,
             Crash, Truncate
    <2>3. QED
      BY <2>1, <2>2
  <1>3. CASE Edit
    BY <1>3, EditStep DEF Edit
  <1>4. CASE UNCHANGED queueVars
    <2>1. QueueInv'
      BY <1>4
         DEF queueVars, vars, QueueInv, QueueTypes, FileOK, NothingForgotten, ContextKept,
             RequestsKept, At,
                  QueueLocalOK, ViewOK
    <2>2. QED
      BY <1>4, <2>1 DEF queueVars, vars
  <1>5. QED
    BY <1>1, <1>2, <1>3, <1>4 DEF Next, Command

\* The invariant of QueueFile holds at first.
LEMMA QueueInit ==
    ASSUME Init
    PROVE  QueueInv
  <1>1. PICK d \in Declarations, status \in {"ready", "human_gate"} :
           file = [status |-> status, policy |-> Classify(d, text), context |-> "isolated_worktree", requests |-> {}]
    BY DEF Init
  <1>2. /\ text \in Evidence /\ kept = file /\ requestsMd = {} /\ logged = Missing
        /\ proc = [p \in Procs |-> Idle] /\ edits = 0 /\ crashes = 0
    BY DEF Init
  <1>3. Classify(d, text) \in Classified
    BY <1>2, DeclarationsAssumption, ClassifyType
  <1>4. PICK policy \in Classified : policy = Classify(d, text)
    BY <1>3
  <1>5. kept \in Content /\ kept.policy \in Classified /\ kept.context = "isolated_worktree" /\ kept.requests = {}
    BY <1>1, <1>2, <1>4 DEF Content, UnitStatuses, Classified
  <1>6. QueueTypes
    BY <1>2, <1>5, IdleType, BoundsAssumption DEF QueueTypes
  <1>7. FileOK /\ NothingForgotten
    BY <1>2, <1>5 DEF FileOK, NothingForgotten, ContextKept, RequestsKept
  <1>8. QueueLocalOK(Idle)
    BY IdleType DEF QueueLocalOK
  <1>9. QED
    BY <1>2, <1>6, <1>7, <1>8 DEF QueueInv

\* The invariant of QueueFile holds while any of the four components moves.
LEMMA QueueHolds == ASSUME OneAtATime PROVE ComponentsSpec => []QueueInv
  <1>1. ComponentsInit => QueueInv
    BY QueueInit DEF ComponentsInit
  <1>2. QueueInv /\ [ComponentsNext]_componentsVars => QueueInv'
    BY QueueStep, StepOfEach
  <1>3. QED
    BY <1>1, <1>2, PTL DEF ComponentsSpec, componentsVars

\* One process at a time forgets neither where the plan executes nor, as long
\* as it never died, a request: however plan.md is edited and wherever in a
\* write a command is stopped.
THEOREM NothingIsForgotten == ASSUME OneAtATime PROVE ComponentsSpec => []NothingForgotten
  <1>1. QueueInv => NothingForgotten
    BY DEF QueueInv
  <1>2. QED
    BY <1>1, QueueHolds, PTL

\* From one complete queue.json to the next the protection of a unit is never
\* lowered, for any policy it was declared with and any edit of the plan.
THEOREM ProtectionIsKept == ASSUME OneAtATime PROVE ComponentsSpec => ProtectionKept
  <1>1. QueueInv /\ [ComponentsNext]_componentsVars =>
           [LET old == kept.policy
                new == kept'.policy
            IN  /\ Rank[new.effective] >= Rank[old.effective]
                /\ old.adapter = "isolated-child" => new.adapter = "isolated-child"
                /\ old.review = "per_unit" => new.review = "per_unit"]_kept
    BY QueueStep, StepOfEach DEF Protects
  <1>2. QED
    BY <1>1, QueueHolds, PTL DEF ComponentsSpec, componentsVars, ProtectionKept

\* A unit held for a person becomes ready by a mark or a requeue only.
THEOREM HeldIsForPerson == ASSUME OneAtATime PROVE ComponentsSpec => HeldForPerson
  <1>1. QueueInv /\ [ComponentsNext]_componentsVars =>
           [kept.status = "human_gate" /\ kept'.status = "ready" =>
               \E p \in Procs : ~At(p, "idle") /\ proc[p].command \in {"mark", "requeue"}]_kept
    BY QueueStep, StepOfEach
  <1>2. QED
    BY <1>1, QueueHolds, PTL DEF ComponentsSpec, componentsVars, HeldForPerson

-----------------------------------------------------------------------------
(* PrInbox, for one process at a time                                       *)

Has(requests, s) == \E i \in 1..Len(requests) : requests[i] = s
Distinct(requests) == \A i, j \in 1..Len(requests) : requests[i] = requests[j] => i = j

\* The sources of a sequence of requests are those it has.
LEMMA HasIsRange ==
    ASSUME NEW S, NEW requests \in Seq(S)
    PROVE  Inbox!Range(requests) = {s \in S : Has(requests, s)}
  BY DEF Inbox!Range, Has

InboxSteps == Inbox!Steps
InboxCommands == Inbox!Commands
LockSteps == {"gh", "write-lock", "fill-lock", "view", "unlock", "ensure-pr", "merge-pr", "clear-lock"}
Fills == {"fill-append", "fill-back", "fill-rest"}
RequestSteps == {"read", "append", "look", "busy", "put-back", "route-one", "rest"} \cup Fills

InboxTypes ==
    /\ lock \in Branches \cup {"none", "unreadable"}
    /\ pulls \in [Branches -> {"none", "open", "merged"}]
    /\ inbox \in Seq(Sources) /\ plans \in Seq(Sources)
    /\ accepted \in SUBSET Sources /\ lost \in SUBSET Sources /\ bare \in SUBSET Branches
    /\ pc \in [Procs -> InboxSteps] /\ doing \in [Procs -> InboxCommands]
    /\ mine \in [Procs -> Branches \cup Sources \cup {"none"}]
    /\ read \in [Procs -> Seq(Sources)]
    /\ deaths \in 0..MaxDeaths

\* The requests that wait: those of the inbox, or, between its truncation and
\* its text, those the one process has read.
Waiting(p) == IF pc[p] \in Fills THEN read[p] ELSE inbox

\* The request at hand has its plan and is about to leave the inbox.
Late(p) == IF pc[p] \in {"rest", "fill-rest"} THEN 1 ELSE 0

\* Plans too many, made already or still to be made of what waits.
Doubles(requests, made) ==
    Len(made) - Cardinality({s \in Sources : Has(made, s)})
        + Cardinality({s \in Sources : Has(requests, s)} \cap {s \in Sources : Has(made, s)})

\* What is accepted waits, has its plan or went with a torn inbox; nothing
\* waits twice; and there is at most one plan too many for every death.
Routing(requests, late) ==
    /\ \A s \in Sources : s \in accepted <=> Has(requests, s) \/ Has(plans, s) \/ s \in lost
    /\ Distinct(requests)
    /\ Doubles(requests, plans) <= deaths + late

RoutingInv(p) == Routing(Waiting(p), Late(p))

\* What the one process knows of the requests: only it writes them.
RequestKnown(p) ==
    /\ doing[p] = "route" /\ pc[p] \in {"lock", "read", "append", "fill-append", "route-one"} =>
          mine[p] \in Sources \ accepted
    /\ pc[p] \in {"read", "route-one"} => doing[p] \in {"route", "drain"}
    /\ pc[p] \in {"append", "fill-append"} => doing[p] = "route"
    /\ pc[p] \in {"look", "busy", "put-back", "fill-back", "rest", "fill-rest"} => doing[p] = "drain"
    /\ pc[p] \in {"append", "look", "busy", "put-back", "rest"} => read[p] = inbox
    /\ pc[p] = "route-one" /\ doing[p] = "drain" => read[p] = inbox
    /\ pc[p] \in RequestSteps \ {"read", "append", "fill-append"} /\ doing[p] = "drain" => read[p] # << >>
    /\ pc[p] \in {"rest", "fill-rest"} => Has(plans, read[p][1])
    /\ pc[p] \in Fills => inbox = << >>

\* A lock that keeps no pull request: none, a torn one, or one whose pull
\* request is counted as bare.
Spare(l) == l \in bare \cup {"none", "unreadable"}

\* What the one process knows of the lock, which a person may set or clear at
\* any time.
LockKnown(p) ==
    /\ doing[p] \in {"create-pr", "merge"} /\ pc[p] \in {"lock"} \cup LockSteps => mine[p] \in Branches
    /\ pc[p] \in {"gh", "write-lock", "fill-lock"} => doing[p] = "create-pr" /\ Spare(lock)
    /\ pc[p] \in {"view", "unlock"} => mine[p] \in Branches /\ (lock = mine[p] \/ Spare(lock))
    /\ pc[p] \in {"ensure-pr", "merge-pr", "clear-lock"} => doing[p] = "merge"
    /\ pc[p] \in {"unlock", "clear-lock"} => pulls[mine[p]] = "merged"

\* The lock names the open pull request, unless it is bare or the one process
\* is about to write the lock.
LockInv ==
    \A b \in Branches : pulls[b] = "open" =>
        \/ lock = b \/ b \in bare
        \/ \E p \in Procs : pc[p] \in {"write-lock", "fill-lock"} /\ mine[p] = b

InboxInv ==
    /\ InboxTypes /\ LockInv
    /\ \A p \in Procs : RoutingInv(p) /\ RequestKnown(p) /\ LockKnown(p)

\* What the actions name is a step or a command.
LEMMA InboxNames ==
    /\ InboxSteps = {"idle", "lock"} \cup LockSteps \cup RequestSteps
    /\ InboxCommands = {"route", "drain", "create-pr", "pr-check", "merge"}
    /\ Inbox!NoBranch = "none" /\ "none" \notin Branches
    /\ Inbox!Unreadable = "unreadable" /\ "unreadable" \notin Branches
  BY ComponentsAssumption
     DEF InboxSteps, InboxCommands, Inbox!Steps, Inbox!Commands, Inbox!NoBranch, Inbox!Unreadable,
         LockSteps, RequestSteps, Fills

\* The one process is every process.
LEMMA SoloInbox ==
    ASSUME OneAtATime, InboxTypes', LockInv', NEW p \in Procs,
           RoutingInv(p)', RequestKnown(p)', LockKnown(p)'
    PROVE  InboxInv'
  BY DEF OneAtATime, InboxInv

\* A sequence of requests with one more.
LEMMA HasAppended ==
    ASSUME NEW requests \in Seq(Sources), NEW s \in Sources
    PROVE  /\ Append(requests, s) \in Seq(Sources)
           /\ \A t : Has(Append(requests, s), t) <=> Has(requests, t) \/ t = s
           /\ Distinct(requests) /\ ~Has(requests, s) => Distinct(Append(requests, s))
  <1> DEFINE more == Append(requests, s)
  <1>1. /\ more \in Seq(Sources) /\ Len(more) = Len(requests) + 1 /\ Len(requests) \in Nat
        /\ more[Len(requests) + 1] = s
        /\ \A i \in 1..Len(requests) : more[i] = requests[i]
    OBVIOUS
  <1> HIDE DEF more
  <1>2. \A i \in 1..Len(more) : i = Len(requests) + 1 \/ i \in 1..Len(requests)
    BY <1>1
  <1>3. /\ 1..Len(requests) \subseteq 1..Len(more) /\ Len(requests) + 1 \in 1..Len(more)
    BY <1>1
  <1>4. \A t : Has(more, t) <=> Has(requests, t) \/ t = s
    BY <1>1, <1>2, <1>3 DEF Has
  <1>5. ASSUME Distinct(requests), ~Has(requests, s)
        PROVE  Distinct(more)
    BY <1>1, <1>2, <1>5 DEF Distinct, Has
  <1>6. QED
    BY <1>1, <1>4, <1>5 DEF more

\* A sequence of requests without its first one.
LEMMA HasInTail ==
    ASSUME NEW requests \in Seq(Sources), requests # << >>
    PROVE  /\ Tail(requests) \in Seq(Sources) /\ requests[1] \in Sources
           /\ Head(requests) = requests[1]
           /\ \A t : Has(requests, t) <=> Has(Tail(requests), t) \/ t = requests[1]
           /\ Has(requests, requests[1])
           /\ Distinct(requests) => Distinct(Tail(requests)) /\ ~Has(Tail(requests), requests[1])
           /\ Len(requests) # 1 => Tail(requests) # << >>
  <1> DEFINE rest == Tail(requests)
  <1>1. /\ rest \in Seq(Sources) /\ Len(rest) = Len(requests) - 1 /\ Len(requests) \in Nat /\ Len(requests) >= 1
        /\ \A i \in 1..Len(rest) : rest[i] = requests[i + 1]
        /\ requests[1] \in Sources /\ Head(requests) = requests[1]
    OBVIOUS
  <1> HIDE DEF rest
  <1>2. \A i \in 1..Len(requests) : i = 1 \/ i - 1 \in 1..Len(rest)
    BY <1>1
  <1>3. \A i \in 1..Len(rest) : i + 1 \in 1..Len(requests)
    BY <1>1
  <1>4. ASSUME NEW t
        PROVE  Has(requests, t) <=> Has(rest, t) \/ t = requests[1]
    <2>1. ASSUME NEW i \in 1..Len(requests), requests[i] = t, i # 1
          PROVE  Has(rest, t)
      <3>1. i - 1 \in 1..Len(rest) /\ rest[i - 1] = requests[i]
        BY <1>1, <1>2, <2>1
      <3>2. QED
        BY <2>1, <3>1 DEF Has
    <2>2. Has(rest, t) => Has(requests, t)
      BY <1>1, <1>3 DEF Has
    <2>3. 1 \in 1..Len(requests)
      BY <1>1
    <2>4. QED
      BY <2>1, <2>2, <2>3 DEF Has
  <1>5. ASSUME Distinct(requests)
        PROVE  Distinct(rest) /\ ~Has(rest, requests[1])
    <2>1. ASSUME NEW i \in 1..Len(rest), NEW j \in 1..Len(rest), rest[i] = rest[j]
          PROVE  i = j
      <3>1. i + 1 = j + 1
        BY <1>1, <1>3, <1>5, <2>1 DEF Distinct
      <3>2. QED
        BY <1>1, <3>1
    <2>2. ASSUME NEW i \in 1..Len(rest), rest[i] = requests[1]
          PROVE  FALSE
      <3>1. i + 1 = 1
        BY <1>1, <1>3, <1>5, <2>2 DEF Distinct
      <3>2. QED
        BY <1>1, <3>1
    <2>3. QED
      BY <2>1, <2>2 DEF Distinct, Has
  <1>6. Len(requests) # 1 => rest # << >>
    BY <1>1
  <1>7. QED
    BY <1>1, <1>4, <1>5, <1>6 DEF rest

\* The sources of a sequence of requests are finitely many.
LEMMA SourcesOf ==
    ASSUME NEW requests \in Seq(Sources)
    PROVE  /\ IsFiniteSet({s \in Sources : Has(requests, s)})
           /\ Cardinality({s \in Sources : Has(requests, s)}) \in Nat
  <1> DEFINE n == Len(requests)
             R == {s \in Sources : Has(requests, s)}
  <1>1. requests \in [1..n -> Sources] /\ n \in Nat
    OBVIOUS
  <1>2. IsFiniteSet(1..n)
    BY <1>1, FS_Interval
  <1>3. requests \in Surjection(1..n, R)
    BY <1>1 DEF Has, Surjection
  <1>4. IsFiniteSet(R)
    BY <1>2, <1>3, FS_Surjection
  <1>5. QED
    BY <1>4, FS_CardinalityType

\* A plan is one too many when its source has one or waits for one.
LEMMA DoublesMade ==
    ASSUME NEW w \in Seq(Sources), NEW q \in Seq(Sources), NEW s \in Sources
    PROVE  /\ ~Has(q, s) /\ ~Has(w, s) => Doubles(w, Append(q, s)) = Doubles(w, q)
           /\ Has(q, s) \/ Has(w, s) => Doubles(w, Append(q, s)) = Doubles(w, q) + 1
           /\ Doubles(w, q) \in Int
  <1> DEFINE W == {t \in Sources : Has(w, t)}
             Q == {t \in Sources : Has(q, t)}
             A == {t \in Sources : Has(Append(q, s), t)}
  <1>1. /\ IsFiniteSet(W) /\ IsFiniteSet(Q) /\ Cardinality(Q) \in Nat
        /\ IsFiniteSet(W \cap Q) /\ Cardinality(W \cap Q) \in Nat
    BY SourcesOf, FS_Intersection, FS_CardinalityType
  <1>2. A = Q \cup {s}
    BY HasAppended
  <1>3. Cardinality(A) = IF s \in Q THEN Cardinality(Q) ELSE Cardinality(Q) + 1
    BY <1>1, <1>2, FS_AddElement
  <1>4. W \cap A = IF s \in W THEN (W \cap Q) \cup {s} ELSE W \cap Q
    BY <1>2
  <1>5. Cardinality(W \cap A) = IF s \in W /\ s \notin Q THEN Cardinality(W \cap Q) + 1
                                ELSE Cardinality(W \cap Q)
    <2>1. CASE s \in W
      BY <1>1, <1>4, <2>1, FS_AddElement
    <2>2. CASE s \notin W
      BY <1>4, <2>2
    <2>3. QED
      BY <2>1, <2>2
  <1>6. Len(Append(q, s)) = Len(q) + 1 /\ Len(q) \in Nat
    OBVIOUS
  <1>7. /\ Doubles(w, q) = Len(q) - Cardinality(Q) + Cardinality(W \cap Q)
        /\ Doubles(w, Append(q, s)) = Len(Append(q, s)) - Cardinality(A) + Cardinality(W \cap A)
    BY DEF Doubles
  <1>8. (s \in Q <=> Has(q, s)) /\ (s \in W <=> Has(w, s))
    OBVIOUS
  <1> HIDE DEF W, Q, A
  <1>9. QED
    BY <1>1, <1>3, <1>5, <1>6, <1>7, <1>8

\* A request without a plan adds none, one that leaves takes its own away, and
\* an empty inbox has none to make.
LEMMA DoublesWaiting ==
    ASSUME NEW w \in Seq(Sources), NEW q \in Seq(Sources)
    PROVE  /\ \A s \in Sources : ~Has(q, s) => Doubles(Append(w, s), q) = Doubles(w, q)
           /\ w # << >> /\ Distinct(w) /\ Has(q, w[1]) => Doubles(Tail(w), q) = Doubles(w, q) - 1
           /\ Doubles(<< >>, q) <= Doubles(w, q)
           /\ Doubles(w, q) \in Int
  <1> DEFINE W == {t \in Sources : Has(w, t)}
             Q == {t \in Sources : Has(q, t)}
  <1>1. /\ IsFiniteSet(W) /\ IsFiniteSet(Q) /\ Cardinality(Q) \in Nat /\ Len(q) \in Nat
        /\ IsFiniteSet(W \cap Q) /\ Cardinality(W \cap Q) \in Nat
    <2>1. IsFiniteSet(W) /\ IsFiniteSet(Q) /\ Cardinality(Q) \in Nat /\ Len(q) \in Nat
      BY SourcesOf
    <2> HIDE DEF W, Q
    <2>2. IsFiniteSet(W \cap Q)
      BY <2>1, FS_Intersection
    <2>3. QED
      BY <2>1, <2>2, FS_CardinalityType
  <1>2. Doubles(w, q) = Len(q) - Cardinality(Q) + Cardinality(W \cap Q)
    BY DEF Doubles
  <1>3. ASSUME NEW s \in Sources, ~Has(q, s)
        PROVE  Doubles(Append(w, s), q) = Doubles(w, q)
    <2>1. {t \in Sources : Has(Append(w, s), t)} \cap Q = W \cap Q
      BY <1>3, HasAppended
    <2>2. QED
      BY <1>2, <2>1 DEF Doubles
  <1>4. ASSUME w # << >>, Distinct(w), Has(q, w[1])
        PROVE  Doubles(Tail(w), q) = Doubles(w, q) - 1
    <2> DEFINE T == {t \in Sources : Has(Tail(w), t)}
    <2>1. /\ w[1] \in Sources /\ ~Has(Tail(w), w[1])
          /\ \A t \in Sources : Has(w, t) <=> Has(Tail(w), t) \/ t = w[1]
      BY <1>4, HasInTail
    <2>2. T \cap Q = (W \cap Q) \ {w[1]} /\ w[1] \in W \cap Q
      BY <1>4, <2>1
    <2>3. Cardinality(T \cap Q) = Cardinality(W \cap Q) - 1
      BY <1>1, <2>2, FS_RemoveElement
    <2>4. Doubles(Tail(w), q) = Len(q) - Cardinality(Q) + Cardinality(T \cap Q)
      BY DEF Doubles
    <2> HIDE DEF T, W, Q
    <2>5. QED
      BY <1>1, <1>2, <2>3, <2>4
  <1>5. Doubles(<< >>, q) <= Doubles(w, q)
    <2>1. {t \in Sources : Has(<< >>, t)} \cap Q = {}
      BY DEF Has
    <2>2. Cardinality({}) = 0
      BY FS_EmptySet
    <2>3. Doubles(<< >>, q) = Len(q) - Cardinality(Q) + 0
      BY <2>1, <2>2 DEF Doubles
    <2> HIDE DEF W, Q
    <2>4. QED
      BY <1>1, <1>2, <2>3
  <1>6. Doubles(w, q) \in Int
    <2> HIDE DEF W, Q
    <2>1. QED
      BY <1>1, <1>2
  <1>7. QED
    BY <1>3, <1>4, <1>5, <1>6

\* What every process has in InboxInv.
LEMMA InboxAt ==
    ASSUME InboxInv, NEW p \in Procs
    PROVE  InboxTypes /\ LockInv /\ RoutingInv(p) /\ RequestKnown(p) /\ LockKnown(p)
  BY DEF InboxInv

\* A step that leaves the requests alone.
LEMMA RequestsQuiet ==
    ASSUME InboxInv, NEW p \in Procs, Waiting(p)' = Waiting(p), Late(p)' = Late(p),
           UNCHANGED <<plans, accepted, deaths, lost>>
    PROVE  RoutingInv(p)'
  <1>1. RoutingInv(p)
    BY InboxAt
  <1>2. Doubles(Waiting(p), plans)' = Doubles(Waiting(p), plans)
    BY DEF Doubles, Has
  <1>3. QED
    BY <1>1, <1>2 DEF RoutingInv, Routing, Has, Distinct

\* A step about requests leaves the lock alone.
LEMMA RequestSide ==
    ASSUME OneAtATime, InboxInv, NEW p \in Procs, pc[p] \in RequestSteps,
           pc'[p] \in RequestSteps \cup {"idle"}, UNCHANGED <<lock, pulls, bare>>,
           InboxTypes', RoutingInv(p)', RequestKnown(p)'
    PROVE  InboxInv'
  <1>1. LockInv'
    <2>1. ~\E q \in Procs : pc[q] \in {"write-lock", "fill-lock"}
      BY DEF OneAtATime, RequestSteps, Fills
    <2>2. QED
      BY <2>1, InboxAt DEF LockInv
  <1>2. LockKnown(p)'
    BY DEF LockKnown, RequestSteps, LockSteps, Fills
  <1>3. QED
    BY <1>1, <1>2, SoloInbox

\* A step about the lock leaves the requests alone.
LEMMA LockSide ==
    ASSUME OneAtATime, InboxInv, NEW p \in Procs, pc[p] \in LockSteps,
           pc'[p] \in LockSteps \cup {"idle"}, UNCHANGED <<inbox, plans, accepted, deaths, lost>>,
           InboxTypes', LockInv', LockKnown(p)'
    PROVE  InboxInv'
  <1>1. pc[p] \notin RequestSteps \cup {"lock"} /\ pc'[p] \notin RequestSteps \cup {"lock"}
    BY DEF RequestSteps, LockSteps, Fills
  <1>2. RoutingInv(p)'
    BY <1>1, RequestsQuiet DEF Waiting, Late, RequestSteps, Fills
  <1>3. RequestKnown(p)'
    BY <1>1 DEF RequestKnown, RequestSteps, Fills
  <1>4. QED
    BY <1>2, <1>3, SoloInbox

\* A command is given, for a source that is not accepted or a branch.
LEMMA GiveStep ==
    ASSUME OneAtATime, InboxInv, NEW p \in Procs, Inbox!Give(p)
    PROVE  InboxInv'
  <1>1. /\ pc[p] = "idle" /\ pc' = [pc EXCEPT ![p] = "lock"]
        /\ UNCHANGED <<lock, inbox, plans, pulls, accepted, read, deaths, lost, bare>>
    BY DEF Inbox!Give, Inbox!Goto, Inbox!files, Inbox!ghosts
  <1>2. PICK c \in InboxCommands :
          /\ doing' = [doing EXCEPT ![p] = c]
          /\ \/ c \in {"drain", "pr-check"} /\ UNCHANGED mine
             \/ c \in {"create-pr", "merge"} /\ \E b \in Branches : mine' = [mine EXCEPT ![p] = b]
             \/ c = "route" /\ \E s \in Sources \ accepted : mine' = [mine EXCEPT ![p] = s]
    BY DEF Inbox!Give, InboxCommands
  <1>3. InboxTypes
    BY DEF InboxInv
  <1>4. InboxTypes'
    BY <1>1, <1>2, <1>3, InboxNames DEF InboxTypes
  <1>5. pc'[p] = "lock" /\ doing'[p] = c
    BY <1>1, <1>2, <1>3 DEF InboxTypes
  <1>6. RoutingInv(p)'
    BY <1>1, <1>5, RequestsQuiet DEF Waiting, Late, Fills
  <1>7. RequestKnown(p)' /\ LockKnown(p)'
    <2>1. c \in {"create-pr", "merge"} => mine'[p] \in Branches
      BY <1>2, <1>3 DEF InboxTypes
    <2>2. c = "route" => mine'[p] \in Sources \ accepted'
      BY <1>1, <1>2, <1>3 DEF InboxTypes
    <2>3. QED
      BY <1>5, <2>1, <2>2 DEF RequestKnown, LockKnown, RequestSteps, LockSteps, Fills
  <1>8. LockInv'
    <2>1. ~\E q \in Procs : pc[q] \in {"write-lock", "fill-lock"}
      BY <1>1 DEF OneAtATime
    <2>2. QED
      BY <1>1, <2>1, InboxAt DEF LockInv
  <1>9. QED
    BY <1>4, <1>6, <1>7, <1>8, SoloInbox

\* read_pr_lock: what the one process sees is still so at its next step, but
\* for a person who sets or clears the lock.
LEMMA ReadLockStep ==
    ASSUME OneAtATime, InboxInv, NEW p \in Procs, Inbox!ReadLock(p)
    PROVE  InboxInv'
  <1>1. InboxTypes /\ RequestKnown(p) /\ LockKnown(p)
    BY InboxAt
  <1>2. /\ pc[p] = "lock"
        /\ UNCHANGED <<lock, inbox, plans, pulls, accepted, doing, read, deaths, lost, bare>>
    BY DEF Inbox!ReadLock, Inbox!files, Inbox!ghosts
  <1>3. PICK next \in {"idle", "read", "gh", "route-one", "ensure-pr", "view"} :
          /\ pc' = [pc EXCEPT ![p] = next]
          /\ next = "read" => doing[p] \in {"drain", "route"}
          /\ next = "gh" => doing[p] = "create-pr" /\ lock = "none"
          /\ next = "route-one" => doing[p] = "route"
          /\ next = "ensure-pr" => doing[p] = "merge"
          /\ next = "view" => doing[p] = "pr-check" /\ lock \in Branches /\ mine' = [mine EXCEPT ![p] = lock]
          /\ next # "view" => UNCHANGED mine
    BY InboxNames DEF Inbox!ReadLock, Inbox!Goto
  <1>4. InboxTypes'
    <2>1. mine' \in [Procs -> Branches \cup Sources \cup {"none"}]
      BY <1>1, <1>3 DEF InboxTypes
    <2>2. pc' \in [Procs -> InboxSteps]
      BY <1>1, <1>3, InboxNames DEF InboxTypes, LockSteps, RequestSteps
    <2>3. QED
      BY <1>1, <1>2, <2>1, <2>2 DEF InboxTypes
  <1>5. pc'[p] = next /\ (next = "view" => mine'[p] = lock) /\ (next # "view" => mine'[p] = mine[p])
    BY <1>1, <1>3 DEF InboxTypes
  <1>6. RoutingInv(p)'
    BY <1>2, <1>5, RequestsQuiet DEF Waiting, Late, Fills
  <1>7. RequestKnown(p)'
    BY <1>1, <1>2, <1>3, <1>5 DEF RequestKnown, RequestSteps, Fills
  <1>8. LockKnown(p)'
    BY <1>1, <1>2, <1>3, <1>5 DEF LockKnown, LockSteps, Spare
  <1>9. LockInv'
    <2>1. ~\E q \in Procs : pc[q] \in {"write-lock", "fill-lock"}
      BY <1>2 DEF OneAtATime
    <2>2. QED
      BY <1>2, <2>1, InboxAt DEF LockInv
  <1>10. QED
    BY <1>4, <1>6, <1>7, <1>8, <1>9, SoloInbox

\* gh pr create: the pull request is to get its lock, or is left without one.
LEMMA CreatePrStep ==
    ASSUME OneAtATime, InboxInv, NEW p \in Procs, Inbox!CreatePr(p)
    PROVE  InboxInv'
  <1>1. InboxTypes /\ LockInv /\ LockKnown(p)
    BY InboxAt
  <1>2. pc[p] = "gh" /\ UNCHANGED <<lock, inbox, plans, accepted, doing, mine, read, deaths, lost>>
    BY DEF Inbox!CreatePr, Inbox!files, Inbox!local
  <1>3. mine[p] \in Branches /\ doing[p] = "create-pr" /\ Spare(lock)
    BY <1>1, <1>2 DEF LockKnown, LockSteps
  <1>4. PICK next \in {"write-lock", "idle"} :
          /\ pc' = [pc EXCEPT ![p] = next]
          /\ pulls' \in {pulls, [pulls EXCEPT ![mine[p]] = "open"]}
          /\ bare' \in {bare, bare \cup {mine[p]}}
          /\ next = "write-lock" \/ bare' = bare \cup {mine[p]} \/ pulls' = pulls
    BY DEF Inbox!CreatePr, Inbox!Goto
  <1>5. InboxTypes'
    <2>1. pulls' \in [Branches -> {"none", "open", "merged"}] /\ bare' \in SUBSET Branches
      BY <1>1, <1>3, <1>4 DEF InboxTypes
    <2>2. pc' \in [Procs -> InboxSteps]
      BY <1>1, <1>4, InboxNames DEF InboxTypes, LockSteps
    <2>3. QED
      BY <1>1, <1>2, <2>1, <2>2 DEF InboxTypes
  <1>6. pc'[p] = next
    BY <1>1, <1>4 DEF InboxTypes
  <1>7. LockInv'
    <2> SUFFICES ASSUME NEW b \in Branches, pulls'[b] = "open"
                 PROVE  \/ lock' = b \/ b \in bare'
                        \/ \E q \in Procs : pc'[q] \in {"write-lock", "fill-lock"} /\ mine'[q] = b
      BY DEF LockInv
    <2>1. ~\E q \in Procs : pc[q] \in {"write-lock", "fill-lock"}
      BY <1>2 DEF OneAtATime
    <2>2. CASE pulls[b] = "open"
      BY <1>1, <1>2, <1>4, <2>1, <2>2 DEF LockInv
    <2>3. CASE pulls[b] # "open"
      <3>1. b = mine[p] /\ pulls' # pulls
        BY <1>1, <1>3, <1>4, <2>3 DEF InboxTypes
      <3>2. QED
        BY <1>2, <1>4, <1>6, <3>1
    <2>4. QED
      BY <2>2, <2>3
  <1>8. LockKnown(p)'
    BY <1>2, <1>3, <1>4, <1>6 DEF LockKnown, LockSteps, Spare
  <1>9. pc'[p] \in LockSteps \cup {"idle"} /\ pc[p] \in LockSteps
    BY <1>2, <1>6 DEF LockSteps
  <1>10. QED
    BY <1>2, <1>5, <1>7, <1>8, <1>9, LockSide

\* write_pr_lock tears down nothing but a spare lock.
LEMMA CutLockStep ==
    ASSUME OneAtATime, InboxInv, NEW p \in Procs, Inbox!CutLock(p)
    PROVE  InboxInv'
  <1>1. InboxTypes /\ LockInv /\ LockKnown(p)
    BY InboxAt
  <1>2. /\ pc[p] = "write-lock" /\ pc' = [pc EXCEPT ![p] = "fill-lock"] /\ lock' = "unreadable"
        /\ UNCHANGED <<inbox, plans, pulls, accepted, doing, mine, read, deaths, lost, bare>>
    BY InboxNames DEF Inbox!CutLock, Inbox!Goto, Inbox!local, Inbox!ghosts
  <1>3. mine[p] \in Branches /\ doing[p] = "create-pr" /\ Spare(lock)
    BY <1>1, <1>2 DEF LockKnown, LockSteps
  <1>4. InboxTypes'
    BY <1>1, <1>2, InboxNames DEF InboxTypes, LockSteps
  <1>5. pc'[p] = "fill-lock" /\ \A q \in Procs : q = p
    BY <1>1, <1>2 DEF InboxTypes, OneAtATime
  <1>6. LockInv'
    BY <1>1, <1>2, <1>3, <1>5, InboxNames DEF LockInv, Spare
  <1>7. LockKnown(p)'
    BY <1>2, <1>3, <1>5 DEF LockKnown, LockSteps, Spare
  <1>8. pc'[p] \in LockSteps \cup {"idle"} /\ pc[p] \in LockSteps
    BY <1>2, <1>5 DEF LockSteps
  <1>9. QED
    BY <1>2, <1>4, <1>6, <1>7, <1>8, LockSide

\* The lock names the pull request that was just opened.
LEMMA WriteLockStep ==
    ASSUME OneAtATime, InboxInv, NEW p \in Procs, Inbox!WriteLock(p)
    PROVE  InboxInv'
  <1>1. InboxTypes /\ LockInv /\ LockKnown(p)
    BY InboxAt
  <1>2. /\ pc[p] = "fill-lock" /\ pc' = [pc EXCEPT ![p] = "idle"] /\ lock' = mine[p]
        /\ UNCHANGED <<inbox, plans, pulls, accepted, doing, mine, read, deaths, lost, bare>>
    BY DEF Inbox!WriteLock, Inbox!LockText, Inbox!Goto, Inbox!local, Inbox!ghosts
  <1>3. mine[p] \in Branches /\ Spare(lock)
    BY <1>1, <1>2 DEF LockKnown, LockSteps
  <1>4. InboxTypes'
    BY <1>1, <1>2, <1>3, InboxNames DEF InboxTypes
  <1>5. pc'[p] = "idle" /\ \A q \in Procs : q = p
    BY <1>1, <1>2 DEF InboxTypes, OneAtATime
  <1>6. LockInv'
    BY <1>1, <1>2, <1>3, <1>5, InboxNames DEF LockInv, Spare
  <1>7. LockKnown(p)'
    BY <1>5 DEF LockKnown, LockSteps
  <1>8. pc'[p] \in LockSteps \cup {"idle"} /\ pc[p] \in LockSteps
    BY <1>2, <1>5 DEF LockSteps
  <1>9. QED
    BY <1>2, <1>4, <1>6, <1>7, <1>8, LockSide

\* check_pr_lock goes on with the pull request that GitHub says is merged.
LEMMA ViewStep ==
    ASSUME OneAtATime, InboxInv, NEW p \in Procs, Inbox!View(p)
    PROVE  InboxInv'
  <1>1. InboxTypes /\ LockInv /\ LockKnown(p)
    BY InboxAt
  <1>2. /\ pc[p] = "view"
        /\ UNCHANGED <<lock, inbox, plans, pulls, accepted, doing, mine, read, deaths, lost, bare>>
    BY DEF Inbox!View, Inbox!files, Inbox!local, Inbox!ghosts
  <1>3. PICK next \in {"idle", "unlock"} :
          pc' = [pc EXCEPT ![p] = next] /\ (next = "unlock" => pulls[mine[p]] = "merged")
    BY DEF Inbox!View, Inbox!Goto, Inbox!Merged
  <1>4. InboxTypes'
    BY <1>1, <1>2, <1>3, InboxNames DEF InboxTypes, LockSteps
  <1>5. pc'[p] = next /\ \A q \in Procs : q = p
    BY <1>1, <1>3 DEF InboxTypes, OneAtATime
  <1>6. LockInv'
    BY <1>1, <1>2, <1>5 DEF LockInv
  <1>7. LockKnown(p)'
    BY <1>1, <1>2, <1>3, <1>5 DEF LockKnown, LockSteps, Spare
  <1>8. pc'[p] \in LockSteps \cup {"idle"} /\ pc[p] \in LockSteps
    BY <1>2, <1>5 DEF LockSteps
  <1>9. QED
    BY <1>2, <1>4, <1>6, <1>7, <1>8, LockSide

\* clear_pr_lock removes the lock of a merged pull request, or a spare one.
LEMMA UnlockStep ==
    ASSUME OneAtATime, InboxInv, NEW p \in Procs, Inbox!Unlock(p)
    PROVE  InboxInv'
  <1>1. InboxTypes /\ LockInv /\ LockKnown(p)
    BY InboxAt
  <1>2. /\ pc[p] = "unlock" /\ pc' = [pc EXCEPT ![p] = "lock"] /\ lock' = "none"
        /\ doing' = [doing EXCEPT ![p] = "drain"]
        /\ UNCHANGED <<inbox, plans, pulls, accepted, mine, read, deaths, lost, bare>>
    BY InboxNames DEF Inbox!Unlock, Inbox!Goto, Inbox!ghosts
  <1>3. pulls[mine[p]] = "merged" /\ (lock = mine[p] \/ Spare(lock))
    BY <1>1, <1>2 DEF LockKnown
  <1>4. InboxTypes'
    BY <1>1, <1>2, InboxNames DEF InboxTypes
  <1>5. pc'[p] = "lock" /\ doing'[p] = "drain" /\ \A q \in Procs : q = p
    BY <1>1, <1>2 DEF InboxTypes, OneAtATime
  <1>6. LockInv'
    BY <1>1, <1>2, <1>3, <1>5, InboxNames DEF LockInv, Spare
  <1>7. RequestKnown(p)' /\ LockKnown(p)'
    BY <1>5 DEF RequestKnown, LockKnown, LockSteps, RequestSteps, Fills
  <1>8. RoutingInv(p)'
    BY <1>2, <1>5, RequestsQuiet DEF Waiting, Late, Fills
  <1>9. QED
    BY <1>4, <1>6, <1>7, <1>8, SoloInbox

\* merge --remote opens a pull request that gets no lock.
LEMMA EnsurePrStep ==
    ASSUME OneAtATime, InboxInv, NEW p \in Procs, Inbox!EnsurePr(p)
    PROVE  InboxInv'
  <1>1. InboxTypes /\ LockInv /\ LockKnown(p)
    BY InboxAt
  <1>2. /\ pc[p] = "ensure-pr"
        /\ UNCHANGED <<lock, inbox, plans, accepted, doing, mine, read, deaths, lost>>
    BY DEF Inbox!EnsurePr, Inbox!files, Inbox!local
  <1>3. mine[p] \in Branches /\ doing[p] = "merge"
    BY <1>1, <1>2 DEF LockKnown, LockSteps
  <1>4. PICK next \in {"merge-pr", "idle"} :
          /\ pc' = [pc EXCEPT ![p] = next]
          /\ \/ UNCHANGED <<pulls, bare>>
             \/ pulls' = [pulls EXCEPT ![mine[p]] = "open"] /\ bare' = bare \cup {mine[p]}
    BY DEF Inbox!EnsurePr, Inbox!Goto
  <1>5. InboxTypes'
    <2>1. pulls' \in [Branches -> {"none", "open", "merged"}] /\ bare' \in SUBSET Branches
      BY <1>1, <1>3, <1>4 DEF InboxTypes
    <2>2. pc' \in [Procs -> InboxSteps]
      BY <1>1, <1>4, InboxNames DEF InboxTypes, LockSteps
    <2>3. QED
      BY <1>1, <1>2, <2>1, <2>2 DEF InboxTypes
  <1>6. pc'[p] = next
    BY <1>1, <1>4 DEF InboxTypes
  <1>7. LockInv'
    <2> SUFFICES ASSUME NEW b \in Branches, pulls'[b] = "open"
                 PROVE  lock' = b \/ b \in bare'
      BY DEF LockInv
    <2>1. ~\E q \in Procs : pc[q] \in {"write-lock", "fill-lock"}
      BY <1>2 DEF OneAtATime
    <2>2. pulls[b] = "open" \/ (b = mine[p] /\ mine[p] \in bare')
      BY <1>1, <1>3, <1>4 DEF InboxTypes
    <2>3. QED
      BY <1>1, <1>2, <1>4, <2>1, <2>2 DEF LockInv
  <1>8. LockKnown(p)'
    BY <1>2, <1>3, <1>6 DEF LockKnown, LockSteps
  <1>9. pc'[p] \in LockSteps \cup {"idle"} /\ pc[p] \in LockSteps
    BY <1>2, <1>6 DEF LockSteps
  <1>10. QED
    BY <1>2, <1>5, <1>7, <1>8, <1>9, LockSide

\* gh pr merge leaves one open pull request less.
LEMMA MergePrStep ==
    ASSUME OneAtATime, InboxInv, NEW p \in Procs, Inbox!MergePr(p)
    PROVE  InboxInv'
  <1>1. InboxTypes /\ LockInv /\ LockKnown(p)
    BY InboxAt
  <1>2. /\ pc[p] = "merge-pr"
        /\ UNCHANGED <<lock, inbox, plans, accepted, doing, mine, read, deaths, lost, bare>>
    BY DEF Inbox!MergePr, Inbox!files, Inbox!local, Inbox!ghosts
  <1>3. mine[p] \in Branches /\ doing[p] = "merge"
    BY <1>1, <1>2 DEF LockKnown, LockSteps
  <1>4. PICK next \in {"clear-lock", "idle"} :
          /\ pc' = [pc EXCEPT ![p] = next]
          /\ \/ next = "idle" /\ UNCHANGED pulls
             \/ pulls' = [pulls EXCEPT ![mine[p]] = "merged"]
    BY DEF Inbox!MergePr, Inbox!Goto
  <1>5. InboxTypes'
    <2>1. pulls' \in [Branches -> {"none", "open", "merged"}]
      BY <1>1, <1>3, <1>4 DEF InboxTypes
    <2>2. pc' \in [Procs -> InboxSteps]
      BY <1>1, <1>4, InboxNames DEF InboxTypes, LockSteps
    <2>3. QED
      BY <1>1, <1>2, <2>1, <2>2 DEF InboxTypes
  <1>6. pc'[p] = next /\ (next = "clear-lock" => pulls'[mine[p]] = "merged")
    BY <1>1, <1>3, <1>4 DEF InboxTypes
  <1>7. LockInv'
    <2>1. ~\E q \in Procs : pc[q] \in {"write-lock", "fill-lock"}
      BY <1>2 DEF OneAtATime
    <2>2. \A b \in Branches : pulls'[b] = "open" => pulls[b] = "open"
      BY <1>1, <1>3, <1>4 DEF InboxTypes
    <2>3. QED
      BY <1>1, <1>2, <2>1, <2>2 DEF LockInv
  <1>8. LockKnown(p)'
    BY <1>2, <1>3, <1>6 DEF LockKnown, LockSteps
  <1>9. pc'[p] \in LockSteps \cup {"idle"} /\ pc[p] \in LockSteps
    BY <1>2, <1>6 DEF LockSteps
  <1>10. QED
    BY <1>2, <1>5, <1>7, <1>8, <1>9, LockSide

\* clear_matching_pr_lock removes the lock of the merged pull request only.
LEMMA ClearMatchingStep ==
    ASSUME OneAtATime, InboxInv, NEW p \in Procs, Inbox!ClearMatching(p)
    PROVE  InboxInv'
  <1>1. InboxTypes /\ LockInv /\ LockKnown(p)
    BY InboxAt
  <1>2. /\ pc[p] = "clear-lock" /\ pc' = [pc EXCEPT ![p] = "idle"]
        /\ lock' = IF lock = mine[p] THEN "none" ELSE lock
        /\ UNCHANGED <<inbox, plans, pulls, accepted, doing, mine, read, deaths, lost, bare>>
    BY InboxNames DEF Inbox!ClearMatching, Inbox!Goto, Inbox!local, Inbox!ghosts
  <1>3. pulls[mine[p]] = "merged"
    BY <1>1, <1>2 DEF LockKnown
  <1>4. InboxTypes'
    BY <1>1, <1>2, InboxNames DEF InboxTypes
  <1>5. pc'[p] = "idle" /\ \A q \in Procs : q = p
    BY <1>1, <1>2 DEF InboxTypes, OneAtATime
  <1>6. LockInv'
    BY <1>1, <1>2, <1>3, <1>5, InboxNames DEF LockInv
  <1>7. LockKnown(p)'
    BY <1>5 DEF LockKnown, LockSteps
  <1>8. pc'[p] \in LockSteps \cup {"idle"} /\ pc[p] \in LockSteps
    BY <1>2, <1>5 DEF LockSteps
  <1>9. QED
    BY <1>2, <1>4, <1>6, <1>7, <1>8, LockSide

\* read_inbox_requests of the one process.
LEMMA ReadInboxStep ==
    ASSUME OneAtATime, InboxInv, NEW p \in Procs, Inbox!ReadInbox(p)
    PROVE  InboxInv'
  <1>1. InboxTypes /\ RequestKnown(p)
    BY InboxAt
  <1>2. /\ pc[p] = "read" /\ read' = [read EXCEPT ![p] = inbox] /\ doing[p] \in {"route", "drain"}
        /\ UNCHANGED <<lock, inbox, plans, pulls, accepted, doing, mine, deaths, lost, bare>>
    BY <1>1 DEF Inbox!ReadInbox, Inbox!files, Inbox!ghosts, RequestKnown
  <1>3. PICK next \in {"append", "idle", "look"} :
          /\ pc' = [pc EXCEPT ![p] = next]
          /\ next = "append" <=> doing[p] = "route"
          /\ next = "look" => inbox # << >>
    BY DEF Inbox!ReadInbox, Inbox!Goto
  <1>4. InboxTypes'
    BY <1>1, <1>2, <1>3, InboxNames DEF InboxTypes, RequestSteps
  <1>5. pc'[p] = next /\ read'[p] = inbox
    BY <1>1, <1>2, <1>3 DEF InboxTypes
  <1>6. RoutingInv(p)'
    BY <1>2, <1>5, RequestsQuiet DEF Waiting, Late, Fills
  <1>7. RequestKnown(p)'
    BY <1>1, <1>2, <1>3, <1>5 DEF RequestKnown, RequestSteps, Fills
  <1>8. pc[p] \in RequestSteps /\ pc'[p] \in RequestSteps \cup {"idle"}
    BY <1>2, <1>5 DEF RequestSteps
  <1>9. QED
    BY <1>2, <1>4, <1>6, <1>7, <1>8, RequestSide

\* write_inbox_requests truncates the file: what waits is what was read.
LEMMA CutInboxStep ==
    ASSUME OneAtATime, InboxInv, NEW p \in Procs,
           NEW at \in {"append", "put-back", "rest"}, NEW fill \in Fills, Inbox!CutInbox(p, at, fill),
           at = "append" <=> fill = "fill-append", at = "rest" <=> fill = "fill-rest"
    PROVE  InboxInv'
  <1>1. InboxTypes /\ RequestKnown(p)
    BY InboxAt
  <1>2. /\ pc[p] = at /\ inbox' = << >> /\ pc' = [pc EXCEPT ![p] = fill]
        /\ UNCHANGED <<lock, plans, pulls, accepted, doing, mine, read, deaths, lost, bare>>
    BY DEF Inbox!CutInbox, Inbox!Goto, Inbox!local, Inbox!ghosts
  <1>3. read[p] = inbox
    BY <1>1, <1>2 DEF RequestKnown
  <1>4. InboxTypes'
    <2>1. << >> \in Seq(Sources)
      OBVIOUS
    <2>2. pc' \in [Procs -> InboxSteps]
      BY <1>1, <1>2, InboxNames DEF InboxTypes, RequestSteps
    <2>3. QED
      BY <1>1, <1>2, <2>1, <2>2 DEF InboxTypes
  <1>5. pc'[p] = fill
    BY <1>1, <1>2 DEF InboxTypes
  <1>6. Waiting(p)' = Waiting(p) /\ Late(p)' = Late(p)
    BY <1>2, <1>3, <1>5 DEF Waiting, Late, Fills
  <1>7. RoutingInv(p)'
    BY <1>2, <1>6, RequestsQuiet
  <1>8. RequestKnown(p)'
    <2>1. doing'[p] = IF fill = "fill-append" THEN "route" ELSE "drain"
      BY <1>1, <1>2 DEF RequestKnown, Fills
    <2>2. fill = "fill-append" => mine'[p] \in Sources \ accepted'
      BY <1>1, <1>2 DEF RequestKnown
    <2>3. fill # "fill-append" => read'[p] # << >>
      BY <1>1, <1>2, <2>1 DEF RequestKnown, RequestSteps
    <2>4. fill = "fill-rest" => Has(plans', read'[p][1])
      BY <1>1, <1>2 DEF RequestKnown
    <2>5. QED
      BY <1>2, <1>5, <2>1, <2>2, <2>3, <2>4 DEF RequestKnown, Fills
  <1>9. pc[p] \in RequestSteps /\ pc'[p] \in RequestSteps \cup {"idle"}
    BY <1>2, <1>5 DEF RequestSteps
  <1>10. QED
    BY <1>2, <1>4, <1>7, <1>8, <1>9, RequestSide

\* A request that has to wait is a new one.
LEMMA AppendStep ==
    ASSUME OneAtATime, InboxInv, NEW p \in Procs, Inbox!Append1(p)
    PROVE  InboxInv'
  <1>1. InboxTypes /\ RoutingInv(p) /\ RequestKnown(p)
    BY InboxAt
  <1>2. /\ pc[p] = "fill-append" /\ pc' = [pc EXCEPT ![p] = "idle"]
        /\ inbox' = Append(read[p], mine[p]) /\ accepted' = accepted \cup {mine[p]}
        /\ UNCHANGED <<lock, plans, pulls, doing, mine, read, deaths, lost, bare>>
    BY DEF Inbox!Append1, Inbox!Goto, Inbox!local, Inbox!ghosts
  <1>3. PICK s \in Sources \ accepted : s = mine[p]
    BY <1>1, <1>2 DEF RequestKnown
  <1>4. PICK w \in Seq(Sources) : w = read[p]
    BY <1>1 DEF InboxTypes
  <1>5. inbox' = Append(w, s) /\ accepted' = accepted \cup {s} /\ Waiting(p) = w /\ Late(p) = 0
    BY <1>2, <1>3, <1>4 DEF Waiting, Fills, Late
  <1>6. Routing(w, 0)
    BY <1>1, <1>5 DEF RoutingInv
  <1>7. ~Has(w, s) /\ ~Has(plans, s)
    BY <1>3, <1>6 DEF Routing
  <1>8. /\ inbox' \in Seq(Sources) /\ plans \in Seq(Sources)
        /\ \A t \in Sources : Has(inbox', t) <=> Has(w, t) \/ t = s
        /\ Distinct(w) => Distinct(inbox')
    BY <1>1, <1>5, <1>7, HasAppended DEF InboxTypes
  <1>9. Doubles(inbox', plans) = Doubles(w, plans)
    BY <1>5, <1>7, <1>8, DoublesWaiting
  <1>10. InboxTypes'
    BY <1>1, <1>2, <1>5, <1>8, InboxNames DEF InboxTypes
  <1>11. pc'[p] = "idle"
    BY <1>1, <1>2 DEF InboxTypes
  <1>12. RoutingInv(p)'
    <2>1. Waiting(p)' = inbox' /\ Late(p)' = 0
      BY <1>11 DEF Waiting, Late, Fills
    <2>2. Routing(inbox, 0)'
      <3>1. \A t \in Sources : t \in accepted' <=> Has(inbox', t) \/ Has(plans, t) \/ t \in lost
        BY <1>5, <1>6, <1>8 DEF Routing
      <3>2. Distinct(inbox') /\ Doubles(inbox', plans) <= deaths + 0
        BY <1>6, <1>8, <1>9 DEF Routing
      <3>3. QED
        BY <1>2, <3>1, <3>2 DEF Routing
    <2>3. QED
      BY <2>1, <2>2 DEF RoutingInv
  <1>13. RequestKnown(p)'
    BY <1>11 DEF RequestKnown, RequestSteps, Fills
  <1>14. pc[p] \in RequestSteps /\ pc'[p] \in RequestSteps \cup {"idle"}
    BY <1>2, <1>11 DEF RequestSteps, Fills
  <1>15. QED
    BY <1>2, <1>10, <1>12, <1>13, <1>14, RequestSide

\* A drain looks at the lock.
LEMMA CheckBusyStep ==
    ASSUME OneAtATime, InboxInv, NEW p \in Procs, Inbox!CheckBusy(p)
    PROVE  InboxInv'
  <1>1. InboxTypes /\ RequestKnown(p)
    BY InboxAt
  <1>2. /\ pc[p] \in {"look", "busy"}
        /\ UNCHANGED <<lock, inbox, plans, pulls, accepted, doing, mine, read, deaths, lost, bare>>
    BY DEF Inbox!CheckBusy, Inbox!files, Inbox!local, Inbox!ghosts
  <1>3. PICK next \in {"idle", "busy", "put-back", "route-one"} : pc' = [pc EXCEPT ![p] = next]
    BY DEF Inbox!CheckBusy, Inbox!Goto
  <1>4. InboxTypes'
    BY <1>1, <1>2, <1>3, InboxNames DEF InboxTypes, RequestSteps
  <1>5. pc'[p] = next
    BY <1>1, <1>3 DEF InboxTypes
  <1>6. RoutingInv(p)'
    BY <1>2, <1>5, RequestsQuiet DEF Waiting, Late, Fills
  <1>7. RequestKnown(p)'
    BY <1>1, <1>2, <1>5 DEF RequestKnown, RequestSteps, Fills
  <1>8. pc[p] \in RequestSteps /\ pc'[p] \in RequestSteps \cup {"idle"}
    BY <1>2, <1>5 DEF RequestSteps
  <1>9. QED
    BY <1>2, <1>4, <1>6, <1>7, <1>8, RequestSide

\* What is left is written back.
LEMMA PutBackStep ==
    ASSUME OneAtATime, InboxInv, NEW p \in Procs, Inbox!PutBack(p)
    PROVE  InboxInv'
  <1>1. InboxTypes
    BY InboxAt
  <1>2. /\ pc[p] = "fill-back" /\ pc' = [pc EXCEPT ![p] = "idle"] /\ inbox' = read[p]
        /\ UNCHANGED <<lock, plans, pulls, accepted, doing, mine, read, deaths, lost, bare>>
    BY DEF Inbox!PutBack, Inbox!Goto, Inbox!local, Inbox!ghosts
  <1>3. InboxTypes'
    BY <1>1, <1>2, InboxNames DEF InboxTypes
  <1>4. pc'[p] = "idle"
    BY <1>1, <1>2 DEF InboxTypes
  <1>5. RoutingInv(p)'
    BY <1>2, <1>4, RequestsQuiet DEF Waiting, Late, Fills
  <1>6. RequestKnown(p)'
    BY <1>4 DEF RequestKnown, RequestSteps, Fills
  <1>7. pc[p] \in RequestSteps /\ pc'[p] \in RequestSteps \cup {"idle"}
    BY <1>2, <1>4 DEF RequestSteps, Fills
  <1>8. QED
    BY <1>2, <1>3, <1>5, <1>6, <1>7, RequestSide

\* A plan: of a new source, or one more of the first request, which is to leave.
LEMMA RouteOneStep ==
    ASSUME OneAtATime, InboxInv, NEW p \in Procs, Inbox!RouteOne(p)
    PROVE  InboxInv'
  <1>1. InboxTypes /\ RoutingInv(p) /\ RequestKnown(p)
    BY InboxAt
  <1>2. /\ pc[p] = "route-one" /\ doing[p] \in {"route", "drain"}
        /\ UNCHANGED <<lock, inbox, pulls, doing, mine, read, deaths, lost, bare>>
    BY <1>1 DEF RequestKnown, Inbox!RouteOne, Inbox!local, Inbox!ghosts
  <1>3. Waiting(p) = inbox /\ Late(p) = 0 /\ inbox \in Seq(Sources) /\ plans \in Seq(Sources)
    BY <1>1, <1>2 DEF Waiting, Late, Fills, InboxTypes
  <1>4. Routing(inbox, 0)
    BY <1>1, <1>3 DEF RoutingInv
  <1>5. PICK s \in Sources :
          /\ s = IF doing[p] = "route" THEN mine[p] ELSE Head(read[p])
          /\ doing[p] = "route" => s \notin accepted
          /\ doing[p] = "drain" => s = read[p][1] /\ Has(inbox, s) /\ s \in accepted
    <2>1. CASE doing[p] = "route"
      BY <1>1, <1>2, <2>1 DEF RequestKnown
    <2>2. CASE doing[p] = "drain"
      <3>1. read[p] = inbox /\ inbox # << >>
        BY <1>1, <1>2, <2>2 DEF RequestKnown, RequestSteps
      <3>2. Head(inbox) = inbox[1] /\ inbox[1] \in Sources /\ Has(inbox, inbox[1])
        BY <1>3, <3>1, HasInTail
      <3>3. inbox[1] \in accepted
        BY <1>4, <3>2 DEF Routing
      <3>4. QED
        BY <2>2, <3>1, <3>2, <3>3
    <2>3. QED
      BY <1>2, <2>1, <2>2
  <1>6. PICK next \in {"idle", "rest"} :
          /\ pc' = [pc EXCEPT ![p] = next]
          /\ \/ /\ plans' = Append(plans, s) /\ accepted' = accepted \cup {s}
                /\ next = IF doing[p] = "route" THEN "idle" ELSE "rest"
             \/ UNCHANGED <<plans, accepted>> /\ next = "idle"
    BY <1>2, <1>5 DEF Inbox!RouteOne, Inbox!Goto
  <1>7. /\ Append(plans, s) \in Seq(Sources)
        /\ \A t \in Sources : Has(Append(plans, s), t) <=> Has(plans, t) \/ t = s
    BY <1>3, HasAppended
  <1>8. InboxTypes'
    <2>1. plans' \in Seq(Sources) /\ accepted' \in SUBSET Sources
      BY <1>1, <1>6, <1>7 DEF InboxTypes
    <2>2. pc' \in [Procs -> InboxSteps]
      BY <1>1, <1>6, InboxNames DEF InboxTypes, RequestSteps
    <2>3. QED
      BY <1>1, <1>2, <2>1, <2>2 DEF InboxTypes
  <1>9. pc'[p] = next
    BY <1>1, <1>6 DEF InboxTypes
  <1>10. RoutingInv(p)'
    <2>1. Waiting(p)' = inbox /\ Late(p)' = IF next = "rest" THEN 1 ELSE 0
      BY <1>2, <1>9 DEF Waiting, Late, Fills
    <2>2. CASE UNCHANGED <<plans, accepted>> /\ next = "idle"
      BY <1>2, <1>3, <2>1, <2>2, RequestsQuiet
    <2>3. CASE /\ plans' = Append(plans, s) /\ accepted' = accepted \cup {s}
               /\ next = IF doing[p] = "route" THEN "idle" ELSE "rest"
      <3>1. /\ deaths \in Nat /\ Doubles(inbox, plans) \in Int
            /\ doing[p] = "route" => Doubles(inbox, plans') = Doubles(inbox, plans)
            /\ doing[p] = "drain" => Doubles(inbox, plans') = Doubles(inbox, plans) + 1
        <4>1. doing[p] = "route" => ~Has(plans, s) /\ ~Has(inbox, s)
          BY <1>4, <1>5 DEF Routing
        <4>2. QED
          BY <1>1, <1>3, <1>5, <2>3, <4>1, DoublesMade, ComponentsAssumption DEF InboxTypes
      <3>2. Doubles(inbox, plans') <= deaths + (IF next = "rest" THEN 1 ELSE 0)
        <4>1. Doubles(inbox, plans) <= deaths + 0
          BY <1>4 DEF Routing
        <4>2. QED
          BY <1>2, <2>3, <3>1, <4>1
      <3>3. \A t \in Sources : t \in accepted' <=> Has(inbox, t) \/ Has(plans', t) \/ t \in lost
        BY <1>4, <1>7, <2>3 DEF Routing
      <3>4. Distinct(inbox)
        BY <1>4 DEF Routing
      <3>5. QED
        BY <1>2, <2>1, <3>2, <3>3, <3>4 DEF RoutingInv, Routing
    <2>4. QED
      BY <1>6, <2>2, <2>3
  <1>11. RequestKnown(p)'
    <2>1. CASE next = "idle"
      BY <1>9, <2>1 DEF RequestKnown, RequestSteps, Fills
    <2>2. CASE next = "rest"
      <3>1. doing[p] = "drain" /\ plans' = Append(plans, s)
        BY <1>2, <1>6, <2>2
      <3>2. /\ read'[p] = inbox' /\ read'[p] # << >> /\ Has(plans', read'[p][1])
            /\ doing'[p] = "drain"
        BY <1>1, <1>2, <1>5, <1>7, <3>1 DEF RequestKnown, RequestSteps
      <3>3. QED
        BY <1>9, <2>2, <3>2 DEF RequestKnown, Fills
    <2>3. QED
      BY <2>1, <2>2
  <1>12. pc[p] \in RequestSteps /\ pc'[p] \in RequestSteps \cup {"idle"}
    BY <1>2, <1>9 DEF RequestSteps
  <1>13. QED
    BY <1>2, <1>8, <1>10, <1>11, <1>12, RequestSide

\* The request that has its plan leaves the inbox.
LEMMA WriteRestStep ==
    ASSUME OneAtATime, InboxInv, NEW p \in Procs, Inbox!WriteRest(p)
    PROVE  InboxInv'
  <1>1. InboxTypes /\ RoutingInv(p) /\ RequestKnown(p)
    BY InboxAt
  <1>2. PICK w \in Seq(Sources) : w = read[p]
    BY <1>1 DEF InboxTypes
  <1>3. /\ pc[p] = "fill-rest" /\ inbox' = Tail(w) /\ read' = [read EXCEPT ![p] = Tail(w)]
        /\ pc' = [pc EXCEPT ![p] = IF Len(w) = 1 THEN "idle" ELSE "busy"]
        /\ UNCHANGED <<lock, plans, pulls, accepted, doing, mine, deaths, lost, bare>>
    BY <1>2 DEF Inbox!WriteRest, Inbox!Rest, Inbox!Goto, Inbox!ghosts
  <1>4. doing[p] = "drain" /\ w # << >> /\ Has(plans, w[1])
    BY <1>1, <1>2, <1>3 DEF RequestKnown, RequestSteps, Fills
  <1>5. Routing(w, 1)
    <2>1. Waiting(p) = w /\ Late(p) = 1
      BY <1>2, <1>3 DEF Waiting, Late, Fills
    <2>2. QED
      BY <1>1, <2>1 DEF RoutingInv
  <1>6. /\ Tail(w) \in Seq(Sources) /\ w[1] \in Sources
        /\ \A t \in Sources : Has(w, t) <=> Has(Tail(w), t) \/ t = w[1]
        /\ Distinct(w) => Distinct(Tail(w))
        /\ Len(w) # 1 => Tail(w) # << >>
    BY <1>4, HasInTail
  <1>7. Distinct(w) /\ Doubles(w, plans) <= deaths + 1
    BY <1>5 DEF Routing
  <1>8. Doubles(Tail(w), plans) = Doubles(w, plans) - 1 /\ Doubles(w, plans) \in Int
    BY <1>1, <1>4, <1>7, DoublesWaiting DEF InboxTypes
  <1>9. InboxTypes'
    <2>1. pc' \in [Procs -> InboxSteps]
      BY <1>1, <1>3, InboxNames DEF InboxTypes, RequestSteps
    <2>2. read' \in [Procs -> Seq(Sources)]
      BY <1>1, <1>3, <1>6 DEF InboxTypes
    <2>3. QED
      BY <1>1, <1>3, <1>6, <2>1, <2>2 DEF InboxTypes
  <1>10. pc'[p] = (IF Len(w) = 1 THEN "idle" ELSE "busy") /\ read'[p] = Tail(w)
    BY <1>1, <1>3 DEF InboxTypes
  <1>11. RoutingInv(p)'
    <2>1. Waiting(p)' = Tail(w) /\ Late(p)' = 0
      BY <1>3, <1>10 DEF Waiting, Late, Fills
    <2>2. Doubles(Tail(w), plans) <= deaths + 0
      BY <1>1, <1>7, <1>8, ComponentsAssumption DEF InboxTypes
    <2>3. \A t \in Sources : t \in accepted <=> Has(Tail(w), t) \/ Has(plans, t) \/ t \in lost
      BY <1>4, <1>5, <1>6 DEF Routing
    <2>4. QED
      BY <1>3, <1>6, <1>7, <2>1, <2>2, <2>3 DEF RoutingInv, Routing
  <1>12. RequestKnown(p)'
    <2>1. pc'[p] \in {"idle", "busy"} /\ (pc'[p] = "busy" => Tail(w) # << >>)
      BY <1>6, <1>10
    <2>2. doing'[p] = "drain" /\ read'[p] = inbox'
      BY <1>3, <1>4, <1>10
    <2>3. QED
      BY <1>10, <2>1, <2>2 DEF RequestKnown, RequestSteps, Fills
  <1>13. pc[p] \in RequestSteps /\ pc'[p] \in RequestSteps \cup {"idle"}
    BY <1>3, <1>10 DEF RequestSteps, Fills
  <1>14. QED
    BY <1>3, <1>9, <1>11, <1>12, <1>13, RequestSide

\* What a person does to the lock or on GitHub leaves the requests alone.
LEMMA PersonSide ==
    ASSUME InboxInv, InboxTypes', LockInv', \A p \in Procs : LockKnown(p)',
           UNCHANGED <<inbox, plans, accepted, pc, doing, mine, read, deaths, lost>>
    PROVE  InboxInv'
  <1>1. ASSUME NEW p \in Procs
        PROVE  RoutingInv(p)' /\ RequestKnown(p)'
    <2>1. RoutingInv(p)'
      BY RequestsQuiet DEF Waiting, Late
    <2>2. RequestKnown(p)'
      BY InboxAt DEF RequestKnown, Has
    <2>3. QED
      BY <2>1, <2>2
  <1>2. QED
    BY <1>1 DEF InboxInv

\* Somebody merges an open pull request on GitHub.
LEMMA MergePullStep ==
    ASSUME InboxInv, Inbox!Merge
    PROVE  InboxInv'
  <1>1. InboxTypes /\ LockInv
    BY DEF InboxInv
  <1>2. UNCHANGED <<lock, inbox, plans, accepted, pc, doing, mine, read, deaths, lost, bare>>
    BY DEF Inbox!Merge, Inbox!files, Inbox!local, Inbox!ghosts
  <1>3. PICK b \in Branches : pulls[b] = "open" /\ pulls' = [pulls EXCEPT ![b] = "merged"]
    BY DEF Inbox!Merge
  <1>4. \A c \in Branches : pulls'[c] = IF c = b THEN "merged" ELSE pulls[c]
    BY <1>1, <1>3 DEF InboxTypes
  <1>5. InboxTypes'
    BY <1>1, <1>2, <1>3 DEF InboxTypes
  <1>6. LockInv'
    BY <1>1, <1>2, <1>4 DEF LockInv
  <1>7. ASSUME NEW p \in Procs
        PROVE  LockKnown(p)'
    <2>1. LockKnown(p)
      BY InboxAt
    <2>2. pc[p] \in {"unlock", "clear-lock"} => pulls'[mine[p]] = "merged"
      BY <1>3, <1>4, <2>1 DEF LockKnown, LockSteps
    <2>3. QED
      BY <1>2, <2>1, <2>2 DEF LockKnown, Spare
  <1>8. QED
    BY <1>2, <1>5, <1>6, <1>7, PersonSide

\* set-pr-lock and clear-pr-lock: the pull request whose lock is taken away is
\* bare, and so is one whose lock is set while a command is under way.
LEMMA PersonLockStep ==
    ASSUME OneAtATime, InboxInv, Inbox!SetLock \/ Inbox!ClearLock
    PROVE  InboxInv'
  <1>1. InboxTypes /\ LockInv
    BY DEF InboxInv
  <1>2. UNCHANGED <<inbox, plans, pulls, accepted, pc, doing, mine, read, deaths, lost>>
    BY DEF Inbox!SetLock, Inbox!ClearLock, Inbox!local
  <1>3. PICK bared : bared = bare \cup ({lock} \cap Branches)
    OBVIOUS
  <1>4. \/ lock' \in {"none", "unreadable"} /\ bare' = bared
        \/ /\ lock' \in Branches
           /\ bare' = IF Inbox!Idle THEN bared \ {lock'} ELSE bared \cup {lock'}
    BY <1>3, InboxNames DEF Inbox!SetLock, Inbox!ClearLock, Inbox!Bared, Inbox!LockText
  <1>5. InboxTypes'
    <2>1. bare' \in SUBSET Branches
      BY <1>1, <1>3, <1>4 DEF InboxTypes
    <2>2. QED
      BY <1>1, <1>2, <1>4, <2>1 DEF InboxTypes
  <1>6. LockInv'
    BY <1>1, <1>2, <1>3, <1>4 DEF LockInv
  <1>7. ASSUME NEW p \in Procs
        PROVE  LockKnown(p)'
    <2>1. LockKnown(p)
      BY InboxAt
    <2>2. CASE Inbox!Idle
      <3>1. pc'[p] = "idle"
        BY <1>2, <2>2 DEF Inbox!Idle
      <3>2. QED
        BY <3>1 DEF LockKnown, LockSteps
    <2>3. CASE ~Inbox!Idle
      <3>1. Spare(lock)'
        BY <1>4, <2>3 DEF Spare
      <3>2. QED
        BY <1>2, <2>1, <3>1 DEF LockKnown
    <2>4. QED
      BY <2>2, <2>3
  <1>8. QED
    BY <1>2, <1>5, <1>6, <1>7, PersonSide

\* A command dies between any two of its steps: one plan too many may be left,
\* or the requests of a torn inbox are lost, or a pull request stays bare.
LEMMA DieStep ==
    ASSUME OneAtATime, InboxInv, NEW p \in Procs, Inbox!Die(p)
    PROVE  InboxInv'
  <1>1. InboxTypes /\ LockInv /\ RoutingInv(p) /\ RequestKnown(p) /\ LockKnown(p)
    BY InboxAt
  <1>2. /\ deaths < MaxDeaths /\ deaths' = deaths + 1 /\ pc' = [pc EXCEPT ![p] = "idle"]
        /\ UNCHANGED <<lock, inbox, plans, pulls, accepted, doing, mine, read>>
        /\ lost' = IF pc[p] \in Fills THEN lost \cup Inbox!Range(read[p]) ELSE lost
        /\ bare' = IF pc[p] \in {"write-lock", "fill-lock"} THEN bare \cup {mine[p]} ELSE bare
    BY DEF Inbox!Die, Inbox!Goto, Inbox!files, Inbox!local, Fills
  <1>3. PICK w \in Seq(Sources) : w = read[p]
    BY <1>1 DEF InboxTypes
  <1>4. Inbox!Range(w) = {s \in Sources : Has(w, s)}
    BY HasIsRange
  <1>5. deaths \in Nat /\ deaths' \in 0..MaxDeaths
    BY <1>1, <1>2, ComponentsAssumption DEF InboxTypes
  <1>6. pc[p] \in {"write-lock", "fill-lock"} => mine[p] \in Branches
    BY <1>1 DEF LockKnown, LockSteps
  <1>7. InboxTypes'
    <2>1. pc' \in [Procs -> InboxSteps]
      BY <1>1, <1>2, InboxNames DEF InboxTypes
    <2>2. lost' \in SUBSET Sources /\ bare' \in SUBSET Branches
      BY <1>1, <1>2, <1>3, <1>4, <1>6 DEF InboxTypes
    <2>3. QED
      BY <1>1, <1>2, <1>5, <2>1, <2>2 DEF InboxTypes
  <1>8. pc'[p] = "idle" /\ \A q \in Procs : q = p
    BY <1>1, <1>2 DEF InboxTypes, OneAtATime
  <1>9. RoutingInv(p)'
    <2>1. Waiting(p)' = inbox /\ Late(p)' = 0
      BY <1>2, <1>8 DEF Waiting, Late, Fills
    <2>2. Late(p) \in {0, 1}
      BY DEF Late
    <2>3. CASE pc[p] \in Fills
      <3>1. inbox = << >> /\ Routing(w, Late(p))
        BY <1>1, <1>3, <2>3 DEF RequestKnown, RoutingInv, Waiting
      <3>2. Doubles(inbox, plans) <= Doubles(w, plans) /\ Doubles(w, plans) \in Int
            /\ Doubles(inbox, plans) \in Int
        BY <1>1, <3>1, DoublesWaiting DEF InboxTypes
      <3>3. Doubles(inbox, plans) <= deaths' + 0
        BY <1>2, <1>5, <2>2, <3>1, <3>2 DEF Routing
      <3>4. \A s \in Sources : s \in accepted <=> Has(inbox, s) \/ Has(plans, s) \/ s \in lost'
        <4>1. lost' = lost \cup {s \in Sources : Has(w, s)}
          BY <1>2, <1>3, <1>4, <2>3
        <4>2. \A s \in Sources : ~Has(inbox, s)
          BY <3>1 DEF Has
        <4>3. QED
          BY <3>1, <4>1, <4>2 DEF Routing
      <3>5. Distinct(inbox)
        BY <3>1 DEF Distinct
      <3>6. QED
        BY <1>2, <2>1, <3>3, <3>4, <3>5 DEF RoutingInv, Routing
    <2>4. CASE pc[p] \notin Fills
      <3>1. Routing(inbox, Late(p)) /\ lost' = lost
        BY <1>1, <1>2, <2>4 DEF RoutingInv, Waiting
      <3>2. Doubles(inbox, plans) \in Int
        BY <1>1, DoublesWaiting DEF InboxTypes
      <3>3. Doubles(inbox, plans) <= deaths' + 0
        BY <1>2, <1>5, <2>2, <3>1, <3>2 DEF Routing
      <3>4. QED
        BY <1>2, <2>1, <3>1, <3>3 DEF RoutingInv, Routing
    <2>5. QED
      BY <2>3, <2>4
  <1>10. LockInv'
    BY <1>1, <1>2, <1>8 DEF LockInv
  <1>11. RequestKnown(p)' /\ LockKnown(p)'
    BY <1>8 DEF RequestKnown, LockKnown, RequestSteps, LockSteps, Fills
  <1>12. QED
    BY <1>7, <1>9, <1>10, <1>11, SoloInbox

\* The invariant of PrInbox holds after every step.
LEMMA InboxStep ==
    ASSUME OneAtATime, InboxInv, [Inbox!Next]_inboxVars
    PROVE  InboxInv'
  <1>1. ASSUME NEW p \in Procs, Inbox!Work(p)
        PROVE  InboxInv'
    <2>1. CASE \/ Inbox!CutInbox(p, "append", "fill-append")
               \/ Inbox!CutInbox(p, "put-back", "fill-back")
               \/ Inbox!CutInbox(p, "rest", "fill-rest")
      BY <2>1, CutInboxStep DEF Fills
    <2>2. QED
      BY <1>1, <2>1, ReadLockStep, CreatePrStep, CutLockStep, WriteLockStep, ViewStep, UnlockStep,
         EnsurePrStep, MergePrStep, ClearMatchingStep, ReadInboxStep, AppendStep, CheckBusyStep,
         PutBackStep, RouteOneStep, WriteRestStep DEF Inbox!Work
  <1>2. ASSUME NEW p \in Procs, Inbox!Give(p) \/ Inbox!Die(p)
        PROVE  InboxInv'
    BY <1>2, GiveStep, DieStep
  <1>3. CASE Inbox!Merge \/ Inbox!SetLock \/ Inbox!ClearLock
    BY <1>3, MergePullStep, PersonLockStep
  <1>4. CASE UNCHANGED inboxVars
    <2>1. UNCHANGED <<lock, inbox, plans, pulls, accepted, pc, doing, mine, read, deaths, lost, bare>>
      BY <1>4 DEF inboxVars
    <2>2. InboxTypes' /\ LockInv'
      BY <2>1 DEF InboxInv, InboxTypes, LockInv
    <2>3. \A p \in Procs : LockKnown(p)'
      BY <2>1 DEF InboxInv, LockKnown, Spare
    <2>4. QED
      BY <2>1, <2>2, <2>3, PersonSide
  <1>5. QED
    BY <1>1, <1>2, <1>3, <1>4 DEF Inbox!Next

\* The invariant of PrInbox holds at first.
LEMMA InboxInit ==
    ASSUME Inbox!Init
    PROVE  InboxInv
  <1>1. /\ lock = "none" /\ pulls = [b \in Branches |-> "none"]
        /\ inbox = << >> /\ plans = << >> /\ accepted = {} /\ deaths = 0 /\ lost = {} /\ bare = {}
        /\ pc = [p \in Procs |-> "idle"] /\ doing = [p \in Procs |-> "drain"]
        /\ mine = [p \in Procs |-> "none"] /\ read = [p \in Procs |-> << >>]
    BY Zenon DEF Inbox!Init, Inbox!NoBranch
  <1>2. << >> \in Seq(Sources)
    OBVIOUS
  <1>3. InboxTypes
    <2>1. pc \in [Procs -> InboxSteps] /\ doing \in [Procs -> InboxCommands]
      BY <1>1, InboxNames
    <2>2. /\ lock \in Branches \cup {"none", "unreadable"}
          /\ pulls \in [Branches -> {"none", "open", "merged"}]
          /\ mine \in [Procs -> Branches \cup Sources \cup {"none"}]
          /\ accepted \in SUBSET Sources /\ lost \in SUBSET Sources /\ bare \in SUBSET Branches
      BY <1>1
    <2>3. deaths \in 0..MaxDeaths
      BY <1>1, ComponentsAssumption
    <2>4. read \in [Procs -> Seq(Sources)] /\ inbox \in Seq(Sources) /\ plans \in Seq(Sources)
      BY <1>1, <1>2, Zenon
    <2>5. QED
      BY <2>1, <2>2, <2>3, <2>4 DEF InboxTypes
  <1>4. LockInv
    BY <1>1 DEF LockInv
  <1>5. Doubles(<< >>, << >>) = 0
    <2>1. {s \in Sources : Has(<< >>, s)} = {}
      BY DEF Has
    <2>2. Cardinality({}) = 0
      BY FS_EmptySet
    <2>3. Doubles(<< >>, << >>) = Len(<< >>) - Cardinality({}) + Cardinality({} \cap {})
      BY <2>1 DEF Doubles
    <2>4. {} \cap {} = {} /\ Len(<< >>) = 0
      OBVIOUS
    <2>5. QED
      BY <2>2, <2>3, <2>4
  <1>6. ASSUME NEW p \in Procs
        PROVE  RoutingInv(p) /\ RequestKnown(p) /\ LockKnown(p)
    <2>1. pc[p] = "idle"
      BY <1>1
    <2>2. Waiting(p) = << >> /\ Late(p) = 0
      BY <1>1, <2>1 DEF Waiting, Late, Fills
    <2>3. Routing(<< >>, 0)
      BY <1>1, <1>5 DEF Routing, Has, Distinct
    <2>4. QED
      BY <2>1, <2>2, <2>3 DEF RoutingInv, RequestKnown, LockKnown, RequestSteps, LockSteps, Fills
  <1>7. QED
    BY <1>3, <1>4, <1>6 DEF InboxInv

\* The invariant of PrInbox holds while any of the four components moves.
LEMMA InboxHolds == ASSUME OneAtATime PROVE ComponentsSpec => []InboxInv
  <1>1. ComponentsInit => InboxInv
    BY InboxInit DEF ComponentsInit
  <1>2. InboxInv /\ [ComponentsNext]_componentsVars => InboxInv'
    BY InboxStep, StepOfEach
  <1>3. QED
    BY <1>1, <1>2, PTL DEF ComponentsSpec, componentsVars

\* A source that one process at a time has accepted is in the inbox, has its
\* plan, or was in the inbox when a command died while writing it; and there is
\* at most one plan too many, made or still to come, for every command that
\* died.
THEOREM RoutedOnce == ASSUME OneAtATime PROVE ComponentsSpec => []RoutedExactlyOnce
  <1>1. ASSUME InboxInv, Inbox!Idle
        PROVE  /\ accepted \subseteq Inbox!Range(inbox) \cup Inbox!Range(plans) \cup lost
               /\ Len(plans) - Inbox!Cardinality(Inbox!Range(plans))
                     + Inbox!Cardinality(Inbox!Range(inbox) \cap Inbox!Range(plans)) <= deaths
    <2>1. PICK p \in Procs : TRUE
      BY ComponentsAssumption
    <2>2. InboxTypes /\ RoutingInv(p) /\ pc[p] = "idle"
      BY <1>1, InboxAt DEF Inbox!Idle
    <2>3. Waiting(p) = inbox /\ Late(p) = 0
      BY <2>2 DEF Waiting, Late, Fills
    <2>4. Routing(inbox, 0)
      BY <2>2, <2>3 DEF RoutingInv
    <2>5. /\ Inbox!Range(inbox) = {s \in Sources : Has(inbox, s)}
          /\ Inbox!Range(plans) = {s \in Sources : Has(plans, s)}
      BY <2>2, HasIsRange DEF InboxTypes
    <2>6. accepted \subseteq Inbox!Range(inbox) \cup Inbox!Range(plans) \cup lost
      BY <2>2, <2>4, <2>5 DEF Routing, InboxTypes
    <2>7. Doubles(inbox, plans) <= deaths
      BY <2>2, <2>4, ComponentsAssumption DEF Routing, InboxTypes
    <2>8. \A S : Inbox!Cardinality(S) = Cardinality(S)
      BY DEF Inbox!Cardinality, Cardinality
    <2>9. QED
      BY <2>5, <2>6, <2>7, <2>8 DEF Doubles
  <1>2. InboxInv => RoutedExactlyOnce
    BY <1>1 DEF RoutedExactlyOnce, Inbox!RequestsKept, Inbox!RoutedOnce
  <1>3. QED
    BY <1>2, InboxHolds, PTL

\* The lock of one process at a time names the pull request that is open,
\* whatever dies and whatever a person does to the lock or on GitHub, but for
\* the pull requests that never got a lock or lost it to a person.
THEOREM LockNamesOpen == ASSUME OneAtATime PROVE ComponentsSpec => []LockCoversOpen
  <1>1. ASSUME InboxInv
        PROVE  LockCoversOpen
    <2> SUFFICES ASSUME Inbox!Idle, NEW b \in Branches, pulls[b] = "open"
                 PROVE  lock = b \/ b \in bare
      BY DEF LockCoversOpen, Inbox!LockCoversOpen
    <2>1. ~\E p \in Procs : pc[p] \in {"write-lock", "fill-lock"}
      BY DEF Inbox!Idle
    <2>2. QED
      BY <1>1, <2>1 DEF InboxInv, LockInv
  <1>2. QED
    BY <1>1, InboxHolds, PTL

-----------------------------------------------------------------------------
(* The types of the four                                                    *)

\* What the proofs keep of the types implies the type invariants that the run
\* checks.
LEMMA TypesOfQueue ==
    ASSUME QueueTypes
    PROVE  TypeOK
  BY QueueFields DEF QueueTypes, TypeOK

\* PrInbox: the same.
LEMMA TypesOfInbox ==
    ASSUME InboxTypes
    PROVE  Inbox!TypeOK
  BY DEF InboxTypes, InboxSteps, InboxCommands, Inbox!TypeOK, Inbox!NoBranch, Inbox!Unreadable

\* ReviewGate: the same.
LEMMA TypesOfReview ==
    ASSUME ReviewTypeInv
    PROVE  Review!TypeOK
  <1>1. Review!Range(gates) \subseteq GateLine /\ Review!Range(terminals) \subseteq TerminalLine
    BY DEF ReviewTypeInv, Review!Range
  <1>2. QED
    BY <1>1 DEF ReviewTypeInv, GateLine, TerminalLine, Review!TypeOK

\* Release: the same.
LEMMA TypesOfMerge ==
    ASSUME MergeTypeInv
    PROVE  Merge!TypeOK
  BY DEF MergeTypeInv, PaperTypes, GitTypes, Merge!TypeOK

\* Every variable of the four components keeps its type; of queue.json and of
\* the inbox this is for one process at a time.
THEOREM TypesHold == ASSUME OneAtATime PROVE ComponentsSpec => []ComponentsTypeOK
  <1>1. QueueInv /\ InboxInv /\ ReviewTypeInv /\ MergeInv => ComponentsTypeOK
    BY TypesOfQueue, TypesOfInbox, TypesOfReview, TypesOfMerge
       DEF QueueInv, InboxInv, MergeInv, ComponentsTypeOK
  <1>2. QED
    BY <1>1, QueueHolds, InboxHolds, ReviewHolds, MergeHolds, PTL
=============================================================================
