---------------------------- MODULE ChildRuntime ----------------------------
(***************************************************************************)
(* The managed child runtimes (codex_flow/child_runtime.py) and their      *)
(* attestation (codex_flow/codex_cli.py): a run copies the skill it needs  *)
(* into a private stage, keys the closure by what it copied, publishes it  *)
(* under its key with a rename inside a lock or reuses the closure that is *)
(* already there, attests it, verifies the attestation and launches the    *)
(* child in it.                                                            *)
(*                                                                         *)
(* A hash is the content it is taken of.  A closure has a configuration    *)
(* and one skill tree of several files; the manifest declares the tree.    *)
(***************************************************************************)
EXTENDS Naturals

CONSTANTS
    Procs,        \* the runs
    Files,        \* the files of the skill source
    Versions,     \* what a file or a configuration may contain
    First,        \* the version everything has at first
    None,
    MaxEdits,     \* bound: edits of the parent's files, by the user
    MaxWrites,    \* bound: writes of a child into its own home
    MaxCrashes    \* bound: runs that die

ASSUME FirstAssumption == First \in Versions
ASSUME NoneAssumption ==
    LET trees == [Files -> Versions]
    IN  None \notin [tree : trees, config : Versions]
               \cup [tree : trees, config : Versions, manifest : trees]
               \cup [copied : SUBSET Files, tree : trees, config : Versions] \cup Procs
ASSUME BoundsAssumption == MaxEdits \in Nat /\ MaxWrites \in Nat /\ MaxCrashes \in Nat

VARIABLES
    source,       \* the skill in the parent's registry
    config,       \* the parent's configuration, sanitized
    closures,     \* the published closure of every key
    lockOf,       \* the run that holds the lock of a key
    run,          \* every run
    orphans,      \* stages that a dead run left behind
    edits, writes, crashes

vars == <<source, config, closures, lockOf, run, orphans, edits, writes, crashes>>

Trees == [Files -> Versions]
Keys == [tree : Trees, config : Versions]
Closure == [tree : Trees, config : Versions, manifest : Trees]
Stage == [copied : SUBSET Files, tree : Trees, config : Versions]
Steps == {"idle", "copying", "keyed", "locked", "renaming", "returned", "attested",
          "launched", "denied"}
NoKey == [tree |-> [f \in Files |-> First], config |-> First]
Idle == [pc |-> "idle", stage |-> None, key |-> NoKey, reused |-> FALSE,
         attested |-> None, why |-> "none"]

Reasons == {"none", "configuration", "inventory", "invalid", "collision", "attestation",
            "verification"}
Runs == [pc : Steps, stage : Stage \cup {None}, key : Keys, reused : BOOLEAN,
         attested : Keys \cup {None}, why : Reasons]

TypeOK ==
    /\ source \in Trees /\ config \in Versions
    /\ closures \in [Keys -> Closure \cup {None}]
    /\ lockOf \in [Keys -> Procs \cup {None}]
    /\ run \in [Procs -> Runs]
    /\ orphans \in 0..crashes
    /\ edits \in 0..MaxEdits /\ writes \in 0..MaxWrites /\ crashes \in 0..MaxCrashes

Init ==
    /\ source = NoKey.tree /\ config = First
    /\ closures = [k \in Keys |-> None]
    /\ lockOf = [k \in Keys |-> None]
    /\ run = [p \in Procs |-> Idle]
    /\ orphans = 0 /\ edits = 0 /\ writes = 0 /\ crashes = 0

-----------------------------------------------------------------------------
At(p, step) == run[p].pc = step
Become(p, local) == run' = [run EXCEPT ![p] = local]
Key(p) == run[p].key
bounds == <<edits, writes, crashes>>

\* The run gives up: the finally clause removes the stage.
Denied(p, why) == [run[p] EXCEPT !.pc = "denied", !.why = why, !.stage = None]

\* Mutant: whatever stands at the key is taken.
LoadsAnyway(k) == closures[k] # None

\* load_child_closure_manifest: the tree is the declared one.  The
\* configuration is only required to be there.
Loads(k) == closures[k] # None /\ closures[k].tree = closures[k].manifest

\* write_sanitized_child_config, in a new private stage.
Prepare(p) ==
    /\ At(p, "idle")
    /\ Become(p, [Idle EXCEPT !.pc = "copying",
                     !.stage = [copied |-> {}, tree |-> NoKey.tree, config |-> config]])
    /\ UNCHANGED <<source, config, closures, lockOf, orphans, bounds>>

\* _validate_explicit_runtime: a home given with both variables is validated and
\* taken as it is, without a lock.  The home may be one that was published here.
TakeGiven(p) ==
    /\ At(p, "idle")
    /\ \E k \in Keys :
          \/ Loads(k) /\ Become(p, [Idle EXCEPT !.pc = "returned", !.key = k, !.reused = TRUE])
          \/ closures[k] # None /\ ~Loads(k) /\ Become(p, Denied(p, "invalid"))
    /\ UNCHANGED <<source, config, closures, lockOf, orphans, bounds>>

\* Half an explicit pair, none where one is required, a home of the parent's or
\* in the repository, an explicit profile, isolation turned off, a root inside
\* the repository, a missing or unsafe source: nothing is prepared.
Refuse(p) ==
    /\ At(p, "idle")
    /\ Become(p, Denied(p, "configuration"))
    /\ UNCHANGED <<source, config, closures, lockOf, orphans, bounds>>

\* shutil.copytree, file by file.
Copy(p, f) ==
    /\ At(p, "copying")
    /\ f \notin run[p].stage.copied
    /\ Become(p, [run[p] EXCEPT !.stage.copied = @ \cup {f}, !.stage.tree[f] = source[f]])
    /\ UNCHANGED <<source, config, closures, lockOf, orphans, bounds>>

\* Mutant: the key is taken of the source as it is by now.
KeyOfSource(p) == [tree |-> source, config |-> run[p].stage.config]

\* The key is taken of the copies.
KeyOf(p) == [tree |-> run[p].stage.tree, config |-> run[p].stage.config]

\* The provisional inventory of the stage answers, and the manifest is
\* written and validated; or one of the probes fails.
Probe(p) ==
    /\ At(p, "copying")
    /\ run[p].stage.copied = Files
    /\ \/ Become(p, [run[p] EXCEPT !.pc = "keyed", !.key = KeyOf(p)])
       \/ Become(p, Denied(p, "inventory"))
    /\ UNCHANGED <<source, config, closures, lockOf, orphans, bounds>>

-----------------------------------------------------------------------------
(* _publish_runtime                                                         *)

\* Mutant: the lock does not exclude.
AcquirableAlways(k) == TRUE

Acquirable(k) == lockOf[k] = None

Acquire(p) ==
    /\ At(p, "keyed")
    /\ Acquirable(Key(p))
    /\ lockOf' = [lockOf EXCEPT ![Key(p)] = p]
    /\ Become(p, [run[p] EXCEPT !.pc = "locked"])
    /\ UNCHANGED <<source, config, closures, orphans, bounds>>

Unlocked(p) == [k \in Keys |-> IF lockOf[k] = p THEN None ELSE lockOf[k]]

\* Mutant: an invalid closure is replaced by the stage.
OnInvalidRepublished(p) ==
    /\ closures' = [closures EXCEPT ![Key(p)] =
          [tree |-> run[p].stage.tree, config |-> run[p].stage.config,
           manifest |-> run[p].stage.tree]]
    /\ Become(p, [run[p] EXCEPT !.pc = "returned", !.stage = None])

OnInvalid(p) == Become(p, Denied(p, "invalid")) /\ UNCHANGED closures

Reused(p) == [run[p] EXCEPT !.pc = "returned", !.reused = TRUE, !.stage = None]

\* destination.exists()
Reuse(p) ==
    /\ At(p, "locked")
    /\ closures[Key(p)] # None
    /\ \/ Loads(Key(p)) /\ Become(p, Reused(p)) /\ UNCHANGED closures
       \/ ~ Loads(Key(p)) /\ OnInvalid(p)
    /\ lockOf' = Unlocked(p)
    /\ UNCHANGED <<source, config, orphans, bounds>>

FindNothing(p) ==
    /\ At(p, "locked")
    /\ closures[Key(p)] = None
    /\ Become(p, [run[p] EXCEPT !.pc = "renaming"])
    /\ UNCHANGED <<source, config, closures, lockOf, orphans, bounds>>

\* stage.replace(destination): a rename onto a directory that is not empty
\* fails.
Rename(p) ==
    /\ At(p, "renaming")
    /\ IF closures[Key(p)] = None
       THEN /\ closures' = [closures EXCEPT ![Key(p)] =
                  [tree |-> run[p].stage.tree, config |-> run[p].stage.config,
                   manifest |-> run[p].stage.tree]]
            /\ Become(p, [run[p] EXCEPT !.pc = "returned", !.stage = None])
       ELSE Become(p, Denied(p, "collision")) /\ UNCHANGED closures
    /\ lockOf' = Unlocked(p)
    /\ UNCHANGED <<source, config, orphans, bounds>>

-----------------------------------------------------------------------------
(* generate_child_attestation, verify_child_attestation                     *)

\* Mutant: the manifest's own text is hashed with the payload.
PayloadWithManifest(k) == closures[k]

\* runtime_tree_sha256: the skills and the configuration.
Payload(k) == [tree |-> closures[k].tree, config |-> closures[k].config]

Attest(p) ==
    /\ At(p, "returned")
    /\ \/ /\ Loads(Key(p))
          /\ Become(p, [run[p] EXCEPT !.pc = "attested", !.attested = Payload(Key(p))])
       \/ Become(p, Denied(p, "attestation"))
    /\ UNCHANGED <<source, config, closures, lockOf, orphans, bounds>>

\* Everything the attestation binds is compared again and its nonce is
\* consumed; a stale attestation, another CLI version or a missing skill
\* denies as well.
Verify(p) ==
    /\ At(p, "attested")
    /\ \/ /\ Loads(Key(p))
          /\ run[p].attested = Payload(Key(p))
          /\ Become(p, [run[p] EXCEPT !.pc = "launched"])
       \/ Become(p, Denied(p, "verification"))
    /\ UNCHANGED <<source, config, closures, lockOf, orphans, bounds>>

\* The unit's execution is over, or the denial is recorded; the process may
\* run again.
Finish(p) ==
    /\ At(p, "launched") \/ At(p, "denied")
    /\ Become(p, Idle)
    /\ UNCHANGED <<source, config, closures, lockOf, orphans, bounds>>

-----------------------------------------------------------------------------
(* Everyone else                                                            *)

\* The user updates a file of the skill, or the parent's configuration.
Edit ==
    /\ edits < MaxEdits
    /\ \/ \E f \in Files, v \in Versions : source' = [source EXCEPT ![f] = v] /\ UNCHANGED config
       \/ \E v \in Versions : config' = v /\ UNCHANGED source
    /\ <<source, config>>' # <<source, config>>
    /\ edits' = edits + 1
    /\ UNCHANGED <<closures, lockOf, run, orphans, writes, crashes>>

\* Codex writes the configuration, or upgrades a payload, of the home it
\* runs in.
ChildWrites(p) ==
    /\ At(p, "launched")
    /\ writes < MaxWrites
    /\ \E c \in [tree : Trees, config : Versions, manifest : {closures[Key(p)].manifest}] :
          c # closures[Key(p)] /\ closures' = [closures EXCEPT ![Key(p)] = c]
    /\ writes' = writes + 1
    /\ UNCHANGED <<source, config, lockOf, run, orphans, edits, crashes>>

\* Mutant: a lock file that a dead run leaves held.
LocksAfterDeathHeld(p) == lockOf

\* The kernel drops the flock of a process that dies.
LocksAfterDeath(p) == Unlocked(p)

Crash(p) ==
    /\ crashes < MaxCrashes
    /\ run[p].pc # "idle"
    /\ orphans' = orphans + (IF run[p].stage = None THEN 0 ELSE 1)
    /\ lockOf' = LocksAfterDeath(p)
    /\ crashes' = crashes + 1
    /\ Become(p, Idle)
    /\ UNCHANGED <<source, config, closures, edits, writes>>

Step(p) ==
    \/ TakeGiven(p) \/ Prepare(p) \/ Refuse(p) \/ Probe(p) \/ Acquire(p) \/ Reuse(p) \/ FindNothing(p)
    \/ Rename(p) \/ Attest(p) \/ Verify(p) \/ Finish(p)
    \/ \E f \in Files : Copy(p, f)

Next == Edit \/ \E p \in Procs : Step(p) \/ ChildWrites(p) \/ Crash(p)

Spec == Init /\ [][Next]_vars

\* A run that started goes on: it blocks only on a lock, which a blocking
\* flock grants to a waiter again and again released.
FairSpec ==
    /\ Spec
    /\ \A p \in Procs : WF_vars(run[p].pc # "idle" /\ Step(p)) /\ SF_vars(Acquire(p))

-----------------------------------------------------------------------------
(* Properties                                                               *)

\* Two runs that prepare the same closure at once never collide at its name:
\* one publishes and the other reuses (the per-key lock of _publish_runtime).
NoCollision == \A p \in Procs : run[p].why # "collision"

\* A closure stands under the key of what its manifest declares, however the
\* sources change while they are copied: the skill of one key never comes
\* with the content of another.
KeyNamesManifest ==
    \A k \in Keys : closures[k] # None => closures[k].manifest = k.tree

\* A child is launched only with the skill tree its run asked for, whatever an
\* earlier child did to the home it reuses; and with the configuration its key
\* binds, however the parent's is edited, as long as no child has written to
\* its home: the code compares the config.toml of a closure it reuses with
\* nothing.
LaunchedAsKeyed ==
    \A p \in Procs : At(p, "launched") =>
        /\ run[p].attested.tree = Key(p).tree
        /\ writes = 0 => run[p].attested.config = Key(p).config

\* Codex Flow never replaces nor removes a closure once it is published, an
\* invalid one included: what changes in it, the child that runs in it wrote.
PublishedIsLeftAlone ==
    [][\A k \in Keys :
          closures[k] # None /\ closures'[k] # closures[k] =>
              \E p \in Procs : At(p, "launched") /\ Key(p) = k /\ run' = run]_vars

\* A run that starts preparing comes to a launch or to a denial, even when
\* another run dies inside the lock it waits for.
PreparationEnds ==
    \A p \in Procs : At(p, "keyed") ~> run[p].pc \in {"launched", "denied", "idle"}
=============================================================================
