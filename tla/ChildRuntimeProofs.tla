------------------------- MODULE ChildRuntimeProofs --------------------------
(***************************************************************************)
(* What the managed child runtimes promise for every number of runs,       *)
(* files, versions, edits, writes and deaths: the lock of a key keeps two  *)
(* publications of it apart, what is published stands under the key of     *)
(* what its manifest declares and is left alone, and a child is launched   *)
(* with what its key names.                                                *)
(***************************************************************************)
EXTENDS ChildRuntime, TLAPS

USE DEF At, Key, Become

-----------------------------------------------------------------------------
(* The inductive invariant                                                  *)

\* A run that publishes holds the lock of its key, and nothing stands there
\* when it renames.
HoldsLock(p) ==
    /\ At(p, "locked") \/ At(p, "renaming") => lockOf[Key(p)] = p
    /\ At(p, "renaming") => closures[Key(p)] = None

\* A stage is there while its preparation goes on, and the key was taken of it.
HasStage(p) ==
    /\ run[p].pc \in {"copying", "keyed", "locked", "renaming"} => run[p].stage \in Stage
    /\ run[p].pc \in {"keyed", "locked", "renaming"} =>
          Key(p) = [tree |-> run[p].stage.tree, config |-> run[p].stage.config]

\* A run that was given a closure has one.
HasClosure(p) ==
    run[p].pc \in {"returned", "attested", "launched"} => closures[Key(p)] # None

\* NoCollision and LaunchedAsKeyed, for one run.
Undisturbed(p) ==
    /\ run[p].why # "collision"
    /\ At(p, "launched") =>
          /\ run[p].attested.tree = Key(p).tree
          /\ writes = 0 => run[p].attested.config = Key(p).config

Sound(p) == HoldsLock(p) /\ HasStage(p) /\ HasClosure(p) /\ Undisturbed(p)

\* Only a child changes the configuration of a closure.
ConfigKept ==
    writes = 0 => \A k \in Keys : closures[k] # None => closures[k].config = k.config

IInv == TypeOK /\ KeyNamesManifest /\ ConfigKept /\ \A p \in Procs : Sound(p)

LEMMA NoKeyType == NoKey \in Keys /\ NoKey.tree \in Trees /\ NoKey.config \in Versions
BY FirstAssumption DEF NoKey, Keys, Trees

LEMMA IdleType == Idle \in Runs
BY NoKeyType DEF Idle, Runs, Steps, Reasons

LEMMA InitIInv == Init => IInv
<1> SUFFICES ASSUME Init PROVE IInv
  OBVIOUS
<1> USE DEF Init
<1>1. TypeOK
  BY NoKeyType, IdleType, FirstAssumption, BoundsAssumption DEF TypeOK
<1>2. ASSUME NEW p \in Procs PROVE Sound(p)
  BY DEF Idle, Sound, HoldsLock, HasStage, HasClosure, Undisturbed
<1>3. ConfigKept /\ KeyNamesManifest
  BY DEF ConfigKept, KeyNamesManifest
<1> QED BY <1>1, <1>2, <1>3 DEF IInv

-----------------------------------------------------------------------------
(* Steps that change nothing but their own run                              *)

LEMMA DeniedType ==
    ASSUME TypeOK, NEW p \in Procs, NEW why \in Reasons
    PROVE  /\ Denied(p, why) \in Runs
           /\ Denied(p, why).pc = "denied" /\ Denied(p, why).why = why
BY DEF TypeOK, Denied, Runs, Steps

\* The other runs do not notice.
LEMMA Others ==
    ASSUME IInv, NEW p \in Procs, NEW local \in Runs, Become(p, local),
           UNCHANGED <<closures, lockOf, writes>>,
           NEW q \in Procs, q # p
    PROVE  Sound(q)'
<1>1. run'[q] = run[q]
  BY DEF IInv, TypeOK
<1>2. Sound(q)
  BY DEF IInv
<1> QED BY <1>1, <1>2 DEF Sound, HoldsLock, HasStage, HasClosure, Undisturbed

LEMMA LocalStep ==
    ASSUME IInv, NEW p \in Procs, NEW local \in Runs, Become(p, local),
           UNCHANGED <<source, config, closures, lockOf, orphans, bounds>>,
           Sound(p)'
    PROVE  IInv'
<1>1. TypeOK'
  BY DEF IInv, TypeOK, bounds
<1>2. ASSUME NEW q \in Procs PROVE Sound(q)'
  BY <1>2, Others DEF bounds
<1>3. ConfigKept' /\ KeyNamesManifest'
  BY DEF IInv, ConfigKept, KeyNamesManifest, bounds
<1> QED BY <1>1, <1>2, <1>3 DEF IInv

-----------------------------------------------------------------------------
(* Every step                                                               *)

LEMMA PrepareStep == ASSUME IInv, NEW p \in Procs, Prepare(p) PROVE IInv'
<1> DEFINE stage == [copied |-> {}, tree |-> NoKey.tree, config |-> config]
           local == [Idle EXCEPT !.pc = "copying", !.stage = stage]
<1>1. stage \in Stage
  BY NoKeyType DEF IInv, TypeOK, Stage
<1>2. local \in Runs
  BY <1>1, IdleType DEF Runs, Steps
<1>3. run'[p] = local
  BY DEF IInv, TypeOK, Prepare
<1>4. Sound(p)'
  BY <1>1, <1>3 DEF Idle, Sound, HoldsLock, HasStage, HasClosure, Undisturbed
<1> QED BY <1>2, <1>4, LocalStep DEF Prepare

\* A run that is denied keeps nothing that has to be sound.
LEMMA DeniedStep ==
    ASSUME IInv, NEW p \in Procs, NEW why \in Reasons \ {"collision"}, Become(p, Denied(p, why)),
           UNCHANGED <<source, config, closures, lockOf, orphans, bounds>>
    PROVE  IInv'
<1>1. run'[p] = Denied(p, why)
  BY DEF IInv, TypeOK
<1>2. Sound(p)'
  BY <1>1, DeniedType DEF IInv, Sound, HoldsLock, HasStage, HasClosure, Undisturbed
<1> QED BY <1>2, DeniedType, LocalStep DEF IInv

LEMMA RefuseStep == ASSUME IInv, NEW p \in Procs, Refuse(p) PROVE IInv'
BY DeniedStep DEF Refuse, Reasons

\* A home that is given has a closure.
LEMMA TakeGivenStep == ASSUME IInv, NEW p \in Procs, TakeGiven(p) PROVE IInv'
<1>1. CASE Become(p, Denied(p, "invalid"))
  BY <1>1, DeniedStep DEF TakeGiven, Reasons
<1>2. ASSUME NEW k \in Keys, Loads(k),
             Become(p, [Idle EXCEPT !.pc = "returned", !.key = k, !.reused = TRUE])
      PROVE  IInv'
  <2> DEFINE local == [Idle EXCEPT !.pc = "returned", !.key = k, !.reused = TRUE]
  <2>1. local \in Runs /\ local.pc = "returned" /\ local.key = k /\ local.why = "none"
    BY IdleType DEF Runs, Steps, Idle
  <2>2. run'[p] = local
    BY <1>2 DEF IInv, TypeOK
  <2>3. closures'[k] # None
    BY <1>2 DEF Loads, TakeGiven
  <2> HIDE DEF local
  <2>4. Sound(p)'
    BY <2>1, <2>2, <2>3 DEF Sound, HoldsLock, HasStage, HasClosure, Undisturbed
  <2> QED BY <1>2, <2>1, <2>4, LocalStep DEF TakeGiven, local
<1> QED BY <1>1, <1>2 DEF TakeGiven

LEMMA CopyStep == ASSUME IInv, NEW p \in Procs, NEW f \in Files, Copy(p, f) PROVE IInv'
<1> DEFINE local == [run[p] EXCEPT !.stage.copied = @ \cup {f}, !.stage.tree[f] = source[f]]
<1>1. run[p] \in Runs /\ run[p].stage \in Stage /\ run[p].pc = "copying"
  BY DEF IInv, Sound, HasStage, TypeOK, Copy
<1>2. local.stage \in Stage
  BY <1>1 DEF IInv, TypeOK, Stage, Runs, Trees
<1>3. local \in Runs
  BY <1>1, <1>2 DEF Runs
<1>4. run'[p] = local
  BY DEF IInv, TypeOK, Copy
<1>5. local.pc = "copying" /\ local.why = run[p].why
  BY <1>1 DEF Runs
<1>6. Sound(p)'
  BY <1>2, <1>4, <1>5 DEF IInv, Sound, HoldsLock, HasStage, HasClosure, Undisturbed
<1> HIDE DEF local
<1> QED BY <1>3, <1>6, LocalStep DEF Copy, local

LEMMA ProbeStep == ASSUME IInv, NEW p \in Procs, Probe(p) PROVE IInv'
<1> DEFINE local == [run[p] EXCEPT !.pc = "keyed", !.key = KeyOf(p)]
<1>1. CASE Become(p, Denied(p, "inventory"))
  BY <1>1, DeniedStep DEF Probe, Reasons
<1>2. CASE Become(p, local)
  <2>1. run[p] \in Runs /\ run[p].stage \in Stage
    BY DEF IInv, Sound, HasStage, TypeOK, Probe
  <2>2. KeyOf(p) \in Keys
    BY <2>1 DEF KeyOf, Keys, Stage
  <2>3. local \in Runs
    BY <2>1, <2>2 DEF Runs, Steps
  <2>4. run'[p] = local
    BY <1>2 DEF IInv, TypeOK
  <2>5. Sound(p)'
    BY <2>1, <2>4 DEF IInv, Sound, HoldsLock, HasStage, HasClosure, Undisturbed, Runs, KeyOf
  <2> QED BY <1>2, <2>3, <2>5, LocalStep DEF Probe
<1> QED BY <1>1, <1>2 DEF Probe

LEMMA FindNothingStep == ASSUME IInv, NEW p \in Procs, FindNothing(p) PROVE IInv'
<1> DEFINE local == [run[p] EXCEPT !.pc = "renaming"]
<1>1. local \in Runs
  BY DEF IInv, TypeOK, Runs, Steps
<1>2. run'[p] = local
  BY DEF IInv, TypeOK, FindNothing
<1>3. Sound(p)'
  BY <1>2 DEF IInv, TypeOK, Runs, FindNothing, Sound, HoldsLock, HasStage, HasClosure, Undisturbed
<1> QED BY <1>1, <1>3, LocalStep DEF FindNothing

LEMMA AttestStep == ASSUME IInv, NEW p \in Procs, Attest(p) PROVE IInv'
<1> DEFINE local == [run[p] EXCEPT !.pc = "attested", !.attested = Payload(Key(p))]
<1>1. CASE Become(p, Denied(p, "attestation"))
  BY <1>1, DeniedStep DEF Attest, Reasons
<1>2. CASE Loads(Key(p)) /\ Become(p, local)
  <2>1. run[p] \in Runs /\ Key(p) \in Keys /\ closures[Key(p)] \in Closure
    BY <1>2 DEF IInv, TypeOK, Runs, Loads
  <2>2. local \in Runs
    BY <2>1 DEF Runs, Steps, Payload, Closure, Keys
  <2>3. run'[p] = local
    BY <1>2 DEF IInv, TypeOK
  <2>4. Sound(p) /\ UNCHANGED closures /\ closures[Key(p)] # None
    BY <1>2 DEF IInv, Attest, Loads
  <2>5. local.pc = "attested" /\ local.key = run[p].key /\ local.why = run[p].why
    BY <2>1 DEF Runs
  <2> HIDE DEF local
  <2>6. Sound(p)'
    BY <2>3, <2>4, <2>5 DEF Sound, HoldsLock, HasStage, HasClosure, Undisturbed
  <2> QED BY <1>2, <2>2, <2>6, LocalStep DEF Attest, local
<1> QED BY <1>1, <1>2 DEF Attest

\* What the attestation names is what the closure declares, which is the key.
LEMMA VerifyStep == ASSUME IInv, NEW p \in Procs, Verify(p) PROVE IInv'
<1> DEFINE local == [run[p] EXCEPT !.pc = "launched"]
<1>1. CASE Become(p, Denied(p, "verification"))
  BY <1>1, DeniedStep DEF Verify, Reasons
<1>2. CASE Loads(Key(p)) /\ run[p].attested = Payload(Key(p)) /\ Become(p, local)
  <2>1. run[p] \in Runs /\ Key(p) \in Keys
    BY DEF IInv, TypeOK, Runs
  <2>2. local \in Runs
    BY <2>1 DEF Runs, Steps
  <2>3. run'[p] = local
    BY <1>2 DEF IInv, TypeOK
  <2>4. /\ run[p].attested.tree = Key(p).tree
        /\ writes = 0 => run[p].attested.config = Key(p).config
    BY <1>2, <2>1 DEF IInv, Loads, Payload, KeyNamesManifest, ConfigKept
  <2>5. Sound(p) /\ UNCHANGED <<closures, writes>> /\ closures[Key(p)] # None
    BY <1>2 DEF IInv, Verify, Loads, bounds
  <2>6. /\ local.pc = "launched" /\ local.key = run[p].key
        /\ local.why = run[p].why /\ local.attested = run[p].attested
    BY <2>1 DEF Runs
  <2> HIDE DEF local
  <2>7. Sound(p)'
    BY <2>3, <2>4, <2>5, <2>6 DEF Sound, HoldsLock, HasStage, HasClosure, Undisturbed
  <2> QED BY <1>2, <2>2, <2>7, LocalStep DEF Verify, local
<1> QED BY <1>1, <1>2 DEF Verify

LEMMA FinishStep == ASSUME IInv, NEW p \in Procs, Finish(p) PROVE IInv'
<1>1. run'[p] = Idle
  BY DEF IInv, TypeOK, Finish
<1>2. Sound(p)'
  BY <1>1 DEF Idle, Sound, HoldsLock, HasStage, HasClosure, Undisturbed
<1> QED BY <1>2, IdleType, LocalStep DEF Finish

-----------------------------------------------------------------------------
(* The lock, the rename and everyone else                                   *)

\* A lock that is taken was free: nobody who relies on it held it.
LEMMA AcquireStep == ASSUME IInv, NEW p \in Procs, Acquire(p) PROVE IInv'
<1> DEFINE local == [run[p] EXCEPT !.pc = "locked"]
<1> USE DEF IInv, TypeOK, Acquire, Acquirable, bounds
<1>1. local \in Runs /\ run'[p] = local /\ Key(p) \in Keys
  BY DEF Runs, Steps
<1>2. \A q \in Procs : q # p => run'[q] = run[q]
  OBVIOUS
<1>3. TypeOK'
  BY <1>1
<1>4. ASSUME NEW q \in Procs, q # p PROVE Sound(q)'
  <2>1. Sound(q) /\ run'[q] = run[q] /\ Key(q) \in Keys /\ q # None
    BY <1>2, <1>4, NoneAssumption DEF Runs
  <2>2. lockOf[Key(q)] = q => lockOf'[Key(q)] = q
    BY <1>1, <2>1
  <2> QED BY <2>1, <2>2 DEF Sound, HoldsLock, HasStage, HasClosure, Undisturbed
<1>5. Sound(p)'
  <2>1. lockOf'[Key(p)] = p
    BY <1>1
  <2> QED BY <1>1, <2>1 DEF Runs, Sound, HoldsLock, HasStage, HasClosure, Undisturbed
<1>6. ConfigKept' /\ KeyNamesManifest'
  BY DEF ConfigKept, KeyNamesManifest
<1> QED BY <1>3, <1>4, <1>5, <1>6

\* Releasing what p holds takes no lock from another run.
LEMMA UnlockedKeeps ==
    ASSUME TypeOK, NEW p \in Procs
    PROVE  /\ Unlocked(p) \in [Keys -> Procs \cup {None}]
           /\ \A q \in Procs, k \in Keys : q # p /\ lockOf[k] = q => Unlocked(p)[k] = q
BY DEF TypeOK, Unlocked

\* A run that lets go of its lock and changes no closure.
LEMMA UnlockStep ==
    ASSUME IInv, NEW p \in Procs, NEW local \in Runs, Become(p, local), lockOf' = Unlocked(p),
           UNCHANGED <<source, config, closures, edits, writes>>, TypeOK',
           local.pc \in {"returned", "denied", "idle"}, local.why # "collision",
           local.pc = "returned" => closures[local.key] # None
    PROVE  IInv'
<1>1. run'[p] = local /\ \A q \in Procs : q # p => run'[q] = run[q]
  BY DEF IInv, TypeOK
<1>2. ASSUME NEW q \in Procs, q # p PROVE Sound(q)'
  <2>1. Sound(q) /\ run'[q] = run[q] /\ Key(q) \in Keys
    BY <1>1, <1>2 DEF IInv, TypeOK, Runs
  <2>2. lockOf[Key(q)] = q => lockOf'[Key(q)] = q
    BY <1>2, <2>1, UnlockedKeeps DEF IInv
  <2> QED BY <2>1, <2>2 DEF Sound, HoldsLock, HasStage, HasClosure, Undisturbed
<1>3. Sound(p)'
  BY <1>1 DEF Sound, HoldsLock, HasStage, HasClosure, Undisturbed
<1>4. ConfigKept' /\ KeyNamesManifest'
  BY DEF IInv, ConfigKept, KeyNamesManifest
<1> QED BY <1>2, <1>3, <1>4 DEF IInv

LEMMA ReuseStep == ASSUME IInv, NEW p \in Procs, Reuse(p) PROVE IInv'
<1>1. run[p] \in Runs /\ closures[run[p].key] # None
  BY DEF IInv, TypeOK, Reuse
<1>2. Unlocked(p) \in [Keys -> Procs \cup {None}]
  BY UnlockedKeeps DEF IInv
<1>3. CASE Become(p, Reused(p)) /\ UNCHANGED closures
  <2>1. /\ Reused(p) \in Runs /\ Reused(p).pc = "returned" /\ Reused(p).key = run[p].key
        /\ Reused(p).why = run[p].why
    BY <1>1 DEF Reused, Runs, Steps
  <2>2. TypeOK'
    BY <1>2, <1>3, <2>1 DEF IInv, TypeOK, Reuse, bounds
  <2>3. Reused(p).why # "collision"
    BY <2>1 DEF IInv, Sound, Undisturbed
  <2> QED BY <1>1, <1>3, <2>1, <2>2, <2>3, UnlockStep DEF Reuse, bounds
<1>4. CASE OnInvalid(p)
  <2>1. /\ Denied(p, "invalid") \in Runs /\ Denied(p, "invalid").pc = "denied"
        /\ Denied(p, "invalid").why = "invalid"
    BY DeniedType DEF IInv, Reasons
  <2>2. TypeOK'
    BY <1>2, <1>4, <2>1 DEF IInv, TypeOK, Reuse, OnInvalid, bounds
  <2> QED BY <1>4, <2>1, <2>2, UnlockStep DEF Reuse, OnInvalid, bounds
<1> QED BY <1>3, <1>4 DEF Reuse

LEMMA CrashStep == ASSUME IInv, NEW p \in Procs, Crash(p) PROVE IInv'
<1>1. Unlocked(p) \in [Keys -> Procs \cup {None}]
  BY UnlockedKeeps DEF IInv
<1>2. TypeOK'
  BY <1>1, IdleType, BoundsAssumption DEF IInv, TypeOK, Crash, LocksAfterDeath
<1>3. Idle.pc = "idle" /\ Idle.why # "collision"
  BY DEF Idle
<1> QED BY <1>2, <1>3, IdleType, UnlockStep DEF Crash, LocksAfterDeath

\* Nobody else publishes: the name that p renames to is free, and stays free
\* of everybody who does not hold its lock.
LEMMA RenameStep == ASSUME IInv, NEW p \in Procs, Rename(p) PROVE IInv'
<1> DEFINE closure == [tree |-> run[p].stage.tree, config |-> run[p].stage.config,
                       manifest |-> run[p].stage.tree]
           local == [run[p] EXCEPT !.pc = "returned", !.stage = None]
<1>1. /\ run[p] \in Runs /\ Key(p) \in Keys /\ run[p].stage \in Stage
      /\ closures[Key(p)] = None /\ lockOf[Key(p)] = p
      /\ Key(p).tree = run[p].stage.tree /\ Key(p).config = run[p].stage.config
      /\ run[p].why # "collision"
  <2>1. run[p] \in Runs /\ Key(p) \in Keys /\ Sound(p) /\ run[p].pc = "renaming"
    BY DEF IInv, TypeOK, Runs, Rename
  <2>2. Key(p) = [tree |-> run[p].stage.tree, config |-> run[p].stage.config]
    BY <2>1 DEF Sound, HasStage
  <2>3. Key(p).tree = run[p].stage.tree /\ Key(p).config = run[p].stage.config
    BY ONLY <2>2 DEF Key
  <2> QED BY <2>1, <2>3 DEF Sound, HoldsLock, HasStage, Undisturbed
<1>2. /\ closures' = [closures EXCEPT ![Key(p)] = closure] /\ Become(p, local)
      /\ lockOf' = Unlocked(p) /\ UNCHANGED <<source, config, orphans, bounds>>
  BY <1>1 DEF Rename
<1>3. closure \in Closure /\ closure # None
  <2>1. closure \in [tree : Trees, config : Versions, manifest : Trees]
    BY <1>1 DEF Stage
  <2> QED BY <2>1, NoneAssumption DEF Closure, Trees
<1>4. local \in Runs /\ local.pc = "returned" /\ local.key = run[p].key /\ local.why = run[p].why
  BY <1>1 DEF Runs, Steps
<1>5. closure.tree = Key(p).tree /\ closure.config = Key(p).config /\ closure.manifest = Key(p).tree
  BY <1>1
<1> HIDE DEF closure, local
<1>6. TypeOK'
  BY <1>1, <1>2, <1>3, <1>4, UnlockedKeeps DEF IInv, TypeOK, bounds
<1>7. ASSUME NEW q \in Procs, q # p PROVE Sound(q)'
  <2>1. Sound(q) /\ run'[q] = run[q] /\ Key(q) \in Keys
    BY <1>2, <1>7 DEF IInv, TypeOK, Runs
  <2>2. lockOf[Key(q)] = q => lockOf'[Key(q)] = q /\ Key(q) # Key(p)
    BY <1>1, <1>2, <1>7, <2>1, UnlockedKeeps DEF IInv
  <2>3. /\ Key(q) # Key(p) => closures'[Key(q)] = closures[Key(q)]
        /\ closures[Key(q)] # None => closures'[Key(q)] # None
    BY <1>1, <1>2, <1>3, <2>1 DEF IInv, TypeOK
  <2> QED BY <1>2, <2>1, <2>2, <2>3 DEF Sound, HoldsLock, HasStage, HasClosure, Undisturbed, bounds
<1>8. Sound(p)'
  <2>1. run'[p] = local /\ closures'[run[p].key] = closure
    BY <1>1, <1>2 DEF IInv, TypeOK
  <2> QED BY <1>1, <1>3, <1>4, <2>1 DEF Sound, HoldsLock, HasStage, HasClosure, Undisturbed
<1>9. ConfigKept' /\ KeyNamesManifest'
  BY <1>1, <1>2, <1>5 DEF IInv, TypeOK, ConfigKept, KeyNamesManifest, bounds
<1> QED BY <1>6, <1>7, <1>8, <1>9 DEF IInv

LEMMA EditStep == ASSUME IInv, Edit PROVE IInv'
<1> USE DEF Edit
<1>1. TypeOK'
  <2>1. source' \in Trees /\ config' \in Versions
    BY DEF IInv, TypeOK, Trees
  <2>2. edits' \in 0..MaxEdits
    BY BoundsAssumption DEF IInv, TypeOK
  <2> QED BY <2>1, <2>2 DEF IInv, TypeOK
<1>2. ASSUME NEW p \in Procs PROVE Sound(p)'
  BY DEF IInv, Sound, HoldsLock, HasStage, HasClosure, Undisturbed
<1>3. ConfigKept' /\ KeyNamesManifest'
  BY DEF IInv, ConfigKept, KeyNamesManifest
<1> QED BY <1>1, <1>2, <1>3 DEF IInv

\* A child writes where its closure stands: not where a run is about to
\* publish, and not into the manifest.
LEMMA ChildWritesStep == ASSUME IInv, NEW p \in Procs, ChildWrites(p) PROVE IInv'
<1>1. /\ Key(p) \in Keys /\ closures[Key(p)] \in Closure /\ closures[Key(p)] # None
      /\ writes \in Nat
  BY DEF IInv, TypeOK, Runs, ChildWrites, Sound, HasClosure
<1>2. PICK c \in [tree : Trees, config : Versions, manifest : {closures[Key(p)].manifest}] :
          closures' = [closures EXCEPT ![Key(p)] = c]
  BY DEF ChildWrites
<1>3. /\ c \in [tree : Trees, config : Versions, manifest : Trees]
      /\ c.manifest = closures[Key(p)].manifest
  BY <1>1, <1>2 DEF Closure
<1>4. c \in Closure /\ c # None
  BY <1>3, NoneAssumption DEF Closure, Trees
<1>5. \A k \in Keys : closures[k] # None <=> closures'[k] # None
  BY <1>1, <1>2, <1>4 DEF IInv, TypeOK
<1>6. writes' = writes + 1 /\ writes' # 0
  BY <1>1 DEF ChildWrites
<1>7. TypeOK'
  <2>1. closures' \in [Keys -> Closure \cup {None}]
    BY <1>2, <1>4 DEF IInv, TypeOK
  <2>2. writes' \in 0..MaxWrites
    BY <1>6, BoundsAssumption DEF IInv, TypeOK, ChildWrites
  <2> QED BY <2>1, <2>2 DEF IInv, TypeOK, ChildWrites
<1>8. ASSUME NEW q \in Procs PROVE Sound(q)'
  <2>1. Sound(q) /\ Key(q) \in Keys /\ UNCHANGED <<run, lockOf>>
    BY DEF IInv, TypeOK, Runs, ChildWrites
  <2> QED BY <1>5, <1>6, <2>1 DEF Sound, HoldsLock, HasStage, HasClosure, Undisturbed
<1>9. KeyNamesManifest'
  BY <1>1, <1>2, <1>3 DEF IInv, TypeOK, KeyNamesManifest
<1>10. ConfigKept'
  BY <1>6 DEF ConfigKept
<1> QED BY <1>7, <1>8, <1>9, <1>10 DEF IInv

LEMMA NextIInv == IInv /\ [Next]_vars => IInv'
<1> SUFFICES ASSUME IInv, [Next]_vars PROVE IInv'
  OBVIOUS
<1>1. CASE Edit
  BY <1>1, EditStep
<1>2. ASSUME NEW p \in Procs, Step(p) \/ ChildWrites(p) \/ Crash(p) PROVE IInv'
  BY <1>2, TakeGivenStep, PrepareStep, RefuseStep, CopyStep, ProbeStep, AcquireStep, ReuseStep,
     FindNothingStep, RenameStep, AttestStep, VerifyStep, FinishStep, ChildWritesStep, CrashStep
     DEF Step
<1>3. CASE UNCHANGED vars
  <2>1. TypeOK' /\ KeyNamesManifest' /\ ConfigKept'
    BY <1>3 DEF vars, IInv, TypeOK, KeyNamesManifest, ConfigKept
  <2>2. ASSUME NEW p \in Procs PROVE Sound(p)'
    BY <1>3 DEF vars, IInv, Sound, HoldsLock, HasStage, HasClosure, Undisturbed
  <2> QED BY <2>1, <2>2 DEF IInv
<1> QED BY <1>1, <1>2, <1>3 DEF Next

-----------------------------------------------------------------------------
(* What it means                                                            *)

\* Every run, closure and lock keeps its type.
THEOREM TypeCorrect == Spec => []TypeOK
<1>1. IInv => TypeOK
  BY DEF IInv
<1> QED BY <1>1, InitIInv, NextIInv, PTL DEF Spec

\* The per-key lock of _publish_runtime keeps two publications apart: a rename
\* never finds its name taken.
THEOREM NeverCollides == Spec => []NoCollision
<1>1. IInv => NoCollision
  BY DEF IInv, Sound, Undisturbed, NoCollision
<1> QED BY <1>1, InitIInv, NextIInv, PTL DEF Spec

\* What is published stands under the key of what its manifest declares,
\* however the sources were edited while they were copied.
THEOREM KeysNameManifests == Spec => []KeyNamesManifest
<1>1. IInv => KeyNamesManifest
  BY DEF IInv
<1> QED BY <1>1, InitIInv, NextIInv, PTL DEF Spec

\* A child is launched with the skills its key names, and with its
\* configuration until a child has written one.
THEOREM ChildrenAreLaunchedAsKeyed == Spec => []LaunchedAsKeyed
<1>1. IInv => LaunchedAsKeyed
  BY DEF IInv, Sound, Undisturbed, LaunchedAsKeyed
<1> QED BY <1>1, InitIInv, NextIInv, PTL DEF Spec

\* A published closure is neither replaced nor removed: it changes only by
\* what the child that runs in it writes.
THEOREM PublishedStays == Spec => PublishedIsLeftAlone
<1> DEFINE Kept ==
        \A k \in Keys :
            closures[k] # None /\ closures'[k] # closures[k] =>
                \E p \in Procs : At(p, "launched") /\ Key(p) = k /\ run' = run
<1>1. TypeOK /\ Next => Kept
  <2> SUFFICES ASSUME TypeOK, Next PROVE Kept
    OBVIOUS
  <2>1. ASSUME NEW p \in Procs, Rename(p) PROVE Kept
    BY <2>1 DEF Rename, TypeOK, Runs
  <2>2. ASSUME NEW p \in Procs, ChildWrites(p) PROVE Kept
    BY <2>2 DEF ChildWrites, TypeOK, Runs
  <2>3. CASE UNCHANGED closures
    BY <2>3
  <2>4. ASSUME NEW p \in Procs, Step(p), ~ Rename(p) PROVE UNCHANGED closures
    BY <2>4 DEF Step, TakeGiven, Prepare, Refuse, Copy, Probe, Acquire, Reuse, OnInvalid, FindNothing,
                Attest, Verify, Finish
  <2> QED BY <2>1, <2>2, <2>3, <2>4 DEF Next, Edit, Crash
<1>2. IInv /\ [Next]_vars => [Kept]_vars
  BY <1>1 DEF IInv
<1> QED BY <1>2, InitIInv, NextIInv, PTL DEF Spec, PublishedIsLeftAlone
=============================================================================
