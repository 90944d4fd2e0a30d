---------------------------- MODULE AttemptLedger ---------------------------
(***************************************************************************)
(* The ledger file of one attempt (codex_flow/attempt_ledger.py): a JSON   *)
(* snapshot with a revision, replaced as a whole under an advisory lock.   *)
(* Readers take no lock.  compare_and_set writes a record that the caller  *)
(* derived from a snapshot it read before; update merges a patch into the  *)
(* snapshot it reads under the lock.                                       *)
(*                                                                         *)
(* A record is abstracted to the set of the writes it contains: a write    *)
(* that is dropped from the file by a later one is a lost update.          *)
(***************************************************************************)
EXTENDS Integers, FiniteSets

CONSTANTS
    Clients,    \* threads and processes that use the ledger
    MaxRev,     \* bound: the revisions the file goes through
    MaxKills,   \* bound: clients killed in the middle of a call
    MaxLosses   \* bound: power losses

ASSUME LedgerBounds == MaxRev \in Nat /\ MaxKills \in Nat /\ MaxLosses \in Nat

VARIABLES
    file,       \* attempt-ledger.json, as every process sees it
    disk,       \* what of it is on disk
    holder,     \* the clients that hold the lock
    call,       \* the call every client is in
    done,       \* calls that returned a snapshot: who wrote which revision
    kills,
    losses

vars == <<file, disk, holder, call, done, kills, losses>>

\* A write is named by its client and the number of the client's call.
Calls == 1..(MaxRev + MaxKills + MaxLosses)
Writes == Clients \X Calls
Snapshot(rev, writes) == [rev |-> rev, writes |-> writes]
Missing == Snapshot(0, {})

\* A client between calls.  "number" is that of its next call, expected the
\* revision it compares with, base the record its own is derived from.
Between(n) == [pc |-> "idle", number |-> n, expected |-> 0, base |-> {}, found |-> Missing]

Init ==
    /\ file = Missing
    /\ disk = Missing
    /\ holder = {}
    /\ call = [c \in Clients |-> Between(1)]
    /\ done = {}
    /\ kills = 0
    /\ losses = 0

-----------------------------------------------------------------------------

At(c, pc) == call[c].pc = pc
Continue(c, local) == call' = [call EXCEPT ![c] = local]
Mark(c) == <<c, call[c].number>>
End(c) == Continue(c, Between(call[c].number + 1))
UnchangedFiles == UNCHANGED <<file, disk, done, kills, losses>>

\* start_attempt, or a first compare_and_set: nothing is there to derive from.
Start(c) ==
    /\ At(c, "idle")
    /\ Mark(c) \in Writes
    /\ Continue(c, [call[c] EXCEPT !.pc = "set"])
    /\ UnchangedFiles /\ UNCHANGED holder

\* load, by a caller that goes on to compare and set: adopt_attempt, and the
\* main-unit commands.
Load(c) ==
    /\ At(c, "idle")
    /\ Mark(c) \in Writes
    /\ Continue(c, [call[c] EXCEPT !.pc = "loaded", !.expected = file.rev, !.base = file.writes])
    /\ UnchangedFiles /\ UNCHANGED holder

Derive(c) ==
    /\ At(c, "loaded")
    /\ Continue(c, [call[c] EXCEPT !.pc = "set"])
    /\ UnchangedFiles /\ UNCHANGED holder

\* finalize_attempt loads the record once more, after its caller has read the
\* revision it expects.
Finalize(c) ==
    /\ At(c, "loaded")
    /\ Continue(c, [call[c] EXCEPT !.pc = "set", !.base = file.writes])
    /\ UnchangedFiles /\ UNCHANGED holder

\* update, which expects no revision.
Update(c) ==
    /\ At(c, "idle")
    /\ Mark(c) \in Writes
    /\ Continue(c, [call[c] EXCEPT !.pc = "update"])
    /\ UnchangedFiles /\ UNCHANGED holder

-----------------------------------------------------------------------------
(* Under the lock *)

\* Mutant: the lock is taken by whoever asks for it.
LockOpenly(c) ==
    /\ call[c].pc \in {"set", "update"}
    /\ c \notin holder
    /\ holder' = holder \cup {c}
    /\ UNCHANGED call
    /\ UnchangedFiles

\* _locked: the thread lock and flock; it is released when its holder dies.
Lock(c) ==
    /\ call[c].pc \in {"set", "update"}
    /\ holder = {}
    /\ holder' = {c}
    /\ UNCHANGED call
    /\ UnchangedFiles

Unlock(c) == holder' = holder \ {c}

\* The revision has changed: LedgerConflict, and nothing is written.
Conflict(c) ==
    /\ At(c, "set") /\ c \in holder
    /\ file.rev # call[c].expected
    /\ Unlock(c) /\ End(c)
    /\ UnchangedFiles

\* Mutant: the write is numbered from the revision before.
ReadOffByOne(c) ==
    /\ c \in holder /\ file.rev < MaxRev
    /\ \/ At(c, "set") /\ file.rev = call[c].expected
          /\ Continue(c, [call[c] EXCEPT !.pc = "write",
                                        !.found = Snapshot(file.rev - 1, call[c].base)])
       \/ At(c, "update") /\ Continue(c, [call[c] EXCEPT !.pc = "write", !.found = file])
    /\ UnchangedFiles /\ UNCHANGED holder

\* Mutant: compare_and_set does not compare.
ReadBlindly(c) ==
    /\ c \in holder /\ file.rev < MaxRev
    /\ \/ At(c, "set")
          /\ Continue(c, [call[c] EXCEPT !.pc = "write", !.found = Snapshot(file.rev, call[c].base)])
       \/ At(c, "update") /\ Continue(c, [call[c] EXCEPT !.pc = "write", !.found = file])
    /\ UnchangedFiles /\ UNCHANGED holder

\* The snapshot read under the lock is the one the revision is compared with,
\* or the one the patch is merged into.
Read(c) ==
    /\ c \in holder /\ file.rev < MaxRev
    /\ \/ At(c, "set") /\ file.rev = call[c].expected
          /\ Continue(c, [call[c] EXCEPT !.pc = "write", !.found = Snapshot(file.rev, call[c].base)])
       \/ At(c, "update") /\ Continue(c, [call[c] EXCEPT !.pc = "write", !.found = file])
    /\ UnchangedFiles /\ UNCHANGED holder

\* _atomic_write, up to os.replace: the temporary file was synced before.
Replace(c) ==
    /\ At(c, "write")
    /\ file' = Snapshot(call[c].found.rev + 1, call[c].found.writes \cup {Mark(c)})
    /\ Continue(c, [call[c] EXCEPT !.pc = "sync", !.found = file'])
    /\ UNCHANGED <<disk, holder, done, kills, losses>>

\* Mutant: the directory is not synced.
SyncNothing(c) ==
    /\ At(c, "sync")
    /\ Continue(c, [call[c] EXCEPT !.pc = "return"])
    /\ UNCHANGED <<file, disk, holder, done, kills, losses>>

\* fsync of the directory: the replacement is on disk.
Sync(c) ==
    /\ At(c, "sync")
    /\ disk' = file
    /\ Continue(c, [call[c] EXCEPT !.pc = "return"])
    /\ UNCHANGED <<file, holder, done, kills, losses>>

Return(c) ==
    /\ At(c, "return")
    /\ done' = done \cup {<<Mark(c), call[c].found.rev>>}
    /\ Unlock(c) /\ End(c)
    /\ UNCHANGED <<file, disk, kills, losses>>

-----------------------------------------------------------------------------
(* Failures *)

\* A client is killed; the kernel drops its lock and keeps what it replaced.
Kill(c) ==
    /\ ~At(c, "idle") /\ kills < MaxKills
    /\ kills' = kills + 1
    /\ Unlock(c) /\ End(c)
    /\ UNCHANGED <<file, disk, done, losses>>

\* The operating system writes the directory back on its own.
WriteBack ==
    /\ disk # file
    /\ disk' = file
    /\ UNCHANGED <<file, holder, call, done, kills, losses>>

\* The machine goes down: only the disk and what callers were told remain.
PowerLoss ==
    /\ losses < MaxLosses
    /\ losses' = losses + 1
    /\ file' = disk
    /\ holder' = {}
    /\ call' = [c \in Clients |-> Between(IF At(c, "idle") THEN call[c].number
                                          ELSE call[c].number + 1)]
    /\ UNCHANGED <<disk, done, kills>>

Step(c) ==
    \/ Start(c) \/ Load(c) \/ Derive(c) \/ Finalize(c) \/ Update(c)
    \/ Lock(c) \/ Conflict(c) \/ Read(c) \/ Replace(c) \/ Sync(c) \/ Return(c)

Next == WriteBack \/ PowerLoss \/ \E c \in Clients : Step(c) \/ Kill(c)

Spec == Init /\ [][Next]_vars

-----------------------------------------------------------------------------
(* Properties *)

Snapshots == [rev : Nat, writes : SUBSET Writes]
Locals == [pc : {"idle", "loaded", "set", "update", "write", "sync", "return"},
           number : Nat \ {0}, expected : Nat, base : SUBSET Writes, found : Snapshots]

\* Every variable has its type.
TypeOK ==
    /\ file \in Snapshots /\ disk \in Snapshots
    /\ holder \subseteq Clients
    /\ call \in [Clients -> Locals]
    /\ done \subseteq Writes \X Nat
    /\ kills \in 0..MaxKills /\ losses \in 0..MaxLosses

\* A write whose caller was given a snapshot is in the file and on disk for
\* good: no concurrent update or compare_and_set drops it, whatever it read
\* before it took the lock, and no power loss takes it back.
ReturnedIsKept ==
    \A d \in done : d[1] \in file.writes /\ d[1] \in disk.writes

\* Of the callers that race for a revision exactly one is given it.
OneWinner == \A d, e \in done : d[2] = e[2] => d = e

\* The ledger file behaves as a record that is written atomically and only
\* grows: no write replaces a snapshot it was not derived from.
Record == INSTANCE AttemptRecord WITH current <- file, durable <- disk
ImplementsRecord == Record!Spec
=============================================================================
