------------------------- MODULE AttemptLedgerProofs -------------------------
(***************************************************************************)
(* What a ledger file promises for every number of clients, calls, kills   *)
(* and power losses: it implements the record that only grows              *)
(* (AttemptRecord), keeps what a caller was told, and gives a revision to  *)
(* one caller.                                                             *)
(***************************************************************************)
EXTENDS AttemptLedger, TLAPS

USE DEF At, Continue, Mark

-----------------------------------------------------------------------------
(* The inductive invariant                                                  *)

\* A client in the middle of a call has a number for its write.
NumberInv == \A c \in Clients : ~At(c, "idle") => call[c].number \in Calls

\* One client at a time is past the lock.
LockInv ==
    /\ \A c, d \in holder : c = d
    /\ \A c \in Clients : call[c].pc \in {"write", "sync", "return"} => c \in holder

\* What a client derives its record from is older than the file, or is the
\* file; at first it is nothing.
Based(c) ==
    /\ At(c, "idle") => call[c].expected = 0 /\ call[c].base = {}
    /\ call[c].pc \in {"loaded", "set"} =>
          /\ call[c].expected <= file.rev
          /\ call[c].expected = file.rev => call[c].base = file.writes

\* What the holder of the lock read or wrote is what stands there.
Current(c) ==
    /\ call[c].pc \in {"write", "sync", "return"} => call[c].found = file
    /\ At(c, "return") => disk = file
    /\ call[c].pc \in {"sync", "return"} =>
          Mark(c) \in file.writes /\ \A d \in done : d[2] < file.rev

\* Every write of a client is from an earlier call, or from the one under way.
NumberedInv ==
    \A c \in Clients, n \in Calls :
        <<c, n>> \in file.writes =>
            /\ n <= call[c].number
            /\ n = call[c].number => call[c].pc \in {"sync", "return"}

\* The disk is behind the file, and what was returned is on it.
FilesInv ==
    /\ disk.rev <= file.rev /\ disk.writes \subseteq file.writes
    /\ file.rev = 0 => file.writes = {}
    /\ disk.rev = 0 => disk.writes = {}
    /\ \A d \in done : d[1] \in disk.writes /\ d[2] <= disk.rev

IInv ==
    /\ TypeOK /\ NumberInv /\ LockInv /\ NumberedInv /\ FilesInv /\ OneWinner
    /\ \A c \in Clients : Based(c) /\ Current(c)

LEMMA MissingType == Missing \in Snapshots /\ Missing.rev = 0 /\ Missing.writes = {}
BY DEF Missing, Snapshot, Snapshots

LEMMA BetweenType ==
    ASSUME NEW n \in Nat \ {0}
    PROVE  /\ Between(n) \in Locals /\ Between(n).pc = "idle" /\ Between(n).number = n
           /\ Between(n).expected = 0 /\ Between(n).base = {}
BY MissingType DEF Between, Locals

LEMMA InitIInv == Init => IInv
<1> SUFFICES ASSUME Init PROVE IInv
  OBVIOUS
<1> USE DEF Init
<1>1. /\ Between(1) \in Locals /\ Between(1).pc = "idle" /\ Between(1).number = 1
      /\ Between(1).expected = 0 /\ Between(1).base = {}
  BY BetweenType
<1>2. TypeOK
  BY <1>1, MissingType, LedgerBounds DEF TypeOK
<1>3. NumberInv /\ LockInv
  BY <1>1 DEF NumberInv, LockInv
<1>4. NumberedInv /\ FilesInv /\ OneWinner
  BY MissingType DEF NumberedInv, FilesInv, OneWinner
<1>5. ASSUME NEW c \in Clients PROVE Based(c) /\ Current(c)
  BY <1>1 DEF Based, Current
<1> QED BY <1>2, <1>3, <1>4, <1>5 DEF IInv

-----------------------------------------------------------------------------
(* Steps that leave the files alone                                         *)

\* A step of one client between its calls and the lock.
LEMMA LocalStep ==
    ASSUME IInv, NEW c \in Clients, NEW local \in Locals, Continue(c, local),
           UnchangedFiles, UNCHANGED holder,
           local.number = call[c].number, local.pc # "idle", call[c].number \in Calls,
           local.pc \in {"write", "sync", "return"} => c \in holder,
           call[c].pc \notin {"sync", "return"},
           local.pc \in {"loaded", "set"} =>
               /\ local.expected <= file.rev
               /\ local.expected = file.rev => local.base = file.writes,
           local.pc = "write" => local.found = file,
           local.pc \notin {"sync", "return"}
    PROVE  IInv'
<1> USE DEF UnchangedFiles
<1>1. call'[c] = local /\ \A d \in Clients : d # c => call'[d] = call[d]
  BY DEF IInv, TypeOK
<1>2. TypeOK'
  BY DEF IInv, TypeOK
<1>3. NumberInv' /\ LockInv'
  BY <1>1 DEF IInv, NumberInv, LockInv
<1>4. NumberedInv' /\ FilesInv' /\ OneWinner'
  BY <1>1 DEF IInv, NumberedInv, FilesInv, OneWinner
<1>5. ASSUME NEW d \in Clients PROVE (Based(d) /\ Current(d))'
  BY <1>1 DEF IInv, Based, Current
<1> QED BY <1>2, <1>3, <1>4, <1>5 DEF IInv

LEMMA CallType == ASSUME IInv, NEW c \in Clients PROVE call[c] \in Locals
BY DEF IInv, TypeOK

LEMMA MarkNumber ==
    ASSUME IInv, NEW c \in Clients, Mark(c) \in Writes
    PROVE  call[c].number \in Calls
BY DEF Writes

LEMMA StartStep == ASSUME IInv, NEW c \in Clients, Start(c) PROVE IInv'
<1> DEFINE local == [call[c] EXCEPT !.pc = "set"]
<1>1. /\ local \in Locals /\ local.pc = "set" /\ local.number = call[c].number
      /\ local.expected = 0 /\ local.base = {}
  BY CallType DEF Start, Locals, IInv, Based
<1>2. 0 <= file.rev /\ (0 = file.rev => {} = file.writes)
  BY DEF IInv, TypeOK, Snapshots, FilesInv
<1> HIDE DEF local
<1> QED BY <1>1, <1>2, MarkNumber, LocalStep DEF Start, local

LEMMA LoadStep == ASSUME IInv, NEW c \in Clients, Load(c) PROVE IInv'
<1> DEFINE local == [call[c] EXCEPT !.pc = "loaded", !.expected = file.rev, !.base = file.writes]
<1>1. file \in Snapshots /\ file.rev \in Nat /\ file.writes \subseteq Writes
  BY DEF IInv, TypeOK, Snapshots
<1>2. /\ local \in Locals /\ local.pc = "loaded" /\ local.number = call[c].number
      /\ local.expected = file.rev /\ local.base = file.writes
  BY <1>1, CallType DEF Locals
<1>3. call[c].number \in Calls
  BY MarkNumber DEF Load
<1>4. /\ local.expected <= file.rev
      /\ local.expected = file.rev => local.base = file.writes
  BY <1>1, <1>2
<1>5. Continue(c, local) /\ UnchangedFiles /\ UNCHANGED holder /\ At(c, "idle")
  BY DEF Load
<1> HIDE DEF local
<1> QED BY <1>2, <1>3, <1>4, <1>5, LocalStep

LEMMA DeriveStep == ASSUME IInv, NEW c \in Clients, Derive(c) PROVE IInv'
<1> DEFINE local == [call[c] EXCEPT !.pc = "set"]
<1>1. /\ local \in Locals /\ local.pc = "set" /\ local.number = call[c].number
      /\ local.expected = call[c].expected /\ local.base = call[c].base
  BY CallType DEF Locals
<1>2. call[c].number \in Calls /\ Based(c)
  BY DEF IInv, NumberInv, Derive
<1> HIDE DEF local
<1> QED BY <1>1, <1>2, LocalStep DEF Derive, Based, local

LEMMA FinalizeStep == ASSUME IInv, NEW c \in Clients, Finalize(c) PROVE IInv'
<1> DEFINE local == [call[c] EXCEPT !.pc = "set", !.base = file.writes]
<1>1. file.writes \subseteq Writes
  BY DEF IInv, TypeOK, Snapshots
<1>2. /\ local \in Locals /\ local.pc = "set" /\ local.number = call[c].number
      /\ local.expected = call[c].expected /\ local.base = file.writes
  BY <1>1, CallType DEF Locals
<1>3. call[c].number \in Calls /\ Based(c)
  BY DEF IInv, NumberInv, Finalize
<1> HIDE DEF local
<1> QED BY <1>2, <1>3, LocalStep DEF Finalize, Based, local

LEMMA UpdateStep == ASSUME IInv, NEW c \in Clients, Update(c) PROVE IInv'
<1> DEFINE local == [call[c] EXCEPT !.pc = "update"]
<1>1. local \in Locals /\ local.pc = "update" /\ local.number = call[c].number
  BY CallType DEF Locals
<1> HIDE DEF local
<1> QED BY <1>1, MarkNumber, LocalStep DEF Update, local

\* What the holder goes on with is the file: compare_and_set has compared the
\* revision, and update has read it.
LEMMA ReadStep == ASSUME IInv, NEW c \in Clients, Read(c) PROVE IInv'
<1>1. file \in Snapshots /\ file = [rev |-> file.rev, writes |-> file.writes]
  BY DEF IInv, TypeOK, Snapshots
<1>2. call[c].number \in Calls
  BY DEF IInv, NumberInv, Read
<1>3. PICK found \in Snapshots :
          /\ Continue(c, [call[c] EXCEPT !.pc = "write", !.found = found])
          /\ found = file
  <2>1. CASE At(c, "set") /\ file.rev = call[c].expected
    <3>1. call[c].base = file.writes
      BY <2>1 DEF IInv, Based
    <3>2. Snapshot(file.rev, call[c].base) = file
      BY <1>1, <3>1 DEF Snapshot
    <3> QED BY <1>1, <2>1, <3>2 DEF Read
  <2>2. CASE At(c, "update")
    BY <1>1, <2>2 DEF Read
  <2> QED BY <2>1, <2>2 DEF Read
<1> DEFINE local == [call[c] EXCEPT !.pc = "write", !.found = found]
<1>4. /\ local \in Locals /\ local.pc = "write" /\ local.number = call[c].number
      /\ local.found = file
  BY <1>3, CallType DEF Locals
<1>5. c \in holder /\ call[c].pc \notin {"sync", "return"} /\ UnchangedFiles /\ UNCHANGED holder
  BY DEF Read
<1>6. Continue(c, local)
  BY <1>3
<1> HIDE DEF local
<1> QED BY <1>2, <1>4, <1>5, <1>6, LocalStep

-----------------------------------------------------------------------------
(* The lock                                                                 *)

LEMMA LockStep == ASSUME IInv, NEW c \in Clients, Lock(c) PROVE IInv'
<1> USE DEF Lock, UnchangedFiles
<1>1. TypeOK'
  BY DEF IInv, TypeOK
<1>2. NumberInv' /\ LockInv'
  BY DEF IInv, NumberInv, LockInv
<1>3. NumberedInv' /\ FilesInv' /\ OneWinner'
  BY DEF IInv, NumberedInv, FilesInv, OneWinner
<1>4. ASSUME NEW d \in Clients PROVE (Based(d) /\ Current(d))'
  BY DEF IInv, Based, Current
<1> QED BY <1>1, <1>2, <1>3, <1>4 DEF IInv

\* A call that ends, with or without a snapshot: its number is used up.
LEMMA EndStep ==
    ASSUME IInv, NEW c \in Clients, End(c), Unlock(c), UNCHANGED <<file, disk>>,
           done' \subseteq Writes \X Nat,
           kills' \in 0..MaxKills, losses' \in 0..MaxLosses,
           \A d \in done' : d[1] \in disk.writes /\ d[2] <= disk.rev,
           \A d, e \in done' : d[2] = e[2] => d = e,
           c \in holder \/ done' = done
    PROVE  IInv'
<1> DEFINE n == call[c].number + 1
<1>1. call[c] \in Locals /\ call[c].number \in Nat \ {0}
  BY CallType DEF Locals
<1>2. n \in Nat \ {0}
  BY <1>1
<1>3. /\ Between(n) \in Locals /\ Between(n).pc = "idle" /\ Between(n).number = n
      /\ Between(n).expected = 0 /\ Between(n).base = {}
  BY <1>2, BetweenType
<1>4. call'[c] = Between(n) /\ \A d \in Clients : d # c => call'[d] = call[d]
  BY DEF IInv, TypeOK, End
<1>5. TypeOK'
  BY <1>3 DEF IInv, TypeOK, End, Unlock
<1>6. NumberInv' /\ LockInv'
  BY <1>3, <1>4 DEF IInv, NumberInv, LockInv, Unlock
<1>7. NumberedInv'
  <2> SUFFICES ASSUME NEW d \in Clients, NEW m \in Calls, <<d, m>> \in file.writes
               PROVE  /\ m <= call'[d].number
                      /\ m = call'[d].number => call'[d].pc \in {"sync", "return"}
    BY DEF NumberedInv
  <2>1. m <= call[d].number /\ (m = call[d].number => call[d].pc \in {"sync", "return"})
    BY DEF IInv, NumberedInv
  <2>2. CASE d = c
    <3>1. m <= call[c].number /\ m \in Nat
      BY <2>1, <2>2 DEF Calls
    <3>2. m <= n /\ m # n
      BY <1>1, <3>1
    <3> QED BY <1>3, <1>4, <2>2, <3>2
  <2> QED BY <1>4, <2>1, <2>2
<1>8. FilesInv' /\ OneWinner'
  BY DEF IInv, FilesInv, OneWinner
<1>9. ASSUME NEW d \in Clients PROVE (Based(d) /\ Current(d))'
  <2>1. CASE d = c
    BY <1>3, <1>4, <2>1 DEF Based, Current
  <2>2. CASE d # c
    <3>1. Based(d) /\ Current(d) /\ call'[d] = call[d]
      BY <1>4, <2>2 DEF IInv
    <3>2. call[d].pc \in {"sync", "return"} => done' = done
      BY <2>2 DEF IInv, LockInv
    <3> QED BY <3>1, <3>2 DEF Based, Current
  <2> QED BY <2>1, <2>2
<1> QED BY <1>5, <1>6, <1>7, <1>8, <1>9 DEF IInv

LEMMA ConflictStep == ASSUME IInv, NEW c \in Clients, Conflict(c) PROVE IInv'
BY EndStep DEF IInv, TypeOK, FilesInv, OneWinner, Conflict, UnchangedFiles

LEMMA KillStep == ASSUME IInv, NEW c \in Clients, Kill(c) PROVE IInv'
<1>1. kills' \in 0..MaxKills
  BY LedgerBounds DEF IInv, TypeOK, Kill
<1> QED BY <1>1, EndStep DEF IInv, TypeOK, FilesInv, OneWinner, Kill

\* What is returned is on disk, and later than everything returned before.
LEMMA ReturnStep == ASSUME IInv, NEW c \in Clients, Return(c) PROVE IInv'
<1> DEFINE new == <<Mark(c), call[c].found.rev>>
<1>1. /\ Mark(c) \in disk.writes /\ call[c].found.rev = file.rev /\ disk = file
      /\ \A d \in done : d[2] < file.rev
  BY DEF IInv, Current, Return
<1>2. file \in Snapshots /\ c \in holder
  BY DEF IInv, TypeOK, LockInv, Return
<1>3. new \in Writes \X Nat /\ new[1] \in disk.writes /\ new[2] = disk.rev
  BY <1>1, <1>2 DEF Snapshots
<1>4. \A d \in done : d[1] \in disk.writes /\ d[2] <= disk.rev
  BY DEF IInv, FilesInv
<1>5. done \subseteq Writes \X Nat /\ disk.rev \in Nat
  BY DEF IInv, TypeOK, Snapshots
<1>6. \A d \in done : d[2] # new[2]
  BY <1>1, <1>3, <1>5
<1>7. done' = done \cup {new}
  BY DEF Return
<1> HIDE DEF new
<1>8. \A d \in done' : d[1] \in disk.writes /\ d[2] <= disk.rev
  BY <1>3, <1>4, <1>5, <1>7
<1>9. \A d, e \in done' : d[2] = e[2] => d = e
  BY <1>6, <1>7 DEF IInv, OneWinner
<1> QED BY <1>2, <1>3, <1>5, <1>7, <1>8, <1>9, EndStep DEF Return, IInv, TypeOK

-----------------------------------------------------------------------------
(* The file and the disk                                                    *)

\* The replacement follows the file, and carries one write more.
LEMMA ReplaceStep == ASSUME IInv, NEW c \in Clients, Replace(c) PROVE IInv'
<1> DEFINE local == [call[c] EXCEPT !.pc = "sync", !.found = file']
<1>1. /\ call[c].found = file /\ c \in holder /\ Mark(c) \in Writes
      /\ file.rev \in Nat /\ file.writes \subseteq Writes /\ disk.rev \in Nat
  BY DEF IInv, Current, LockInv, NumberInv, TypeOK, Snapshots, Replace, Writes
<1>2. /\ file'.rev = file.rev + 1 /\ file'.writes = file.writes \cup {Mark(c)}
      /\ file' \in Snapshots
  BY <1>1 DEF Replace, Snapshot, Snapshots
<1>3. /\ local \in Locals /\ local.pc = "sync" /\ local.number = call[c].number
      /\ local.found = file'
  BY <1>2, CallType DEF Locals
<1>4. Continue(c, local) /\ UNCHANGED <<disk, holder, done, kills, losses>>
  BY DEF Replace
<1> HIDE DEF local
<1>5. call'[c] = local /\ \A d \in Clients : d # c => call'[d] = call[d]
  BY <1>4 DEF IInv, TypeOK
<1>6. TypeOK'
  BY <1>2, <1>3, <1>4 DEF IInv, TypeOK
<1>7. NumberInv' /\ LockInv'
  BY <1>1, <1>3, <1>4, <1>5 DEF IInv, NumberInv, LockInv, Writes
<1>8. NumberedInv'
  <2> SUFFICES ASSUME NEW d \in Clients, NEW m \in Calls, <<d, m>> \in file'.writes
               PROVE  /\ m <= call'[d].number
                      /\ m = call'[d].number => call'[d].pc \in {"sync", "return"}
    BY DEF NumberedInv
  <2>1. CASE <<d, m>> \in file.writes
    BY <1>3, <1>5, <2>1 DEF IInv, NumberedInv
  <2>2. CASE <<d, m>> = Mark(c)
    <3>1. d = c /\ m = call[c].number /\ m \in Nat
      BY <2>2 DEF Calls
    <3> QED BY <1>3, <1>5, <3>1
  <2> QED BY <1>2, <2>1, <2>2
<1>9. FilesInv'
  BY <1>1, <1>2, <1>4 DEF IInv, FilesInv
<1>10. ASSUME NEW d \in Clients PROVE (Based(d) /\ Current(d))'
  <2>1. CASE d = c
    <3>1. \A e \in done : e[2] < file'.rev
      BY <1>1, <1>2 DEF IInv, TypeOK, FilesInv
    <3> QED BY <1>2, <1>3, <1>4, <1>5, <2>1, <3>1 DEF Based, Current
  <2>2. CASE d # c
    <3>1. call[d].expected \in Nat /\ call'[d] = call[d] /\ Based(d) /\ d \notin holder
      BY <1>1, <1>5, <2>2, CallType DEF IInv, LockInv, Locals
    <3>2. call[d].pc \notin {"write", "sync", "return"}
      BY <3>1 DEF IInv, LockInv
    <3>3. Based(d)'
      BY <1>1, <1>2, <3>1 DEF Based
    <3> QED BY <3>1, <3>2, <3>3 DEF Current
  <2> QED BY <2>1, <2>2
<1>11. OneWinner'
  BY <1>4 DEF IInv, OneWinner
<1> QED BY <1>6, <1>7, <1>8, <1>9, <1>10, <1>11 DEF IInv

LEMMA SyncStep == ASSUME IInv, NEW c \in Clients, Sync(c) PROVE IInv'
<1> DEFINE local == [call[c] EXCEPT !.pc = "return"]
<1>1. /\ local \in Locals /\ local.pc = "return" /\ local.number = call[c].number
      /\ local.found = call[c].found
  BY CallType DEF Locals
<1>2. /\ Continue(c, local) /\ disk' = file /\ UNCHANGED <<file, holder, done, kills, losses>>
      /\ At(c, "sync")
  BY DEF Sync
<1> HIDE DEF local
<1>3. call'[c] = local /\ \A d \in Clients : d # c => call'[d] = call[d]
  BY <1>2 DEF IInv, TypeOK
<1>4. TypeOK'
  BY <1>1, <1>2 DEF IInv, TypeOK
<1>5. NumberInv' /\ LockInv' /\ NumberedInv' /\ OneWinner'
  BY <1>1, <1>2, <1>3 DEF IInv, NumberInv, LockInv, NumberedInv, OneWinner
<1>6. FilesInv'
  BY <1>2 DEF IInv, FilesInv, TypeOK, Snapshots
<1>7. ASSUME NEW d \in Clients PROVE (Based(d) /\ Current(d))'
  <2>1. Based(d) /\ Current(d)
    BY DEF IInv
  <2> QED BY <1>1, <1>2, <1>3, <2>1 DEF Based, Current
<1> QED BY <1>4, <1>5, <1>6, <1>7 DEF IInv

LEMMA WriteBackStep == ASSUME IInv, WriteBack PROVE IInv'
<1> USE DEF WriteBack
<1>1. TypeOK' /\ NumberInv' /\ LockInv' /\ NumberedInv' /\ OneWinner'
  BY DEF IInv, TypeOK, NumberInv, LockInv, NumberedInv, OneWinner
<1>2. FilesInv'
  BY DEF IInv, FilesInv, TypeOK, Snapshots
<1>3. ASSUME NEW c \in Clients PROVE (Based(c) /\ Current(c))'
  BY DEF IInv, Based, Current
<1> QED BY <1>1, <1>2, <1>3 DEF IInv

\* Every call is over, and what was returned is on the disk.
LEMMA PowerLossStep == ASSUME IInv, PowerLoss PROVE IInv'
<1>1. ASSUME NEW c \in Clients
      PROVE  /\ call'[c] \in Locals /\ call'[c].pc = "idle"
             /\ call'[c].expected = 0 /\ call'[c].base = {}
             /\ call[c].number <= call'[c].number
             /\ ~At(c, "idle") => call'[c].number = call[c].number + 1
  <2>1. call[c].number \in Nat \ {0}
    BY CallType DEF Locals
  <2>2. CASE At(c, "idle")
    <3>1. call'[c] = Between(call[c].number)
      BY <2>2 DEF PowerLoss
    <3> QED BY <2>1, <2>2, <3>1, BetweenType
  <2>3. CASE ~At(c, "idle")
    <3>1. call'[c] = Between(call[c].number + 1) /\ call[c].number + 1 \in Nat \ {0}
      BY <2>1, <2>3 DEF PowerLoss
    <3>2. /\ call'[c] \in Locals /\ call'[c].pc = "idle"
          /\ call'[c].expected = 0 /\ call'[c].base = {}
          /\ call'[c].number = call[c].number + 1
      BY <3>1, BetweenType
    <3> QED BY <2>1, <2>3, <3>2
  <2> QED BY <2>2, <2>3
<1>2. TypeOK'
  <2>1. call' \in [Clients -> Locals]
    BY <1>1 DEF PowerLoss
  <2>2. losses' \in 0..MaxLosses
    BY LedgerBounds DEF IInv, TypeOK, PowerLoss
  <2>3. /\ file' \in Snapshots /\ disk' \in Snapshots /\ holder' \subseteq Clients
        /\ done' \subseteq Writes \X Nat /\ kills' \in 0..MaxKills
    BY DEF IInv, TypeOK, PowerLoss
  <2> QED BY <2>1, <2>2, <2>3 DEF TypeOK
<1>3. NumberInv' /\ LockInv'
  BY <1>1 DEF NumberInv, LockInv, PowerLoss
<1>4. NumberedInv'
  <2> SUFFICES ASSUME NEW d \in Clients, NEW m \in Calls, <<d, m>> \in file'.writes
               PROVE  /\ m <= call'[d].number
                      /\ m = call'[d].number => call'[d].pc \in {"sync", "return"}
    BY DEF NumberedInv
  <2>1. <<d, m>> \in file.writes
    BY DEF IInv, FilesInv, PowerLoss
  <2>2. m <= call[d].number /\ (m = call[d].number => call[d].pc \in {"sync", "return"})
    BY <2>1 DEF IInv, NumberedInv
  <2>3. m \in Nat /\ call[d].number \in Nat /\ call'[d].number \in Nat
    BY <1>1, CallType DEF Calls, Locals
  <2> QED BY <1>1, <2>2, <2>3
<1>5. FilesInv' /\ OneWinner'
  BY DEF IInv, TypeOK, Snapshots, FilesInv, OneWinner, PowerLoss
<1>6. ASSUME NEW c \in Clients PROVE (Based(c) /\ Current(c))'
  BY <1>1 DEF Based, Current
<1> QED BY <1>2, <1>3, <1>4, <1>5, <1>6 DEF IInv

LEMMA NextIInv == IInv /\ [Next]_vars => IInv'
<1> SUFFICES ASSUME IInv, [Next]_vars PROVE IInv'
  OBVIOUS
<1>1. ASSUME NEW c \in Clients, Step(c) \/ Kill(c) PROVE IInv'
  BY <1>1, StartStep, LoadStep, DeriveStep, FinalizeStep, UpdateStep, LockStep, ConflictStep,
     ReadStep, ReplaceStep, SyncStep, ReturnStep, KillStep DEF Step
<1>2. CASE UNCHANGED vars
  <2>1. TypeOK' /\ NumberInv' /\ LockInv' /\ NumberedInv' /\ FilesInv' /\ OneWinner'
    BY <1>2 DEF vars, IInv, TypeOK, NumberInv, LockInv, NumberedInv, FilesInv, OneWinner
  <2>2. ASSUME NEW c \in Clients PROVE (Based(c) /\ Current(c))'
    BY <1>2 DEF vars, IInv, Based, Current
  <2> QED BY <2>1, <2>2 DEF IInv
<1> QED BY <1>1, <1>2, WriteBackStep, PowerLossStep DEF Next

-----------------------------------------------------------------------------
(* What it means                                                            *)

\* Files, calls and results keep their types.
THEOREM TypeCorrect == Spec => []TypeOK
<1>1. IInv => TypeOK
  BY DEF IInv
<1> QED BY <1>1, InitIInv, NextIInv, PTL DEF Spec

\* A write whose caller was given a snapshot is in the file and on disk for good.
THEOREM ReturnedStays == Spec => []ReturnedIsKept
<1>1. IInv => ReturnedIsKept
  BY DEF IInv, FilesInv, ReturnedIsKept
<1> QED BY <1>1, InitIInv, NextIInv, PTL DEF Spec

\* Of the callers that race for a revision exactly one is given it.
THEOREM RevisionsHaveOneWinner == Spec => []OneWinner
<1>1. IInv => OneWinner
  BY DEF IInv
<1> QED BY <1>1, InitIInv, NextIInv, PTL DEF Spec

\* A step of the record, or none, behind every step of the ledger.
LEMMA StepOfRecord == IInv /\ [Next]_vars => [Record!Next]_<<file, disk>>
<1> SUFFICES ASSUME IInv, Next PROVE [Record!Next]_<<file, disk>>
  BY DEF vars
<1>1. ASSUME NEW c \in Clients, Replace(c) PROVE Record!Next
  <2>1. /\ call[c].found = file /\ Mark(c) \in Writes /\ call[c].number \in Calls
    BY <1>1 DEF IInv, Current, NumberInv, Replace, Writes
  <2>2. Mark(c) \notin file.writes
    BY <1>1, <2>1 DEF IInv, NumberedInv, Replace
  <2>3. Record!Write(Mark(c))
    BY <1>1, <2>1, <2>2 DEF Record!Write, Replace, Snapshot
  <2> QED BY <2>1, <2>3 DEF Record!Next
<1>2. ASSUME NEW c \in Clients, Sync(c) PROVE Record!Next
  BY <1>2 DEF Sync, Record!Next, Record!Persist
<1>3. ASSUME WriteBack PROVE Record!Next
  BY <1>3 DEF WriteBack, Record!Next, Record!Persist
<1>4. ASSUME PowerLoss PROVE Record!Next
  BY <1>4 DEF PowerLoss, Record!Next, Record!Lose
<1>5. ASSUME NEW c \in Clients, Step(c) \/ Kill(c), ~Replace(c), ~Sync(c)
      PROVE  UNCHANGED <<file, disk>>
  BY <1>5 DEF Step, Start, Load, Derive, Finalize, Update, Lock, Conflict, Read, Return, Kill,
              UnchangedFiles
<1> QED BY <1>1, <1>2, <1>3, <1>4, <1>5 DEF Next

\* The ledger file is a record that is written atomically and only grows: no
\* write replaces a snapshot it was not derived from.
THEOREM LedgerImplementsRecord == Spec => ImplementsRecord
<1>1. Init => Record!Init
  BY DEF Init, Record!Init, Missing, Snapshot
<1> QED BY <1>1, InitIInv, NextIInv, StepOfRecord, PTL DEF Spec, ImplementsRecord, Record!Spec
=============================================================================
