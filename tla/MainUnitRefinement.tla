------------------------- MODULE MainUnitRefinement --------------------------
(***************************************************************************)
(* MainUnit implements UnitTransaction: every step of every command maps   *)
(* to one step of the abstract transaction of its unit, or to none.  Five  *)
(* steps write a ledger and map to Open, Seal, Land and Hold; a commit by  *)
(* anybody maps to Grow; all the others change nothing abstract.           *)
(*                                                                         *)
(* The abstract transaction sees the newest ledger of a unit.  That the    *)
(* ledger a command writes is the newest one, and that it still holds what *)
(* the command has seen, is what the invariant of MainUnitSafety is for.   *)
(***************************************************************************)
EXTENDS MainUnitSafety, SequenceTheorems

-----------------------------------------------------------------------------
(* The refinement mapping, as functions of the ledgers f of one unit *)

WrittenIn(f) == {a \in Attempts : f[a].rev > 0}
NewestIn(f) ==
    IF WrittenIn(f) = {} THEN CurrentAttempt(Fresh)
    ELSE CHOOSE a \in WrittenIn(f) : \A b \in WrittenIn(f) : b <= a
StageOf(f) == f[NewestIn(f)].status
CountOf(f) == IF WrittenIn(f) = {} THEN 0 ELSE NewestIn(f)
CandidateOf(r) ==
    IF r.status \in {"committing", "completed"}
    THEN [parent |-> r.head, patch |-> r.candidate, message |-> r.message]
    ELSE NoCandidate
SealedOf(f) == CandidateOf(f[NewestIn(f)])
LandedOf(f) == f[NewestIn(f)].commit

stageBar == [u \in Units |-> StageOf(ledger[u])]
attemptBar == [u \in Units |-> CountOf(ledger[u])]
sealedBar == [u \in Units |-> SealedOf(ledger[u])]
landedBar == [u \in Units |-> LandedOf(ledger[u])]
historyBar ==
    [c \in 1..Len(commits) |->
        [parent |-> commits[c].parent, message |-> commits[c].message,
         patch |-> Changes(commits[c].parent, Tree(c), Paths)]]

\* What MainUnit substitutes for the variables of the abstract transaction.
Mapping ==
    /\ stageBar = [u \in Units |-> NewestRecord(u).status]
    /\ attemptBar = [u \in Units |-> IF Written(u) = {} THEN 0 ELSE Newest(u)]
    /\ sealedBar = [u \in Units |->
                      IF NewestRecord(u).status \in {"committing", "completed"}
                      THEN [parent |-> NewestRecord(u).head, patch |-> NewestRecord(u).candidate,
                            message |-> NewestRecord(u).message]
                      ELSE NoCandidate]
    /\ landedBar = [u \in Units |-> NewestRecord(u).commit]

\* The mapping of MainUnit is this one.
LEMMA MappingHolds == Mapping
  <1>1. \A u \in Units : Newest(u) = NewestIn(ledger[u]) /\ Written(u) = WrittenIn(ledger[u])
    BY DEF Newest, LatestAttempt, Written, NewestIn, WrittenIn
  <1>2. \A u \in Units : NewestRecord(u) = ledger[u][NewestIn(ledger[u])]
    BY <1>1 DEF NewestRecord
  <1>3. QED
    BY <1>1, <1>2 DEF Mapping, stageBar, attemptBar, sealedBar, landedBar, StageOf, CountOf,
                      SealedOf, CandidateOf, LandedOf

\* So it is after a step.
LEMMA MappingHoldsNext == Mapping'
  BY MappingHolds, PTL

\* No unit has a ledger at first, and nothing has been committed.
LEMMA InitMaps == Init => Transaction!Init
  <1> SUFFICES ASSUME Init
               PROVE  Transaction!Init
    OBVIOUS
  <1>1. \A u \in Units, a \in Attempts : ledger[u][a] = NoRecord
    BY DEF Init
  <1>2. \A u \in Units : WrittenIn(ledger[u]) = {}
    BY <1>1, NoRecordFields DEF WrittenIn
  <1>3. \A u \in Units : ledger[u][NewestIn(ledger[u])] = NoRecord
    BY <1>1, <1>2, MaxAttemptsAssumption DEF NewestIn, CurrentAttempt, Fresh, Entry, Attempts
  <1>4. commits = << >>
    BY DEF Init, WorktreeInit
  <1>5. historyBar = << >>
    BY <1>4 DEF historyBar
  <1>6. stageBar = [u \in Units |-> "absent"] /\ landedBar = [u \in Units |-> 0]
    BY <1>3, NoRecordFields DEF stageBar, landedBar, StageOf, LandedOf
  <1>7. attemptBar = [u \in Units |-> 0]
    BY <1>2 DEF attemptBar, CountOf
  <1>8. sealedBar = [u \in Units |-> NoCandidate]
    BY <1>3, NoRecordFields DEF sealedBar, SealedOf, CandidateOf
  <1>9. QED
    BY <1>5, <1>6, <1>7, <1>8, MappingHolds DEF Mapping, Transaction!Init, historyBar

-----------------------------------------------------------------------------
(* The newest ledger *)

\* An attempt that is written, with none written after it, is the newest.
LEMMA NewestInIs ==
    ASSUME NEW f, NEW a \in Attempts, a \in WrittenIn(f), \A b \in WrittenIn(f) : b <= a
    PROVE  NewestIn(f) = a /\ CountOf(f) = a
  <1>1. WrittenIn(f) # {} /\ WrittenIn(f) \subseteq Attempts /\ Attempts \subseteq Nat
    BY MaxAttemptsAssumption DEF WrittenIn, Attempts
  <1>2. \A c \in WrittenIn(f) : (\A b \in WrittenIn(f) : b <= c) => c = a
    BY <1>1
  <1>3. QED
    BY <1>1, <1>2 DEF NewestIn, CountOf

\* A ledger of an attempt that is not held has no written ledger after it.
LEMMA UnheldIsLast ==
    ASSUME SafetyInv, NEW u \in Units, NEW a \in Attempts, ledger[u][a].status # "held"
    PROVE  \A b \in WrittenIn(ledger[u]) : b <= a
  <1>1. Attempts \subseteq Nat
    BY MaxAttemptsAssumption DEF Attempts
  <1>2. QED
    BY <1>1 DEF SafetyInv, OneAttemptAtATime, WrittenIn

\* Writing a ledger that is open or committing, or that of the attempt after
\* the ones held so far, changes the newest ledger of its unit and no other.
LEMMA WriteMaps ==
    ASSUME SafetyInv, NEW u \in Units, NEW a \in Attempts, NEW n \in Records,
           ledger' = [ledger EXCEPT ![u][a] = n], n.rev > 0,
           ledger[u][a].status # "held"
    PROVE  /\ stageBar' = [stageBar EXCEPT ![u] = n.status]
           /\ attemptBar' = [attemptBar EXCEPT ![u] = a]
           /\ sealedBar' = [sealedBar EXCEPT ![u] = CandidateOf(n)]
           /\ landedBar' = [landedBar EXCEPT ![u] = n.commit]
  <1>1. /\ ledger \in [Units -> [Attempts -> Records]]
        /\ Attempts \subseteq Nat
    BY MaxAttemptsAssumption DEF SafetyInv, TypeOK, Attempts
  <1>2. /\ ledger'[u] = [ledger[u] EXCEPT ![a] = n]
        /\ \A w \in Units : w # u => ledger'[w] = ledger[w]
    BY <1>1
  <1>3. PICK f : f = ledger'[u]
    OBVIOUS
  <1>4. f[a] = n /\ \A b \in Attempts : b # a => f[b] = ledger[u][b]
    BY <1>1, <1>2, <1>3
  <1>5. a \in WrittenIn(f) /\ \A b \in WrittenIn(f) : b = a \/ b \in WrittenIn(ledger[u])
    BY <1>4 DEF WrittenIn
  <1>6. \A b \in WrittenIn(f) : b <= a
    BY <1>1, <1>5, UnheldIsLast
  <1>7. NewestIn(f) = a /\ CountOf(f) = a
    BY <1>5, <1>6, NewestInIs
  <1>8. /\ StageOf(f) = n.status /\ SealedOf(f) = CandidateOf(n) /\ LandedOf(f) = n.commit
    BY <1>4, <1>7 DEF StageOf, SealedOf, LandedOf
  <1>9. stageBar' = [w \in Units |-> StageOf(ledger'[w])]
    BY DEF stageBar, StageOf, NewestIn, WrittenIn
  <1>10. attemptBar' = [w \in Units |-> CountOf(ledger'[w])]
    BY DEF attemptBar, CountOf, NewestIn, WrittenIn
  <1>11. sealedBar' = [w \in Units |-> SealedOf(ledger'[w])]
    BY DEF sealedBar, SealedOf, NewestIn, WrittenIn, CandidateOf
  <1>12. landedBar' = [w \in Units |-> LandedOf(ledger'[w])]
    BY DEF landedBar, LandedOf, NewestIn, WrittenIn
  <1>13. /\ stageBar = [w \in Units |-> StageOf(ledger[w])]
         /\ attemptBar = [w \in Units |-> CountOf(ledger[w])]
         /\ sealedBar = [w \in Units |-> SealedOf(ledger[w])]
         /\ landedBar = [w \in Units |-> LandedOf(ledger[w])]
    BY DEF stageBar, attemptBar, sealedBar, landedBar
  <1>14. \A w \in Units : w # u =>
            /\ StageOf(ledger'[w]) = StageOf(ledger[w])
            /\ CountOf(ledger'[w]) = CountOf(ledger[w])
            /\ SealedOf(ledger'[w]) = SealedOf(ledger[w])
            /\ LandedOf(ledger'[w]) = LandedOf(ledger[w])
    BY <1>2
  <1>15. /\ StageOf(ledger'[u]) = n.status
         /\ CountOf(ledger'[u]) = a
         /\ SealedOf(ledger'[u]) = CandidateOf(n)
         /\ LandedOf(ledger'[u]) = n.commit
    BY <1>3, <1>7, <1>8
  <1>16. stageBar' = [stageBar EXCEPT ![u] = n.status]
    BY <1>9, <1>13, <1>14, <1>15
  <1>17. attemptBar' = [attemptBar EXCEPT ![u] = a]
    BY <1>10, <1>13, <1>14, <1>15
  <1>18. sealedBar' = [sealedBar EXCEPT ![u] = CandidateOf(n)]
    BY <1>11, <1>13, <1>14, <1>15
  <1>19. landedBar' = [landedBar EXCEPT ![u] = n.commit]
    BY <1>12, <1>13, <1>14, <1>15
  <1>20. QED
    BY <1>16, <1>17, <1>18, <1>19

\* A ledger that is open, committing or completed is the newest of its unit.
LEMMA UnheldIsNewest ==
    ASSUME SafetyInv, NEW u \in Units, NEW a \in Attempts,
           ledger[u][a].rev > 0, ledger[u][a].status # "held"
    PROVE  /\ stageBar[u] = ledger[u][a].status
           /\ attemptBar[u] = a
           /\ sealedBar[u] = CandidateOf(ledger[u][a])
           /\ landedBar[u] = ledger[u][a].commit
  <1>1. a \in WrittenIn(ledger[u])
    BY DEF WrittenIn
  <1>2. NewestIn(ledger[u]) = a /\ CountOf(ledger[u]) = a
    BY <1>1, UnheldIsLast, NewestInIs
  <1>3. QED
    BY <1>2 DEF stageBar, attemptBar, sealedBar, landedBar, StageOf, SealedOf, LandedOf

\* When the attempts before a are all held and a has no ledger, a - 1
\* attempts were opened so far and nothing is sealed or landed.
LEMMA BeforeNextAttempt ==
    ASSUME SafetyInv, NEW u \in Units, NEW a \in Attempts,
           ledger[u][a] = NoRecord, EarlierHeld(u, a)
    PROVE  /\ stageBar[u] \in {"absent", "held"}
           /\ attemptBar[u] + 1 = a
           /\ sealedBar[u] = NoCandidate
           /\ landedBar[u] = 0
  <1>1. /\ ledger \in [Units -> [Attempts -> Records]]
        /\ MaxAttempts \in Nat /\ a \in 1..MaxAttempts
    BY MaxAttemptsAssumption DEF SafetyInv, TypeOK, Attempts
  <1>2. \A b \in WrittenIn(ledger[u]) : b < a
    <2>1. a \notin WrittenIn(ledger[u])
      BY NoRecordFields DEF WrittenIn
    <2>2. \A b \in WrittenIn(ledger[u]) : b <= a /\ b \in 1..MaxAttempts
      BY NoRecordFields, UnheldIsLast DEF WrittenIn, Attempts
    <2>3. QED
      BY <1>1, <2>1, <2>2
  <1>3. CASE a = 1
    <2>1. WrittenIn(ledger[u]) = {}
      BY <1>2, <1>3 DEF WrittenIn, Attempts
    <2>2. NewestIn(ledger[u]) = 1
      BY <2>1 DEF NewestIn, CurrentAttempt, Fresh, Entry
    <2>3. ledger[u][NewestIn(ledger[u])] = NoRecord
      BY <1>3, <2>2
    <2>4. QED
      BY <1>3, <2>1, <2>3, NoRecordFields
      DEF stageBar, attemptBar, sealedBar, landedBar, StageOf, CountOf, SealedOf, LandedOf,
          CandidateOf
  <1>4. CASE a # 1
    <2>1. PICK b \in Attempts : b = a - 1
      BY <1>1, <1>4 DEF Attempts
    <2>2. ledger[u][b].status = "held"
      BY <1>1, <2>1 DEF EarlierHeld
    <2>3. ledger[u][b].rev > 0 /\ ledger[u][b].commit = 0
      <3>1. RecordOK(u, ledger[u][b]) /\ ledger[u][b].rev \in Nat
        BY <1>1 DEF SafetyInv, LedgerInv, Records
      <3>2. QED
        BY <2>2, <3>1, NoRecordFields DEF RecordOK
    <2>4. b \in WrittenIn(ledger[u]) /\ \A c \in WrittenIn(ledger[u]) : c <= b
      <3>1. \A c \in WrittenIn(ledger[u]) : c \in 1..MaxAttempts
        BY DEF WrittenIn, Attempts
      <3>2. QED
        BY <1>1, <1>2, <2>1, <2>3, <3>1 DEF WrittenIn
    <2>5. NewestIn(ledger[u]) = b /\ CountOf(ledger[u]) = b
      BY <2>4, NewestInIs
    <2>6. /\ stageBar[u] = "held" /\ attemptBar[u] = b
          /\ sealedBar[u] = NoCandidate /\ landedBar[u] = 0
      BY <2>2, <2>3, <2>5
      DEF stageBar, attemptBar, sealedBar, landedBar, StageOf, SealedOf, LandedOf, CandidateOf
    <2>7. QED
      BY <1>1, <2>1, <2>6
  <1>5. QED
    BY <1>3, <1>4

-----------------------------------------------------------------------------
(* The steps of the abstract transaction *)

StepMaps == [Transaction!Next]_<<stageBar, attemptBar, sealedBar, landedBar, historyBar>>

\* A step that writes no ledger and makes no commit maps to none.
LEMMA StutterMaps ==
    ASSUME UNCHANGED <<ledger, commits>>
    PROVE  StepMaps
  BY DEF StepMaps, stageBar, attemptBar, sealedBar, landedBar, historyBar, StageOf, CountOf,
         SealedOf, LandedOf, NewestIn, WrittenIn, CandidateOf, Changes, Tree

\* Without a new commit the history is the same.
LEMMA HistoryStays ==
    ASSUME UNCHANGED commits
    PROVE  historyBar' = historyBar
  BY DEF historyBar, Changes, Tree

\* Writing the ledger of the next attempt opens the unit.
LEMMA OpenMaps ==
    ASSUME SafetyInv, UNCHANGED commits,
           NEW u \in Units, NEW a \in Attempts, NEW n \in Records,
           ledger' = [ledger EXCEPT ![u][a] = n], n.rev > 0,
           ledger[u][a].status = "absent", EarlierHeld(u, a),
           n.status = "open", n.commit = ledger[u][a].commit
    PROVE  Transaction!Open(u)
  <1>0. ledger[u][a] = NoRecord
    <2>1. ledger[u][a] \in Records /\ RecordOK(u, ledger[u][a])
      BY DEF SafetyInv, TypeOK, LedgerInv
    <2>2. ledger[u][a].rev \in Nat
      BY <2>1 DEF Records
    <2>3. QED
      BY <2>1, <2>2 DEF RecordOK
  <1>1. /\ stageBar[u] \in {"absent", "held"} /\ attemptBar[u] + 1 = a
        /\ sealedBar[u] = NoCandidate /\ landedBar[u] = 0
    BY <1>0, BeforeNextAttempt
  <1>2. CandidateOf(n) = NoCandidate
    BY DEF CandidateOf
  <1>3. /\ stageBar' = [stageBar EXCEPT ![u] = "open"]
        /\ attemptBar' = [attemptBar EXCEPT ![u] = a]
        /\ sealedBar' = [sealedBar EXCEPT ![u] = NoCandidate]
        /\ landedBar' = [landedBar EXCEPT ![u] = n.commit]
    <2>1. ledger[u][a].status # "held"
      OBVIOUS
    <2>2. /\ stageBar' = [stageBar EXCEPT ![u] = n.status]
          /\ attemptBar' = [attemptBar EXCEPT ![u] = a]
          /\ sealedBar' = [sealedBar EXCEPT ![u] = CandidateOf(n)]
          /\ landedBar' = [landedBar EXCEPT ![u] = n.commit]
      BY <2>1, WriteMaps
    <2>3. QED
      BY <1>2, <2>2
  <1>4. sealedBar' = sealedBar /\ landedBar' = landedBar
    BY <1>0, <1>1, <1>3, NoRecordFields DEF sealedBar, landedBar
  <1>5. attemptBar' = [attemptBar EXCEPT ![u] = attemptBar[u] + 1]
    BY <1>1, <1>3
  <1>6. historyBar' = historyBar
    BY HistoryStays
  <1>7. /\ stageBar[u] \in {"absent", "held"}
        /\ stageBar' = [stageBar EXCEPT ![u] = "open"]
        /\ attemptBar' = [attemptBar EXCEPT ![u] = attemptBar[u] + 1]
        /\ sealedBar' = sealedBar /\ landedBar' = landedBar /\ historyBar' = historyBar
    BY <1>1, <1>3, <1>4, <1>5, <1>6
  <1>8. QED
    BY <1>7, MappingHolds, MappingHoldsNext DEF Mapping, historyBar, Transaction!Open

\* Writing an open ledger as committing seals the candidate.
LEMMA SealMaps ==
    ASSUME SafetyInv, UNCHANGED commits,
           NEW u \in Units, NEW a \in Attempts, NEW n \in Records,
           ledger' = [ledger EXCEPT ![u][a] = n], n.rev > 0,
           ledger[u][a].rev > 0, ledger[u][a].status = "open",
           n.status = "committing", n.commit = ledger[u][a].commit, n.message \in Messages
    PROVE  Transaction!Seal(u)
  <1>1. /\ stageBar[u] = "open" /\ attemptBar[u] = a /\ landedBar[u] = n.commit
    BY UnheldIsNewest
  <1>2. /\ stageBar' = [stageBar EXCEPT ![u] = "committing"]
        /\ attemptBar' = [attemptBar EXCEPT ![u] = a]
        /\ sealedBar' = [sealedBar EXCEPT ![u] = CandidateOf(n)]
        /\ landedBar' = [landedBar EXCEPT ![u] = n.commit]
    <2>1. ledger[u][a].status # "held"
      OBVIOUS
    <2>2. /\ stageBar' = [stageBar EXCEPT ![u] = n.status]
          /\ attemptBar' = [attemptBar EXCEPT ![u] = a]
          /\ sealedBar' = [sealedBar EXCEPT ![u] = CandidateOf(n)]
          /\ landedBar' = [landedBar EXCEPT ![u] = n.commit]
      BY <2>1, WriteMaps
    <2>3. QED
      BY <2>2
  <1>3. attemptBar' = attemptBar /\ landedBar' = landedBar
    BY <1>1, <1>2 DEF attemptBar, landedBar
  <1>4. sealedBar'[u] = CandidateOf(n)
    BY <1>2 DEF sealedBar
  <1>5. CandidateOf(n) \in [parent : Nat, patch : Diffs, message : Messages]
    BY DEF CandidateOf, Records
  <1>6. historyBar' = historyBar
    BY HistoryStays
  <1>7. /\ stageBar[u] = "open"
        /\ stageBar' = [stageBar EXCEPT ![u] = "committing"]
        /\ sealedBar'[u] \in [parent : Nat, patch : Diffs, message : Messages]
        /\ sealedBar' = [sealedBar EXCEPT ![u] = sealedBar'[u]]
        /\ attemptBar' = attemptBar /\ landedBar' = landedBar /\ historyBar' = historyBar
    BY <1>1, <1>2, <1>3, <1>4, <1>5, <1>6
  <1>8. QED
    BY <1>7, MappingHolds, MappingHoldsNext DEF Mapping, historyBar, Transaction!Seal

\* Writing an open or committing ledger as held gives the candidate up.
LEMMA HoldMaps ==
    ASSUME SafetyInv, UNCHANGED commits,
           NEW u \in Units, NEW a \in Attempts, NEW n \in Records,
           ledger' = [ledger EXCEPT ![u][a] = n], n.rev > 0,
           ledger[u][a].rev > 0, ledger[u][a].status \in {"open", "committing"},
           n.status = "held", n.commit = ledger[u][a].commit
    PROVE  Transaction!Hold(u)
  <1>1. /\ stageBar[u] \in {"open", "committing"} /\ attemptBar[u] = a
        /\ landedBar[u] = n.commit
    BY UnheldIsNewest
  <1>2. CandidateOf(n) = NoCandidate
    BY DEF CandidateOf
  <1>3. /\ stageBar' = [stageBar EXCEPT ![u] = "held"]
        /\ attemptBar' = [attemptBar EXCEPT ![u] = a]
        /\ sealedBar' = [sealedBar EXCEPT ![u] = NoCandidate]
        /\ landedBar' = [landedBar EXCEPT ![u] = n.commit]
    <2>1. ledger[u][a].status # "held"
      OBVIOUS
    <2>2. /\ stageBar' = [stageBar EXCEPT ![u] = n.status]
          /\ attemptBar' = [attemptBar EXCEPT ![u] = a]
          /\ sealedBar' = [sealedBar EXCEPT ![u] = CandidateOf(n)]
          /\ landedBar' = [landedBar EXCEPT ![u] = n.commit]
      BY <2>1, WriteMaps
    <2>3. QED
      BY <1>2, <2>2
  <1>4. attemptBar' = attemptBar /\ landedBar' = landedBar
    BY <1>1, <1>3 DEF attemptBar, landedBar
  <1>5. historyBar' = historyBar
    BY HistoryStays
  <1>6. QED
    BY <1>1, <1>3, <1>4, <1>5, MappingHolds, MappingHoldsNext
    DEF Mapping, historyBar, Transaction!Hold

\* A diff of all paths is the diff of the paths that differ.
LEMMA ChangesOfChanged ==
    ASSUME NEW base, NEW tree, NEW S, DOMAIN Changes(base, tree, Paths) = S
    PROVE  Changes(base, tree, Paths) = Changes(base, tree, S)
  <1>1. S = {x \in Paths : tree[x] # Tree(base)[x]}
    BY DEF Changes, Restrict
  <1>2. {x \in S : tree[x] # Tree(base)[x]} = S
    BY <1>1
  <1>3. QED
    BY <1>1, <1>2 DEF Changes

\* Writing a committing ledger as completed lands the unit with the commit
\* that carries its candidate.
LEMMA LandMaps ==
    ASSUME SafetyInv, UNCHANGED commits,
           NEW u \in Units, NEW a \in Attempts, NEW n \in Records,
           ledger' = [ledger EXCEPT ![u][a] = n], n.rev > 0,
           ledger[u][a].rev > 0, ledger[u][a].status = "committing",
           n.status = "completed", n.head = ledger[u][a].head,
           n.candidate = ledger[u][a].candidate, n.message = ledger[u][a].message,
           Matches(n.commit, ledger[u][a])
    PROVE  Transaction!Land(u)
  <1> DEFINE r == ledger[u][a]
  <1>1. /\ stageBar[u] = "committing" /\ attemptBar[u] = a
        /\ sealedBar[u] = CandidateOf(r)
    BY UnheldIsNewest
  <1>2. CandidateOf(n) = CandidateOf(r)
    BY DEF CandidateOf
  <1>3. /\ stageBar' = [stageBar EXCEPT ![u] = "completed"]
        /\ attemptBar' = [attemptBar EXCEPT ![u] = a]
        /\ sealedBar' = [sealedBar EXCEPT ![u] = CandidateOf(r)]
        /\ landedBar' = [landedBar EXCEPT ![u] = n.commit]
    <2>1. ledger[u][a].status # "held"
      OBVIOUS
    <2>2. /\ stageBar' = [stageBar EXCEPT ![u] = n.status]
          /\ attemptBar' = [attemptBar EXCEPT ![u] = a]
          /\ sealedBar' = [sealedBar EXCEPT ![u] = CandidateOf(n)]
          /\ landedBar' = [landedBar EXCEPT ![u] = n.commit]
      BY <2>1, WriteMaps
    <2>3. QED
      BY <1>2, <2>2
  <1>4. attemptBar' = attemptBar /\ sealedBar' = sealedBar
    BY <1>1, <1>3 DEF attemptBar, sealedBar
  <1>5. n.commit \in DOMAIN historyBar
    BY DEF Matches, historyBar
  <1>6. Transaction!Carries(n.commit, sealedBar[u])
    <2>1. /\ historyBar[n.commit].parent = r.head /\ historyBar[n.commit].message = r.message
          /\ historyBar[n.commit].patch = Changes(r.head, Tree(n.commit), Paths)
      BY DEF Matches, historyBar
    <2>2. Changes(r.head, Tree(n.commit), Paths) = r.candidate
      BY ChangesOfChanged DEF Matches
    <2>3. QED
      BY <1>1, <2>1, <2>2 DEF Transaction!Carries, CandidateOf, historyBar
  <1>7. historyBar' = historyBar
    BY HistoryStays
  <1>8. /\ stageBar[u] = "committing"
        /\ \E c \in DOMAIN historyBar :
              /\ Transaction!Carries(c, sealedBar[u])
              /\ landedBar' = [landedBar EXCEPT ![u] = c]
        /\ stageBar' = [stageBar EXCEPT ![u] = "completed"]
        /\ attemptBar' = attemptBar /\ sealedBar' = sealedBar /\ historyBar' = historyBar
    BY <1>1, <1>3, <1>4, <1>5, <1>6, <1>7
  <1>9. QED
    BY <1>8, MappingHolds, MappingHoldsNext DEF Mapping, historyBar, Transaction!Land

\* A sequence that is another one and one more element begins with it.
LEMMA PrefixOfLonger ==
    ASSUME NEW S, NEW s \in Seq(S), NEW t \in Seq(S), Len(t) = Len(s) + 1,
           \A i \in 1..Len(s) : t[i] = s[i]
    PROVE  SubSeq(t, 1, Len(s)) = s
  <1>1. Len(s) \in Nat /\ \A i \in 1..Len(s) : t[i] \in S
    <2>1. Len(s) \in Nat /\ t \in [1..Len(t) -> S]
      BY LenProperties
    <2>2. QED
      BY <2>1
  <1>2. /\ SubSeq(t, 1, Len(s)) \in Seq(S)
        /\ Len(SubSeq(t, 1, Len(s))) = IF 1 <= Len(s) THEN Len(s) - 1 + 1 ELSE 0
        /\ \A i \in 1..Len(s) - 1 + 1 : SubSeq(t, 1, Len(s))[i] = t[1 + i - 1]
    BY <1>1, SubSeqProperties
  <1>3. Len(SubSeq(t, 1, Len(s))) = Len(s)
    BY <1>1, <1>2
  <1>4. \A i \in 1..Len(s) : SubSeq(t, 1, Len(s))[i] = s[i]
    BY <1>1, <1>2
  <1>5. QED
    BY <1>2, <1>3, <1>4, SeqEqual

\* A commit grows the history and takes nothing back: what an earlier commit
\* changed on its parent is what it changed.
LEMMA GrowMaps ==
    ASSUME SafetyInv, UNCHANGED ledger,
           NEW S \in SUBSET Paths, NEW m, NEW author, CommitPaths(S, m, author)
    PROVE  Transaction!Grow
  <1> DEFINE n == Len(commits)
             Shown == {historyBar[c] : c \in 1..n} \cup {historyBar'[c] : c \in 1..n + 1}
  <1>1. commits \in Seq(Commits) /\ n \in Nat
    BY DEF SafetyInv, TypeOK
  <1>2. PICK commit : commits' = Append(commits, commit)
    BY DEF CommitPaths
  <1>3. /\ Len(commits') = n + 1
        /\ \A c \in 1..n : commits'[c] = commits[c]
    BY <1>1, <1>2
  <1>4. \A c \in 0..n : Tree(c)' = Tree(c)
    BY <1>1, <1>3 DEF Tree
  <1>5. historyBar' =
           [c \in 1..n + 1 |->
              [parent |-> commits'[c].parent, message |-> commits'[c].message,
               patch |-> Changes(commits[c].parent, Tree(c), Paths)']]
    BY <1>3 DEF historyBar
  <1>6. \A c \in 1..n : historyBar'[c] = historyBar[c]
    <2> SUFFICES ASSUME NEW c \in 1..n
                 PROVE  historyBar'[c] = historyBar[c]
      OBVIOUS
    <2>1. PICK b : b = commits[c].parent
      OBVIOUS
    <2>2. commits'[c] = commits[c] /\ b \in 0..n /\ c \in 0..n
      <3>1. commits[c] \in Commits /\ c \in 1..n
        BY <1>1
      <3>2. b \in Nat /\ b < c
        BY <2>1, <3>1 DEF Commits, SafetyInv, CommitInv, HistoryInv
      <3>3. QED
        BY <1>1, <1>3, <3>1, <3>2
    <2>3. Tree(c)' = Tree(c) /\ Tree(b)' = Tree(b)
      BY <1>4, <2>2
    <2>4. Changes(b, Tree(c), Paths)' = Changes(b, Tree(c), Paths)
      BY <2>3 DEF Changes
    <2>5. Changes(commits[c].parent, Tree(c), Paths)' = Changes(b, Tree(c), Paths)'
      BY <2>1, <2>2
    <2>6. historyBar'[c] = [parent |-> b, message |-> commits[c].message,
                            patch |-> Changes(b, Tree(c), Paths)]
      <3>1. c \in 1..n + 1
        BY <1>1
      <3>2. QED
        BY <1>5, <2>1, <2>2, <2>4, <2>5, <3>1
    <2>7. historyBar[c] = [parent |-> b, message |-> commits[c].message,
                           patch |-> Changes(b, Tree(c), Paths)]
      BY <2>1 DEF historyBar
    <2>8. QED
      BY <2>6, <2>7
  <1>7. historyBar \in [1..n -> Shown] /\ historyBar' \in [1..n + 1 -> Shown]
    <2>1. historyBar \in [1..n -> {historyBar[c] : c \in 1..n}]
      BY DEF historyBar
    <2>2. historyBar' \in [1..n + 1 -> {historyBar'[c] : c \in 1..n + 1}]
      BY <1>5
    <2>3. QED
      BY <2>1, <2>2
  <1>8. historyBar \in Seq(Shown) /\ historyBar' \in Seq(Shown)
    BY <1>1, <1>7
  <1>9. Len(historyBar) = n /\ Len(historyBar') = n + 1
    BY <1>1, <1>7
  <1>10. SubSeq(historyBar', 1, Len(historyBar)) = historyBar
    BY <1>6, <1>8, <1>9, PrefixOfLonger
  <1>11. UNCHANGED <<stageBar, attemptBar, sealedBar, landedBar>>
    BY DEF stageBar, attemptBar, sealedBar, landedBar, StageOf, CountOf, SealedOf, LandedOf,
           NewestIn, WrittenIn, CandidateOf
  <1>12. QED
    BY <1>9, <1>10, <1>11, MappingHolds, MappingHoldsNext
    DEF Mapping, historyBar, Transaction!Grow

-----------------------------------------------------------------------------
(* The steps of the commands *)

\* A command that relies on its snapshot writes the next revision of what the
\* ledger holds.
LEMMA WritesNextRevision ==
    ASSUME SafetyInv, NEW p \in Procs, proc[p].pc \in OpenSteps \cup SealedSteps,
           NEW r \in Records,
           CompareAndSet(UnitOf(p), proc[p].attempt, proc[p].seen.rev, r)
    PROVE  /\ ledger[UnitOf(p)][proc[p].attempt] = proc[p].seen
           /\ proc[p].seen.rev > 0
           /\ \E n \in Records :
                 /\ ledger' = [ledger EXCEPT ![UnitOf(p)][proc[p].attempt] = n]
                 /\ n.rev > 0 /\ n.status = r.status /\ n.head = r.head
                 /\ n.candidate = r.candidate /\ n.message = r.message
                 /\ n.commit = r.commit
  <1>1. proc[p].seen \in Records /\ proc[p].seen.rev \in Nat
    <2>1. proc[p].seen \in Records
      BY LocalsAccess DEF SafetyInv
    <2>2. QED
      BY <2>1 DEF Records
  <1>2. proc[p].seen.rev > 0
    <2>1. 0 < proc[p].seen.rev
      BY LocalsOK DEF StepOK, Snapshot
    <2>2. QED
      BY <1>1, <2>1
  <1>3. ledger[UnitOf(p)][proc[p].attempt] = proc[p].seen
    BY SnapshotIsLedger DEF CompareAndSet
  <1>4. PICK v \in Nat : v = proc[p].seen.rev + 1 /\ v > 0
    BY <1>1
  <1>5. PICK n \in Records : n = [r EXCEPT !.rev = v]
    BY DEF Records
  <1>6. /\ n.rev = v /\ n.status = r.status /\ n.head = r.head
        /\ n.candidate = r.candidate /\ n.message = r.message /\ n.commit = r.commit
    BY <1>5, RevisionFields
  <1>7. ledger' = [ledger EXCEPT ![UnitOf(p)][proc[p].attempt] = n]
    BY <1>4, <1>5 DEF CompareAndSet
  <1>8. QED
    BY <1>2, <1>3, <1>4, <1>6, <1>7

\* begin-main-unit opens a unit in one step, that of its ledger.
LEMMA BeginMaps ==
    ASSUME SafetyInv, NEW p \in Procs, Begin(p)
    PROVE  StepMaps
  <1>1. CASE BeginOpen(p)
    <2> DEFINE u == UnitOf(p)
               a == proc[p].attempt
               record == [NoRecord EXCEPT !.status = "open", !.head = HeadCommit,
                                          !.outside = Diff(OutOfScope(u))]
    <2>1. UNCHANGED commits /\ proc[p].pc = "begin_open"
      BY <1>1 DEF BeginOpen, worktreeVars, At
    <2>2. CASE LedgerConflict(p, a, 0)
      BY <2>1, <2>2, StutterMaps DEF LedgerConflict
    <2>3. CASE CompareAndSet(u, a, 0, record)
      <3>1. u \in Units /\ a \in Attempts
        BY LocalsAccess DEF SafetyInv
      <3>2. PICK r \in Records : r = record
        <4>1. HeadCommit \in Nat /\ Diff(OutOfScope(u)) \in Diffs
          BY HeadType, DiffType DEF SafetyInv, OutOfScope
        <4>2. QED
          BY <4>1, NoRecordType DEF Records, Statuses
      <3>3. r.status = "open" /\ r.commit = 0
        BY <3>2 DEF NoRecord
      <3>4. PICK n \in Records : n = [r EXCEPT !.rev = 0 + 1]
        BY RevisionType
      <3>5. n.rev > 0 /\ n.status = "open" /\ n.commit = 0
        BY <3>3, <3>4, RevisionFields
      <3>6. ledger[u][a] = NoRecord
        BY <2>3, <3>1 DEF CompareAndSet, SafetyInv, LedgerInv, RecordOK
      <3>7. EarlierHeld(u, a)
        BY <2>1, LocalsOK DEF StepOK, UnitOf
      <3>8. ledger' = [ledger EXCEPT ![u][a] = n]
        BY <2>3, <3>2, <3>4 DEF CompareAndSet
      <3>9. ledger[u][a].status = "absent" /\ n.commit = ledger[u][a].commit
        BY <3>5, <3>6, NoRecordFields
      <3>10. Transaction!Open(u)
        BY <2>1, <3>1, <3>5, <3>7, <3>8, <3>9, OpenMaps
      <3>11. QED
        BY <3>1, <3>10 DEF StepMaps, Transaction!Next
    <2>4. QED
      BY <1>1, <2>2, <2>3 DEF BeginOpen
  <1>2. CASE ~ BeginOpen(p)
    <2>1. UNCHANGED <<ledger, commits>>
      BY <1>2 DEF Begin, BeginLoad, BeginSync, BeginInspect, BeginRepair, BeginRepairHeld,
                  BeginBranch, BeginCheck, BeginSave, BeginLogRead, BeginLogWrite, Save,
                  ReadLog, AppendLog, PrepareBranch, worktreeVars
    <2>2. QED
      BY <2>1, StutterMaps
  <1>3. QED
    BY <1>1, <1>2

\* Recording a completion lands the unit with the commit that was judged.
LEMMA FinishCompleteMaps ==
    ASSUME SafetyInv, CandidateInv, NEW p \in Procs, FinishComplete(p)
    PROVE  StepMaps
  <1> DEFINE u == UnitOf(p)
             a == proc[p].attempt
             seen == proc[p].seen
             completed == [seen EXCEPT !.status = "completed", !.commit = proc[p].commit]
  <1>1. UNCHANGED commits /\ proc[p].pc = "finish_complete"
    BY DEF FinishComplete, worktreeVars, At
  <1>2. u \in Units /\ a \in Attempts /\ seen \in Records /\ proc[p].commit \in Nat
    BY LocalsAccess DEF SafetyInv
  <1>3. CASE LedgerConflict(p, a, seen.rev)
    BY <1>1, <1>3, StutterMaps DEF LedgerConflict
  <1>4. CASE CompareAndSet(u, a, seen.rev, completed)
    <2>1. PICK r \in Records : r = completed
      BY <1>2 DEF Records, Statuses
    <2>2. /\ r.status = "completed" /\ r.head = seen.head /\ r.candidate = seen.candidate
          /\ r.message = seen.message /\ r.commit = proc[p].commit
      BY <1>2, <2>1 DEF Records
    <2>3. CompareAndSet(u, a, seen.rev, r)
      BY <1>4, <2>1
    <2>4. proc[p].pc \in OpenSteps \cup SealedSteps
      BY <1>1 DEF SealedSteps
    <2>5. ledger[u][a] = seen /\ seen.rev > 0
      BY <2>3, <2>4, WritesNextRevision
    <2>6. PICK n \in Records :
             /\ ledger' = [ledger EXCEPT ![u][a] = n]
             /\ n.rev > 0 /\ n.status = r.status /\ n.head = r.head
             /\ n.candidate = r.candidate /\ n.message = r.message /\ n.commit = r.commit
      BY <2>3, <2>4, WritesNextRevision
    <2>7. seen.status = "committing"
      BY <1>1, LocalsOK DEF StepOK, SealedSteps
    <2>8. Matches(proc[p].commit, seen)
      BY <1>1 DEF CandidateInv, JudgedInv, At
    <2>9. /\ ledger[u][a].rev > 0 /\ ledger[u][a].status = "committing"
          /\ n.status = "completed" /\ n.head = ledger[u][a].head
          /\ n.candidate = ledger[u][a].candidate /\ n.message = ledger[u][a].message
          /\ Matches(n.commit, ledger[u][a])
      BY <2>2, <2>5, <2>6, <2>7, <2>8
    <2>10. Transaction!Land(u)
      BY <1>1, <1>2, <2>6, <2>9, LandMaps
    <2>11. QED
      BY <1>2, <2>10 DEF StepMaps, Transaction!Next
  <1>5. QED
    BY <1>3, <1>4 DEF FinishComplete

\* Writing the ledger of a snapshot as held gives the candidate up.
LEMMA HoldingMaps ==
    ASSUME SafetyInv, UNCHANGED commits, NEW p \in Procs,
           proc[p].pc \in OpenSteps \cup SealedSteps, NEW r \in Records,
           r.status = "held", r.commit = proc[p].seen.commit,
           CompareAndSet(UnitOf(p), proc[p].attempt, proc[p].seen.rev, r)
    PROVE  StepMaps
  <1> DEFINE u == UnitOf(p)
             a == proc[p].attempt
  <1>1. u \in Units /\ a \in Attempts
    BY LocalsAccess DEF SafetyInv
  <1>2. ledger[u][a] = proc[p].seen /\ proc[p].seen.rev > 0
    BY WritesNextRevision
  <1>3. PICK n \in Records :
           /\ ledger' = [ledger EXCEPT ![u][a] = n]
           /\ n.rev > 0 /\ n.status = r.status /\ n.commit = r.commit
    BY WritesNextRevision
  <1>4. proc[p].seen.status \in {"open", "committing"}
    BY LocalsOK DEF StepOK
  <1>5. /\ ledger[u][a].rev > 0 /\ ledger[u][a].status \in {"open", "committing"}
        /\ n.status = "held" /\ n.commit = ledger[u][a].commit
    BY <1>2, <1>3, <1>4
  <1>6. Transaction!Hold(u)
    BY <1>1, <1>3, <1>5, HoldMaps
  <1>7. QED
    BY <1>1, <1>6 DEF StepMaps, Transaction!Next

\* Sealing the ledger seals the candidate.
LEMMA CompleteSealMaps ==
    ASSUME SafetyInv, NEW p \in Procs, CompleteSeal(p)
    PROVE  StepMaps
  <1> DEFINE u == UnitOf(p)
             a == proc[p].attempt
             seen == proc[p].seen
             paths == proc[p].paths
             sealed(m) == [seen EXCEPT !.status = "committing", !.kind = "patch",
                                       !.paths = paths,
                                       !.candidate = Changes(seen.head, work, paths),
                                       !.message = m]
  <1>1. UNCHANGED commits /\ proc[p].pc = "complete_seal"
    BY DEF CompleteSeal, worktreeVars, At
  <1>2. u \in Units /\ a \in Attempts /\ seen \in Records /\ paths \in SUBSET Paths
    BY LocalsAccess DEF SafetyInv
  <1>3. CASE LedgerConflict(p, a, seen.rev)
    BY <1>1, <1>3, StutterMaps DEF LedgerConflict
  <1>4. ASSUME NEW m \in Messages, CompareAndSet(u, a, seen.rev, sealed(m))
        PROVE  StepMaps
    <2>1. sealed(m) \in Records
      <3>1. Changes(seen.head, work, paths) \in Diffs
        BY <1>2, ChangesType DEF SafetyInv, TypeOK
      <3>2. QED
        BY <1>2, <3>1 DEF Records, Statuses
    <2>2. PICK r \in Records : r = sealed(m)
      BY <2>1
    <2>3. r.status = "committing" /\ r.message = m /\ r.commit = seen.commit
      BY <1>2, <2>2 DEF Records
    <2>4. CompareAndSet(u, a, seen.rev, r)
      BY <1>4, <2>2
    <2>5. proc[p].pc \in OpenSteps \cup SealedSteps
      BY <1>1 DEF OpenSteps
    <2>6. ledger[u][a] = seen /\ seen.rev > 0
      BY <2>4, <2>5, WritesNextRevision
    <2>7. PICK n \in Records :
             /\ ledger' = [ledger EXCEPT ![u][a] = n]
             /\ n.rev > 0 /\ n.status = r.status /\ n.message = r.message
             /\ n.commit = r.commit
      BY <2>4, <2>5, WritesNextRevision
    <2>8. seen.status = "open"
      BY <1>1, LocalsOK DEF StepOK, OpenSteps
    <2>9. /\ ledger[u][a].rev > 0 /\ ledger[u][a].status = "open"
          /\ n.status = "committing" /\ n.commit = ledger[u][a].commit
          /\ n.message \in Messages
      BY <2>3, <2>6, <2>7, <2>8
    <2>10. Transaction!Seal(u)
      BY <1>1, <1>2, <2>7, <2>9, SealMaps
    <2>11. QED
      BY <1>2, <2>10 DEF StepMaps, Transaction!Next
  <1>5. QED
    BY <1>3, <1>4 DEF CompleteSeal

\* complete-main-unit seals, commits, lands or holds; its other steps show
\* nothing.
LEMMA CompleteMaps ==
    ASSUME SafetyInv, CandidateInv, NEW p \in Procs, Complete(p)
    PROVE  StepMaps
  <1>1. CASE CompleteSeal(p)
    BY <1>1, CompleteSealMaps
  <1>2. CASE FinishComplete(p)
    BY <1>2, FinishCompleteMaps
  <1>3. CASE FinishCommit(p)
    <2>1. UNCHANGED ledger
      BY <1>3 DEF FinishCommit
    <2>2. CASE UNCHANGED worktreeVars
      BY <2>1, <2>2, StutterMaps DEF worktreeVars
    <2>3. CASE CommitPaths(proc[p].seen.paths, proc[p].seen.message,
                           <<UnitOf(p), proc[p].attempt>>)
      <3>1. proc[p].seen \in Records
        BY LocalsAccess DEF SafetyInv
      <3>2. proc[p].seen.paths \in SUBSET Paths
        BY <3>1 DEF Records
      <3>3. Transaction!Grow
        BY <2>1, <2>3, <3>2, GrowMaps
      <3>4. QED
        BY <3>3 DEF StepMaps, Transaction!Next
    <2>4. QED
      BY <1>3, <2>2, <2>3 DEF FinishCommit
  <1>4. CASE ProtocolHold(p)
    <2> DEFINE seen == proc[p].seen
               held == [seen EXCEPT !.status = "held", !.class = Protocol]
    <2>1. UNCHANGED commits /\ proc[p].pc \in OpenSteps \cup SealedSteps
      BY <1>4 DEF ProtocolHold, worktreeVars, At, SealedSteps
    <2>2. CASE LedgerConflict(p, proc[p].attempt, seen.rev)
      BY <2>1, <2>2, StutterMaps DEF LedgerConflict
    <2>3. CASE CompareAndSet(UnitOf(p), proc[p].attempt, seen.rev, held)
      <3>1. seen \in Records
        BY LocalsAccess DEF SafetyInv
      <3>2. held \in Records /\ held.status = "held" /\ held.commit = seen.commit
        BY <3>1 DEF Records, Statuses
      <3>3. QED
        BY <2>1, <2>3, <3>2, HoldingMaps
    <2>4. QED
      BY <1>4, <2>2, <2>3 DEF ProtocolHold
  <1>5. CASE ~ (CompleteSeal(p) \/ FinishComplete(p) \/ FinishCommit(p) \/ ProtocolHold(p))
    <2>1. UNCHANGED <<ledger, commits>>
      BY <1>5 DEF Complete, CompleteLoad, CompleteSync, CompleteInspect, CompleteRepair,
                  CompleteVerify, FinishCheck, FinishStage, FinishObserve, FinishSave,
                  FinishLogRead, FinishLogWrite, ProtocolSave, Save, ReadLog, AppendLog,
                  worktreeVars
    <2>2. QED
      BY <2>1, StutterMaps
  <1>6. QED
    BY <1>1, <1>2, <1>3, <1>4, <1>5

\* hold-main-unit holds; its other steps show nothing.
LEMMA HoldCommandMaps ==
    ASSUME SafetyInv, NEW p \in Procs, Hold(p)
    PROVE  StepMaps
  <1>1. CASE HoldRecord(p)
    <2> DEFINE seen == proc[p].seen
               inScope == Allowed[UnitOf(p)]
               held(class) == [seen EXCEPT !.status = "held", !.class = class,
                                           !.kind = "scoped", !.paths = Dirty(inScope),
                                           !.candidate = Diff(inScope)]
    <2>1. UNCHANGED commits /\ proc[p].pc \in OpenSteps \cup SealedSteps
      BY <1>1 DEF HoldRecord, worktreeVars, At, OpenSteps
    <2>2. CASE LedgerConflict(p, proc[p].attempt, seen.rev)
      BY <2>1, <2>2, StutterMaps DEF LedgerConflict
    <2>3. ASSUME NEW class \in FailureClasses,
                 CompareAndSet(UnitOf(p), proc[p].attempt, seen.rev, held(class))
          PROVE  StepMaps
      <3>1. seen \in Records /\ UnitOf(p) \in Units
        BY LocalsAccess DEF SafetyInv
      <3>2. Dirty(inScope) \in SUBSET Paths /\ Diff(inScope) \in Diffs
        BY <3>1, AllowedAssumption, DiffType DEF SafetyInv
      <3>3. held(class) \in Records
        BY <3>1, <3>2 DEF Records, Statuses
      <3>4. held(class).status = "held" /\ held(class).commit = seen.commit
        BY <3>1 DEF Records
      <3>5. QED
        BY <2>1, <2>3, <3>3, <3>4, HoldingMaps
    <2>4. QED
      BY <1>1, <2>2, <2>3 DEF HoldRecord
  <1>2. CASE ~ HoldRecord(p)
    <2>1. UNCHANGED <<ledger, commits>>
      BY <1>2 DEF Hold, HoldLoad, HoldSync, HoldInspect, HoldSave, HoldLogRead, HoldLogWrite,
                  Save, ReadLog, AppendLog, worktreeVars
    <2>2. QED
      BY <2>1, StutterMaps
  <1>3. QED
    BY <1>1, <1>2

\* Edits by others show nothing, their commits grow the history.
LEMMA EnvironmentMaps ==
    ASSUME SafetyInv, Environment
    PROVE  StepMaps
  <1>1. UNCHANGED ledger
    BY DEF Environment
  <1>2. CASE \E x \in Paths : Edit(x)
    BY <1>1, <1>2, StutterMaps DEF Edit
  <1>3. CASE OutsideCommit
    <2>1. PICK S \in SUBSET Dirty(Paths), m \in Messages : CommitPaths(S, m, Outsider)
      BY <1>3 DEF OutsideCommit
    <2>2. S \in SUBSET Paths
      BY DEF Dirty
    <2>3. Transaction!Grow
      BY <1>1, <2>1, <2>2, GrowMaps
    <2>4. QED
      BY <2>3 DEF StepMaps, Transaction!Next
  <1>4. QED
    BY <1>2, <1>3 DEF Environment

\* Every step of every command maps to an abstract step of its unit or to none.
LEMMA NextMaps == SafetyInv /\ CandidateInv /\ [Next]_vars => StepMaps
  <1> SUFFICES ASSUME SafetyInv, CandidateInv, [Next]_vars
               PROVE  StepMaps
    OBVIOUS
  <1>1. ASSUME NEW p \in Procs, Crash(p)
        PROVE  StepMaps
    BY <1>1, StutterMaps DEF Crash, worktreeVars
  <1>2. CASE UNCHANGED vars
    BY <1>2, StutterMaps DEF vars
  <1>3. QED
    BY <1>1, <1>2, BeginMaps, CompleteMaps, HoldCommandMaps, EnvironmentMaps DEF Next

\* The commands of any number of processes, interleaved and interrupted at any
\* step while others edit and commit, implement the abstract transaction of
\* every unit: one attempt after the other, one sealed candidate each, and no
\* completion but with a commit that carries exactly the sealed candidate.
THEOREM TransactionImplemented == Spec => ImplementsTransaction
  <1>1. StepMaps =>
          [Transaction!Next]_<<[u \in Units |-> NewestRecord(u).status],
                               [u \in Units |-> IF Written(u) = {} THEN 0 ELSE Newest(u)],
                               [u \in Units |->
                                  IF NewestRecord(u).status \in {"committing", "completed"}
                                  THEN [parent |-> NewestRecord(u).head,
                                        patch |-> NewestRecord(u).candidate,
                                        message |-> NewestRecord(u).message]
                                  ELSE NoCandidate],
                               [u \in Units |-> NewestRecord(u).commit],
                               [c \in 1..Len(commits) |->
                                  [parent |-> commits[c].parent, message |-> commits[c].message,
                                   patch |-> Changes(commits[c].parent, Tree(c), Paths)]]>>
    BY MappingHolds, MappingHoldsNext DEF StepMaps, Mapping, historyBar
  <1>2. QED
    BY <1>1, InitMaps, SafetyInit, SafetyNext, CandidateInit, CandidateNext, NextMaps, PTL
    DEF Spec, ImplementsTransaction, Transaction!Spec
=============================================================================
