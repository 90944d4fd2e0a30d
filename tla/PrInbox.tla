------------------------------- MODULE PrInbox -------------------------------
(***************************************************************************)
(* The PR lock and the inbox of one repository (codex_flow/pr.py,          *)
(* codex_flow/inbox.py and the route command of codex_flow/cli.py).        *)
(*                                                                         *)
(* A lock file names the draft pull request under review.  While it is     *)
(* there, a source plan that is routed is queued in the inbox, and `drain` *)
(* makes plans of what was queued once the lock is gone.  Processes give   *)
(* the commands and may die; a person sets, clears and merges meanwhile.   *)
(* Both files are written in place: truncated first, then filled.          *)
(***************************************************************************)
EXTENDS FiniteSets, Naturals, SequencesExt

CONSTANTS
    Procs,      \* processes that give commands
    Sources,    \* source plans; each is routed until it is accepted
    Branches,   \* branches of complete plans; each gets one pull request
    MaxDeaths   \* bound: processes that die

VARIABLES
    lock,       \* the branch locks/pr-lock.md names, if it is there and readable
    pulls,      \* the pull request of each branch, on GitHub
    inbox,      \* the requests of the inbox file, in order
    plans,      \* the plans made, in order, each of a source
    accepted,   \* sources a route command has queued or planned
    pc, doing,  \* of every process: its step, and the command
    mine,       \* the branch or the source the command is about
    read,       \* the requests it has read
    deaths,
    lost,       \* ghost: requests the inbox held when a rewrite of it died
    bare        \* ghost: branches whose pull request was left without its lock

files == <<lock, inbox, plans>>
local == <<doing, mine, read>>
ghosts == <<lost, bare>>
vars == <<files, pulls, accepted, pc, local, deaths, ghosts>>

NoBranch == "none"
Unreadable == "unreadable"
Commands == {"route", "drain", "create-pr", "pr-check", "merge"}
Steps == {"idle", "lock", "view", "unlock", "read", "append", "fill-append", "look", "busy",
          "put-back", "fill-back", "route-one", "rest", "fill-rest", "gh", "write-lock",
          "fill-lock", "ensure-pr", "merge-pr", "clear-lock"}

TypeOK ==
    /\ lock \in Branches \cup {NoBranch, Unreadable}
    /\ pulls \in [Branches -> {"none", "open", "merged"}]
    /\ \A i \in DOMAIN inbox : inbox[i] \in Sources
    /\ \A i \in DOMAIN plans : plans[i] \in Sources
    /\ accepted \subseteq Sources /\ lost \subseteq Sources /\ bare \subseteq Branches
    /\ pc \in [Procs -> Steps] /\ doing \in [Procs -> Commands]
    /\ mine \in [Procs -> Branches \cup Sources \cup {NoBranch}]
    /\ \A p \in Procs : \A i \in DOMAIN read[p] : read[p][i] \in Sources
    /\ deaths \in 0..MaxDeaths

Init ==
    /\ lock = NoBranch /\ pulls = [b \in Branches |-> "none"]
    /\ inbox = <<>> /\ plans = <<>> /\ accepted = {}
    /\ pc = [p \in Procs |-> "idle"] /\ doing = [p \in Procs |-> "drain"]
    /\ mine = [p \in Procs |-> NoBranch] /\ read = [p \in Procs |-> <<>>]
    /\ deaths = 0 /\ lost = {} /\ bare = {}

Goto(p, step) == pc' = [pc EXCEPT ![p] = step]
Idle == \A p \in Procs : pc[p] = "idle"

-----------------------------------------------------------------------------
(* The PR lock: create-pr, pr-check and merge --remote                      *)

Give(p) ==
    /\ pc[p] = "idle"
    /\ \E command \in Commands :
          /\ doing' = [doing EXCEPT ![p] = command]
          /\ \/ command \in {"drain", "pr-check"} /\ UNCHANGED mine
             \/ command \in {"create-pr", "merge"} /\ \E b \in Branches :
                   mine' = [mine EXCEPT ![p] = b]
             \/ command = "route" /\ \E s \in Sources \ accepted :
                   mine' = [mine EXCEPT ![p] = s]
    /\ Goto(p, "lock")
    /\ UNCHANGED <<files, pulls, accepted, read, deaths, ghosts>>

\* The lock at the head of every command.  A merge goes on with its own lock;
\* pr-check has nothing to ask about a lock that names no pull request.
ReadLock(p) ==
    /\ pc[p] = "lock"
    /\ LET locked == lock # NoBranch
       IN  \/ doing[p] = "drain" /\ Goto(p, IF locked THEN "idle" ELSE "read") /\ UNCHANGED mine
           \/ doing[p] = "create-pr" /\ Goto(p, IF locked THEN "idle" ELSE "gh") /\ UNCHANGED mine
           \/ doing[p] = "route" /\ Goto(p, IF locked THEN "read" ELSE "route-one") /\ UNCHANGED mine
           \/ /\ doing[p] = "merge" /\ UNCHANGED mine
              /\ Goto(p, IF locked /\ lock # mine[p] THEN "idle" ELSE "ensure-pr")
           \/ /\ doing[p] = "pr-check"
              /\ Goto(p, IF lock \in Branches THEN "view" ELSE "idle")
              /\ mine' = IF lock \in Branches THEN [mine EXCEPT ![p] = lock] ELSE mine
    /\ UNCHANGED <<files, pulls, accepted, doing, read, deaths, ghosts>>

\* gh pr create; it refuses a second pull request of a branch.  When no URL is
\* found in what it prints, the command ends and the pull request is open.
CreatePr(p) ==
    /\ pc[p] = "gh"
    /\ \/ /\ pulls[mine[p]] = "none"
          /\ pulls' = [pulls EXCEPT ![mine[p]] = "open"]
          /\ \/ Goto(p, "write-lock") /\ UNCHANGED bare
             \/ Goto(p, "idle") /\ bare' = bare \cup {mine[p]}
       \/ Goto(p, "idle") /\ UNCHANGED <<pulls, bare>>
    /\ UNCHANGED <<files, accepted, local, deaths, lost>>

\* write_pr_lock truncates the file and then writes it.
CutLock(p) ==
    /\ pc[p] = "write-lock"
    /\ lock' = Unreadable
    /\ Goto(p, "fill-lock")
    /\ UNCHANGED <<inbox, plans, pulls, accepted, local, deaths, ghosts>>

\* What parse_pr_lock finds in the text of write_pr_lock.
LockText(branch) == branch

WriteLock(p) ==
    /\ pc[p] = "fill-lock"
    /\ lock' = LockText(mine[p])
    /\ Goto(p, "idle")
    /\ UNCHANGED <<inbox, plans, pulls, accepted, local, deaths, ghosts>>

\* Mutant: an answer of GitHub is enough.
Answered(b) == TRUE

\* check_pr_lock asks GitHub about the pull request of the lock it has read.
Merged(b) == pulls[b] = "merged"

View(p) ==
    /\ pc[p] = "view"
    /\ \/ Goto(p, IF Merged(mine[p]) THEN "unlock" ELSE "idle")
       \/ Goto(p, "idle")
    /\ UNCHANGED <<files, pulls, accepted, local, deaths, ghosts>>

\* clear_pr_lock, and the drain that follows it.
Unlock(p) ==
    /\ pc[p] = "unlock"
    /\ lock' = NoBranch
    /\ doing' = [doing EXCEPT ![p] = "drain"]
    /\ Goto(p, "lock")
    /\ UNCHANGED <<inbox, plans, pulls, accepted, mine, read, deaths, ghosts>>

\* ensure_remote_pr: the open pull request, or a new one, which gets no lock.
EnsurePr(p) ==
    /\ pc[p] = "ensure-pr"
    /\ \/ pulls[mine[p]] = "open" /\ Goto(p, "merge-pr") /\ UNCHANGED <<pulls, bare>>
       \/ /\ pulls[mine[p]] = "none"
          /\ pulls' = [pulls EXCEPT ![mine[p]] = "open"]
          /\ bare' = bare \cup {mine[p]}
          /\ \E next \in {"merge-pr", "idle"} : Goto(p, next)
       \/ Goto(p, "idle") /\ UNCHANGED <<pulls, bare>>
    /\ UNCHANGED <<files, accepted, local, deaths, lost>>

\* gh pr merge.
MergePr(p) ==
    /\ pc[p] = "merge-pr"
    /\ \/ pulls' = [pulls EXCEPT ![mine[p]] = "merged"] /\ Goto(p, "clear-lock")
       \/ Goto(p, "idle") /\ UNCHANGED pulls
    /\ UNCHANGED <<files, accepted, local, deaths, ghosts>>

\* clear_matching_pr_lock.
ClearMatching(p) ==
    /\ pc[p] = "clear-lock"
    /\ lock' = IF lock = mine[p] THEN NoBranch ELSE lock
    /\ Goto(p, "idle")
    /\ UNCHANGED <<inbox, plans, pulls, accepted, local, deaths, ghosts>>

-----------------------------------------------------------------------------
(* The inbox                                                                *)

\* read_inbox_requests: for a route that is deferred, or for a drain.
ReadInbox(p) ==
    /\ pc[p] = "read"
    /\ read' = [read EXCEPT ![p] = inbox]
    /\ Goto(p, IF doing[p] = "route" THEN "append" ELSE IF inbox = <<>> THEN "idle" ELSE "look")
    /\ UNCHANGED <<files, pulls, accepted, doing, mine, deaths, ghosts>>

\* write_inbox_requests truncates the file and then writes it.
CutInbox(p, step, fill) ==
    /\ pc[p] = step
    /\ inbox' = <<>>
    /\ Goto(p, fill)
    /\ UNCHANGED <<lock, plans, pulls, accepted, local, deaths, ghosts>>

\* append_inbox_request writes what it has read and its own request.
Append1(p) ==
    /\ pc[p] = "fill-append"
    /\ inbox' = Append(read[p], mine[p])
    /\ accepted' = accepted \cup {mine[p]}
    /\ Goto(p, "idle")
    /\ UNCHANGED <<lock, plans, pulls, local, deaths, ghosts>>

\* drain_inbox_requests asks has_lock before it starts and before every
\* request: when there is one by then, what is left is written back.
CheckBusy(p) ==
    /\ \/ pc[p] = "look" /\ Goto(p, IF lock # NoBranch THEN "idle" ELSE "busy")
       \/ pc[p] = "busy" /\ Goto(p, IF lock # NoBranch THEN "put-back" ELSE "route-one")
    /\ UNCHANGED <<files, pulls, accepted, local, deaths, ghosts>>

PutBack(p) ==
    /\ pc[p] = "fill-back"
    /\ inbox' = read[p]
    /\ Goto(p, "idle")
    /\ UNCHANGED <<lock, plans, pulls, accepted, local, deaths, ghosts>>

\* create_plan_from_source of the request at hand: a plan of its own every
\* time, whatever plan the source has already.  A request whose source is not
\* there any more ends the drain and stays.
RouteOne(p) ==
    /\ pc[p] = "route-one"
    /\ LET source == IF doing[p] = "route" THEN mine[p] ELSE Head(read[p])
       IN  \/ /\ plans' = Append(plans, source)
              /\ accepted' = accepted \cup {source}
              /\ Goto(p, IF doing[p] = "route" THEN "idle" ELSE "rest")
           \/ doing[p] = "drain" /\ Goto(p, "idle") /\ UNCHANGED <<plans, accepted>>
    /\ UNCHANGED <<lock, inbox, pulls, local, deaths, ghosts>>

\* Mutant: the request that was routed is written back.
RestWithHead(requests) == requests

\* requests[index + 1 :]
Rest(requests) == Tail(requests)

WriteRest(p) ==
    /\ pc[p] = "fill-rest"
    /\ inbox' = Rest(read[p])
    /\ read' = [read EXCEPT ![p] = Tail(@)]
    /\ Goto(p, IF Len(read[p]) = 1 THEN "idle" ELSE "busy")
    /\ UNCHANGED <<lock, plans, pulls, accepted, doing, mine, deaths, ghosts>>

-----------------------------------------------------------------------------
(* What happens around the commands                                         *)

\* Somebody merges the pull request.
Merge ==
    /\ \E b \in Branches : pulls[b] = "open" /\ pulls' = [pulls EXCEPT ![b] = "merged"]
    /\ UNCHANGED <<files, accepted, pc, local, deaths, ghosts>>

\* set-pr-lock, in another terminal.  The lock that was there is gone; the one
\* that is set counts unless a command under way may know nothing of it, or
\* set-pr-lock dies between the truncation and the text.
Bared == bare \cup ({lock} \cap Branches)

SetLock ==
    /\ \E b \in Branches :
          \/ lock' = LockText(b) /\ bare' = IF Idle THEN Bared \ {b} ELSE Bared \cup {b}
          \/ lock' = Unreadable /\ bare' = Bared
    /\ UNCHANGED <<inbox, plans, pulls, accepted, pc, local, deaths, lost>>

\* clear-pr-lock, whatever the lock names.
ClearLock ==
    /\ lock' = NoBranch /\ bare' = Bared
    /\ UNCHANGED <<inbox, plans, pulls, accepted, pc, local, deaths, lost>>

Die(p) ==
    /\ pc[p] # "idle" /\ deaths < MaxDeaths
    /\ Goto(p, "idle")
    /\ deaths' = deaths + 1
    /\ lost' = IF pc[p] \in {"fill-append", "fill-back", "fill-rest"}
               THEN lost \cup Range(read[p]) ELSE lost
    /\ bare' = IF pc[p] \in {"write-lock", "fill-lock"} THEN bare \cup {mine[p]} ELSE bare
    /\ UNCHANGED <<files, pulls, accepted, local>>

Work(p) ==
    \/ ReadLock(p) \/ CreatePr(p) \/ CutLock(p) \/ WriteLock(p) \/ View(p) \/ Unlock(p)
    \/ EnsurePr(p) \/ MergePr(p) \/ ClearMatching(p)
    \/ ReadInbox(p) \/ CutInbox(p, "append", "fill-append") \/ Append1(p)
    \/ CheckBusy(p) \/ CutInbox(p, "put-back", "fill-back") \/ PutBack(p)
    \/ RouteOne(p) \/ CutInbox(p, "rest", "fill-rest") \/ WriteRest(p)

Next == Merge \/ SetLock \/ ClearLock \/ \E p \in Procs : Give(p) \/ Work(p) \/ Die(p)

Spec == Init /\ [][Next]_vars

-----------------------------------------------------------------------------
(* Properties                                                               *)

\* A source that was accepted is in the inbox or has its plan when no command
\* is under way, wherever commands have died: only a death between the
\* truncation of the inbox and its text loses requests, and only those that
\* the inbox held by then.
RequestsKept == Idle => accepted \subseteq Range(inbox) \cup Range(plans) \cup lost

\* A request makes one plan and leaves the inbox then; a command that dies
\* makes at most one plan too many, or leaves at most one request that will.
RoutedOnce ==
    Idle => Len(plans) - Cardinality(Range(plans)) + Cardinality(Range(inbox) \cap Range(plans))
               <= deaths

\* The lock names the pull request that is open, unless that one never got its
\* lock (no URL was found, merge --remote has opened it, a command died before
\* the lock was written) or a person has taken its lock away: no command
\* removes or replaces the lock of a pull request that is still open.
LockCoversOpen == Idle => \A b \in Branches : pulls[b] = "open" => lock = b \/ b \in bare
=============================================================================
