---------------------------- MODULE LoginManager ----------------------------
(***************************************************************************)
(* The lockout guard: the auth commands of internal/session and            *)
(* internal/cli on the two files they keep in the config directory,        *)
(* login-attempt.json and session.json.  Every command holds the directory *)
(* lock while it runs, may be killed or meet an I/O error at every step,   *)
(* and the machine may lose power at any moment.                           *)
(*                                                                         *)
(* The replacement of a file is two steps, the rename and the directory    *)
(* sync (DurableFile); what happens before the rename is SecureWrite's.    *)
(* The lock is one atomic step here; its polling loop is ConfigLock's.     *)
(***************************************************************************)
EXTENDS Integers, FiniteSets

CONSTANTS
  Procs,         \* the fnb processes of one config directory
  NoProc,        \* nobody holds the lock
  NoAttempt,     \* login-attempt.json does not exist
  NoSession,     \* session.json does not exist, or no session is at hand
  FailureKinds,  \* outcomes that are neither success nor approval_pending
  Commands,      \* the commands the processes may run
  Faults,        \* the faults that may happen
  Interval,      \* CredentialInterval
  Lifetime,      \* the store's lifetime; 0 means sessions never expire
  MaxTime        \* bound: the clock stops there

Approvals == {"approved", "declined", "expired"}
AllCommands == {"login", "preflight", "clear", "logout", "status"} \union Approvals
AllFaults == {"kill", "io_error", "power_loss"}

ASSUME LoginManagerAssumption ==
  /\ NoProc \notin Procs
  /\ Interval \in Nat /\ Lifetime \in Nat /\ MaxTime \in Nat
  /\ Commands \subseteq AllCommands
  /\ Faults \subseteq AllFaults
  /\ FailureKinds \intersect ({"none", "approval_pending"} \union Approvals) = {}

Never == -1

Attempt == [state  : {"in_flight", "blocked", "ok"},
            reason : {"none", "approval_pending", "declined", "expired"}
                       \union FailureKinds,
            last   : Nat]
Session == [created : Nat, pending : BOOLEAN]

ASSUME SentinelAssumption == NoAttempt \notin Attempt /\ NoSession \notin Session

VARIABLES
  now,         \* the clock, which all processes read
  lock,        \* the process that holds the directory lock
  pc, cmd,     \* where each process is, and the command it runs
  mine,        \* the Attempt each process has in memory
  kept,        \* the Session each process has in memory
  att, attDisk,   \* login-attempt.json: visible, and surviving a power loss
  ses, sesDisk,   \* session.json likewise
  unresolved,  \* history: a login was submitted and nothing has resolved it
  lastStart,   \* history: when the latest submitted login started
  loggedOut    \* history: whether a logout has succeeded since a session was
               \* last saved, and whether it removed one or found none

locals  == <<cmd, mine, kept>>
attFile == <<att, attDisk>>
sesFile == <<ses, sesDisk>>
history == <<unresolved, lastStart, loggedOut>>
vars == <<now, lock, pc, locals, attFile, sesFile, history>>

AttemptFile == INSTANCE DurableFile
  WITH Contents <- Attempt \union {NoAttempt}, val <- att, disk <- attDisk
SessionFile == INSTANCE DurableFile
  WITH Contents <- Session \union {NoSession}, val <- ses, disk <- sesDisk

-----------------------------------------------------------------------------
(* What the code tests. *)

\* The states of the attempt file in which no login may be submitted.
Blocks(a) == a # NoAttempt /\ a.state \in {"in_flight", "blocked"}

\* CredentialInterval has passed since the login that a records.
Spaced(a) == a # NoAttempt => now >= a.last + Interval

\* Mutant: the rate guard alone.
PreflightIgnoresState == Spaced(att)

PreflightPasses == ~Blocks(att) /\ Spaced(att)

\* LoadSession's test: the session has reached the store's lifetime.
Expired(s) == Lifetime > 0 /\ now >= s.created + Lifetime

\* Mutant: a pending approval is taken for a proven success.
PendingIsOk(kind, last) ==
  [state  |-> IF kind \in FailureKinds THEN "blocked" ELSE "ok",
   reason |-> IF kind = "success" THEN "none" ELSE kind,
   last   |-> last]

\* The attempt that Login saves for an outcome of the submission.
OutcomeRecord(kind, last) ==
  [state  |-> CASE kind = "success"          -> "ok"
                [] kind = "approval_pending" -> "in_flight"
                [] OTHER                     -> "blocked",
   reason |-> IF kind = "success" THEN "none" ELSE kind,
   last   |-> last]

\* The attempt that ResolveApproval saves over the attempt a.
ResolutionRecord(resolution, a) ==
  IF resolution = "approved"
  THEN [a EXCEPT !.state = "ok", !.reason = "none"]
  ELSE [a EXCEPT !.state = "blocked", !.reason = resolution]

\* Mutant: a fresh record, without the time of the last login.
ClearedAfresh(a) == [state |-> "ok", reason |-> "none", last |-> 0]

\* ClearLockout keeps the time of the last login, so the rate guard stands.
ClearedRecord(a) == [a EXCEPT !.state = "ok", !.reason = "none"]

\* Mutants: the approval flag stays; the session is created anew.
StillPending(s) == s
CreatedAnew(s) == [created |-> now, pending |-> FALSE]

\* The session that an approval saves again, as old as it was.
ApprovedSession(s) == [s EXCEPT !.pending = FALSE]

FirstStep(c) == CASE c \in {"login", "preflight"} -> "preflight"
                  [] c \in Approvals              -> "resolve"
                  [] c = "clear"                  -> "confirm"
                  [] c = "logout"                 -> "unlink"
                  [] c = "status"                 -> "load_session"

\* Status and logout are done with the session; an approval goes on to save
\* its attempt.
AfterSession(c) == IF c \in Approvals THEN "save_attempt" ELSE "release"

\* Mutant: a refused approval goes straight to its attempt.
KeepsSession(c) == IF c = "approved" THEN "load_session" ELSE "save_attempt"

\* ResolveApproval sees to the session before it saves the attempt.
ResolutionStep(c) == IF c = "approved" THEN "load_session" ELSE "unlink"

\* Mutant: the login is submitted as soon as the record is renamed.
SubmitsUnsynced(step) ==
  IF step = "save_inflight" THEN "submit" ELSE "sync_attempt"

AfterRename(step) ==
  IF step = "save_inflight" THEN "sync_inflight" ELSE "sync_attempt"

Steps == {"preflight", "stamp", "save_inflight", "sync_inflight", "submit",
          "await", "save_session", "sync_session", "save_attempt",
          "sync_attempt", "resolve", "load_session", "unlink", "sync_unlink",
          "confirm", "load_clear", "release"}

\* The steps that may end in an error: all but reading the clock and talking
\* to the bank, which always yields an outcome.
Fallible == Steps \ {"stamp", "submit", "await", "release"}

Init == /\ now = 0
        /\ lock = NoProc
        /\ pc = [p \in Procs |-> "idle"]
        /\ cmd = [p \in Procs |-> "none"]
        /\ mine = [p \in Procs |-> NoAttempt]
        /\ kept = [p \in Procs |-> NoSession]
        /\ att = NoAttempt /\ attDisk = {NoAttempt}
        /\ ses = NoSession /\ sesDisk = {NoSession}
        /\ unresolved = FALSE
        /\ lastStart = Never
        /\ loggedOut = "no"

At(p, step) == pc[p] = step
Goto(p, step) == pc' = [pc EXCEPT ![p] = step]

-----------------------------------------------------------------------------
(* openLockedConfig and its release. *)

Begin(p) == /\ At(p, "idle")
            /\ \E c \in Commands : cmd' = [cmd EXCEPT ![p] = c]
            /\ Goto(p, "wait")
            /\ UNCHANGED <<now, lock, mine, kept, attFile, sesFile, history>>

\* Mutant: the flock of another process does not stop this one.
AcquireUnlocked(p) == /\ At(p, "wait")
                      /\ lock' = p
                      /\ Goto(p, FirstStep(cmd[p]))
                      /\ UNCHANGED <<now, locals, attFile, sesFile, history>>

Acquire(p) == /\ At(p, "wait")
              /\ lock = NoProc
              /\ lock' = p
              /\ Goto(p, FirstStep(cmd[p]))
              /\ UNCHANGED <<now, locals, attFile, sesFile, history>>

Forget(p) == /\ cmd' = [cmd EXCEPT ![p] = "none"]
             /\ mine' = [mine EXCEPT ![p] = NoAttempt]
             /\ kept' = [kept EXCEPT ![p] = NoSession]

\* Contention for the whole timeout, or an error of AcquireLock.
Refuse(p) == /\ At(p, "wait")
             /\ Goto(p, "idle")
             /\ Forget(p)
             /\ UNCHANGED <<now, lock, attFile, sesFile, history>>

Release(p) == /\ At(p, "release")
              /\ lock' = NoProc
              /\ Goto(p, "idle")
              /\ Forget(p)
              /\ UNCHANGED <<now, attFile, sesFile, history>>

-----------------------------------------------------------------------------
(* LoginManager.Preflight and Login. *)

\* The shipped "auth login" command stops after Preflight (not_implemented).
Preflight(p) ==
  /\ At(p, "preflight")
  /\ Goto(p, IF PreflightPasses /\ cmd[p] = "login" THEN "stamp" ELSE "release")
  /\ UNCHANGED <<now, lock, locals, attFile, sesFile, history>>

\* Login reads the clock a second time for the in_flight record.
Stamp(p) ==
  /\ At(p, "stamp")
  /\ mine' = [mine EXCEPT ![p] =
                [state |-> "in_flight", reason |-> "none", last |-> now]]
  /\ Goto(p, "save_inflight")
  /\ UNCHANGED <<now, lock, cmd, kept, attFile, sesFile, history>>

Submit(p) == /\ At(p, "submit")
             /\ unresolved' = TRUE
             /\ lastStart' = mine[p].last
             /\ Goto(p, "await")
             /\ UNCHANGED <<now, lock, locals, attFile, sesFile, loggedOut>>

\* The submission returns.  A session that comes with it is saved first.
Outcome(p) ==
  /\ At(p, "await")
  /\ \E kind \in {"success", "approval_pending"} \union FailureKinds,
        withSession \in BOOLEAN :
       LET saves == withSession /\ kind \notin FailureKinds
       IN  /\ mine' = [mine EXCEPT ![p] = OutcomeRecord(kind, mine[p].last)]
           /\ kept' = [kept EXCEPT ![p] =
                IF saves THEN [created |-> now, pending |-> kind # "success"]
                         ELSE NoSession]
           /\ Goto(p, IF saves THEN "save_session" ELSE "save_attempt")
           /\ unresolved' = (unresolved /\ kind # "success")
  /\ UNCHANGED <<now, lock, cmd, attFile, sesFile, lastStart, loggedOut>>

-----------------------------------------------------------------------------
(* SaveAttempt and SaveSession: writeFile's rename, then its sync of the    *)
(* directory, which settles both entries.                                   *)

PublishAttempt(p) ==
  /\ pc[p] \in {"save_inflight", "save_attempt"}
  /\ AttemptFile!Publish(mine[p])
  /\ Goto(p, AfterRename(pc[p]))
  /\ UNCHANGED <<now, lock, locals, sesFile, history>>

PublishSession(p) ==
  /\ At(p, "save_session")
  /\ SessionFile!Publish(kept[p])
  /\ loggedOut' = "no"
  /\ Goto(p, "sync_session")
  /\ UNCHANGED <<now, lock, locals, attFile, unresolved, lastStart>>

\* Mutant: the directory is not synced.
NoSync == UNCHANGED <<attFile, sesFile>>

SyncDirectory == AttemptFile!Sync /\ SessionFile!Sync

SyncAfterSave(p) ==
  /\ pc[p] \in {"sync_inflight", "sync_session", "sync_attempt"}
  /\ SyncDirectory
  /\ Goto(p, CASE At(p, "sync_inflight") -> "submit"
               [] At(p, "sync_session")  -> "save_attempt"
               [] At(p, "sync_attempt")  -> "release")
  /\ UNCHANGED <<now, lock, locals, history>>

-----------------------------------------------------------------------------
(* DeleteSession, for logout, expiry and a declined or expired approval.    *)

\* A session that is already absent is reported deleted without a sync.
UnlinkSession(p) ==
  /\ At(p, "unlink")
  /\ IF ses = NoSession
     THEN /\ Goto(p, AfterSession(cmd[p]))
          /\ loggedOut' = IF cmd[p] = "logout" /\ loggedOut = "no"
                          THEN "absent" ELSE loggedOut
          /\ UNCHANGED sesFile
     ELSE /\ SessionFile!Publish(NoSession)
          /\ Goto(p, "sync_unlink")
          /\ UNCHANGED loggedOut
  /\ UNCHANGED <<now, lock, locals, attFile, unresolved, lastStart>>

SyncAfterUnlink(p) ==
  /\ At(p, "sync_unlink")
  /\ SyncDirectory
  /\ Goto(p, AfterSession(cmd[p]))
  /\ loggedOut' = IF cmd[p] = "logout" THEN "removed" ELSE loggedOut
  /\ UNCHANGED <<now, lock, locals, unresolved, lastStart>>

-----------------------------------------------------------------------------
(* ResolveApproval and the status command. *)

\* Only the state of the attempt is tested, not its reason.
ResolveApproval(p) ==
  /\ At(p, "resolve")
  /\ IF att # NoAttempt /\ att.state = "in_flight"
     THEN /\ mine' = [mine EXCEPT ![p] = ResolutionRecord(cmd[p], att)]
          /\ Goto(p, ResolutionStep(cmd[p]))
          /\ unresolved' = (unresolved /\ cmd[p] # "approved")
     ELSE /\ Goto(p, "release")
          /\ UNCHANGED <<mine, unresolved>>
  /\ UNCHANGED <<now, lock, cmd, kept, attFile, sesFile, lastStart, loggedOut>>

\* LoadSession deletes a session that has reached the lifetime.
LoadSession(p) ==
  /\ At(p, "load_session")
  /\ IF ses # NoSession /\ ~Expired(ses) /\ cmd[p] = "approved"
     THEN /\ kept' = [kept EXCEPT ![p] = ApprovedSession(ses)]
          /\ Goto(p, "save_session")
     ELSE /\ Goto(p, IF ses # NoSession /\ Expired(ses)
                     THEN "unlink" ELSE AfterSession(cmd[p]))
          /\ UNCHANGED kept
  /\ UNCHANGED <<now, lock, cmd, mine, attFile, sesFile, history>>

-----------------------------------------------------------------------------
(* ClearLockout: the owner is asked first, and the attempt is read after.   *)

Confirm(p) == /\ At(p, "confirm")
              /\ unresolved' = FALSE
              /\ Goto(p, "load_clear")
              /\ UNCHANGED <<now, lock, locals, attFile, sesFile, lastStart,
                             loggedOut>>

\* No terminal, or any answer but yes.
Unconfirmed(p) == /\ At(p, "confirm")
                  /\ Goto(p, "release")
                  /\ UNCHANGED <<now, lock, locals, attFile, sesFile, history>>

LoadToClear(p) ==
  /\ At(p, "load_clear")
  /\ IF att = NoAttempt
     THEN Goto(p, "release") /\ UNCHANGED mine
     ELSE /\ mine' = [mine EXCEPT ![p] = ClearedRecord(att)]
          /\ Goto(p, "save_attempt")
  /\ UNCHANGED <<now, lock, cmd, kept, attFile, sesFile, history>>

-----------------------------------------------------------------------------
(* Errors, deaths, power, time. *)

\* An error before a rename or a removal changes nothing; one of a directory
\* sync leaves the new entry visible and both entries possible on the medium.
Fail(p) == /\ "io_error" \in Faults
           /\ pc[p] \in Fallible
           /\ Goto(p, "release")
           /\ UNCHANGED <<now, lock, locals, attFile, sesFile, history>>

\* The kernel drops the flock of a process that dies.
Kill(p) == /\ "kill" \in Faults
           /\ ~At(p, "idle")
           /\ lock' = IF lock = p THEN NoProc ELSE lock
           /\ Goto(p, "idle")
           /\ Forget(p)
           /\ UNCHANGED <<now, attFile, sesFile, history>>

PowerLoss == /\ "power_loss" \in Faults
             /\ AttemptFile!PowerLoss
             /\ SessionFile!PowerLoss
             /\ lock' = NoProc
             /\ pc' = [p \in Procs |-> "idle"]
             /\ cmd' = [p \in Procs |-> "none"]
             /\ mine' = [p \in Procs |-> NoAttempt]
             /\ kept' = [p \in Procs |-> NoSession]
             /\ UNCHANGED <<now, history>>

Tick == /\ now < MaxTime
        /\ now' = now + 1
        /\ UNCHANGED <<lock, pc, locals, attFile, sesFile, history>>

LoginStep(p) == Preflight(p) \/ Stamp(p) \/ Submit(p) \/ Outcome(p)
FileStep(p) == \/ PublishAttempt(p) \/ PublishSession(p) \/ SyncAfterSave(p)
               \/ UnlinkSession(p) \/ SyncAfterUnlink(p)
ApprovalStep(p) == ResolveApproval(p) \/ LoadSession(p)
ClearStep(p) == Confirm(p) \/ Unconfirmed(p) \/ LoadToClear(p)
LockStep(p) == Begin(p) \/ Acquire(p) \/ Refuse(p) \/ Release(p)
FaultStep(p) == Fail(p) \/ Kill(p)

Next == \/ \E p \in Procs : \/ LockStep(p) \/ LoginStep(p) \/ FileStep(p)
                            \/ ApprovalStep(p) \/ ClearStep(p) \/ FaultStep(p)
        \/ PowerLoss
        \/ Tick

Spec == Init /\ [][Next]_vars
-----------------------------------------------------------------------------
(* What the lockout guard guarantees. *)

\* Types only.
TypeOK ==
  /\ now \in Nat
  /\ lock \in Procs \union {NoProc}
  /\ pc \in [Procs -> Steps \union {"idle", "wait"}]
  /\ cmd \in [Procs -> AllCommands \union {"none"}]
  /\ mine \in [Procs -> Attempt \union {NoAttempt}]
  /\ kept \in [Procs -> Session \union {NoSession}]
  /\ att \in Attempt \union {NoAttempt}
  /\ attDisk \subseteq Attempt \union {NoAttempt}
  /\ ses \in Session \union {NoSession}
  /\ sesDisk \subseteq Session \union {NoSession}
  /\ unresolved \in BOOLEAN
  /\ lastStart \in Nat \union {Never}
  /\ loggedOut \in {"no", "removed", "absent"}

\* Fail closed: from the moment a login goes to the bank until its outcome is
\* proved (success, approval, or the owner's word), no crash and no power loss
\* can bring back an attempt file that would let another login through.  About
\* Login's order of SaveAttempt, directory sync and Submit.
FailClosed == unresolved => \A a \in attDisk : Blocks(a)

\* The rate guard survives crashes and clear-lockout: every attempt file that
\* may come back records a login at least as late as the last one submitted.
\* About LastCredentialLoginAt in Login, ResolveApproval and ClearLockout.
RateSurvives ==
  lastStart # Never => \A a \in attDisk : a # NoAttempt /\ a.last >= lastStart

\* The commands implement the abstract gate: never a second submission while
\* one is unresolved, never two logins that start within Interval.  About
\* Preflight and Login under the lock of openLockedConfig.
Gate == INSTANCE CredentialGate
  WITH outstanding <- unresolved, last <- lastStart
GateSpec == Gate!Spec

\* Commands, killed or not, use the directory lock as the abstract mutex says.
Mutex == INSTANCE ConfigMutex
  WITH holder <- lock, waiting <- {p \in Procs : At(p, "wait")}
MutexSpec == Mutex!Spec

\* A session that still waits for its approval is on file only while the
\* attempt file says in_flight, so "auth approve" can still decide about it;
\* for processes that may be killed but without clear-lockout.  About the order
\* of the two saves and of the deletion in Login and ResolveApproval.
PendingSessionAwaitsApproval ==
  ses # NoSession /\ ses.pending => att # NoAttempt /\ att.state = "in_flight"

\* A declined or expired approval leaves no session behind it.  About
\* ResolveApproval, which deletes the session before it saves the attempt.
RefusedApprovalLeavesNoSession ==
  att # NoAttempt /\ att.reason \in {"declined", "expired"} => ses = NoSession

\* Only a login gives a session a new age: an approval that saves it again
\* does not restart its lifetime.  About CreatedAt in SaveSession.
OnlyLoginRenewsSession ==
  [][ ses # NoSession /\ ses' # NoSession /\ ses'.created # ses.created
        => \E p \in Procs : At(p, "save_session") /\ cmd[p] = "login" ]_vars

\* After a logout that reported success there is no session until a login
\* saves one, whatever crashes in between.  About DeleteSession.
LogoutIsFinal == loggedOut # "no" => ses = NoSession

\* Whatever crashes, a logout that found a session, removed it and reported
\* success is never undone.  About the directory sync of DeleteSession, and
\* about every save and removal that other commands are in the middle of.
RemovalIsFinal == loggedOut = "removed" => ses = NoSession

-----------------------------------------------------------------------------
(* The inductive invariant that the proofs use. *)

Logs(p) == pc[p] \in {"stamp", "save_inflight", "sync_inflight", "submit", "await"}
Prepared(p) == pc[p] \in {"save_inflight", "sync_inflight", "submit"}
Saves(p) ==
  \/ pc[p] \in {"save_session", "sync_session", "save_attempt", "sync_attempt"}
  \/ pc[p] \in {"load_session", "unlink", "sync_unlink"} /\ cmd[p] \in Approvals

\* The lock holder is the one process that is past "wait".
LockInv == \A p \in Procs : lock = p <=> pc[p] \in Steps

\* Each step belongs to the commands that reach it.
CommandInv == \A p \in Procs :
  /\ At(p, "wait") => cmd[p] # "none"
  /\ At(p, "resolve") => cmd[p] \in Approvals

\* Between Preflight and Submit nothing is unresolved and the rate allows the
\* login that is prepared.
PrepareInv == \A p \in Procs :
  /\ Logs(p) /\ ~At(p, "await") => ~unresolved
  /\ At(p, "stamp") /\ lastStart # Never => now >= lastStart + Interval
  /\ Prepared(p) => /\ Blocks(mine[p])
                    /\ mine[p].last <= now
                    /\ lastStart # Never => mine[p].last >= lastStart + Interval
  /\ At(p, "sync_inflight") => att = mine[p]
  /\ At(p, "submit") => attDisk = {mine[p]}

\* What a process is about to save keeps the lockout and the rate guard.
SaveInv == \A p \in Procs :
  /\ At(p, "await") \/ Saves(p) => /\ mine[p] # NoAttempt
                                   /\ mine[p].last >= lastStart
  /\ Saves(p) /\ unresolved => Blocks(mine[p])
  /\ At(p, "save_session") => kept[p] # NoSession
  /\ At(p, "load_clear") => ~unresolved

\* What is visible is among what may survive.
FilesInv == att \in attDisk /\ ses \in sesDisk

\* A removal that is waiting for its sync has left no session, and one that
\* was synced can no longer be undone.
LogoutInv == /\ \A p \in Procs : At(p, "sync_unlink") => ses = NoSession
             /\ loggedOut = "removed" => sesDisk = {NoSession}

IInv == /\ TypeOK /\ LockInv /\ CommandInv /\ PrepareInv /\ SaveInv
        /\ FilesInv /\ FailClosed /\ RateSurvives /\ LogoutInv

-----------------------------------------------------------------------------
(* The inductive invariant about the two files together, which holds when   *)
(* nobody clears the lockout and the power stays on.                        *)

InFlight == att # NoAttempt /\ att.state = "in_flight"
Awaiting == ses # NoSession /\ ses.pending
Refused(a) == a.reason \in {"declined", "expired"}

\* An approval past its test of the attempt that has not yet saved its own.
Decides(p) == /\ pc[p] \in {"load_session", "unlink", "sync_unlink"}
              /\ cmd[p] \in Approvals

\* No step but those of clear-lockout leaves the commands without an attempt
\* in flight between the save of a session and that of its attempt.
OrderInv == \A p \in Procs :
  /\ cmd[p] \in Commands \union {"none"}
  /\ pc[p] \in {"confirm", "load_clear"} => cmd[p] = "clear"
  /\ pc[p] \in {"stamp", "save_inflight"} => ~Blocks(att)
  /\ pc[p] \in {"sync_inflight", "submit", "await", "save_session"} => InFlight
  /\ Decides(p) => InFlight
  /\ Logs(p) => ~Awaiting

\* What each command is about to save agrees with the session on file.
AgreeInv == \A p \in Procs :
  /\ At(p, "save_inflight") => mine[p].state = "in_flight" /\ ~Refused(mine[p])
  /\ Decides(p) => mine[p].state # "in_flight"
  /\ At(p, "load_session") /\ Decides(p) => cmd[p] = "approved"
  /\ At(p, "load_session") /\ Decides(p) => ~Refused(mine[p])
  /\ pc[p] \in {"save_session", "sync_session"} => ~Refused(mine[p])
  /\ At(p, "save_session") /\ kept[p].pending => mine[p].state = "in_flight"
  /\ pc[p] \in {"sync_session", "save_attempt"} /\ mine[p].state # "in_flight"
       => ~Awaiting
  /\ At(p, "save_attempt") /\ mine[p].state = "in_flight" => ~Refused(mine[p])
  /\ At(p, "save_attempt") /\ Refused(mine[p]) => ses = NoSession

SessionInv == /\ OrderInv /\ AgreeInv
              /\ InFlight => ~Refused(att)
              /\ PendingSessionAwaitsApproval /\ RefusedApprovalLeavesNoSession
==============================================================================
