------------------------- MODULE LoginManagerProofs -------------------------
(***************************************************************************)
(* Proofs about the lockout guard, for any number of processes, any faults,*)
(* any interval and any bound of the clock.                                *)
(***************************************************************************)
EXTENDS LoginManager, TLAPS

USE DEF At, Goto

-----------------------------------------------------------------------------
(* The records that the code builds are attempts and sessions. *)

LEMMA OutcomeRecordType ==
  ASSUME NEW kind \in {"success", "approval_pending"} \union FailureKinds,
         NEW last \in Nat
  PROVE  /\ OutcomeRecord(kind, last) \in Attempt
         /\ OutcomeRecord(kind, last).last = last
         /\ kind # "success" => Blocks(OutcomeRecord(kind, last))
BY LoginManagerAssumption, SentinelAssumption
   DEF OutcomeRecord, Attempt, Blocks, Approvals

LEMMA ResolutionRecordType ==
  ASSUME NEW a \in Attempt, NEW c \in Approvals
  PROVE  /\ ResolutionRecord(c, a) \in Attempt
         /\ ResolutionRecord(c, a).last = a.last
         /\ c # "approved" => Blocks(ResolutionRecord(c, a))
BY SentinelAssumption DEF ResolutionRecord, Attempt, Blocks, Approvals

LEMMA ClearedRecordType ==
  ASSUME NEW a \in Attempt
  PROVE  /\ ClearedRecord(a) \in Attempt
         /\ ClearedRecord(a).last = a.last
BY DEF ClearedRecord, Attempt

LEMMA ApprovedSessionType ==
  ASSUME NEW s \in Session
  PROVE  ApprovedSession(s) \in Session
BY DEF ApprovedSession, Session

-----------------------------------------------------------------------------
(* Types. *)

\* Every step keeps the types.  CommandInv is needed where the first step of a
\* command, or the reason of a refused approval, is taken from the command.
LEMMA TypeStep ==
  ASSUME TypeOK, CommandInv, PrepareInv, SaveInv, FilesInv, [Next]_vars
  PROVE  TypeOK'
<1> USE LoginManagerAssumption DEF TypeOK, FilesInv, locals, attFile, sesFile, history
<1>1. ASSUME NEW p \in Procs, LockStep(p)
      PROVE  TypeOK'
  <2> USE DEF Begin, Acquire, Refuse, Release, Forget
  <2>1. CASE Begin(p) BY <2>1 DEF AllCommands
  <2>2. CASE Acquire(p)
    <3>1. FirstStep(cmd[p]) \in Steps
      BY <2>2 DEF FirstStep, CommandInv, Steps, AllCommands, Approvals
    <3> QED BY <2>2, <3>1
  <2>3. CASE Refuse(p) BY <2>3
  <2>4. CASE Release(p) BY <2>4
  <2> QED BY <1>1, <2>1, <2>2, <2>3, <2>4 DEF LockStep
<1>2. ASSUME NEW p \in Procs, LoginStep(p)
      PROVE  TypeOK'
  <2>1. CASE Preflight(p) BY <2>1 DEF Preflight, Steps
  <2>2. CASE Stamp(p)
    <3>1. [state |-> "in_flight", reason |-> "none", last |-> now] \in Attempt
      BY DEF Attempt
    <3> QED BY <2>2, <3>1 DEF Stamp, Steps
  <2>3. CASE Submit(p)
    <3>1. mine[p] \in Attempt
      BY <2>3 DEF Submit, PrepareInv, Prepared, Blocks
    <3>2. mine[p].last \in Nat
      BY <3>1 DEF Attempt
    <3> QED BY <2>3, <3>2 DEF Submit, Steps
  <2>4. CASE Outcome(p)
    <3>1. mine[p] \in Attempt
      BY <2>4 DEF Outcome, SaveInv
    <3>2. mine[p].last \in Nat
      BY <3>1 DEF Attempt
    <3>3. PICK kind \in {"success", "approval_pending"} \union FailureKinds,
               withSession \in BOOLEAN :
            /\ mine' = [mine EXCEPT ![p] = OutcomeRecord(kind, mine[p].last)]
            /\ kept' = [kept EXCEPT ![p] =
                 IF withSession /\ kind \notin FailureKinds
                 THEN [created |-> now, pending |-> kind # "success"]
                 ELSE NoSession]
            /\ pc' = [pc EXCEPT ![p] = IF withSession /\ kind \notin FailureKinds
                                       THEN "save_session" ELSE "save_attempt"]
            /\ unresolved' = (unresolved /\ kind # "success")
      BY <2>4 DEF Outcome
    <3>4. [created |-> now, pending |-> kind # "success"] \in Session
      BY DEF Session
    <3>5. mine' \in [Procs -> Attempt \union {NoAttempt}]
      BY <3>2, <3>3, OutcomeRecordType
    <3>6. kept' \in [Procs -> Session \union {NoSession}]
      BY <3>3, <3>4
    <3>7. pc' \in [Procs -> Steps \union {"idle", "wait"}]
      BY <3>3 DEF Steps
    <3> QED BY <2>4, <3>3, <3>5, <3>6, <3>7 DEF Outcome
  <2> QED BY <1>2, <2>1, <2>2, <2>3, <2>4 DEF LoginStep
<1>3. ASSUME NEW p \in Procs, FileStep(p)
      PROVE  TypeOK'
  <2> USE DEF AttemptFile!Publish, SessionFile!Publish, AttemptFile!Sync,
              SessionFile!Sync, SyncDirectory, AfterSession
  <2>1. CASE PublishAttempt(p)
    BY <2>1 DEF PublishAttempt, AfterRename, Steps
  <2>2. CASE PublishSession(p) BY <2>2 DEF PublishSession, Steps
  <2>3. CASE SyncAfterSave(p) BY <2>3 DEF SyncAfterSave, Steps
  <2>4. CASE UnlinkSession(p) BY <2>4 DEF UnlinkSession, Steps
  <2>5. CASE SyncAfterUnlink(p) BY <2>5 DEF SyncAfterUnlink, Steps
  <2> QED BY <1>3, <2>1, <2>2, <2>3, <2>4, <2>5 DEF FileStep
<1>4. ASSUME NEW p \in Procs, ApprovalStep(p)
      PROVE  TypeOK'
  <2>1. CASE ResolveApproval(p)
    <3>1. att # NoAttempt => ResolutionRecord(cmd[p], att) \in Attempt
      BY <2>1, ResolutionRecordType DEF ResolveApproval, CommandInv
    <3> QED BY <2>1, <3>1 DEF ResolveApproval, ResolutionStep, Steps
  <2>2. CASE LoadSession(p)
    <3>1. ses # NoSession => ApprovedSession(ses) \in Session
      BY ApprovedSessionType
    <3> QED BY <2>2, <3>1 DEF LoadSession, AfterSession, Steps
  <2> QED BY <1>4, <2>1, <2>2 DEF ApprovalStep
<1>5. ASSUME NEW p \in Procs, ClearStep(p)
      PROVE  TypeOK'
  <2>1. CASE Confirm(p) BY <2>1 DEF Confirm, Steps
  <2>2. CASE Unconfirmed(p) BY <2>2 DEF Unconfirmed, Steps
  <2>3. CASE LoadToClear(p)
    <3>1. att # NoAttempt => ClearedRecord(att) \in Attempt
      BY ClearedRecordType
    <3> QED BY <2>3, <3>1 DEF LoadToClear, Steps
  <2> QED BY <1>5, <2>1, <2>2, <2>3 DEF ClearStep
<1>6. ASSUME NEW p \in Procs, FaultStep(p)
      PROVE  TypeOK'
  BY <1>6 DEF FaultStep, Fail, Kill, Forget, Steps
<1>7. CASE PowerLoss
  BY <1>7 DEF PowerLoss, AttemptFile!PowerLoss, SessionFile!PowerLoss
<1>8. CASE Tick BY <1>8 DEF Tick
<1>9. CASE UNCHANGED vars BY <1>9 DEF vars
<1> QED BY <1>1, <1>2, <1>3, <1>4, <1>5, <1>6, <1>7, <1>8, <1>9 DEF Next
-----------------------------------------------------------------------------
(* The lock and the commands. *)

\* The lock holder is the one process past "wait", and it stays so.
LEMMA LockStepInv ==
  ASSUME TypeOK, LockInv, CommandInv, [Next]_vars
  PROVE  LockInv' /\ CommandInv'
<1> USE LoginManagerAssumption
    DEF TypeOK, LockInv, CommandInv, locals, attFile, sesFile, history, Steps
<1>1. ASSUME NEW p \in Procs, LockStep(p)
      PROVE  LockInv' /\ CommandInv'
  <2> USE DEF Forget
  <2>1. CASE Begin(p)
    <3>1. LockInv' BY <2>1 DEF Begin
    <3>2. CommandInv' BY <2>1 DEF Begin, AllCommands, Approvals
    <3> QED BY <3>1, <3>2
  <2>2. CASE Acquire(p)
    <3>1. FirstStep(cmd[p]) \in Steps /\ FirstStep(cmd[p]) # "wait"
      BY <2>2 DEF Acquire, FirstStep, AllCommands, Approvals
    <3>2. FirstStep(cmd[p]) = "resolve" => cmd[p] \in Approvals
      BY <2>2 DEF Acquire, FirstStep, AllCommands
    <3>3. LockInv' BY <2>2, <3>1 DEF Acquire
    <3>4. CommandInv' BY <2>2, <3>1, <3>2 DEF Acquire
    <3> QED BY <3>3, <3>4
  <2>3. CASE Refuse(p)
    <3>1. LockInv' BY <2>3 DEF Refuse
    <3>2. CommandInv' BY <2>3 DEF Refuse
    <3> QED BY <3>1, <3>2
  <2>4. CASE Release(p)
    <3>1. LockInv' BY <2>4 DEF Release
    <3>2. CommandInv' BY <2>4 DEF Release
    <3> QED BY <3>1, <3>2
  <2> QED BY <1>1, <2>1, <2>2, <2>3, <2>4 DEF LockStep
<1>2. ASSUME NEW p \in Procs, LoginStep(p)
      PROVE  LockInv' /\ CommandInv'
  BY <1>2 DEF LoginStep, Preflight, Stamp, Submit, Outcome
<1>3. ASSUME NEW p \in Procs, FileStep(p)
      PROVE  LockInv' /\ CommandInv'
  BY <1>3 DEF FileStep, PublishAttempt, PublishSession, SyncAfterSave,
     UnlinkSession, SyncAfterUnlink, AfterRename, AfterSession
<1>4. ASSUME NEW p \in Procs, ApprovalStep(p)
      PROVE  LockInv' /\ CommandInv'
  BY <1>4 DEF ApprovalStep, ResolveApproval, LoadSession, ResolutionStep,
     AfterSession
<1>5. ASSUME NEW p \in Procs, ClearStep(p)
      PROVE  LockInv' /\ CommandInv'
  BY <1>5 DEF ClearStep, Confirm, Unconfirmed, LoadToClear
<1>6. ASSUME NEW p \in Procs, FaultStep(p)
      PROVE  LockInv' /\ CommandInv'
  BY <1>6 DEF FaultStep, Fail, Kill, Forget, Fallible
<1>7. CASE PowerLoss BY <1>7 DEF PowerLoss
<1>8. CASE Tick BY <1>8 DEF Tick
<1>9. CASE UNCHANGED vars BY <1>9 DEF vars
<1> QED BY <1>1, <1>2, <1>3, <1>4, <1>5, <1>6, <1>7, <1>8, <1>9 DEF Next

\* A step between Preflight and the release of the lock is the lock holder's,
\* so two processes that take such steps are the same.
LEMMA OneHolder ==
  ASSUME LockInv, NEW p \in Procs, NEW q \in Procs,
         pc[p] \in Steps, pc[q] \in Steps
  PROVE  p = q
BY DEF LockInv
-----------------------------------------------------------------------------
(* The files. *)

LEMMA FilesStepInv ==
  ASSUME FilesInv, [Next]_vars
  PROVE  FilesInv'
<1> USE DEF FilesInv, attFile, sesFile
<1>1. ASSUME NEW p \in Procs, FileStep(p)
      PROVE  FilesInv'
  BY <1>1 DEF FileStep, PublishAttempt, PublishSession, SyncAfterSave,
     UnlinkSession, SyncAfterUnlink, SyncDirectory, AttemptFile!Publish,
     SessionFile!Publish, AttemptFile!Sync, SessionFile!Sync
<1>2. CASE PowerLoss
  BY <1>2 DEF PowerLoss, AttemptFile!PowerLoss, SessionFile!PowerLoss
<1>3. ASSUME NEW p \in Procs,
             LockStep(p) \/ LoginStep(p) \/ ApprovalStep(p) \/ ClearStep(p)
               \/ FaultStep(p)
      PROVE  FilesInv'
  BY <1>3 DEF LockStep, Begin, Acquire, Refuse, Release, LoginStep, Preflight,
     Stamp, Submit, Outcome, ApprovalStep, ResolveApproval, LoadSession,
     ClearStep, Confirm, Unconfirmed, LoadToClear, FaultStep, Fail, Kill
<1>4. CASE Tick \/ UNCHANGED vars BY <1>4 DEF Tick, vars
<1> QED BY <1>1, <1>2, <1>3, <1>4 DEF Next

\* What a save publishes, a sync settles and a loss of power picks keeps both
\* guards; a submission meets a file that already blocks.
LEMMA GuardStep ==
  ASSUME IInv, [Next]_vars
  PROVE  FailClosed' /\ RateSurvives'
<1> USE DEF IInv, TypeOK, FilesInv, FailClosed, RateSurvives, attFile, history
<1>1. ASSUME NEW p \in Procs, FileStep(p)
      PROVE  FailClosed' /\ RateSurvives'
  <2>1. CASE PublishAttempt(p)
    <3>1. /\ mine[p] # NoAttempt
          /\ mine[p].last \in Nat
          /\ lastStart # Never => mine[p].last >= lastStart
          /\ unresolved => Blocks(mine[p])
      <4>1. CASE At(p, "save_inflight")
        BY <4>1, LoginManagerAssumption
           DEF PrepareInv, Prepared, Logs, Blocks, Attempt
      <4>2. CASE At(p, "save_attempt")
        BY <4>2 DEF SaveInv, Saves, Attempt
      <4> QED BY <2>1, <4>1, <4>2 DEF PublishAttempt
    <3>2. attDisk' = attDisk \union {mine[p]}
      BY <2>1 DEF PublishAttempt, AttemptFile!Publish
    <3> QED BY <2>1, <3>1, <3>2 DEF PublishAttempt, Blocks
  <2>2. CASE PublishSession(p) BY <2>2 DEF PublishSession, Blocks
  <2>3. CASE SyncAfterSave(p)
    BY <2>3 DEF SyncAfterSave, SyncDirectory, AttemptFile!Sync, Blocks
  <2>4. CASE UnlinkSession(p) BY <2>4 DEF UnlinkSession, Blocks
  <2>5. CASE SyncAfterUnlink(p)
    BY <2>5 DEF SyncAfterUnlink, SyncDirectory, AttemptFile!Sync, Blocks
  <2> QED BY <1>1, <2>1, <2>2, <2>3, <2>4, <2>5 DEF FileStep
<1>2. ASSUME NEW p \in Procs, LoginStep(p)
      PROVE  FailClosed' /\ RateSurvives'
  <2>1. CASE Submit(p)
    <3>1. attDisk' = {mine[p]} /\ Blocks(mine[p])
      BY <2>1 DEF Submit, PrepareInv, Prepared
    <3>2. mine[p].last \in Nat
      BY <3>1 DEF Blocks, Attempt
    <3> QED BY <2>1, <3>1, <3>2 DEF Submit, Blocks
  <2>2. CASE Preflight(p) \/ Stamp(p) \/ Outcome(p)
    BY <2>2 DEF Preflight, Stamp, Outcome, Blocks
  <2> QED BY <1>2, <2>1, <2>2 DEF LoginStep
<1>3. ASSUME NEW p \in Procs,
             LockStep(p) \/ ApprovalStep(p) \/ ClearStep(p) \/ FaultStep(p)
      PROVE  FailClosed' /\ RateSurvives'
  BY <1>3 DEF LockStep, Begin, Acquire, Refuse, Release, ApprovalStep,
     ResolveApproval, LoadSession, ClearStep, Confirm, Unconfirmed, LoadToClear,
     FaultStep, Fail, Kill, Blocks
<1>4. CASE PowerLoss
  BY <1>4 DEF PowerLoss, AttemptFile!PowerLoss, Blocks
<1>5. CASE Tick \/ UNCHANGED vars BY <1>5 DEF Tick, vars, Blocks
<1> QED BY <1>1, <1>2, <1>3, <1>4, <1>5 DEF Next
-----------------------------------------------------------------------------
(* From Preflight to Submit. *)

\* What Preflight reads decides for the whole login, since the lock keeps every
\* other process away from the file.
LEMMA PrepareStep ==
  ASSUME IInv, [Next]_vars
  PROVE  PrepareInv'
<1> USE LoginManagerAssumption, SentinelAssumption
    DEF IInv, TypeOK, LockInv, PrepareInv, Prepared, Logs, locals, attFile,
        history
<1>1. ASSUME NEW p \in Procs, LockStep(p)
      PROVE  PrepareInv'
  <2>1. CASE Acquire(p)
    <3>1. FirstStep(cmd[p]) \in Steps \ {"stamp", "save_inflight",
                                         "sync_inflight", "submit", "await"}
      BY <2>1 DEF Acquire, FirstStep, CommandInv, AllCommands, Approvals, Steps
    <3> QED BY <2>1, <3>1 DEF Acquire, Steps
  <2>2. CASE Begin(p) \/ Refuse(p) \/ Release(p)
    BY <2>2 DEF Begin, Refuse, Release, Forget, Steps
  <2> QED BY <1>1, <2>1, <2>2 DEF LockStep
<1>2. ASSUME NEW p \in Procs, LoginStep(p)
      PROVE  PrepareInv'
  <2>1. CASE Preflight(p)
    <3>1. PreflightPasses
            => ~unresolved /\ (lastStart # Never => now >= lastStart + Interval)
      BY DEF PreflightPasses, Spaced, FailClosed, RateSurvives, FilesInv,
         Blocks, Attempt
    <3> QED BY <2>1, <3>1 DEF Preflight, Steps
  <2>2. CASE Stamp(p)
    <3>1. Blocks([state |-> "in_flight", reason |-> "none", last |-> now])
      BY DEF Blocks, Attempt
    <3> QED BY <2>2, <3>1 DEF Stamp, Steps
  <2>3. CASE Submit(p) BY <2>3 DEF Submit, Steps
  <2>4. CASE Outcome(p) BY <2>4 DEF Outcome, Steps
  <2> QED BY <1>2, <2>1, <2>2, <2>3, <2>4 DEF LoginStep
<1>3. ASSUME NEW p \in Procs, FileStep(p)
      PROVE  PrepareInv'
  <2> USE DEF AttemptFile!Publish, AttemptFile!Sync, SyncDirectory, Steps
  <2>1. CASE PublishAttempt(p) BY <2>1 DEF PublishAttempt, AfterRename
  <2>2. CASE PublishSession(p) BY <2>2 DEF PublishSession
  <2>3. CASE SyncAfterSave(p) BY <2>3 DEF SyncAfterSave
  <2>4. CASE UnlinkSession(p) BY <2>4 DEF UnlinkSession, AfterSession
  <2>5. CASE SyncAfterUnlink(p) BY <2>5 DEF SyncAfterUnlink, AfterSession
  <2> QED BY <1>3, <2>1, <2>2, <2>3, <2>4, <2>5 DEF FileStep
<1>4. ASSUME NEW p \in Procs, ApprovalStep(p)
      PROVE  PrepareInv'
  BY <1>4 DEF ApprovalStep, ResolveApproval, LoadSession, ResolutionStep,
     AfterSession, Steps
<1>5. ASSUME NEW p \in Procs, ClearStep(p)
      PROVE  PrepareInv'
  BY <1>5 DEF ClearStep, Confirm, Unconfirmed, LoadToClear, Steps
<1>6. ASSUME NEW p \in Procs, FaultStep(p)
      PROVE  PrepareInv'
  BY <1>6 DEF FaultStep, Fail, Kill, Forget, Steps
<1>7. CASE PowerLoss BY <1>7 DEF PowerLoss
<1>8. CASE Tick
  <2>1. \A p \in Procs : mine[p] # NoAttempt => mine[p].last \in Nat
    BY DEF Attempt
  <2>2. lastStart # Never => lastStart \in Nat OBVIOUS
  <2> QED BY <1>8, <2>1, <2>2 DEF Tick, Blocks
<1>9. CASE UNCHANGED vars BY <1>9 DEF vars
<1> QED BY <1>1, <1>2, <1>3, <1>4, <1>5, <1>6, <1>7, <1>8, <1>9 DEF Next

-----------------------------------------------------------------------------
(* What is about to be saved. *)

LEMMA SaveStep ==
  ASSUME IInv, [Next]_vars
  PROVE  SaveInv'
<1> USE LoginManagerAssumption, SentinelAssumption
    DEF IInv, TypeOK, LockInv, SaveInv, Saves, locals, attFile, history
<1>1. ASSUME NEW p \in Procs, LockStep(p)
      PROVE  SaveInv'
  <2>1. CASE Acquire(p)
    <3>1. /\ FirstStep(cmd[p]) \in {"preflight", "resolve", "confirm", "unlink",
                                    "load_session"}
          /\ FirstStep(cmd[p]) \in {"unlink", "load_session"}
               => cmd[p] \notin Approvals
      BY <2>1 DEF Acquire, FirstStep, CommandInv, AllCommands, Approvals
    <3> QED BY <2>1, <3>1 DEF Acquire, Steps
  <2>2. CASE Begin(p) \/ Refuse(p) \/ Release(p)
    BY <2>2 DEF Begin, Refuse, Release, Forget, Steps
  <2> QED BY <1>1, <2>1, <2>2 DEF LockStep
<1>2. ASSUME NEW p \in Procs, LoginStep(p)
      PROVE  SaveInv'
  <2>1. CASE Preflight(p) \/ Stamp(p) BY <2>1 DEF Preflight, Stamp, Steps
  <2>2. CASE Submit(p)
    <3>1. mine[p] # NoAttempt /\ mine[p].last \in Nat
      BY <2>2 DEF Submit, PrepareInv, Prepared, Blocks, Attempt
    <3> QED BY <2>2, <3>1 DEF Submit, Steps
  <2>3. CASE Outcome(p)
    <3>1. mine[p] \in Attempt /\ mine[p].last \in Nat /\ mine[p].last >= lastStart
      BY <2>3 DEF Outcome, Attempt
    <3>2. PICK kind \in {"success", "approval_pending"} \union FailureKinds,
               withSession \in BOOLEAN :
            /\ mine' = [mine EXCEPT ![p] = OutcomeRecord(kind, mine[p].last)]
            /\ kept' = [kept EXCEPT ![p] =
                 IF withSession /\ kind \notin FailureKinds
                 THEN [created |-> now, pending |-> kind # "success"]
                 ELSE NoSession]
            /\ pc' = [pc EXCEPT ![p] = IF withSession /\ kind \notin FailureKinds
                                       THEN "save_session" ELSE "save_attempt"]
            /\ unresolved' = (unresolved /\ kind # "success")
      BY <2>3 DEF Outcome
    <3>3. /\ OutcomeRecord(kind, mine[p].last) \in Attempt
          /\ OutcomeRecord(kind, mine[p].last).last = mine[p].last
          /\ kind # "success" => Blocks(OutcomeRecord(kind, mine[p].last))
      BY <3>1, OutcomeRecordType
    <3>4. [created |-> now, pending |-> kind # "success"] # NoSession
      <4>1. [created |-> now, pending |-> kind # "success"] \in Session
        BY DEF Session
      <4> QED BY <4>1
    <3>5. lastStart' = lastStart /\ pc[p] = "await"
      BY <2>3 DEF Outcome
    <3> QED BY <3>1, <3>2, <3>3, <3>4, <3>5 DEF Steps
  <2> QED BY <1>2, <2>1, <2>2, <2>3 DEF LoginStep
<1>3. ASSUME NEW p \in Procs, FileStep(p)
      PROVE  SaveInv'
  <2> USE DEF Steps
  <2>1. CASE PublishAttempt(p) BY <2>1 DEF PublishAttempt, AfterRename
  <2>2. CASE PublishSession(p) BY <2>2 DEF PublishSession
  <2>3. CASE SyncAfterSave(p) BY <2>3 DEF SyncAfterSave
  <2>4. CASE UnlinkSession(p) BY <2>4 DEF UnlinkSession, AfterSession
  <2>5. CASE SyncAfterUnlink(p) BY <2>5 DEF SyncAfterUnlink, AfterSession
  <2> QED BY <1>3, <2>1, <2>2, <2>3, <2>4, <2>5 DEF FileStep
<1>4. ASSUME NEW p \in Procs, ApprovalStep(p)
      PROVE  SaveInv'
  <2>1. CASE ResolveApproval(p)
    <3>1. att # NoAttempt /\ cmd[p] \in Approvals =>
            /\ att.last \in Nat /\ att.last >= lastStart
            /\ ResolutionRecord(cmd[p], att) \in Attempt
            /\ ResolutionRecord(cmd[p], att).last = att.last
            /\ cmd[p] # "approved" => Blocks(ResolutionRecord(cmd[p], att))
      BY ResolutionRecordType DEF RateSurvives, FilesInv, Attempt, Never
    <3>2. cmd[p] \in Approvals BY <2>1 DEF ResolveApproval, CommandInv
    <3>3. CASE att # NoAttempt /\ att.state = "in_flight"
      <4>1. /\ mine' = [mine EXCEPT ![p] = ResolutionRecord(cmd[p], att)]
            /\ pc' = [pc EXCEPT ![p] = ResolutionStep(cmd[p])]
            /\ unresolved' = (unresolved /\ cmd[p] # "approved")
            /\ pc[p] = "resolve"
            /\ UNCHANGED <<cmd, kept, lastStart>>
        BY <2>1, <3>3 DEF ResolveApproval
      <4>2. ResolutionRecord(cmd[p], att) # NoAttempt
        BY <3>1, <3>2, <3>3
      <4> QED BY <3>1, <3>2, <3>3, <4>1, <4>2 DEF ResolutionStep, Steps
    <3>4. CASE ~(att # NoAttempt /\ att.state = "in_flight")
      BY <2>1, <3>4 DEF ResolveApproval, Steps
    <3> QED BY <3>3, <3>4
  <2>2. CASE LoadSession(p)
    <3>1. ses # NoSession => ApprovedSession(ses) # NoSession
      BY ApprovedSessionType
    <3> QED BY <2>2, <3>1 DEF LoadSession, AfterSession, Steps, Approvals
  <2> QED BY <1>4, <2>1, <2>2 DEF ApprovalStep
<1>5. ASSUME NEW p \in Procs, ClearStep(p)
      PROVE  SaveInv'
  <2>1. CASE Confirm(p) \/ Unconfirmed(p)
    BY <2>1 DEF Confirm, Unconfirmed, Steps
  <2>2. CASE LoadToClear(p)
    <3>1. att # NoAttempt => /\ att.last \in Nat /\ att.last >= lastStart
                             /\ ClearedRecord(att) \in Attempt
                             /\ ClearedRecord(att).last = att.last
      BY ClearedRecordType DEF RateSurvives, FilesInv, Attempt, Never
    <3> QED BY <2>2, <3>1 DEF LoadToClear, Steps
  <2> QED BY <1>5, <2>1, <2>2 DEF ClearStep
<1>6. ASSUME NEW p \in Procs, FaultStep(p)
      PROVE  SaveInv'
  BY <1>6 DEF FaultStep, Fail, Kill, Forget, Steps
<1>7. CASE PowerLoss BY <1>7 DEF PowerLoss
<1>8. CASE Tick BY <1>8 DEF Tick
<1>9. CASE UNCHANGED vars BY <1>9 DEF vars
<1> QED BY <1>1, <1>2, <1>3, <1>4, <1>5, <1>6, <1>7, <1>8, <1>9 DEF Next
-----------------------------------------------------------------------------
(* Removals. *)

\* Only the lock holder touches the session file, so no save comes between a
\* removal and its sync.
LEMMA LogoutStep ==
  ASSUME IInv, [Next]_vars
  PROVE  LogoutInv'
<1> USE DEF IInv, TypeOK, LogoutInv, locals, attFile, sesFile, history
<1>1. ASSUME NEW p \in Procs, FileStep(p)
      PROVE  LogoutInv'
  <2> USE DEF SyncDirectory, AttemptFile!Publish, AttemptFile!Sync,
              SessionFile!Publish, SessionFile!Sync, FilesInv, Steps
  <2>1. CASE PublishAttempt(p) BY <2>1 DEF PublishAttempt, AfterRename
  <2>2. CASE PublishSession(p)
    <3>1. \A q \in Procs : ~At(q, "sync_unlink")
      BY <2>2, OneHolder DEF PublishSession
    <3>2. pc' = [pc EXCEPT ![p] = "sync_session"] /\ loggedOut' = "no"
      BY <2>2 DEF PublishSession
    <3> QED BY <3>1, <3>2
  <2>3. CASE SyncAfterSave(p) BY <2>3 DEF SyncAfterSave
  <2>4. CASE UnlinkSession(p)
    <3>1. CASE ses = NoSession
      BY <2>4, <3>1 DEF UnlinkSession, AfterSession
    <3>2. CASE ses # NoSession
      BY <2>4, <3>2 DEF UnlinkSession
    <3> QED BY <3>1, <3>2
  <2>5. CASE SyncAfterUnlink(p)
    <3>1. ses' = NoSession /\ sesDisk' = {NoSession}
      BY <2>5 DEF SyncAfterUnlink
    <3> QED BY <3>1
  <2> QED BY <1>1, <2>1, <2>2, <2>3, <2>4, <2>5 DEF FileStep
<1>2. ASSUME NEW p \in Procs, LockStep(p)
      PROVE  LogoutInv'
  <2>1. CASE Acquire(p)
    <3>1. FirstStep(cmd[p]) # "sync_unlink"
      BY <2>1 DEF Acquire, FirstStep, CommandInv, AllCommands, Approvals
    <3> QED BY <2>1, <3>1 DEF Acquire
  <2>2. CASE Begin(p) \/ Refuse(p) \/ Release(p)
    BY <2>2 DEF Begin, Refuse, Release
  <2> QED BY <1>2, <2>1, <2>2 DEF LockStep
<1>3. ASSUME NEW p \in Procs,
             LoginStep(p) \/ ApprovalStep(p) \/ ClearStep(p) \/ FaultStep(p)
      PROVE  LogoutInv'
  BY <1>3 DEF LoginStep, Preflight, Stamp, Submit, Outcome, ApprovalStep,
     ResolveApproval, LoadSession, ResolutionStep, AfterSession, ClearStep,
     Confirm, Unconfirmed, LoadToClear, FaultStep, Fail, Kill
<1>4. CASE PowerLoss
  BY <1>4 DEF PowerLoss, SessionFile!PowerLoss
<1>5. CASE Tick \/ UNCHANGED vars BY <1>5 DEF Tick, vars
<1> QED BY <1>1, <1>2, <1>3, <1>4, <1>5 DEF Next
-----------------------------------------------------------------------------
(* The inductive invariant, and the safety theorems. *)

LEMMA InitInv == Init => IInv
<1> SUFFICES ASSUME Init PROVE IInv OBVIOUS
<1> USE DEF Init
<1>1. TypeOK BY DEF TypeOK
<1>2. LockInv BY LoginManagerAssumption DEF LockInv, Steps
<1>3. CommandInv BY DEF CommandInv
<1>4. PrepareInv BY DEF PrepareInv, Logs, Prepared
<1>5. SaveInv BY DEF SaveInv, Saves
<1>6. FilesInv /\ FailClosed /\ RateSurvives /\ LogoutInv
  BY DEF FilesInv, FailClosed, RateSurvives, LogoutInv
<1> QED BY <1>1, <1>2, <1>3, <1>4, <1>5, <1>6 DEF IInv

LEMMA NextInv == IInv /\ [Next]_vars => IInv'
<1> SUFFICES ASSUME IInv, [Next]_vars PROVE IInv' OBVIOUS
<1>1. TypeOK' BY TypeStep DEF IInv
<1>2. LockInv' /\ CommandInv' BY LockStepInv DEF IInv
<1>3. FilesInv' BY FilesStepInv DEF IInv
<1>4. FailClosed' /\ RateSurvives' BY GuardStep
<1>5. PrepareInv' BY PrepareStep
<1>6. SaveInv' BY SaveStep
<1>7. LogoutInv' BY LogoutStep
<1> QED BY <1>1, <1>2, <1>3, <1>4, <1>5, <1>6, <1>7 DEF IInv

\* The strengthened invariant holds in every behaviour.
THEOREM InvariantHolds == Spec => []IInv
<1>1. Init => IInv BY InitInv
<1>2. IInv /\ [Next]_vars => IInv' BY NextInv
<1> QED BY <1>1, <1>2, PTL DEF Spec

\* The types of all variables: about the whole of the auth commands.
THEOREM TypeCorrect == Spec => []TypeOK
<1>1. IInv => TypeOK BY DEF IInv
<1> QED BY <1>1, InvariantHolds, PTL

\* An unresolved login is never forgotten, neither by a crash nor by a loss of
\* power: about the in_flight record that Login makes durable before Submit.
THEOREM FailsClosed == Spec => []FailClosed
<1>1. IInv => FailClosed BY DEF IInv
<1> QED BY <1>1, InvariantHolds, PTL

\* Every attempt file that may come back carries the time of the last login:
\* about LastCredentialLoginAt through saves, clear-lockout and crashes.
THEOREM RateGuardSurvives == Spec => []RateSurvives
<1>1. IInv => RateSurvives BY DEF IInv
<1> QED BY <1>1, InvariantHolds, PTL

\* A logout that removed a session is final, whatever crashes after it: about
\* DeleteSession's directory sync and the lock around every save.
THEOREM RemovalIsDurable == Spec => []RemovalIsFinal
<1>1. IInv => RemovalIsFinal
  BY DEF IInv, FilesInv, LogoutInv, RemovalIsFinal
<1> QED BY <1>1, InvariantHolds, PTL

-----------------------------------------------------------------------------
(* The commands implement the abstract gate. *)

LEMMA GateStep ==
  ASSUME IInv, [Next]_vars
  PROVE  [Gate!Next]_<<now, unresolved, lastStart>>
<1> USE DEF IInv, TypeOK, history, Gate!Next
<1>1. ASSUME NEW p \in Procs, LoginStep(p)
      PROVE  [Gate!Next]_<<now, unresolved, lastStart>>
  <2>1. CASE Submit(p)
    <3>1. mine[p] \in Attempt
      BY <2>1 DEF Submit, PrepareInv, Prepared, Blocks
    <3>2. mine[p].last \in 0..now
      BY <2>1, <3>1 DEF Submit, PrepareInv, Prepared, Attempt
    <3>3. lastStart # Never => mine[p].last >= lastStart + Interval
      BY <2>1 DEF Submit, PrepareInv, Prepared
    <3>4. ~unresolved
      BY <2>1 DEF Submit, PrepareInv, Logs
    <3>5. Gate!Submit
      BY <2>1, <3>2, <3>3, <3>4 DEF Submit, Gate!Submit, Never, Gate!Never
    <3> QED BY <3>5
  <2>2. CASE Outcome(p) BY <2>2 DEF Outcome, Gate!Resolve
  <2>3. CASE Preflight(p) \/ Stamp(p) BY <2>3 DEF Preflight, Stamp
  <2> QED BY <1>1, <2>1, <2>2, <2>3 DEF LoginStep
<1>2. ASSUME NEW p \in Procs, ApprovalStep(p) \/ ClearStep(p)
      PROVE  [Gate!Next]_<<now, unresolved, lastStart>>
  BY <1>2 DEF ApprovalStep, ResolveApproval, LoadSession, ClearStep, Confirm,
     Unconfirmed, LoadToClear, Gate!Resolve
<1>3. ASSUME NEW p \in Procs, LockStep(p) \/ FileStep(p) \/ FaultStep(p)
      PROVE  UNCHANGED <<now, unresolved, lastStart>>
  BY <1>3 DEF LockStep, Begin, Acquire, Refuse, Release, FileStep,
     PublishAttempt, PublishSession, SyncAfterSave, UnlinkSession,
     SyncAfterUnlink, FaultStep, Fail, Kill
<1>4. CASE PowerLoss BY <1>4 DEF PowerLoss
<1>5. CASE Tick BY <1>5 DEF Tick, Gate!Tick
<1>6. CASE UNCHANGED vars BY <1>6 DEF vars
<1> QED BY <1>1, <1>2, <1>3, <1>4, <1>5, <1>6 DEF Next

\* No login is submitted while an earlier one is unresolved, and logins start
\* at least Interval apart: about Preflight, Login and the directory lock.
THEOREM GateRefinement == Spec => GateSpec
<1>1. Init => Gate!Init BY DEF Init, Gate!Init, Never, Gate!Never
<1>2. IInv /\ [Next]_vars => [Gate!Next]_<<now, unresolved, lastStart>>
  BY GateStep
<1> QED BY <1>1, <1>2, InvariantHolds, PTL DEF Spec, GateSpec, Gate!Spec

-----------------------------------------------------------------------------
(* The commands use the lock as the abstract mutex says. *)

Waiting == {p \in Procs : At(p, "wait")}

LEMMA MutexStep ==
  ASSUME IInv, [Next]_vars
  PROVE  [Mutex!Next]_<<lock, Waiting>>
<1> USE LoginManagerAssumption DEF IInv, TypeOK, LockInv, Waiting, Steps, Mutex!Next
<1>1. ASSUME NEW p \in Procs, LockStep(p)
      PROVE  [Mutex!Next]_<<lock, Waiting>>
  <2>1. CASE Begin(p)
    <3>1. Mutex!Request(p) BY <2>1 DEF Begin, Mutex!Request
    <3> QED BY <3>1
  <2>2. CASE Acquire(p)
    <3>1. FirstStep(cmd[p]) # "wait"
      BY <2>2 DEF Acquire, FirstStep, CommandInv, AllCommands, Approvals
    <3>2. Mutex!Grant(p) BY <2>2, <3>1 DEF Acquire, Mutex!Grant
    <3> QED BY <3>2
  <2>3. CASE Refuse(p)
    <3>1. Mutex!Refuse(p) BY <2>3 DEF Refuse, Mutex!Refuse
    <3> QED BY <3>1
  <2>4. CASE Release(p)
    <3>1. Mutex!Release(p) BY <2>4 DEF Release, Mutex!Release
    <3> QED BY <3>1
  <2> QED BY <1>1, <2>1, <2>2, <2>3, <2>4 DEF LockStep
<1>2. ASSUME NEW p \in Procs, LoginStep(p)
      PROVE  UNCHANGED <<lock, Waiting>>
  BY <1>2 DEF LoginStep, Preflight, Stamp, Submit, Outcome
<1>3. ASSUME NEW p \in Procs, FileStep(p)
      PROVE  UNCHANGED <<lock, Waiting>>
  BY <1>3 DEF FileStep, PublishAttempt, PublishSession, SyncAfterSave,
     UnlinkSession, SyncAfterUnlink, AfterRename, AfterSession
<1>4. ASSUME NEW p \in Procs, ApprovalStep(p)
      PROVE  UNCHANGED <<lock, Waiting>>
  BY <1>4 DEF ApprovalStep, ResolveApproval, LoadSession, ResolutionStep,
     AfterSession
<1>5. ASSUME NEW p \in Procs, ClearStep(p)
      PROVE  UNCHANGED <<lock, Waiting>>
  BY <1>5 DEF ClearStep, Confirm, Unconfirmed, LoadToClear
<1>6. ASSUME NEW p \in Procs, FaultStep(p)
      PROVE  [Mutex!Next]_<<lock, Waiting>>
  <2>1. CASE Fail(p) BY <2>1 DEF Fail, Fallible
  <2>2. CASE Kill(p)
    <3>1. CASE At(p, "wait")
      <4>1. Mutex!Refuse(p) BY <2>2, <3>1 DEF Kill, Mutex!Refuse
      <4> QED BY <4>1
    <3>2. CASE lock = p
      <4>1. Mutex!Release(p) BY <2>2, <3>2 DEF Kill, Mutex!Release
      <4> QED BY <4>1
    <3> QED BY <2>2, <3>1, <3>2 DEF Kill
  <2> QED BY <1>6, <2>1, <2>2 DEF FaultStep
<1>7. CASE PowerLoss
  <2>1. Mutex!Reset BY <1>7 DEF PowerLoss, Mutex!Reset
  <2> QED BY <2>1
<1>8. CASE Tick \/ UNCHANGED vars BY <1>8 DEF Tick, vars
<1> QED BY <1>1, <1>2, <1>3, <1>4, <1>5, <1>6, <1>7, <1>8 DEF Next

\* At most one command holds the directory lock, it is granted only to one that
\* asked, and death gives it back: about openLockedConfig and its release.
THEOREM MutexRefinement == Spec => MutexSpec
<1>1. Init => Mutex!Init BY DEF Init, Mutex!Init
<1>2. IInv /\ [Next]_vars => [Mutex!Next]_<<lock, Waiting>> BY MutexStep
<1> QED BY <1>1, <1>2, InvariantHolds, PTL DEF Spec, MutexSpec, Mutex!Spec, Waiting
-----------------------------------------------------------------------------
(* The two files together, when the power stays on and nobody clears the   *)
(* lockout.                                                                *)

\* While one process is past the lock, the others have nothing to lose.
LEMMA OthersWait ==
  ASSUME TypeOK, LockInv, NEW p \in Procs, pc[p] \in Steps
  PROVE  \A q \in Procs : q # p => pc[q] \in {"idle", "wait"}
BY OneHolder DEF TypeOK

LEMMA SessionLogin ==
  ASSUME IInv, SessionInv, NEW p \in Procs, LoginStep(p)
  PROVE  SessionInv'
<1> USE LoginManagerAssumption, SentinelAssumption
    DEF IInv, TypeOK, SessionInv, OrderInv, AgreeInv, InFlight, Awaiting, Refused,
        Decides, Logs, PendingSessionAwaitsApproval, Approvals,
        RefusedApprovalLeavesNoSession, locals, attFile, sesFile, history
<1>1. \A q \in Procs : q # p => pc[q] \in {"idle", "wait"}
  BY OthersWait DEF LoginStep, Preflight, Stamp, Submit, Outcome, Steps
<1>2. CASE Preflight(p)
  BY <1>1, <1>2 DEF Preflight, PreflightPasses, Blocks
<1>3. CASE Stamp(p) BY <1>1, <1>3 DEF Stamp
<1>4. CASE Submit(p) BY <1>1, <1>4 DEF Submit
<1>5. CASE Outcome(p)
  <2>1. PICK kind \in {"success", "approval_pending"} \union FailureKinds,
             withSession \in BOOLEAN :
          /\ mine' = [mine EXCEPT ![p] = OutcomeRecord(kind, mine[p].last)]
          /\ kept' = [kept EXCEPT ![p] =
               IF withSession /\ kind \notin FailureKinds
               THEN [created |-> now, pending |-> kind # "success"]
               ELSE NoSession]
          /\ pc' = [pc EXCEPT ![p] = IF withSession /\ kind \notin FailureKinds
                                     THEN "save_session" ELSE "save_attempt"]
    BY <1>5 DEF Outcome
  <2>2. UNCHANGED <<cmd, att, ses>> /\ pc[p] = "await"
    BY <1>5 DEF Outcome
  <2>3. /\ ~Refused(OutcomeRecord(kind, mine[p].last))
        /\ kind = "approval_pending"
             => OutcomeRecord(kind, mine[p].last).state = "in_flight"
    BY DEF OutcomeRecord
  <2>4. mine'[p] = OutcomeRecord(kind, mine[p].last) BY <2>1
  <2>5. ~Refused(mine'[p]) BY <2>3, <2>4
  <2>6. CASE withSession /\ kind \notin FailureKinds
    <3>1. /\ pc' = [pc EXCEPT ![p] = "save_session"]
          /\ kept'[p] = [created |-> now, pending |-> kind # "success"]
      BY <2>1, <2>6
    <3>2. kind # "success" => mine'[p].state = "in_flight"
      BY <2>3, <2>4, <2>6
    <3>3. kept'[p].pending => mine'[p].state = "in_flight"
      <4>1. CASE kind = "success"
        <5>1. kept'[p] = [created |-> now, pending |-> FALSE] BY <3>1, <4>1
        <5> QED BY <5>1
      <4>2. CASE kind # "success" BY <3>2, <4>2
      <4> QED BY <4>1, <4>2
    <3> HIDE DEF Refused
    <3> QED BY <1>1, <2>1, <2>2, <2>5, <3>1, <3>3
  <2>7. CASE ~(withSession /\ kind \notin FailureKinds)
    <3>1. pc' = [pc EXCEPT ![p] = "save_attempt"] BY <2>1, <2>7
    <3> HIDE DEF Refused
    <3> QED BY <1>1, <2>1, <2>2, <2>5, <3>1
  <2> QED BY <2>6, <2>7
<1> QED BY <1>2, <1>3, <1>4, <1>5 DEF LoginStep

LEMMA SessionFiles ==
  ASSUME IInv, SessionInv, NEW p \in Procs, FileStep(p)
  PROVE  SessionInv'
<1> USE LoginManagerAssumption, SentinelAssumption
    DEF IInv, TypeOK, SessionInv, OrderInv, AgreeInv, InFlight, Awaiting, Refused,
        Decides, Logs, PendingSessionAwaitsApproval, Approvals,
        RefusedApprovalLeavesNoSession, locals, attFile, sesFile, history
<1>1. \A q \in Procs : q # p => pc[q] \in {"idle", "wait"}
  BY OthersWait DEF FileStep, PublishAttempt, PublishSession, SyncAfterSave,
     UnlinkSession, SyncAfterUnlink, Steps
<1>2. CASE PublishAttempt(p)
  <2>1. mine[p] # NoAttempt
    BY <1>2 DEF PublishAttempt, PrepareInv, Prepared, Blocks, SaveInv, Saves
  <2>2. att' = mine[p] /\ UNCHANGED <<cmd, mine, kept, ses>>
    BY <1>2 DEF PublishAttempt, AttemptFile!Publish
  <2>3. CASE At(p, "save_inflight")
    BY <1>1, <1>2, <2>1, <2>2, <2>3 DEF PublishAttempt, AfterRename
  <2>4. CASE At(p, "save_attempt")
    BY <1>1, <1>2, <2>1, <2>2, <2>4 DEF PublishAttempt, AfterRename
  <2> QED BY <1>2, <2>3, <2>4 DEF PublishAttempt
<1>3. CASE PublishSession(p)
  BY <1>1, <1>3 DEF PublishSession, SessionFile!Publish, SaveInv, Saves
<1>4. CASE SyncAfterSave(p)
  BY <1>1, <1>4 DEF SyncAfterSave, SyncDirectory, AttemptFile!Sync,
     SessionFile!Sync
<1>5. CASE UnlinkSession(p)
  BY <1>1, <1>5 DEF UnlinkSession, SessionFile!Publish, AfterSession
<1>6. CASE SyncAfterUnlink(p)
  BY <1>1, <1>6 DEF SyncAfterUnlink, SyncDirectory, AttemptFile!Sync,
     SessionFile!Sync, AfterSession, LogoutInv
<1> QED BY <1>2, <1>3, <1>4, <1>5, <1>6 DEF FileStep
LEMMA SessionRest ==
  ASSUME IInv, SessionInv, NEW p \in Procs,
         LockStep(p) \/ ApprovalStep(p) \/ FaultStep(p)
  PROVE  SessionInv'
<1> USE LoginManagerAssumption, SentinelAssumption
    DEF IInv, TypeOK, SessionInv, OrderInv, AgreeInv, InFlight, Awaiting, Refused,
        Decides, Logs, PendingSessionAwaitsApproval, Approvals,
        RefusedApprovalLeavesNoSession, locals, attFile, sesFile, history
<1>1. CASE Acquire(p)
  <2>1. /\ FirstStep(cmd[p]) \in {"preflight", "resolve", "confirm", "unlink",
                                  "load_session"}
        /\ FirstStep(cmd[p]) \in {"unlink", "load_session"}
             => cmd[p] \notin Approvals
        /\ FirstStep(cmd[p]) = "confirm" => cmd[p] = "clear"
    BY <1>1 DEF Acquire, FirstStep, CommandInv, AllCommands
  <2> QED BY <1>1, <2>1 DEF Acquire
<1>2. CASE Begin(p) \/ Refuse(p) \/ Release(p)
  BY <1>2 DEF Begin, Refuse, Release, Forget
<1>3. CASE ResolveApproval(p)
  <2>1. \A q \in Procs : q # p => pc[q] \in {"idle", "wait"}
    BY <1>3, OthersWait DEF ResolveApproval, Steps
  <2>2. CASE att # NoAttempt /\ att.state = "in_flight"
    <3>1. /\ mine'[p] = ResolutionRecord(cmd[p], att)
          /\ pc' = [pc EXCEPT ![p] = ResolutionStep(cmd[p])]
          /\ UNCHANGED <<cmd, kept, att, ses>>
          /\ cmd[p] \in Approvals
      BY <1>3, <2>2 DEF ResolveApproval, CommandInv
    <3>2. /\ mine'[p].state # "in_flight"
          /\ cmd[p] = "approved" => ~Refused(mine'[p])
      <4>1. att \in Attempt BY <2>2
      <4> QED BY <3>1, <4>1 DEF ResolutionRecord, Attempt
    <3> HIDE DEF Refused
    <3> QED BY <1>3, <2>1, <2>2, <3>1, <3>2 DEF ResolutionStep, ResolveApproval
  <2>3. CASE ~(att # NoAttempt /\ att.state = "in_flight")
    BY <1>3, <2>1, <2>3 DEF ResolveApproval
  <2> QED BY <2>2, <2>3
<1>4. CASE LoadSession(p)
  <2>1. \A q \in Procs : q # p => pc[q] \in {"idle", "wait"}
    BY <1>4, OthersWait DEF LoadSession, Steps
  <2>2. CASE ses # NoSession /\ ~Expired(ses) /\ cmd[p] = "approved"
    <3>1. kept'[p] = ApprovedSession(ses) /\ kept'[p].pending = FALSE
      BY <1>4, <2>2 DEF LoadSession, ApprovedSession, Session
    <3> QED BY <1>4, <2>1, <2>2, <3>1 DEF LoadSession
  <2>3. CASE ~(ses # NoSession /\ ~Expired(ses) /\ cmd[p] = "approved")
    BY <1>4, <2>1, <2>3 DEF LoadSession, AfterSession
  <2> QED BY <2>2, <2>3
<1>5. CASE Fail(p) BY <1>5 DEF Fail, Fallible
<1>6. CASE Kill(p) BY <1>6 DEF Kill, Forget
<1> QED BY <1>1, <1>2, <1>3, <1>4, <1>5, <1>6
        DEF LockStep, ApprovalStep, FaultStep

LEMMA SessionStep ==
  ASSUME "power_loss" \notin Faults, "clear" \notin Commands,
         IInv, SessionInv, [Next]_vars
  PROVE  SessionInv'
<1>1. ASSUME NEW p \in Procs, ClearStep(p)
      PROVE  FALSE
  BY <1>1, LoginManagerAssumption
     DEF ClearStep, Confirm, Unconfirmed, LoadToClear, SessionInv, OrderInv
<1>2. ~PowerLoss BY DEF PowerLoss
<1>3. CASE Tick \/ UNCHANGED vars
  BY <1>3 DEF Tick, vars, locals, attFile, sesFile, SessionInv, OrderInv, AgreeInv,
     InFlight, Awaiting, Refused, Decides, Logs, PendingSessionAwaitsApproval,
     RefusedApprovalLeavesNoSession, Blocks
<1> QED BY <1>1, <1>2, <1>3, SessionLogin, SessionFiles, SessionRest DEF Next

LEMMA SessionInvHolds ==
  ASSUME "power_loss" \notin Faults, "clear" \notin Commands
  PROVE  Spec => []SessionInv
<1>1. Init => SessionInv
  BY DEF Init, SessionInv, OrderInv, AgreeInv, Decides, Logs,
     PendingSessionAwaitsApproval, RefusedApprovalLeavesNoSession, InFlight
<1>2. IInv /\ SessionInv /\ [Next]_vars => SessionInv' BY SessionStep
<1> QED BY <1>1, <1>2, InvariantHolds, PTL DEF Spec

\* A session that waits for its approval can still be decided about, whatever
\* commands run and wherever they are killed, while the power stays on and
\* nobody clears the lockout: about the order of the saves in Login and
\* ResolveApproval.
THEOREM PendingAwaits ==
  ASSUME "power_loss" \notin Faults, "clear" \notin Commands
  PROVE  Spec => []PendingSessionAwaitsApproval
<1>1. SessionInv => PendingSessionAwaitsApproval BY DEF SessionInv
<1> QED BY <1>1, SessionInvHolds, PTL

\* Under the same conditions a refused approval leaves no session: about the
\* deletion that ResolveApproval makes before it saves the refusal.
THEOREM RefusedLeavesNone ==
  ASSUME "power_loss" \notin Faults, "clear" \notin Commands
  PROVE  Spec => []RefusedApprovalLeavesNoSession
<1>1. SessionInv => RefusedApprovalLeavesNoSession BY DEF SessionInv
<1> QED BY <1>1, SessionInvHolds, PTL
-----------------------------------------------------------------------------
(* The age of a session, while the power stays on.  A process that is about *)
(* to save one is a login, or still sees the session that it loaded.        *)

AgeInv == \A p \in Procs :
  /\ Logs(p) => cmd[p] = "login"
  /\ At(p, "save_session") =>
       \/ cmd[p] = "login"
       \/ ses # NoSession /\ kept[p].created = ses.created

LEMMA AgeStep ==
  ASSUME "power_loss" \notin Faults, IInv, AgeInv, [Next]_vars
  PROVE  AgeInv'
<1> USE DEF IInv, TypeOK, AgeInv, Logs, locals, attFile, sesFile, history
<1>1. ASSUME NEW p \in Procs, LockStep(p) PROVE AgeInv'
  <2>1. CASE Acquire(p)
    <3>1. FirstStep(cmd[p]) \in {"preflight", "resolve", "confirm", "unlink",
                                "load_session"}
      BY <2>1 DEF Acquire, FirstStep, CommandInv, AllCommands, Approvals
    <3> QED BY <2>1, <3>1 DEF Acquire
  <2>2. CASE Begin(p) \/ Refuse(p) \/ Release(p)
    BY <2>2 DEF Begin, Refuse, Release, Forget
  <2> QED BY <1>1, <2>1, <2>2 DEF LockStep
<1>2. ASSUME NEW p \in Procs, LoginStep(p) PROVE AgeInv'
  <2>1. CASE Preflight(p) BY <2>1 DEF Preflight
  <2>2. CASE Stamp(p) BY <2>2 DEF Stamp
  <2>3. CASE Submit(p) BY <2>3 DEF Submit
  <2>4. CASE Outcome(p)
    <3>1. cmd[p] = "login" /\ UNCHANGED <<cmd, ses>>
      BY <2>4 DEF Outcome
    <3>2. \A q \in Procs : q # p => pc'[q] = pc[q] /\ kept'[q] = kept[q]
      BY <2>4 DEF Outcome
    <3>3. pc'[p] \in {"save_session", "save_attempt"}
      BY <2>4 DEF Outcome
    <3> QED BY <3>1, <3>2, <3>3
  <2> QED BY <1>2, <2>1, <2>2, <2>3, <2>4 DEF LoginStep
<1>3. ASSUME NEW p \in Procs, FileStep(p) PROVE AgeInv'
  <2>1. \A q \in Procs : q # p => pc[q] \in {"idle", "wait"}
    BY <1>3, OthersWait DEF FileStep, PublishAttempt, PublishSession,
       SyncAfterSave, UnlinkSession, SyncAfterUnlink, Steps
  <2>2. CASE PublishAttempt(p) BY <2>2 DEF PublishAttempt, AfterRename
  <2>3. CASE PublishSession(p) BY <2>1, <2>3 DEF PublishSession
  <2>4. CASE SyncAfterSave(p)
    BY <2>4 DEF SyncAfterSave, SyncDirectory, AttemptFile!Sync, SessionFile!Sync
  <2>5. CASE UnlinkSession(p) BY <2>1, <2>5 DEF UnlinkSession, AfterSession
  <2>6. CASE SyncAfterUnlink(p)
    BY <2>6 DEF SyncAfterUnlink, SyncDirectory, AttemptFile!Sync,
       SessionFile!Sync, AfterSession
  <2> QED BY <1>3, <2>2, <2>3, <2>4, <2>5, <2>6 DEF FileStep
<1>4. ASSUME NEW p \in Procs, ApprovalStep(p) PROVE AgeInv'
  <2>1. CASE ResolveApproval(p) BY <2>1 DEF ResolveApproval, ResolutionStep
  <2>2. CASE LoadSession(p)
    <3>1. CASE ses # NoSession /\ ~Expired(ses) /\ cmd[p] = "approved"
      <4>1. ApprovedSession(ses).created = ses.created
        BY <3>1 DEF ApprovedSession, Session
      <4> QED BY <2>2, <3>1, <4>1 DEF LoadSession
    <3>2. CASE ~(ses # NoSession /\ ~Expired(ses) /\ cmd[p] = "approved")
      BY <2>2, <3>2 DEF LoadSession, AfterSession
    <3> QED BY <3>1, <3>2
  <2> QED BY <1>4, <2>1, <2>2 DEF ApprovalStep
<1>5. ASSUME NEW p \in Procs, ClearStep(p) PROVE AgeInv'
  BY <1>5 DEF ClearStep, Confirm, Unconfirmed, LoadToClear
<1>6. ASSUME NEW p \in Procs, FaultStep(p) PROVE AgeInv'
  BY <1>6 DEF FaultStep, Fail, Kill, Forget
<1>7. CASE Tick \/ UNCHANGED vars BY <1>7 DEF Tick, vars
<1>8. ~PowerLoss BY DEF PowerLoss
<1> QED BY <1>1, <1>2, <1>3, <1>4, <1>5, <1>6, <1>7, <1>8 DEF Next

\* A step that puts another session on file, when there was one, saves it.
LEMMA AgeKept ==
  ASSUME "power_loss" \notin Faults, IInv, AgeInv, [Next]_vars,
         ses # NoSession, ses' # NoSession, ses'.created # ses.created
  PROVE  \E p \in Procs : At(p, "save_session") /\ cmd[p] = "login"
<1>1. CASE \E p \in Procs : PublishSession(p)
  BY <1>1 DEF PublishSession, SessionFile!Publish, AgeInv
<1>2. CASE \A p \in Procs : ~PublishSession(p)
  <2>1. ses' = ses \/ ses' = NoSession
    BY <1>2 DEF Next, vars, locals, attFile, sesFile, history, LockStep, LoginStep,
       FileStep, ApprovalStep, ClearStep, FaultStep, Begin, Acquire, Refuse,
       Release, Preflight, Stamp, Submit, Outcome, PublishAttempt, SyncAfterSave,
       SyncDirectory, AttemptFile!Sync, SessionFile!Sync, UnlinkSession,
       SessionFile!Publish, SyncAfterUnlink, ResolveApproval, LoadSession, Confirm,
       Unconfirmed, LoadToClear, Fail, Kill, PowerLoss, Tick
  <2> QED BY <2>1
<1> QED BY <1>1, <1>2

\* While the power stays on, only a login gives a session a new age, whatever
\* commands run and wherever they are killed: about the creation time that
\* ResolveApproval carries from LoadSession to SaveSession.
THEOREM OnlyLoginRenews ==
  ASSUME "power_loss" \notin Faults
  PROVE  Spec => OnlyLoginRenewsSession
<1>1. Init => AgeInv BY DEF Init, AgeInv, Logs
<1>2. IInv /\ AgeInv /\ [Next]_vars => AgeInv' BY AgeStep
<1>3. IInv /\ AgeInv /\ [Next]_vars =>
        [ ses # NoSession /\ ses' # NoSession /\ ses'.created # ses.created
            => \E p \in Procs : At(p, "save_session") /\ cmd[p] = "login" ]_vars
  BY AgeKept
<1> QED BY <1>1, <1>2, <1>3, InvariantHolds, PTL DEF Spec, OnlyLoginRenewsSession
-----------------------------------------------------------------------------
(* Logout, while the power stays on. *)

\* Only the save of a session ends the effect of a logout.
LEMMA AbsenceStep ==
  ASSUME "power_loss" \notin Faults, IInv, LogoutIsFinal, [Next]_vars
  PROVE  LogoutIsFinal'
<1> USE DEF IInv, TypeOK, LogoutIsFinal, locals, attFile, sesFile, history
<1>1. ASSUME NEW p \in Procs, FileStep(p) PROVE LogoutIsFinal'
  <2> USE DEF SyncDirectory, AttemptFile!Publish, AttemptFile!Sync,
              SessionFile!Publish, SessionFile!Sync
  <2>1. CASE PublishAttempt(p) \/ PublishSession(p) \/ SyncAfterSave(p)
    BY <2>1 DEF PublishAttempt, PublishSession, SyncAfterSave
  <2>2. CASE UnlinkSession(p) BY <2>2 DEF UnlinkSession
  <2>3. CASE SyncAfterUnlink(p) BY <2>3 DEF SyncAfterUnlink, LogoutInv
  <2> QED BY <1>1, <2>1, <2>2, <2>3 DEF FileStep
<1>2. ASSUME NEW p \in Procs,
             LockStep(p) \/ LoginStep(p) \/ ApprovalStep(p) \/ ClearStep(p)
               \/ FaultStep(p)
      PROVE  LogoutIsFinal'
  BY <1>2 DEF LockStep, Begin, Acquire, Refuse, Release, LoginStep, Preflight,
     Stamp, Submit, Outcome, ApprovalStep, ResolveApproval, LoadSession,
     ClearStep, Confirm, Unconfirmed, LoadToClear, FaultStep, Fail, Kill
<1>3. CASE Tick \/ UNCHANGED vars BY <1>3 DEF Tick, vars
<1>4. ~PowerLoss BY DEF PowerLoss
<1> QED BY <1>1, <1>2, <1>3, <1>4 DEF Next

\* While the power stays on, a logout that reported success is final, whether or
\* not it found a session, and wherever it and its repetitions were killed: what
\* DeleteSession without a sync leaves open is the loss of power alone.
THEOREM LogoutHolds ==
  ASSUME "power_loss" \notin Faults
  PROVE  Spec => []LogoutIsFinal
<1>1. Init => LogoutIsFinal BY DEF Init, LogoutIsFinal
<1>2. IInv /\ LogoutIsFinal /\ [Next]_vars => LogoutIsFinal' BY AbsenceStep
<1> QED BY <1>1, <1>2, InvariantHolds, PTL DEF Spec
=============================================================================
