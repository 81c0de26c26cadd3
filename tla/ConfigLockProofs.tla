-------------------------- MODULE ConfigLockProofs --------------------------
(***************************************************************************)
(* Proofs about the polled lock, for any number of processes, any timeout  *)
(* and any poll.                                                           *)
(***************************************************************************)
EXTENDS ConfigLock, TLAPS

USE ConfigLockAssumption DEF Goto, StopTimers, Drop

\* The three facts are inductive together.
IInv == TypeOK /\ HolderOwnsFlock /\ SleepEndsByDeadline

LEMMA SleepIsCut ==
  ASSUME NEW left \in Nat
  PROVE  Sleep(left) \in 0..Poll /\ Sleep(left) <= left
BY DEF Sleep

LEMMA TimersRunDown ==
  ASSUME NEW bound \in Nat, NEW a \in 0..bound, NEW b \in Nat, a <= b
  PROVE  /\ Less(a) \in 0..bound
         /\ Less(b) \in Nat
         /\ Less(a) <= Less(b)
BY DEF Less

LEMMA TypeStep ==
  ASSUME IInv, [Next]_vars
  PROVE  TypeOK'
<1> USE DEF IInv, TypeOK
<1>1. ASSUME NEW p \in Procs, Run(p) PROVE TypeOK'
  <2>1. CASE TryFlock(p) BY <2>1 DEF TryFlock
  <2>2. CASE Check(p)
    <3>1. Sleep(remaining[p]) \in 0..Poll BY SleepIsCut
    <3> QED BY <2>2, <3>1 DEF Check
  <2>3. CASE Wake(p) BY <2>3 DEF Wake
  <2>4. CASE CloseFile(p) BY <2>4 DEF CloseFile
  <2> QED BY <1>1, <2>1, <2>2, <2>3, <2>4 DEF Run
<1>2. ASSUME NEW p \in Procs, Open(p) PROVE TypeOK' BY <1>2 DEF Open
<1>3. ASSUME NEW p \in Procs, GiveUp(p) PROVE TypeOK' BY <1>3 DEF GiveUp
<1>4. ASSUME NEW p \in Procs, Unlock(p) PROVE TypeOK' BY <1>4 DEF Unlock
<1>5. ASSUME NEW p \in Procs, Kill(p) PROVE TypeOK' BY <1>5 DEF Kill
<1>6. CASE Tick BY <1>6 DEF Tick, Less
<1>7. CASE UNCHANGED vars BY <1>7 DEF vars
<1> QED BY <1>1, <1>2, <1>3, <1>4, <1>5, <1>6, <1>7 DEF Next

LEMMA LockStep ==
  ASSUME IInv, [Next]_vars
  PROVE  HolderOwnsFlock' /\ SleepEndsByDeadline'
<1> DEFINE Kept == HolderOwnsFlock' /\ SleepEndsByDeadline'
<1> USE DEF IInv, TypeOK, HolderOwnsFlock, SleepEndsByDeadline
<1>1. ASSUME NEW p \in Procs, Run(p) PROVE Kept
  <2>1. CASE TryFlock(p)
    <3>1. CASE flock = NoProc BY <2>1, <3>1 DEF TryFlock
    <3>2. CASE flock # NoProc BY <2>1, <3>2 DEF TryFlock
    <3> QED BY <3>1, <3>2
  <2>2. CASE Check(p)
    <3>1. Sleep(remaining[p]) <= remaining[p] BY SleepIsCut
    <3> QED BY <2>2, <3>1 DEF Check
  <2>3. CASE Wake(p) BY <2>3 DEF Wake
  <2>4. CASE CloseFile(p) BY <2>4 DEF CloseFile
  <2> QED BY <1>1, <2>1, <2>2, <2>3, <2>4 DEF Run
<1>2. ASSUME NEW p \in Procs, Open(p) PROVE Kept BY <1>2 DEF Open
<1>3. ASSUME NEW p \in Procs, GiveUp(p) PROVE Kept BY <1>3 DEF GiveUp
<1>4. ASSUME NEW p \in Procs, Unlock(p) PROVE Kept BY <1>4 DEF Unlock
<1>5. ASSUME NEW p \in Procs, Kill(p) PROVE Kept BY <1>5 DEF Kill
<1>6. CASE Tick
  <2>1. ASSUME NEW p \in Procs, pc'[p] = "sleep" PROVE alarm'[p] <= remaining'[p]
    <3>1. alarm[p] <= remaining[p] /\ alarm[p] \in 0..Poll /\ remaining[p] \in Nat
      BY <1>6, <2>1 DEF Tick
    <3>2. Less(alarm[p]) <= Less(remaining[p]) BY <3>1, TimersRunDown
    <3> QED BY <1>6, <3>2 DEF Tick
  <2> QED BY <1>6, <2>1 DEF Tick
<1>7. CASE UNCHANGED vars BY <1>7 DEF vars
<1> QED BY <1>1, <1>2, <1>3, <1>4, <1>5, <1>6, <1>7 DEF Next

\* The invariant holds in every behaviour of the lock.
THEOREM InvariantHolds == Spec => []IInv
<1>1. Init => IInv
  BY DEF Init, IInv, TypeOK, HolderOwnsFlock, SleepEndsByDeadline
<1>2. IInv /\ [Next]_vars => IInv' BY TypeStep, LockStep DEF IInv
<1> QED BY <1>1, <1>2, PTL DEF Spec

\* The process in the critical section owns the flock, and only it or one that
\* is closing its file: about AcquireLock's returns and Lock.Close.
THEOREM HolderHasFlock == Spec => []HolderOwnsFlock
<1>1. IInv => HolderOwnsFlock BY DEF IInv
<1> QED BY <1>1, InvariantHolds, PTL

\* No sleep outlasts the deadline: about the cut of the wait in AcquireLock.
THEOREM SleepsAreCut == Spec => []SleepEndsByDeadline
<1>1. IInv => SleepEndsByDeadline BY DEF IInv
<1> QED BY <1>1, InvariantHolds, PTL

\* All variables of the lock keep their types: about the timers, which run down
\* from the timeout and the poll.
THEOREM TypeCorrect == Spec => []TypeOK
<1>1. IInv => TypeOK BY DEF IInv
<1> QED BY <1>1, InvariantHolds, PTL

-----------------------------------------------------------------------------
(* A release is noticed: the time for which the lock has been free and the   *)
(* time that a sleeper has left add up to one poll at most.                  *)

FreeInv == /\ flock # NoProc => freeFor = 0
           /\ \A p \in Procs : /\ pc[p] = "check" => freeFor = 0
                               /\ pc[p] = "sleep" => alarm[p] + freeFor <= Poll
           /\ ReleaseIsNoticed

\* While nobody is kept from running, every process that waits sleeps, and its
\* alarm runs as fast as freeFor grows.
LEMMA FreeTick ==
  ASSUME IInv, FreeInv, Tick
  PROVE  FreeInv'
<1> USE DEF IInv, TypeOK, FreeInv, ReleaseIsNoticed
<1>1. pc' = pc /\ flock' = flock /\ alarm' = [p \in Procs |-> Less(alarm[p])]
  BY DEF Tick
<1>2. CASE flock = NoProc /\ Waiting # {} /\ \A p \in Procs : ~Ready(p)
  <2>1. freeFor' = freeFor + 1
    BY <1>2 DEF Tick
  <2>2. \A p \in Procs : /\ pc[p] # "check"
                         /\ pc[p] = "sleep" => alarm[p] \in 1..Poll
    <3> SUFFICES ASSUME NEW p \in Procs
                 PROVE  pc[p] # "check" /\ (pc[p] = "sleep" => alarm[p] \in 1..Poll)
      OBVIOUS
    <3>1. ~Ready(p) /\ alarm[p] \in 0..Poll
      BY <1>2
    <3> QED BY <3>1 DEF Ready
  <2>3. PICK q \in Procs : pc[q] = "sleep"
    <3>1. PICK q \in Procs : pc[q] \in {"try", "check", "sleep"}
      BY <1>2 DEF Waiting
    <3>2. ~Ready(q)
      BY <1>2
    <3> QED BY <3>1, <3>2 DEF Ready
  <2>4. freeFor + 1 <= Poll
    BY <2>2, <2>3
  <2>5. ASSUME NEW p \in Procs, pc[p] = "sleep"
        PROVE  Less(alarm[p]) + freeFor + 1 <= Poll
    BY <2>2, <2>5 DEF Less
  <2>6. ASSUME NEW p \in Procs
        PROVE  /\ pc'[p] # "check"
               /\ pc'[p] = "sleep" => alarm'[p] + freeFor' <= Poll
    <3>1. pc'[p] = pc[p] /\ alarm'[p] = Less(alarm[p]) /\ Less(alarm[p]) \in Nat
      BY <1>1 DEF Less
    <3> QED BY <2>1, <2>2, <2>5, <3>1
  <2>7. flock' = NoProc /\ freeFor' <= Poll
    BY <1>1, <1>2, <2>1, <2>4
  <2> QED BY <2>6, <2>7
<1>3. CASE ~(flock = NoProc /\ Waiting # {} /\ \A p \in Procs : ~Ready(p))
  <2>1. freeFor' = 0
    BY <1>3 DEF Tick
  <2>2. ASSUME NEW p \in Procs PROVE alarm'[p] + freeFor' <= Poll
    <3>1. alarm'[p] = Less(alarm[p]) /\ Less(alarm[p]) \in 0..Poll
      BY <1>1 DEF Less
    <3> QED BY <2>1, <3>1
  <2> QED BY <2>1, <2>2
<1> QED BY <1>2, <1>3

LEMMA FreeStep ==
  ASSUME IInv, FreeInv, [Next]_vars
  PROVE  FreeInv'
<1> USE DEF IInv, TypeOK, FreeInv, ReleaseIsNoticed
<1>1. ASSUME NEW p \in Procs, Run(p) PROVE FreeInv'
  <2>1. CASE TryFlock(p)
    <3>1. CASE flock = NoProc BY <2>1, <3>1 DEF TryFlock
    <3>2. CASE flock # NoProc BY <2>1, <3>2 DEF TryFlock
    <3> QED BY <3>1, <3>2
  <2>2. CASE Check(p)
    <3>1. Sleep(remaining[p]) \in 0..Poll BY SleepIsCut
    <3>2. freeFor = 0 BY <2>2 DEF Check
    <3> QED BY <2>2, <3>1, <3>2 DEF Check
  <2>3. CASE Wake(p) BY <2>3 DEF Wake
  <2>4. CASE CloseFile(p) BY <2>4 DEF CloseFile
  <2> QED BY <1>1, <2>1, <2>2, <2>3, <2>4 DEF Run
<1>2. ASSUME NEW p \in Procs, Open(p) PROVE FreeInv' BY <1>2 DEF Open
<1>3. ASSUME NEW p \in Procs, GiveUp(p) PROVE FreeInv' BY <1>3 DEF GiveUp
<1>4. ASSUME NEW p \in Procs, Unlock(p) PROVE FreeInv'
  BY <1>4 DEF Unlock, HolderOwnsFlock
<1>5. ASSUME NEW p \in Procs, Kill(p) PROVE FreeInv' BY <1>5 DEF Kill
<1>6. CASE Tick BY <1>6, FreeTick
<1>7. CASE UNCHANGED vars BY <1>7 DEF vars
<1> QED BY <1>1, <1>2, <1>3, <1>4, <1>5, <1>6, <1>7 DEF Next

\* A lock that is free is taken within one poll unless the scheduler keeps a
\* process that is ready from running: about the 100 ms wait of AcquireLock.
THEOREM ReleasesAreNoticed == Spec => []ReleaseIsNoticed
<1>1. Init => FreeInv BY DEF Init, FreeInv, ReleaseIsNoticed
<1>2. IInv /\ FreeInv /\ [Next]_vars => FreeInv' BY FreeStep
<1>3. FreeInv => ReleaseIsNoticed BY DEF FreeInv
<1> QED BY <1>1, <1>2, <1>3, InvariantHolds, PTL DEF Spec

-----------------------------------------------------------------------------
\* Every step of the polled lock is a step of the abstract mutex or none.
LEMMA MutexStep ==
  ASSUME IInv, [Next]_vars
  PROVE  [Mutex!Next]_<<flock, Waiting>>
<1> USE DEF IInv, TypeOK, HolderOwnsFlock, Waiting
<1>1. ASSUME NEW p \in Procs, Run(p) PROVE [Mutex!Next]_<<flock, Waiting>>
  <2>1. CASE TryFlock(p)
    <3>1. CASE flock = NoProc
      <4>1. Mutex!Grant(p) BY <2>1, <3>1 DEF TryFlock, Mutex!Grant
      <4> QED BY <4>1 DEF Mutex!Next
    <3>2. CASE flock # NoProc BY <2>1, <3>2 DEF TryFlock
    <3> QED BY <3>1, <3>2
  <2>2. CASE Check(p)
    <3>1. CASE remaining[p] = 0
      <4>1. Mutex!Refuse(p) BY <2>2, <3>1 DEF Check, Mutex!Refuse
      <4> QED BY <4>1 DEF Mutex!Next
    <3>2. CASE remaining[p] # 0 BY <2>2, <3>2 DEF Check
    <3> QED BY <3>1, <3>2
  <2>3. CASE Wake(p) BY <2>3 DEF Wake
  <2>4. CASE CloseFile(p)
    <3>1. CASE flock = p
      <4>1. Mutex!Release(p) BY <2>4, <3>1 DEF CloseFile, Mutex!Release
      <4> QED BY <4>1 DEF Mutex!Next
    <3>2. CASE flock # p BY <2>4, <3>2 DEF CloseFile
    <3> QED BY <3>1, <3>2
  <2> QED BY <1>1, <2>1, <2>2, <2>3, <2>4 DEF Run
<1>2. ASSUME NEW p \in Procs, Open(p) PROVE [Mutex!Next]_<<flock, Waiting>>
  <2>1. Mutex!Request(p) BY <1>2 DEF Open, Mutex!Request
  <2> QED BY <2>1 DEF Mutex!Next
<1>3. ASSUME NEW p \in Procs, GiveUp(p) PROVE [Mutex!Next]_<<flock, Waiting>>
  <2>1. Mutex!Refuse(p) BY <1>3 DEF GiveUp, Mutex!Refuse
  <2> QED BY <2>1 DEF Mutex!Next
<1>4. ASSUME NEW p \in Procs, Unlock(p) PROVE [Mutex!Next]_<<flock, Waiting>>
  <2>1. CASE flock' = NoProc
    <3>1. Mutex!Release(p) BY <1>4, <2>1 DEF Unlock, Mutex!Release
    <3> QED BY <3>1 DEF Mutex!Next
  <2>2. CASE flock' = p BY <1>4, <2>2 DEF Unlock
  <2> QED BY <1>4, <2>1, <2>2 DEF Unlock
<1>5. ASSUME NEW p \in Procs, Kill(p) PROVE [Mutex!Next]_<<flock, Waiting>>
  <2>1. CASE p \in Waiting
    <3>1. Mutex!Refuse(p) BY <1>5, <2>1 DEF Kill, Mutex!Refuse
    <3> QED BY <3>1 DEF Mutex!Next
  <2>2. CASE flock = p
    <3>1. Mutex!Release(p) BY <1>5, <2>2 DEF Kill, Mutex!Release
    <3> QED BY <3>1 DEF Mutex!Next
  <2>3. CASE p \notin Waiting /\ flock # p BY <1>5, <2>3 DEF Kill
  <2> QED BY <2>1, <2>2, <2>3
<1>6. CASE Tick \/ UNCHANGED vars BY <1>6 DEF Tick, vars
<1> QED BY <1>1, <1>2, <1>3, <1>4, <1>5, <1>6 DEF Next

\* The polled lock implements the abstract mutex, the death of its holder and a
\* LOCK_UN that fails included.
THEOREM MutexRefinement == Spec => MutexSpec
<1>1. Init => Mutex!Init BY DEF Init, Mutex!Init, Waiting
<1>2. IInv /\ [Next]_vars => [Mutex!Next]_<<flock, Waiting>> BY MutexStep
<1> QED BY <1>1, <1>2, InvariantHolds, PTL DEF Spec, MutexSpec, Mutex!Spec
-----------------------------------------------------------------------------
(* An acquire runs out of patience: what EveryAcquireEnds rests on beside the *)
(* scheduler.                                                                 *)

\* An alarm is set only while its process sleeps.
IdleAlarms == \A p \in Procs : pc[p] # "sleep" => alarm[p] = 0

LEMMA AlarmStep ==
  ASSUME IInv, IdleAlarms, [Next]_vars
  PROVE  IdleAlarms'
<1> USE DEF IInv, TypeOK, IdleAlarms
<1>1. ASSUME NEW q \in Procs, Run(q) PROVE IdleAlarms'
  <2>1. CASE TryFlock(q) BY <2>1 DEF TryFlock, StopTimers
  <2>2. CASE Check(q) BY <2>2 DEF Check, StopTimers
  <2>3. CASE Wake(q) \/ CloseFile(q) BY <2>3 DEF Wake, CloseFile
  <2> QED BY <1>1, <2>1, <2>2, <2>3 DEF Run
<1>2. ASSUME NEW q \in Procs, Open(q) \/ GiveUp(q) \/ Unlock(q) \/ Kill(q)
      PROVE  IdleAlarms'
  BY <1>2 DEF Open, GiveUp, Unlock, Kill, StopTimers
<1>3. CASE Tick BY <1>3 DEF Tick, Less
<1>4. CASE UNCHANGED vars BY <1>4 DEF vars
<1> QED BY <1>1, <1>2, <1>3, <1>4 DEF Next

LEMMA PatienceStep ==
  ASSUME IInv, IdleAlarms, [Next]_vars, NEW p \in Waiting, p \in Waiting'
  PROVE  /\ Patience(p)' <= Patience(p)
         /\ pc'[p] # pc[p] \/ alarm'[p] # alarm[p] => Patience(p)' < Patience(p)
<1> USE DEF IInv, TypeOK, Waiting, Patience
<1>1. ASSUME NEW q \in Procs, Run(q), q = p
      PROVE  Patience(p)' < Patience(p)
  <2>1. CASE TryFlock(p) BY <2>1 DEF TryFlock
  <2>2. CASE Check(p)
    <3>1. remaining[p] # 0
      BY <2>2 DEF Check
    <3>2. Sleep(remaining[p]) # 0
      BY <3>1, ConfigLockAssumption DEF Sleep
    <3> QED BY <2>2, <3>1, <3>2 DEF Check
  <2>3. CASE Wake(p) BY <2>3 DEF Wake
  <2>4. CASE CloseFile(p) BY <2>4 DEF CloseFile
  <2> QED BY <1>1, <2>1, <2>2, <2>3, <2>4 DEF Run
<1>2. ASSUME NEW q \in Procs, Open(q) \/ GiveUp(q) \/ Unlock(q) \/ Kill(q), q = p
      PROVE  FALSE
  BY <1>2 DEF Open, GiveUp, Unlock, Kill
<1>3. ASSUME NEW q \in Procs \ {p},
             Open(q) \/ Run(q) \/ GiveUp(q) \/ Unlock(q) \/ Kill(q)
      PROVE  pc'[p] = pc[p] /\ alarm'[p] = alarm[p] /\ remaining'[p] = remaining[p]
  BY <1>3 DEF Open, Run, TryFlock, Check, Wake, CloseFile, GiveUp, Unlock, Kill, StopTimers
<1>4. CASE Tick
  <2>1. /\ pc'[p] = pc[p] /\ alarm'[p] = Less(alarm[p])
        /\ remaining'[p] = Less(remaining[p])
    BY <1>4 DEF Tick
  <2>2. alarm[p] # 0 /\ pc[p] = "sleep" => remaining[p] # 0
    BY DEF SleepEndsByDeadline
  <2>3. pc[p] # "sleep" => alarm[p] = 0
    BY DEF IdleAlarms
  <2> QED BY <2>1, <2>2, <2>3 DEF Less
<1>5. CASE UNCHANGED vars BY <1>5 DEF vars
<1>6. /\ pc[p] \in {"try", "check", "sleep"} /\ remaining[p] \in Nat /\ alarm[p] \in Nat
      /\ p \in Procs
  OBVIOUS
<1>7. Patience(p) \in Nat BY <1>6
<1>8. CASE \E q \in Procs : Open(q) \/ Run(q) \/ GiveUp(q) \/ Unlock(q) \/ Kill(q)
  <2> PICK q \in Procs : Open(q) \/ Run(q) \/ GiveUp(q) \/ Unlock(q) \/ Kill(q) BY <1>8
  <2>1. CASE q = p /\ Run(q)
    <3>1. Patience(p)' < Patience(p) BY <1>1, <2>1
    <3>2. Patience(p)' \in Nat
      <4>1. remaining'[p] \in Nat /\ alarm'[p] \in Nat BY TypeStep DEF TypeOK
      <4> QED BY <4>1
    <3> HIDE DEF Patience
    <3> QED BY <1>7, <3>1, <3>2
  <2>2. CASE q = p /\ ~Run(q) BY <1>2, <2>2
  <2>3. CASE q # p
    <3>1. pc'[p] = pc[p] /\ alarm'[p] = alarm[p] /\ remaining'[p] = remaining[p]
      BY <1>3, <2>3
    <3> QED BY <1>6, <3>1
  <2> QED BY <2>1, <2>2, <2>3
<1> QED BY <1>4, <1>5, <1>8 DEF Next

\* For any processes, timeout and poll an acquire never gains time, and each of
\* its steps costs some, so it makes at most 4 * Timeout + 2 of them: about the
\* sleep of AcquireLock, which is cut at the deadline and never empty before.
THEOREM PatienceEnds == Spec => PatienceRunsOut
<1>1. Init => IdleAlarms
  BY DEF Init, IdleAlarms
<1>2. IInv /\ IdleAlarms /\ [Next]_vars => IdleAlarms'
  BY AlarmStep
<1>3. IInv /\ IdleAlarms /\ [Next]_vars =>
        [\A p \in Waiting : p \in Waiting' =>
           /\ Patience(p)' <= Patience(p)
           /\ pc'[p] # pc[p] \/ alarm'[p] # alarm[p] => Patience(p)' < Patience(p)]_vars
  BY PatienceStep
<1> QED BY <1>1, <1>2, <1>3, InvariantHolds, PTL DEF Spec, PatienceRunsOut
==============================================================================
