----------------------------- MODULE ConfigLock -----------------------------
(***************************************************************************)
(* AcquireLock and Lock.Close: an exclusive flock on the file "lock" of    *)
(* the config directory, polled without blocking until a deadline.  Each   *)
(* process has its own open file; the kernel drops the flock when the      *)
(* holder's file is closed, also by its death.                             *)
(*                                                                         *)
(* Time is what is left of each timer: the deadline and the sleep of a     *)
(* process count down together and stop at 0, so no clock is needed.       *)
(***************************************************************************)
EXTENDS Naturals

CONSTANTS
  Procs,     \* processes that ask for the lock
  NoProc,    \* nobody
  Timeout,   \* effectiveLockTimeout (30 s), in units of the model
  Poll       \* the longest sleep between two tries (100 ms)

ASSUME ConfigLockAssumption ==
  /\ NoProc \notin Procs
  /\ Timeout \in Nat \ {0} /\ Poll \in Nat \ {0}

VARIABLES
  pc,          \* where each process is
  flock,       \* the process whose open file holds the flock
  remaining,   \* time to the deadline of each process
  alarm,       \* time to the end of each process's sleep
  freeFor      \* history: how long the flock has been free, somebody waiting for
               \* it and no process kept from running

vars == <<pc, flock, remaining, alarm, freeFor>>

Waiting == {p \in Procs : pc[p] \in {"try", "check", "sleep"}}
Goto(p, step) == pc' = [pc EXCEPT ![p] = step]

Init == /\ pc = [p \in Procs |-> "idle"]
        /\ flock = NoProc
        /\ remaining = [p \in Procs |-> 0]
        /\ alarm = [p \in Procs |-> 0]
        /\ freeFor = 0

\* What leaving the loop does to the timers.
StopTimers(p) == /\ remaining' = [remaining EXCEPT ![p] = 0]
                 /\ alarm' = [alarm EXCEPT ![p] = 0]

\* Open and chmod the file, and fix the deadline.
Open(p) == /\ pc[p] = "idle"
           /\ Goto(p, "try")
           /\ remaining' = [remaining EXCEPT ![p] = Timeout]
           /\ UNCHANGED <<flock, alarm, freeFor>>

\* Mutant: the flock is granted whoever holds it.
TryFlockBlindly(p) == /\ pc[p] = "try"
                      /\ Goto(p, "held")
                      /\ flock' = p
                      /\ freeFor' = 0
                      /\ StopTimers(p)

\* LOCK_EX | LOCK_NB.
TryFlock(p) == /\ pc[p] = "try"
               /\ IF flock = NoProc
                  THEN /\ Goto(p, "held")
                       /\ flock' = p
                       /\ freeFor' = 0
                       /\ StopTimers(p)
                  ELSE /\ Goto(p, "check")
                       /\ UNCHANGED <<flock, remaining, alarm, freeFor>>

\* Mutant: the sleep is not cut at the deadline.
UncutSleep(left) == Poll
\* Mutant: the process sleeps all the time it has left.
LongSleep(left) == left

Sleep(left) == IF left < Poll THEN left ELSE Poll

\* Mutant: the wait never ends in lock_contention.
CheckForever(p) == /\ pc[p] = "check"
                   /\ Goto(p, "sleep")
                   /\ alarm' = [alarm EXCEPT ![p] = Sleep(remaining[p])]
                   /\ UNCHANGED <<flock, remaining, freeFor>>

\* The deadline has passed: lock_contention.  Otherwise the process sleeps.
Check(p) == /\ pc[p] = "check"
            /\ IF remaining[p] = 0
               THEN /\ Goto(p, "idle")
                    /\ StopTimers(p)
               ELSE /\ Goto(p, "sleep")
                    /\ alarm' = [alarm EXCEPT ![p] = Sleep(remaining[p])]
                    /\ UNCHANGED remaining
            /\ UNCHANGED <<flock, freeFor>>

Wake(p) == /\ pc[p] = "sleep"
           /\ alarm[p] = 0
           /\ Goto(p, "try")
           /\ UNCHANGED <<flock, remaining, alarm, freeFor>>

\* Another errno from flock, or a context that is cancelled during the sleep:
\* the file is closed and the error returned.
GiveUp(p) == /\ pc[p] \in {"try", "sleep"}
             /\ Goto(p, "idle")
             /\ StopTimers(p)
             /\ UNCHANGED <<flock, freeFor>>

\* Lock.Close: LOCK_UN, which may fail, and then close(2), which drops the
\* flock of this open file if it still has it.
Unlock(p) == /\ pc[p] = "held"
             /\ Goto(p, "close")
             /\ flock' \in {NoProc, p}
             /\ UNCHANGED <<remaining, alarm, freeFor>>

Drop(p) == flock' = IF flock = p THEN NoProc ELSE flock

CloseFile(p) == /\ pc[p] = "close"
                /\ Goto(p, "idle")
                /\ Drop(p)
                /\ UNCHANGED <<remaining, alarm, freeFor>>

Kill(p) == /\ pc[p] # "idle"
           /\ Goto(p, "idle")
           /\ Drop(p)
           /\ StopTimers(p)
           /\ UNCHANGED freeFor

\* A process that could go on at once.
Ready(p) == pc[p] \in {"try", "check"} \/ (pc[p] = "sleep" /\ alarm[p] = 0)

Less(n) == IF n = 0 THEN 0 ELSE n - 1

\* One unit of time.  freeFor stops counting past Poll, which is too long.
Tick == /\ \E p \in Procs : remaining[p] > 0 \/ alarm[p] > 0
        /\ remaining' = [p \in Procs |-> Less(remaining[p])]
        /\ alarm' = [p \in Procs |-> Less(alarm[p])]
        /\ freeFor' = IF flock = NoProc /\ Waiting # {} /\ \A p \in Procs : ~Ready(p)
                      THEN IF freeFor <= Poll THEN freeFor + 1 ELSE freeFor
                      ELSE 0
        /\ UNCHANGED <<pc, flock>>

\* The steps a process takes of itself; it may hold the lock for ever.
Run(p) == TryFlock(p) \/ Check(p) \/ Wake(p) \/ CloseFile(p)

Next == \/ \E p \in Procs : Open(p) \/ Run(p) \/ GiveUp(p) \/ Unlock(p) \/ Kill(p)
        \/ Tick

\* The scheduler runs every process that can run, and time passes.
Fairness == WF_vars(Tick) /\ \A p \in Procs : WF_vars(Run(p))

Spec == Init /\ [][Next]_vars /\ Fairness

-----------------------------------------------------------------------------
\* Types only.
TypeOK == /\ pc \in [Procs -> {"idle", "try", "check", "sleep", "held", "close"}]
          /\ flock \in Procs \union {NoProc}
          /\ remaining \in [Procs -> 0..Timeout]
          /\ alarm \in [Procs -> 0..Poll]
          /\ freeFor \in 0..(Poll + 1)

\* A process in the critical section owns the flock, and a flock is owned only
\* from there or while its file is being closed.  About AcquireLock's return
\* paths and the order of unlock and close in Lock.Close.
HolderOwnsFlock == \A p \in Procs : /\ pc[p] = "held" => flock = p
                                    /\ flock = p => pc[p] \in {"held", "close"}

\* A process that sleeps wakes no later than its deadline, so the wait does not
\* outlast the timeout by a poll.  About the cut of the wait in AcquireLock.
SleepEndsByDeadline ==
  \A p \in Procs : pc[p] = "sleep" => alarm[p] <= remaining[p]

\* A lock that is free is taken within one poll unless the scheduler keeps a
\* process that is ready from running.  About the 100 ms wait of AcquireLock.
ReleaseIsNoticed == freeFor <= Poll

\* The polling lock is the abstract mutex, kills and failed unlocks included.
Mutex == INSTANCE ConfigMutex WITH holder <- flock, waiting <- Waiting
MutexSpec == Mutex!Spec

\* Every command that asks for the lock gets it or is turned away, even if the
\* holder never releases it.  About the deadline of AcquireLock.
EveryAcquireEnds == \A p \in Procs : pc[p] = "try" ~> p \notin Waiting

\* The tries, checks, sleeps and ticks that an acquire has before it at most.
Patience(p) ==
  4 * remaining[p] + CASE pc[p] = "sleep" -> IF alarm[p] = 0 THEN 3 ELSE 0
                       [] pc[p] = "try"   -> 2
                       [] OTHER           -> 1

\* An acquire never gains time: whatever it does itself, and whatever passes of its
\* sleep, brings it nearer to its end.  About the loop of AcquireLock, where a
\* sleep of no length before the deadline would let it spin.
PatienceRunsOut ==
  [][\A p \in Waiting : p \in Waiting' =>
       /\ Patience(p)' <= Patience(p)
       /\ pc'[p] # pc[p] \/ alarm'[p] # alarm[p] => Patience(p)' < Patience(p)]_vars
==============================================================================
