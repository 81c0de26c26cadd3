---------------------------- MODULE ConfigMutex ----------------------------
(***************************************************************************)
(* What the lock of the config directory promises: one command at a time   *)
(* holds it, a command that waits is granted the lock or turned away, and  *)
(* a command that dies gives back whatever it held.                        *)
(***************************************************************************)
CONSTANTS Procs,      \* the fnb processes of one config directory
          NoProc      \* nobody

VARIABLES holder,     \* the process that holds the lock, or NoProc
          waiting     \* the processes that ask for it

Init == /\ holder = NoProc
        /\ waiting = {}

Request(p) == /\ p \notin waiting
              /\ holder # p
              /\ waiting' = waiting \union {p}
              /\ UNCHANGED holder

Grant(p) == /\ p \in waiting
            /\ holder = NoProc
            /\ holder' = p
            /\ waiting' = waiting \ {p}

\* Contention until the timeout, a cancelled context or an error.
Refuse(p) == /\ p \in waiting
             /\ waiting' = waiting \ {p}
             /\ UNCHANGED holder

Release(p) == /\ holder = p
              /\ holder' = NoProc
              /\ UNCHANGED waiting

\* The machine restarts: every process is gone.
Reset == /\ holder' = NoProc
         /\ waiting' = {}

Next == \/ \E p \in Procs : Request(p) \/ Grant(p) \/ Refuse(p) \/ Release(p)
        \/ Reset

Spec == Init /\ [][Next]_<<holder, waiting>>
==============================================================================
