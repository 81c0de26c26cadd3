--------------------------- MODULE CredentialGate ---------------------------
(***************************************************************************)
(* What the lockout guard promises the bank customer: a credential login   *)
(* is submitted only when no earlier submission is still unresolved, and   *)
(* the logins that are submitted start at least Interval apart.  Nothing   *)
(* here knows of files, locks, processes or crashes.                       *)
(***************************************************************************)
EXTENDS Integers

CONSTANT Interval     \* the least distance of two logins (15 minutes)

VARIABLES now,          \* the wall clock
          outstanding,  \* a submission whose outcome nobody has proved yet
          last          \* when the latest submitted login started, or Never

Never == -1

Init == /\ now = 0
        /\ outstanding = FALSE
        /\ last = Never

Tick == /\ now' = now + 1
        /\ UNCHANGED <<outstanding, last>>

\* A login that started at t goes to the bank.
Submit == /\ ~outstanding
          /\ \E t \in 0..now : /\ last # Never => t >= last + Interval
                               /\ last' = t
          /\ outstanding' = TRUE
          /\ UNCHANGED now

\* The bank proves the login good, the approval is granted, or the owner has
\* verified the account and says so.
Resolve == /\ outstanding
           /\ outstanding' = FALSE
           /\ UNCHANGED <<now, last>>

Next == Tick \/ Submit \/ Resolve

Spec == Init /\ [][Next]_<<now, outstanding, last>>
==============================================================================
