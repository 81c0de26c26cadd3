------------------------------ MODULE Transport ------------------------------
(***************************************************************************)
(* transport.DoOnce over the client that NewHTTP builds: the guard, the    *)
(* pacing of one request per interval, the base transport, the redirects   *)
(* that net/http follows under CheckRedirect, the cookies each response    *)
(* leaves, and what the caller is told when no response comes back.        *)
(* Several calls share one client.  A server may answer in any way or      *)
(* never; a call may be cancelled at any time.                             *)
(*                                                                         *)
(* The base transport and net/http are external: keep-alives and HTTP/2    *)
(* are off, so they send each hop once, and the base transport returns     *)
(* only when its writing goroutine is done with the request.               *)
(***************************************************************************)
EXTENDS Naturals, FiniteSets

CONSTANTS
  Calls,       \* the calls of DoOnce
  Posts,       \* those that carry a body
  Replayable,  \* those whose body net/http can read again (GetBody is set)
  NoCall,      \* nobody holds the pacing mutex
  Interval,    \* the pacing interval, in ticks
  Limit        \* CheckRedirect's limit of requests in one call (ten)

ASSUME TransportAssumption ==
  /\ Replayable \subseteq Posts
  /\ Posts \subseteq Calls
  /\ NoCall \notin Calls
  /\ Interval \in Nat \ {0}
  /\ Limit \in Nat \ {0}

VARIABLES
  pc,         \* where each call is
  result,     \* what DoOnce returned
  hop,        \* the requests of this call that were answered (len(via))
  allowed,    \* the guard's verdict on the request at hand
  body,       \* the request at hand carries the caller's body
  wrote,      \* DoOnce's flag
  cancelled,  \* the call's context is done
  sleep,      \* what is left of its pacing sleep
  pace,       \* the holder of the pacing mutex
  since,      \* ticks since "last", up to Interval (or "last" is zero)
  stored,     \* the responses, as <<call, hop>>, whose cookies the jar took
  reached,    \* history: bytes of this call have reached the server
  bodies      \* history: how many times the server has got its body

vars == <<pc, result, hop, allowed, body, wrote, cancelled, sleep, pace, since,
          stored, reached, bodies>>
request == <<hop, allowed, body>>
pacing == <<sleep, pace, since>>
history == <<reached, bodies>>

Active == {"check", "lock", "pace", "sleep", "send", "answer", "redirect"}
Results == {"none", "response", "blocked", "redirect_blocked", "unknown", "unsent"}

Init == /\ pc = [c \in Calls |-> "done"]
        /\ result = [c \in Calls |-> "none"]
        /\ hop = [c \in Calls |-> 0]
        /\ allowed = [c \in Calls |-> FALSE]
        /\ body = [c \in Calls |-> FALSE]
        /\ wrote = [c \in Calls |-> FALSE]
        /\ cancelled = [c \in Calls |-> FALSE]
        /\ sleep = [c \in Calls |-> 0]
        /\ pace = NoCall
        /\ since = Interval
        /\ stored = {}
        /\ reached = [c \in Calls |-> FALSE]
        /\ bodies = [c \in Calls |-> 0]

At(c, step) == pc[c] = step
Goto(c, step) == pc' = [pc EXCEPT ![c] = step]
Return(c, value) == /\ Goto(c, "done")
                    /\ result' = [result EXCEPT ![c] = value]

\* DoOnce's last lines, for an error that is no refusal.
ErrorResult(hasWritten) == IF hasWritten THEN "unknown" ELSE "unsent"

-----------------------------------------------------------------------------
(* One call. *)

\* The jar keeps the cookies of earlier calls; "stored" tells those of the
\* latest call of each caller apart.
Start(c) == \E verdict \in BOOLEAN :
  /\ At(c, "done")
  /\ Goto(c, "check")
  /\ result' = [result EXCEPT ![c] = "none"]
  /\ hop' = [hop EXCEPT ![c] = 0]
  /\ allowed' = [allowed EXCEPT ![c] = verdict]
  /\ body' = [body EXCEPT ![c] = c \in Posts]
  /\ wrote' = [wrote EXCEPT ![c] = FALSE]
  /\ cancelled' = [cancelled EXCEPT ![c] = FALSE]
  /\ stored' = {response \in stored : response[1] # c}
  /\ reached' = [reached EXCEPT ![c] = FALSE]
  /\ bodies' = [bodies EXCEPT ![c] = 0]
  /\ UNCHANGED pacing

\* Mutant: the first request is taken on trust, as redirects are checked.
CheckLater(c) == /\ At(c, "check")
                 /\ Goto(c, "lock")
                 /\ UNCHANGED <<result, request, wrote, cancelled, pacing, stored, history>>

\* RoundTrip's guard.Check; its error is coded, so DoOnce hands it on.
Check(c) == /\ At(c, "check")
            /\ IF allowed[c] THEN Goto(c, "lock") /\ UNCHANGED result
                             ELSE Return(c, "blocked")
            /\ UNCHANGED <<request, wrote, cancelled, pacing, stored, history>>

\* wait: the mutex is waited for whatever becomes of the context.
LockPace(c) == /\ At(c, "lock")
               /\ pace = NoCall
               /\ pace' = c
               /\ Goto(c, "pace")
               /\ UNCHANGED <<result, request, wrote, cancelled, sleep, since, stored, history>>

Stamp(c) == /\ since' = 0
            /\ pace' = NoCall
            /\ Goto(c, "send")

\* Mutant: the mutex is not held during the sleep.
SleepUnlocked(c) ==
  /\ At(c, "pace")
  /\ IF since = Interval
     THEN Stamp(c) /\ UNCHANGED sleep
     ELSE /\ sleep' = [sleep EXCEPT ![c] = Interval - since]
          /\ pace' = NoCall
          /\ Goto(c, "sleep")
          /\ UNCHANGED since
  /\ UNCHANGED <<result, request, wrote, cancelled, stored, history>>

Pace(c) ==
  /\ At(c, "pace")
  /\ IF since = Interval
     THEN Stamp(c) /\ UNCHANGED sleep
     ELSE /\ sleep' = [sleep EXCEPT ![c] = Interval - since]
          /\ Goto(c, "sleep")
          /\ UNCHANGED <<pace, since>>
  /\ UNCHANGED <<result, request, wrote, cancelled, stored, history>>

Wake(c) == /\ At(c, "sleep")
           /\ sleep[c] = 0
           /\ Stamp(c)
           /\ UNCHANGED <<result, request, wrote, cancelled, sleep, stored, history>>

\* Mutant: the mutex is not given back on the error return.
SleepCancelledLocked(c) ==
  /\ At(c, "sleep")
  /\ cancelled[c]
  /\ sleep' = [sleep EXCEPT ![c] = 0]
  /\ Return(c, ErrorResult(wrote[c]))
  /\ UNCHANGED <<request, wrote, cancelled, pace, since, stored, history>>

\* Sleep returns the context's error; "last" stays as it was.
SleepCancelled(c) ==
  /\ At(c, "sleep")
  /\ cancelled[c]
  /\ sleep' = [sleep EXCEPT ![c] = 0]
  /\ pace' = NoCall
  /\ Return(c, ErrorResult(wrote[c]))
  /\ UNCHANGED <<request, wrote, cancelled, since, stored, history>>

-----------------------------------------------------------------------------
(* The base transport and the server. *)

\* Before a byte is written: no route, no TLS, a context that is done.
DialFails(c) == /\ At(c, "send")
                /\ Return(c, ErrorResult(wrote[c]))
                /\ UNCHANGED <<request, wrote, cancelled, pacing, stored, history>>

\* Mutant: the hook counts only a write without an error.
WroteAll(c, failed) == wrote' = [wrote EXCEPT ![c] = @ \/ ~failed]

\* The WroteRequest hook fires whether or not the write succeeds.
Wrote(c, failed) == wrote' = [wrote EXCEPT ![c] = TRUE]

\* A failed write may still have carried something to the server.
WriteFails(c) == \E arrives \in BOOLEAN :
  /\ At(c, "send")
  /\ Wrote(c, TRUE)
  /\ reached' = [reached EXCEPT ![c] = @ \/ arrives]
  /\ Return(c, ErrorResult(wrote'[c]))
  /\ UNCHANGED <<request, cancelled, pacing, stored, bodies>>

Write(c) == /\ At(c, "send")
            /\ Wrote(c, FALSE)
            /\ reached' = [reached EXCEPT ![c] = TRUE]
            /\ bodies' = [bodies EXCEPT ![c] = IF body[c] THEN @ + 1 ELSE @]
            /\ Goto(c, "answer")
            /\ UNCHANGED <<result, request, cancelled, pacing, stored>>

\* The connection drops, the context is done, or the answer is no HTTP.
AnswerFails(c) == /\ At(c, "answer")
                  /\ Return(c, ErrorResult(wrote[c]))
                  /\ UNCHANGED <<request, wrote, cancelled, pacing, stored, history>>

StoreCookies(c) == stored' = stored \union {<<c, hop[c]>>}

AnswerFinal(c) == /\ At(c, "answer")
                  /\ StoreCookies(c)
                  /\ Return(c, "response")
                  /\ UNCHANGED <<request, wrote, cancelled, pacing, history>>

\* Mutant: RoundTrip stores the cookies of every response.
StoreAtOnce(c) == \E verdict, keeps \in BOOLEAN :
  /\ At(c, "answer")
  /\ keeps => ~body[c] \/ c \in Replayable
  /\ Goto(c, "redirect")
  /\ StoreCookies(c)
  /\ allowed' = [allowed EXCEPT ![c] = verdict]
  /\ body' = [body EXCEPT ![c] = @ /\ keeps]
  /\ UNCHANGED <<result, hop, wrote, cancelled, pacing, history>>

\* 301, 302 and 303 drop the body; 307 and 308 keep method and body.
AnswerRedirect(c) == \E verdict, keeps \in BOOLEAN :
  /\ At(c, "answer")
  /\ keeps => ~body[c] \/ c \in Replayable
  /\ Goto(c, "redirect")
  /\ allowed' = [allowed EXCEPT ![c] = verdict]
  /\ body' = [body EXCEPT ![c] = @ /\ keeps]
  /\ UNCHANGED <<result, hop, wrote, cancelled, pacing, stored, history>>

\* net/http hands back a 307 or 308 whose body it cannot send again; to
\* RoundTrip it was a redirect, so its cookies are not stored.
AnswerUnrepeatable(c) ==
  /\ At(c, "answer")
  /\ body[c]
  /\ c \notin Replayable
  /\ Return(c, "response")
  /\ UNCHANGED <<request, wrote, cancelled, pacing, stored, history>>

\* Mutant: the limit is tested one request too late.
OverLimit(c) == hop[c] + 1 > Limit

\* guard.CheckRedirect: "via" holds the requests sent so far.
AtLimit(c) == hop[c] + 1 >= Limit

\* The closure in NewHTTP.  A refused redirect comes back with its response.
CheckRedirect(c) ==
  /\ At(c, "redirect")
  /\ IF AtLimit(c) \/ ~allowed[c]
     THEN /\ Return(c, "redirect_blocked")
          /\ UNCHANGED <<hop, stored>>
     ELSE /\ StoreCookies(c)
          /\ hop' = [hop EXCEPT ![c] = @ + 1]
          /\ Goto(c, "check")
          /\ UNCHANGED result
  /\ UNCHANGED <<allowed, body, wrote, cancelled, pacing, history>>

-----------------------------------------------------------------------------
(* The world. *)

Cancel(c) == /\ pc[c] \in Active
             /\ cancelled' = [cancelled EXCEPT ![c] = TRUE]
             /\ UNCHANGED <<pc, result, request, wrote, pacing, stored, history>>

Tick == /\ since' = IF since < Interval THEN since + 1 ELSE since
        /\ sleep' = [c \in Calls |-> IF sleep[c] > 0 THEN sleep[c] - 1 ELSE 0]
        /\ UNCHANGED <<pc, result, request, wrote, cancelled, pace, stored, history>>

\* What the client does on its own.
Run(c) == Check(c) \/ Pace(c) \/ Wake(c) \/ SleepCancelled(c) \/ CheckRedirect(c)

Exchange(c) == \/ DialFails(c) \/ WriteFails(c) \/ Write(c) \/ AnswerFails(c)
               \/ AnswerFinal(c) \/ AnswerRedirect(c) \/ AnswerUnrepeatable(c)

\* The base transport gives a request up once its context is done.
Abandon(c) == cancelled[c] /\ (DialFails(c) \/ AnswerFails(c))

Next == \/ \E c \in Calls : Start(c) \/ Run(c) \/ LockPace(c) \/ Exchange(c) \/ Cancel(c)
        \/ Tick

\* The client runs, time passes, and sync.Mutex starves nobody.  Nothing makes
\* a server answer: the client sets no timeout.
Fairness == /\ \A c \in Calls : /\ WF_vars(Run(c))
                                /\ SF_vars(LockPace(c))
                                /\ WF_vars(Abandon(c))
            /\ WF_vars(Tick)

Spec == Init /\ [][Next]_vars /\ Fairness

-----------------------------------------------------------------------------
(* What the transport guarantees. *)

\* Types, and no call makes more requests than the limit.
TypeOK ==
  /\ pc \in [Calls -> Active \union {"done"}]
  /\ result \in [Calls -> Results]
  /\ hop \in [Calls -> 0..(Limit - 1)]
  /\ allowed \in [Calls -> BOOLEAN]
  /\ body \in [Calls -> BOOLEAN]
  /\ wrote \in [Calls -> BOOLEAN]
  /\ cancelled \in [Calls -> BOOLEAN]
  /\ sleep \in [Calls -> 0..Interval]
  /\ pace \in Calls \union {NoCall}
  /\ since \in 0..Interval
  /\ stored \subseteq Calls \X (0..(Limit - 1))
  /\ reached \in [Calls -> BOOLEAN]
  /\ bodies \in [Calls -> 0..Limit]

\* A caller who is told that its request was refused or not sent may try
\* again: not a byte of it, of any hop, has reached the server.  About the
\* flag of DoOnce, which outlives redirects, and the hook that sets it.
UnsentReachedNobody ==
  \A c \in Calls : result[c] \in {"blocked", "unsent"} => ~reached[c]

\* No hop of any call is on its way, or has an answer coming, that the guard
\* has not passed.  About RoundTrip and CheckRedirect together.
OnlyAllowedIsSent == \A c \in Calls : pc[c] \in {"send", "answer"} => allowed[c]

\* A request leaves wait only when a whole interval has passed since the last
\* one did, whichever calls the two belong to and however many sleep or are
\* cancelled in between.  About the mutex that is held during the sleep.
Leaves(c) == pc[c] \in {"pace", "sleep"} /\ pc'[c] = "send"
PacedSends == [][\A c \in Calls : Leaves(c) => since = Interval]_vars

\* The jar has the cookies of every redirect that was followed, before the
\* next hop goes out, and of none that was refused.  About RoundTrip leaving
\* redirects to the closure.
RedirectCookies == \A c \in Calls :
  /\ \A earlier \in 0..(Limit - 1) : earlier < hop[c] => <<c, earlier>> \in stored
  /\ At(c, "redirect") \/ result[c] = "redirect_blocked" => <<c, hop[c]>> \notin stored

\* A cancelled call returns even if the server never answers and others keep
\* the pacing mutex busy.  About wait, which does not look at the context
\* while it waits for the mutex.
CancelledCallReturns == \A c \in Calls : cancelled[c] ~> At(c, "done")

\* The steps that a call has before it at most.
StepsLeft(c) ==
  8 * (Limit - hop[c]) + CASE At(c, "check")    -> 7
                           [] At(c, "lock")     -> 6
                           [] At(c, "pace")     -> 5
                           [] At(c, "sleep")    -> 4
                           [] At(c, "send")     -> 3
                           [] At(c, "answer")   -> 2
                           [] At(c, "redirect") -> 1
                           [] OTHER             -> 0

\* Every step of a call brings it nearer to its end, also around the redirects: a
\* call may have to wait, but it never goes round for ever.  About the limit of
\* CheckRedirect and a wait that tries once.
StepsRunOut ==
  [][\A c \in Calls : ~At(c, "done") /\ pc'[c] # pc[c] =>
       StepsLeft(c)' < StepsLeft(c)]_vars

\* The server gets the body of a call at most once (docs/plan.md:40, "The
\* credential POST is never retried").  About client.Do following 307 and 308.
BodySentOnce == \A c \in Calls : bodies[c] <= 1

\* A body that net/http cannot repeat is sent at most once, however many
\* redirects are followed: what is left of BodySentOnce.  About client.Do
\* dropping it at 301 to 303 and stopping at 307 and 308.
UnrepeatableSentOnce == \A c \in Calls \ Replayable : bodies[c] <= 1
==============================================================================
