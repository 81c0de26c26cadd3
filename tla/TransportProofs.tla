--------------------------- MODULE TransportProofs ---------------------------
(***************************************************************************)
(* Proofs about the transport, for any number of calls of one client, any  *)
(* pacing interval and any redirect limit.                                 *)
(***************************************************************************)
EXTENDS Transport, TLAPS

USE TransportAssumption DEF At, Goto, Return, request, pacing, history

-----------------------------------------------------------------------------
(* The inductive invariant. *)

\* A call in wait past the mutex holds it, and nobody else does.
PaceInv == \A c \in Calls : pc[c] \in {"pace", "sleep"} <=> pace = c

\* What a sleeper still has to sleep makes up a whole interval.
SleepInv == \A c \in Calls : At(c, "sleep") => sleep[c] + since >= Interval

\* What the flag knows of the history; only the first request can be refused by
\* RoundTrip, since CheckRedirect has passed the others.
SendInv == \A c \in Calls :
  /\ reached[c] => wrote[c]
  /\ pc[c] \in Active => result[c] = "none"
  /\ pc[c] \in {"lock", "pace", "sleep", "send", "answer"} => allowed[c]
  /\ At(c, "check") /\ reached[c] => allowed[c]

\* The jar has the responses before the one at hand, and not that one.
CookieInv == \A c \in Calls :
  /\ \A i \in Nat : <<c, i>> \in stored => i <= hop[c]
  /\ pc[c] \in Active => <<c, hop[c]>> \notin stored

\* A body goes out at most once with each request.
BodyInv == \A c \in Calls :
  /\ bodies[c] <= hop[c] + 1
  /\ pc[c] \in {"check", "lock", "pace", "sleep", "send"} => bodies[c] <= hop[c]

\* A body that cannot be repeated is at hand only until it has been sent.
OnceInv == \A c \in Calls \ Replayable :
  /\ bodies[c] <= 1
  /\ pc[c] \in Active \ {"answer"} /\ body[c] => bodies[c] = 0

IInv == /\ TypeOK /\ PaceInv /\ SleepInv /\ SendInv /\ CookieInv /\ BodyInv
        /\ UnsentReachedNobody /\ RedirectCookies

\* Every step keeps the types.
LEMMA TypeStep == ASSUME TypeOK, BodyInv, [Next]_vars PROVE TypeOK'
<1> USE DEF TypeOK, Active, Results
<1>1. ASSUME NEW c \in Calls, Start(c) PROVE TypeOK'
  BY <1>1 DEF Start
<1>2. ASSUME NEW c \in Calls, Run(c) PROVE TypeOK'
  <2>1. CASE Check(c) BY <2>1 DEF Check
  <2>2. CASE Pace(c) BY <2>2 DEF Pace, Stamp
  <2>3. CASE Wake(c) BY <2>3 DEF Wake, Stamp
  <2>4. CASE SleepCancelled(c)
    <3>1. ErrorResult(wrote[c]) \in Results BY DEF ErrorResult
    <3> QED BY <2>4, <3>1 DEF SleepCancelled
  <2>5. CASE CheckRedirect(c)
    <3>1. CASE AtLimit(c) \/ ~allowed[c] BY <2>5, <3>1 DEF CheckRedirect
    <3>2. CASE ~AtLimit(c) /\ allowed[c]
      <4>1. hop[c] \in 0..(Limit - 1) /\ hop[c] + 1 \in 0..(Limit - 1)
        BY <3>2 DEF AtLimit
      <4> QED BY <2>5, <3>2, <4>1 DEF CheckRedirect, StoreCookies
    <3> QED BY <3>1, <3>2
  <2> QED BY <1>2, <2>1, <2>2, <2>3, <2>4, <2>5 DEF Run
<1>3. ASSUME NEW c \in Calls, LockPace(c) PROVE TypeOK' BY <1>3 DEF LockPace
<1>4. ASSUME NEW c \in Calls, Exchange(c) PROVE TypeOK'
  <2>0. \A flag \in BOOLEAN : ErrorResult(flag) \in Results BY DEF ErrorResult
  <2>1. CASE DialFails(c) BY <2>0, <2>1 DEF DialFails
  <2>2. CASE WriteFails(c)
    <3>1. wrote' = [wrote EXCEPT ![c] = TRUE] BY <2>2 DEF WriteFails, Wrote
    <3>2. wrote'[c] = TRUE BY <3>1
    <3>3. ErrorResult(wrote'[c]) \in Results BY <2>0, <3>2
    <3>4. PICK arrives \in BOOLEAN : reached' = [reached EXCEPT ![c] = @ \/ arrives]
      BY <2>2 DEF WriteFails
    <3>5. reached' \in [Calls -> BOOLEAN] BY <3>4
    <3>6. pc' = [pc EXCEPT ![c] = "done"] /\ result' \in [Calls -> Results]
      BY <2>2, <3>3 DEF WriteFails
    <3>7. wrote' \in [Calls -> BOOLEAN] BY <3>1
    <3> QED BY <2>2, <3>5, <3>6, <3>7 DEF WriteFails
  <2>3. CASE Write(c)
    <3>1. bodies[c] \in Nat /\ bodies[c] + 1 <= Limit /\ hop[c] + 1 <= Limit
      BY <2>3 DEF Write, BodyInv
    <3>2. bodies' \in [Calls -> 0..Limit] BY <2>3, <3>1 DEF Write
    <3> QED BY <2>3, <3>2 DEF Write, Wrote
  <2>4. CASE AnswerFails(c) BY <2>0, <2>4 DEF AnswerFails
  <2>5. CASE AnswerFinal(c) BY <2>5 DEF AnswerFinal, StoreCookies
  <2>6. CASE AnswerRedirect(c) BY <2>6 DEF AnswerRedirect
  <2>7. CASE AnswerUnrepeatable(c) BY <2>7 DEF AnswerUnrepeatable
  <2> QED BY <1>4, <2>1, <2>2, <2>3, <2>4, <2>5, <2>6, <2>7 DEF Exchange
<1>5. ASSUME NEW c \in Calls, Cancel(c) PROVE TypeOK' BY <1>5 DEF Cancel
<1>6. CASE Tick BY <1>6 DEF Tick
<1>7. CASE UNCHANGED vars BY <1>7 DEF vars
<1> QED BY <1>1, <1>2, <1>3, <1>4, <1>5, <1>6, <1>7 DEF Next

\* Every step keeps the parts that relate one call's variables to each other and
\* to the pace.
LEMMA PaceStep ==
  ASSUME TypeOK, PaceInv, SleepInv, [Next]_vars
  PROVE  PaceInv' /\ SleepInv'
<1> USE DEF TypeOK, PaceInv, SleepInv, Active
<1>1. ASSUME NEW c \in Calls, Start(c) PROVE PaceInv' /\ SleepInv' BY <1>1 DEF Start
<1>2. ASSUME NEW c \in Calls, Run(c) PROVE PaceInv' /\ SleepInv'
  <2>1. CASE Check(c) BY <2>1 DEF Check
  <2>2. CASE Pace(c)
    <3>1. CASE since = Interval BY <2>2, <3>1 DEF Pace, Stamp
    <3>2. CASE since # Interval BY <2>2, <3>2 DEF Pace
    <3> QED BY <3>1, <3>2
  <2>3. CASE Wake(c) BY <2>3 DEF Wake, Stamp
  <2>4. CASE SleepCancelled(c) BY <2>4 DEF SleepCancelled
  <2>5. CASE CheckRedirect(c) BY <2>5 DEF CheckRedirect
  <2> QED BY <1>2, <2>1, <2>2, <2>3, <2>4, <2>5 DEF Run
<1>3. ASSUME NEW c \in Calls, LockPace(c) PROVE PaceInv' /\ SleepInv' BY <1>3 DEF LockPace
<1>4. ASSUME NEW c \in Calls, Exchange(c) PROVE PaceInv' /\ SleepInv'
  <2>1. CASE DialFails(c) BY <2>1 DEF DialFails
  <2>2. CASE WriteFails(c) BY <2>2 DEF WriteFails
  <2>3. CASE Write(c) BY <2>3 DEF Write
  <2>4. CASE AnswerFails(c) BY <2>4 DEF AnswerFails
  <2>5. CASE AnswerFinal(c) BY <2>5 DEF AnswerFinal
  <2>6. CASE AnswerRedirect(c) BY <2>6 DEF AnswerRedirect
  <2>7. CASE AnswerUnrepeatable(c) BY <2>7 DEF AnswerUnrepeatable
  <2> QED BY <1>4, <2>1, <2>2, <2>3, <2>4, <2>5, <2>6, <2>7 DEF Exchange
<1>5. ASSUME NEW c \in Calls, Cancel(c) PROVE PaceInv' /\ SleepInv' BY <1>5 DEF Cancel
<1>6. CASE Tick BY <1>6 DEF Tick
<1>7. CASE UNCHANGED vars BY <1>7 DEF vars
<1> QED BY <1>1, <1>2, <1>3, <1>4, <1>5, <1>6, <1>7 DEF Next

LEMMA BodyStep ==
  ASSUME TypeOK, BodyInv, [Next]_vars
  PROVE  BodyInv'
<1> USE DEF TypeOK, BodyInv, Active
<1>1. ASSUME NEW c \in Calls, Start(c) PROVE BodyInv' BY <1>1 DEF Start
<1>2. ASSUME NEW c \in Calls, Run(c) PROVE BodyInv'
  <2>1. CASE Check(c) BY <2>1 DEF Check
  <2>2. CASE Pace(c) BY <2>2 DEF Pace, Stamp
  <2>3. CASE Wake(c) BY <2>3 DEF Wake, Stamp
  <2>4. CASE SleepCancelled(c) BY <2>4 DEF SleepCancelled
  <2>5. CASE CheckRedirect(c) BY <2>5 DEF CheckRedirect
  <2> QED BY <1>2, <2>1, <2>2, <2>3, <2>4, <2>5 DEF Run
<1>3. ASSUME NEW c \in Calls, LockPace(c) PROVE BodyInv' BY <1>3 DEF LockPace
<1>4. ASSUME NEW c \in Calls, Exchange(c) PROVE BodyInv'
  <2>1. CASE DialFails(c) BY <2>1 DEF DialFails
  <2>2. CASE WriteFails(c) BY <2>2 DEF WriteFails
  <2>3. CASE Write(c) BY <2>3 DEF Write
  <2>4. CASE AnswerFails(c) BY <2>4 DEF AnswerFails
  <2>5. CASE AnswerFinal(c) BY <2>5 DEF AnswerFinal
  <2>6. CASE AnswerRedirect(c) BY <2>6 DEF AnswerRedirect
  <2>7. CASE AnswerUnrepeatable(c) BY <2>7 DEF AnswerUnrepeatable
  <2> QED BY <1>4, <2>1, <2>2, <2>3, <2>4, <2>5, <2>6, <2>7 DEF Exchange
<1>5. ASSUME NEW c \in Calls, Cancel(c) PROVE BodyInv' BY <1>5 DEF Cancel
<1>6. CASE Tick BY <1>6 DEF Tick
<1>7. CASE UNCHANGED vars BY <1>7 DEF vars
<1> QED BY <1>1, <1>2, <1>3, <1>4, <1>5, <1>6, <1>7 DEF Next

\* Every step keeps what a call has sent and what its caller is told in step.
LEMMA SendStep ==
  ASSUME TypeOK, SendInv, UnsentReachedNobody, [Next]_vars
  PROVE  SendInv' /\ UnsentReachedNobody'
<1> USE DEF TypeOK, SendInv, UnsentReachedNobody, Active
<1>1. ASSUME NEW c \in Calls, Start(c) PROVE SendInv' /\ UnsentReachedNobody' BY <1>1 DEF Start
<1>2. ASSUME NEW c \in Calls, Run(c) PROVE SendInv' /\ UnsentReachedNobody'
  <2>1. CASE Check(c) BY <2>1 DEF Check
  <2>2. CASE Pace(c) BY <2>2 DEF Pace, Stamp
  <2>3. CASE Wake(c) BY <2>3 DEF Wake, Stamp
  <2>4. CASE SleepCancelled(c) BY <2>4 DEF SleepCancelled, ErrorResult
  <2>5. CASE CheckRedirect(c) BY <2>5 DEF CheckRedirect
  <2> QED BY <1>2, <2>1, <2>2, <2>3, <2>4, <2>5 DEF Run
<1>3. ASSUME NEW c \in Calls, LockPace(c) PROVE SendInv' /\ UnsentReachedNobody' BY <1>3 DEF LockPace
<1>4. ASSUME NEW c \in Calls, Exchange(c) PROVE SendInv' /\ UnsentReachedNobody'
  <2>1. CASE DialFails(c) BY <2>1 DEF DialFails, ErrorResult
  <2>2. CASE WriteFails(c)
    <3>1. wrote'[c] BY <2>2 DEF WriteFails, Wrote
    <3> QED BY <2>2, <3>1 DEF WriteFails, Wrote, ErrorResult
  <2>3. CASE Write(c) BY <2>3 DEF Write, Wrote
  <2>4. CASE AnswerFails(c) BY <2>4 DEF AnswerFails, ErrorResult
  <2>5. CASE AnswerFinal(c) BY <2>5 DEF AnswerFinal
  <2>6. CASE AnswerRedirect(c) BY <2>6 DEF AnswerRedirect
  <2>7. CASE AnswerUnrepeatable(c) BY <2>7 DEF AnswerUnrepeatable
  <2> QED BY <1>4, <2>1, <2>2, <2>3, <2>4, <2>5, <2>6, <2>7 DEF Exchange
<1>5. ASSUME NEW c \in Calls, Cancel(c) PROVE SendInv' /\ UnsentReachedNobody' BY <1>5 DEF Cancel
<1>6. CASE Tick BY <1>6 DEF Tick
<1>7. CASE UNCHANGED vars BY <1>7 DEF vars
<1> QED BY <1>1, <1>2, <1>3, <1>4, <1>5, <1>6, <1>7 DEF Next

\* Every step keeps the jar and the position of each call in step.
LEMMA CookieStep ==
  ASSUME TypeOK, SendInv, CookieInv, RedirectCookies, [Next]_vars
  PROVE  CookieInv' /\ RedirectCookies'
<1> USE DEF TypeOK, SendInv, CookieInv, RedirectCookies, Active
<1>1. ASSUME NEW c \in Calls, Start(c) PROVE CookieInv' /\ RedirectCookies'
  BY <1>1 DEF Start
<1>2. ASSUME NEW c \in Calls, Run(c) PROVE CookieInv' /\ RedirectCookies'
  <2>1. CASE Check(c) BY <2>1 DEF Check
  <2>2. CASE Pace(c) BY <2>2 DEF Pace, Stamp
  <2>3. CASE Wake(c) BY <2>3 DEF Wake, Stamp
  <2>4. CASE SleepCancelled(c) BY <2>4 DEF SleepCancelled, ErrorResult
  <2>5. CASE CheckRedirect(c)
    <3>1. CASE AtLimit(c) \/ ~allowed[c] BY <2>5, <3>1 DEF CheckRedirect
    <3>2. CASE ~AtLimit(c) /\ allowed[c]
      <4>1. /\ hop' = [hop EXCEPT ![c] = @ + 1]
            /\ stored' = stored \union {<<c, hop[c]>>}
            /\ pc' = [pc EXCEPT ![c] = "check"] /\ result' = result
        BY <2>5, <3>2 DEF CheckRedirect, StoreCookies
      <4>2. hop[c] \in Nat /\ hop'[c] = hop[c] + 1 BY <4>1
      <4>3. <<c, hop[c] + 1>> \notin stored
        <5>1. hop[c] + 1 \in Nat /\ ~(hop[c] + 1 <= hop[c]) BY <4>2
        <5>2. \A i \in Nat : <<c, i>> \in stored => i <= hop[c] OBVIOUS
        <5> QED BY ONLY <5>1, <5>2
      <4>4. CookieInv' BY <4>1, <4>2, <4>3
      <4>5. ASSUME NEW d \in Calls, NEW i \in 0..(Limit - 1), i < hop'[d]
            PROVE  <<d, i>> \in stored'
        <5>1. CASE d = c /\ i = hop[c] BY <4>1, <5>1
        <5>2. CASE d = c /\ i < hop[c] BY <4>1, <5>2
        <5>3. CASE d # c BY <4>1, <4>5, <5>3
        <5> QED BY <4>2, <4>5, <5>1, <5>2, <5>3
      <4>6. ASSUME NEW d \in Calls, pc'[d] = "redirect" \/ result'[d] = "redirect_blocked"
            PROVE  <<d, hop'[d]>> \notin stored'
        <5>1. d # c BY <2>5, <4>1, <4>6 DEF CheckRedirect
        <5> QED BY <4>1, <4>6, <5>1
      <4> QED BY <4>4, <4>5, <4>6
    <3> QED BY <3>1, <3>2
  <2> QED BY <1>2, <2>1, <2>2, <2>3, <2>4, <2>5 DEF Run
<1>3. ASSUME NEW c \in Calls, LockPace(c) PROVE CookieInv' /\ RedirectCookies'
  BY <1>3 DEF LockPace
<1>4. ASSUME NEW c \in Calls, Exchange(c) PROVE CookieInv' /\ RedirectCookies'
  <2>1. CASE DialFails(c) BY <2>1 DEF DialFails, ErrorResult
  <2>2. CASE WriteFails(c) BY <2>2 DEF WriteFails, ErrorResult
  <2>3. CASE Write(c) BY <2>3 DEF Write
  <2>4. CASE AnswerFails(c) BY <2>4 DEF AnswerFails, ErrorResult
  <2>5. CASE AnswerFinal(c) BY <2>5 DEF AnswerFinal, StoreCookies
  <2>6. CASE AnswerRedirect(c) BY <2>6 DEF AnswerRedirect
  <2>7. CASE AnswerUnrepeatable(c) BY <2>7 DEF AnswerUnrepeatable
  <2> QED BY <1>4, <2>1, <2>2, <2>3, <2>4, <2>5, <2>6, <2>7 DEF Exchange
<1>5. ASSUME NEW c \in Calls, Cancel(c) PROVE CookieInv' /\ RedirectCookies'
  BY <1>5 DEF Cancel
<1>6. CASE Tick BY <1>6 DEF Tick
<1>7. CASE UNCHANGED vars BY <1>7 DEF vars
<1> QED BY <1>1, <1>2, <1>3, <1>4, <1>5, <1>6, <1>7 DEF Next

\* Every step keeps a body that cannot be repeated from being sent again.
LEMMA OnceStep ==
  ASSUME TypeOK, OnceInv, [Next]_vars
  PROVE  OnceInv'
<1> USE DEF TypeOK, OnceInv, Active
<1>1. ASSUME NEW c \in Calls, Start(c) PROVE OnceInv' BY <1>1 DEF Start
<1>2. ASSUME NEW c \in Calls, Run(c) PROVE OnceInv'
  <2>1. CASE Check(c) BY <2>1 DEF Check
  <2>2. CASE Pace(c) BY <2>2 DEF Pace, Stamp
  <2>3. CASE Wake(c) BY <2>3 DEF Wake, Stamp
  <2>4. CASE SleepCancelled(c) BY <2>4 DEF SleepCancelled
  <2>5. CASE CheckRedirect(c) BY <2>5 DEF CheckRedirect
  <2> QED BY <1>2, <2>1, <2>2, <2>3, <2>4, <2>5 DEF Run
<1>3. ASSUME NEW c \in Calls, LockPace(c) PROVE OnceInv' BY <1>3 DEF LockPace
<1>4. ASSUME NEW c \in Calls, Exchange(c) PROVE OnceInv'
  <2>1. CASE DialFails(c) BY <2>1 DEF DialFails
  <2>2. CASE WriteFails(c) BY <2>2 DEF WriteFails
  <2>3. CASE Write(c) BY <2>3 DEF Write
  <2>4. CASE AnswerFails(c) BY <2>4 DEF AnswerFails
  <2>5. CASE AnswerFinal(c) BY <2>5 DEF AnswerFinal
  <2>6. CASE AnswerRedirect(c)
    <3>1. c \notin Replayable => ~body'[c]
      BY <2>6 DEF AnswerRedirect
    <3> QED BY <2>6, <3>1 DEF AnswerRedirect
  <2>7. CASE AnswerUnrepeatable(c) BY <2>7 DEF AnswerUnrepeatable
  <2> QED BY <1>4, <2>1, <2>2, <2>3, <2>4, <2>5, <2>6, <2>7 DEF Exchange
<1>5. ASSUME NEW c \in Calls, Cancel(c) PROVE OnceInv' BY <1>5 DEF Cancel
<1>6. CASE Tick BY <1>6 DEF Tick
<1>7. CASE UNCHANGED vars BY <1>7 DEF vars
<1> QED BY <1>1, <1>2, <1>3, <1>4, <1>5, <1>6, <1>7 DEF Next

-----------------------------------------------------------------------------
(* The theorems. *)

\* The invariant holds in every behaviour of the transport.
THEOREM InvariantHolds == Spec => []IInv
<1>1. Init => IInv
  BY DEF Init, IInv, TypeOK, PaceInv, SleepInv, SendInv, CookieInv, BodyInv,
     UnsentReachedNobody, RedirectCookies, Active, Results
<1>2. IInv /\ [Next]_vars => IInv'
  BY TypeStep, PaceStep, BodyStep, SendStep, CookieStep DEF IInv
<1> QED BY <1>1, <1>2, PTL DEF Spec

\* Types, and the redirect limit of CheckRedirect.
THEOREM TypeCorrect == Spec => []TypeOK
<1>1. IInv => TypeOK BY DEF IInv
<1> QED BY <1>1, InvariantHolds, PTL

\* A request whose sender is told "refused" or "not sent" has reached nobody:
\* about DoOnce and its WroteRequest hook, over any number of redirects.
THEOREM UnsentIsUnsent == Spec => []UnsentReachedNobody
<1>1. IInv => UnsentReachedNobody BY DEF IInv
<1> QED BY <1>1, InvariantHolds, PTL

\* Every request on its way has passed the guard: about RoundTrip.
THEOREM SendsAreAllowed == Spec => []OnlyAllowedIsSent
<1>1. IInv => OnlyAllowedIsSent BY DEF IInv, SendInv, OnlyAllowedIsSent
<1> QED BY <1>1, InvariantHolds, PTL

\* The cookies of followed redirects are there, those of refused ones are not:
\* about RoundTrip and the closure in NewHTTP.
THEOREM CookiesFollowRedirects == Spec => []RedirectCookies
<1>1. IInv => RedirectCookies BY DEF IInv
<1> QED BY <1>1, InvariantHolds, PTL

\* No two requests leave wait within one interval: about the mutex held during
\* the sleep.
THEOREM SendsArePaced == Spec => PacedSends
<1>1. ASSUME IInv, [Next]_vars
      PROVE  [\A c \in Calls : Leaves(c) => since = Interval]_vars
  <2> SUFFICES ASSUME NEW c \in Calls, Leaves(c) PROVE since = Interval
    OBVIOUS
  <2> USE DEF IInv, TypeOK, SleepInv, PaceInv, Leaves
  <2>1. ASSUME NEW d \in Calls, Start(d) \/ LockPace(d) \/ Cancel(d) PROVE since = Interval
    BY <1>1, <2>1 DEF Start, LockPace, Cancel
  <2>2. ASSUME NEW d \in Calls, Run(d) PROVE since = Interval
    <3>1. CASE Check(d) BY <1>1, <3>1 DEF Check
    <3>2. CASE Pace(d) BY <1>1, <3>2 DEF Pace
    <3>3. CASE Wake(d) BY <1>1, <3>3 DEF Wake, Stamp
    <3>4. CASE SleepCancelled(d) BY <1>1, <3>4 DEF SleepCancelled
    <3>5. CASE CheckRedirect(d) BY <1>1, <3>5 DEF CheckRedirect
    <3> QED BY <2>2, <3>1, <3>2, <3>3, <3>4, <3>5 DEF Run
  <2>3. ASSUME NEW d \in Calls, Exchange(d) PROVE since = Interval
    BY <1>1, <2>3 DEF Exchange, DialFails, WriteFails, Write, AnswerFails, AnswerFinal,
       AnswerRedirect, AnswerUnrepeatable
  <2>4. CASE Tick \/ UNCHANGED vars BY <1>1, <2>4 DEF Tick, vars
  <2> QED BY <1>1, <2>1, <2>2, <2>3, <2>4 DEF Next
<1> QED BY <1>1, InvariantHolds, PTL DEF Spec, PacedSends

\* However many redirects are followed, the server gets a body that net/http
\* cannot read again at most once: about client.Do at 301 to 303, 307 and 308.
THEOREM UnrepeatableGoesOutOnce == Spec => []UnrepeatableSentOnce
<1>1. Init => OnceInv
  BY DEF Init, OnceInv, Active
<1>2. IInv /\ OnceInv /\ [Next]_vars => OnceInv'
  BY OnceStep DEF IInv
<1>3. OnceInv => UnrepeatableSentOnce
  BY DEF OnceInv, UnrepeatableSentOnce
<1> QED BY <1>1, <1>2, <1>3, InvariantHolds, PTL DEF Spec

\* Every step of a call brings it nearer to its end.
LEMMA CountStep ==
  ASSUME TypeOK, [Next]_vars, NEW c \in Calls, ~At(c, "done"), pc'[c] # pc[c]
  PROVE  StepsLeft(c)' < StepsLeft(c)
<1> USE TransportAssumption DEF TypeOK, Active, StepsLeft, At
<1>1. ASSUME NEW d \in Calls, Start(d) PROVE FALSE
  BY <1>1 DEF Start
<1>2. ASSUME NEW d \in Calls, Run(d) PROVE StepsLeft(c)' < StepsLeft(c)
  <2>1. CASE Check(d) BY <2>1 DEF Check, Goto, Return
  <2>2. CASE Pace(d) BY <2>2 DEF Pace, Stamp, Goto
  <2>3. CASE Wake(d) BY <2>3 DEF Wake, Stamp, Goto
  <2>4. CASE SleepCancelled(d) BY <2>4 DEF SleepCancelled, Return, Goto
  <2>5. CASE CheckRedirect(d) BY <2>5 DEF CheckRedirect, Return, Goto
  <2> QED BY <1>2, <2>1, <2>2, <2>3, <2>4, <2>5 DEF Run
<1>3. ASSUME NEW d \in Calls, LockPace(d) PROVE StepsLeft(c)' < StepsLeft(c)
  BY <1>3 DEF LockPace, Goto
<1>4. ASSUME NEW d \in Calls, Exchange(d) PROVE StepsLeft(c)' < StepsLeft(c)
  <2>1. CASE DialFails(d) BY <2>1 DEF DialFails, Return, Goto
  <2>2. CASE WriteFails(d) BY <2>2 DEF WriteFails, Return, Goto
  <2>3. CASE Write(d) BY <2>3 DEF Write, Goto
  <2>4. CASE AnswerFails(d) BY <2>4 DEF AnswerFails, Return, Goto
  <2>5. CASE AnswerFinal(d) BY <2>5 DEF AnswerFinal, Return, Goto
  <2>6. CASE AnswerRedirect(d) BY <2>6 DEF AnswerRedirect, Goto
  <2>7. CASE AnswerUnrepeatable(d) BY <2>7 DEF AnswerUnrepeatable, Return, Goto
  <2> QED BY <1>4, <2>1, <2>2, <2>3, <2>4, <2>5, <2>6, <2>7 DEF Exchange
<1>5. ASSUME NEW d \in Calls, Cancel(d) PROVE FALSE BY <1>5 DEF Cancel
<1>6. CASE Tick \/ UNCHANGED vars BY <1>6 DEF Tick, vars
<1> QED BY <1>1, <1>2, <1>3, <1>4, <1>5, <1>6 DEF Next

\* For any calls, interval and limit a call goes through at most 8 * Limit + 7
\* steps: about the redirect limit and a wait that tries once.
THEOREM CallsAreFinite == Spec => StepsRunOut
<1>1. IInv /\ [Next]_vars =>
        [\A c \in Calls : ~At(c, "done") /\ pc'[c] # pc[c] =>
           StepsLeft(c)' < StepsLeft(c)]_vars
  BY CountStep DEF IInv
<1> QED BY <1>1, InvariantHolds, PTL DEF Spec, StepsRunOut
==============================================================================
