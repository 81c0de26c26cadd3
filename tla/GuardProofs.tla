----------------------------- MODULE GuardProofs -----------------------------
(***************************************************************************)
(* What Guard says of bodies and parameters, for any table and requests,   *)
(* and with PathProofs of paths: the guard against its reference.          *)
(***************************************************************************)
EXTENDS Guard, PathProofs, SequenceTheorems, TLAPS

\* A body is put back by each look, unless it could not be read.
LEMMA LookPutsBack ==
  ASSUME NEW r \in Request, r.unread, ParamsReadable(r)
  PROVE  Look(r) = r
<1>1. r.body # "unreadable"
  BY DEF ParamsReadable, NoBody, Request
<1> QED BY <1>1 DEF Look, Request

LEMMA RequestsAreUnread ==
  ASSUME NEW r \in Requests
  PROVE  r \in Request /\ r.unread
BY GuardAssumption

LEMMA PassesReadable ==
  ASSUME NEW r, Passes(r)
  PROVE  ParamsReadable(r)
BY DEF Passes

\* An untouched request passes two looks or none, as the same request, and is
\* blocked only when it does not pass.
THEOREM InvariantHolds == Spec => []IInv
<1>1. Init => IInv
  BY DEF Init, IInv
<1>2. IInv /\ [Next]_vars => IInv'
  <2> SUFFICES ASSUME IInv, [Next]_vars PROVE IInv'
    OBVIOUS
  <2>1. CASE UNCHANGED vars
    BY <2>1 DEF vars, IInv
  <2>2. CASE Next
    <3>1. asked' = asked /\ request = asked /\ request' = Look(asked)
      BY <2>2 DEF Next, CheckRedirect, RoundTrip, IInv
    <3>2. \/ stage' \in {"passed", "sent"} /\ Passes(asked)
          \/ stage' = "blocked" /\ ~Passes(asked)
      BY <2>2, <3>1 DEF Next, CheckRedirect, RoundTrip
    <3>3. Passes(asked) => Look(asked) = asked
      BY RequestsAreUnread, PassesReadable, LookPutsBack DEF IInv
    <3> QED BY <3>1, <3>2, <3>3 DEF IInv
  <2> QED BY <2>1, <2>2
<1> QED BY <1>1, <1>2, PTL DEF Spec

\* What is sent has the body that was asked for.
THEOREM BodiesArePutBack == Spec => []SentAsAsked
<1>1. IInv => SentAsAsked
  BY DEF IInv, SentAsAsked
<1> QED BY <1>1, InvariantHolds, PTL

(***************************************************************************)
(* checkParams against the reference.                                      *)
(***************************************************************************)

\* The values that checkParams sees of a key are those given anywhere.
LEMMA MergeGivesAll ==
  ASSUME NEW r \in Request, r.unread, ParamsReadable(r), NEW key \in Names
  PROVE  /\ RequestParams(r) \in Params
         /\ Given(r, key) = {RequestParams(r)[key][i] : i \in DOMAIN RequestParams(r)[key]}
<1>1. r.query \in Params /\ r.form \in Params
  BY DEF Request
<1>2. CASE r.body = "none"
  BY <1>1, <1>2 DEF RequestParams, NoBody, Given, ToSet
<1>3. CASE r.body = "form"
  <2>1. RequestParams(r) = Merge(r.query, r.form)
    BY <1>3 DEF RequestParams, NoBody
  <2>2. r.query[key] \in Seq(Values) /\ r.form[key] \in Seq(Values)
    BY <1>1 DEF Params
  <2>3. RequestParams(r)[key] = r.query[key] \o r.form[key]
    BY <1>1, <2>1 DEF Merge, Params
  <2>4. RequestParams(r) \in Params
    BY <1>1, <2>1 DEF Merge, Params
  <2> DEFINE q == r.query[key]
             f == r.form[key]
  <2>5. {(q \o f)[i] : i \in DOMAIN (q \o f)} = ToSet(q) \union ToSet(f)
    <3> HIDE DEF q, f
    <3>1. q \in Seq(Values) /\ f \in Seq(Values)
      BY <2>2 DEF q, f
    <3>2. /\ \A i \in DOMAIN q : i \in DOMAIN (q \o f) /\ (q \o f)[i] = q[i]
          /\ \A i \in DOMAIN f : Len(q) + i \in DOMAIN (q \o f) /\ (q \o f)[Len(q) + i] = f[i]
      BY <3>1
    <3>3. ASSUME NEW i \in DOMAIN (q \o f)
          PROVE  (q \o f)[i] \in ToSet(q) \union ToSet(f)
      <4>1. CASE i \in DOMAIN q
        BY <3>2, <4>1 DEF ToSet
      <4>2. CASE i \notin DOMAIN q
        <5>1. i - Len(q) \in DOMAIN f /\ (q \o f)[i] = f[i - Len(q)]
          BY <3>1, <4>2
        <5> QED BY <5>1 DEF ToSet
      <4> QED BY <4>1, <4>2
    <3>4. ToSet(q) \subseteq {(q \o f)[i] : i \in DOMAIN (q \o f)}
      BY <3>2 DEF ToSet
    <3>5. ToSet(f) \subseteq {(q \o f)[i] : i \in DOMAIN (q \o f)}
      BY <3>2 DEF ToSet
    <3> QED BY <3>3, <3>4, <3>5
  <2> QED BY <1>3, <2>3, <2>4, <2>5 DEF Given
<1> QED BY <1>2, <1>3 DEF ParamsReadable, NoBody

\* A sequence is empty when it has no position.
LEMMA EmptyOrNot ==
  ASSUME NEW S, NEW s \in Seq(S)
  PROVE  s # <<>> <=> DOMAIN s # {}
<1>1. DOMAIN s = 1..Len(s) /\ Len(s) \in Nat
  OBVIOUS
<1>2. CASE s = <<>>
  BY <1>1, <1>2, EmptySeq
<1>3. CASE s # <<>>
  <2>1. Len(s) \in Nat \ {0}
    BY <1>3, EmptySeq
  <2>2. 1 \in DOMAIN s
    BY <1>1, <2>1
  <2> QED BY <1>3, <2>2
<1> QED BY <1>2, <1>3

\* Parameters pass exactly when they are allowed whichever value of a key the
\* server takes.
LEMMA CheckedParams ==
  ASSUME NEW entry \in TableEntry, NEW r \in Request, r.unread, ParamsReadable(r)
  PROVE  CheckParams(entry, RequestParams(r)) <=> ParamsAllowed(entry, r)
<1> DEFINE values == RequestParams(r)
           given == {key \in DOMAIN values : values[key] # <<>>}
           routes == DOMAIN entry.routing
<1>1. \A key \in Names : Given(r, key) = {values[key][i] : i \in DOMAIN values[key]}
  BY MergeGivesAll
<1>2. \A key \in Names : values[key] \in Seq(Values)
  <2> SUFFICES ASSUME NEW key \in Names PROVE values[key] \in Seq(Values)
    OBVIOUS
  <2> QED BY MergeGivesAll DEF Params
<1>3. DOMAIN r.query = Names
  BY DEF Request, Params
<1>4. routes \subseteq Names
  BY DEF TableEntry
<1>5. DOMAIN values = Names
  <2>1. CASE Names = {}
    BY <1>3, <2>1 DEF RequestParams, Merge
  <2>2. CASE Names # {}
    BY <2>2, MergeGivesAll DEF Params
  <2> QED BY <2>1, <2>2
<1>6. CheckParams(entry, values) <=>
        /\ entry.required \subseteq given
        /\ given \subseteq entry.allowed \union entry.required \union routes
        /\ \A key \in routes :
             /\ values[key] # <<>>
             /\ \A i \in DOMAIN values[key] : values[key][i] = values[key][1]
             /\ values[key][1] \in entry.routing[key]
  BY DEF CheckParams
<1> HIDE DEF values
<1>7. Keys(r) = given
  <2>1. \A key \in Names : Given(r, key) # {} <=> values[key] # <<>>
    <3> SUFFICES ASSUME NEW key \in Names
                 PROVE  Given(r, key) # {} <=> values[key] # <<>>
      OBVIOUS
    <3>1. Given(r, key) = {values[key][i] : i \in DOMAIN values[key]}
      BY <1>1
    <3>2. values[key] # <<>> <=> DOMAIN values[key] # {}
      <4>1. values[key] \in Seq(Values)
        BY <1>2
      <4> QED BY <4>1, EmptyOrNot
    <3> QED BY <3>1, <3>2
  <2> QED BY <1>3, <1>5, <2>1 DEF Keys
\* All values of a key agree with the first, or the key is given as one value.
<1>8. ASSUME NEW key \in routes, values[key] # <<>>
      PROVE  (/\ \A i \in DOMAIN values[key] : values[key][i] = values[key][1]
              /\ values[key][1] \in entry.routing[key])
             <=> \E value \in entry.routing[key] : Given(r, key) = {value}
  <2>1. key \in Names /\ 1 \in DOMAIN values[key]
    BY <1>2, <1>4, <1>8
  <2>2. Given(r, key) = {values[key][i] : i \in DOMAIN values[key]}
    BY <1>1, <2>1
  <2>3. ASSUME \A i \in DOMAIN values[key] : values[key][i] = values[key][1]
        PROVE  Given(r, key) = {values[key][1]}
    BY <2>1, <2>2, <2>3
  <2>4. ASSUME NEW value, Given(r, key) = {value}
        PROVE  \A i \in DOMAIN values[key] : values[key][i] = value
    BY <2>2, <2>4
  <2> QED BY <2>1, <2>3, <2>4
<1>9. \A key \in routes : key \in given <=> values[key] # <<>>
  BY <1>4, <1>5
<1> HIDE DEF given, routes
<1>10. ParamsAllowed(entry, r) <=>
         /\ entry.required \union routes \subseteq given
         /\ given \subseteq entry.required \union entry.allowed \union routes
         /\ \A key \in routes : \E value \in entry.routing[key] : Given(r, key) = {value}
  BY <1>7 DEF ParamsAllowed, routes
<1>11. CheckParams(entry, values) <=> ParamsAllowed(entry, r)
  BY <1>6, <1>8, <1>9, <1>10
<1> QED BY <1>11 DEF values

\* What is sent has parameters that the deciding entry allows: each key of a
\* routing rule with one value, whatever query and form repeat.
THEOREM SentParamsAllowed ==
  Spec => [](stage = "sent" => \A i \in DOMAIN Table :
               Decides(i, asked) => ParamsAllowed(Table[i], asked))
<1>1. IInv => (stage = "sent" => \A i \in DOMAIN Table :
                 Decides(i, asked) => ParamsAllowed(Table[i], asked))
  <2> SUFFICES ASSUME IInv, stage = "sent", NEW i \in DOMAIN Table, Decides(i, asked)
               PROVE  ParamsAllowed(Table[i], asked)
    OBVIOUS
  <2>1. asked \in Request /\ asked.unread /\ Passes(asked)
    BY RequestsAreUnread DEF IInv
  <2>2. PICK j \in DOMAIN Table :
          Decides(j, asked) /\ CheckParams(Table[j], RequestParams(asked))
    BY <2>1 DEF Passes
  <2>3. i = j
    <3>1. i \in Nat \ {0} /\ j \in Nat \ {0}
      BY GuardAssumption
    <3> QED BY <2>2, <3>1 DEF Decides
  <2>4. Table[i] \in TableEntry
    BY GuardAssumption
  <2> QED BY <2>1, <2>2, <2>3, <2>4, PassesReadable, CheckedParams
<1> QED BY <1>1, InvariantHolds, PTL

\* A table without denied actions sends none, however often a key is given.
THEOREM NothingDeniedIsSent == Spec => []DeniedNeverSent
<1>1. (stage = "sent" => \A i \in DOMAIN Table :
         Decides(i, asked) => ParamsAllowed(Table[i], asked)) => DeniedNeverSent
  BY DEF DeniedNeverSent, WriteActionNames, ParamsAllowed
<1> QED BY <1>1, SentParamsAllowed, PTL

(***************************************************************************)
(* Check against the reference, both ways.                                 *)
(***************************************************************************)

\* What passes is allowed by an entry in each of the readings of its path.
LEMMA PassedIsAllowed ==
  ASSUME NEW r \in Requests, Passes(r)
  PROVE  \E i \in DOMAIN Table : Allows(Table[i], r)
<1>1. r \in Request /\ r.unread /\ r.path \in Path
  BY RequestsAreUnread DEF Request
<1>2. PICK i \in DOMAIN Table : Decides(i, r) /\ CheckParams(Table[i], RequestParams(r))
  BY DEF Passes
<1>3. /\ Table[i] \in TableEntry
      /\ Table[i].wild => Table[i].path # <<>> /\ Last(Table[i].path) = Slash
  BY GuardAssumption DEF Slash, Plain
<1>4. Table[i].method = r.method /\ EntryMatchesPath(Table[i], Decode(r.path))
  BY <1>2 DEF Decides, Matches
<1>5. ~UnsafePath(r.path)
  BY DEF Passes
<1>6. \A reading \in Readings(r.path) : Inside(Table[i], reading)
  BY <1>1, <1>3, <1>4, <1>5, MatchedIsInside
<1>7. ParamsAllowed(Table[i], r)
  BY <1>1, <1>2, <1>3, PassesReadable, CheckedParams
<1> QED BY <1>4, <1>6, <1>7 DEF Allows

\* For every table and request: what is sent is allowed by an entry, whether the
\* server cuts the path before or after decoding it, decodes it once or twice,
\* and whichever of a repeated key's values it takes.
THEOREM OnlyAllowedIsSent == Spec => []SentIsAllowed
<1>1. IInv => SentIsAllowed
  <2> SUFFICES ASSUME IInv, stage = "sent"
               PROVE  /\ asked.origin = "fnb" /\ asked.headers = {} /\ asked.queryValid
                      /\ \E i \in DOMAIN Table : Allows(Table[i], asked)
    BY DEF SentIsAllowed
  <2>1. asked \in Requests /\ Passes(asked)
    BY DEF IInv
  <2> QED BY <2>1, PassedIsAllowed DEF Passes, ParamsReadable
<1> QED BY <1>1, InvariantHolds, PTL

\* What an entry of a plain table allows, written plainly, passes.
LEMMA AllowedPasses ==
  ASSUME PlainTable, NEW r \in Requests, NEW i \in DOMAIN Table, Allows(Table[i], r),
         r.origin = "fnb", r.headers = {}, r.queryValid,
         r.body \in {"none", "form"}, r.body = "form" => r.method # "GET",
         Canonical(r.path)
  PROVE  Passes(r)
<1>1. r \in Request /\ r.unread /\ r.path \in Path
  BY RequestsAreUnread DEF Request
<1>2. Table[i] \in TableEntry /\ Len(Table) \in Nat /\ DOMAIN Table = 1..Len(Table)
  BY GuardAssumption
<1>3. ~UnsafePath(r.path)
  BY <1>1, CanonicalIsSafe
<1>4. ParamsReadable(r)
  BY <1>1 DEF ParamsReadable, NoBody
<1>5. Matches(Table[i], r)
  <2>1. \A reading \in Readings(r.path) : Inside(Table[i], reading)
    BY DEF Allows
  <2>2. Table[i].path = IF Table[i].wild THEN Written(Home(Table[i])) \o <<Slash>>
                                         ELSE Written(Home(Table[i]))
    BY DEF PlainTable
  <2>3. EntryMatchesPath(Table[i], Decode(r.path))
    BY <1>1, <1>2, <2>1, <2>2, InsideIsMatched
  <2> QED BY <2>3 DEF Matches, Allows
<1>6. Decides(i, r)
  <2>1. ASSUME NEW j \in 1..(i - 1) PROVE ~Matches(Table[j], r)
    <3>1. j \in DOMAIN Table /\ j # i
      BY <1>2
    <3> QED BY <1>5, <3>1 DEF PlainTable
  <2> QED BY <1>5, <2>1 DEF Decides
<1>7. CheckParams(Table[i], RequestParams(r))
  <2>1. ParamsAllowed(Table[i], r)
    BY DEF Allows
  <2> QED BY <1>1, <1>2, <1>4, <2>1, CheckedParams
<1> QED BY <1>3, <1>4, <1>6, <1>7 DEF Passes

\* For every table of plain paths with one entry for each request, every plainly
\* written request that an entry allows is let through.
THEOREM AllowedIsNotBlocked ==
  ASSUME PlainTable
  PROVE  Spec => []EveryShapePasses
<1>1. IInv => EveryShapePasses
  <2> SUFFICES ASSUME IInv, stage = "blocked", asked.origin = "fnb", asked.headers = {},
                      asked.queryValid, asked.body \in {"none", "form"},
                      asked.body = "form" => asked.method # "GET", Canonical(asked.path),
                      NEW i \in DOMAIN Table, Allows(Table[i], asked)
               PROVE  FALSE
    BY DEF EveryShapePasses
  <2>1. asked \in Requests /\ ~Passes(asked)
    BY DEF IInv
  <2> QED BY <2>1, AllowedPasses
<1> QED BY <1>1, InvariantHolds, PTL
==============================================================================
