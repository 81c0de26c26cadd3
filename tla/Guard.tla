-------------------------------- MODULE Guard --------------------------------
(***************************************************************************)
(* guard.Check, the allowlist every request passes before it is sent, and  *)
(* the two looks it takes at a redirect: one in CheckRedirect and one in   *)
(* RoundTrip, with the body read and put back by each.                     *)
(*                                                                         *)
(* A path is a sequence of characters with the number of times each is     *)
(* percent-encoded: "." is [char |-> ".", depth |-> 0], "%2e" has depth 1  *)
(* and "%252e" depth 2.                                                    *)
(***************************************************************************)
EXTENDS Naturals, Sequences, SequencesExt

CONSTANTS
  Table,     \* the entries, in order
  Requests,  \* the requests that are asked for
  Letters,   \* the characters that mean nothing to the guard
  Names,     \* the names of parameters
  Values,    \* and their values
  Denied     \* the write-action names given to WriteActionNames

Params == [Names -> Seq(Values)]
Char == [char : {"/", ".", "\\"} \union Letters, depth : Nat]
Path == Seq(Char)
Request == [origin : STRING, headers : SUBSET {"Cookie", "Authorization"},
            method : STRING, path : Path, queryValid : BOOLEAN, query : Params,
            body : STRING, form : Params, unread : BOOLEAN]
TableEntry == [method : STRING, path : Path, wild : BOOLEAN,
               required : SUBSET Names, allowed : SUBSET Names,
               routing : UNION {[keys -> SUBSET Values] : keys \in SUBSET Names}]

\* A wild path is what stands before the stars of "/**".  Nobody has read the
\* body of a request that is asked for.
ASSUME GuardAssumption == /\ Table \in Seq(TableEntry)
                          /\ \A i \in DOMAIN Table : Table[i].wild =>
                               /\ Table[i].path # <<>>
                               /\ Last(Table[i].path) = [char |-> "/", depth |-> 0]
                          /\ Requests \subseteq Request
                          /\ \A r \in Requests : r.unread

VARIABLES
  request,   \* the request as it stands
  asked,     \* the request as it was asked for
  stage      \* "new", "redirected", "passed" by CheckRedirect, "sent", "blocked"

vars == <<request, asked, stage>>

Init == /\ asked \in Requests
        /\ request = asked
        /\ stage \in {"new", "redirected"}

-----------------------------------------------------------------------------
(* Paths. *)

Plain(char) == [char |-> char, depth |-> 0]
Slash == Plain("/")
Dot == Plain(".")

\* What url.Parse makes of the path.
Decode(text) ==
  [i \in DOMAIN text |-> [text[i] EXCEPT !.depth = IF @ > 0 THEN @ - 1 ELSE 0]]

\* A segment of one or two dots.
HasDotSegment(path) ==
  \E i \in DOMAIN path : \E n \in {1, 2} :
    /\ i + n - 1 <= Len(path)
    /\ \A j \in i..(i + n - 1) : path[j] = Dot
    /\ i = 1 \/ path[i - 1] = Slash
    /\ i + n - 1 = Len(path) \/ path[i + n] = Slash

\* Mutant: the decoded path may hold a percent sign.
UnsafePathOnce(text) ==
  LET path == Decode(text)
  IN  \/ \E i \in 1..(Len(path) - 1) : path[i] = Slash /\ path[i + 1] = Slash
      \/ \E i \in DOMAIN text : text[i].depth = 1 /\ text[i].char \in {"/", "\\", "."}
      \/ \E i \in DOMAIN path : path[i] = Plain("\\")
      \/ HasDotSegment(path)

\* "//", "%2f", "%5c", "%2e"; a percent sign or a backslash that is left after
\* decoding; a dot segment.
UnsafePath(text) ==
  LET path == Decode(text)
  IN  \/ \E i \in 1..(Len(path) - 1) : path[i] = Slash /\ path[i + 1] = Slash
      \/ \E i \in DOMAIN text : text[i].depth = 1 /\ text[i].char \in {"/", "\\", "."}
      \/ \E i \in DOMAIN path : path[i].depth > 0 \/ path[i].char = "\\"
      \/ HasDotSegment(path)

EntryMatchesPath(entry, path) ==
  IF entry.wild THEN IsStrictPrefix(entry.path, path) ELSE path = entry.path

-----------------------------------------------------------------------------
(* Parameters: a function from keys to the sequence of a key's values. *)

\* Mutant: the form takes the place of the query.
FormOnly(query, form) == form

\* The values of the query come before those of the form.
Merge(query, form) == [key \in DOMAIN query |-> query[key] \o form[key]]

NoBody(r) == r.body = "none" \/ ~r.unread

\* requestParams refuses a query that does not parse, and a body of a GET, that
\* cannot be read, of another content type, or that does not parse: any "body"
\* but "none" and "form".
ParamsReadable(r) == r.queryValid /\ (NoBody(r) \/ (r.body = "form" /\ r.method # "GET"))

RequestParams(r) == IF NoBody(r) THEN r.query ELSE Merge(r.query, r.form)

\* Mutant: the first value of a routing key speaks for all.
CheckFirstValue(entry, values) ==
  LET given == {key \in DOMAIN values : values[key] # <<>>}
  IN  /\ entry.required \subseteq given
      /\ given \subseteq entry.allowed \union entry.required \union DOMAIN entry.routing
      /\ \A key \in DOMAIN entry.routing :
           values[key] # <<>> /\ values[key][1] \in entry.routing[key]

CheckParams(entry, values) ==
  LET given == {key \in DOMAIN values : values[key] # <<>>}
  IN  /\ entry.required \subseteq given
      /\ given \subseteq entry.allowed \union entry.required \union DOMAIN entry.routing
      /\ \A key \in DOMAIN entry.routing :
           /\ values[key] # <<>>
           /\ \A i \in DOMAIN values[key] : values[key][i] = values[key][1]
           /\ values[key][1] \in entry.routing[key]

-----------------------------------------------------------------------------
(* Check. *)

\* The entry that decides: the first with the method and the path.
Matches(entry, r) ==
  EntryMatchesPath(entry, Decode(r.path)) /\ entry.method = r.method
Decides(i, r) == Matches(Table[i], r) /\ \A j \in 1..(i - 1) : ~Matches(Table[j], r)

\* "origin" stands for scheme, host, user, Host header, fragment and a raw path
\* that is no encoding of the path.
Passes(r) ==
  /\ r.origin = "fnb"
  /\ ~UnsafePath(r.path)
  /\ r.headers = {}
  /\ ParamsReadable(r)
  /\ \E i \in DOMAIN Table : /\ Decides(i, r)
                             /\ CheckParams(Table[i], RequestParams(r))

\* Mutant: the body is read and not put back.
ReadBody(r) == [r EXCEPT !.unread = r.body = "none"]

\* The body is read to its end, and replaced by a reader of what was read.
Look(r) == [r EXCEPT !.unread = r.body # "unreadable"]

\* The client's CheckRedirect, below the redirect limit.
CheckRedirect == /\ stage = "redirected"
                 /\ request' = Look(request)
                 /\ stage' = IF Passes(request) THEN "passed" ELSE "blocked"
                 /\ UNCHANGED asked

\* RoundTrip's own look, at every request.
RoundTrip == /\ stage \in {"new", "passed"}
             /\ request' = Look(request)
             /\ stage' = IF Passes(request) THEN "sent" ELSE "blocked"
             /\ UNCHANGED asked

Next == CheckRedirect \/ RoundTrip

Spec == Init /\ [][Next]_vars

\* No entry routes by a name that is denied.
WriteActionNames(entries, denied) ==
  \A i \in DOMAIN entries : \A key \in DOMAIN entries[i].routing :
    entries[i].routing[key] \intersect denied = {}
-----------------------------------------------------------------------------
(* What the guard promises, stated without the guard's own definitions. *)

\* How a segment is resolved: ".." drops the one before, "." and "" say nothing.
Enter(done, segment) ==
  CASE segment = <<Dot, Dot>>      -> IF done = <<>> THEN done ELSE Front(done)
    [] segment \in {<<>>, <<Dot>>} -> done
    [] OTHER                       -> Append(done, segment)

\* The first n characters of a path that is cut at some positions: the segments
\* that are resolved and the one that is still open.
Scan(text, cuts) ==
  LET scan[n \in 0..Len(text)] ==
        IF n = 0 THEN [done |-> <<>>, open |-> <<>>]
        ELSE IF n \in cuts
        THEN [done |-> Enter(scan[n - 1].done, scan[n - 1].open), open |-> <<>>]
        ELSE [done |-> scan[n - 1].done, open |-> Append(scan[n - 1].open, text[n])]
  IN  scan

Reading(text, cuts) ==
  LET last == Scan(text, cuts)[Len(text)] IN Enter(last.done, last.open)

Cuts(text, separators) == {i \in DOMAIN text : text[i] \in separators}

\* How a server may read a path: cut before it is decoded or after, decoded once
\* or twice, with backslashes taken for slashes or not.  Path parameters (";") are
\* not among the readings.
Readings(text) ==
  LET once  == Decode(text)
      twice == Decode(once)
  IN  {Reading(decoded, Cuts(cut, separators)) :
         decoded \in {once, twice}, cut \in {text, once, twice},
         separators \in {{Slash}, {Slash, Plain("\\")}}}

\* An entry's path as it is written in the table.
Home(entry) == Reading(entry.path, Cuts(entry.path, {Slash}))

Inside(entry, reading) ==
  IF entry.wild THEN IsStrictPrefix(Home(entry), reading) ELSE reading = Home(entry)

\* The values of a key, wherever they are given.
Given(r, key) == ToSet(r.query[key]) \union (IF r.body = "form" THEN ToSet(r.form[key]) ELSE {})
Keys(r) == {key \in DOMAIN r.query : Given(r, key) # {}}

ParamsAllowed(entry, r) ==
  /\ entry.required \union DOMAIN entry.routing \subseteq Keys(r)
  /\ Keys(r) \subseteq entry.required \union entry.allowed \union DOMAIN entry.routing
  /\ \A key \in DOMAIN entry.routing :
       \E value \in entry.routing[key] : Given(r, key) = {value}

Allows(entry, r) ==
  /\ r.method = entry.method
  /\ \A reading \in Readings(r.path) : Inside(entry, reading)
  /\ ParamsAllowed(entry, r)

\* What is sent is allowed by an entry in each of these readings of its path, and
\* whichever of a repeated key's values the server takes.  About unsafePath,
\* requestParams and checkParams.
SentIsAllowed == stage = "sent" =>
  /\ asked.origin = "fnb" /\ asked.headers = {} /\ asked.queryValid
  /\ \E i \in DOMAIN Table : Allows(Table[i], asked)

\* A request that was sent carries the body it was asked with, though the guard
\* read it once or twice.  About requestParams replacing request.Body.
SentAsAsked == stage = "sent" => request = asked

\* A routing value of a request that was sent is no denied action, if the table
\* has passed WriteActionNames.  About checkParams testing one value of many.
DeniedNeverSent ==
  stage = "sent" /\ WriteActionNames(Table, Denied) =>
    \A i \in DOMAIN Table : Decides(i, asked) =>
      \A key \in DOMAIN Table[i].routing : Given(asked, key) \intersect Denied = {}

\* Segments written out, each after a slash.
Written(segments) ==
  LET written[n \in 0..Len(segments)] ==
        IF n = 0 THEN <<>> ELSE written[n - 1] \o <<Slash>> \o segments[n]
  IN  written[Len(segments)]

\* A path written out plainly: no escapes, nothing to resolve.
Canonical(text) ==
  /\ \A i \in DOMAIN text : text[i].depth = 0 /\ text[i].char # "\\"
  /\ text = Written(Reading(text, Cuts(text, {Slash})))

\* A table whose paths are plain and whose entries do not meet: of two that take
\* one request, Check would only ask the first.
PlainTable ==
  /\ \A i \in DOMAIN Table :
       IF Table[i].wild THEN Table[i].path = Written(Home(Table[i])) \o <<Slash>>
                        ELSE Table[i].path = Written(Home(Table[i]))
  /\ \A i, j \in DOMAIN Table : \A r \in Requests :
       Matches(Table[i], r) /\ Matches(Table[j], r) => i = j

\* Every plainly written request that an entry allows is sent (docs/plan.md:83,
\* "a table test sends every allowlisted request shape and asserts pass").
\* About the entry that decides in Check, and the merge of query and form.
EveryShapePasses ==
  stage = "blocked" /\ asked.origin = "fnb" /\ asked.headers = {} /\ asked.queryValid
      /\ asked.body \in {"none", "form"} /\ (asked.body = "form" => asked.method # "GET")
      /\ Canonical(asked.path)
    => \A i \in DOMAIN Table : ~Allows(Table[i], asked)

\* What the proofs need: until it is blocked a request is what was asked for,
\* beyond the first look it passes, and none that passes is blocked.
IInv == /\ asked \in Requests
        /\ stage \in {"new", "redirected", "passed", "sent", "blocked"}
        /\ stage # "blocked" => request = asked
        /\ stage \in {"passed", "sent"} => Passes(asked)
        /\ stage = "blocked" => ~Passes(asked)
==============================================================================
