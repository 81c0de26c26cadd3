----------------------------- MODULE CookieJar -----------------------------
(***************************************************************************)
(* The cookies of one client and the session that outlives it: guardedJar  *)
(* of internal/transport/http.go, which keeps a mirror of what it accepted *)
(* beside the library's jar (the jar cannot be listed), and the cookies of *)
(* session.json in internal/session/store.go.                              *)
(*                                                                         *)
(* Concurrent calls of one client share the jar.  SetCookies remembers the *)
(* accepted cookies one by one and gives them to the jar afterwards, and   *)
(* each of these steps reads a clock of its own.  The process may be       *)
(* killed at every step; the file survives it (SecureWrite).               *)
(***************************************************************************)
EXTENDS Integers, FiniteSets, Sequences

CONSTANTS
  Calls,     \* the concurrent calls of one client
  Targets,   \* request paths, each a sequence of segments; "/" is << >>
  Offered,   \* the cookies that responses and imports carry
  Forever,   \* the expiry of a cookie without one
  NoPath,    \* a cookie without a path of its own
  NoEntry,   \* no cookie under this key
  NoFile,    \* session.json does not exist
  Lifetime,  \* the store's lifetime
  MaxTime    \* bound: the clock stops there

Root == << >>
Expiry == Nat \union {Forever}

Cookie == [name : STRING, domain : {"", "online", ".online", "other"},
           path : Seq(STRING) \union {NoPath}, value : STRING,
           quoted : BOOLEAN, secure : BOOLEAN, valid : BOOLEAN,
           maxAge : Int, expires : Expiry]

\* What the mirror, the jar and the file keep under a key.
Entry == [value : STRING, quoted : BOOLEAN, expires : Expiry]

ASSUME CookieJarAssumption ==
  /\ Offered \subseteq Cookie
  /\ Root \in Targets /\ Targets \subseteq Seq(STRING)
  /\ Forever \notin Nat
  /\ NoEntry \notin Cookie \union Entry
  /\ Lifetime \in Nat /\ MaxTime \in Nat

VARIABLES
  now,      \* the time that every clock reads
  mirror,   \* guardedJar.accepted
  jar,      \* the library's jar, from which requests take their cookies
  file,     \* session.json
  pc,       \* where each call is
  target,   \* the path of the request whose cookies a call sets
  todo,     \* the cookies that an import has still to set
  given,    \* the accepted cookies that a call will give to the jar, by key
  taken,    \* the snapshot that the command is about to save, or NoFile
  contested, \* history: the keys that two calls of this process set at a time
  lag,      \* history: for how long calls were between mirror and jar
  phase,    \* history: how the cookies of this process came about
  wares,    \* history: the jar when that snapshot was taken, if known
  shelf     \* history: the jar when the snapshot on file was taken, if known

content == <<mirror, jar>>
working == <<pc, target, todo, given, taken>>
history == <<contested, lag, phase, wares, shelf>>
vars == <<now, content, file, working, history>>

-----------------------------------------------------------------------------
(* Which cookies are kept, and under which key. *)

\* The tests of accepts; valid stands for Valid, the name and the size.
Accepts(cookie) ==
  cookie.secure /\ cookie.valid /\ cookie.domain \in {"", "online", ".online"}

\* The directory of the request path.
DefaultCookiePath(path) ==
  IF path = Root THEN Root ELSE SubSeq(path, 1, Len(path) - 1)

\* Mutant: a cookie without a path belongs to the whole site.
KeyAtRoot(path, cookie) ==
  [name  |-> cookie.name,
   scope |-> IF cookie.domain = "" THEN "host" ELSE "domain",
   path  |-> IF cookie.path = NoPath THEN Root ELSE cookie.path]

\* The key of an accepted cookie in the mirror.
Key(path, cookie) ==
  [name  |-> cookie.name,
   scope |-> IF cookie.domain = "" THEN "host" ELSE "domain",
   path  |-> IF cookie.path = NoPath THEN DefaultCookiePath(path)
                                     ELSE cookie.path]

\* The library's jar knows a cookie by its name, its path and either the host
\* that set it or the domain that it names.
JarKey(path, cookie) ==
  [name  |-> cookie.name,
   scope |-> IF cookie.domain \in {"online", ".online"} THEN "domain" ELSE "host",
   path  |-> IF cookie.path = NoPath THEN DefaultCookiePath(path)
                                     ELSE cookie.path]

Keys == {JarKey(path, cookie) :
           path \in Targets, cookie \in {c \in Offered : Accepts(c)}}
Empty == [k \in Keys |-> NoEntry]

ASSUME PathAssumption ==
  \A path \in Targets : DefaultCookiePath(path) # NoPath

LiveAt(e, time) == e # NoEntry /\ (e.expires = Forever \/ time < e.expires)
Live(e) == LiveAt(e, now)

Kept(cookie, expires) ==
  [value |-> cookie.value, quoted |-> cookie.quoted, expires |-> expires]

\* Mutant: the age of a cookie is not made absolute.
RememberedAsSent(cookie) ==
  IF cookie.maxAge < 0 \/ (cookie.expires # Forever /\ now >= cookie.expires)
  THEN NoEntry ELSE Kept(cookie, cookie.expires)

\* What remember leaves in the mirror for a cookie, with an absolute expiry.
Remembered(cookie) ==
  LET expires == IF cookie.maxAge > 0 THEN now + cookie.maxAge
                                      ELSE cookie.expires
  IN  IF cookie.maxAge < 0 \/ (expires # Forever /\ now >= expires)
      THEN NoEntry ELSE Kept(cookie, expires)

\* What the library's jar makes of a cookie.
JarEntry(cookie) ==
  CASE cookie.maxAge < 0 -> NoEntry
    [] cookie.maxAge > 0 -> Kept(cookie, now + cookie.maxAge)
    [] OTHER -> IF cookie.expires = Forever \/ cookie.expires > now
                THEN Kept(cookie, cookie.expires) ELSE NoEntry

\* The file has no field for the quotes of a value.
CookieFromHTTP(e) == [e EXCEPT !.quoted = FALSE]

CookieToHTTP(k, e) ==
  [name |-> k.name, domain |-> IF k.scope = "host" THEN "" ELSE "online",
   path |-> k.path, value |-> e.value, quoted |-> e.quoted, secure |-> TRUE,
   valid |-> TRUE, maxAge |-> 0, expires |-> e.expires]

Init == /\ now = 0
        /\ mirror = Empty /\ jar = Empty
        /\ file = NoFile
        /\ pc = [c \in Calls |-> "idle"]
        /\ target = [c \in Calls |-> Root]
        /\ todo = [c \in Calls |-> {}]
        /\ given = [c \in Calls |-> Empty]
        /\ taken = NoFile
        /\ contested = {} /\ lag = 0 /\ phase = "fresh"
        /\ wares = NoFile
        /\ shelf = NoFile

At(c, step) == pc[c] = step
Goto(c, step) == pc' = [pc EXCEPT ![c] = step]
Setting == {c \in Calls : ~At(c, "idle")}

-----------------------------------------------------------------------------
(* SetCookies. *)

\* A call of SetCookies begins.  The command that saves is the one that makes
\* the requests, so none begins while it saves.  Bound: once two calls of a
\* process have set one key at a time, no other begins before the next process.
Start(c, step, path) ==
  /\ At(c, "idle")
  /\ taken = NoFile
  /\ contested = {}
  /\ Goto(c, step)
  /\ target' = [target EXCEPT ![c] = path]
  /\ UNCHANGED <<now, content, file, given, taken, contested, lag, wares, shelf>>

\* A response, or a redirect that the guard lets pass, brings cookies.
Respond(c) == \E path \in Targets :
  /\ Start(c, "respond", path)
  /\ phase' = "mixed"
  /\ UNCHANGED todo

\* One accepted cookie is remembered under the mutex.  Of the others only a
\* count is kept, which is left out.
Consider(c, cookie) == LET key == JarKey(target[c], cookie) IN
  /\ Accepts(cookie)
  /\ mirror' = [mirror EXCEPT ![Key(target[c], cookie)] = Remembered(cookie)]
  /\ given' = [given EXCEPT ![c][key] = cookie]
  /\ contested' = contested \union
       {k \in {key} : \E d \in Calls \ {c} : given[d][k] # NoEntry}
  /\ UNCHANGED <<now, jar, file, pc, target, taken, lag, phase, wares, shelf>>

\* The next cookie of a response, of which there may be any number.
Receive(c) == \E cookie \in Offered : /\ At(c, "respond")
                                      /\ Consider(c, cookie)
                                      /\ UNCHANGED todo

\* The accepted cookies reach the library's jar together.
StoreInJar(c) ==
  /\ At(c, "respond") \/ (At(c, "import") /\ todo[c] = {})
  /\ jar' = [k \in Keys |-> IF given[c][k] = NoEntry THEN jar[k]
                                                     ELSE JarEntry(given[c][k])]
  /\ Goto(c, "idle")
  /\ target' = [target EXCEPT ![c] = Root]
  /\ given' = [given EXCEPT ![c] = Empty]
  /\ phase' = IF phase = "restoring" THEN "restored" ELSE phase
  /\ UNCHANGED <<now, mirror, file, todo, taken, contested, lag, wares,
                 shelf>>

-----------------------------------------------------------------------------
(* SaveCookieSnapshot: the snapshot, the filter of SaveSession, the file.   *)
(* One command at a time saves, while calls may be under way.               *)

Pruned == [k \in Keys |-> IF Live(mirror[k]) THEN mirror[k] ELSE NoEntry]

Snapshot ==
  /\ taken = NoFile
  /\ mirror' = Pruned
  /\ taken' = Pruned
  /\ wares' = IF contested # {} \/ Setting # {} THEN NoFile ELSE jar
  /\ UNCHANGED <<now, jar, file, pc, target, todo, given, contested, lag,
                 phase, shelf>>

Saved == taken' = NoFile /\ wares' = NoFile

SaveSession ==
  /\ taken # NoFile
  /\ file' = [created |-> now,
              cookies |-> [k \in Keys |-> IF Live(taken[k])
                                          THEN CookieFromHTTP(taken[k])
                                          ELSE NoEntry]]
  /\ shelf' = wares
  /\ phase' = IF phase = "fresh" THEN "fresh" ELSE "mixed"
  /\ Saved
  /\ UNCHANGED <<now, content, pc, target, todo, given, contested, lag>>

SaveFails ==
  /\ taken # NoFile
  /\ Saved
  /\ UNCHANGED <<now, content, file, pc, target, todo, given, contested, lag,
                 phase, shelf>>

-----------------------------------------------------------------------------
(* LoadCookieSnapshot. *)

TooOld == Lifetime > 0 /\ now >= file.created + Lifetime

LoadExpired ==
  /\ taken = NoFile
  /\ file # NoFile
  /\ TooOld
  /\ file' = NoFile
  /\ shelf' = NoFile
  /\ UNCHANGED <<now, content, working, contested, lag, phase, wares>>

\* importCookies validates every cookie before it sets the first.
LoadCookies(c) ==
  /\ file # NoFile
  /\ ~TooOld
  /\ LET cookies == {CookieToHTTP(k, file.cookies[k]) :
                       k \in {k \in Keys : Live(file.cookies[k])}}
     IN  /\ \A cookie \in cookies : Accepts(cookie)
         /\ todo' = [todo EXCEPT ![c] = cookies]
  /\ Start(c, "import", Root)
  /\ phase' = IF phase = "fresh" THEN "restoring" ELSE "mixed"

ImportNext(c) == \E cookie \in todo[c] :
  /\ At(c, "import")
  /\ Consider(c, cookie)
  /\ todo' = [todo EXCEPT ![c] = @ \ {cookie}]

-----------------------------------------------------------------------------

\* The process ends or is killed; only the file remains.
Restart ==
  /\ mirror' = Empty /\ jar' = Empty
  /\ pc' = [c \in Calls |-> "idle"]
  /\ target' = [c \in Calls |-> Root]
  /\ todo' = [c \in Calls |-> {}]
  /\ given' = [c \in Calls |-> Empty]
  /\ taken' = NoFile
  /\ contested' = {} /\ phase' = "fresh"
  /\ wares' = NoFile
  /\ UNCHANGED <<now, file, lag, shelf>>

Tick == /\ now < MaxTime
        /\ now' = now + 1
        /\ lag' = IF Setting # {} THEN lag + 1 ELSE lag
        /\ UNCHANGED <<content, file, working, contested, phase, wares, shelf>>

Next == \/ \E c \in Calls : \/ Respond(c) \/ Receive(c) \/ StoreInJar(c)
                            \/ LoadCookies(c) \/ ImportNext(c)
        \/ Snapshot \/ SaveSession \/ SaveFails \/ LoadExpired
        \/ Restart
        \/ Tick

Spec == Init /\ [][Next]_vars
-----------------------------------------------------------------------------
(* What the mirror and the file are for. *)

Memory == [Keys -> Entry \union {NoEntry}]
Session == [created : Nat, cookies : Memory]

\* Types only.
TypeOK ==
  /\ now \in Nat /\ lag \in Nat
  /\ mirror \in Memory /\ jar \in Memory
  /\ file \in Session \union {NoFile}
  /\ pc \in [Calls -> {"idle", "respond", "import"}]
  /\ target \in [Calls -> Targets]
  /\ todo \in [Calls -> SUBSET Cookie]
  /\ given \in [Calls -> [Keys -> Cookie \union {NoEntry}]]
  /\ taken \in Memory \union {NoFile}
  /\ contested \subseteq Keys
  /\ phase \in {"fresh", "restoring", "restored", "mixed"}
  /\ wares \in Memory \union {NoFile}
  /\ shelf \in Memory \union {NoFile}

\* Whatever calls are under way and whatever the clocks read in between, a
\* snapshot holds under each key what the next request would send or, where one
\* call has cookies to give to the jar, what that call is about to give it; only a
\* key that two calls of the process have set at a time is lost.  About remember,
\* which keeps the mirror that snapshot lists beside a jar that cannot be listed,
\* and about the two steps of SetCookies, which nothing keeps together.
SnapshotAgrees == \A k \in Keys \ contested :
  /\ (\A c \in Calls : given[c][k] = NoEntry) =>
       /\ Live(mirror[k]) => /\ Live(jar[k])
                             /\ mirror[k].value = jar[k].value
                             /\ mirror[k].quoted = jar[k].quoted
       /\ LiveAt(jar[k], now + lag) => Live(mirror[k])
  /\ \A c \in Calls : given[c][k] # NoEntry /\ Live(mirror[k]) =>
       /\ given[c][k].maxAge >= 0
       /\ mirror[k].value = given[c][k].value
       /\ mirror[k].quoted = given[c][k].quoted

\* A process that has only restored the session sends what the process that
\* saved it would still send: no cookie lost, none brought back, none that
\* lives longer.  About SaveCookieSnapshot, LoadCookieSnapshot and the times
\* at which they test expiry.
RestoredAsSaved ==
  phase = "restored" /\ shelf # NoFile => \A k \in Keys :
    /\ Live(jar[k]) => Live(shelf[k]) /\ jar[k].value = shelf[k].value
    /\ LiveAt(shelf[k], now + lag) => Live(jar[k])

\* The persistence of the jar keeps the quotes of a value, which belong to what
\* the server set: about CookiesFromHTTP and CookiesToHTTP.
QuotesSurvive ==
  phase = "restored" /\ shelf # NoFile => \A k \in Keys :
    Live(jar[k]) /\ Live(shelf[k]) => jar[k].quoted = shelf[k].quoted
-----------------------------------------------------------------------------
(* The inductive invariant that the proofs use. *)

\* The expiry a is at most delay later than b.
Within(a, b, delay) == b = Forever \/ (a # Forever /\ a <= b + delay)

\* At the given time: as long as m lives there is a j that lives as long, and
\* while j has more than delay to live there is an m, at most delay behind it.
Agree(m, j, time, delay) ==
  /\ LiveAt(m, time) => /\ j # NoEntry /\ j.value = m.value
                        /\ Within(m.expires, j.expires, 0)
  /\ LiveAt(j, time + delay) => /\ m # NoEntry
                                /\ Within(j.expires, m.expires, delay)

SameQuotes(m, j, time) == LiveAt(m, time) => m.quoted = j.quoted

\* The mirror already holds m for a cookie that the jar has yet to be given.
Remembers(cookie, m, time, delay) ==
  /\ m # NoEntry => m.value = cookie.value /\ m.quoted = cookie.quoted
  /\ cookie.maxAge < 0 => m = NoEntry
  /\ cookie.maxAge > 0 => IF m = NoEntry THEN cookie.maxAge <= delay
                          ELSE /\ m.expires \in Nat
                               /\ m.expires <= time + cookie.maxAge
                               /\ time + cookie.maxAge <= m.expires + delay
  /\ cookie.maxAge = 0 => IF m = NoEntry
                          THEN cookie.expires # Forever /\ time >= cookie.expires
                          ELSE m.expires = cookie.expires

\* A call that is not under way holds nothing; of those that are one at most has a
\* cookie for a key that is not contested.
CallInv ==
  /\ \A c \in Calls : At(c, "idle") => given[c] = Empty
  /\ \A k \in Keys \ contested, c, d \in Calls :
       given[c][k] # NoEntry /\ given[d][k] # NoEntry => c = d

\* The mirror and the jar, for the keys that no call is changing and for those
\* that one is.
MirrorInv == \A k \in Keys \ contested :
  /\ (\A c \in Calls : given[c][k] = NoEntry)
       => /\ Agree(mirror[k], jar[k], now, lag)
          /\ SameQuotes(mirror[k], jar[k], now)
  /\ \A c \in Calls :
       given[c][k] # NoEntry => Remembers(given[c][k], mirror[k], now, lag)

\* A snapshot and the file agree with the jar of the time.
ShelfInv ==
  /\ taken # NoFile /\ wares # NoFile =>
       \A k \in Keys : Agree(taken[k], wares[k], now, lag)
  /\ file # NoFile /\ shelf # NoFile =>
       \A k \in Keys : Agree(file.cookies[k], shelf[k], now, lag)

\* An import has stored cookies to set, at the root of the site.
ImportInv == \A c \in Calls :
  /\ At(c, "import") => target[c] = Root
  /\ ~At(c, "import") => todo[c] = {}
  /\ \A cookie \in todo[c] : cookie.maxAge = 0 /\ JarKey(Root, cookie) \in Keys

Restored(cookie) == Kept(cookie, cookie.expires)

\* What a restore has set, and has still to set, agrees with the shelf.
RestoreInv(c) == \A k \in Keys :
  /\ \A cookie \in todo[c] :
       JarKey(Root, cookie) = k => Agree(Restored(cookie), shelf[k], now, lag)
  /\ given[c][k] # NoEntry => /\ given[c][k].maxAge = 0
                              /\ Agree(Restored(given[c][k]), shelf[k], now, lag)
  /\ LiveAt(shelf[k], now + lag) =>
       \/ given[c][k] # NoEntry
       \/ \E cookie \in todo[c] : JarKey(Root, cookie) = k

PhaseInv ==
  /\ phase \in {"fresh", "restoring"} => jar = Empty
  /\ phase \in {"fresh", "restored"} => Setting = {}
  /\ phase = "restoring" => \A c, d \in Setting : At(c, "import") /\ c = d
  /\ phase = "restoring" /\ shelf # NoFile => \A c \in Setting : RestoreInv(c)
  /\ phase = "restored" /\ shelf # NoFile =>
       \A k \in Keys : Agree(jar[k], shelf[k], now, lag)

IInv == /\ TypeOK /\ CallInv /\ MirrorInv /\ ShelfInv /\ ImportInv /\ PhaseInv
=============================================================================
