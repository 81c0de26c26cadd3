-------------------------- MODULE CookieJarProofs --------------------------
(***************************************************************************)
(* Proofs about the cookies of a client and of the session file, for any   *)
(* number of calls, any cookies, any lifetime and any bound of the clock.  *)
(***************************************************************************)
EXTENDS CookieJar, SequenceTheorems, TLAPS

USE DEF At, Goto

-----------------------------------------------------------------------------
(* Keys and entries. *)

LEMMA SameKey ==
  ASSUME NEW path, NEW cookie, Accepts(cookie)
  PROVE  Key(path, cookie) = JarKey(path, cookie)
BY DEF Accepts, Key, JarKey

LEMMA OfferedKey ==
  ASSUME NEW path \in Targets, NEW cookie \in Offered, Accepts(cookie)
  PROVE  JarKey(path, cookie) \in Keys
BY DEF Keys

\* A key finds its cookie again after the file.
LEMMA StoredKey ==
  ASSUME NEW k \in Keys, NEW e \in Entry
  PROVE  /\ JarKey(Root, CookieToHTTP(k, e)) = k
         /\ CookieToHTTP(k, e) \in Cookie
         /\ CookieToHTTP(k, e).maxAge = 0
         /\ Restored(CookieToHTTP(k, e)) = e
<1>1. PICK path \in Targets, cookie \in Offered : k = JarKey(path, cookie)
  BY DEF Keys
<1>2. cookie \in Cookie BY CookieJarAssumption
<1>3. DefaultCookiePath(path) \in Seq(STRING)
  <2>1. path \in Seq(STRING) BY CookieJarAssumption
  <2>2. Len(path) \in Nat /\ \A i \in 1 .. Len(path) - 1 : path[i] \in STRING
    BY <2>1
  <2>3. SubSeq(path, 1, Len(path) - 1) \in Seq(STRING)
    BY <2>2, SubSeqProperties
  <2> QED BY <2>1, <2>3 DEF DefaultCookiePath
<1>4. k.path # NoPath /\ k.path \in Seq(STRING)
  BY <1>1, <1>2, <1>3, PathAssumption DEF JarKey, Cookie
<1>5. k.scope \in {"host", "domain"} /\ k.name \in STRING
  BY <1>1, <1>2 DEF JarKey, Cookie
<1>6. k = [name |-> k.name, scope |-> k.scope, path |-> k.path]
  BY <1>1 DEF JarKey
<1>7. JarKey(Root, CookieToHTTP(k, e)) = k
  BY <1>4, <1>5, <1>6 DEF JarKey, CookieToHTTP
<1>8. CookieToHTTP(k, e) \in Cookie
  BY <1>4, <1>5 DEF CookieToHTTP, Cookie, Entry
<1>9. Restored(CookieToHTTP(k, e)) = e
  BY DEF Restored, Kept, CookieToHTTP, Entry
<1> QED BY <1>7, <1>8, <1>9 DEF CookieToHTTP

LEMMA KeptType ==
  ASSUME NEW cookie \in Cookie, NEW x \in Expiry
  PROVE  Kept(cookie, x) \in Entry /\ Kept(cookie, x) # NoEntry
<1>1. Kept(cookie, x) \in Entry BY DEF Kept, Entry, Cookie
<1> QED BY <1>1, CookieJarAssumption

LEMMA EntryType ==
  ASSUME NEW cookie \in Cookie, now \in Nat
  PROVE  /\ Remembered(cookie) \in Entry \union {NoEntry}
         /\ JarEntry(cookie) \in Entry \union {NoEntry}
         /\ Restored(cookie) \in Entry
         /\ cookie # NoEntry
<1>1. cookie.maxAge \in Int /\ cookie.expires \in Expiry BY DEF Cookie
<1>2. cookie.maxAge > 0 => now + cookie.maxAge \in Expiry
  BY <1>1 DEF Expiry
<1>3. Remembered(cookie) \in Entry \union {NoEntry}
  BY <1>1, <1>2, KeptType DEF Remembered
<1>4. JarEntry(cookie) \in Entry \union {NoEntry}
  BY <1>1, <1>2, KeptType DEF JarEntry
<1> QED BY <1>1, <1>3, <1>4, KeptType, CookieJarAssumption DEF Restored

-----------------------------------------------------------------------------
(* Agreement over time. *)

LEMMA ExpiryType ==
  ASSUME NEW e \in Entry \union {NoEntry}, e # NoEntry
  PROVE  e.expires \in Nat \union {Forever}
BY DEF Entry, Expiry

\* What is put into the mirror is what the jar would be given at once.
LEMMA RemembersAtOnce ==
  ASSUME NEW cookie \in Cookie, now \in Nat, lag \in Nat
  PROVE  Remembers(cookie, Remembered(cookie), now, lag)
<1>1. cookie.maxAge \in Int /\ cookie.expires \in Expiry BY DEF Cookie
<1>2. \A x \in Expiry : Kept(cookie, x) # NoEntry
  BY KeptType
<1> QED BY <1>1, <1>2, CookieJarAssumption DEF Remembers, Remembered, Kept, Expiry

\* The mirror remembers while time passes and when it drops what has expired.
LEMMA RemembersLater ==
  ASSUME NEW cookie \in Cookie, NEW m \in Entry \union {NoEntry},
         NEW t \in Nat, NEW d \in Nat, Remembers(cookie, m, t, d)
  PROVE  /\ Remembers(cookie, m, t + 1, d + 1)
         /\ ~LiveAt(m, t) => Remembers(cookie, NoEntry, t, d)
<1>1. cookie.maxAge \in Int /\ cookie.expires \in Expiry BY DEF Cookie
<1> QED BY <1>1, ExpiryType, CookieJarAssumption DEF Remembers, LiveAt, Expiry

\* The jar is given later what the mirror remembers already.
LEMMA JarCatchesUp ==
  ASSUME NEW cookie \in Cookie, NEW m \in Entry \union {NoEntry},
         now \in Nat, lag \in Nat, Remembers(cookie, m, now, lag)
  PROVE  /\ Agree(m, JarEntry(cookie), now, lag)
         /\ SameQuotes(m, JarEntry(cookie), now)
<1>1. cookie.maxAge \in Int /\ cookie.expires \in Expiry BY DEF Cookie
<1>2. \A x \in Expiry : Kept(cookie, x) # NoEntry BY KeptType
<1>3. CASE cookie.maxAge < 0
  BY <1>1, <1>3 DEF Remembers, JarEntry, Agree, SameQuotes, LiveAt
<1>4. CASE cookie.maxAge > 0
  BY <1>1, <1>2, <1>4, ExpiryType, CookieJarAssumption
     DEF Remembers, JarEntry, Agree, SameQuotes, LiveAt, Within, Kept, Expiry
<1>5. CASE cookie.maxAge = 0
  BY <1>1, <1>2, <1>5, ExpiryType, CookieJarAssumption
     DEF Remembers, JarEntry, Agree, SameQuotes, LiveAt, Within, Kept, Expiry
<1> QED BY <1>1, <1>3, <1>4, <1>5

\* Time keeps the agreement of two entries, and the pruning of a dead one.
LEMMA AgreeLater ==
  ASSUME NEW m \in Entry \union {NoEntry}, NEW j \in Entry \union {NoEntry},
         NEW t \in Nat, NEW d \in Nat, NEW d2 \in {d, d + 1}, Agree(m, j, t, d)
  PROVE  /\ Agree(m, j, t + 1, d2)
         /\ SameQuotes(m, j, t) => SameQuotes(m, j, t + 1)
BY ExpiryType, CookieJarAssumption DEF Agree, SameQuotes, LiveAt, Within

LEMMA AgreePruned ==
  ASSUME NEW m \in Entry \union {NoEntry}, NEW j \in Entry \union {NoEntry},
         NEW t \in Nat, NEW d \in Nat, Agree(m, j, t, d), ~LiveAt(m, t)
  PROVE  Agree(NoEntry, j, t, d) /\ SameQuotes(NoEntry, j, t)
BY ExpiryType, CookieJarAssumption DEF Agree, SameQuotes, LiveAt, Within

-----------------------------------------------------------------------------
(* Types. *)

LEMMA ConsiderTypes ==
  ASSUME TypeOK, NEW c \in Calls, NEW cookie \in Cookie,
         JarKey(target[c], cookie) \in Keys, Consider(c, cookie)
  PROVE  /\ mirror' \in Memory /\ contested' \subseteq Keys
         /\ given' \in [Calls -> [Keys -> Cookie \union {NoEntry}]]
<1>1. Remembered(cookie) \in Entry \union {NoEntry}
  BY EntryType DEF TypeOK
<1>2. Key(target[c], cookie) \in Keys
  BY SameKey DEF Consider
<1>3. mirror' \in Memory
  BY <1>1, <1>2 DEF TypeOK, Memory, Consider
<1>4. given' \in [Calls -> [Keys -> Cookie \union {NoEntry}]]
  BY DEF TypeOK, Consider
<1>5. contested' \subseteq Keys
  BY DEF TypeOK, Consider
<1> QED BY <1>3, <1>4, <1>5

LEMMA TypeStep ==
  ASSUME TypeOK, ImportInv, [Next]_vars
  PROVE  TypeOK'
<1> USE DEF TypeOK, content, working, history
<1>1. ASSUME NEW c \in Calls, Respond(c)
      PROVE  TypeOK'
  BY <1>1 DEF Respond, Start
<1>2. ASSUME NEW c \in Calls, Receive(c)
      PROVE  TypeOK'
  <2>1. PICK cookie \in Offered : Consider(c, cookie) /\ UNCHANGED todo
    BY <1>2 DEF Receive
  <2>2. cookie \in Cookie /\ JarKey(target[c], cookie) \in Keys
    BY <2>1, OfferedKey, CookieJarAssumption DEF Consider
  <2>3. /\ mirror' \in Memory /\ contested' \subseteq Keys
        /\ given' \in [Calls -> [Keys -> Cookie \union {NoEntry}]]
    BY <2>1, <2>2, ConsiderTypes
  <2> QED BY <2>1, <2>3 DEF Consider
<1>3. ASSUME NEW c \in Calls, StoreInJar(c)
      PROVE  TypeOK'
  <2>1. \A k \in Keys : given[c][k] # NoEntry
                          => JarEntry(given[c][k]) \in Entry \union {NoEntry}
    BY EntryType
  <2>2. jar' \in Memory
    BY <1>3, <2>1 DEF StoreInJar, Memory
  <2>3. Empty \in [Keys -> Cookie \union {NoEntry}] /\ Root \in Targets
    BY CookieJarAssumption DEF Empty
  <2> QED BY <1>3, <2>2, <2>3 DEF StoreInJar
<1>4. ASSUME NEW c \in Calls, LoadCookies(c)
      PROVE  TypeOK'
  <2>1. \A k \in Keys : Live(file.cookies[k]) => file.cookies[k] \in Entry
    BY <1>4 DEF LoadCookies, Session, Memory, Live, LiveAt
  <2>2. todo' \in [Calls -> SUBSET Cookie]
    BY <1>4, <2>1, StoredKey DEF LoadCookies
  <2>3. Root \in Targets BY CookieJarAssumption
  <2> QED BY <1>4, <2>2, <2>3 DEF LoadCookies, Start
<1>5. ASSUME NEW c \in Calls, ImportNext(c)
      PROVE  TypeOK'
  <2>1. PICK cookie \in todo[c] :
          /\ Consider(c, cookie)
          /\ todo' = [todo EXCEPT ![c] = @ \ {cookie}]
    BY <1>5 DEF ImportNext
  <2>2. cookie \in Cookie /\ JarKey(target[c], cookie) \in Keys
    BY <1>5, <2>1 DEF ImportNext, ImportInv
  <2>3. /\ mirror' \in Memory /\ contested' \subseteq Keys
        /\ given' \in [Calls -> [Keys -> Cookie \union {NoEntry}]]
    BY <2>1, <2>2, ConsiderTypes
  <2> QED BY <2>1, <2>3 DEF Consider
<1>6. CASE Snapshot
  <2>1. Pruned \in Memory BY DEF Pruned, Memory
  <2> QED BY <1>6, <2>1 DEF Snapshot
<1>7. CASE SaveSession
  <2>0. \A k \in Keys : Live(taken[k]) => taken[k] \in Entry
    BY <1>7 DEF SaveSession, Memory, Live, LiveAt
  <2>1. \A k \in Keys : Live(taken[k]) => CookieFromHTTP(taken[k]) \in Entry
    BY <2>0 DEF CookieFromHTTP, Entry
  <2>2. file' \in Session
    BY <1>7, <2>1 DEF SaveSession, Session, Memory
  <2> QED BY <1>7, <2>2 DEF SaveSession, Saved
<1>8. CASE SaveFails BY <1>8 DEF SaveFails, Saved
<1>9. CASE LoadExpired BY <1>9 DEF LoadExpired
<1>10. CASE Restart
  BY <1>10, CookieJarAssumption DEF Restart, Memory, Empty
<1>11. CASE Tick BY <1>11 DEF Tick
<1>12. CASE UNCHANGED vars BY <1>12 DEF vars
<1> QED BY <1>1, <1>2, <1>3, <1>4, <1>5, <1>6, <1>7, <1>8, <1>9, <1>10, <1>11,
           <1>12 DEF Next

-----------------------------------------------------------------------------
(* The calls. *)

LEMMA CallConsider ==
  ASSUME TypeOK, CallInv, NEW c \in Calls, ~At(c, "idle"), NEW cookie,
         JarKey(target[c], cookie) \in Keys, Consider(c, cookie)
  PROVE  CallInv'
<1> DEFINE key == JarKey(target[c], cookie)
<1>1. /\ given' = [given EXCEPT ![c][key] = cookie] /\ pc' = pc
      /\ contested \subseteq contested'
      /\ key \notin contested' => \A d \in Calls \ {c} : given[d][key] = NoEntry
  BY DEF Consider
<1>2. \A b \in Calls, k \in Keys :
        given'[b][k] = IF b = c /\ k = key THEN cookie ELSE given[b][k]
  BY <1>1 DEF TypeOK
<1>3. \A b \in Calls : b # c => given'[b] = given[b]
  BY <1>1 DEF TypeOK
<1> HIDE DEF key
<1>4. \A k \in Keys \ contested', b, d \in Calls :
        given'[b][k] # NoEntry /\ given'[d][k] # NoEntry => b = d
  BY <1>1, <1>2 DEF CallInv
<1> QED BY <1>1, <1>3, <1>4 DEF CallInv

LEMMA CallStep ==
  ASSUME TypeOK, CallInv, ImportInv, [Next]_vars
  PROVE  CallInv'
<1> USE DEF CallInv, working, history
<1>1. ASSUME NEW c \in Calls, NEW step \in {"respond", "import"}, NEW path,
             Start(c, step, path)
      PROVE  CallInv'
  <2>1. pc' = [pc EXCEPT ![c] = step] /\ UNCHANGED <<given, contested>>
    BY <1>1 DEF Start, content
  <2> QED BY <2>1 DEF TypeOK
<1>2. ASSUME NEW c \in Calls, StoreInJar(c)
      PROVE  CallInv'
  <2>1. /\ given' = [given EXCEPT ![c] = Empty] /\ contested' = contested
        /\ pc' = [pc EXCEPT ![c] = "idle"]
    BY <1>2 DEF StoreInJar
  <2>2. \A b \in Calls : given'[b] = IF b = c THEN Empty ELSE given[b]
    BY <2>1 DEF TypeOK
  <2>3. \A k \in Keys : Empty[k] = NoEntry
    BY DEF Empty
  <2> QED BY <2>1, <2>2, <2>3 DEF TypeOK
<1>3. CASE Restart BY <1>3 DEF Restart, Empty
<1>4. CASE \/ Snapshot \/ SaveSession \/ SaveFails \/ LoadExpired \/ Tick
           \/ UNCHANGED vars
  BY <1>4 DEF Snapshot, SaveSession, SaveFails, LoadExpired, Tick, vars
<1>5. ASSUME NEW c \in Calls, Respond(c) \/ LoadCookies(c)
      PROVE  CallInv'
  BY <1>1, <1>5 DEF Respond, LoadCookies
<1>6. ASSUME NEW c \in Calls, Receive(c)
      PROVE  CallInv'
  <2>1. PICK cookie \in Offered : Consider(c, cookie) /\ At(c, "respond")
    BY <1>6 DEF Receive
  <2>2. JarKey(target[c], cookie) \in Keys
    BY <2>1, OfferedKey DEF Consider, TypeOK
  <2> QED BY <2>1, <2>2, CallConsider
<1>7. ASSUME NEW c \in Calls, ImportNext(c)
      PROVE  CallInv'
  <2>1. PICK cookie \in todo[c] : Consider(c, cookie) /\ At(c, "import")
    BY <1>7 DEF ImportNext
  <2>2. JarKey(target[c], cookie) \in Keys
    BY <2>1 DEF ImportInv
  <2> QED BY <2>1, <2>2, CallConsider
<1> QED BY <1>2, <1>3, <1>4, <1>5, <1>6, <1>7 DEF Next

LEMMA ImportStep ==
  ASSUME TypeOK, ImportInv, CallInv, [Next]_vars
  PROVE  ImportInv'
<1> USE DEF TypeOK, ImportInv, CallInv, working, history
<1>1. ASSUME NEW c \in Calls, Respond(c)
      PROVE  ImportInv'
  BY <1>1 DEF Respond, Start
<1>2. ASSUME NEW c \in Calls, LoadCookies(c)
      PROVE  ImportInv'
  <2>1. \A k \in Keys : Live(file.cookies[k]) => file.cookies[k] \in Entry
    BY <1>2 DEF LoadCookies, Session, Memory, Live, LiveAt
  <2>2. \A cookie \in todo'[c] : cookie.maxAge = 0 /\ JarKey(Root, cookie) \in Keys
    BY <1>2, <2>1, StoredKey DEF LoadCookies
  <2> QED BY <1>2, <2>2 DEF LoadCookies, Start
<1>3. ASSUME NEW c \in Calls, Receive(c)
      PROVE  ImportInv'
  BY <1>3 DEF Receive, Consider
<1>4. ASSUME NEW c \in Calls, ImportNext(c)
      PROVE  ImportInv'
  BY <1>4 DEF ImportNext, Consider
<1>5. ASSUME NEW c \in Calls, StoreInJar(c)
      PROVE  ImportInv'
  BY <1>5 DEF StoreInJar
<1>6. CASE Restart BY <1>6 DEF Restart
<1>7. CASE \/ Snapshot \/ SaveSession \/ SaveFails \/ LoadExpired \/ Tick
           \/ UNCHANGED vars
  BY <1>7 DEF Snapshot, SaveSession, SaveFails, LoadExpired, Tick, vars
<1> QED BY <1>1, <1>2, <1>3, <1>4, <1>5, <1>6, <1>7 DEF Next
-----------------------------------------------------------------------------
(* The mirror and the jar. *)

LEMMA MirrorConsider ==
  ASSUME TypeOK, CallInv, MirrorInv, NEW c \in Calls, ~At(c, "idle"),
         NEW cookie \in Cookie, JarKey(target[c], cookie) \in Keys,
         Consider(c, cookie)
  PROVE  MirrorInv'
<1> DEFINE key == JarKey(target[c], cookie)
<1>1. /\ mirror' = [mirror EXCEPT ![key] = Remembered(cookie)]
      /\ given' = [given EXCEPT ![c][key] = cookie]
      /\ UNCHANGED <<now, lag, jar>>
      /\ contested \subseteq contested'
      /\ key \notin contested' => \A d \in Calls \ {c} : given[d][key] = NoEntry
  BY SameKey DEF Consider
<1>2. cookie # NoEntry /\ Remembers(cookie, Remembered(cookie), now, lag)
  BY RemembersAtOnce, EntryType DEF TypeOK
<1>3. ASSUME NEW k \in Keys, k # key
      PROVE  mirror'[k] = mirror[k] /\ \A b \in Calls : given'[b][k] = given[b][k]
  BY <1>1, <1>3 DEF TypeOK, Memory
<1>4. /\ mirror'[key] = Remembered(cookie)
      /\ given'[c][key] = cookie
      /\ \A b \in Calls : b # c => given'[b][key] = given[b][key]
  BY <1>1 DEF TypeOK, Memory
<1> HIDE DEF key
<1> QED BY <1>1, <1>2, <1>3, <1>4 DEF MirrorInv

LEMMA MirrorStep ==
  ASSUME TypeOK, CallInv, MirrorInv, ImportInv, [Next]_vars
  PROVE  MirrorInv'
<1> USE DEF content, working, history
<1>1. ASSUME NEW c \in Calls, NEW step, NEW path, Start(c, step, path)
      PROVE  MirrorInv'
  BY <1>1 DEF Start, MirrorInv
<1>2. ASSUME NEW c \in Calls, Respond(c) \/ LoadCookies(c)
      PROVE  MirrorInv'
  BY <1>1, <1>2 DEF Respond, LoadCookies
<1>3. ASSUME NEW c \in Calls, Receive(c)
      PROVE  MirrorInv'
  <2>1. PICK cookie \in Offered : Consider(c, cookie) /\ At(c, "respond")
    BY <1>3 DEF Receive
  <2>2. cookie \in Cookie /\ JarKey(target[c], cookie) \in Keys
    BY <2>1, OfferedKey, CookieJarAssumption DEF Consider, TypeOK
  <2> QED BY <2>1, <2>2, MirrorConsider
<1>4. ASSUME NEW c \in Calls, ImportNext(c)
      PROVE  MirrorInv'
  <2>1. PICK cookie \in todo[c] : Consider(c, cookie) /\ At(c, "import")
    BY <1>4 DEF ImportNext
  <2>2. cookie \in Cookie /\ JarKey(target[c], cookie) \in Keys
    BY <2>1 DEF ImportInv, TypeOK
  <2> QED BY <2>1, <2>2, MirrorConsider
<1>5. ASSUME NEW c \in Calls, StoreInJar(c)
      PROVE  MirrorInv'
  <2>1. /\ given' = [given EXCEPT ![c] = Empty]
        /\ UNCHANGED <<mirror, now, lag, contested>>
        /\ \A k \in Keys : jar'[k] = IF given[c][k] = NoEntry THEN jar[k]
                                     ELSE JarEntry(given[c][k])
    BY <1>5 DEF StoreInJar
  <2>2. \A b \in Calls, k \in Keys :
          given'[b][k] = IF b = c THEN NoEntry ELSE given[b][k]
    BY <2>1 DEF TypeOK, Empty
  <2>3. \A k \in Keys \ contested : given[c][k] # NoEntry =>
          \A b \in Calls : given'[b][k] = NoEntry
    BY <2>2 DEF CallInv
  <2>4. ASSUME NEW k \in Keys \ contested, \A b \in Calls : given'[b][k] = NoEntry
        PROVE  Agree(mirror[k], jar'[k], now, lag) /\ SameQuotes(mirror[k], jar'[k], now)
    <3>1. CASE given[c][k] = NoEntry
      <4>1. \A b \in Calls : given[b][k] = NoEntry
        BY <2>2, <2>4, <3>1
      <4> QED BY <2>1, <2>4, <3>1, <4>1 DEF MirrorInv
    <3>2. CASE given[c][k] # NoEntry
      <4>1. given[c][k] \in Cookie /\ mirror[k] \in Entry \union {NoEntry}
        BY <3>2 DEF TypeOK, Memory
      <4>2. Remembers(given[c][k], mirror[k], now, lag)
        BY <2>4, <3>2 DEF MirrorInv
      <4> QED BY <2>1, <3>2, <4>1, <4>2, JarCatchesUp DEF TypeOK
    <3> QED BY <3>1, <3>2
  <2>5. ASSUME NEW k \in Keys \ contested, NEW b \in Calls, given'[b][k] # NoEntry
        PROVE  Remembers(given'[b][k], mirror[k], now, lag)
    BY <2>2, <2>5 DEF MirrorInv
  <2> QED BY <2>1, <2>4, <2>5 DEF MirrorInv
<1>6. CASE Snapshot
  <2>1. /\ \A k \in Keys : mirror'[k] = IF LiveAt(mirror[k], now)
                                       THEN mirror[k] ELSE NoEntry
        /\ UNCHANGED <<now, lag, jar, given, contested>>
    BY <1>6 DEF Snapshot, Pruned, Live
  <2>2. \A k \in Keys : /\ mirror[k] \in Entry \union {NoEntry}
                        /\ jar[k] \in Entry \union {NoEntry}
                        /\ \A c \in Calls : given[c][k] \in Cookie \union {NoEntry}
    BY DEF TypeOK, Memory
  <2>3. now \in Nat /\ lag \in Nat BY DEF TypeOK
  <2> QED BY <2>1, <2>2, <2>3, AgreePruned, RemembersLater DEF MirrorInv
<1>7. CASE Tick
  <2>1. /\ now' = now + 1
        /\ UNCHANGED <<mirror, jar, given, contested>>
        /\ lag' \in {lag, lag + 1}
        /\ Setting # {} => lag' = lag + 1
    BY <1>7 DEF Tick
  <2>2. \A k \in Keys : /\ mirror[k] \in Entry \union {NoEntry}
                        /\ jar[k] \in Entry \union {NoEntry}
                        /\ \A c \in Calls : given[c][k] \in Cookie \union {NoEntry}
    BY DEF TypeOK, Memory
  <2>3. now \in Nat /\ lag \in Nat BY DEF TypeOK
  <2>4. \A c \in Calls, k \in Keys : given[c][k] # NoEntry => Setting # {}
    BY DEF CallInv, Setting, Empty
  <2>5. ASSUME NEW k \in Keys \ contested, \A c \in Calls : given[c][k] = NoEntry
        PROVE  Agree(mirror[k], jar[k], now', lag') /\ SameQuotes(mirror[k], jar[k], now')
    BY <2>1, <2>2, <2>3, <2>5, AgreeLater DEF MirrorInv
  <2>6. ASSUME NEW k \in Keys \ contested, NEW c \in Calls, given[c][k] # NoEntry
        PROVE  Remembers(given[c][k], mirror[k], now', lag')
    BY <2>1, <2>2, <2>3, <2>4, <2>6, RemembersLater DEF MirrorInv
  <2> QED BY <2>1, <2>5, <2>6 DEF MirrorInv
<1>8. CASE Restart
  BY <1>8 DEF Restart, MirrorInv, Empty, Agree, SameQuotes, LiveAt
<1>9. CASE SaveSession \/ SaveFails \/ LoadExpired \/ UNCHANGED vars
  BY <1>9 DEF SaveSession, SaveFails, LoadExpired, vars, MirrorInv
<1> QED BY <1>2, <1>3, <1>4, <1>5, <1>6, <1>7, <1>8, <1>9 DEF Next
-----------------------------------------------------------------------------
(* The snapshot and the file. *)

LEMMA AgreeStored ==
  ASSUME NEW m \in Entry, NEW j, NEW t, NEW d, Agree(m, j, t, d)
  PROVE  Agree(CookieFromHTTP(m), j, t, d)
<1>1. /\ m # NoEntry /\ CookieFromHTTP(m) # NoEntry
      /\ CookieFromHTTP(m).value = m.value
      /\ CookieFromHTTP(m).expires = m.expires
  <2>1. CookieFromHTTP(m) \in Entry BY DEF CookieFromHTTP, Entry
  <2> QED BY <2>1, CookieJarAssumption DEF CookieFromHTTP, Entry
<1> QED BY <1>1 DEF Agree, LiveAt

LEMMA ShelfStep ==
  ASSUME TypeOK, CallInv, MirrorInv, ShelfInv, [Next]_vars
  PROVE  ShelfInv'
<1> USE DEF content, working, history
<1>1. CASE Snapshot
  <2>1. ASSUME wares' # NoFile, NEW k \in Keys
        PROVE  Agree(Pruned[k], jar[k], now, lag)
    <3>1. k \notin contested /\ \A c \in Calls : given[c][k] = NoEntry
      BY <1>1, <2>1 DEF Snapshot, CallInv, Setting, Empty
    <3>2. Agree(mirror[k], jar[k], now, lag)
      BY <3>1 DEF MirrorInv
    <3>3. /\ mirror[k] \in Entry \union {NoEntry} /\ jar[k] \in Entry \union {NoEntry}
          /\ now \in Nat /\ lag \in Nat
      BY DEF TypeOK, Memory
    <3> QED BY <3>2, <3>3, AgreePruned DEF Pruned, Live
  <2> QED BY <1>1, <2>1 DEF Snapshot, ShelfInv
<1>2. CASE SaveSession
  <2>1. ASSUME wares # NoFile, NEW k \in Keys
        PROVE  Agree(file'.cookies[k], wares[k], now, lag)
    <3>1. Agree(taken[k], wares[k], now, lag)
      BY <1>2, <2>1 DEF SaveSession, ShelfInv
    <3>2. /\ taken[k] \in Entry \union {NoEntry} /\ wares[k] \in Entry \union {NoEntry}
          /\ now \in Nat /\ lag \in Nat
      BY <1>2, <2>1 DEF SaveSession, TypeOK, Memory
    <3>3. file'.cookies[k] = IF LiveAt(taken[k], now) THEN CookieFromHTTP(taken[k])
                                                     ELSE NoEntry
      BY <1>2 DEF SaveSession, Live
    <3>4. CASE LiveAt(taken[k], now)
      BY <3>1, <3>2, <3>3, <3>4, AgreeStored DEF LiveAt
    <3>5. CASE ~LiveAt(taken[k], now)
      BY <3>1, <3>2, <3>3, <3>5, AgreePruned
    <3> QED BY <3>4, <3>5
  <2> QED BY <1>2, <2>1 DEF SaveSession, Saved, ShelfInv
<1>3. CASE Tick
  <2>1. /\ now' = now + 1
        /\ UNCHANGED <<taken, wares, file, shelf>>
        /\ lag' \in {lag, lag + 1}
    BY <1>3 DEF Tick
  <2>2. now \in Nat /\ lag \in Nat BY DEF TypeOK
  <2>3. /\ taken # NoFile => taken \in Memory
        /\ wares # NoFile => wares \in Memory
        /\ file # NoFile => file.cookies \in Memory
        /\ shelf # NoFile => shelf \in Memory
    BY DEF TypeOK, Session
  <2> QED BY <2>1, <2>2, <2>3, AgreeLater DEF ShelfInv, Memory
<1>4. CASE SaveFails \/ LoadExpired \/ Restart \/ UNCHANGED vars
  BY <1>4 DEF SaveFails, Saved, LoadExpired, Restart, vars, ShelfInv
<1>5. ASSUME NEW c \in Calls, NEW step, NEW path, Start(c, step, path)
      PROVE  ShelfInv'
  BY <1>5 DEF Start, ShelfInv
<1>6. ASSUME NEW c \in Calls, NEW cookie, Consider(c, cookie)
      PROVE  ShelfInv'
  BY <1>6 DEF Consider, ShelfInv
<1>7. ASSUME NEW c \in Calls, StoreInJar(c)
      PROVE  ShelfInv'
  BY <1>7 DEF StoreInJar, ShelfInv
<1>8. ASSUME NEW c \in Calls,
             Respond(c) \/ Receive(c) \/ LoadCookies(c) \/ ImportNext(c)
      PROVE  ShelfInv'
  BY <1>5, <1>6, <1>8 DEF Respond, Receive, LoadCookies, ImportNext
<1> QED BY <1>1, <1>2, <1>3, <1>4, <1>7, <1>8 DEF Next

-----------------------------------------------------------------------------
(* The restore. *)

\* What agrees with an entry that lives beyond the delay lives.
LEMMA LiveBoth ==
  ASSUME NEW m \in Entry \union {NoEntry}, NEW j \in Entry \union {NoEntry},
         NEW t \in Nat, NEW d \in Nat, Agree(m, j, t, d), LiveAt(j, t + d)
  PROVE  LiveAt(m, t)
BY ExpiryType, CookieJarAssumption DEF Agree, LiveAt, Within

\* The jar keeps a restored cookie as it was stored, unless it has expired.
LEMMA RestoredEntry ==
  ASSUME NEW cookie \in Cookie, cookie.maxAge = 0, now \in Nat
  PROVE  JarEntry(cookie) = IF LiveAt(Restored(cookie), now)
                            THEN Restored(cookie) ELSE NoEntry
<1>1. cookie.expires \in Nat \union {Forever} BY DEF Cookie, Expiry
<1>2. Restored(cookie) # NoEntry /\ Restored(cookie).expires = cookie.expires
  BY EntryType, CookieJarAssumption DEF Restored, Kept
<1> QED BY <1>1, <1>2, CookieJarAssumption DEF JarEntry, Restored, LiveAt

\* A process that starts to restore has everything before it.
LEMMA RestoreBegins ==
  ASSUME TypeOK, CallInv, ShelfInv, NEW c \in Calls, LoadCookies(c),
         shelf # NoFile
  PROVE  RestoreInv(c)'
<1> DEFINE live == {k \in Keys : Live(file.cookies[k])}
<1>1. /\ todo'[c] = {CookieToHTTP(k, file.cookies[k]) : k \in live}
      /\ given'[c] = Empty
      /\ UNCHANGED <<now, lag, shelf, file>>
      /\ file # NoFile
  BY DEF LoadCookies, Start, TypeOK, CallInv
<1>2. \A k \in Keys : /\ file.cookies[k] \in Entry \union {NoEntry}
                      /\ shelf[k] \in Entry \union {NoEntry}
                      /\ Agree(file.cookies[k], shelf[k], now, lag)
  BY <1>1 DEF TypeOK, ShelfInv, Session, Memory
<1>3. \A k \in live : /\ JarKey(Root, CookieToHTTP(k, file.cookies[k])) = k
                      /\ Restored(CookieToHTTP(k, file.cookies[k]))
                           = file.cookies[k]
  BY <1>2, StoredKey DEF Live, LiveAt
<1>4. \A k \in Keys : LiveAt(shelf[k], now + lag) => k \in live
  BY <1>2, LiveBoth DEF TypeOK, Live
<1>5. ASSUME NEW k \in Keys
      PROVE  /\ \A cookie \in todo'[c] : JarKey(Root, cookie) = k
                  => Agree(Restored(cookie), shelf[k], now, lag)
             /\ LiveAt(shelf[k], now + lag)
                  => \E cookie \in todo'[c] : JarKey(Root, cookie) = k
  BY <1>1, <1>2, <1>3, <1>4
<1> QED BY <1>1, <1>5 DEF RestoreInv, Empty
LEMMA RestoreGoesOn ==
  ASSUME TypeOK, ImportInv, NEW c \in Calls, ImportNext(c), RestoreInv(c)
  PROVE  RestoreInv(c)'
<1>1. PICK cookie \in todo[c] :
        /\ At(c, "import")
        /\ Consider(c, cookie)
        /\ todo' = [todo EXCEPT ![c] = @ \ {cookie}]
  BY DEF ImportNext
<1> DEFINE key == JarKey(Root, cookie)
<1>2. key \in Keys /\ cookie.maxAge = 0 /\ cookie # NoEntry
  BY <1>1, EntryType DEF ImportInv, TypeOK
<1>3. /\ todo'[c] = todo[c] \ {cookie}
      /\ \A k \in Keys : given'[c][k] = IF k = key THEN cookie ELSE given[c][k]
      /\ UNCHANGED <<now, lag, shelf>>
  BY <1>1, <1>2 DEF Consider, ImportInv, TypeOK, history
<1>4. Agree(Restored(cookie), shelf[key], now, lag)
  BY <1>1, <1>2 DEF RestoreInv
<1> HIDE DEF key
<1>5. ASSUME NEW k \in Keys, k # key
      PROVE  LiveAt(shelf[k], now + lag) =>
               \/ given'[c][k] # NoEntry
               \/ \E other \in todo'[c] : JarKey(Root, other) = k
  BY <1>3, <1>5 DEF RestoreInv, key
<1> QED BY <1>2, <1>3, <1>4, <1>5 DEF RestoreInv

LEMMA RestoreEnds ==
  ASSUME TypeOK, NEW c \in Calls, StoreInJar(c), At(c, "import"), jar = Empty,
         RestoreInv(c), shelf # NoFile, NEW k \in Keys
  PROVE  Agree(jar'[k], shelf[k], now, lag)
<1>1. /\ todo[c] = {}
      /\ jar'[k] = IF given[c][k] = NoEntry THEN NoEntry
                                            ELSE JarEntry(given[c][k])
  BY DEF StoreInJar, Empty
<1>2. shelf[k] \in Entry \union {NoEntry} /\ now \in Nat /\ lag \in Nat
  BY DEF TypeOK, Memory
<1>3. CASE given[c][k] = NoEntry
  BY <1>1, <1>3 DEF RestoreInv, Agree, LiveAt
<1>4. CASE given[c][k] # NoEntry
  <2>1. /\ given[c][k] \in Cookie /\ given[c][k].maxAge = 0
        /\ Agree(Restored(given[c][k]), shelf[k], now, lag)
    BY <1>4 DEF RestoreInv, TypeOK
  <2>2. Restored(given[c][k]) \in Entry
    BY <2>1, EntryType DEF TypeOK
  <2> QED BY <1>1, <1>2, <1>4, <2>1, <2>2, RestoredEntry, AgreePruned
<1> QED BY <1>3, <1>4

LEMMA RestoreLater ==
  ASSUME TypeOK, Tick, NEW c \in Calls, RestoreInv(c), shelf # NoFile
  PROVE  RestoreInv(c)'
<1>1. /\ now' = now + 1 /\ lag' \in {lag, lag + 1} /\ now \in Nat /\ lag \in Nat
      /\ UNCHANGED <<todo, given, shelf>>
  BY DEF Tick, TypeOK, working
<1>2. ASSUME NEW k \in Keys
      PROVE  LiveAt(shelf[k], now' + lag') => LiveAt(shelf[k], now + lag)
  <2>1. shelf[k] \in Entry \union {NoEntry} BY DEF TypeOK, Memory
  <2> QED BY <1>1, <2>1, ExpiryType, CookieJarAssumption DEF LiveAt
<1>3. ASSUME NEW k \in Keys, NEW cookie \in Cookie,
             Agree(Restored(cookie), shelf[k], now, lag)
      PROVE  Agree(Restored(cookie), shelf[k], now', lag')
  <2>1. /\ Restored(cookie) \in Entry \union {NoEntry}
        /\ shelf[k] \in Entry \union {NoEntry}
    BY EntryType DEF TypeOK, Memory
  <2> QED BY <1>1, <1>3, <2>1, AgreeLater
<1>4. /\ todo[c] \subseteq Cookie
      /\ \A k \in Keys : given[c][k] \in Cookie \union {NoEntry}
  BY DEF TypeOK
<1> QED BY <1>1, <1>2, <1>3, <1>4 DEF RestoreInv

LEMMA PhaseStep ==
  ASSUME TypeOK, CallInv, ImportInv, ShelfInv, PhaseInv, [Next]_vars
  PROVE  PhaseInv'
<1> USE DEF content, working, history
<1>1. ASSUME NEW c \in Calls, Respond(c)
      PROVE  PhaseInv'
  BY <1>1 DEF Respond, PhaseInv
<1>2. ASSUME NEW c \in Calls, LoadCookies(c)
      PROVE  PhaseInv'
  <2>1. CASE phase = "fresh"
    <3>1. /\ phase' = "restoring" /\ jar' = Empty
          /\ shelf' = shelf
          /\ Setting' = {c} /\ pc'[c] = "import"
      BY <1>2, <2>1 DEF LoadCookies, Start, PhaseInv, Setting, TypeOK
    <3>2. shelf # NoFile => RestoreInv(c)'
      BY <1>2, RestoreBegins
    <3> QED BY <3>1, <3>2 DEF PhaseInv
  <2>2. CASE phase # "fresh"
    BY <1>2, <2>2 DEF LoadCookies, PhaseInv
  <2> QED BY <2>1, <2>2
<1>3. ASSUME NEW c \in Calls, Receive(c)
      PROVE  PhaseInv'
  <2>1. phase = "mixed" BY <1>3 DEF Receive, PhaseInv, Setting, TypeOK
  <2> QED BY <1>3, <2>1 DEF Receive, Consider, PhaseInv
<1>4. ASSUME NEW c \in Calls, ImportNext(c)
      PROVE  PhaseInv'
  <2>1. /\ phase \in {"restoring", "mixed"}
        /\ phase = "restoring" => Setting = {c}
    BY <1>4 DEF ImportNext, PhaseInv, CallInv, Setting, TypeOK
  <2>2. UNCHANGED <<phase, jar, pc, shelf>> /\ Setting' = Setting
    BY <1>4 DEF ImportNext, Consider, Setting
  <2>3. phase = "restoring" /\ shelf # NoFile => RestoreInv(c)'
    BY <1>4, <2>1, RestoreGoesOn DEF PhaseInv
  <2> QED BY <2>1, <2>2, <2>3 DEF PhaseInv
<1>5. ASSUME NEW c \in Calls, StoreInJar(c)
      PROVE  PhaseInv'
  <2>1. /\ phase \in {"restoring", "mixed"}
        /\ phase = "restoring" => Setting = {c}
    BY <1>5 DEF StoreInJar, PhaseInv, CallInv, Setting, TypeOK
  <2>2. CASE phase = "restoring"
    <3>1. /\ phase' = "restored" /\ Setting' = {}
          /\ UNCHANGED <<now, lag, shelf>>
      BY <1>5, <2>1, <2>2 DEF StoreInJar, Setting, TypeOK
    <3>2. shelf # NoFile => \A k \in Keys : Agree(jar'[k], shelf[k], now, lag)
      BY <1>5, <2>1, <2>2, RestoreEnds DEF PhaseInv
    <3> QED BY <3>1, <3>2 DEF PhaseInv
  <2>3. CASE phase = "mixed" BY <1>5, <2>3 DEF StoreInJar, PhaseInv
  <2> QED BY <2>1, <2>2, <2>3
<1>6. CASE Tick
  <2>1. /\ now' = now + 1 /\ lag' \in {lag, lag + 1} /\ now \in Nat /\ lag \in Nat
        /\ UNCHANGED <<phase, jar, pc, shelf>> /\ Setting' = Setting
    BY <1>6 DEF Tick, TypeOK, Setting
  <2>2. phase = "restoring" /\ shelf # NoFile
          => \A c \in Setting : RestoreInv(c)'
    BY <1>6, RestoreLater DEF PhaseInv, Setting
  <2>3. ASSUME phase = "restored", shelf # NoFile, NEW k \in Keys
        PROVE  Agree(jar[k], shelf[k], now', lag')
    <3>1. jar[k] \in Entry \union {NoEntry} /\ shelf[k] \in Entry \union {NoEntry}
      BY <2>3 DEF TypeOK, Memory
    <3> QED BY <2>1, <2>3, <3>1, AgreeLater DEF PhaseInv
  <2> QED BY <2>1, <2>2, <2>3 DEF PhaseInv
<1>7. CASE Snapshot \/ SaveFails \/ UNCHANGED vars
  BY <1>7 DEF Snapshot, SaveFails, vars, PhaseInv, RestoreInv, Setting
<1>8. CASE SaveSession \/ LoadExpired
  BY <1>8 DEF SaveSession, LoadExpired, PhaseInv, Setting
<1>9. CASE Restart BY <1>9 DEF Restart, PhaseInv, Setting
<1> QED BY <1>1, <1>2, <1>3, <1>4, <1>5, <1>6, <1>7, <1>8, <1>9 DEF Next

-----------------------------------------------------------------------------
(* The theorems. *)

LEMMA InitInv == Init => IInv
<1> SUFFICES ASSUME Init PROVE IInv OBVIOUS
<1> USE DEF Init, Empty
<1>1. TypeOK BY CookieJarAssumption DEF TypeOK, Memory
<1>2. CallInv /\ ImportInv BY DEF CallInv, Setting, ImportInv
<1>3. MirrorInv BY DEF MirrorInv, Agree, SameQuotes, LiveAt
<1>4. ShelfInv /\ PhaseInv BY DEF ShelfInv, PhaseInv, Setting
<1> QED BY <1>1, <1>2, <1>3, <1>4 DEF IInv

\* The strengthened invariant holds in every behaviour.
THEOREM InvariantHolds == Spec => []IInv
<1>1. Init => IInv BY InitInv
<1>2. IInv /\ [Next]_vars => IInv'
  BY TypeStep, CallStep, ImportStep, MirrorStep, ShelfStep, PhaseStep DEF IInv
<1> QED BY <1>1, <1>2, PTL DEF Spec

\* A snapshot is, key by key, what the next request would send or what a call
\* under way is about to give to the jar, unless two calls had the key at a time:
\* about the mirror that remember keeps beside the library's jar.
THEOREM MirrorIsTheJar == Spec => []SnapshotAgrees
<1>1. ASSUME IInv PROVE SnapshotAgrees
  <2>1. \A k \in Keys : /\ mirror[k] \in Entry \union {NoEntry}
                        /\ jar[k] \in Entry \union {NoEntry}
                        /\ \A c \in Calls : given[c][k] \in Cookie \union {NoEntry}
    BY <1>1 DEF IInv, TypeOK, Memory
  <2>2. now \in Nat /\ lag \in Nat BY <1>1 DEF IInv, TypeOK
  <2>3. ASSUME NEW k \in Keys \ contested, \A c \in Calls : given[c][k] = NoEntry
        PROVE  /\ Live(mirror[k]) => /\ Live(jar[k])
                                     /\ mirror[k].value = jar[k].value
                                     /\ mirror[k].quoted = jar[k].quoted
               /\ LiveAt(jar[k], now + lag) => Live(mirror[k])
    <3>1. Agree(mirror[k], jar[k], now, lag) /\ SameQuotes(mirror[k], jar[k], now)
      BY <1>1, <2>3 DEF IInv, MirrorInv
    <3>2. LiveAt(jar[k], now + lag) => Live(mirror[k])
      BY <2>1, <2>2, <3>1, LiveBoth DEF Live
    <3>3. Live(mirror[k]) => /\ Live(jar[k])
                             /\ mirror[k].value = jar[k].value
                             /\ mirror[k].quoted = jar[k].quoted
      BY <2>1, <2>2, <3>1, ExpiryType, CookieJarAssumption
         DEF Agree, SameQuotes, LiveAt, Live, Within
    <3> QED BY <3>2, <3>3
  <2>4. ASSUME NEW k \in Keys \ contested, NEW c \in Calls, given[c][k] # NoEntry,
               Live(mirror[k])
        PROVE  /\ given[c][k].maxAge >= 0
               /\ mirror[k].value = given[c][k].value
               /\ mirror[k].quoted = given[c][k].quoted
    <3>1. Remembers(given[c][k], mirror[k], now, lag)
      BY <1>1, <2>4 DEF IInv, MirrorInv
    <3>2. given[c][k].maxAge \in Int
      BY <2>1, <2>4 DEF Cookie
    <3> QED BY <2>4, <3>1, <3>2 DEF Remembers, Live, LiveAt
  <2> QED BY <2>3, <2>4 DEF SnapshotAgrees
<1> QED BY <1>1, InvariantHolds, PTL

\* A process that has only restored the session sends what the saving process
\* would still send: about SaveCookieSnapshot and LoadCookieSnapshot.
THEOREM RestoreIsFaithful == Spec => []RestoredAsSaved
<1>1. ASSUME IInv PROVE RestoredAsSaved
  <2>1. ASSUME phase = "restored", shelf # NoFile, NEW k \in Keys
        PROVE  /\ Live(jar[k]) => Live(shelf[k]) /\ jar[k].value = shelf[k].value
               /\ LiveAt(shelf[k], now + lag) => Live(jar[k])
    <3>1. Agree(jar[k], shelf[k], now, lag)
      BY <1>1, <2>1 DEF IInv, PhaseInv
    <3>2. /\ jar[k] \in Entry \union {NoEntry} /\ shelf[k] \in Entry \union {NoEntry}
          /\ now \in Nat /\ lag \in Nat
      BY <1>1, <2>1 DEF IInv, TypeOK, Memory
    <3>3. LiveAt(shelf[k], now + lag) => Live(jar[k])
      BY <3>1, <3>2, LiveBoth DEF Live
    <3>4. Live(jar[k]) => Live(shelf[k]) /\ jar[k].value = shelf[k].value
      BY <3>1, <3>2, ExpiryType, CookieJarAssumption
         DEF Agree, LiveAt, Live, Within
    <3> QED BY <3>3, <3>4
  <2> QED BY <2>1 DEF RestoredAsSaved
<1> QED BY <1>1, InvariantHolds, PTL
=============================================================================
