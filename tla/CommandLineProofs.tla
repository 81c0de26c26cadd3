------------------------ MODULE CommandLineProofs ------------------------
(***************************************************************************)
(* The properties of CommandLine for any invocations, directories and      *)
(* metadata, and for any number of exchanges, changes and kills.           *)
(***************************************************************************)
EXTENDS CommandLine, TLAPS

USE DEF Checked, Opening, Pinned, Locked

(***************************************************************************)
(* CheckRoot against the reference.                                        *)
(***************************************************************************)

\* A directory that passes is private: the mode bits stand for every entry of
\* the list that the check lets through.
THEOREM CheckRootIsSound ==
  ASSUME NEW os \in Platforms, NEW m \in Metadata,
         ModeFollowsAcl(os, m), CheckRoot(os, m)
  PROVE  Private(os, m)
<1>1. m.mine = TRUE /\ m.groupWrite = FALSE /\ m.otherWrite = FALSE
  BY DEF CheckRoot, ModeIsSafe, Metadata
<1>2. CASE os = "other"
  BY <1>2 DEF CheckRoot, FirstInspection
<1>3. CASE os = "darwin"
  <2>1. m.access = << >>
    BY <1>3 DEF CheckRoot, FirstInspection, SecondInspection
  <2> QED BY <1>1, <1>3, <2>1
          DEF Private, GroupMayWrite, OthersMayWrite, NamedMayEnter, Tagged
<1>4. CASE os = "linux"
  <2>1. m.default = << >>
    BY <1>4 DEF CheckRoot, FirstInspection
  <2>2. CASE m.access = << >>
    BY <1>1, <1>4, <2>1, <2>2
       DEF Private, GroupMayWrite, OthersMayWrite, NamedMayEnter, Tagged
  <2>3. CASE m.access # << >>
    <3>1. AccessACLEquivalentToMode(m.access)
      BY <1>4, <2>3 DEF CheckRoot, FirstInspection, SecondInspection
    <3>2. ~Grants(m.access, "other")
      BY <1>1, <1>4, <2>3 DEF ModeFollowsAcl
    <3>3. ~(Grants(m.access, "groupObject") /\ Unmasked(m))
      BY <1>1, <1>4, <2>3 DEF ModeFollowsAcl, Unmasked
    <3> QED BY <1>1, <1>4, <2>1, <2>3, <3>1, <3>2, <3>3
            DEF Private, GroupMayWrite, OthersMayWrite, NamedMayEnter,
                AccessACLEquivalentToMode
  <2> QED BY <2>2, <2>3
<1> QED BY <1>2, <1>3, <1>4 DEF Platforms

\* chmod leaves the mode and the list in step.
LEMMA TightenedIsMetadata ==
  ASSUME NEW os \in Platforms, NEW m \in Metadata
  PROVE  /\ Tightened(os, m) \in Metadata
         /\ ModeFollowsAcl(os, Tightened(os, m))
<1> DEFINE changed(entry) == \/ entry.tag \in {"mask", "other"}
                             \/ entry.tag = "groupObject" /\ Tagged(m.access, "mask") = {}
           entries == [i \in DOMAIN m.access |->
                         IF changed(m.access[i]) THEN [m.access[i] EXCEPT !.write = FALSE]
                         ELSE m.access[i]]
           t == Tightened(os, m)
<1>1. m.access \in Seq(Entry)
  BY DEF Metadata
<1>2. \A i \in DOMAIN m.access : m.access[i] \in Entry
  BY <1>1
<1>3. PICK n \in Nat : DOMAIN m.access = 1..n
  BY <1>1
<1>4. \A i \in DOMAIN m.access : /\ entries[i] \in Entry
                                 /\ entries[i].tag = m.access[i].tag
                                 /\ changed(m.access[i]) => entries[i].write = FALSE
  BY <1>2 DEF Entry
<1>5. entries \in Seq(Entry)
  <2>1. entries \in [1..n -> Entry]
    BY <1>3, <1>4
  <2> HIDE DEF entries
  <2> QED BY <2>1, <1>3
<1>6. /\ t.groupWrite = FALSE /\ t.otherWrite = FALSE
      /\ t.mine = m.mine /\ t.default = m.default
      /\ t.first = m.first /\ t.second = m.second
      /\ t.access = IF os = "linux" THEN entries ELSE m.access
  BY DEF Tightened, Metadata
<1>7. t \in Metadata
  BY <1>1, <1>5, <1>6 DEF Tightened, Metadata
<1>8. ModeFollowsAcl(os, t)
  <2> SUFFICES ASSUME os = "linux" PROVE ModeFollowsAcl(os, t)
    BY DEF ModeFollowsAcl
  <2>1. t.access = entries
    BY <1>6
  <2>2. \A tag : Tagged(entries, tag) = Tagged(m.access, tag)
    BY <1>4 DEF Tagged
  <2>3. Grants(entries, "mask") = FALSE /\ Grants(entries, "other") = FALSE
    BY <1>4, <2>2 DEF Grants, Tagged
  <2>4. Tagged(entries, "mask") = {} => Grants(entries, "groupObject") = FALSE
    BY <1>4, <2>2 DEF Grants, Tagged
  <2> HIDE DEF entries, t
  <2> QED BY <1>6, <2>1, <2>3, <2>4 DEF ModeFollowsAcl
<1> QED BY <1>7, <1>8

(***************************************************************************)
(* The shape of the steps.                                                 *)
(***************************************************************************)

LEMMA ErrorsAreTyped ==
  /\ {"none", "plain", "unsafe", "usage", "lock_contention", "not_implemented",
      "login_blocked", "rate_limited", "interactive_required",
      "confirmation_required"} \subseteq Errors
  /\ ConfigurationError("plain") = "configuration"
  /\ ConfigurationError("unsafe") = "unsafe_output_dir"
  /\ {"configuration", "unsafe_output_dir"} \subseteq Errors
BY DEF Errors, Code, ConfigurationError

\* Every early return of Resolve and OpenDir.
Refusal(p) == /\ pc[p] \in {"start", "load"} \union Opening
              /\ \E e \in {"plain", "unsafe"} : Refuse(p, e)

\* A step of a command that holds the lock, as far as the lock is concerned.
Work(p) == /\ pc[p] \in Locked
           /\ \E label \in Locked, e \in Errors : Step(p, label, e)
           /\ files' \in [Dirs -> Files]
           /\ shown' \in [Procs -> Files]
           /\ wrote' \in [Procs -> BOOLEAN]

LEMMA BodyIsWork ==
  ASSUME TypeOK, RootInv, NEW p \in Procs, Body(p)
  PROVE  Work(p)
<1> USE ErrorsAreTyped
<1>1. CASE IOError(p)
  BY <1>1 DEF IOError, Return, Pure, Work, TypeOK
<1>2. CASE Stub(p) \/ Login(p)
  BY <1>2 DEF Stub, Login, Return, Pure, Work, TypeOK
<1>3. CASE StatusAttempt(p)
  BY <1>3 DEF StatusAttempt, Pure, Work, TypeOK, RootInv, Files
<1>4. CASE StatusSession(p)
  BY <1>4 DEF StatusSession, Work, TypeOK, RootInv, Files, Sessions
<1>5. CASE Logout(p)
  BY <1>5 DEF Logout, Work, TypeOK, Files, Sessions
<1>6. CASE Ask(p) \/ Answer(p)
  BY <1>6 DEF Ask, Answer, Return, Pure, Work, TypeOK
<1>7. CASE NothingToClear(p) \/ ClearRefused(p) \/ Write(p)
  BY <1>7 DEF NothingToClear, ClearRefused, Write, Return, Pure, Work, TypeOK
<1>8. CASE Clear(p)
  BY <1>8 DEF Clear, Work, TypeOK, Files, Attempts
<1> QED BY <1>1, <1>2, <1>3, <1>4, <1>5, <1>6, <1>7, <1>8 DEF Body

\* Every step of the system, the early returns taken together.
Advance(p) == \/ Usage(p) \/ Begin(p) \/ Lstat(p) \/ LstatNothing(p) \/ Mkdir(p)
              \/ OpenRoot(p) \/ SameFile(p) \/ CheckMode(p) \/ InspectFirst(p)
              \/ InspectSecond(p) \/ Secure(p) \/ Load(p) \/ Lock(p) \/ LockFails(p)
              \/ Release(p) \/ Kill(p) \/ Refusal(p) \/ Body(p)

LEMMA StepsOfNext ==
  ASSUME Next
  PROVE  (\E p \in Procs : Advance(p)) \/ Exchange \/ Change
<1> SUFFICES ASSUME NEW p \in Procs,
                    \/ NoHome(p) \/ LstatOther(p) \/ MkdirFails(p) \/ OpenRootFails(p)
                    \/ Changed(p) \/ CheckFails(p) \/ ChmodFails(p) \/ Misconfigured(p)
             PROVE  Refusal(p)
  BY DEF Next, OpenDir, Advance
<1> QED BY DEF NoHome, LstatOther, MkdirFails, OpenRootFails, Changed, CheckFails,
               ChmodFails, Misconfigured, Refusal

(***************************************************************************)
(* Types, the lock and the open roots.                                     *)
(***************************************************************************)

LEMMA KernelTypes ==
  ASSUME NEW os \in Platforms
  PROVE  /\ Possible[os] \subseteq Metadata
         /\ \A m \in Possible[os] : ModeFollowsAcl(os, m)
         /\ Unborn \in Metadata /\ ModeFollowsAcl(os, Unborn)
         /\ NoDir \notin Dirs /\ NoProc \notin Procs /\ Empty \in Files
<1>1. Unborn \in Metadata
  BY DEF Unborn, Metadata
<1>2. ModeFollowsAcl(os, Unborn)
  BY DEF Unborn, ModeFollowsAcl
<1>3. Empty \in Files
  BY DEF Empty, Files, Attempts, Sessions
<1> QED BY <1>1, <1>2, <1>3, CommandLineAssumption

LEMMA InitTyped == Init => TypeOK
<1> SUFFICES ASSUME Init PROVE TypeOK
  OBVIOUS
<1>1. path \in PathEntry /\ born \subseteq Dirs
  BY DEF Init, PathEntry, Nothing, At
<1>2. meta \in [Dirs -> Metadata]
  BY KernelTypes DEF Init
<1>3. files \in [Dirs -> Files]
  BY CommandLineAssumption DEF Init, Empty, Files, Attempts, Sessions
<1>4. Empty \in Files /\ "none" \in Errors
  BY DEF Empty, Files, Attempts, Sessions, Errors
<1> QED BY <1>1, <1>2, <1>3, <1>4 DEF Init, TypeOK

LEMMA TypeStep ==
  ASSUME TypeOK, RootInv, [Next]_vars
  PROVE  TypeOK'
<1>0. Empty \in Files
  BY KernelTypes DEF TypeOK
<1> USE <1>0, ErrorsAreTyped DEF TypeOK
<1>1. CASE UNCHANGED vars
  BY <1>1 DEF vars, world, proc
<1>2. ASSUME NEW p \in Procs, Advance(p)
      PROVE  TypeOK'
  <2> USE DEF Goto, Forget, Leave, world
  <2>1. CASE Usage(p)
    BY <2>1 DEF Usage
  <2>2. CASE Begin(p)
    BY <2>2 DEF Begin, Found, PathEntry
  <2>3. CASE Lstat(p) \/ LstatNothing(p)
    BY <2>3 DEF Lstat, LstatNothing, PathEntry
  <2>4. CASE Mkdir(p)
    <3>1. \A d \in Dirs : At(d) \in PathEntry
      BY DEF At, PathEntry
    <3> QED BY <2>4, <3>1, KernelTypes DEF Mkdir, Passing
  <2>5. CASE OpenRoot(p)
    BY <2>5 DEF OpenRoot, PathEntry
  <2>6. CASE SameFile(p) \/ CheckMode(p)
    BY <2>6 DEF SameFile, CheckMode
  <2>7. CASE InspectFirst(p) \/ InspectSecond(p)
    BY <2>7 DEF InspectFirst, InspectSecond
  <2>8. CASE Secure(p)
    <3>1. root[p] \in Dirs /\ Here(p) \in Metadata
      BY <2>8 DEF Secure, RootInv, Here
    <3>2. Tightened(platform, Here(p)) \in Metadata
      BY <3>1, TightenedIsMetadata
    <3>3. meta' \in [Dirs -> Metadata] /\ steady' \in [Procs -> BOOLEAN]
      <4>1. CASE made[p]
        <5>1. Disturb(root[p], Tightened(platform, Here(p)))
          BY <2>8, <4>1 DEF Secure
        <5>2. meta' \in [Dirs -> Metadata]
          BY <5>1, <3>1, <3>2 DEF Disturb
        <5>3. steady' \in [Procs -> BOOLEAN]
          BY <5>1, ZenonT(30) DEF Disturb
        <5> QED BY <5>2, <5>3
      <4>2. CASE ~made[p]
        BY <2>8, <4>2 DEF Secure
      <4> QED BY <4>1, <4>2
    <3>4. pc' \in [Procs -> {"start", "done", "dead"} \union Opening \union Pinned
                              \union Locked]
      BY <2>8 DEF Secure, Opened
    <3>5. made' \in [Procs -> BOOLEAN] /\ looked' \in [Procs -> Dirs \union {NoDir}]
      BY <2>8 DEF Secure
    <3> QED BY <2>8, <3>3, <3>4, <3>5 DEF Secure
  <2>9. CASE Load(p)
    BY <2>9 DEF Load, Found, PathEntry
  <2>10. CASE Lock(p) \/ LockFails(p)
    <3>1. CASE Lock(p)
      <4>1. command' \in [Procs -> Commands \union {"unread"}]
        BY <3>1 DEF Lock
      <4>2. /\ lock' \in [Dirs -> Procs \union {NoProc}]
            /\ place' \in [Procs -> Dirs \union {NoDir}]
            /\ pc' = [pc EXCEPT ![p] = "body"]
        BY <3>1 DEF Lock
      <4> QED BY <3>1, <4>1, <4>2 DEF Lock
    <3>2. CASE LockFails(p)
      <4>1. PICK e \in {"plain", "lock_contention"} : Leave(p, e)
        BY <3>2 DEF LockFails
      <4>2. e \in Errors
        BY <4>1
      <4>3. pc' = [pc EXCEPT ![p] = "done"] /\ err' \in [Procs -> Errors]
        BY <4>1, <4>2
      <4> QED BY <3>2, <4>1, <4>3 DEF LockFails
    <3> QED BY <2>10, <3>1, <3>2
  <2>11. CASE Release(p) \/ Kill(p)
    <3>1. Unlocked(p) \in [Dirs -> Procs \union {NoProc}]
      BY DEF Unlocked
    <3>2. CASE Release(p)
      BY <3>1, <3>2 DEF Release
    <3>3. CASE Kill(p)
      BY <3>1, <3>3 DEF Kill, Interfere
    <3> QED BY <2>11, <3>2, <3>3
  <2>12. CASE Refusal(p)
    BY <2>12 DEF Refusal, Refuse
  <2>13. CASE Body(p)
    <3>1. Work(p)
      BY <2>13, BodyIsWork
    <3>2. PICK label \in Locked, e \in Errors : Step(p, label, e)
      BY <3>1 DEF Work
    <3>3. pc' \in [Procs -> {"start", "done", "dead"} \union Opening \union Pinned
                              \union Locked]
      BY <3>2 DEF Step
    <3>4. err' \in [Procs -> Errors]
      BY <3>2 DEF Step
    <3> QED BY <3>1, <3>2, <3>3, <3>4 DEF Work, Step
  <2> QED BY <1>2, <2>1, <2>2, <2>3, <2>4, <2>5, <2>6, <2>7, <2>8, <2>9, <2>10, <2>11,
             <2>12, <2>13 DEF Advance
<1>3. CASE Exchange
  <2>1. PICK entry \in PathEntry :
          /\ path' = entry
          /\ passed' = IF entry.kind = "directory" THEN Passing(entry.dir) ELSE passed
    BY <1>3 DEF Exchange
  <2>2. entry.kind = "directory" => entry.dir \in Dirs
    BY <2>1 DEF PathEntry
  <2>3. passed' \in [Procs -> SUBSET Dirs]
    BY <2>1, <2>2 DEF Passing
  <2> QED BY <1>3, <2>1, <2>3 DEF Exchange, Interfere
<1>4. CASE Change
  BY <1>4, KernelTypes DEF Change, Interfere, Disturb
<1> QED BY <1>1, <1>2, <1>3, <1>4, StepsOfNext

LEMMA LockStep ==
  ASSUME TypeOK, RootInv, HoldsItsLock, [Next]_vars
  PROVE  HoldsItsLock'
<1> USE KernelTypes DEF TypeOK, HoldsItsLock
<1>1. CASE UNCHANGED vars
  BY <1>1 DEF vars, world, proc
<1>2. ASSUME NEW p \in Procs, Advance(p)
      PROVE  HoldsItsLock'
  <2> USE DEF Goto, Forget, Leave, world
  <2>1. CASE \/ Usage(p) \/ Begin(p) \/ Lstat(p) \/ LstatNothing(p) \/ Mkdir(p)
             \/ OpenRoot(p) \/ SameFile(p) \/ CheckMode(p)
    BY <2>1 DEF Usage, Begin, Lstat, LstatNothing, Mkdir, OpenRoot, SameFile, CheckMode
  <2>2. CASE InspectFirst(p) \/ InspectSecond(p) \/ Secure(p) \/ Load(p)
    BY <2>2 DEF InspectFirst, InspectSecond, Secure, Load, Opened
  <2>3. CASE Lock(p)
    BY <2>3 DEF Lock
  <2>4. CASE LockFails(p) \/ Refusal(p)
    BY <2>4 DEF LockFails, Refusal, Refuse
  <2>5. CASE Release(p) \/ Kill(p)
    BY <2>5 DEF Release, Kill, Unlocked
  <2>6. CASE Body(p)
    <3>1. Work(p)
      BY <2>6, BodyIsWork
    <3> QED BY <3>1 DEF Work, Step
  <2> QED BY <1>2, <2>1, <2>2, <2>3, <2>4, <2>5, <2>6 DEF Advance
<1>3. CASE Exchange \/ Change
  BY <1>3 DEF Exchange, Change
<1> QED BY <1>1, <1>2, <1>3, StepsOfNext

LEMMA RootStep ==
  ASSUME TypeOK, RootInv, [Next]_vars
  PROVE  RootInv'
<1> USE KernelTypes DEF TypeOK, RootInv
<1>1. CASE UNCHANGED vars
  BY <1>1 DEF vars, world, proc
<1>2. ASSUME NEW p \in Procs, Advance(p)
      PROVE  RootInv'
  <2> USE DEF Goto, Forget, Leave, world
  <2>1. CASE \/ Usage(p) \/ Begin(p) \/ Lstat(p) \/ LstatNothing(p)
             \/ SameFile(p) \/ CheckMode(p)
    BY <2>1 DEF Usage, Begin, Lstat, LstatNothing, SameFile, CheckMode
  <2>2. CASE OpenRoot(p)
    BY <2>2 DEF OpenRoot
  <2>3. CASE Mkdir(p)
    <3>1. CASE path.kind \in {"directory", "link"}
      BY <2>3, <3>1 DEF Mkdir, Nothing
    <3>2. CASE path.kind \notin {"directory", "link"}
      <4>1. PICK d \in Dirs \ born, m \in Possible[platform] :
              meta' = [meta EXCEPT ![d] = m] /\ path' = At(d) /\ born' = born \union {d}
        BY <2>3, <3>2 DEF Mkdir
      <4>2. \A c \in Dirs : ModeFollowsAcl(platform', meta'[c])
        BY <2>3, <4>1 DEF Mkdir
      <4>3. path'.dir \in born'
        BY <4>1 DEF At
      <4> QED BY <2>3, <4>1, <4>2, <4>3 DEF Mkdir
    <3> QED BY <3>1, <3>2
  <2>4. CASE InspectFirst(p) \/ InspectSecond(p) \/ Load(p)
    BY <2>4 DEF InspectFirst, InspectSecond, Load
  <2>5. CASE Secure(p)
    <3>1. root[p] \in Dirs /\ Here(p) \in Metadata
      BY <2>5 DEF Secure, Here
    <3>2. ModeFollowsAcl(platform, Tightened(platform, Here(p)))
      BY <3>1, TightenedIsMetadata
    <3>3. meta' = meta \/ meta' = [meta EXCEPT ![root[p]] = Tightened(platform, Here(p))]
      BY <2>5 DEF Secure, Disturb
    <3>4. \A c \in Dirs : ModeFollowsAcl(platform', meta'[c])
      BY <2>5, <3>1, <3>2, <3>3 DEF Secure
    <3> QED BY <2>5, <3>1, <3>4 DEF Secure, Opened
  <2>6. CASE Lock(p) \/ LockFails(p)
    BY <2>6 DEF Lock, LockFails
  <2>7. CASE Release(p) \/ Kill(p) \/ Refusal(p)
    BY <2>7 DEF Release, Kill, Refusal, Refuse
  <2>8. CASE Body(p)
    <3>1. Work(p)
      BY <2>8, BodyIsWork
    <3> QED BY <3>1 DEF Work, Step
  <2> QED BY <1>2, <2>1, <2>2, <2>3, <2>4, <2>5, <2>6, <2>7, <2>8 DEF Advance
<1>3. CASE Exchange
  <2>1. path'.kind \in {"link", "directory"} => path'.dir \in born
    BY <1>3 DEF Exchange, PathEntry
  <2> QED BY <1>3, <2>1 DEF Exchange
<1>4. CASE Change
  <2>1. PICK d \in Dirs, m \in Possible[platform] : meta' = [meta EXCEPT ![d] = m]
    BY <1>4 DEF Change, Disturb
  <2>2. \A c \in Dirs : ModeFollowsAcl(platform', meta'[c])
    BY <1>4, <2>1 DEF Change
  <2> QED BY <1>4, <2>2 DEF Change
<1> QED BY <1>1, <1>2, <1>3, <1>4, StepsOfNext

(***************************************************************************)
(* What is known of a root: the checks behind it, and where it was found.  *)
(***************************************************************************)

\* Whoever changes a directory makes every root in it unsteady.
LEMMA DisturbedRoots ==
  ASSUME TypeOK, NEW d \in Dirs, NEW m, Disturb(d, m), NEW q \in Procs, steady'[q]
  PROVE  steady[q] /\ (root[q] \in Dirs => meta'[root[q]] = meta[root[q]])
<1>1. steady[q] /\ (root[q] = d => m = meta[d])
  BY DEF Disturb, TypeOK
<1> QED BY <1>1 DEF Disturb, TypeOK

LEMMA NothingBehind ==
  ASSUME NEW label \in {"start", "lstat", "mkdir", "open", "same", "mode", "done", "dead"},
         NEW os, NEW m
  PROVE  Behind(label, os, m)
BY DEF Behind

LEMMA SameBehind ==
  ASSUME NEW a \in Pinned \union Locked, NEW b \in Pinned \union Locked,
         NEW os, NEW m, Behind(a, os, m)
  PROVE  Behind(b, os, m)
BY DEF Behind

\* A step of one process that leaves the others and the directories alone.
LEMMA CheckFrame ==
  ASSUME TypeOK, RootInv, CheckInv, NEW p \in Procs,
         \A q \in Procs \ {p} :
           /\ pc'[q] = pc[q] /\ root'[q] = root[q]
           /\ steady'[q] => steady[q]
           /\ steady'[q] /\ root[q] \in Dirs => meta'[root[q]] = meta[root[q]],
         platform' = platform,
         steady'[p] => Behind(pc'[p], platform, meta'[root'[p]])
  PROVE  CheckInv'
<1> SUFFICES ASSUME NEW q \in Procs \ {p}, steady'[q]
             PROVE  Behind(pc[q], platform, meta'[root[q]])
  BY DEF CheckInv, Here
<1>1. CASE root[q] \in Dirs
  BY <1>1 DEF CheckInv, Here
<1>2. CASE root[q] = NoDir
  <2>1. pc[q] \in {"start", "lstat", "mkdir", "open", "same", "mode", "done", "dead"}
    BY <1>2 DEF RootInv, TypeOK
  <2> QED BY <2>1, NothingBehind
<1> QED BY <1>1, <1>2 DEF TypeOK

LEMMA CheckStep ==
  ASSUME TypeOK, RootInv, CheckInv, [Next]_vars
  PROVE  CheckInv'
<1>1. CASE UNCHANGED vars
  BY <1>1 DEF vars, world, proc, CheckInv, Here
<1>2. ASSUME NEW p \in Procs, Advance(p)
      PROVE  CheckInv'
  <2> USE DEF Goto, Forget, Leave, world, TypeOK
  <2>0. pc'[p] \in {"start", "lstat", "mkdir", "open", "same", "mode", "done", "dead"}
          => Behind(pc'[p], platform, meta'[root'[p]])
    BY NothingBehind
  <2>1. CASE \/ Usage(p) \/ Begin(p) \/ Lstat(p) \/ LstatNothing(p) \/ SameFile(p)
             \/ OpenRoot(p)
    BY <2>0, <2>1, CheckFrame
       DEF Usage, Begin, Lstat, LstatNothing, SameFile, OpenRoot
  <2>2. CASE CheckMode(p)
    <3>1. Behind(pc'[p], platform, meta'[root'[p]])
      BY <2>2 DEF CheckMode, Behind, Here
    <3> QED BY <2>2, <3>1, CheckFrame DEF CheckMode
  <2>3. CASE Mkdir(p)
    <3>1. \A q \in Procs : root[q] \in Dirs => meta'[root[q]] = meta[root[q]]
      BY <2>3, KernelTypes DEF Mkdir, RootInv
    <3> QED BY <2>0, <2>3, <3>1, CheckFrame DEF Mkdir
  <2>4. CASE InspectFirst(p)
    <3>1. steady'[p] => Behind("first", platform, Here(p))
      BY <2>4 DEF InspectFirst, CheckInv
    <3>2. steady'[p] => Behind(pc'[p], platform, meta'[root'[p]])
      BY <2>4, <3>1 DEF InspectFirst, Behind, Here, CheckRoot, FirstInspection
    <3> QED BY <2>4, <3>2, CheckFrame DEF InspectFirst
  <2>5. CASE InspectSecond(p)
    <3>1. steady'[p] => Behind("second", platform, Here(p))
      BY <2>5 DEF InspectSecond, CheckInv
    <3>2. steady'[p] => Behind(pc'[p], platform, meta'[root'[p]])
      BY <2>5, <3>1 DEF InspectSecond, Behind, Here, CheckRoot
    <3> QED BY <2>5, <3>2, CheckFrame DEF InspectSecond
  <2>6. CASE Secure(p)
    <3>1. root[p] \in Dirs
      BY <2>6, KernelTypes DEF Secure, RootInv
    <3>2. \A q \in Procs : steady'[q] =>
            steady[q] /\ (root[q] \in Dirs => meta'[root[q]] = meta[root[q]])
      <4>1. CASE made[p]
        <5>1. Disturb(root[p], Tightened(platform, Here(p)))
          BY <2>6, <4>1 DEF Secure
        <5> QED BY <3>1, <5>1, DisturbedRoots
      <4>2. CASE ~made[p]
        BY <2>6, <4>2 DEF Secure
      <4> QED BY <4>1, <4>2
    <3>3. steady'[p] => Behind(pc'[p], platform, meta'[root'[p]])
      BY <2>6, <3>1, <3>2, SameBehind DEF Secure, Opened, CheckInv, Here
    <3> QED BY <2>6, <3>2, <3>3, CheckFrame DEF Secure
  <2>7. CASE Lock(p)
    <3>1. steady'[p] => Behind(pc'[p], platform, meta'[root'[p]])
      BY <2>7, SameBehind DEF Lock, CheckInv, Here
    <3> QED BY <2>7, <3>1, CheckFrame DEF Lock
  <2>8. CASE Load(p) \/ LockFails(p) \/ Release(p) \/ Kill(p)
    BY <2>0, <2>8, CheckFrame DEF Load, LockFails, Release, Kill
  <2>9. CASE Refusal(p)
    BY <2>0, <2>9, CheckFrame DEF Refusal, Refuse
  <2>10. CASE Body(p)
    <3>1. Work(p)
      BY <2>10, BodyIsWork
    <3>2. PICK label \in Locked, e \in Errors : Step(p, label, e)
      BY <3>1 DEF Work
    <3>3. steady'[p] => Behind(pc'[p], platform, meta'[root'[p]])
      BY <3>1, <3>2, SameBehind DEF Work, Step, CheckInv, Here
    <3> QED BY <3>2, <3>3, CheckFrame DEF Step
  <2> QED BY <1>2, <2>1, <2>2, <2>3, <2>4, <2>5, <2>6, <2>7, <2>8, <2>9, <2>10 DEF Advance
<1>3. CASE Exchange
  BY <1>3 DEF Exchange, CheckInv, Here
<1>4. CASE Change
  <2>1. PICK d \in Dirs, m \in Possible[platform] : Disturb(d, m)
    BY <1>4 DEF Change, TypeOK
  <2>2. \A q \in Procs : steady'[q] =>
          steady[q] /\ (root[q] \in Dirs => meta'[root[q]] = meta[root[q]])
    BY <2>1, DisturbedRoots DEF TypeOK
  <2> SUFFICES ASSUME NEW p \in Procs PROVE CheckInv'
    BY <1>4 DEF Change, CheckInv
  <2>3. steady'[p] => Behind(pc'[p], platform, meta'[root'[p]])
    <3>1. CASE root[p] \in Dirs
      BY <1>4, <2>2, <3>1 DEF Change, CheckInv, Here
    <3>2. CASE root[p] = NoDir
      <4>1. pc[p] \in {"start", "lstat", "mkdir", "open", "same", "mode", "done", "dead"}
        BY <3>2 DEF RootInv, TypeOK
      <4> QED BY <1>4, <4>1, NothingBehind DEF Change
    <3> QED BY <3>1, <3>2 DEF TypeOK
  <2> QED BY <1>4, <2>2, <2>3, CheckFrame DEF Change
<1> QED BY <1>1, <1>2, <1>3, <1>4, StepsOfNext

\* Whatever is put at the path joins what an opening under way has seen there.
LEMMA PassingGrows ==
  ASSUME TypeOK, NEW d \in Dirs, NEW q \in Procs
  PROVE  passed[q] \subseteq Passing(d)[q]
BY DEF Passing, TypeOK

LEMMA PathStep ==
  ASSUME TypeOK, RootInv, PathInv, [Next]_vars
  PROVE  PathInv'
<1> USE DEF TypeOK, PathInv
<1>1. CASE UNCHANGED vars
  BY <1>1 DEF vars, world, proc, Found
<1>2. ASSUME NEW p \in Procs, Advance(p)
      PROVE  PathInv'
  <2> USE DEF Goto, Forget, Leave, world
  <2>1. CASE Usage(p) \/ Begin(p) \/ LstatNothing(p) \/ Load(p)
    BY <2>1 DEF Usage, Begin, LstatNothing, Load, Found
  <2>2. CASE Lstat(p)
    <3>1. path.dir \in passed[p]
      BY <2>2 DEF Lstat, Found
    <3> QED BY <2>2, <3>1 DEF Lstat, Found
  <2>3. CASE Mkdir(p)
    <3>1. \A q \in Procs : passed[q] \subseteq passed'[q]
      BY <2>3, PassingGrows DEF Mkdir
    <3>2. \A q \in Procs : pc[q] \in Opening => Found' \subseteq passed'[q]
      BY <2>3, KernelTypes DEF Mkdir, Passing, Found, At, Nothing, PathEntry
    <3> QED BY <2>3, <3>1, <3>2 DEF Mkdir
  <2>4. CASE OpenRoot(p) \/ SameFile(p) \/ CheckMode(p)
    BY <2>4 DEF OpenRoot, SameFile, CheckMode, Found
  <2>5. CASE InspectFirst(p) \/ InspectSecond(p) \/ Secure(p)
    BY <2>5 DEF InspectFirst, InspectSecond, Secure, Opened, Found
  <2>6. CASE Lock(p) \/ LockFails(p) \/ Release(p) \/ Kill(p) \/ Refusal(p)
    BY <2>6 DEF Lock, LockFails, Release, Kill, Refusal, Refuse, Found
  <2>7. CASE Body(p)
    <3>1. Work(p)
      BY <2>7, BodyIsWork
    <3> QED BY <3>1 DEF Work, Step, Found
  <2> QED BY <1>2, <2>1, <2>2, <2>3, <2>4, <2>5, <2>6, <2>7 DEF Advance
<1>3. CASE Exchange
  <2>1. \A q \in Procs : passed[q] \subseteq passed'[q]
    BY <1>3, PassingGrows DEF Exchange, PathEntry
  <2>2. \A q \in Procs : pc[q] \in Opening => Found' \subseteq passed'[q]
    BY <1>3 DEF Exchange, PathEntry, Passing, Found
  <2> QED BY <1>3, <2>1, <2>2 DEF Exchange
<1>4. CASE Change
  BY <1>4 DEF Change, Disturb, Found
<1> QED BY <1>1, <1>2, <1>3, <1>4, StepsOfNext

(***************************************************************************)
(* What a command has read and done: its lock keeps the others away.       *)
(***************************************************************************)

LEMMA OthersStand ==
  ASSUME NEW p \in Procs, Advance(p), TypeOK, RootInv, NEW q \in Procs \ {p}
  PROVE  /\ pc'[q] = pc[q] /\ root'[q] = root[q] /\ command'[q] = command[q]
         /\ shown'[q] = shown[q] /\ err'[q] = err[q] /\ refused'[q] = refused[q]
         /\ wrote'[q] = wrote[q] /\ place'[q] = place[q]
<1> USE DEF TypeOK, Goto, Forget, Leave, world
<1>1. CASE \/ Usage(p) \/ Begin(p) \/ Lstat(p) \/ LstatNothing(p) \/ Mkdir(p)
           \/ OpenRoot(p) \/ SameFile(p) \/ CheckMode(p)
  BY <1>1 DEF Usage, Begin, Lstat, LstatNothing, Mkdir, OpenRoot, SameFile, CheckMode
<1>2. CASE InspectFirst(p) \/ InspectSecond(p) \/ Secure(p) \/ Load(p)
  BY <1>2 DEF InspectFirst, InspectSecond, Secure, Load
<1>3. CASE Lock(p) \/ LockFails(p) \/ Release(p) \/ Kill(p) \/ Refusal(p)
  BY <1>3 DEF Lock, LockFails, Release, Kill, Refusal, Refuse
<1>4. CASE Body(p)
  <2> USE DEF Step, Return, Pure
  <2>1. CASE IOError(p) \/ Stub(p) \/ Login(p) \/ StatusAttempt(p) \/ StatusSession(p)
    BY <2>1 DEF IOError, Stub, Login, StatusAttempt, StatusSession
  <2>2. CASE Logout(p) \/ Ask(p) \/ Answer(p) \/ NothingToClear(p) \/ Write(p)
    BY <2>2 DEF Logout, Ask, Answer, NothingToClear, Write
  <2>3. CASE Clear(p) \/ ClearRefused(p)
    BY <2>3 DEF Clear, ClearRefused
  <2> QED BY <1>4, <2>1, <2>2, <2>3 DEF Body
<1> QED BY <1>1, <1>2, <1>3, <1>4 DEF Advance

\* Only the body of a command reads or changes a state file.
LEMMA BodyOnly ==
  ASSUME NEW p \in Procs, Advance(p), ~Body(p), TypeOK
  PROVE  /\ files' = files
         /\ pc'[p] \notin {"session", "prompt", "clear", "print", "release"}
<1> USE DEF TypeOK, Goto, Forget, Leave, world
<1>1. CASE \/ Usage(p) \/ Begin(p) \/ Lstat(p) \/ LstatNothing(p) \/ Mkdir(p)
           \/ OpenRoot(p) \/ SameFile(p) \/ CheckMode(p)
  BY <1>1 DEF Usage, Begin, Lstat, LstatNothing, Mkdir, OpenRoot, SameFile, CheckMode
<1>2. CASE InspectFirst(p) \/ InspectSecond(p) \/ Secure(p) \/ Load(p)
  BY <1>2 DEF InspectFirst, InspectSecond, Secure, Load, Opened
<1>3. CASE Lock(p) \/ LockFails(p) \/ Release(p) \/ Kill(p) \/ Refusal(p)
  BY <1>3 DEF Lock, LockFails, Release, Kill, Refusal, Refuse
<1> QED BY <1>1, <1>2, <1>3 DEF Advance

\* A command changes the files of its own directory only, and no file gets worse.
LEMMA FilesStep ==
  ASSUME TypeOK, RootInv, NEW p \in Procs, Body(p), NEW d \in Dirs
  PROVE  /\ d # root[p] => files'[d] = files[d]
         /\ files[d].session = "absent" => files'[d].session = "absent"
         /\ files[d].attempt # "blocked" => files'[d].attempt # "blocked"
<1> USE DEF TypeOK, Step, Return, Pure
<1>1. CASE IOError(p) \/ Stub(p) \/ Login(p) \/ StatusAttempt(p)
  BY <1>1 DEF IOError, Stub, Login, StatusAttempt
<1>2. CASE StatusSession(p)
  <2>1. files' = [files EXCEPT ![root[p]].session =
                    IF files[root[p]].session = "undated" THEN "absent" ELSE @]
    BY <1>2 DEF StatusSession
  <2> QED BY <2>1 DEF Files
<1>3. CASE Logout(p)
  <2>1. files' = [files EXCEPT ![root[p]].session = "absent"]
    BY <1>3 DEF Logout
  <2> QED BY <2>1 DEF Files
<1>4. CASE Ask(p) \/ Answer(p) \/ NothingToClear(p) \/ ClearRefused(p) \/ Write(p)
  BY <1>4 DEF Ask, Answer, NothingToClear, ClearRefused, Write
<1>5. CASE Clear(p)
  <2>1. files' = [files EXCEPT ![root[p]].attempt = "ok"]
    BY <1>5 DEF Clear
  <2> QED BY <2>1 DEF Files
<1> QED BY <1>1, <1>2, <1>3, <1>4, <1>5 DEF Body

LEMMA SameFiles ==
  ASSUME NEW a \in Files, NEW b \in Files, a.attempt = b.attempt, a.session = b.session
  PROVE  a = b
BY DEF Files

LEMMA ReadStep ==
  ASSUME TypeOK, RootInv, HoldsItsLock, ReadInv, StatusIsCurrent, [Next]_vars
  PROVE  ReadInv' /\ StatusIsCurrent'
<1> USE DEF TypeOK, ReadInv, StatusIsCurrent
<1>1. CASE UNCHANGED vars
  BY <1>1 DEF vars, world, proc
<1>2. CASE Exchange \/ Change
  BY <1>2 DEF Exchange, Change
<1>3. ASSUME NEW p \in Procs, Advance(p)
      PROVE  ReadInv' /\ StatusIsCurrent'
  <2>1. CASE ~Body(p)
    BY <1>3, <2>1, OthersStand, BodyOnly
  <2>2. CASE Body(p)
    <3>1. /\ pc[p] \in Locked /\ root[p] \in Dirs /\ Work(p) /\ TypeOK'
          /\ root' = root /\ command' = command
      BY <2>2, BodyIsWork, KernelTypes, TypeStep, <1>3 DEF Work, Step, RootInv, Next
    <3>2. ASSUME NEW q \in Procs \ {p}, pc[q] \in Locked
          PROVE  files'[root[q]] = files[root[q]]
      BY <2>2, <3>1, <3>2, FilesStep, KernelTypes DEF HoldsItsLock, RootInv
    <3>3. /\ pc'[p] = "session" => /\ command'[p] = "status"
                                   /\ shown'[p].attempt = files'[root'[p]].attempt
          /\ pc'[p] \in {"prompt", "clear"} => command'[p] = "clear-lockout"
          /\ pc'[p] = "print" /\ command'[p] = "status" => shown'[p] = files'[root'[p]]
      <4> USE DEF Step, Goto, Return, Pure
      <4>1. CASE IOError(p) \/ Stub(p) \/ Login(p) \/ ClearRefused(p) \/ Write(p)
        BY <4>1 DEF IOError, Stub, Login, ClearRefused, Write
      <4>2. CASE StatusAttempt(p)
        BY <3>1, <4>2 DEF StatusAttempt, Files
      <4>3. CASE StatusSession(p)
        <5>1. /\ shown' = [shown EXCEPT ![p].session = files'[root[p]].session]
              /\ files' = [files EXCEPT ![root[p]].session =
                    IF files[root[p]].session = "undated" THEN "absent" ELSE @]
              /\ pc[p] = "session" /\ pc'[p] \in {"print", "release"}
          BY <4>3 DEF StatusSession
        <5>2. shown'[p].session = files'[root[p]].session
          BY <5>1 DEF Files
        <5>3. shown'[p].attempt = shown[p].attempt
          BY <5>1 DEF Files
        <5>4. files'[root[p]].attempt = files[root[p]].attempt
          BY <3>1, <5>1 DEF Files
        <5>5. shown'[p] \in Files /\ files'[root[p]] \in Files
          BY <3>1
        <5>6. shown'[p].attempt = files'[root[p]].attempt
          BY <5>1, <5>3, <5>4
        <5>7. shown'[p] = files'[root[p]]
          <6> HIDE DEF TypeOK, ReadInv, StatusIsCurrent, Step, Goto, Return, Pure
          <6> QED BY <5>2, <5>5, <5>6, SameFiles
        <5> QED BY <3>1, <5>1, <5>7
      <4>4. CASE Logout(p) \/ Ask(p) \/ Answer(p) \/ NothingToClear(p) \/ Clear(p)
        BY <4>4 DEF Logout, Ask, Answer, NothingToClear, Clear
      <4> QED BY <2>2, <4>1, <4>2, <4>3, <4>4 DEF Body
    <3>4. ASSUME NEW q \in Procs \ {p}
          PROVE  /\ pc'[q] = pc[q] /\ root'[q] = root[q] /\ command'[q] = command[q]
                 /\ shown'[q] = shown[q]
      BY <1>3, OthersStand
    <3>5. ReadInv'
      BY <3>2, <3>3, <3>4
    <3>6. StatusIsCurrent'
      BY <3>2, <3>3, <3>4
    <3> QED BY <3>5, <3>6
  <2> QED BY <2>1, <2>2
<1> QED BY <1>1, <1>2, <1>3, StepsOfNext

\* Exit codes 0 and 1 are those of success and of errors without a code.
LEMMA ExitCodes ==
  /\ ExitCode("none") = 0 /\ ExitCode("plain") = 1
  /\ \A e \in Errors : ExitCode(e) = 0 => e = "none"
BY DEF ExitCode, Errors, Code

\* What ExitInv and ExitTellsTheOutcome say of one invocation.
Told(p) ==
  /\ pc[p] \notin Locked \union {"done", "dead"} =>
       place[p] = NoDir /\ err[p] = "none" /\ ~wrote[p] /\ ~refused[p]
  /\ pc[p] \in Locked => /\ place[p] = root[p] /\ ~refused[p]
                         /\ err[p] # "unsafe_output_dir"
  /\ pc[p] \in {"body", "session", "prompt", "clear"} => ~wrote[p]
  /\ wrote[p] /\ pc[p] \in {"release", "done"} => err[p] \in {"none", "plain"}
  /\ pc[p] = "print" => Done(p)
  /\ pc[p] = "release" /\ err[p] = "none" => Done(p)
  /\ pc[p] = "done" =>
       /\ err[p] = "none" /\ place[p] # NoDir => Done(p)
       /\ refused[p] <=> err[p] = "unsafe_output_dir"
       /\ refused[p] => place[p] = NoDir

LEMMA ToldIsEnough ==
  ASSUME TypeOK
  PROVE  (\A p \in Procs : Told(p)) <=> ExitInv /\ ExitTellsTheOutcome
BY ExitCodes DEF Told, ExitInv, ExitTellsTheOutcome, TypeOK

\* Done is lasting: nothing brings a session or a lockout back.
LEMMA StaysDone ==
  ASSUME TypeOK, NEW q \in Procs, Done(q), place[q] \in Dirs, UNCHANGED <<command[q], place[q]>>,
         \A d \in Dirs :
           /\ files[d].session = "absent" => files'[d].session = "absent"
           /\ files[d].attempt # "blocked" => files'[d].attempt # "blocked"
  PROVE  Done(q)'
BY DEF Done, TypeOK

LEMMA FilesForward ==
  ASSUME TypeOK, RootInv, NEW p \in Procs, Advance(p), NEW d \in Dirs
  PROVE  /\ files[d].session = "absent" => files'[d].session = "absent"
         /\ files[d].attempt # "blocked" => files'[d].attempt # "blocked"
BY FilesStep, BodyOnly

\* A step that neither takes nor needs the lock.
LEMMA ToldOutside ==
  ASSUME TypeOK, RootInv, NEW p \in Procs, Told(p), Advance(p), ~Body(p)
  PROVE  Told(p)'
<1> USE DEF TypeOK, Goto, Forget, Leave, world, Told
<1>1. CASE \/ Begin(p) \/ Lstat(p) \/ LstatNothing(p) \/ Mkdir(p)
           \/ OpenRoot(p) \/ SameFile(p) \/ CheckMode(p)
  BY <1>1 DEF Begin, Lstat, LstatNothing, Mkdir, OpenRoot, SameFile, CheckMode
<1>2. CASE InspectFirst(p) \/ InspectSecond(p) \/ Secure(p) \/ Load(p)
  BY <1>2 DEF InspectFirst, InspectSecond, Secure, Load, Opened
<1>3. CASE Usage(p)
  BY <1>3 DEF Usage
<1>4. CASE Lock(p)
  BY <1>4 DEF Lock
<1>5. CASE LockFails(p)
  BY <1>5 DEF LockFails
<1>6. CASE Refusal(p)
  <2>1. PICK e \in {"plain", "unsafe"} : Refuse(p, e)
    BY <1>6 DEF Refusal
  <2>2. /\ place[p] = NoDir /\ ~wrote[p] /\ UNCHANGED <<place, wrote>>
        /\ pc'[p] = "done" /\ err'[p] = ConfigurationError(e)
    BY <1>6, <2>1 DEF Refusal, Refuse
  <2>3. refused'[p] <=> e = "unsafe"
    BY <2>1 DEF Refuse
  <2> QED BY <2>2, <2>3, ErrorsAreTyped
<1>7. CASE Release(p)
  BY <1>7 DEF Release, Done
<1>8. CASE Kill(p)
  BY <1>8 DEF Kill
<1> QED BY <1>1, <1>2, <1>3, <1>4, <1>5, <1>6, <1>7, <1>8 DEF Advance

\* The commands: an error with a code is returned before anything is written.
LEMMA ToldInside ==
  ASSUME TypeOK, RootInv, ReadInv, NEW p \in Procs, Told(p), Body(p)
  PROVE  Told(p)'
<1>1. /\ root[p] \in Dirs /\ place[p] = root[p] /\ pc[p] \in Locked
      /\ UNCHANGED <<root[p], place[p], command[p], refused[p]>>
  BY BodyIsWork, KernelTypes DEF Work, Step, RootInv, TypeOK, Told
<1> USE DEF TypeOK, Told, Step, Goto, Return, Pure
<1>2. CASE IOError(p) \/ Stub(p) \/ Login(p)
  BY <1>1, <1>2 DEF IOError, Stub, Login
<1>3. CASE StatusAttempt(p) \/ StatusSession(p)
  BY <1>1, <1>3 DEF StatusAttempt, StatusSession, ReadInv, Done
<1>4. CASE Logout(p)
  BY <1>1, <1>4 DEF Logout, Done, Files
<1>5. CASE Ask(p) \/ Answer(p) \/ ClearRefused(p)
  BY <1>1, <1>5 DEF Ask, Answer, ClearRefused
<1>6. CASE NothingToClear(p)
  BY <1>1, <1>6 DEF NothingToClear, ReadInv, Done
<1>7. CASE Clear(p)
  BY <1>1, <1>7 DEF Clear, ReadInv, Done, Files
<1>8. CASE Write(p)
  BY <1>1, <1>8 DEF Write, Done
<1> QED BY <1>2, <1>3, <1>4, <1>5, <1>6, <1>7, <1>8 DEF Body

LEMMA ExitStep ==
  ASSUME TypeOK, RootInv, ReadInv, ExitInv, ExitTellsTheOutcome, [Next]_vars
  PROVE  ExitInv' /\ ExitTellsTheOutcome'
<1>1. TypeOK' /\ \A p \in Procs : Told(p)
  BY TypeStep, ToldIsEnough
<1> SUFFICES \A p \in Procs : Told(p)'
  BY <1>1, ExitCodes DEF Told, ExitInv, ExitTellsTheOutcome, TypeOK
<1>2. CASE UNCHANGED vars
  BY <1>1, <1>2 DEF vars, world, proc, Told, Done
<1>3. CASE Exchange \/ Change
  BY <1>1, <1>3 DEF Exchange, Change, Told, Done
<1>4. ASSUME NEW p \in Procs, Advance(p), NEW q \in Procs
      PROVE  Told(q)'
  <2>1. CASE q = p
    BY <1>1, <1>4, <2>1, ToldOutside, ToldInside
  <2>2. CASE q # p
    <3>1. Done(q) /\ place[q] \in Dirs => Done(q)'
      BY <1>4, <2>2, OthersStand, FilesForward, StaysDone
    <3>2. pc[q] \in {"print", "release"} => place[q] \in Dirs
      BY <1>1, KernelTypes DEF Told, RootInv, TypeOK
    <3>3. place[q] # NoDir => place[q] \in Dirs
      BY DEF TypeOK
    <3> QED BY <1>1, <1>4, <2>2, <3>1, <3>2, <3>3, OthersStand DEF Told
  <2> QED BY <2>1, <2>2
<1> QED BY <1>2, <1>3, <1>4, StepsOfNext

(***************************************************************************)
(* The theorems.                                                           *)
(***************************************************************************)

LEMMA InitHolds == Init => IInv
<1> SUFFICES ASSUME Init PROVE IInv
  OBVIOUS
<1>1. TypeOK
  BY InitTyped
<1>2. HoldsItsLock
  BY KernelTypes DEF Init, HoldsItsLock
<1>3. RootInv
  <2>1. \A d \in Dirs : ModeFollowsAcl(platform, meta[d])
    BY KernelTypes DEF Init
  <2> QED BY <2>1 DEF Init, RootInv, Nothing, At
<1>4. CheckInv /\ PathInv /\ ReadInv /\ StatusIsCurrent
  BY DEF Init, CheckInv, PathInv, ReadInv, StatusIsCurrent
<1>5. ExitInv /\ ExitTellsTheOutcome
  BY DEF Init, ExitInv, ExitTellsTheOutcome
<1> QED BY <1>1, <1>2, <1>3, <1>4, <1>5 DEF IInv

LEMMA NextHolds == IInv /\ [Next]_vars => IInv'
BY TypeStep, LockStep, RootStep, CheckStep, PathStep, ReadStep, ExitStep DEF IInv

\* The invariant of the proof holds in every reachable state, however often the
\* world interferes; StatusIsCurrent and ExitTellsTheOutcome are parts of it.
THEOREM InvariantHolds == Spec => []IInv
BY InitHolds, NextHolds, PTL DEF Spec

\* A pinned directory that has kept still since CheckRoot began is private.
THEOREM PinsArePrivate == Spec => []PinnedIsPrivate
<1>1. IInv => PinnedIsPrivate
  <2> SUFFICES ASSUME IInv, NEW p \in Procs, pc[p] \in Pinned \union Locked, steady[p]
               PROVE  Private(platform, meta[root[p]])
    BY DEF PinnedIsPrivate
  <2>1. root[p] \in Dirs
    BY DEF IInv, TypeOK, RootInv
  <2>2. CheckRoot(platform, meta[root[p]])
    <3>1. Behind(pc[p], platform, Here(p))
      BY DEF IInv, CheckInv
    <3> QED BY <3>1 DEF Behind, Here
  <2>3. platform \in Platforms /\ meta[root[p]] \in Metadata
    BY <2>1 DEF IInv, TypeOK
  <2>4. ModeFollowsAcl(platform, meta[root[p]])
    BY <2>1 DEF IInv, RootInv
  <2> QED BY <2>2, <2>3, <2>4, CheckRootIsSound
<1> QED BY <1>1, InvariantHolds, PTL

\* A pinned directory was itself at the path while OpenDir ran.
THEOREM PinsWereAtThePath == Spec => []PinnedWasAtThePath
<1>1. IInv => PinnedWasAtThePath
  BY DEF IInv, PathInv, PinnedWasAtThePath
<1> QED BY <1>1, InvariantHolds, PTL

\* Nothing changes between what auth status reads and what it prints.
THEOREM StatusHolds == Spec => []StatusIsCurrent
<1>1. IInv => StatusIsCurrent
  BY DEF IInv
<1> QED BY <1>1, InvariantHolds, PTL

\* Every exit code says truly what has become of the two files.
THEOREM ExitCodesHold == Spec => []ExitTellsTheOutcome
<1>1. IInv => ExitTellsTheOutcome
  BY DEF IInv
<1> QED BY <1>1, InvariantHolds, PTL

(***************************************************************************)
(* The locks of the directories, and what they protect.                    *)
(***************************************************************************)

\* Who asks for the lock of a directory.
Asking(d) == {p \in Procs : pc[p] = "lock" /\ root[p] = d}

\* Every step is one of the abstract mutex of any directory, or none.
LEMMA MutexStep ==
  ASSUME IInv, [Next]_vars, NEW d \in Dirs
  PROVE  [Mutex(d)!Next]_<<lock[d], Asking(d)>>
<1> USE KernelTypes DEF TypeOK, HoldsItsLock, IInv, Asking, Mutex!Next
<1>1. CASE UNCHANGED vars
  BY <1>1 DEF vars, world, proc
<1>2. ASSUME NEW p \in Procs, Advance(p)
      PROVE  [Mutex(d)!Next]_<<lock[d], Asking(d)>>
  <2> USE DEF Goto, Forget, Leave, world
  <2>1. CASE \/ Usage(p) \/ Begin(p) \/ Lstat(p) \/ LstatNothing(p) \/ Mkdir(p)
             \/ OpenRoot(p) \/ SameFile(p) \/ CheckMode(p)
    BY <2>1 DEF Usage, Begin, Lstat, LstatNothing, Mkdir, OpenRoot, SameFile, CheckMode
  <2>2. CASE InspectFirst(p) \/ InspectSecond(p) \/ Load(p)
    BY <2>2 DEF InspectFirst, InspectSecond, Load
  <2>3. CASE Secure(p)
    <3>1. CASE root[p] = d /\ opening[p] = 2
      <4>1. Mutex(d)!Request(p)
        BY <2>3, <3>1 DEF Secure, Opened, Mutex!Request
      <4> QED BY <4>1
    <3>2. CASE ~(root[p] = d /\ opening[p] = 2)
      BY <2>3, <3>2 DEF Secure, Opened
    <3> QED BY <3>1, <3>2
  <2>4. CASE Lock(p)
    <3>1. CASE root[p] = d
      <4>1. Mutex(d)!Grant(p)
        BY <2>4, <3>1 DEF Lock, Mutex!Grant
      <4> QED BY <4>1
    <3>2. CASE root[p] # d
      BY <2>4, <3>2 DEF Lock
    <3> QED BY <3>1, <3>2
  <2>5. CASE LockFails(p) \/ (Kill(p) /\ pc[p] = "lock")
    <3>1. CASE root[p] = d
      <4>1. Mutex(d)!Refuse(p)
        BY <2>5, <3>1 DEF LockFails, Kill, Unlocked, Mutex!Refuse
      <4> QED BY <4>1
    <3>2. CASE root[p] # d
      BY <2>5, <3>2 DEF LockFails, Kill, Unlocked
    <3> QED BY <3>1, <3>2
  <2>6. CASE Release(p) \/ (Kill(p) /\ pc[p] # "lock")
    <3>1. CASE lock[d] = p
      <4>1. Mutex(d)!Release(p)
        BY <2>6, <3>1 DEF Release, Kill, Unlocked, Mutex!Release
      <4> QED BY <4>1
    <3>2. CASE lock[d] # p
      BY <2>6, <3>2 DEF Release, Kill, Unlocked
    <3> QED BY <3>1, <3>2
  <2>7. CASE Refusal(p)
    BY <2>7 DEF Refusal, Refuse
  <2>8. CASE Body(p)
    <3>1. Work(p)
      BY <2>8, BodyIsWork
    <3> QED BY <3>1 DEF Work, Step
  <2> QED BY <1>2, <2>1, <2>2, <2>3, <2>4, <2>5, <2>6, <2>7, <2>8 DEF Advance
<1>3. CASE Exchange \/ Change
  BY <1>3 DEF Exchange, Change
<1> QED BY <1>1, <1>2, <1>3, StepsOfNext

\* For any invocations and directories, whatever becomes of the path: the lock of
\* every directory is the abstract mutex, granted to one that asked for this
\* directory and given back by whoever returns or dies.
THEOREM LocksAreMutexes == Spec => EachLockIsAMutex
<1> SUFFICES ASSUME NEW d \in Dirs PROVE Spec => Mutex(d)!Spec
  BY DEF EachLockIsAMutex
<1>1. Init => Mutex(d)!Init
  BY DEF Init, Mutex!Init
<1>2. IInv /\ [Next]_vars => [Mutex(d)!Next]_<<lock[d], Asking(d)>>
  BY MutexStep
<1> QED BY <1>1, <1>2, InvariantHolds, PTL DEF Spec, Mutex!Spec, Asking

\* Whoever changes a state file holds the lock of its directory, from before the
\* change until after it.
THEOREM FilesAreProtected == Spec => FilesChangeUnderLock
<1> DEFINE Protected == \A d \in Dirs : files'[d] # files[d] =>
                          \E p \in Procs : lock[d] = p /\ pc'[p] # pc[p] /\ pc'[p] \in Locked
<1>1. ASSUME IInv, [Next]_vars PROVE Protected \/ UNCHANGED vars
  <2> SUFFICES ASSUME NEW d \in Dirs, files'[d] # files[d]
               PROVE  \E p \in Procs : lock[d] = p /\ pc'[p] # pc[p] /\ pc'[p] \in Locked
    OBVIOUS
  <2>1. PICK p \in Procs : Body(p)
    <3>1. CASE UNCHANGED vars
      BY <3>1 DEF vars, world
    <3>2. CASE Exchange \/ Change
      BY <3>2 DEF Exchange, Change
    <3>3. ASSUME NEW p \in Procs, Advance(p), ~Body(p) PROVE FALSE
      BY <1>1, <3>3, BodyOnly DEF IInv
    <3> QED BY <1>1, <3>1, <3>2, <3>3, StepsOfNext
  <2>2. root[p] = d
    BY <1>1, <2>1, FilesStep DEF IInv
  <2>3. Work(p)
    BY <1>1, <2>1, BodyIsWork DEF IInv
  <2>4. lock[d] = p
    BY <1>1, <2>2, <2>3 DEF Work, IInv, HoldsItsLock
  <2>5. pc'[p] # pc[p] /\ pc'[p] \in Locked
    <3>1. pc'[p] \in Locked
      BY <1>1, <2>3 DEF Work, Step, Goto, IInv, TypeOK
    <3>2. CASE StatusSession(p) \/ Logout(p) \/ Clear(p)
      BY <1>1, <3>1, <3>2 DEF StatusSession, Logout, Clear, Step, Goto, IInv, TypeOK
    <3>3. CASE ~(StatusSession(p) \/ Logout(p) \/ Clear(p))
      <4>1. UNCHANGED files
        BY <2>1, <3>3 DEF Body, IOError, Stub, Login, StatusAttempt, Ask, Answer,
                          NothingToClear, ClearRefused, Write, Pure
      <4> QED BY <4>1
    <3> QED BY <3>1, <3>2, <3>3
  <2> QED BY <2>4, <2>5
<1>2. IInv /\ [Next]_vars => [Protected]_vars
  BY <1>1
<1> QED BY <1>2, InvariantHolds, PTL DEF Spec, FilesChangeUnderLock
==========================================================================
