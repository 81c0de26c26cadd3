# Verification of fnb

TLA+ models of `fnb`, a read-only command line for FNB Online Banking, with the
TLC configurations that check them and TLAPS proofs. The point of the program
that is hardest to get right, and the one its documents insist on, is the
lockout guard: a credential login must never be repeated while the outcome of
an earlier one is uncertain, whatever crashes, and never more often than every
15 minutes. The project starts there and works outwards. Paths below are
relative to the repository root.

## 1. The system

| Part | Source | State | Operations | Models |
|---|---|---|---|---|
| Login manager | `internal/session/login.go` | none of its own; decides over the two files | `Preflight`, `Login`, `ResolveApproval`, `ClearLockout` | `LoginManager` |
| Attempt store | `internal/session/attempt.go` | `login-attempt.json`: state, reason, time of the last login | `LoadAttempt`, `SaveAttempt` (`DeleteAttempt` has no caller) | `LoginManager`, `DurableFile` |
| Session store | `internal/session/store.go` | `session.json`: cookies, creation time, approval flag | `SaveSession`, `LoadSession` (deletes an expired session), `DeleteSession`, cookie snapshots | `LoginManager`, `CookieJar`, `CommandLine` |
| Config lock | `internal/session/lock.go` | the flock on the file `lock` | `AcquireLock` (polls until a deadline), `Close` | `ConfigLock` |
| Secure write | `internal/secure/write.go` | temporary file, target entry | `writeFile` with `NoOverwrite` or `Overwrite` | `SecureWrite` |
| Directory and ACL checks | `internal/secure/safety.go`, `acl_*.go` | none | `CheckRoot` with two inspections per platform | `DirectoryCheck` |
| Configuration | `internal/config/config.go` | none | `Resolve`, `OpenDir`; `Password` | `CommandLine` (not `Password`) |
| Auth commands | `internal/cli/root.go` | none | `login` (preflight only so far), `status`, `logout`, `clear-lockout`; the others are stubs | `CommandLine`, `LoginManager` |
| Exit codes | `internal/exitcode` | none | code and slug of an error | `CommandLine` |
| Transport | `internal/transport/http.go`, `trace.go` | time of the last request | `RoundTrip`, `CheckRedirect`, `DoOnce` | `Transport` |
| Cookie jar | `internal/transport/http.go` | accepted cookies beside the library's jar | `SetCookies`, `importCookies`, `snapshot` | `CookieJar` |
| Request guard | `internal/guard/guard.go` | a fixed list of entries | `Check`, `CheckRedirect`, `WriteActionNames` | `Guard` |
| Credential command | `internal/secure/env.go` | none | one child process with a fixed environment | - |
| Output, entry point | `internal/output`, `cmd/fnb` | none | formatting; the call of `Execute` | - |

How they interact. A command resolves the configuration through one opening of
the directory, opens and checks the directory again, takes the lock, runs, and
releases the lock (`openLockedConfig`, root.go:219). Processes share nothing but
that directory. Every write of the two JSON files goes through
`secure.writeFile`: a temporary file is written and synced, renamed over the
target, and the directory is synced. `Login` writes an `in_flight` attempt this
way, hands the credentials to a `Submitter` exactly once, saves the session that
came back, and then the attempt that the outcome calls for. `Submitter` is an
interface without an implementation yet; the transport, the cookie jar and the
guard will stand behind it. Cookies live in the client's jar and, because that
jar cannot be listed, in a mirror beside it; the session store saves the mirror
and gives it back to the jar of a later process.

What is hard. Two processes at once; a path that names another directory a
moment later; a kill or a power cut between any two system calls; an error from
any of them; a rename that is visible but not yet durable; a clock that moves
between two readings; two files, or a jar and its mirror, that must agree; a
lock that is polled; a holder that waits for a human.

What makes each part correct:

* Login manager and stores: an unresolved submission keeps later ones out,
  also after a crash; the time of the last login is never lost; a session that
  awaits approval or was refused never survives the decision; an approval does
  not make a session younger; deletion is final (it is not always: finding 1).
* Lock: mutual exclusion across deaths; everybody who asks gets an answer in
  time; a release is noticed soon.
* Secure write: the target is always whole; success means durable; creation
  happens once; nothing is left behind; the loop over short writes ends.
* Directory check and command line: the directory that is pinned was at the
  path and is private; what `status` prints is what is on file; an exit code says
  truly what has become of the two files.
* Transport: what the caller is told about a failed request is never too
  little; requests are paced across calls and cancellations; cookies come from
  responses that were accepted; a body is sent once (it is not: finding 3).
* Cookie jar: the mirror is what the jar sends; a restored session is what was
  saved (but for quotes: finding 4).
* Guard: what passes is allowed whether a server cuts the path before or after
  decoding it, decodes it once or twice, and resolves its dots or not; everything
  the table allows passes; being checked twice changes nothing.

## 2. The modules

Abstract specifications, which say what a part promises and nothing of how:

* `CredentialGate` - submissions one at a time, starts an interval apart.
* `ConfigMutex` - ask, be granted or refused, release; a restart forgets all.
* `DurableFile` - one directory entry: `val` is what a reader sees, `disk` the
  set of values that may be found after a power cut. `Publish` (rename, link,
  unlink) changes the first and adds to the second, `Sync` makes the visible
  one the only survivor.

Detailed specifications:

* `LoginManager` - the commands of `internal/session` and the auth commands of
  `internal/cli`. One process is one `fnb` command at a time. `pc` names the
  next step, `cmd` the command (an approval with its resolution is a command),
  `mine` and `kept` the `Attempt` and `Session` in the process's memory. The
  two files are two `DurableFile`s, whose actions the module uses. A save is
  two steps: the rename (`PublishAttempt`, `PublishSession`) and the directory
  sync (`SyncAfterSave`), which settles *both* entries, as the code syncs the
  directory and not the file's entry. `DeleteSession` is `UnlinkSession` and
  `SyncAfterUnlink`; when the file is absent it returns at once, as the code
  does. `Fail` is every error return of a load or a save; `Unconfirmed` is a
  missing terminal or any answer but yes. `Login` reads the clock twice
  (`Preflight`, `Stamp`), like the code. Three history variables say what the
  bank knows: `unresolved` (a login was submitted and neither a success
  response, an approval nor the owner's confirmation has resolved it),
  `lastStart` (the time stamped on the latest submitted login) and `loggedOut`.
  They are read by no action except to update themselves.
* `ConfigLock` - `AcquireLock` and `Close`. Timers are what is left of them,
  counting down to 0; a late wake-up is possible because nothing forces a
  process to run when its alarm is at 0; `freeFor` counts only the ticks at which
  nobody was kept waiting by the scheduler. Computing the sleep
  and falling asleep is one step.
* `SecureWrite` - `writeFile` call by call, by any number of writers of one
  target, each of which chooses its policy anew for every write. `temp[w]` and
  `target` are files with their origin, the length written so far, the mode, and
  whether their data is synced; `targetDisk` is the set of entries that may
  survive. The history variable `newer[w]` is the set of writers that have put a
  file in place since `w` last did, `w` included; no action reads it. After a power cut a file whose data was not synced is any prefix of it.
* `DirectoryCheck` - `CheckRoot` as operators over what there is to know of a
  directory: owner, mode bits, access control lists, and whether each of the
  platform's two inspections works. The code looks at the tags of a list and never
  at a permission. That this is enough rests on how the kernel couples the mode
  with the list (`ModeFollowsAcl`), so the module also states who may write as the
  system's own access check decides it (`Private`), and the two are compared.
* `CommandLine` - one invocation from its arguments to its exit code:
  `openAuthState` and `openLockedConfig`, `Resolve`, `OpenDir` call by call and both times,
  `CheckRoot` as three inspections at different moments, the commands as far as
  they touch the two files, and the way of an error through `configurationError`
  and `execute`. Directories are objects with metadata and files; the path names
  one, a link to one, a file or nothing. The outside world may exchange what is at
  the path, change a directory's metadata, or kill a process, between any two
  calls. The variables from `passed` on are histories.
* `Transport` - `DoOnce` on one client shared by several calls. `pc` follows a
  request through `RoundTrip` (guard, mutex of the pacing, sleep, base
  transport) and the redirect closure; `hop` is `len(via)`. Timers are what is
  left of them, and `since` stands for `last`. The base transport and the
  redirect logic of `net/http` are external and modelled from how `http.go`
  configures them: one transmission per hop (no keep-alives, no HTTP/2), 301 to
  303 drop the body, 307 and 308 repeat it if `GetBody` is set. A server answers
  in any way or never. The guard's verdict on each request is arbitrary.
* `CookieJar` - `guardedJar` and the cookies of `session.json`. `SetCookies` remembers
  accepted cookies one by one (`Receive`) and then gives them to the library's
  jar together (`StoreInJar`); `snapshot`, `SaveSession` and the import are steps
  of their own, each with its own reading of the clock. The library's jar is
  external (`JarKey`, `JarEntry`). `lag` counts the time that passed while a call was
  between mirror and jar; `contested` has the keys that two calls have set at a
  time; `wares` and `shelf` are what the jar held when the
  snapshot in memory, and the one on file, were taken.
* `Guard` - `Check` as operators over requests, and its two uses at a redirect
  as actions. A path is a sequence of characters, each with the number of times
  it is percent-encoded; parameters are sequences of values per key, in the
  query and in the form. Beside the guard's own test stands what a server may
  make of a path (`Readings`): cut into segments before or after it is decoded,
  decoded once or twice, with backslashes taken for slashes or not, and its dots
  resolved. `MCGuard` holds the table and the requests.

How they compose: `Transport` relies on a verdict per request, and `Guard` says
how it is reached and that asking twice gives it twice (`SentAsAsked`).
`LoginManager` uses the actions of `DurableFile`, of which `SecureWrite` is shown to be
an implementation (`DurableSpec`); its lock is an implementation of
`ConfigMutex` (`MutexSpec`), and so is `ConfigLock`. So the one-step lock of
`LoginManager` and `CommandLine` and the two-step save of `LoginManager` are what the
detailed modules deliver. The error of a save before its rename (`Fail` at a
`save_` step) and after it (`Fail` at a `sync_` step) are the two cases that
`SecureWrite` distinguishes. `CommandLine` extends `DirectoryCheck`, and supplies what
`LoginManager` takes for granted: that a command works in one pinned directory
with the lock of that directory. `CookieJar` takes up what the `created`
field of a session in `LoginManager` leaves out.

Definitions under a comment "Mutant" are faulty variants of the
definition that follows; no specification uses them. They document which
mistake in the code each property would catch (`mutants` in `PROJECT.json`).

## 3. What the runs check

| Run | Bounds | What it shows |
|---|---|---|
| `LockoutGuard.cfg` | 2 processes, interval 2, clock to 3, all faults | `FailClosed`, `RateSurvives`, `RemovalIsFinal`, refinement of `CredentialGate` and `ConfigMutex`, and `IInv`, the invariant of the proofs |
| `SessionLifecycle.cfg` | 2 processes, lifetime 2, clock to 4, kills and errors | `PendingSessionAwaitsApproval`, `RefusedApprovalLeavesNoSession`, `OnlyLoginRenewsSession` |
| `LogoutRetried.cfg` | 1 process, kills and power cuts | *violated*: `LogoutIsFinal` (finding 1) |
| `ShippedLifetime.cfg` | 1 process, no faults, lifetime 0 | *violated*: `AgedSessionIsDropped` (finding 2) |
| `LockContention.cfg` | 3 processes, timeout 5, poll 2 | `HolderOwnsFlock`, `SleepEndsByDeadline`, `ReleaseIsNoticed`, refinement of `ConfigMutex`, `EveryAcquireEnds` |
| `WriteShared.cfg` | 2 writers of either policy, 2 units of data, all faults | `NeverTorn`, `OkIsDurable`, `OneNewFile`, `NoTempLeft`, refinement of `DurableFile`, `EveryWriteReturns`, and `IInv` |
| `CommandLine.cfg` | 2 invocations, 2 directories, 1 interference, 8 kinds of directory on 3 platforms | `PinnedIsPrivate`, `PinnedWasAtThePath`, `StatusIsCurrent`, `ExitTellsTheOutcome`, and `IInv` |
| `TransportShared.cfg` | 2 calls with bodies, one repeatable; interval 2, limit 2 | `UnsentReachedNobody`, `OnlyAllowedIsSent`, `RedirectCookies`, `PacedSends`, `CancelledCallReturns` |
| `RedirectedPost.cfg` | 1 call, limit 3 | *violated*: `BodySentOnce` (finding 3) |
| `CookieJar.cfg` | 2 calls, 4 cookies, 2 paths, lifetime 2, clock to 2 | `SnapshotAgrees`, `RestoredAsSaved`, and `IInv` |
| `CookieQuotes.cfg` | 1 call, the same cookies | *violated*: `QuotesSurvive` (finding 4) |
| `GuardTable.cfg` | paths to 6 characters, 400 placings of the parameters and single defects, one entry per path | `SentIsAllowed`, `SentAsAsked`, `DeniedNeverSent`, `EveryShapePasses` |

Why the bounds are enough. Two processes show every race over the lock, since
a third would only wait; kills and power cuts are not bounded in `LoginManager` and
`SecureWrite`. With an interval of 2 and a clock up to 3 there are logins at two
distinct times that the rate guard separates and one that it refuses; the
session run uses an interval of 1 so that a second login can follow within the
lifetime. The clock is the only counter there, and `MaxTime` its only bound. In
`ConfigLock` the timeout is not a multiple of the poll, so the last sleep is cut.
Two units of data make a write short, complete or empty.

`CommandLine` is bounded by `MaxEvents`: one exchange, change or kill at any
point of two invocations, which may also disturb each other. The directories of
`MCCommandLine` are one of each kind that the inspections tell apart, and
one whose list grants what its mask takes away. The proofs cover any number of
interferences, any metadata and any directories, and `IInv`, which they rest on,
is an invariant of the run. In `CookieJar`, once two calls have set one
key at a time no other call begins before the next process: what they leave under
that key in mirror and jar may differ for good, nothing is claimed of it, and the
restart clears it. All other keys, and snapshots while calls are under way, are
held to `SnapshotAgrees`. The four cookies are one for a directory, its deletion by a
response that names no path, one with an age and quotes in the wider scope, and
one that the client drops.

Commands in a run. `SessionLifecycle` leaves out clear-lockout, because an owner
who clears a lockout also abandons a pending approval, and the pending session
then stays on file beside an `ok` attempt; that is what the code does and no
document promises otherwise. It also leaves out power cuts, which can revive a
session through finding 1 alone. `RemovalIsFinal` in `LockoutGuard` has neither
restriction: it is about a logout that found a session and synced its removal.

Fairness. `LoginManager`, `CommandLine`, `CookieJar` and `Guard` have none: their
properties are safety. In `ConfigLock` time passes and a process that can take a
step of its own takes it (the kernel runs runnable processes); nothing forces a
holder to release, a context to be cancelled or a process to die, so
`EveryAcquireEnds` rests on the deadline. In `SecureWrite` a running writer goes on;
nobody is bound to start. In `Transport` the client takes its steps, time passes,
the pacing mutex starves nobody (`sync.Mutex` hands itself to the longest
waiter), and the base transport gives up a request whose context is done; no
server is bound to answer, which is why only cancelled calls are shown to
return.

Deadlock is checked in every run but `GuardTable`, whose requests are done with
once they are sent or blocked, and `CommandLine`, whose invocations end.

## 4. Findings

1. `DeleteSession` returns without a directory sync when `session.json` is
   absent (store.go:142). A logout that is interrupted between the removal and
   the sync, repeated, and answered with `ok` is not durable: a loss of power
   brings the session back (`LogoutRetried.cfg`). `docs/incident.md:25` states
   that session state is deleted on explicit logout. Two theorems say how far
   this goes: a logout that found the session itself is final
   (`RemovalIsDurable`), and while the power stays on every logout is
   (`LogoutHolds`).
2. The shipped binary gives the session store the lifetime 0 (root.go:313),
   which `LoadSession` takes as "never expires" (store.go:124), while
   `docs/threat-model.md:33` states that sessions are deleted on
   absolute-lifetime expiry (`ShippedLifetime.cfg`).
3. `DoOnce` passes the request to `client.Do`, which follows a 307 or 308 to any
   target the guard allows and sends the body again (http.go:302), while
   `docs/plan.md:40` states that the credential POST is never retried and that
   redirects are handled manually (`RedirectedPost.cfg`). This takes a body that
   `net/http` can read again (`GetBody`, as for the usual readers of
   `http.NewRequest`); any other is sent at most once (`UnrepeatableGoesOutOnce`).
4. `CookiesFromHTTP` copies every field of a cookie that a request sends but
   `Quoted` (store.go:157), and the file has no place for it: a value that the
   server put in quotes is sent without them after a restart, though
   `docs/plan.md:65` gives `internal/session` the persistence of the cookie jar
   (`CookieQuotes.cfg`).

Observed while modelling, and not claimed as findings:

* A directory that is loosened after it was opened makes the check inside
  `SaveAttempt` fail with an error that has no code, so `clear-lockout` exits 1
  (`ClearRefused`), where `docs/plan.md:48` gives any unsafe directory exit 2.
* `docs/plan.md:142` asks for exit 3 when the config directory is a symlink; the
  code, `root_test.go:75`, `README.md` and `docs/plan.md:48` say exit 2.
* `Check` returns the verdict of the first entry with the request's method and
  path (guard.go:82), so of two entries of one page, as `docs/plan.md:79`
  plans them, the second can never match. The table shipped today has one
  entry; `EveryShapePasses` holds for tables with one entry per path and method.
* The configuration is read from, and the lock taken in, two openings of the path
  (root.go:224), which may find two directories. Each of them passes
  `PinnedWasAtThePath` and `PinnedIsPrivate` by itself.
* `ResolveApproval` accepts any `in_flight` attempt, whatever its reason
  (login.go:119): an approval may decide about a login that was killed.
* Two responses that set one cookie at a time may leave it with one value in the
  jar and with another in the mirror, as `SetCookies` remembers and stores in two
  steps (http.go:178); a snapshot then saves what is not sent. `SnapshotAgrees`
  says that this is the only way in which the two come apart.
* A directory may change between the inspections of `CheckRoot`, so one that is
  accepted need not have been private at any single moment. Only its owner, or one
  to whom a list gave that right, could have changed it; `PinnedIsPrivate` is
  about a directory that keeps still from the first inspection on.
* `snapshot` walks a Go map (http.go:224), so the order in which the server set
  its cookies is lost with the restart.
* A 307 or 308 that `net/http` cannot repeat is handed to the caller as the
  response, but its cookies are not stored (`AnswerUnrepeatable`).
* On macOS any error of the first inspection leads to the second one, not only
  "unsupported" (acl_darwin.go); `DirectoryCheck` shows that this is safe as far as
  the second one works.

## 5. What is proved

Every theorem below is `Spec => []...` or `Spec => ...` of its module, for all
values of the constants that satisfy the module's named assumptions; TLC
evaluates these assumptions in every run.

`LoginManagerProofs`, for any processes, commands, faults, failure kinds,
interval, lifetime and bound of the clock: `InvariantHolds`, `TypeCorrect`,
`FailsClosed`, `RateGuardSurvives`, `RemovalIsDurable`, `GateRefinement`
(`Spec => GateSpec`) and `MutexRefinement` (`Spec => MutexSpec`). With two further
assumptions, that the power stays on and that nobody clears the lockout:
`PendingAwaits` and `RefusedLeavesNone`; with the first of them alone,
`OnlyLoginRenews` and `LogoutHolds`. The first two need the assumptions for the
reasons given in section 3; `OnlyLoginRenews` needs its own because a loss of
power may bring back an older session whose replacement was not yet synced, and
`LogoutHolds` because of finding 1. The module's assumptions are that the
constants are what their comments say, that a failure kind is none of the words
the code uses for other reasons (`LoginManagerAssumption`), and that the null
values are no attempts and no sessions (`SentinelAssumption`).

The argument. `FailClosed` is not inductive: that `Submit` meets a file that
blocks follows from what the process did several steps before. `IInv` adds, for
each process, what the steps since hold on to: `LockInv` (past "wait" means
holding the lock, so nobody else touched the file), `PrepareInv` (since
Preflight nothing is unresolved and the rate allows this login; before the
directory sync the visible attempt is mine, after it the only survivor is
mine), `SaveInv` (whatever is about to be saved records a login no earlier than
the last one, and blocks if something is unresolved), `CommandInv`, `FilesInv` and
`LogoutInv` (a synced removal has left nothing on the medium). Each part has a
lemma with one step per action. The session theorems rest on `SessionInv`:
between a save of the session and the save of its attempt the attempt on file is
in flight (`OrderInv`), and what each command is about to save agrees with the
session (`AgreeInv`). `OnlyLoginRenews` needs only `AgeInv`: who is about to save a
session is a login, or still sees the session that it loaded.

`ConfigLockProofs`, for any processes, timeout and poll: `TypeCorrect`,
`HolderHasFlock`, `SleepsAreCut`, `ReleasesAreNoticed` and `MutexRefinement`.
The first three invariants are inductive together; the fourth needs
`FreeInv`: a free lock has been free for no longer than what a poll leaves of
every sleeper's alarm. `PatienceEnds` is described below.

`SecureWriteProofs`, for any writers, policies, length of the data and faults:
`TargetIsWhole`, `SuccessIsDurable`, `CreationIsExclusive`, `NothingIsLeft` and
`DurableRefinement` (`Spec => DurableSpec`). `IInv` says what each call has done to the
temporary file since it was opened (`TempInv`), and that of the NoOverwrite
writes at most one is past its link and that whoever is past its own sees its
file or a newer one in place (`LinkInv`). So the directory sync, which leaves only
the visible entry, leaves one that is no older than the write it belongs to, and
every later entry is newer still: `SuccessIsDurable` holds also when other writes
come between a rename and its sync. The refinement maps rename and link to
`Publish`, the directory sync to `Sync`, and every other call to a stutter.

`CommandLineProofs`, for any invocations, directories and metadata and any number
of exchanges, changes and kills: `PinsArePrivate`, `PinsWereAtThePath`, `StatusHolds`
and `ExitCodesHold`. `CheckRootIsSound` compares the verdict of the code with
the reference access check for lists of any length. Since the three inspections
happen at different moments, `CheckInv` carries what those so far imply as long
as the root has not changed (`steady`); `PathInv` says which of the directories at
hand have been at the path; `HoldsItsLock` and `ReadInv` make what `status` has
read stay true, and `ExitInv` follows an error from where it arises to the exit.
`LocksAreMutexes` shows for every directory that its lock is a `ConfigMutex`,
though invocations come to it through a path that may name another directory by
the time they ask; `FilesAreProtected` that a state file is changed by nobody
but the holder of that lock. No run lists these two: the same invariant carries
them.

`CookieJarProofs`, for any calls, cookies, paths, lifetime and clock:
`MirrorIsTheJar` and `RestoreIsFaithful`. The mirror and the jar read the clock at
different moments, so `Agree` allows them to differ by the time that passed in
between (`lag`), and `Remembers` says what the mirror already holds for a cookie
that the jar has yet to be given. `ShelfInv` and `PhaseInv` carry this
agreement through snapshot, file, restart and import. The keys that two calls have
set at a time (`contested`) are left out of it; `CallInv` says that every other key
is at most in one call's hands, so that no call can spoil what another remembers.

`TransportProofs`, for any calls, interval and redirect limit: the five safety
properties of `Transport`. Its invariant ties the holder of the mutex to
the call that is in `wait` (`PaceInv`), the sleep that is left to the interval
that has passed (`SleepInv`: without it a sleeper could wake early), the flag of
`DoOnce` to what has reached the server (`SendInv`, which needs that a redirected
request was passed by `CheckRedirect`, so that `RoundTrip` cannot refuse what
earlier hops have sent), and the jar to the position in the chain of redirects
(`CookieInv`). `UnrepeatableGoesOutOnce` adds that a body that cannot be repeated
is at hand only until it has been sent (`OnceInv`).

`GuardProofs`, for any table, requests, parameter names and values, and paths of
any length: `OnlyAllowedIsSent` (`SentIsAllowed`), `AllowedIsNotBlocked`
(`EveryShapePasses`), `BodiesArePutBack` (`SentAsAsked`), `SentParamsAllowed` and
`NothingDeniedIsSent`. `IInv` only says that what passed or was blocked did so
on what was asked for; the work is in the operators. `MergeGivesAll` and
`CheckedParams` show that `requestParams` and `checkParams` together decide exactly
the reference `ParamsAllowed`. For the paths, `PathProofs` shows in turn:

* A path that is not unsafe is plain once it is decoded, so all its readings are
  one (`PassingIsSafe`, `OneReading`).
* Beyond a slash a safe path only goes down: its segments are neither empty nor
  dots, so nothing done before is undone (`SafeSegment`, `SafeScan`). Hence what
  an entry matches by its characters lies inside the entry by its segments
  (`MatchedIsInside`), for a wildcard as well as for an exact path.
* The other way, a path that is written out plainly is not unsafe
  (`CanonicalIsSafe`), as writing keeps it clean segment by segment
  (`WrittenIsClean`), and what lies inside a plainly written entry matches its
  characters (`InsideIsMatched`).

`Scan` and `Written` are recursive functions over a path. The library's induction
theorems take the property as an operator, which the provers cannot instantiate;
`PathProofs` derives from the well-foundedness of the numbers an induction rule
that takes it as a set (`Induction`, `InductionUpTo`), and that a function defined
by recursion up to a length exists (`Iteration`).

Two assumptions are needed. `GuardAssumption` says that a wildcard entry's path
ends with a slash, as `entryMatchesPath` takes only `/**` for a wildcard and leaves
its slash. `AllowedIsNotBlocked` takes
`PlainTable`: the table's paths are written plainly and no two entries take one
request. The second half is what `Check` demands of a table, as it asks only the
first entry that matches (section 4); `MCGuard` assumes it of the table of the
run, so that TLC evaluates it.

Of liveness the half that is safety is proved: whoever is in a loop runs out of
steps. `PatienceEnds` (`PatienceRunsOut` of `ConfigLock`) shows that every step of
an acquire, and every tick of its sleep, costs it some of 4 * Timeout + 2, and
that nothing gives any back; `WritesAreFinite` (`EveryCallCounts` of `SecureWrite`)
that each call of a write is one of at most Chunks + 9; `CallsAreFinite`
(`StepsRunOut` of `Transport`) that a call goes through at most 8 * Limit + 7
steps, its redirects included. No run lists these action properties.

Only model-checked. All liveness (`EveryAcquireEnds`, `EveryWriteReturns`,
`CancelledCallReturns`): that a step which is left to do is enabled and is taken
takes ENABLED and fairness, which are outside the prover's reach. The four violated properties are, of course, not theorems.

## 6. Abstractions

* The clock is shared and never goes back. The code reads the wall clock; one
  that is set back makes the rate guard stricter, one that is set forward is
  taken at its word. `CookieJar` lets time pass between any two readings, which is
  how the injected clock, the jar's and the store's are told apart.
* The time `at` of an attempt is left out, as it is only displayed; reasons are
  kept. `lastCredentialLoginAt` is always present, as it is in every attempt
  the code writes.
* `LoginManager.Sessions` is never nil; the sessions that a submission returns
  carry no creation time, so `SaveSession` stamps them.
* A submission always returns an outcome. A process that waits for the bank for
  ever is a process that takes no step, and it can be killed.
* `ResolveApproval` has no caller yet. In the model an approval may be resolved
  in any way at any time, and "approved" is taken for proof that the login
  succeeded, for whatever attempt is in flight.
* The two entries survive a power cut independently of each other and in any
  order, unless synced; a file system that orders its journal does better.
* In `LoginManager` the config directory passes its checks; a refusal is an error
  of a step. In `CommandLine` the two files are only what commands tell apart:
  blocked or not, with a creation time or without; what the rate guard says is
  left open, and a save is one step, as kills and power cuts inside it are
  `LoginManager`'s.
* Access control lists keep a tag and a write permission per entry; the encoding
  of the attributes and the buffers of `getattrlist` are an inspection that may
  fail.
* Of a cookie that is not accepted only a count is kept, which nothing reads; the
  count is left out. Names and values are never looked into but by `valid`.
* In `Transport` the guard's verdict on each request is arbitrary.
* The readings of a path in `Guard` are those listed in section 2. A server that
  gives a meaning to other characters of a segment, such as the ";" of path
  parameters, reads a path in a way that `SentIsAllowed` does not speak of.

## 7. Not modelled

* `Password` and the credential command (`internal/secure/env.go`): one child
  process with a fixed environment, no state, and no caller in the shipped
  commands.
* Output, wording of errors, JSON text, flags and help; the entry point.
* `DeleteAttempt`, which has no caller, and an approval poller, which does not
  exist yet. Once it does, a composition of `LoginManager` with a bank would
  replace the arbitrary resolution of approvals.
* An exchange of the target between the lstat and the rename of `writeFile`: the
  directory is private, so only the owner's own processes could make one. The
  temporary file of a killed writer, whose random name no command looks for.
* The repository's fixture scan, which is a test of the repository.
