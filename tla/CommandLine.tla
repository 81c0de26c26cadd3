---------------------------- MODULE CommandLine ----------------------------
(***************************************************************************)
(* One invocation of fnb from its arguments to its exit code: openAuthState *)
(* and openLockedConfig of internal/cli/root.go, Resolve and OpenDir of    *)
(* internal/config/config.go, the commands as far as they touch the two    *)
(* state files, and the way of an error to the exit code.                  *)
(*                                                                         *)
(* Several invocations share one path.  Between any two of their calls the *)
(* outside world may put something else at the path, change a directory's  *)
(* metadata, or kill a process.  The lock is the abstract one of           *)
(* ConfigMutex, granted at once or refused; its polling is ConfigLock.     *)
(***************************************************************************)
EXTENDS DirectoryCheck

CONSTANTS
  Procs,      \* the invocations
  NoProc,     \* nobody
  Dirs,       \* directories, as objects: whatever their names
  NoDir,      \* none of them
  Possible,   \* Possible[platform]: the metadata that directories may have
  Kept,       \* what the two files of a directory may hold at first
  MaxEvents   \* bound: how often the outside world interferes

\* What the path of the configuration directory names.
PathEntry == [kind : {"nothing", "file"}, dir : {NoDir}]
             \union [kind : {"link", "directory"}, dir : Dirs]
Nothing == [kind |-> "nothing", dir |-> NoDir]
At(d) == [kind |-> "directory", dir |-> d]

Commands == {"stub", "login", "status", "logout", "clear-lockout"}
Attempts == {"absent", "ok", "blocked"}        \* blocked: in_flight too
Sessions == {"absent", "dated", "undated"}     \* undated: no creation time
Files == [attempt : Attempts, session : Sessions]
Empty == [attempt |-> "absent", session |-> "absent"]

\* A directory that does not exist yet.
Unborn == [mine |-> FALSE, groupWrite |-> FALSE, otherWrite |-> FALSE,
           access |-> << >>, default |-> << >>, first |-> FALSE, second |-> FALSE]

\* Where an invocation may be.
Checked == "checked"
Opening == {"lstat", "mkdir", "open", "same", "mode", "first", "second", Checked}
Pinned == {Checked, "load", "lock"}
Locked == {"body", "session", "prompt", "clear", "print", "release"}


ASSUME CommandLineAssumption ==
  /\ NoProc \notin Procs /\ NoDir \notin Dirs
  /\ \A platform \in Platforms :
       /\ Possible[platform] \subseteq Metadata
       /\ \A m \in Possible[platform] : ModeFollowsAcl(platform, m)
  /\ Kept \subseteq Files
  /\ MaxEvents \in Nat

VARIABLES
  platform,   \* what the program was built for
  path,       \* what is at the path
  born,       \* the directories that exist
  meta,       \* their metadata
  files,      \* what each holds in login-attempt.json and session.json
  lock,       \* who holds the lock of each directory
  events,     \* how often the world has interfered
  pc,         \* where each invocation is
  command,    \* which command it runs, once that matters
  opening,    \* the first opening of the directory, for config.toml, or the second
  made,       \* OpenDir: created
  looked,     \* OpenDir: info, the directory found by Lstat
  root,       \* the open root, or NoDir
  shown,      \* what auth status has read
  err,        \* the error on its way to Execute
  passed,     \* history: the directories at the path since this opening began
  steady,     \* history: the root has not changed since CheckRoot began
  refused,    \* history: OpenDir called the directory unsafe
  wrote,      \* history: it changed a state file
  place       \* history: the directory whose lock it got

world == <<platform, path, born, meta, files, lock, events>>
proc == <<pc, command, opening, made, looked, root, shown, err, passed, steady,
          refused, wrote, place>>
vars == <<world, proc>>

\* Errors: "plain" and "unsafe" carry no code, the others are exit slugs.
Code == [usage |-> 2, unsafe_output_dir |-> 2, configuration |-> 3,
         lock_contention |-> 5, not_implemented |-> 1, login_blocked |-> 3,
         rate_limited |-> 5, interactive_required |-> 2,
         confirmation_required |-> 2, internal_error |-> 1]
Errors == {"none", "plain", "unsafe"} \union DOMAIN Code

\* Mutant: an unsafe directory is an error like any other.
ConfigurationErrorUncased(e) == IF e \in DOMAIN Code THEN e ELSE "configuration"

ConfigurationError(e) == CASE e \in DOMAIN Code -> e
                           [] e = "unsafe" -> "unsafe_output_dir"
                           [] OTHER -> "configuration"

\* execute, the exit code: an error without a code is internal.
ExitCode(e) == CASE e = "none" -> 0
                 [] e \in DOMAIN Code -> Code[e]
                 [] OTHER -> Code["internal_error"]

Init == /\ platform \in Platforms
        /\ born \in SUBSET Dirs
        /\ path \in {Nothing} \union {At(d) : d \in born}
        /\ meta \in [Dirs -> Possible[platform] \union {Unborn}]
        /\ \A d \in Dirs : meta[d] = Unborn <=> d \notin born
        /\ files \in [Dirs -> Kept \union {Empty}]
        /\ \A d \in Dirs : IF d \in born THEN files[d] \in Kept ELSE files[d] = Empty
        /\ lock = [d \in Dirs |-> NoProc]
        /\ events = 0
        /\ pc = [p \in Procs |-> "start"]
        /\ command = [p \in Procs |-> "unread"]
        /\ opening = [p \in Procs |-> 1]
        /\ made = [p \in Procs |-> FALSE]
        /\ looked = [p \in Procs |-> NoDir]
        /\ root = [p \in Procs |-> NoDir]
        /\ shown = [p \in Procs |-> Empty]
        /\ err = [p \in Procs |-> "none"]
        /\ passed = [p \in Procs |-> {}]
        /\ steady = [p \in Procs |-> FALSE]
        /\ refused = [p \in Procs |-> FALSE]
        /\ wrote = [p \in Procs |-> FALSE]
        /\ place = [p \in Procs |-> NoDir]

Goto(p, label) == pc' = [pc EXCEPT ![p] = label]
Passing(d) == [q \in Procs |-> IF pc[q] \in Opening THEN passed[q] \union {d}
                                                      ELSE passed[q]]
Found == IF path.kind = "directory" THEN {path.dir} ELSE {}

\* The variables of OpenDir, of status and the open root are gone.
Forget(p) == /\ opening' = [opening EXCEPT ![p] = 1]
             /\ shown' = [shown EXCEPT ![p] = Empty]
             /\ made' = [made EXCEPT ![p] = FALSE]
             /\ looked' = [looked EXCEPT ![p] = NoDir]
             /\ root' = [root EXCEPT ![p] = NoDir]
             /\ passed' = [passed EXCEPT ![p] = {}]
             /\ steady' = [steady EXCEPT ![p] = FALSE]

\* Out of openLockedConfig or openAuthState with an error, the root closed.
Leave(p, e) == /\ Goto(p, "done")
               /\ err' = [err EXCEPT ![p] = e]
               /\ Forget(p)

\* The same with an error of config.Resolve or config.OpenDir.
Refuse(p, e) == /\ Leave(p, ConfigurationError(e))
                /\ refused' = [refused EXCEPT ![p] = e = "unsafe"]
                /\ UNCHANGED <<world, command, wrote, place>>

-----------------------------------------------------------------------------
\* Cobra's part: flags, arguments, --json with --plain; then a command that
\* needs no directory, or config.Dir, which may fail to find the home.
Usage(p) == /\ pc[p] = "start"
            /\ Goto(p, "done")
            /\ err' \in {[err EXCEPT ![p] = "usage"], err}
            /\ UNCHANGED <<world, command, opening, made, looked, root, shown,
                           passed, steady, refused, wrote, place>>

NoHome(p) == pc[p] = "start" /\ Refuse(p, "plain")

Begin(p) == /\ pc[p] = "start"
            /\ Goto(p, "lstat")
            /\ passed' = [passed EXCEPT ![p] = Found]
            /\ UNCHANGED <<world, command, opening, made, looked, root, shown,
                           err, steady, refused, wrote, place>>

\* Mutant: Stat for Lstat.
Stat(p) == /\ pc[p] = "lstat"
           /\ path.kind \in {"directory", "link"}
           /\ looked' = [looked EXCEPT ![p] = path.dir]
           /\ Goto(p, "open")
           /\ UNCHANGED <<world, command, opening, made, root, shown, err,
                          passed, steady, refused, wrote, place>>

\* Lstat finds a directory.
Lstat(p) == /\ pc[p] = "lstat"
            /\ path.kind = "directory"
            /\ looked' = [looked EXCEPT ![p] = path.dir]
            /\ Goto(p, "open")
            /\ UNCHANGED <<world, command, opening, made, root, shown, err,
                           passed, steady, refused, wrote, place>>

LstatNothing(p) == /\ pc[p] = "lstat"
                   /\ path = Nothing /\ ~made[p]
                   /\ Goto(p, "mkdir")
                   /\ UNCHANGED <<world, command, opening, made, looked, root,
                                  shown, err, passed, steady, refused, wrote, place>>

\* A symlink or a file; no directory even after MkdirAll, or an error.
LstatOther(p) == /\ pc[p] = "lstat"
                 /\ \/ path.kind \in {"link", "file"} /\ Refuse(p, "unsafe")
                    \/ path = Nothing /\ made[p] /\ Refuse(p, "plain")
                    \/ Refuse(p, "plain")

\* MkdirAll is content with a directory, or a link to one, that is there now.
Mkdir(p) == /\ pc[p] = "mkdir"
            /\ \/ /\ path.kind \in {"directory", "link"}
                  /\ UNCHANGED <<path, born, meta, passed>>
               \/ /\ path = Nothing
                  /\ \E d \in Dirs \ born, m \in Possible[platform] :
                       /\ ModeIsSafe(m)
                       /\ meta' = [meta EXCEPT ![d] = m]
                       /\ path' = At(d)
                       /\ born' = born \union {d}
                       /\ passed' = Passing(d)
            /\ made' = [made EXCEPT ![p] = TRUE]
            /\ Goto(p, "lstat")
            /\ UNCHANGED <<platform, files, lock, events, command,
                           opening, looked, root, shown, err, steady, refused, wrote, place>>

MkdirFails(p) == pc[p] = "mkdir" /\ Refuse(p, "plain")

\* os.OpenRoot follows a link.
OpenRoot(p) == /\ pc[p] = "open"
               /\ path.kind \in {"directory", "link"}
               /\ root' = [root EXCEPT ![p] = path.dir]
               /\ Goto(p, "same")
               /\ UNCHANGED <<world, command, opening, made, looked, shown, err,
                              passed, steady, refused, wrote, place>>

OpenRootFails(p) == pc[p] \in {"open", "same"} /\ Refuse(p, "plain")

\* Mutant: the root is not compared with what Lstat found.
NotCompared(p) == /\ pc[p] = "same"
                  /\ Goto(p, "mode")
                  /\ UNCHANGED <<world, command, opening, made, looked, root,
                                 shown, err, passed, steady, refused, wrote, place>>

SameFile(p) == /\ pc[p] = "same"
               /\ root[p] = looked[p]
               /\ Goto(p, "mode")
               /\ UNCHANGED <<world, command, opening, made, looked, root,
                              shown, err, passed, steady, refused, wrote, place>>

Changed(p) == /\ pc[p] = "same"
              /\ root[p] # looked[p]
              /\ Refuse(p, "unsafe")

\* CheckRoot: owner and mode, then one inspection after the other.
Here(p) == meta[root[p]]

CheckMode(p) == /\ pc[p] = "mode"
                /\ ModeIsSafe(Here(p))
                /\ steady' = [steady EXCEPT ![p] = TRUE]
                /\ Goto(p, "first")
                /\ UNCHANGED <<world, command, opening, made, looked, root,
                               shown, err, passed, refused, wrote, place>>

InspectFirst(p) ==
  /\ pc[p] = "first"
  /\ LET verdict == FirstInspection(platform, Here(p))
     IN /\ verdict # "unsafe"
        /\ Goto(p, IF verdict = "safe" THEN Checked ELSE "second")
  /\ UNCHANGED <<world, command, opening, made, looked, root, shown, err,
                 passed, steady, refused, wrote, place>>

InspectSecond(p) == /\ pc[p] = "second"
                    /\ SecondInspection(platform, Here(p)) = "safe"
                    /\ Goto(p, Checked)
                    /\ UNCHANGED <<world, command, opening, made, looked, root,
                                   shown, err, passed, steady, refused, wrote, place>>

\* A violation, or an inspection that fails.
CheckFails(p) ==
  /\ \/ pc[p] = "mode" /\ ~ModeIsSafe(Here(p))
     \/ pc[p] = "first" /\ FirstInspection(platform, Here(p)) = "unsafe"
     \/ pc[p] = "second" /\ SecondInspection(platform, Here(p)) = "unsafe"
     \/ pc[p] \in {"mode", "first"}     \* Stat or Open of "." fails
  /\ Refuse(p, "unsafe")

\* What an action on a directory does to the histories of those who have it open.
Disturb(d, m) == /\ meta' = [meta EXCEPT ![d] = m]
                 /\ steady' = [q \in Procs |-> steady[q] /\ (root[q] = d => m = meta[d])]

\* OpenDir returns; a directory it thinks it has created gets mode 0700.
Opened(p) == IF opening[p] = 1 THEN "load" ELSE "lock"

Secure(p) == /\ pc[p] = Checked
             /\ IF made[p] THEN Disturb(root[p], Tightened(platform, Here(p)))
                           ELSE UNCHANGED <<meta, steady>>
             /\ Goto(p, Opened(p))
             /\ made' = [made EXCEPT ![p] = FALSE]
             /\ looked' = [looked EXCEPT ![p] = NoDir]
             /\ UNCHANGED <<platform, path, born, files, lock, events,
                            command, opening, root, shown, err,
                            passed, refused, wrote, place>>

ChmodFails(p) == pc[p] = Checked /\ made[p] /\ Refuse(p, "plain")

\* load and the checks of Resolve on what config.toml and FNB_USERNAME say; then
\* the root is closed and OpenDir called again.
Load(p) == /\ pc[p] = "load"
           /\ Goto(p, "lstat")
           /\ opening' = [opening EXCEPT ![p] = 2]
           /\ root' = [root EXCEPT ![p] = NoDir]
           /\ passed' = [passed EXCEPT ![p] = Found]
           /\ steady' = [steady EXCEPT ![p] = FALSE]
           /\ UNCHANGED <<world, command, made, looked, shown, err, refused,
                          wrote, place>>

Misconfigured(p) == pc[p] = "load" /\ Refuse(p, "plain")

-----------------------------------------------------------------------------
\* Mutant: the lock is taken whoever has it.
LockBlindly(p) == /\ pc[p] = "lock"
                  /\ lock' = [lock EXCEPT ![root[p]] = p]
                  /\ place' = [place EXCEPT ![p] = root[p]]
                  /\ Goto(p, "body")
                  /\ command' \in {[command EXCEPT ![p] = c] : c \in Commands}
                  /\ UNCHANGED <<platform, path, born, meta, files,
                                 events, opening, made, looked, root,
                                 shown, err, passed, steady, refused, wrote>>

Lock(p) == /\ pc[p] = "lock"
           /\ lock[root[p]] = NoProc
           /\ lock' = [lock EXCEPT ![root[p]] = p]
           /\ place' = [place EXCEPT ![p] = root[p]]
           /\ Goto(p, "body")
           /\ command' \in {[command EXCEPT ![p] = c] : c \in Commands}
           /\ UNCHANGED <<platform, path, born, meta, files, events,
                          opening, made, looked, root, shown, err,
                          passed, steady, refused, wrote>>

\* Contention, or an error of AcquireLock, which has no code.
LockFails(p) == /\ pc[p] = "lock"
                /\ \/ lock[root[p]] # NoProc /\ Leave(p, "lock_contention")
                   \/ Leave(p, "plain")
                /\ UNCHANGED <<world, command, refused, wrote, place>>

\* A step of a command with the lock held: to the next label, with an error or not.
Step(p, label, e) == /\ Goto(p, label)
                     /\ err' = [err EXCEPT ![p] = e]
                     /\ UNCHANGED <<platform, path, born, meta, lock, events,
                                    command, opening, made, looked, root, passed,
                                    steady, refused, place>>
Return(p, e) == Step(p, "release", e) /\ UNCHANGED shown
Pure(p) == UNCHANGED <<files, wrote>>

\* An I/O error while a state file is read, or while the answer is written.
IOError(p) == /\ \/ pc[p] = "body" /\ command[p] \in {"login", "status", "logout"}
                 \/ pc[p] \in {"session", "prompt", "clear", "print"}
              /\ Return(p, "plain") /\ Pure(p)

Stub(p) == /\ pc[p] = "body" /\ command[p] = "stub"
           /\ Return(p, "not_implemented") /\ Pure(p)

\* Preflight; what the rate guard says depends on the clock.
Login(p) == /\ pc[p] = "body" /\ command[p] = "login"
            /\ \/ files[root[p]].attempt = "blocked" /\ Return(p, "login_blocked")
               \/ files[root[p]].attempt = "ok" /\ Return(p, "rate_limited")
               \/ files[root[p]].attempt # "blocked" /\ Return(p, "not_implemented")
            /\ Pure(p)

StatusAttempt(p) == /\ pc[p] = "body" /\ command[p] = "status"
                    /\ shown' = [shown EXCEPT ![p].attempt = files[root[p]].attempt]
                    /\ Step(p, "session", "none") /\ Pure(p)

\* LoadSession, which deletes a session that has no creation time.
StatusSession(p) ==
  /\ pc[p] = "session"
  /\ LET d == root[p]
         dropped == files[d].session = "undated"
     IN /\ files' = [files EXCEPT ![d].session = IF dropped THEN "absent" ELSE @]
        /\ wrote' = [wrote EXCEPT ![p] = @ \/ dropped]
        /\ shown' = [shown EXCEPT ![p].session = files'[d].session]
        /\ \/ Step(p, "print", "none")
           \/ dropped /\ Step(p, "release", "plain")     \* the sync fails

\* DeleteSession.
Logout(p) ==
  /\ pc[p] = "body" /\ command[p] = "logout"
  /\ LET d == root[p]
         there == files[d].session # "absent"
     IN /\ files' = [files EXCEPT ![d].session = "absent"]
        /\ wrote' = [wrote EXCEPT ![p] = @ \/ there]
        /\ \/ Step(p, "print", "none")
           \/ there /\ Step(p, "release", "plain")
  /\ UNCHANGED shown

\* ClearLockout asks before it reads, and may wait for its answer for ever.
Ask(p) == /\ pc[p] = "body" /\ command[p] = "clear-lockout"
          /\ \/ Step(p, "prompt", "none") /\ UNCHANGED shown
             \/ Return(p, "interactive_required")
          /\ Pure(p)

Answer(p) == /\ pc[p] = "prompt"
             /\ \/ Step(p, "clear", "none") /\ UNCHANGED shown
                \/ Return(p, "confirmation_required")
             /\ Pure(p)

NothingToClear(p) == /\ pc[p] = "clear"
                     /\ files[root[p]].attempt = "absent"
                     /\ Step(p, "print", "none") /\ UNCHANGED shown
                     /\ Pure(p)

\* Mutant: an error of SaveAttempt goes through configurationError.
ClearUncoded(p) ==
  /\ pc[p] = "clear"
  /\ files[root[p]].attempt # "absent"
  /\ files' = [files EXCEPT ![root[p]].attempt = "ok"]
  /\ wrote' = [wrote EXCEPT ![p] = TRUE]
  /\ \/ Step(p, "print", "none")
     \/ Step(p, "release", ConfigurationError("plain"))
  /\ UNCHANGED shown

\* SaveAttempt in a directory that is still private; its last sync may fail.
Clear(p) == /\ pc[p] = "clear"
            /\ files[root[p]].attempt # "absent"
            /\ CheckRoot(platform, Here(p))
            /\ files' = [files EXCEPT ![root[p]].attempt = "ok"]
            /\ wrote' = [wrote EXCEPT ![p] = TRUE]
            /\ Step(p, "print", "none") \/ Step(p, "release", "plain")
            /\ UNCHANGED shown

\* The directory is not private any more: an error without a code.
ClearRefused(p) == /\ pc[p] = "clear"
                   /\ files[root[p]].attempt # "absent"
                   /\ ~CheckRoot(platform, Here(p))
                   /\ Return(p, "unsafe") /\ Pure(p)

Write(p) == /\ pc[p] = "print"
            /\ Return(p, "none") /\ Pure(p)

\* The deferred release: the lock, then the root.
Unlocked(p) == [d \in Dirs |-> IF lock[d] = p THEN NoProc ELSE lock[d]]

Release(p) == /\ pc[p] = "release"
              /\ lock' = Unlocked(p)
              /\ Leave(p, err[p])
              /\ UNCHANGED <<platform, path, born, meta, files, events,
                             command, refused, wrote, place>>

-----------------------------------------------------------------------------
\* The outside world.
Interfere == /\ events < MaxEvents
             /\ events' = events + 1

\* Something else is put at the path; what was there lives on elsewhere.
Exchange == /\ Interfere
            /\ \E entry \in PathEntry :
                 /\ entry.dir \in born \union {NoDir}
                 /\ path' = entry
                 /\ passed' = IF entry.kind = "directory"
                              THEN Passing(entry.dir)
                              ELSE passed
            /\ UNCHANGED <<platform, born, meta, files, lock, pc, command,
                           opening, made, looked, root, shown, err, steady,
                           refused, wrote, place>>

Change == /\ Interfere
          /\ \E d \in born, m \in Possible[platform] : Disturb(d, m)
          /\ UNCHANGED <<platform, path, born, files, lock, pc, command,
                         opening, made, looked, root, shown, err, passed,
                         refused, wrote, place>>

Kill(p) == /\ Interfere
           /\ pc[p] \notin {"done", "dead"}
           /\ Goto(p, "dead")
           /\ lock' = Unlocked(p)
           /\ Forget(p)
           /\ command' = [command EXCEPT ![p] = "unread"]
           /\ err' = [err EXCEPT ![p] = "none"]
           /\ wrote' = [wrote EXCEPT ![p] = FALSE]
           /\ place' = [place EXCEPT ![p] = NoDir]
           /\ UNCHANGED <<platform, path, born, meta, files, refused>>

OpenDir(p) == \/ Lstat(p) \/ LstatNothing(p) \/ LstatOther(p)
              \/ Mkdir(p) \/ MkdirFails(p)
              \/ OpenRoot(p) \/ OpenRootFails(p) \/ SameFile(p) \/ Changed(p)
              \/ CheckMode(p) \/ InspectFirst(p) \/ InspectSecond(p) \/ CheckFails(p)
              \/ Secure(p) \/ ChmodFails(p)

Body(p) == \/ IOError(p) \/ Stub(p) \/ Login(p) \/ StatusAttempt(p) \/ StatusSession(p)
           \/ Logout(p) \/ Ask(p) \/ Answer(p) \/ NothingToClear(p)
           \/ Clear(p) \/ ClearRefused(p) \/ Write(p)

Next == \/ \E p \in Procs :
             \/ Usage(p) \/ NoHome(p) \/ Begin(p) \/ OpenDir(p)
             \/ Load(p) \/ Misconfigured(p)
             \/ Lock(p) \/ LockFails(p) \/ Body(p) \/ Release(p)
             \/ Kill(p)
        \/ Exchange \/ Change

Spec == Init /\ [][Next]_vars

-----------------------------------------------------------------------------
TypeOK ==
  /\ platform \in Platforms
  /\ path \in PathEntry
  /\ born \subseteq Dirs
  /\ meta \in [Dirs -> Metadata]
  /\ files \in [Dirs -> Files]
  /\ lock \in [Dirs -> Procs \union {NoProc}]
  /\ events \in Nat
  /\ pc \in [Procs -> {"start", "done", "dead"} \union Opening \union Pinned
                      \union Locked]
  /\ command \in [Procs -> Commands \union {"unread"}]
  /\ opening \in [Procs -> {1, 2}]
  /\ made \in [Procs -> BOOLEAN]
  /\ looked \in [Procs -> Dirs \union {NoDir}]
  /\ root \in [Procs -> Dirs \union {NoDir}]
  /\ shown \in [Procs -> Files]
  /\ err \in [Procs -> Errors]
  /\ passed \in [Procs -> SUBSET Dirs]
  /\ steady \in [Procs -> BOOLEAN]
  /\ refused \in [Procs -> BOOLEAN]
  /\ wrote \in [Procs -> BOOLEAN]
  /\ place \in [Procs -> Dirs \union {NoDir}]

\* A directory that passed CheckRoot and has not changed since is private to its
\* owner, as the system's own access check decides it.  About CheckRoot, which
\* reads owner and mode, and then each list, at different moments, and never
\* looks at a permission in a list.  Of a directory that changes between two of
\* these moments nothing is claimed.
PinnedIsPrivate ==
  \A p \in Procs : pc[p] \in {Checked, "load", "lock"} \union Locked /\ steady[p]
                   => Private(platform, meta[root[p]])

\* Whatever is exchanged while OpenDir runs, the root it returns was itself at
\* the path while it ran, and was not reached through a symlink only.  About
\* Lstat, OpenRoot and SameFile.
PinnedWasAtThePath ==
  \A p \in Procs : pc[p] \in {Checked, "load", "lock"} => root[p] \in passed[p]

\* What auth status prints is what the two files hold when it prints, however
\* many commands run and whatever becomes of the path.  About the order of
\* openLockedConfig, the two reads, the output and the deferred release.
StatusIsCurrent ==
  \A p \in Procs :
    pc[p] = "print" /\ command[p] = "status" =>
      shown[p] = files[root[p]]

\* The effect that exit code 0 stands for.
Done(p) == CASE command[p] = "logout" -> files[place[p]].session = "absent"
             [] command[p] = "clear-lockout" -> files[place[p]].attempt # "blocked"
             [] OTHER -> command[p] = "status"

\* The exit code tells a script what has become of the two files: with a code
\* other than 0 and 1 the command changed neither, with 0 it did what it was
\* asked to, and unsafe_output_dir says that OpenDir refused the directory
\* before there was a lock file.  About the errors of every layer on their way
\* through configurationError and execute.
ExitTellsTheOutcome ==
  \A p \in Procs : pc[p] = "done" =>
    /\ ExitCode(err[p]) \notin {0, 1} => ~wrote[p]
    /\ ExitCode(err[p]) = 0 /\ place[p] # NoDir => Done(p)
    /\ refused[p] <=> err[p] = "unsafe_output_dir"
    /\ refused[p] => place[p] = NoDir

\* A command has the lock of the directory it works in, and only of that one.
HoldsItsLock ==
  \A p \in Procs : \A d \in Dirs : lock[d] = p <=> pc[p] \in Locked /\ root[p] = d

\* Nobody but the holder of a directory's lock changes its two files, in a step
\* of its own command.  About openLockedConfig, which hands a command the root
\* whose lock it took, whatever is at the path by then.
FilesChangeUnderLock ==
  [][\A d \in Dirs : files'[d] # files[d] =>
       \E p \in Procs : lock[d] = p /\ pc'[p] # pc[p] /\ pc'[p] \in Locked]_vars

\* The lock of every directory is the abstract one, though the invocations that
\* ask for it come and go and the path names one directory after the other.
\* About AcquireLock and Close as openLockedConfig uses them.
Mutex(d) == INSTANCE ConfigMutex
  WITH holder <- lock[d], waiting <- {p \in Procs : pc[p] = "lock" /\ root[p] = d}
EachLockIsAMutex == \A d \in Dirs : Mutex(d)!Spec

-----------------------------------------------------------------------------
\* What the proofs need beside the properties: an open root exists,
RootInv ==
  /\ path.kind \in {"link", "directory"} => path.dir \in born
  /\ \A d \in Dirs : ModeFollowsAcl(platform, meta[d])
  /\ \A p \in Procs :
       /\ root[p] # NoDir => root[p] \in born
       /\ pc[p] \in {"same", "mode", "first", "second"} \union Pinned \union Locked
            => root[p] # NoDir

\* the checks that a steady root has behind it,
Behind(label, os, m) ==
  /\ label \in {"first", "second"} => ModeIsSafe(m)
  /\ label = "second" => FirstInspection(os, m) = "undecided"
  /\ label \in Pinned \union Locked => CheckRoot(os, m)
CheckInv == \A p \in Procs : steady[p] => Behind(pc[p], platform, Here(p))

\* the directories that have been at the path,
PathInv ==
  \A p \in Procs :
    /\ pc[p] \in Opening => Found \subseteq passed[p]
    /\ pc[p] \in {"open", "same"} => looked[p] \in passed[p]
    /\ pc[p] \in {"mode", "first", "second"} \union Pinned => root[p] \in passed[p]

\* what a command has read,
ReadInv ==
  \A p \in Procs :
    /\ pc[p] = "session" => /\ command[p] = "status"
                            /\ shown[p].attempt = files[root[p]].attempt
    /\ pc[p] \in {"prompt", "clear"} => command[p] = "clear-lockout"

\* and what it has done, before and after its return.
ExitInv ==
  \A p \in Procs :
    /\ pc[p] \notin Locked \union {"done", "dead"} =>
         place[p] = NoDir /\ err[p] = "none" /\ ~wrote[p] /\ ~refused[p]
    /\ pc[p] \in Locked => /\ place[p] = root[p] /\ ~refused[p]
                           /\ err[p] # "unsafe_output_dir"
    /\ pc[p] \in {"body", "session", "prompt", "clear"} => ~wrote[p]
    /\ wrote[p] /\ pc[p] \in {"release", "done"} => err[p] \in {"none", "plain"}
    /\ pc[p] = "print" => Done(p)
    /\ pc[p] = "release" /\ err[p] = "none" => Done(p)

IInv == /\ TypeOK /\ HoldsItsLock /\ RootInv /\ CheckInv /\ PathInv /\ ReadInv
        /\ StatusIsCurrent /\ ExitInv /\ ExitTellsTheOutcome
==============================================================================
