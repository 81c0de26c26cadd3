----------------------------- MODULE SecureWrite -----------------------------
(***************************************************************************)
(* secure.writeFile: a temporary file in the same directory is filled,     *)
(* synced and published over or beside the target, then the directory is   *)
(* synced and the temporary file removed on every path.  Several writers   *)
(* of one target run at once (nothing in this package takes the lock), any *)
(* call may fail, a writer may be killed, and the machine may lose power.  *)
(*                                                                         *)
(* A temporary file is known by its writer: its name is random, so no two  *)
(* writes share one.  The hard link that publishes a NoOverwrite file is   *)
(* modelled by its value, since no write to the file follows it.           *)
(***************************************************************************)
EXTENDS Naturals

CONSTANTS
  Writers,     \* the writes of one target; one that starts again writes the same
  NoFile,      \* the name has no entry
  Chunks,      \* the length of the data, in units a Write call may return
  Faults       \* the faults that may happen

AllFaults == {"error", "kill", "power_loss"}

ASSUME SecureWriteAssumption ==
  /\ NoFile \notin Writers
  /\ Chunks \in Nat \ {0}
  /\ Faults \subseteq AllFaults
  /\ {"before", "foreign"} \intersect Writers = {}

\* Contents: what a writer writes, what was there before, or something that is
\* no regular file of the user (a symlink, a directory, another user's file).
Origin == Writers \union {"before", "foreign"}

Policies == {"NoOverwrite", "Overwrite"}

File == [from : Origin, len : 0..Chunks, mode : {"0600", "umask"}, synced : BOOLEAN]

ASSUME NoFileAssumption == NoFile \notin File

VARIABLES
  pc,             \* where each writer is
  policy,         \* the overwrite policy it was called with
  result,         \* what its latest write returned: "none", "ok" or "error"
  temp,           \* its temporary file
  stuck,          \* history: the removal of its temporary file has failed
  target,         \* the entry under the target's name
  targetDisk,     \* the entries that may be there after a loss of power
  newer           \* history: whose files have been put in place since the latest
                  \* of each write was, its own included

vars == <<pc, policy, result, temp, stuck, target, targetDisk, newer>>
directory == <<target, targetDisk, newer>>

Complete(origin) ==
  [from |-> origin, len |-> Chunks, mode |-> "0600", synced |-> TRUE]

Init == /\ pc = [w \in Writers |-> "idle"]
        /\ policy \in [Writers -> Policies]
        /\ result = [w \in Writers |-> "none"]
        /\ temp = [w \in Writers |-> NoFile]
        /\ stuck = [w \in Writers |-> FALSE]
        /\ target \in {NoFile, Complete("before"), Complete("foreign")}
        /\ targetDisk = {target}
        /\ newer = [w \in Writers |-> {}]

At(w, step) == pc[w] = step
Goto(w, step) == pc' = [pc EXCEPT ![w] = step]

\* rename(2) and link(2) put the entry in place; nothing is durable yet.
Publish(file) ==
  /\ target' = file
  /\ targetDisk' = targetDisk \union {file}
  /\ newer' = [w \in Writers |->
                 CASE w = file.from   -> {w}
                   [] newer[w] # {}   -> newer[w] \union {file.from}
                   [] OTHER           -> {}]

-----------------------------------------------------------------------------
(* writeFile, call by call. *)

Start(w) == /\ pc[w] \in {"idle", "done"}
            /\ Goto(w, "open")
            /\ \E p \in Policies : policy' = [policy EXCEPT ![w] = p]
            /\ result' = [result EXCEPT ![w] = "none"]
            /\ temp' = [temp EXCEPT ![w] = NoFile]
            /\ stuck' = [stuck EXCEPT ![w] = FALSE]
            /\ newer' = [newer EXCEPT ![w] = {}]
            /\ UNCHANGED <<target, targetDisk>>

\* CheckDirectory, tempName and OpenTemp create nothing unless all succeed.
OpenTemp(w) ==
  /\ At(w, "open")
  /\ temp' = [temp EXCEPT ![w] =
                [from |-> w, len |-> 0, mode |-> "umask", synced |-> FALSE]]
  /\ Goto(w, "chmod")
  /\ UNCHANGED <<policy, result, stuck, directory>>

Chmod(w) == /\ At(w, "chmod")
            /\ temp' = [temp EXCEPT ![w].mode = "0600"]
            /\ Goto(w, "write")
            /\ UNCHANGED <<policy, result, stuck, directory>>

\* Mutant: a write of no bytes truncates the file and starts it over.
WriteStartsOver(w) ==
  /\ At(w, "write")
  /\ \E n \in 0..(Chunks - temp[w].len) :
       /\ temp' = [temp EXCEPT ![w].len = IF n = 0 THEN 0 ELSE @ + n]
       /\ Goto(w, CASE temp[w].len + n = Chunks -> "sync"
                    [] n = 0                    -> "chmod"
                    [] OTHER                    -> "write")
  /\ UNCHANGED <<policy, result, stuck, directory>>

\* Mutant: each call is given the data from its start.
WriteFromStart(w) ==
  /\ At(w, "write")
  /\ \E n \in 0..Chunks :
       /\ temp' = [temp EXCEPT ![w].len = @ + n]
       /\ Goto(w, CASE temp[w].len + n >= Chunks -> "sync"
                    [] n = 0                     -> "cleanup"
                    [] OTHER                     -> "write")
  /\ UNCHANGED <<policy, result, stuck, directory>>

\* writeAll: one Write call; one that takes nothing is io.ErrShortWrite.
Write(w) ==
  /\ At(w, "write")
  /\ \E n \in 0..(Chunks - temp[w].len) :
       /\ temp' = [temp EXCEPT ![w].len = @ + n]
       /\ Goto(w, CASE temp[w].len + n = Chunks -> "sync"
                    [] n = 0                    -> "cleanup"
                    [] OTHER                    -> "write")
  /\ UNCHANGED <<policy, result, stuck, directory>>

\* Mutant: the file is not synced.
SkipSync(w) == /\ At(w, "sync")
               /\ Goto(w, "close")
               /\ UNCHANGED <<policy, result, temp, stuck, directory>>

SyncFile(w) == /\ At(w, "sync")
               /\ temp' = [temp EXCEPT ![w].synced = TRUE]
               /\ Goto(w, "close")
               /\ UNCHANGED <<policy, result, stuck, directory>>

CloseFile(w) == /\ At(w, "close")
                /\ Goto(w, IF policy[w] = "Overwrite" THEN "lstat" ELSE "link")
                /\ UNCHANGED <<policy, result, temp, stuck, directory>>

\* Mutant: a rename in place of the link.
LinkReplaces(w) == /\ At(w, "link")
                   /\ Publish(temp[w])
                   /\ Goto(w, "unlink")
                   /\ UNCHANGED <<policy, result, temp, stuck>>

\* NoOverwrite: the link fails with EEXIST when the name is taken.
Link(w) == /\ At(w, "link")
           /\ IF target = NoFile
              THEN /\ Publish(temp[w])
                   /\ Goto(w, "unlink")
              ELSE /\ Goto(w, "cleanup")
                   /\ UNCHANGED directory
           /\ UNCHANGED <<policy, result, temp, stuck>>

UnlinkTemp(w) == /\ At(w, "unlink")
                 /\ temp' = [temp EXCEPT ![w] = NoFile]
                 /\ Goto(w, "sync_directory")
                 /\ UNCHANGED <<policy, result, stuck, directory>>

\* validateOverwriteTarget.
Lstat(w) == /\ At(w, "lstat")
            /\ Goto(w, IF target # NoFile /\ target.from = "foreign"
                       THEN "cleanup" ELSE "rename")
            /\ UNCHANGED <<policy, result, temp, stuck, directory>>

Rename(w) == /\ At(w, "rename")
             /\ Publish(temp[w])
             /\ temp' = [temp EXCEPT ![w] = NoFile]
             /\ Goto(w, "sync_directory")
             /\ UNCHANGED <<policy, result, stuck>>

\* Mutant: the directory is not synced.
ReturnUnsynced(w) == /\ At(w, "sync_directory")
                     /\ Goto(w, "done")
                     /\ result' = [result EXCEPT ![w] = "ok"]
                     /\ UNCHANGED <<policy, temp, stuck, directory>>

SyncDirectory(w) == /\ At(w, "sync_directory")
                    /\ targetDisk' = {target}
                    /\ Goto(w, "done")
                    /\ result' = [result EXCEPT ![w] = "ok"]
                    /\ UNCHANGED <<policy, temp, stuck, target, newer>>

\* Mutant: the error returns leave the temporary file to the caller.
ReturnAtOnce(w) == /\ At(w, "cleanup")
                   /\ Goto(w, "done")
                   /\ result' = [result EXCEPT ![w] = "error"]
                   /\ UNCHANGED <<policy, temp, stuck, directory>>

\* The deferred close and removal; an error of the removal is dropped.
Cleanup(w) ==
  /\ At(w, "cleanup")
  /\ \/ /\ temp' = [temp EXCEPT ![w] = NoFile]
        /\ UNCHANGED stuck
     \/ /\ "error" \in Faults
        /\ temp[w] # NoFile
        /\ stuck' = [stuck EXCEPT ![w] = TRUE]
        /\ UNCHANGED temp
  /\ Goto(w, "done")
  /\ result' = [result EXCEPT ![w] = "error"]
  /\ UNCHANGED <<policy, directory>>

-----------------------------------------------------------------------------
(* Faults. *)

Fallible == {"open", "chmod", "write", "sync", "close", "link", "unlink",
             "lstat", "rename", "sync_directory"}

\* A call fails and the function returns its error.
Fail(w) == /\ "error" \in Faults
           /\ pc[w] \in Fallible
           /\ Goto(w, "cleanup")
           /\ UNCHANGED <<policy, result, temp, stuck, directory>>

\* No deferred call runs: the temporary file stays.
Kill(w) == /\ "kill" \in Faults
           /\ pc[w] \notin {"idle", "done"}
           /\ Goto(w, "idle")
           /\ UNCHANGED <<policy, result, temp, stuck, directory>>

\* What is left of a file whose data was not synced is any part of it.
Recovered(file) ==
  IF file = NoFile \/ file.synced
  THEN {file}
  ELSE {[file EXCEPT !.len = n, !.synced = TRUE] : n \in 0..file.len}

PowerLoss == /\ "power_loss" \in Faults
             /\ target' \in UNION {Recovered(file) : file \in targetDisk}
             /\ targetDisk' = {target'}
             /\ pc' = [w \in Writers |-> "idle"]
             /\ result' = [w \in Writers |-> "none"]
             /\ temp' = [w \in Writers |-> NoFile]
             /\ stuck' = [w \in Writers |-> FALSE]
             /\ newer' = [w \in Writers |-> {}]
             /\ UNCHANGED policy

Run(w) == \/ OpenTemp(w) \/ Chmod(w) \/ Write(w) \/ SyncFile(w) \/ CloseFile(w)
          \/ Link(w) \/ UnlinkTemp(w) \/ Lstat(w) \/ Rename(w)
          \/ SyncDirectory(w) \/ Cleanup(w)

Next == \/ \E w \in Writers : Start(w) \/ Run(w) \/ Fail(w) \/ Kill(w)
        \/ PowerLoss

\* A writer that is scheduled takes its next step; nobody is bound to start.
Fairness == \A w \in Writers : WF_vars(Run(w))

Spec == Init /\ [][Next]_vars /\ Fairness

-----------------------------------------------------------------------------
(* What the secure-write primitive guarantees. *)

\* Types only.
TypeOK ==
  /\ pc \in [Writers -> Fallible \union {"idle", "cleanup", "done"}]
  /\ policy \in [Writers -> Policies]
  /\ result \in [Writers -> {"none", "ok", "error"}]
  /\ temp \in [Writers -> File \union {NoFile}]
  /\ stuck \in [Writers -> BOOLEAN]
  /\ target \in File \union {NoFile}
  /\ targetDisk \subseteq File \union {NoFile}
  /\ newer \in [Writers -> SUBSET Writers]

\* Neither a reader nor a restart ever finds a partial or wrongly protected
\* file under the target's name.  About the order write, sync, publish.
NeverTorn == \A file \in targetDisk \union {target} :
  file # NoFile => /\ file.len = Chunks
                   /\ file.mode = "0600"
                   /\ file.synced

\* The target behaves as a durable file: it is replaced as a whole, and what
\* power loss brings back is an entry that was published whole.
Seen(file) == IF file = NoFile THEN NoFile
              ELSE IF file.len = Chunks THEN file.from ELSE "torn"
Durable == INSTANCE DurableFile
  WITH Contents <- Origin \union {NoFile},
       val <- Seen(target),
       disk <- {Seen(file) : file \in UNION {Recovered(f) : f \in targetDisk}}
DurableSpec == Durable!Spec

\* Once a write has returned without an error, a loss of power brings back its
\* own file or one that was put in place after it: neither what was there before
\* nor the file of a write that it has overtaken.  About the directory sync after
\* the rename, with other writes between the two.
OkIsDurable == \A w \in Writers :
  At(w, "done") /\ result[w] = "ok"
    => \A file \in targetDisk : file # NoFile /\ file.from \in newer[w]

\* Of several NoOverwrite writes of one name at most one succeeds.  About the
\* link, which tests and publishes in one call.
OneNewFile ==
  \A v, w \in Writers :
    /\ policy[v] = "NoOverwrite" /\ At(v, "done") /\ result[v] = "ok"
    /\ policy[w] = "NoOverwrite" /\ At(w, "done") /\ result[w] = "ok"
    => v = w

\* A write that has returned leaves no temporary file, unless the system would
\* not remove it.  About the deferred cleanup on every path.
NoTempLeft == \A w \in Writers :
  At(w, "done") /\ ~stuck[w] => temp[w] = NoFile

\* Every write returns, however few bytes each Write call takes.  About the
\* loop of writeAll.
EveryWriteReturns == \A w \in Writers :
  At(w, "open") ~> pc[w] \in {"done", "idle"}

\* The calls that a write makes at most before it returns.
CallsLeft(w) ==
  CASE pc[w] \in {"idle", "done"}  -> 0
    [] At(w, "cleanup")            -> 1
    [] At(w, "sync_directory")     -> 2
    [] pc[w] \in {"unlink", "rename"} -> 3
    [] pc[w] \in {"link", "lstat"} -> 4
    [] At(w, "close")              -> 5
    [] At(w, "sync")               -> 6
    [] At(w, "write")              -> 7 + (Chunks - temp[w].len)
    [] At(w, "chmod")              -> 8 + Chunks
    [] At(w, "open")               -> 9 + Chunks

\* No step of a write is lost: each leaves fewer calls to make than before, so it
\* returns within Chunks + 9 of them.  About the loop of writeAll, where a call
\* that takes nothing must end it, and the two ways through the policies.
EveryCallCounts ==
  [][\A w \in Writers :
       /\ pc[w] \notin {"idle", "done"}
       /\ pc'[w] # pc[w] \/ temp'[w] # temp[w]
       => CallsLeft(w)' < CallsLeft(w)]_vars

-----------------------------------------------------------------------------
(* The inductive invariant that the proofs use. *)

Whole(file) == file # NoFile /\ file.len = Chunks /\ file.mode = "0600" /\ file.synced

\* A write that has put its file in place and has not returned an error.
Published(w) == \/ pc[w] \in {"unlink", "sync_directory"}
                \/ At(w, "done") /\ result[w] = "ok"

\* What each call has done to the temporary file since it was opened.
TempInv == \A w \in Writers :
  /\ pc[w] \in {"chmod", "write", "sync", "close", "link", "lstat", "rename"}
       => temp[w] # NoFile /\ temp[w].from = w
  /\ pc[w] \in {"write", "sync"} => temp[w].mode = "0600"
  /\ At(w, "sync") => temp[w].len = Chunks
  /\ pc[w] \in {"close", "link", "lstat", "rename"} => Whole(temp[w])
  /\ At(w, "sync_directory") => temp[w] = NoFile

\* A link that found the name taken publishes nothing, so of the NoOverwrite
\* writes at most one is past its link.
LinkInv ==
  /\ \A w \in Writers :
       /\ pc[w] \in {"link", "unlink"} => policy[w] = "NoOverwrite"
       /\ pc[w] \in {"lstat", "rename"} => policy[w] = "Overwrite"
  /\ \A w \in Writers : Published(w) =>
       target # NoFile /\ target.from \in newer[w]
  /\ \A v, w \in Writers :
       /\ Published(v) /\ policy[v] = "NoOverwrite"
       /\ Published(w) /\ policy[w] = "NoOverwrite"
       => v = w

IInv == /\ TypeOK /\ TempInv /\ LinkInv /\ target \in targetDisk
        /\ NeverTorn /\ OkIsDurable /\ NoTempLeft
==============================================================================
