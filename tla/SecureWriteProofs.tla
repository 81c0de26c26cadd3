------------------------- MODULE SecureWriteProofs -------------------------
(***************************************************************************)
(* Proofs about the secure-write primitive, for any number of writers with *)
(* any policies, any length of the data and any faults.                    *)
(***************************************************************************)
EXTENDS SecureWrite, TLAPS

USE SecureWriteAssumption DEF At, Goto, directory

-----------------------------------------------------------------------------
(* Files. *)

LEMMA EmptyFileType ==
  ASSUME NEW w \in Writers
  PROVE  [from |-> w, len |-> 0, mode |-> "umask", synced |-> FALSE] \in File
BY DEF File, Origin

LEMMA CompleteType ==
  ASSUME NEW origin \in Origin
  PROVE  /\ Complete(origin) \in File
         /\ Complete(origin).len = Chunks
         /\ Complete(origin).mode = "0600"
         /\ Complete(origin).synced
BY DEF Complete, File

\* A file whose data was synced comes back as it was.
LEMMA WholeRecovers ==
  ASSUME NeverTorn, NEW file \in targetDisk
  PROVE  Recovered(file) = {file}
BY DEF NeverTorn, Recovered

-----------------------------------------------------------------------------
(* Types. *)

LEMMA TypeStep ==
  ASSUME TypeOK, TempInv, target \in targetDisk, NeverTorn, [Next]_vars
  PROVE  TypeOK'
<1> USE NoFileAssumption DEF TypeOK
<1>1. ASSUME NEW w \in Writers, Start(w)
      PROVE  TypeOK'
  BY <1>1 DEF Start, Fallible
<1>2. ASSUME NEW w \in Writers, Run(w)
      PROVE  TypeOK'
  <2>1. CASE OpenTemp(w)
    <3>1. temp' \in [Writers -> File \union {NoFile}]
      BY <2>1, EmptyFileType DEF OpenTemp
    <3> QED BY <2>1, <3>1 DEF OpenTemp, Fallible
  <2>2. CASE Chmod(w)
    <3>1. temp[w] \in File BY <2>2 DEF Chmod, TempInv
    <3>2. [temp[w] EXCEPT !.mode = "0600"] \in File BY <3>1 DEF File
    <3> QED BY <2>2, <3>2 DEF Chmod, Fallible
  <2>3. CASE Write(w)
    <3>1. temp[w] \in File BY <2>3 DEF Write, TempInv
    <3>2. PICK n \in 0..(Chunks - temp[w].len) :
            /\ temp' = [temp EXCEPT ![w].len = @ + n]
            /\ pc' = [pc EXCEPT ![w] =
                 CASE temp[w].len + n = Chunks -> "sync"
                   [] n = 0                    -> "cleanup"
                   [] OTHER                    -> "write"]
      BY <2>3 DEF Write
    <3>3. temp[w].len + n \in 0..Chunks BY <3>1, <3>2 DEF File
    <3>4. [temp[w] EXCEPT !.len = @ + n] \in File BY <3>1, <3>3 DEF File
    <3> QED BY <2>3, <3>2, <3>4 DEF Write, Fallible
  <2>4. CASE SyncFile(w)
    <3>1. temp[w] \in File BY <2>4 DEF SyncFile, TempInv
    <3>2. [temp[w] EXCEPT !.synced = TRUE] \in File BY <3>1 DEF File
    <3> QED BY <2>4, <3>2 DEF SyncFile, Fallible
  <2>5. CASE CloseFile(w) BY <2>5 DEF CloseFile, Fallible
  <2>6. CASE Link(w) \/ Rename(w)
    <3>1. temp[w] \in File /\ temp[w].from = w
      BY <2>6 DEF Link, Rename, TempInv
    <3>2. newer' \in [Writers -> SUBSET Writers]
      BY <2>6, <3>1 DEF Link, Rename, Publish
    <3> QED BY <2>6, <3>1, <3>2 DEF Link, Rename, Publish, Fallible
  <2>7. CASE UnlinkTemp(w) \/ Lstat(w) BY <2>7 DEF UnlinkTemp, Lstat, Fallible
  <2>8. CASE SyncDirectory(w) BY <2>8 DEF SyncDirectory, Fallible
  <2>9. CASE Cleanup(w) BY <2>9 DEF Cleanup, Fallible
  <2> QED BY <1>2, <2>1, <2>2, <2>3, <2>4, <2>5, <2>6, <2>7, <2>8, <2>9 DEF Run
<1>3. ASSUME NEW w \in Writers, Fail(w) \/ Kill(w)
      PROVE  TypeOK'
  BY <1>3 DEF Fail, Kill
<1>4. CASE PowerLoss
  <2>1. target' \in targetDisk
    BY <1>4, WholeRecovers DEF PowerLoss
  <2> QED BY <1>4, <2>1 DEF PowerLoss
<1>5. CASE UNCHANGED vars BY <1>5 DEF vars
<1> QED BY <1>1, <1>2, <1>3, <1>4, <1>5 DEF Next

-----------------------------------------------------------------------------
(* The temporary file of a call, and what is left of it. *)

LEMMA TempStep ==
  ASSUME TypeOK, TempInv, NoTempLeft, [Next]_vars
  PROVE  TempInv' /\ NoTempLeft'
<1> USE NoFileAssumption DEF TypeOK, TempInv, NoTempLeft, Whole
<1>1. ASSUME NEW w \in Writers, Start(w)
      PROVE  TempInv' /\ NoTempLeft'
  BY <1>1 DEF Start
<1>2. ASSUME NEW w \in Writers, Run(w)
      PROVE  TempInv' /\ NoTempLeft'
  <2>1. CASE OpenTemp(w)
    <3>1. temp'[w] = [from |-> w, len |-> 0, mode |-> "umask", synced |-> FALSE]
      BY <2>1 DEF OpenTemp
    <3>2. temp'[w] # NoFile /\ temp'[w].from = w
      BY <3>1, EmptyFileType
    <3> QED BY <2>1, <3>2 DEF OpenTemp
  <2>2. CASE Chmod(w)
    <3>1. temp[w] \in File BY <2>2 DEF Chmod
    <3>2. [temp[w] EXCEPT !.mode = "0600"] \in File BY <3>1 DEF File
    <3>3. temp'[w] = [temp[w] EXCEPT !.mode = "0600"] BY <2>2 DEF Chmod
    <3>4. temp'[w] # NoFile /\ temp'[w].from = w /\ temp'[w].mode = "0600"
      BY <2>2, <3>1, <3>2, <3>3 DEF Chmod, File
    <3> QED BY <2>2, <3>4 DEF Chmod
  <2>3. CASE Write(w)
    <3>1. temp[w] \in File BY <2>3 DEF Write
    <3>2. PICK n \in 0..(Chunks - temp[w].len) :
            /\ temp' = [temp EXCEPT ![w].len = @ + n]
            /\ pc' = [pc EXCEPT ![w] =
                 CASE temp[w].len + n = Chunks -> "sync"
                   [] n = 0                    -> "cleanup"
                   [] OTHER                    -> "write"]
      BY <2>3 DEF Write
    <3>3. temp[w].len + n \in 0..Chunks BY <3>1, <3>2 DEF File
    <3>4. temp'[w] \in File /\ temp'[w].len = temp[w].len + n
          /\ temp'[w].mode = temp[w].mode /\ temp'[w].from = temp[w].from
      BY <3>1, <3>2, <3>3 DEF File
    <3>5. pc'[w] = "sync" => temp'[w].len = Chunks
      BY <3>2, <3>3, <3>4
    <3>6. pc'[w] \in {"sync", "cleanup", "write"} BY <3>2
    <3> QED BY <2>3, <3>2, <3>4, <3>5, <3>6 DEF Write
  <2>4. CASE SyncFile(w)
    <3>1. temp[w] \in File BY <2>4 DEF SyncFile
    <3>2. [temp[w] EXCEPT !.synced = TRUE] \in File BY <3>1 DEF File
    <3>3. temp'[w] = [temp[w] EXCEPT !.synced = TRUE] BY <2>4 DEF SyncFile
    <3>4. temp'[w] \in File /\ temp'[w] = [temp[w] EXCEPT !.synced = TRUE]
      BY <3>2, <3>3
    <3>5. /\ temp'[w].len = temp[w].len /\ temp'[w].mode = temp[w].mode
          /\ temp'[w].from = temp[w].from /\ temp'[w].synced = TRUE
      BY <3>1, <3>4 DEF File
    <3>6. /\ temp[w].len = Chunks /\ temp[w].mode = "0600"
          /\ temp[w].from = w /\ temp'[w] # NoFile
      BY <2>4, <3>4 DEF SyncFile
    <3>7. temp'[w] # NoFile /\ Whole(temp'[w]) /\ temp'[w].from = w
      BY <3>5, <3>6
    <3>8. /\ \A v \in Writers \ {w} : temp'[v] = temp[v] /\ pc'[v] = pc[v]
          /\ pc'[w] = "close"
      BY <2>4 DEF SyncFile
    <3>9. UNCHANGED <<result, stuck>> BY <2>4 DEF SyncFile
    <3> HIDE DEF Whole
    <3> QED BY <3>7, <3>8, <3>9
  <2>5. CASE CloseFile(w) BY <2>5 DEF CloseFile
  <2>6. CASE Link(w) BY <2>6 DEF Link
  <2>7. CASE UnlinkTemp(w) BY <2>7 DEF UnlinkTemp
  <2>8. CASE Lstat(w) BY <2>8 DEF Lstat
  <2>9. CASE Rename(w) BY <2>9 DEF Rename
  <2>10. CASE SyncDirectory(w) BY <2>10 DEF SyncDirectory
  <2>11. CASE Cleanup(w) BY <2>11 DEF Cleanup
  <2> QED BY <1>2, <2>1, <2>2, <2>3, <2>4, <2>5, <2>6, <2>7, <2>8, <2>9,
             <2>10, <2>11 DEF Run
<1>3. ASSUME NEW w \in Writers, Fail(w) \/ Kill(w)
      PROVE  TempInv' /\ NoTempLeft'
  BY <1>3 DEF Fail, Kill
<1>4. CASE PowerLoss BY <1>4 DEF PowerLoss
<1>5. CASE UNCHANGED vars BY <1>5 DEF vars
<1> QED BY <1>1, <1>2, <1>3, <1>4, <1>5 DEF Next

-----------------------------------------------------------------------------
(* The target. *)

\* What a link or a rename puts in place was written, protected and synced.
LEMMA TargetStep ==
  ASSUME TypeOK, TempInv, target \in targetDisk, NeverTorn, [Next]_vars
  PROVE  NeverTorn' /\ (target \in targetDisk)'
<1> USE DEF TypeOK, NeverTorn
<1>1. ASSUME NEW w \in Writers, Link(w) \/ Rename(w)
      PROVE  NeverTorn' /\ (target \in targetDisk)'
  <2>1. Whole(temp[w]) BY <1>1 DEF Link, Rename, TempInv
  <2> QED BY <1>1, <2>1 DEF Link, Rename, Publish, Whole
<1>2. ASSUME NEW w \in Writers, SyncDirectory(w)
      PROVE  NeverTorn' /\ (target \in targetDisk)'
  BY <1>2 DEF SyncDirectory
<1>3. ASSUME NEW w \in Writers,
             \/ Start(w) \/ OpenTemp(w) \/ Chmod(w) \/ Write(w) \/ SyncFile(w)
             \/ CloseFile(w) \/ UnlinkTemp(w) \/ Lstat(w) \/ Cleanup(w)
             \/ Fail(w) \/ Kill(w)
      PROVE  UNCHANGED <<target, targetDisk>>
  BY <1>3 DEF Start, OpenTemp, Chmod, Write, SyncFile, CloseFile, UnlinkTemp,
              Lstat, Cleanup, Fail, Kill
<1>4. CASE PowerLoss
  <2>1. target' \in targetDisk BY <1>4, WholeRecovers DEF PowerLoss
  <2> QED BY <1>4, <2>1 DEF PowerLoss
<1>5. CASE UNCHANGED vars BY <1>5 DEF vars
<1> QED BY <1>1, <1>2, <1>3, <1>4, <1>5 DEF Next, Run

\* Who has published, and what a successful write has made durable.
LEMMA LinkStep ==
  ASSUME TypeOK, TempInv, LinkInv, OkIsDurable, target \in targetDisk, NeverTorn,
         [Next]_vars
  PROVE  LinkInv' /\ OkIsDurable'
<1> USE NoFileAssumption DEF TypeOK, LinkInv, OkIsDurable, Published
<1>1. ASSUME NEW w \in Writers, Start(w)
      PROVE  LinkInv' /\ OkIsDurable'
  BY <1>1 DEF Start
<1>2. ASSUME NEW w \in Writers, Run(w)
      PROVE  LinkInv' /\ OkIsDurable'
  <2>1. CASE OpenTemp(w) \/ Chmod(w) \/ SyncFile(w) \/ CloseFile(w)
    BY <2>1 DEF OpenTemp, Chmod, SyncFile, CloseFile, Policies
  <2>2. CASE Write(w)
    <3>1. pc'[w] \in {"sync", "cleanup", "write"} BY <2>2 DEF Write
    <3> QED BY <2>2, <3>1 DEF Write
  <2>3. CASE Link(w)
    <3>1. temp[w] # NoFile /\ temp[w].from = w BY <2>3 DEF Link, TempInv
    <3> QED BY <2>3, <3>1 DEF Link, Publish
  <2>4. CASE UnlinkTemp(w) BY <2>4 DEF UnlinkTemp
  <2>5. CASE Lstat(w) BY <2>5 DEF Lstat
  <2>6. CASE Rename(w)
    <3>1. temp[w] # NoFile /\ temp[w].from = w BY <2>6 DEF Rename, TempInv
    <3>2. policy[w] = "Overwrite" BY <2>6 DEF Rename
    <3> QED BY <2>6, <3>1, <3>2 DEF Rename, Publish
  <2>7. CASE SyncDirectory(w) BY <2>7 DEF SyncDirectory
  <2>8. CASE Cleanup(w) BY <2>8 DEF Cleanup
  <2> QED BY <1>2, <2>1, <2>2, <2>3, <2>4, <2>5, <2>6, <2>7, <2>8 DEF Run
<1>3. ASSUME NEW w \in Writers, Fail(w) \/ Kill(w)
      PROVE  LinkInv' /\ OkIsDurable'
  BY <1>3 DEF Fail, Kill
<1>4. CASE PowerLoss BY <1>4 DEF PowerLoss
<1>5. CASE UNCHANGED vars BY <1>5 DEF vars
<1> QED BY <1>1, <1>2, <1>3, <1>4, <1>5 DEF Next

-----------------------------------------------------------------------------
(* The theorems. *)

LEMMA InitInv == Init => IInv
<1> SUFFICES ASSUME Init PROVE IInv OBVIOUS
<1> USE DEF Init
<1>1. target = NoFile \/ \E origin \in {"before", "foreign"} : target = Complete(origin)
  OBVIOUS
<1>2. target = NoFile \/ (target \in File /\ Whole(target))
  BY <1>1, CompleteType, NoFileAssumption DEF Whole, Origin
<1>3. TypeOK BY <1>2 DEF TypeOK
<1>4. TempInv BY DEF TempInv
<1>5. LinkInv BY DEF LinkInv, Published
<1>6. NeverTorn BY <1>2 DEF NeverTorn, Whole
<1>7. OkIsDurable /\ NoTempLeft BY DEF OkIsDurable, NoTempLeft
<1> QED BY <1>3, <1>4, <1>5, <1>6, <1>7 DEF IInv

LEMMA NextInv == IInv /\ [Next]_vars => IInv'
<1> SUFFICES ASSUME IInv, [Next]_vars PROVE IInv' OBVIOUS
<1>1. TypeOK' BY TypeStep DEF IInv
<1>2. TempInv' /\ NoTempLeft' BY TempStep DEF IInv
<1>3. NeverTorn' /\ (target \in targetDisk)' BY TargetStep DEF IInv
<1>4. LinkInv' /\ OkIsDurable' BY LinkStep DEF IInv
<1> QED BY <1>1, <1>2, <1>3, <1>4 DEF IInv

\* The strengthened invariant holds in every behaviour of writeFile.
THEOREM InvariantHolds == Spec => []IInv
<1>1. Init => IInv BY InitInv
<1>2. IInv /\ [Next]_vars => IInv' BY NextInv
<1> QED BY <1>1, <1>2, PTL DEF Spec

\* No reader and no restart finds a partial or unprotected file: about the
\* order of write, sync and publication in writeFile.
THEOREM TargetIsWhole == Spec => []NeverTorn
<1>1. IInv => NeverTorn BY DEF IInv
<1> QED BY <1>1, InvariantHolds, PTL

\* Once a write has returned without an error its file survives a loss of power,
\* or one put in place after it does: about SyncDirectory, whatever other writes
\* do between the rename and the sync.
THEOREM SuccessIsDurable == Spec => []OkIsDurable
<1>1. IInv => OkIsDurable BY DEF IInv
<1> QED BY <1>1, InvariantHolds, PTL

\* One creation succeeds: about the link of a NoOverwrite write.
THEOREM CreationIsExclusive == Spec => []OneNewFile
<1>1. IInv => OneNewFile BY DEF IInv, LinkInv, OneNewFile, Published
<1> QED BY <1>1, InvariantHolds, PTL

\* Every return path has removed the temporary file or tried to: about the
\* deferred cleanup of writeFile.
THEOREM NothingIsLeft == Spec => []NoTempLeft
<1>1. IInv => NoTempLeft BY DEF IInv
<1> QED BY <1>1, InvariantHolds, PTL

-----------------------------------------------------------------------------
(* writeFile implements the durable file. *)

DiskSeen == {Seen(file) : file \in UNION {Recovered(f) : f \in targetDisk}}

\* Of whole files nothing is lost, so what may be found is what was published.
LEMMA DiskIsSeen ==
  ASSUME NeverTorn
  PROVE  DiskSeen = {Seen(file) : file \in targetDisk}
<1>1. \A f \in targetDisk : Recovered(f) = {f} BY WholeRecovers
<1>2. UNION {Recovered(f) : f \in targetDisk} = targetDisk BY <1>1
<1> QED BY <1>2 DEF DiskSeen

LEMMA DurableStep ==
  ASSUME IInv, IInv', [Next]_vars
  PROVE  [Durable!Next]_<<Seen(target), DiskSeen>>
<1> DEFINE disk == {Seen(file) : file \in targetDisk}
<1>0. DiskSeen = disk /\ DiskSeen' = disk'
  <2>1. DiskSeen = disk BY DiskIsSeen DEF IInv
  <2>2. \A f \in targetDisk' : f = NoFile \/ f.synced
    BY DEF IInv, NeverTorn
  <2>3. \A f \in targetDisk' : Recovered(f) = {f} BY <2>2 DEF Recovered
  <2>4. UNION {Recovered(f) : f \in targetDisk'} = targetDisk' BY <2>3
  <2>5. DiskSeen' = {Seen(file) : file \in UNION {Recovered(f) : f \in targetDisk'}}
    BY DEF DiskSeen, Seen, Recovered
  <2>6. disk' = {Seen(file) : file \in targetDisk'} BY DEF Seen
  <2> QED BY <2>1, <2>4, <2>5, <2>6
<1>1. ASSUME NEW w \in Writers, Link(w) \/ Rename(w)
      PROVE  [Durable!Next]_<<Seen(target), DiskSeen>>
  <2>1. Whole(temp[w]) /\ temp[w].from = w
    BY <1>1 DEF IInv, TempInv, Link, Rename
  <2>2. Seen(temp[w]) = w BY <2>1 DEF Seen, Whole
  <2>3. CASE Publish(temp[w])
    <3>1. Seen(target)' = w BY <2>2, <2>3 DEF Publish, Seen
    <3>2. disk' = disk \union {w} BY <2>2, <2>3 DEF Publish, Seen
    <3>3. Durable!Publish(w) BY <1>0, <3>1, <3>2 DEF Durable!Publish, DiskSeen
    <3> QED BY <3>3 DEF Durable!Next, Origin
  <2>4. CASE UNCHANGED directory BY <2>4 DEF DiskSeen
  <2> QED BY <1>1, <2>3, <2>4 DEF Link, Rename
<1>2. ASSUME NEW w \in Writers, SyncDirectory(w)
      PROVE  [Durable!Next]_<<Seen(target), DiskSeen>>
  <2>1. disk' = {Seen(target)} /\ UNCHANGED Seen(target)
    BY <1>2 DEF SyncDirectory, Seen
  <2>2. Durable!Sync BY <1>0, <2>1 DEF Durable!Sync, DiskSeen
  <2> QED BY <2>2 DEF Durable!Next
<1>3. ASSUME NEW w \in Writers,
             \/ Start(w) \/ OpenTemp(w) \/ Chmod(w) \/ Write(w) \/ SyncFile(w)
             \/ CloseFile(w) \/ UnlinkTemp(w) \/ Lstat(w) \/ Cleanup(w)
             \/ Fail(w) \/ Kill(w)
      PROVE  UNCHANGED <<Seen(target), DiskSeen>>
  <2>1. UNCHANGED <<target, targetDisk>>
    BY <1>3 DEF Start, OpenTemp, Chmod, Write, SyncFile, CloseFile, UnlinkTemp,
                Lstat, Cleanup, Fail, Kill
  <2> QED BY <2>1 DEF DiskSeen
<1>4. CASE PowerLoss
  <2>1. target' \in targetDisk /\ targetDisk' = {target'}
    BY <1>4, WholeRecovers DEF PowerLoss, IInv
  <2>2. Seen(target)' \in disk /\ disk' = {Seen(target)'}
    BY <2>1 DEF Seen
  <2>3. Durable!PowerLoss BY <1>0, <2>2 DEF Durable!PowerLoss, DiskSeen
  <2> QED BY <2>3 DEF Durable!Next
<1>5. CASE UNCHANGED vars BY <1>5 DEF vars, DiskSeen
<1> QED BY <1>1, <1>2, <1>3, <1>4, <1>5 DEF Next, Run

\* A reader and a restart see the target as a durable file: about writeFile
\* as a whole, and what LoginManager relies on for its two files.
THEOREM DurableRefinement == Spec => DurableSpec
<1>1. Init => Durable!Init
  <2> SUFFICES ASSUME Init PROVE Durable!Init OBVIOUS
  <2>1. NeverTorn /\ targetDisk = {target} BY InitInv DEF IInv, Init
  <2>2. DiskSeen = {Seen(target)} BY <2>1, DiskIsSeen
  <2>3. Seen(target) \in Origin \union {NoFile}
    BY CompleteType DEF Init, Seen, Complete, Origin
  <2> QED BY <2>2, <2>3 DEF Durable!Init, DiskSeen
<1>2. IInv /\ IInv' /\ [Next]_vars => [Durable!Next]_<<Seen(target), DiskSeen>>
  BY DurableStep
<1> QED BY <1>1, <1>2, InvariantHolds, PTL
        DEF Spec, DurableSpec, Durable!Spec, DiskSeen

-----------------------------------------------------------------------------
(* A write is finite: what EveryWriteReturns rests on beside the scheduler. *)

LEMMA CallStep ==
  ASSUME TypeOK, TempInv, [Next]_vars, NEW w \in Writers,
         pc[w] \notin {"idle", "done"}, pc'[w] # pc[w] \/ temp'[w] # temp[w]
  PROVE  CallsLeft(w)' < CallsLeft(w)
<1> USE SecureWriteAssumption DEF TypeOK, Fallible, CallsLeft, At, Goto
<1>1. At(w, "write") => temp[w].len \in 0..Chunks
  <2> SUFFICES ASSUME At(w, "write") PROVE temp[w] \in File
    BY DEF File
  <2> QED BY DEF TempInv
<1>2. ASSUME NEW v \in Writers, v # w, Start(v) \/ Run(v) \/ Fail(v) \/ Kill(v)
      PROVE  FALSE
  BY <1>2 DEF Start, Run, OpenTemp, Chmod, Write, SyncFile, CloseFile, Link, UnlinkTemp,
              Lstat, Rename, SyncDirectory, Cleanup, Fail, Kill
<1>3. CASE Run(w)
  <2>1. CASE OpenTemp(w)
    BY <2>1 DEF OpenTemp
  <2>2. CASE Chmod(w)
    <3>1. temp'[w].len = temp[w].len /\ pc'[w] = "write"
      BY <2>2 DEF Chmod, TempInv, File
    <3>2. temp[w].len \in 0..Chunks
      BY <2>2 DEF Chmod, TempInv, File
    <3> QED BY <2>2, <3>1, <3>2 DEF Chmod
  <2>3. CASE Write(w)
    <3>1. PICK n \in 0..(Chunks - temp[w].len) :
            /\ temp' = [temp EXCEPT ![w].len = @ + n]
            /\ pc' = [pc EXCEPT ![w] =
                 CASE temp[w].len + n = Chunks -> "sync"
                   [] n = 0                    -> "cleanup"
                   [] OTHER                    -> "write"]
      BY <2>3 DEF Write
    <3>2. temp[w] \in File /\ At(w, "write")
      BY <2>3 DEF Write, TempInv
    <3>3. temp'[w].len = temp[w].len + n
      BY <3>1, <3>2 DEF File
    <3>4. CASE n = 0 \/ temp[w].len + n = Chunks
      BY <1>1, <3>1, <3>2, <3>4
    <3>5. CASE ~(n = 0 \/ temp[w].len + n = Chunks)
      BY <1>1, <3>1, <3>2, <3>3, <3>5
    <3> QED BY <3>4, <3>5
  <2>4. CASE SyncFile(w) \/ CloseFile(w) \/ Link(w) \/ UnlinkTemp(w) \/ Lstat(w)
    BY <2>4 DEF SyncFile, CloseFile, Link, UnlinkTemp, Lstat
  <2>5. CASE Rename(w) \/ SyncDirectory(w) \/ Cleanup(w)
    BY <2>5 DEF Rename, SyncDirectory, Cleanup
  <2> QED BY <1>3, <2>1, <2>2, <2>3, <2>4, <2>5 DEF Run
<1>4. CASE Start(w)
  BY <1>4 DEF Start
<1>5. CASE Fail(w) \/ Kill(w)
  BY <1>1, <1>5 DEF Fail, Kill
<1>6. CASE PowerLoss
  BY <1>1, <1>6 DEF PowerLoss
<1>7. CASE UNCHANGED vars
  BY <1>7 DEF vars
<1> QED BY <1>2, <1>3, <1>4, <1>5, <1>6, <1>7 DEF Next

\* For any writers, policies, length of the data and faults a write is over after
\* at most Chunks + 9 calls: about writeAll and the order of the calls.
THEOREM WritesAreFinite == Spec => EveryCallCounts
<1>1. IInv /\ [Next]_vars =>
        [\A w \in Writers :
           /\ pc[w] \notin {"idle", "done"}
           /\ pc'[w] # pc[w] \/ temp'[w] # temp[w]
           => CallsLeft(w)' < CallsLeft(w)]_vars
  BY CallStep DEF IInv
<1> QED BY <1>1, InvariantHolds, PTL DEF Spec, EveryCallCounts
==============================================================================
