----------------------------- MODULE DurableFile -----------------------------
(***************************************************************************)
(* What one directory entry of the config directory promises its readers   *)
(* and its crash recovery.  A reader of the running machine sees "val"; a  *)
(* machine that loses power comes back with some member of "disk", the     *)
(* values the entry may still have on the medium.  Nothing in between is   *)
(* ever seen: an entry is replaced as a whole or not at all.               *)
(*                                                                         *)
(* LoginManager uses these actions for login-attempt.json and session.json;*)
(* SecureWrite shows that writeFile implements them.                       *)
(***************************************************************************)
CONSTANT Contents     \* every value the entry may hold, "no file" included

VARIABLES val,        \* what the entry names now
          disk        \* what it may name after a loss of power

Init == /\ val \in Contents
        /\ disk = {val}

\* rename(2), link(2) or unlink(2): visible at once, not yet durable.
Publish(v) == /\ val' = v
              /\ disk' = disk \union {v}

\* fsync(2) of the directory: the visible entry is the one that survives.
Sync == /\ disk' = {val}
        /\ UNCHANGED val

\* The machine stops and restarts with one of the entries that survive.
PowerLoss == \E v \in disk : /\ val' = v
                             /\ disk' = {v}

Next == \/ \E v \in Contents : Publish(v)
        \/ Sync
        \/ PowerLoss

Spec == Init /\ [][Next]_<<val, disk>>
==============================================================================
