--------------------------- MODULE DirectoryCheck ---------------------------
(***************************************************************************)
(* secure.CheckRoot and aclViolation: whether a directory is private to    *)
(* its owner, told from its owner, mode bits and access control list.  The *)
(* code looks at tags only; that this is enough rests on how the kernel    *)
(* couples the mode with the list (ModeFollowsAcl), so the reference at    *)
(* the end decides by the permissions themselves.                          *)
(***************************************************************************)
EXTENDS Naturals, FiniteSets, Sequences

Platforms == {"linux", "darwin", "other"}

Tags == {"userObject", "user", "groupObject", "group", "mask", "other"}
Entry == [tag : Tags, write : BOOLEAN]

\* What there is to know of a directory.  A list that is << >> is absent.
\* `first` and `second` say whether the platform's two inspections work: the
\* default and the access attribute (Linux), getattrlist and its fallback (macOS).
Metadata == [mine : BOOLEAN, groupWrite : BOOLEAN, otherWrite : BOOLEAN,
             access : Seq(Entry), default : Seq(Entry),
             first : BOOLEAN, second : BOOLEAN]

-----------------------------------------------------------------------------
Tagged(acl, tag) == {i \in DOMAIN acl : acl[i].tag = tag}
Seen(acl, tag) == Cardinality(Tagged(acl, tag))

\* Mutant: a named group passes.
EquivalentButForGroups(acl) ==
  /\ Tagged(acl, "user") = {}
  /\ \A tag \in {"userObject", "groupObject", "other"} : Seen(acl, tag) = 1
  /\ Seen(acl, "mask") <= 1

AccessACLEquivalentToMode(acl) ==
  /\ Tagged(acl, "user") = {} /\ Tagged(acl, "group") = {}
  /\ \A tag \in {"userObject", "groupObject", "other"} : Seen(acl, tag) = 1
  /\ Seen(acl, "mask") <= 1

\* The first statements of CheckRoot.
ModeIsSafe(m) == m.mine /\ ~m.groupWrite /\ ~m.otherWrite

\* The verdict of the first inspection: it settles the matter on macOS when it
\* works, and on Linux when it finds a default list or fails.
FirstInspection(platform, m) ==
  CASE platform = "linux"  -> IF m.first /\ m.default = << >> THEN "undecided" ELSE "unsafe"
    [] platform = "darwin" -> IF ~m.first THEN "undecided"
                              ELSE IF m.access = << >> THEN "safe" ELSE "unsafe"
    [] OTHER               -> "unsafe"

SecondInspection(platform, m) ==
  IF /\ m.second
     /\ m.access = << >> \/ (platform = "linux" /\ AccessACLEquivalentToMode(m.access))
  THEN "safe"
  ELSE "unsafe"

\* The whole of CheckRoot on a directory that keeps still meanwhile.
CheckRoot(platform, m) ==
  /\ ModeIsSafe(m)
  /\ \/ FirstInspection(platform, m) = "safe"
     \/ /\ FirstInspection(platform, m) = "undecided"
        /\ SecondInspection(platform, m) = "safe"

-----------------------------------------------------------------------------
\* The kernel.  On Linux the group bits of the mode are the mask, or the group
\* entry where there is no mask, and the other bits are the other entry.
Grants(acl, tag) == \E i \in Tagged(acl, tag) : acl[i].write

ModeFollowsAcl(platform, m) ==
  platform = "linux" /\ m.access # << >> =>
    /\ m.groupWrite = IF Tagged(m.access, "mask") # {}
                      THEN Grants(m.access, "mask")
                      ELSE Grants(m.access, "groupObject")
    /\ m.otherWrite = Grants(m.access, "other")

\* chmod 0700, which goes through to the entries the mode stands for.
Tightened(platform, m) ==
  LET changed(entry) == \/ entry.tag \in {"mask", "other"}
                        \/ entry.tag = "groupObject" /\ Tagged(m.access, "mask") = {}
      entries == [i \in DOMAIN m.access |->
                    IF changed(m.access[i]) THEN [m.access[i] EXCEPT !.write = FALSE]
                    ELSE m.access[i]]
  IN [m EXCEPT !.groupWrite = FALSE, !.otherWrite = FALSE,
               !.access = IF platform = "linux" THEN entries ELSE @]

-----------------------------------------------------------------------------
\* The reference: who may write, as the access check of the system decides it.
Unmasked(m) == Tagged(m.access, "mask") = {} \/ Grants(m.access, "mask")

GroupMayWrite(platform, m) ==
  IF platform = "linux" /\ m.access # << >>
  THEN Grants(m.access, "groupObject") /\ Unmasked(m)
  ELSE m.groupWrite

NamedMayEnter(platform, m) ==
  \/ platform = "darwin" /\ m.access # << >>
  \/ \E tag \in {"user", "group"} : Tagged(m.access, tag) # {}
  \/ platform = "linux" /\ m.default # << >>     \* as files are created

OthersMayWrite(platform, m) ==
  IF platform = "linux" /\ m.access # << >> THEN Grants(m.access, "other")
                                            ELSE m.otherWrite

\* Nobody but its owner can change the directory, and no list names anybody.
Private(platform, m) ==
  /\ m.mine
  /\ ~GroupMayWrite(platform, m) /\ ~OthersMayWrite(platform, m)
  /\ ~NamedMayEnter(platform, m)
=============================================================================
