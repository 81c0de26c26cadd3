--------------------------- MODULE MCCommandLine ---------------------------
(***************************************************************************)
(* Directories for TLC.  On Linux: a plain private one, one whose group    *)
(* entry grants write under a mask that does not, one whose mode is safe   *)
(* but whose list names a group, and one that bequeaths a default list; on *)
(* macOS: a plain one, and of those where the first inspection does not    *)
(* work one with a list and one writable by its group.                     *)
(***************************************************************************)
EXTENDS CommandLine, TLC

Item(tag, write) == [tag |-> tag, write |-> write]
Masked == <<Item("userObject", TRUE), Item("groupObject", TRUE),
            Item("mask", FALSE), Item("other", FALSE)>>
NamesGroup == <<Item("userObject", TRUE), Item("groupObject", FALSE),
                Item("group", FALSE), Item("mask", FALSE), Item("other", FALSE)>>

Plain == [mine |-> TRUE, groupWrite |-> FALSE, otherWrite |-> FALSE,
          access |-> << >>, default |-> << >>, first |-> TRUE, second |-> TRUE]

SomeDirectories ==
  [linux  |-> {Plain, [Plain EXCEPT !.access = Masked],
               [Plain EXCEPT !.access = NamesGroup],
               [Plain EXCEPT !.default = NamesGroup]},
   darwin |-> {Plain, [Plain EXCEPT !.first = FALSE, !.access = NamesGroup],
               [Plain EXCEPT !.first = FALSE, !.groupWrite = TRUE]},
   other  |-> {Plain}]

SomeFiles == {[attempt |-> "blocked", session |-> "dated"],
              [attempt |-> "ok", session |-> "undated"]}

Symmetry == Permutations(Procs) \union Permutations(Dirs)
=============================================================================
