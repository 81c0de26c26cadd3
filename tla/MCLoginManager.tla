--------------------------- MODULE MCLoginManager ---------------------------
(* Model values and symmetry for the runs of LoginManager. *)
EXTENDS LoginManager, TLC

ProcSymmetry == Permutations(Procs)

\* The lifetime after which a session is to be deleted, whatever the store is
\* given as its own.
AbsoluteLifetime == 1

\* A command that reads a session past the absolute lifetime goes on to delete
\* it.  About LoadSession with the lifetime that Execute gives the store.
AgedSessionIsDropped ==
  [][ ses # NoSession /\ now >= ses.created + AbsoluteLifetime
        => \A p \in Procs :
             At(p, "load_session") => pc'[p] \in {"load_session", "unlink"} ]_vars
==============================================================================
