---------------------------- MODULE MCConfigApply ----------------------------
(***************************************************************************)
(* The config engine, for TLC.  `broken` never passes the checker; a body  *)
(* that claims the default server may be in one file at a time; `plain`    *)
(* is always accepted.                                                     *)
(***************************************************************************)
EXTENDS ConfigApply, TLC

CONSTANTS plain, default, broken

Accepted ==
  {t \in [Files -> Bodies \cup {None}] :
     /\ \A f \in Files : t[f] # broken
     /\ \A f, g \in Files : t[f] = default /\ t[g] = default => f = g}

Symmetry == Permutations(Workers) \cup Permutations(Files)
=============================================================================
