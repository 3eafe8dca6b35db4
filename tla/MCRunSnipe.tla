---------------------------- MODULE MCRunSnipe -----------------------------
(***************************************************************************)
(* runSnipe with one release of each kind and two slots.                   *)
(***************************************************************************)
EXTENDS RunSnipe

MCReleases ==
  {[kind |-> "explicit",   from |-> 1, until |-> 0],
   [kind |-> "discovered", from |-> 0, until |-> 2],
   [kind |-> "continuous", from |-> 0, until |-> 1]}
=============================================================================
