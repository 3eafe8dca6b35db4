--------------------------- MODULE MCReleaseRun ----------------------------
(***************************************************************************)
(* Engine.Run on small clocks: a release already due, one ahead, probe and *)
(* polling windows open, closed and empty.                                 *)
(***************************************************************************)
EXTENDS ReleaseRun

MCReleases ==
  {[kind |-> "explicit", from |-> t, until |-> 0] : t \in {0, 2}}
    \cup {[kind |-> "discovered", from |-> t, until |-> 4] : t \in {0, 1}}
    \cup {[kind |-> "discovered", from |-> 2, until |-> 2]}
    \cup {[kind |-> "continuous", from |-> 0, until |-> t] : t \in {0, 3}}
=============================================================================
