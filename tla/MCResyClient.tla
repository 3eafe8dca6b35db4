---------------------------- MODULE MCResyClient ---------------------------
(***************************************************************************)
(* Two calls of one client: bookings that share a key, bookings without    *)
(* one, and the reading endpoints.                                         *)
(***************************************************************************)
EXTENDS ResyClient

C(kind, key)  == [kind |-> kind, valid |-> TRUE, key |-> key]
Bad(kind, key) == [kind |-> kind, valid |-> FALSE, key |-> key]

MCScenarios ==
  {<<C("confirm", 1), C("confirm", 1)>>, <<C("bookkey", 1), C("confirm", 1)>>,
   <<Bad("bookkey", 1), C("confirm", 1)>>, <<Bad("confirm", 1), C("book", NoKey)>>,
   <<C("prepare", NoKey), C("find", NoKey)>>, <<C("calendar", NoKey), C("ping", NoKey)>>,
   <<C("resolve", NoKey), C("search", NoKey)>>, <<Bad("ping", NoKey), Bad("find", NoKey)>>}

R(status, body) == [status |-> status, body |-> body]
MCRefusals ==
  {R(403, "marker"), R(403, "good"), R(409, "good"), R(503, "expired"), R(503, "garbled")}
=============================================================================
