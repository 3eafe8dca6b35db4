----------------------------- MODULE MCPlanning -----------------------------
(***************************************************************************)
(* Two venues under one slug, one venue or two under a name, a zone east   *)
(* of UTC, a zone west of it with a short day, and command lines that      *)
(* share the cache. A day that UTC has not left is past in the east.       *)
(***************************************************************************)
EXTENDS Planning

MCMidnight ==
  [UTC  |-> [d \in 1..5 |-> (d - 2) * 4],
   east |-> [d \in 1..5 |-> (d - 2) * 4 - 2],
   west |-> <<-3, 1, 4, 8, 12>>]

V1 == [ref |-> "1", tz |-> "west"]
V2 == [ref |-> "2", tz |-> "east"]
N1 == [ref |-> "1", tz |-> NoTZ]
N2 == [ref |-> "2", tz |-> NoTZ]

MCCatalogue == [o |-> {{V1}}, s |-> {{V1}, {V2}, {}}, n |-> {{}, {N1}, {N1, N2}}]

Later == [start |-> <<60, 0>>, end |-> <<120, 0>>, priority |-> "later", tables |-> <<"bar", "patio">>]
Whole == [start |-> <<90, 30>>, end |-> <<150, 0>>, priority |-> "none", tables |-> <<>>]

\* A single time; a table that is named twice.
Twice(tables) == [Later EXCEPT !.end = <<60, 0>>, !.tables = tables]

\* A command line that is right.
Line(cmd) ==
  [cmd |-> cmd, noCache |-> FALSE, idempotencyKey |-> NoKey, kind |-> "slug", key |-> "s",
   url |-> [host |-> "resy", path |-> "venue", date |-> Missing, seats |-> -1],
   date |-> 4, party |-> 2, account |-> "a", after |-> {}, prefs |-> <<Later, Later>>]

\* A URL that brings the date and the party with it.
Url(cmd) == [Line(cmd) EXCEPT !.kind = "url", !.date = Missing, !.url.date = 3,
                              !.party = Missing, !.url.seats = 2, !.prefs = <<Whole, Whole>>]

\* A call under a key, for a venue that never changes.
Keyed(cmd, after) == [Line(cmd) EXCEPT !.key = "o", !.idempotencyKey = "k", !.after = after,
                                       !.prefs = <<Whole, Whole>>]

\* Two commands at a time on one cache, two queries of one name, a quest alone while
\* the venue changes, a retry under a key, a key used again for another goal.
MCScenarios ==
  {<<Line("plan"), [Url("resolve") EXCEPT !.noCache = TRUE]>>,
   <<[Line("resolve") EXCEPT !.kind = "name", !.key = "n"],
     [Line("resolve") EXCEPT !.kind = "name", !.key = "n"]>>,
   <<[Line("create") EXCEPT !.date = 2,
        !.prefs = <<Twice(<<"bar", "patio", "bar">>), Twice(<<"bar", "bar", "patio">>)>>],
     [Line("plan") EXCEPT !.party = Missing]>>,
   <<Url("create"), [Url("plan") EXCEPT !.account = NoAccount]>>,
   <<[Url("create") EXCEPT !.key = "o", !.prefs[2].priority = "later"], [Url("plan") EXCEPT !.url.seats = 0]>>,
   <<[Line("plan") EXCEPT !.kind = "name", !.key = "n"], [Url("resolve") EXCEPT !.url.host = "other"]>>,
   <<[Line("direct") EXCEPT !.kind = "half"], [Url("direct") EXCEPT !.url.path = "other"]>>,
   <<Keyed("direct", {}), Keyed("create", {1})>>,
   <<Keyed("direct", {}), [Keyed("direct", {1}) EXCEPT !.party = 3]>>}
=============================================================================
