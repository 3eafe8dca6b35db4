--------------------------- MODULE MCQuestStream ---------------------------
(***************************************************************************)
(* One quest, another quest's notification in between, and each outcome.   *)
(***************************************************************************)
EXTENDS QuestStream

Own(type)   == [mine |-> TRUE, type |-> type]
Other(type) == [mine |-> FALSE, type |-> type]

MCScripts ==
  {<<Own("submitted"), Other("booked")>>,
   <<Own("submitted"), Own("expired")>>}
=============================================================================
