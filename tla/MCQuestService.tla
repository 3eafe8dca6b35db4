--------------------------- MODULE MCQuestService --------------------------
(***************************************************************************)
(* Two users and one key.  The calls of a scenario start in its order and  *)
(* overlap in every way: retries, a key used for two goals, one key in the *)
(* hands of two users and of two operations, cancels that meet.            *)
(***************************************************************************)
EXTENDS QuestService

Create(user, key, goal)  == [op |-> "create", user |-> user, key |-> key, payload |-> goal]
Cancel(user, key, quest) == [op |-> "cancel", user |-> user, key |-> key, payload |-> quest]

MCScenarios ==
  {<<Create("u1", "k", 11), Create("u1", "k", 11), Create("u1", "k", 11)>>,
   <<Create("u1", "k", 11), Create("u1", "k", 12), Create("u1", "k", 11)>>,
   <<Create("u1", "k", 11), Create("u2", "k", 11), Cancel("u2", "k", 1)>>,
   <<Create("u1", NoKey, 11), Cancel("u1", "k", 1), Cancel("u1", "k", 1)>>}

MCRetry == {<<Create("u1", "k", 11), Create("u1", "k", 11)>>}
=============================================================================
