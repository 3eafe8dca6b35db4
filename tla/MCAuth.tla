------------------------------ MODULE MCAuth -------------------------------
(***************************************************************************)
(* Three calls at a time: tokens issued, used and revoked, two users who   *)
(* log one Resy account in, and the commands that meet them.               *)
(***************************************************************************)
EXTENDS Auth

Request(kind, token)  == [kind |-> kind, token |-> token]
Issue(token, scope)   == [kind |-> "issue", token |-> token, scope |-> scope]
Revoke(token, target) == [kind |-> "revoke", token |-> token, target |-> target]
LogIn(token)          == [kind |-> "login", token |-> token, email |-> 1]
Command(kind, email)  == [kind |-> kind, email |-> email]

MCScenarios ==
  {<<Issue(1, "operator"), Revoke(1, 1), Revoke(3, 2)>>,
   <<Issue(1, "user"), Revoke(1, 3), Request("accounts", 3)>>,
   <<Issue(2, "user"), Issue(1, "other"), Request("tokens", 1)>>,
   <<Issue(1, "malformed"), Request("tokens", 0), [LogIn(1) EXCEPT !.email = 0]>>,
   <<Command("seed", 0), Command("command", 0), Request("tokens", 2)>>,
   <<Revoke(2, 2), Request("tokens", 2), Revoke(1, 2)>>,
   <<Request("accounts", 1), Request("accounts", 1), Revoke(1, 1)>>,
   <<LogIn(1), LogIn(1), Command("load", 1)>>,
   <<LogIn(1), LogIn(2), Command("seed", 2)>>,
   <<LogIn(2), Command("command", 1), Command("seed", 1)>>,
   <<Command("seed", 1), Command("seed", 2), LogIn(1)>>}
=============================================================================
