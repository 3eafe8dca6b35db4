------------------------------ MODULE MCDaemon -----------------------------
(***************************************************************************)
(* Daemons and migrations that follow one another or meet at the lock, an  *)
(* old and a new binary, and daemons without encryption.                   *)
(***************************************************************************)
EXTENDS Daemon

Sealed(kind)       == [kind |-> kind, mode |-> "sealed", insecure |-> FALSE, prod |-> FALSE, max |-> 1]
Insecure(flag, pr) == [Sealed("serve") EXCEPT !.mode = "insecure", !.insecure = flag, !.prod = pr]
Old(p)             == p
New(p)             == [p EXCEPT !.max = 2]

MCScenarios ==
  {<<Sealed("serve"), Sealed("migrate"), Sealed("serve")>>,
   <<Insecure(TRUE, FALSE), Sealed("dryrun"), Sealed("migrate")>>,
   <<New(Sealed("serve")), Old(Sealed("dryrun")), New(Sealed("migrate"))>>,
   <<Insecure(FALSE, FALSE), Insecure(TRUE, TRUE), New(Sealed("migrate"))>>}
=============================================================================
