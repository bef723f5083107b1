---------------------------- MODULE UserStatusMC ----------------------------
(* UserStatus with one manager and one caller beside it.  Once the file    *)
(* has lost what it held, no property but the types says anything of what  *)
(* follows, so the run goes no further.                                    *)
EXTENDS UserStatus

FileIntact == Spared({"read", "stale"})
=============================================================================
