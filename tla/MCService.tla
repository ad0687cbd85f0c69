------------------------------ MODULE MCService -------------------------------
(* Instances of Service for TLC. *)
EXTENDS Service, TLC

CONSTANTS daemon, cli, login, c1, c2

\* The daemon's and the login's binary carry both migrations, the other an older one.
Binaries == daemon :> 2 @@ login :> 2 @@ cli :> 1
===============================================================================
