------------------------------ MODULE MCSignIn ------------------------------
(* A small instance of SignIn for TLC. *)
EXTENDS SignIn, TLC

CONSTANTS r1, r2, c1, c2, u1

\* Threads are alike.
Alike == Permutations({r1, r2}) \cup Permutations({c1, c2})

Local(h) == [scheme |-> "http", host |-> h, rest |-> "/callback"]

\* One client that names its redirects in either order, and two that may not register.
MCClients ==
  {[software |-> "cli", redirects |-> <<Local("localhost"), Local("127.0.0.1")>>,
    method |-> "none", grants |-> {"authorization_code"}, responses |-> {"code"}],
   [software |-> "cli", redirects |-> <<Local("127.0.0.1"), Local("localhost")>>,
    method |-> "none", grants |-> {"authorization_code", "refresh_token"}, responses |-> {"code"}],
   [software |-> "cli", redirects |-> <<Local("example.org")>>,
    method |-> "none", grants |-> {"authorization_code"}, responses |-> {"code"}],
   [software |-> "cli", redirects |-> <<Local("localhost")>>,
    method |-> "none", grants |-> {"authorization_code"}, responses |-> {"code", "token"}]}
=============================================================================
