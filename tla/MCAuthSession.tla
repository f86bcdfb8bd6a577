-------------------------- MODULE MCAuthSession --------------------------
(* The login session on a small instance: two logins, five points in time, *)
(* tokens that live shorter or longer than the buffer before their expiry. *)
EXTENDS AuthSession

MCLifetimes == {1, 3}
MCRuns == {1, 2}
=============================================================================
