--------------------------- MODULE MCTokenBlacklist -------------------------
(* Instances of TokenBlacklist for TLC. *)
EXTENDS TokenBlacklist

\* The edges of the second in which a token is signed, of the one in which it
\* ends, and of the millisecond at which its blacklist entry expires.
MCInstants == {0, 1, 999, 1000, 1001, 1999, 2000, 2001, 2999, 3000, 3001}

=============================================================================
