------------------------------ MODULE MCServer ------------------------------
(* An instance of Server for TLC. *)
EXTENDS Server

MCMax == [global |-> 2, auth |-> 1]

\* One client whose requests take every way through the middleware, and others,
\* whose counts must stay their own.
MCCalls ==
  LET mine   == CHOOSE k \in Client : TRUE
      others == Client \ {mine}
      Ok(k, route) == [client |-> k, origin |-> TRUE, body |-> "ok", route |-> route]
  IN  {Ok(mine, route) : route \in {"auth", "none"}}
        \cup {[Ok(mine, "auth") EXCEPT !.body = "large"],
              [Ok(mine, "auth") EXCEPT !.origin = FALSE]}
        \cup {Ok(k, "api") : k \in others}

MCErrors == {[kind |-> "zod", status |-> 0]}

=============================================================================
