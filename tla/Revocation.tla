----------------------------- MODULE Revocation -----------------------------
(***************************************************************************)
(* What token revocation promises, with no clock and no map: the abstract  *)
(* specification that TokenBlacklist implements.  A token is fresh until   *)
(* it is signed, live until it expires, and may be revoked while it lives. *)
(* Revocations are kept in memory: the server may forget all of them, and  *)
(* never one of them alone.                                                *)
(***************************************************************************)
CONSTANT Token

VARIABLES fresh,    \* tokens not yet signed
          live,     \* tokens signed and not expired
          revoked,  \* live tokens whose holder has logged out
          decision  \* the last answer given about a token

vars == <<fresh, live, revoked, decision>>

Decision == [token: Token, accepted: BOOLEAN] \cup {[token |-> "none", accepted |-> FALSE]}

Init ==
  /\ fresh = Token
  /\ live = {}
  /\ revoked = {}
  /\ decision = [token |-> "none", accepted |-> FALSE]

Issue(t) ==
  /\ t \in fresh
  /\ fresh' = fresh \ {t}
  /\ live' = live \cup {t}
  /\ UNCHANGED <<revoked, decision>>

Revoke(t) ==
  /\ t \in live
  /\ revoked' = revoked \cup {t}
  /\ UNCHANGED <<fresh, live, decision>>

\* The tokens of S reach the end of their life, and with it their revocation.
Expiring(S) ==
  /\ live' = live \ S
  /\ revoked' = revoked \ S
  /\ UNCHANGED fresh

Expire(S) ==
  /\ Expiring(S)
  /\ UNCHANGED decision

(***************************************************************************)
(* A token is presented while the tokens of S expire.  Only a live token   *)
(* may be accepted, and one that survives the step is accepted exactly     *)
(* when it is not revoked.  Of a token that expires during the step the    *)
(* answer may be either.                                                   *)
(***************************************************************************)
Decide(t, S) ==
  /\ Expiring(S)
  /\ \E accepted \in BOOLEAN :
       /\ accepted => t \in live
       /\ t \in live \ S => (accepted <=> t \notin revoked)
       /\ decision' = [token |-> t, accepted |-> accepted]

\* The server loses its memory.
Forget ==
  /\ revoked' = {}
  /\ UNCHANGED <<fresh, live, decision>>

Next ==
  \/ Forget
  \/ \E t \in Token : Issue(t) \/ Revoke(t)
  \/ \E S \in SUBSET live : Expire(S) \/ \E t \in Token : Decide(t, S)

Spec == Init /\ [][Next]_vars
=============================================================================
