------------------------ MODULE TokenBlacklistProofs ------------------------
(***************************************************************************)
(* Proofs about TokenBlacklist, for every set of tokens, every set of      *)
(* instants and every lifetime: the inductive invariant, that the map      *)
(* implements Revocation, and that a logged-out token stays logged out.    *)
(***************************************************************************)
EXTENDS TokenBlacklist, TLAPS

USE InstantsAssumption, LifetimeAssumption

----------------------------------------------------------------------------
(* Whole seconds and milliseconds *)

\* jwt.verify accepts a token exactly while its expiry in milliseconds, the
\* value kept in the blacklist, is still to come.
LEMMA SecondsAndMillis ==
  ASSUME NEW t \in Nat, NEW e \in Nat
  PROVE  t \div 1000 < e <=> t < e * 1000
  OBVIOUS

\* A token that is verified at one instant was verified at every earlier one.
LEMMA VerifiedEarlier ==
  ASSUME NEW t \in Nat, NEW u \in Nat, t <= u,
         NEW j \in Jti, exp \in [Jti -> Nat], Verified(j, u)
  PROVE  Verified(j, t)
  BY SecondsAndMillis DEF Verified

----------------------------------------------------------------------------
(* The invariant *)

LEMMA InitInv == Init => Inv
  BY DEF Init, Inv, TypeOK, EntriesAreExpiries

\* The three actions that write the map only add the token's own expiry or
\* remove entries, so entries keep their value.
LEMMA NextInv == Inv /\ [Next]_vars => Inv'
<1> SUFFICES ASSUME Inv, [Next]_vars PROVE Inv'
  OBVIOUS
<1> USE DEF Inv, TypeOK, EntriesAreExpiries
<1>1. CASE Tick
  BY <1>1 DEF Tick
<1>2. ASSUME NEW j \in Jti, Issue(j) PROVE Inv'
  <2>1. now \div 1000 + Lifetime \in Nat \ {0}
    OBVIOUS
  <2> QED
    BY <1>2, <2>1 DEF Issue
<1>3. ASSUME NEW j \in Jti, Logout(j) PROVE Inv'
  <2>1. exp[j] * 1000 \in Nat
    OBVIOUS
  <2> QED
    BY <1>3, <2>1 DEF Logout, Purge, Put
<1>4. ASSUME NEW j \in Jti, NEW later \in Instants, Authenticate(j, later) PROVE Inv'
  <2>1. decision' \in [token: Jti, accepted: BOOLEAN]
    <3>1. (~isTokenBlacklisted(j, later)) \in BOOLEAN
      BY DEF isTokenBlacklisted
    <3>2. PICK b \in BOOLEAN : decision' = [token |-> j, accepted |-> b]
      BY <1>4, <3>1, Zenon DEF Authenticate
    <3> QED
      BY <3>2
  <2>2. /\ DOMAIN tokenBlacklist' \subseteq DOMAIN tokenBlacklist
        /\ tokenBlacklist' = [k \in DOMAIN tokenBlacklist' |-> tokenBlacklist[k]]
    BY <1>4 DEF Authenticate, AfterLookup
  <2> QED
    BY <1>4, <2>1, <2>2 DEF Authenticate
<1>5. CASE Restart
  BY <1>5 DEF Restart
<1>6. CASE UNCHANGED vars
  BY <1>6 DEF vars
<1> QED
  BY <1>1, <1>2, <1>3, <1>4, <1>5, <1>6 DEF Next

(***************************************************************************)
(* Every entry of the blacklist is the expiry, in milliseconds, of a token *)
(* this server signed (Inv, of which TypeOK is a part).                    *)
(***************************************************************************)
THEOREM InvariantHolds == Spec => []Inv
  BY InitInv, NextInv, PTL DEF Spec

----------------------------------------------------------------------------
(* The blacklist implements revocation *)

LEMMA InitImplements == Init => R!Init
  BY DEF Init, R!Init, Live, Revoked, Verified, NoDecision

\* A step of the clock: the tokens that are no longer verified are the ones
\* that expire, and time does not bring a token back.
LEMMA LiveShrinks ==
  ASSUME Inv, NEW t \in Instants, t >= now, now' = t, UNCHANGED exp
  PROVE  Live' \subseteq Live
  BY VerifiedEarlier DEF Inv, TypeOK, Live, Verified

LEMMA TickImplements == Inv /\ Tick => [R!Next]_(R!vars)
<1> SUFFICES ASSUME Inv, Tick PROVE R!Next
  OBVIOUS
<1> DEFINE S == Live \ Live'
<1>1. Live' = Live \ S
  BY LiveShrinks DEF Tick, Inv, TypeOK
<1>2. Revoked' = Revoked \ S
  BY <1>1 DEF Revoked, Tick
<1>3. R!Expire(S)
  BY <1>1, <1>2 DEF R!Expire, R!Expiring, Tick
<1> QED
  BY <1>3 DEF R!Next

LEMMA IssueImplements ==
  ASSUME Inv, NEW j \in Jti, Issue(j)
  PROVE  R!Next
<1> USE DEF Inv, TypeOK
<1>1. /\ now \div 1000 + Lifetime \in Nat \ {0}
      /\ now \div 1000 < now \div 1000 + Lifetime
  OBVIOUS
<1>2. {i \in Jti : exp[i] = 0}' = {i \in Jti : exp[i] = 0} \ {j}
  BY <1>1 DEF Issue
<1>3. Live' = Live \cup {j}
  BY <1>1 DEF Issue, Live, Verified
<1>4. Revoked' = Revoked
  BY <1>3 DEF Issue, Revoked, EntriesAreExpiries
<1>5. R!Issue(j)
  BY <1>2, <1>3, <1>4 DEF R!Issue, Issue
<1> QED
  BY <1>5 DEF R!Next

\* A logout keeps the entries of the tokens that jwt.verify would still accept.
LEMMA LogoutKeepsLive ==
  ASSUME Inv, NEW j \in Jti, Logout(j)
  PROVE  Revoked' = Revoked \cup ({j} \cap Live) /\ Live' = Live
<1> USE DEF Inv, TypeOK, EntriesAreExpiries
<1>1. Live' = Live
  BY DEF Logout, Live, Verified
<1>2. ASSUME NEW k \in Live PROVE now < exp[k] * 1000
  BY SecondsAndMillis, k \in Jti DEF Live, Verified
<1>3. ASSUME NEW k \in Live
      PROVE  k \in DOMAIN tokenBlacklist' <=> k \in DOMAIN tokenBlacklist \cup {j}
  BY <1>2 DEF Logout, Purge, Put, Live
<1> QED
  BY <1>1, <1>3 DEF Revoked

LEMMA LogoutImplements ==
  ASSUME Inv, NEW j \in Jti, Logout(j)
  PROVE  [R!Next]_(R!vars)
<1>1. CASE j \in Live
  <2>1. R!Revoke(j)
    BY <1>1, LogoutKeepsLive DEF R!Revoke, Logout
  <2> QED
    BY <2>1 DEF R!Next
<1>2. CASE j \notin Live
  BY <1>2, LogoutKeepsLive DEF R!vars, Logout
<1> QED
  BY <1>1, <1>2

\* isTokenBlacklisted deletes at most the entry of a token that has expired.
LEMMA LookupKeepsLive ==
  ASSUME Inv, NEW j \in Jti, NEW later \in Instants, Authenticate(j, later),
         NEW k \in Live'
  PROVE  /\ k \in DOMAIN tokenBlacklist' <=> k \in DOMAIN tokenBlacklist
         /\ k \in DOMAIN tokenBlacklist => tokenBlacklist[k] >= later
<1> USE DEF Inv, TypeOK, EntriesAreExpiries
<1>1. k \in Jti /\ later < exp[k] * 1000
  BY SecondsAndMillis DEF Authenticate, Live, Verified
<1> QED
  BY <1>1 DEF Authenticate, AfterLookup

LEMMA AuthenticateImplements ==
  ASSUME Inv, NEW j \in Jti, NEW later \in Instants, Authenticate(j, later)
  PROVE  R!Next
<1> DEFINE S == Live \ Live'
           accepted == Verified(j, now) /\ ~isTokenBlacklisted(j, later)
<1>1. Live' = Live \ S
  BY LiveShrinks DEF Authenticate
<1>2. Revoked' = Revoked \ S
  BY <1>1, LookupKeepsLive DEF Revoked
<1>3. accepted => j \in Live
  BY DEF Live
<1>4. j \in Live \ S => (accepted <=> j \notin Revoked)
  BY <1>1, LookupKeepsLive DEF Live, Revoked, isTokenBlacklisted
<1>5. accepted \in BOOLEAN
  OBVIOUS
<1>6. decision' = [token |-> j, accepted |-> accepted]
  BY Zenon DEF Authenticate
<1>7. R!Decide(j, S)
  BY <1>1, <1>2, <1>3, <1>4, <1>5, <1>6 DEF R!Decide, R!Expiring, Authenticate
<1> QED
  BY <1>7 DEF R!Next

\* The entries that a restart loses are all the revocations there are.
LEMMA RestartImplements == Restart => R!Next
<1> SUFFICES ASSUME Restart PROVE R!Forget
  BY DEF R!Next
<1> QED
  BY DEF Restart, R!Forget, Revoked, Live, Verified

LEMMA NextImplements == Inv /\ [Next]_vars => [R!Next]_(R!vars)
<1> SUFFICES ASSUME Inv, [Next]_vars PROVE [R!Next]_(R!vars)
  OBVIOUS
<1>1. CASE Tick
  BY <1>1, TickImplements
<1>2. ASSUME NEW j \in Jti, Issue(j) PROVE R!Next
  BY <1>2, IssueImplements
<1>3. ASSUME NEW j \in Jti, Logout(j) PROVE [R!Next]_(R!vars)
  BY <1>3, LogoutImplements
<1>4. ASSUME NEW j \in Jti, NEW later \in Instants, Authenticate(j, later) PROVE R!Next
  BY <1>4, AuthenticateImplements
<1>5. CASE Restart
  BY <1>5, RestartImplements
<1>6. CASE UNCHANGED vars
  BY <1>6 DEF vars, R!vars, Live, Revoked, Verified
<1> QED
  BY <1>1, <1>2, <1>3, <1>4, <1>5, <1>6 DEF Next

(***************************************************************************)
(* The map with its two clocks and lazy clean-up implements revocation.    *)
(***************************************************************************)
THEOREM BlacklistImplementsRevocation == Spec => ImplementsRevocation
<1>1. Inv /\ [Next]_vars => [R!Next]_(R!vars)
  BY NextImplements
<1> QED
  BY <1>1, InitImplements, InvariantHolds, PTL DEF Spec, ImplementsRevocation, R!Spec

----------------------------------------------------------------------------
(* Two action properties *)

(***************************************************************************)
(* Unless the process restarts, a revoked token stays revoked as long as   *)
(* it lives.                                                               *)
(***************************************************************************)
THEOREM RevokedStaysRevoked == Spec => NoResurrection
<1>1. ASSUME Inv, [Next]_vars, ~Restart, NEW j \in Revoked, j \in Live'
      PROVE  j \in Revoked'
  <2>1. CASE Tick
    BY <1>1, <2>1 DEF Tick, Revoked
  <2>2. ASSUME NEW k \in Jti, Issue(k) PROVE j \in Revoked'
    BY <1>1, <2>2 DEF Issue, Revoked
  <2>3. ASSUME NEW k \in Jti, Logout(k) PROVE j \in Revoked'
    BY <1>1, <2>3, LogoutKeepsLive
  <2>4. ASSUME NEW k \in Jti, NEW later \in Instants, Authenticate(k, later)
        PROVE  j \in Revoked'
    BY <1>1, <2>4, LookupKeepsLive DEF Revoked
  <2>5. CASE UNCHANGED vars
    BY <1>1, <2>5 DEF vars, Revoked, Live, Verified
  <2> QED
    BY <1>1, <2>1, <2>2, <2>3, <2>4, <2>5 DEF Next
<1>2. Inv /\ [Next]_vars
        => Restart \/ \A j \in Jti : j \in Revoked /\ j \in Live' => j \in Revoked'
  BY <1>1
<1> QED
  BY <1>2, InvariantHolds, PTL DEF Spec, NoResurrection

(***************************************************************************)
(* After a logout no entry of the map has expired.                         *)
(***************************************************************************)
THEOREM LogoutLeavesNoExpiredEntry == Spec => LogoutCleansUp
<1> DEFINE P == \A j \in Jti :
                  j \in DOMAIN tokenBlacklist' \ DOMAIN tokenBlacklist
                    => \A k \in DOMAIN tokenBlacklist' : tokenBlacklist'[k] >= now
<1>1. ASSUME Inv, [Next]_vars PROVE P
  <2>1. CASE Tick
    BY <2>1 DEF Tick
  <2>2. ASSUME NEW j \in Jti, Issue(j) PROVE P
    BY <2>2 DEF Issue
  <2>3. ASSUME NEW j \in Jti, Logout(j) PROVE P
    BY <2>3 DEF Logout, Purge
  <2>4. ASSUME NEW j \in Jti, NEW later \in Instants, Authenticate(j, later) PROVE P
    BY <2>4 DEF Authenticate, AfterLookup
  <2>5. CASE Restart
    BY <2>5 DEF Restart
  <2>6. CASE UNCHANGED vars
    BY <2>6 DEF vars
  <2> QED
    BY <1>1, <2>1, <2>2, <2>3, <2>4, <2>5, <2>6 DEF Next
<1>2. Inv /\ [Next]_vars => P
  BY <1>1
<1> QED
  BY <1>2, InvariantHolds, PTL DEF Spec, LogoutCleansUp
=============================================================================
