--------------------------- MODULE TokenBlacklist ---------------------------
(***************************************************************************)
(* The in-memory JWT blacklist of middleware/auth.middleware.ts, and the   *)
(* two places that touch it: authenticate, before it first yields, and     *)
(* AuthService.logout.  Two clocks with different units meet here: a JWT   *)
(* carries its expiry in seconds, the blacklist keeps it in milliseconds   *)
(* and compares it with Date.now().                                        *)
(*                                                                         *)
(* Every action is a piece of code that runs without yielding, but reads   *)
(* the clock more than once: Authenticate reads it in jwt.verify and again *)
(* in isTokenBlacklisted, and time may pass between the two.               *)
(***************************************************************************)
EXTENDS Integers

CONSTANTS Jti,       \* the identifiers of the tokens
          Instants,  \* the instants (ms) at which something happens
          Lifetime   \* JWT_EXPIRES_IN, in seconds

ASSUME InstantsAssumption == Instants \subseteq Nat /\ 0 \in Instants

ASSUME LifetimeAssumption == Lifetime \in Nat \ {0}

VARIABLES now,             \* Date.now(), ms
          exp,             \* exp claim of each token, s; 0 when not signed yet
          tokenBlacklist,  \* Map<jti, expiry in ms>: a function on the keys
          decision         \* the last answer of authenticate about a token

vars == <<now, exp, tokenBlacklist, decision>>

NoDecision == [token |-> "none", accepted |-> FALSE]

TypeOK ==
  /\ now \in Instants
  /\ exp \in [Jti -> Nat]
  /\ DOMAIN tokenBlacklist \subseteq Jti
  /\ tokenBlacklist \in [DOMAIN tokenBlacklist -> Nat]
  /\ decision \in [token: Jti, accepted: BOOLEAN] \cup {NoDecision}

Init ==
  /\ now = 0
  /\ exp = [j \in Jti |-> 0]
  /\ tokenBlacklist = [j \in {} |-> 0]
  /\ decision = NoDecision

----------------------------------------------------------------------------

\* jwt.verify at instant t: signed by this server and not expired.  The library
\* compares whole seconds and refuses a token from the second exp on.
Verified(j, t) == exp[j] # 0 /\ t \div 1000 < exp[j]

\* Map.delete of every key with expiry < t.
Purge(map, t) == [k \in {j \in DOMAIN map : map[j] >= t} |-> map[k]]

\* Map.set
Put(map, j, expiry) ==
  [k \in DOMAIN map \cup {j} |-> IF k = j THEN expiry ELSE map[k]]

\* Mutant of isTokenBlacklisted: the instant is not read in the same unit.
isTokenBlacklistedInSeconds(j, t) ==
  j \in DOMAIN tokenBlacklist /\ tokenBlacklist[j] \div 1000 >= t

\* What isTokenBlacklisted returns at instant t ...
isTokenBlacklisted(j, t) == j \in DOMAIN tokenBlacklist /\ tokenBlacklist[j] >= t

\* Mutant of AfterLookup: an entry is deleted once it has refused a request.
AfterLookupOnce(j, t) ==
  [k \in {i \in DOMAIN tokenBlacklist : i # j \/ tokenBlacklist[i] < t}
     |-> tokenBlacklist[k]]

\* ... and what it leaves in the map: an expired entry it meets is deleted.
AfterLookup(j, t) ==
  [k \in {i \in DOMAIN tokenBlacklist : i # j \/ tokenBlacklist[i] >= t}
     |-> tokenBlacklist[k]]

----------------------------------------------------------------------------

Tick ==
  /\ \E t \in Instants : t > now /\ now' = t
  /\ UNCHANGED <<exp, tokenBlacklist, decision>>

\* jwt.sign in login: iat is Date.now() in whole seconds, exp is iat + Lifetime.
Issue(j) ==
  /\ exp[j] = 0
  /\ exp' = [exp EXCEPT ![j] = now \div 1000 + Lifetime]
  /\ UNCHANGED <<now, tokenBlacklist, decision>>

\* Mutant of Logout: the seconds of the claim are stored as milliseconds.
LogoutInSeconds(j) ==
  /\ exp[j] # 0
  /\ tokenBlacklist' = Purge(Put(tokenBlacklist, j, exp[j]), now)
  /\ UNCHANGED <<now, exp, decision>>

\* Mutant of Logout: no clean-up.
LogoutNoPurge(j) ==
  /\ exp[j] # 0
  /\ tokenBlacklist' = Put(tokenBlacklist, j, exp[j] * 1000)
  /\ UNCHANGED <<now, exp, decision>>

(***************************************************************************)
(* logout up to its first await: jwt.decode, then blacklistToken.  The     *)
(* request passed authenticate earlier and then waited for the database,   *)
(* so the token is one that was signed and may be expired or blacklisted   *)
(* by now.                                                                 *)
(***************************************************************************)
Logout(j) ==
  /\ exp[j] # 0
  /\ tokenBlacklist' = Purge(Put(tokenBlacklist, j, exp[j] * 1000), now)
  /\ UNCHANGED <<now, exp, decision>>

(***************************************************************************)
(* authenticate up to its await: jwt.verify at now, isTokenBlacklisted at  *)
(* later.  The blacklist is not consulted for a token that verify refuses. *)
(***************************************************************************)
Authenticate(j, later) ==
  /\ later >= now
  /\ now' = later
  /\ IF Verified(j, now)
     THEN /\ decision' = [token |-> j, accepted |-> ~isTokenBlacklisted(j, later)]
          /\ tokenBlacklist' = AfterLookup(j, later)
     ELSE /\ decision' = [token |-> j, accepted |-> FALSE]
          /\ UNCHANGED tokenBlacklist
  /\ UNCHANGED exp

\* The process dies and comes back: the map is gone, the signed tokens are not.
Restart ==
  /\ tokenBlacklist' = [j \in {} |-> 0]
  /\ UNCHANGED <<now, exp, decision>>

Next ==
  \/ Tick
  \/ \E j \in Jti : Issue(j) \/ Logout(j) \/ \E later \in Instants : Authenticate(j, later)
  \/ Restart

Spec == Init /\ [][Next]_vars

----------------------------------------------------------------------------

(***************************************************************************)
(* Every entry of the map belongs to a signed token and is that token's    *)
(* own expiry, in milliseconds, so the map and jwt.verify agree on when    *)
(* the token ends although one counts seconds and the other milliseconds.  *)
(***************************************************************************)
EntriesAreExpiries ==
  \A j \in DOMAIN tokenBlacklist : exp[j] # 0 /\ tokenBlacklist[j] = exp[j] * 1000

\* The inductive invariant: types, and the agreement of the two units.
Inv == TypeOK /\ EntriesAreExpiries

Live == {j \in Jti : Verified(j, now)}

Revoked == {j \in Live : j \in DOMAIN tokenBlacklist}

R == INSTANCE Revocation WITH
       Token   <- Jti,
       fresh   <- {j \in Jti : exp[j] = 0},
       live    <- Live,
       revoked <- Revoked

(***************************************************************************)
(* The map with its two clocks and its lazy clean-up implements revocation *)
(* with a memory that only a restart of the process empties: until then a  *)
(* logged-out token is refused until it expires, no other live token is    *)
(* ever refused, and an expired token is never accepted.                   *)
(***************************************************************************)
ImplementsRevocation == R!Spec

(***************************************************************************)
(* No step but a restart turns a revoked token into an acceptable one, for *)
(* instance by purging its entry while jwt.verify would still let it       *)
(* through, or by deleting an entry that a lookup meets.                   *)
(***************************************************************************)
NoResurrection ==
  [][Restart \/ \A j \in Jti : j \in Revoked /\ j \in Live' => j \in Revoked']_vars

(***************************************************************************)
(* A logout leaves no entry behind that has already expired: what the map  *)
(* holds is bounded by the tokens signed in the last Lifetime, plus what   *)
(* expired since the last logout.                                          *)
(***************************************************************************)
LogoutCleansUp ==
  [][\A j \in Jti : j \in DOMAIN tokenBlacklist' \ DOMAIN tokenBlacklist
        => \A k \in DOMAIN tokenBlacklist' : tokenBlacklist'[k] >= now]_vars
=============================================================================
