------------------------------ MODULE MCAccounts ----------------------------
(* Instances of Accounts for TLC. *)
EXTENDS Accounts, TLC

CONSTANTS ann, bob, vic, sue,    \* accounts, each registered under its own address
          tokAnn, tokBob, tokVic,
          eva,                   \* an address with no account at the start
          r1, r2, r3

Active(e, role) == [email |-> e, role |-> role, status |-> "ACTIVE", isDeleted |-> FALSE]

\* The address of an account is written as the account itself.
AllKinds ==
  ann :> Active(ann, "ADMIN") @@ bob :> Active(bob, "ADMIN") @@ vic :> Active(vic, "VIEWER")
    @@ sue :> [Active(sue, "ANALYST") EXCEPT !.status = "SUSPENDED"]

\* vic was an administrator when its token was signed, and was demoted since.
AllTokens ==
  tokAnn :> [userId |-> ann, role |-> "ADMIN"]
    @@ tokBob :> [userId |-> bob, role |-> "ADMIN"]
    @@ tokVic :> [userId |-> vic, role |-> "ADMIN"]

\* Somebody registers under the address that bob, once deleted, would get.
AllEmails == {ann, bob, vic, sue, eva, Anonymised(bob)}

register(e)            == [op |-> "register", email |-> e]
login(e, ok)           == [op |-> "login", email |-> e, passwordOk |-> ok]
logout(t)              == [op |-> "logout", token |-> t]
me(t)                  == [op |-> "me", token |-> t]
getUser(t, u)          == [op |-> "getUser", token |-> t, target |-> u]
deleteUser(t, u)       == [op |-> "deleteUser", token |-> t, target |-> u]
createUser(t, e, role) == [op |-> "createUser", token |-> t, email |-> e, role |-> role]
updateRole(t, u, role) == [op |-> "updateRole", token |-> t, target |-> u, role |-> role]
updateStatus(t, u, st) == [op |-> "updateStatus", token |-> t, target |-> u, status |-> st]

\* Calls of which one can affect another: promotions and demotions, deletions and
\* the addresses they free and take, a session that ends, an account that is
\* created and used.
RaceList ==
  <<register(bob), register(Anonymised(bob)), login(bob, TRUE), logout(tokBob),
    deleteUser(tokAnn, bob), deleteUser(tokBob, ann), deleteUser(r1, vic),
    createUser(tokBob, eva, "ADMIN"), updateRole(tokAnn, vic, "ADMIN"),
    updateRole(tokVic, bob, "VIEWER"), updateStatus(tokAnn, bob, "ACTIVE")>>

RaceCalls == {RaceList[i] : i \in DOMAIN RaceList}

\* Every operation and every way it can end.
EveryCall ==
  RaceCalls \cup
  {register(eva), login(eva, TRUE), login(vic, FALSE), login(sue, TRUE), me(tokVic), me(r1),
   getUser(tokAnn, bob), getUser(tokBob, r1), createUser(tokVic, eva, "ADMIN"),
   deleteUser(tokAnn, ann), deleteUser(tokBob, bob), updateStatus(tokAnn, bob, "SUSPENDED"),
   updateRole(tokBob, r1, "ANALYST"), updateRole(tokBob, bob, "ANALYST")}

\* Any three calls that race.  r2 and r3 are interchangeable, no call names them,
\* so one order of theirs is enough.
Races ==
  UNION {{r1 :> a @@ r2 :> RaceList[i] @@ r3 :> RaceList[j] :
            a \in RaceCalls, j \in i..Len(RaceList)} : i \in DOMAIN RaceList}

\* Any other two calls; the third request is refused on arrival.
Pairs ==
  {r1 :> pair[1] @@ r2 :> pair[2] @@ r3 :> me(r3) :
     pair \in (EveryCall \X EveryCall) \ (RaceCalls \X RaceCalls)}

RacesAndPairs == Races \cup Pairs

\* Two administrators who delete each other.
MutualDeletion == {r1 :> deleteUser(tokAnn, bob) @@ r2 :> deleteUser(tokBob, ann)}

\* One change of a role; two that overlap.
OneChange == {r1 :> updateRole(tokAnn, bob, "VIEWER")}
TwoChanges ==
  {r1 :> updateRole(tokAnn, vic, "ANALYST") @@ r2 :> updateRole(tokBob, vic, "ADMIN")}

\* A login while the account is suspended.
LoginAndSuspension ==
  {r1 :> login(bob, TRUE) @@ r2 :> updateStatus(tokAnn, bob, "SUSPENDED")}
=============================================================================
