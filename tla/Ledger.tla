------------------------------- MODULE Ledger -------------------------------
(***************************************************************************)
(* What the records service promises, with no statements and no awaits:    *)
(* the abstract specification that Records implements.  A mutation takes   *)
(* effect at one instant between its call and its answer, at most once,    *)
(* and touches only the columns it names.  It is put on record after it    *)
(* took effect and before its success is reported.  A refusal is justified *)
(* at the instant it is given and excludes any effect.                     *)
(*                                                                         *)
(* Two things are left open on purpose.  A mutation that is answered 500   *)
(* may or may not have taken effect, and an update or a deletion may take  *)
(* effect on a row that has been deleted since the call.                   *)
(***************************************************************************)
EXTENDS RecordTypes

VARIABLES rows,      \* the records
          call,      \* what each request asks
          taken,     \* the requests that took effect
          recorded,  \* the requests on record
          answer     \* the status code of each answer, 0 until there is one

vars == <<rows, call, taken, recorded, answer>>

Init ==
  /\ rows = InitialRecords
  /\ call \in [Request -> Call]
  /\ taken = {}
  /\ recorded = {}
  /\ answer = [r \in Request |-> 0]

Live(id) == id \in DOMAIN rows /\ ~rows[id].isDeleted

Answer(r, code) == answer' = [answer EXCEPT ![r] = code]

Insert(r) ==
  rows' = [id \in DOMAIN rows \cup {r} |->
             IF id = r
             THEN [data |-> call[r].data, recent |-> TRUE, isDeleted |-> FALSE]
             ELSE rows[id]]

Amend(r) ==
  /\ call[r].target \in DOMAIN rows
  /\ rows' = [rows EXCEPT ![call[r].target].data =
                [f \in Field |-> IF f \in DOMAIN call[r].data THEN call[r].data[f] ELSE @[f]]]

Remove(r) ==
  /\ call[r].target \in DOMAIN rows
  /\ rows' = [rows EXCEPT ![call[r].target].isDeleted = TRUE]

TakeEffect(r) ==
  /\ answer[r] = 0 /\ r \notin taken
  /\ call[r].role \in AllowedRoles(call[r].op)
  /\ \/ call[r].op = "create" /\ Insert(r)
     \/ call[r].op = "update" /\ Amend(r)
     \/ call[r].op = "delete" /\ Remove(r)
  /\ taken' = taken \cup {r}
  /\ UNCHANGED answer \/ Answer(r, 500)
  /\ UNCHANGED <<call, recorded>>

\* The entry is written, and the success reported unless that fails.
Record(r) ==
  /\ answer[r] = 0 /\ r \in taken \ recorded
  /\ recorded' = recorded \cup {r}
  /\ Answer(r, SuccessCode(call[r].op)) \/ Answer(r, 500)
  /\ UNCHANGED <<rows, call, taken>>

\* A query is answered.
Report(r) ==
  /\ answer[r] = 0
  /\ call[r].op \notin Mutation
  /\ call[r].role \in AllowedRoles(call[r].op)
  /\ call[r].op = "get" => Live(call[r].target)
  /\ Answer(r, 200)
  /\ UNCHANGED <<rows, call, taken, recorded>>

Refuse(r) ==
  /\ answer[r] = 0 /\ r \notin taken
  /\ \/ call[r].role \notin AllowedRoles(call[r].op) /\ Answer(r, 403)
     \/ call[r].op \in Targeted /\ ~Live(call[r].target) /\ Answer(r, 404)
  /\ UNCHANGED <<rows, call, taken, recorded>>

Fail(r) ==
  /\ answer[r] = 0
  /\ Answer(r, 500)
  /\ UNCHANGED <<rows, call, taken, recorded>>

Next ==
  \E r \in Request : TakeEffect(r) \/ Record(r) \/ Report(r) \/ Refuse(r) \/ Fail(r)

Spec == Init /\ [][Next]_vars
=============================================================================
