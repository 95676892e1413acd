------------------------------ MODULE MCRecords -----------------------------
(* Instances of Records for TLC. *)
EXTENDS Records, TLC

CONSTANTS salary, rent, old,   \* records
          r1, r2, r3

Columns == {"type", "amount"}
Values  == RecordType \cup {"low", "high"}

row(type, amount) == [type |-> type, amount |-> amount]

\* A recent record, an older one, and one that is deleted.
Table ==
  salary :> [data |-> row("INCOME", "low"), recent |-> TRUE, isDeleted |-> FALSE]
    @@ rent :> [data |-> row("EXPENSE", "low"), recent |-> FALSE, isDeleted |-> FALSE]
    @@ old :> [data |-> row("INCOME", "high"), recent |-> TRUE, isDeleted |-> TRUE]

create(type)     == [op |-> "create", role |-> "ADMIN", data |-> row(type, "low")]
update(id, data) == [op |-> "update", role |-> "ADMIN", target |-> id, data |-> data]
delete(id)       == [op |-> "delete", role |-> "ADMIN", target |-> id]
get(id)          == [op |-> "get", role |-> "ANALYST", target |-> id]
stats(role)      == [op |-> "stats", role |-> role]
list(type, page) ==
  [op |-> "list", role |-> "ANALYST", type |-> type, page |-> page, limit |-> 1]

\* Writers of different columns and of the same one, and deletions, of one record
\* and of one that another request creates; readers of what they move; requests
\* for a deleted record and one that its guard refuses.
RecordCalls ==
  {create("INCOME"), delete(salary), delete(r1), get(r1), delete(old),
   update(salary, "amount" :> "high"), update(salary, row("EXPENSE", "high")),
   update(r1, "amount" :> "high"), [delete(salary) EXCEPT !.role = "ANALYST"],
   list("INCOME", 1), list("any", 2), stats("ADMIN")}

\* r1 is named by the calls; the other two requests are interchangeable.
Symmetry == Permutations({r2, r3})
=============================================================================
