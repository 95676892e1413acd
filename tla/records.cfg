CONSTANTS
  salary = salary
  rent = rent
  old = old
  r1 = r1
  r2 = r2
  r3 = r3
  NoRow = NoRow
  Field <- Columns
  Value <- Values
  InitialRecords <- Table
  Request = {r1, r2, r3}
  Calls <- RecordCalls
  MaxInFlight = 3
  DbMayFail = TRUE
SPECIFICATION Spec
SYMMETRY Symmetry
INVARIANTS IInv NoLostUpdate FiguresAgree
PROPERTY ImplementsLedger
