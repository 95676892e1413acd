CONSTANTS
  ann = ann
  bob = bob
  vic = vic
  sue = sue
  tokAnn = tokAnn
  tokBob = tokBob
  tokVic = tokVic
  eva = eva
  r1 = r1
  r2 = r2
  r3 = r3
  NoUser = NoUser
  InitialUsers <- AllKinds
  InitialTokens <- AllTokens
  Email <- AllEmails
  Request = {r1, r2, r3}
  Workloads <- RacesAndPairs
  MaxInFlight = 3
  MayFail = {r1}
  MaxCrashes = 1
SPECIFICATION FairSpec
INVARIANTS IInv EmailsAgree AuditedIsCommitted SuccessMeansAudited RefusedChangedNothing NoChangeLost BeforeWasThere
PROPERTIES NoEscalation LockoutTakesTwo DeletedStaysOut EveryRequestAnswered
