CONSTANTS
  ann = ann
  bob = bob
  vic = vic
  sue = sue
  tokAnn = tokAnn
  tokBob = tokBob
  tokVic = tokVic
  eva = eva
  r1 = r1
  r2 = r2
  r3 = r3
  NoUser = NoUser
  InitialUsers <- AllKinds
  InitialTokens <- AllTokens
  Email <- AllEmails
  Request = {r1, r2}
  Workloads <- TwoChanges
  MaxInFlight = 2
  MayFail = {}
  MaxCrashes = 0
SPECIFICATION Spec
PROPERTY BeforeIsReplaced
