CONSTANTS
  ann = ann
  bob = bob
  vic = vic
  sue = sue
  tokAnn = tokAnn
  tokBob = tokBob
  tokVic = tokVic
  eva = eva
  r1 = r1
  r2 = r2
  r3 = r3
  NoUser = NoUser
  InitialUsers <- AllKinds
  InitialTokens <- AllTokens
  Email <- AllEmails
  Request = {r1}
  Workloads <- OneChange
  MaxInFlight = 1
  MayFail = {}
  MaxCrashes = 1
SPECIFICATION Spec
INVARIANT EveryMutationAudited
