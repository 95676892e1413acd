CONSTANTS
  Jti = {j1, j2}
  Instants <- MCInstants
  Lifetime = 1
SPECIFICATION Spec
INVARIANT Inv
PROPERTIES ImplementsRevocation NoResurrection LogoutCleansUp
