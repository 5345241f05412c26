SPECIFICATION Spec
CONSTANTS
  Worker = {w1, w2}
  Email <- MCEmail
  Normal <- MCNormal
  Password = {"p", "q"}
  Profile = {"n", "m"}
  SEED_EMAIL = "admin"
  SEED_PASSWORD = "p"
  SEED_PROFILE = "n"
  MAX_REQUESTS = 3
CHECK_DEADLOCK FALSE
SYMMETRY MCSymmetry
INVARIANT DeactivationHolds
