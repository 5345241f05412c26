SPECIFICATION AdminSpec
CONSTANTS
  Worker = {w1, w2}
  Email <- MCEmail
  Normal <- MCNormal
  Password = {"p", "q"}
  Profile = {"n"}
  SEED_EMAIL = "admin"
  SEED_PASSWORD = "p"
  SEED_PROFILE = "n"
  Label = {"x", "y"}
  RequestId = {1, 2}
  MAX_REQUESTS = 3
CHECK_DEADLOCK FALSE
SYMMETRY MCSymmetry
INVARIANTS
  UserTypeOK
  ValuesAsked
  StaffIsAdmin
  OneAccountPerEmail
  RowsAreTheOwners
  FeedbackIsOneSubmission
  UsersAddUp
  RatingsAddUp
PROPERTY
  PagesMissNothing
