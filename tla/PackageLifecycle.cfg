CONSTANTS
  Revisions = 2
  MaxLeases = 3
  Restarts = 1
  AuthorityRequired = TRUE
SPECIFICATION PackageSpec
INVARIANTS
  OfferIsProven
  CompletedIsConsumable
  ResumeFindsCheckpoint
PROPERTIES
  PublicationsMoveForward
CHECK_DEADLOCK FALSE
