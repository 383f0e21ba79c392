SPECIFICATION FairSpec
CONSTANTS
  Block = {b1}
  MaxRetries = 2
  MaxBlocks = 2
INVARIANTS NoFalseVerdict NoSilentSubmitting NothingSubmittedUnkept
PROPERTIES SubmitSettles EventuallyCredited
