SPECIFICATION FairSpec
CONSTANTS
  Wants <- TypicalWants
  MaxChatter = 2
INVARIANT NoSecretInClear
INVARIANT Agreement
INVARIANT FailureHasCause
PROPERTY ConnectSettles
