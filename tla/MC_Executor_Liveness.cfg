CONSTANTS
  Limit = 2
  MaxBytes = 5
  BgChoices = {TRUE, FALSE}
SPECIFICATION FairSpec
PROPERTY CallReturns
