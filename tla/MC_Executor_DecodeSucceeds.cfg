CONSTANTS
  Limit = 2
  MaxBytes = 5
  BgChoices = {FALSE}
SPECIFICATION Spec
INVARIANT DecodeSucceeds
