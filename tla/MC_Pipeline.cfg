CONSTANTS
  MaxRuns = 2
  ContainerChoices = {TRUE, FALSE}
  VSCodeChoices = {TRUE, FALSE}
  ParseChoices = {TRUE, FALSE}
  ExecChoices <- MCExecChoices
  ExtChoices = {0, 1}
SPECIFICATION Spec
INVARIANT TypeOK
PROPERTY ImplementsStepReports
INVARIANT InitOnlyAtMostOnce
INVARIANT AcknowledgedStepsApplied
