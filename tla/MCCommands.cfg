CONSTANTS
  NoStep = NoStep
  Junk = Junk
  NoRole = NoRole
  NoArg = NoArg
  Inputs <- MCInputs
SPECIFICATION Spec
INVARIANTS
  
  NormalFormsHold
  SchedulesAreMeant
