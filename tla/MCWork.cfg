SPECIFICATION Spec
CONSTANTS
  Miners = {m1}
  MaxTip = 1
  MaxJobs = 4
INVARIANTS JobIDsTellUnlessTorn JudgedByNewerTemplate
PROPERTY SubmissionEnds
CHECK_DEADLOCK FALSE
