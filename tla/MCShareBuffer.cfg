SPECIFICATION Spec
CONSTANTS
  Submissions <- MCSubmissions
  MaxFaults = 3
INVARIANTS NoShareLost StoredOncePerFault OpenPerFault
PROPERTY FlushedEventually
