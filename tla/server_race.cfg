SPECIFICATION Spec
CONSTANTS
  Thread = {t1, t2}
  Uuid = {u1, u2}
  Stranger = stranger
  State <- MCState
  AutomatonOf <- MCAutomatonOf
  Requests <- TwoFormulas
  Traces <- Traces1
  MaxRequests = 4
INVARIANT ReportIsRight
