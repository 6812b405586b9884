\* A second over on one claim, after a pause longer than the timeout.
SPECIFICATION Spec
CONSTANTS
  ann = ann
  None = None
  Conns = {c1}
  Users = {ann}
  UserOf <- OneOperator
  Denied = {}
  Asked <- Presses
  Tunes = FALSE
  Timeout = 3
  MaxGap = 1
  MaxQueue = 1
INVARIANTS OverSurvives
