SPECIFICATION VerificationSpec
CONSTANTS
    Nil = Nil
    MaxAudit = 2
CHECK_DEADLOCK FALSE
INVARIANT NoFalseAlarm
