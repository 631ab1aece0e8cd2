CONSTANTS
    Tenants = {a, b}
    Bad = Bad
    MaxEdits = 3
SPECIFICATION FairSpec
INVARIANTS TypeOK AdmissionSteady
PROPERTIES ImplementsRegister Follows Terminates
\* The process may have ended, or be stranded.
CHECK_DEADLOCK FALSE
