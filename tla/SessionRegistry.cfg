SPECIFICATION Spec
CONSTANTS
    Guests = 1
    Accounts = 1
    MaxEvents = 3
INVARIANTS TypeOK Registered Listed Survives Served NoStrays
CHECK_DEADLOCK FALSE
