SPECIFICATION Spec
CONSTANTS
    Transports = {"hid", "wifi"}
    NoOne = NoOne
    Loops = {l1, l2}
    Clients = {c1, c2}
    Receivers = {r1}
    Cleanups = {k1, k2}
    Power = Power
    Recovery = Recovery
    Health = Health
    Mode = Mode
    MaxAttempts = 2
    FailureThreshold = 2
    Budgets <- SafetyMixes
SYMMETRY Symmetry
INVARIANTS
    OneReconnectLoop
    QuietWhenAskedTo
PROPERTIES
    StaleAttemptSparesOthers
