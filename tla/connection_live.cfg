SPECIFICATION LessFairSpec
CONSTANTS
    Transports = {"hid"}
    NoOne = NoOne
    Loops = {l1}
    Clients = {c1}
    Receivers = {r1}
    Cleanups = {k1}
    Power = Power
    Recovery = Recovery
    Health = Health
    Mode = Mode
    MaxAttempts = 1
    FailureThreshold = 2
    Budgets <- LiveMixes
PROPERTIES
    RequestsReturn
    ResumeReopens
