SPECIFICATION Spec
CONSTANTS
    Flows = {f1, f2, f3}
    GearCount = 2
    MaxTries = 3
    Mixes <- PanelMixes
SYMMETRY Symmetric
INVARIANTS
    
    
    DeviceAsChosen
CHECK_DEADLOCK FALSE
