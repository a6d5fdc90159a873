CONSTANTS
    MaxCalls = 3
    ConfirmTypes = {"NUMERIC", "CONSENT"}
    MaxHostEvents = 1
SPECIFICATION Spec
PROPERTY NoUnrequestedBleDisable
