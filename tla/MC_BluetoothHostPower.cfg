CONSTANTS
    MaxCalls = 2
    ConfirmTypes = {"NUMERIC", "CONSENT"}
    MaxHostEvents = 1
SPECIFICATION Spec
INVARIANT TypeOK
PROPERTY AppDisableTurnsBleOff
PROPERTY AppEnableTurnsBrOn
