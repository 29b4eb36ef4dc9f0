\* Two assistants and a logged-out OpenD; what goes wrong ends.
SPECIFICATION LiveSpec
CONSTANTS
    None = None
    Assistants <- TwoAssistants
    Chunks = 2
    MaxMishaps = 2
INVARIANTS
    RecoveryInv
    OutputMeansObeyed
    CarriedOutOnce
PROPERTIES
    CallEnds
    Recovers
