SPECIFICATION Spec
CONSTANTS
    MaxJcs = 2048
    MaxLocators = 2
    MaxLocatorBytes = 2
    MaxParents = 2
    MaxCreated = 3
    MaxNonce = 11
    NonceDigits = 2
    MaxH = 80
    UnitScale = 2
    Drafts <- MCDrafts
    Hashes <- MCHashes
    Alterations <- MCAlterations
    EnvelopeSize = 100
    MaxChanges = 2
    Nonces = {9, 10}
    Pow10 <- MCPow10
INVARIANTS
    AgreeOnStatus
    SameReport
    MinedIsValid
    SignedIsValid
    ExhaustedMeansAll
    DiagnosticAgrees
    
