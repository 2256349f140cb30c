SPECIFICATION Spec
CONSTANTS
    Programs <- AllPrograms
    Spread <- Several
    Faults = {"lies", "fails", "accepts", "options", "limits", "elsewhere", "everywhere", "environment", "bootstrap", "hangs"}
INVARIANTS
    TypeOK
    PassSound
    
