SPECIFICATION Spec
CONSTANTS
    Exp <- MCExp
    Contract <- MCContract
    Session <- MCSession
    Listed <- MCListed
    Reported <- MCReported
    Liquid <- MCLiquid
    Sound <- MCSound
    Plan <- MCPlan
    Frames = {"placeholder", "bare"}
    MaxRuns = 1
INVARIANTS
    TypeOK
    CleanRowsAreTheBackedOnes
    
