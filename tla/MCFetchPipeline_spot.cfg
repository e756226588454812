SPECIFICATION Spec
CONSTANTS
    Exp <- MCExp
    Contract <- MCContract
    Session <- MCSession
    Listed <- MCListed
    Reported <- MCReported
    Liquid <- MCLiquid
    Sound <- MCSound
    Plan <- MCPlan
    Frames = {"placeholder"}
    MaxRuns = 1
INVARIANTS
    SpotIsJoined
