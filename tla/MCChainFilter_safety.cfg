SPECIFICATION Spec
CONSTANTS
    Chain <- MCChain
    Frames <- MCFrames
INVARIANTS
    TypeOK
    EveryRowHasOneFate
    
    CodesNameTheFirstFailure
