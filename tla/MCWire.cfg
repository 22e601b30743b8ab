CONSTANTS
    LimitSets <- MCLimits
    Messages <- MCMessages
    Alter <- MCAlter
SPECIFICATION Spec
INVARIANTS
    
    
    AcceptedIsCanonical
    
