SPECIFICATION Spec
CONSTANTS
    Expressions <- MCExpressions
    Terms <- MCTerms
    Answer <- MCAnswer
INVARIANTS
    TypeOK
    ReferencesCounted
    
    RoundTrip
PROPERTIES
    Ends
CHECK_DEADLOCK FALSE
