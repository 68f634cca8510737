SPECIFICATION Spec

CONSTANTS
    Plans <- OneDocument
    None = None

INVARIANTS NeverStranded
