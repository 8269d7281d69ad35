SPECIFICATION RMSpec
CONSTANTS
    nil = nil
    Nil = nil
    Versions <- MCConstraintVersions
INVARIANTS
    ConstraintsAsSpecified
