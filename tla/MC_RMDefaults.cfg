SPECIFICATION RMSpec
CONSTANTS
    nil = nil
    Nil = nil
    Versions <- MCResourceVersions
INVARIANTS
    DefaultsAsSpecified
    AggregatesAsSpecified
