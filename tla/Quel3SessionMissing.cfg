SPECIFICATION Spec
CONSTANTS
    NRuns = 2
    RequestAttempts = 2
    CreateAttempts = 2
    MaxCancels = 1
    ids1 = ids1
    ids2 = ids2
    NoBinding = NoBinding
    Bindings <- MCBindings
    Binding <- MCBinding
PROPERTIES
    MissingPropagatesImmediately
