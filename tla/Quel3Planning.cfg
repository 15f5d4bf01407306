SPECIFICATION Spec
CONSTANTS
    ctl = ctl
    rd1 = rd1
    rd2 = rd2
    rx = rx
    rxc = rxc
    near = near
    far = far
    Payloads <- MCPayloads
    OptionSets <- MCOptionSets
    ReceiverOf <- MCReceiverOf
    MaxJobs = 3
INVARIANTS
    ExecutionsFit
    SplitsOnlyOversized
    ResultsRestored
