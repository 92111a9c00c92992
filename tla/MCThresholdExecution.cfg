CONSTANTS
    Backends = {"bitcoin", "fractal", "chia", "ergo", "cbmpc"}
    Workers = {w1, w2}
    Jobs <- MCJobs
    Legacy = {4}
    Remote = {2}
    Inputs = 2
    Rounds = 2
    MaxFrames = 3
    MaxClaims = 2
    MaxCalls = 2
    MaxRestarts = 1
SPECIFICATION ExecSpec
INVARIANT KeptNoncesAreInUse
INVARIANT ExecutedOnce
PROPERTY ExecutionEnds
CHECK_DEADLOCK FALSE
