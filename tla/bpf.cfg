SPECIFICATION CompileSpec
CONSTANTS
    M = 16
    WordBits = 4
    JumpMax = 3
    BPF_MEMWORDS = 2
    Programs <- AllPrograms
    MaxBuf = 5
    MaxInstalls = 1
    MayFail = TRUE
    MaxMoves = 4
    Exprs <- MCExprs
    Packets <- MCPackets
CHECK_DEADLOCK FALSE
PROPERTY Terminates
INVARIANT FilterMeans
INVARIANT CompiledIsValid
INVARIANT ValuesFit
PROPERTY CompileReturns
INVARIANT InterpreterSafe
