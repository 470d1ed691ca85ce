SPECIFICATION Spec
CONSTANTS
    MaxInt = 7
    MinMem = 2
    Cpus = {1}
    Mems = {1, 2, 3, 4}
    Budgets = {0, 1}
    AgentDefault <- MCAgentDefault
    ExecutorDefault <- MCExecutorDefault
    Unknown = Unknown
    MaxCommands = 3
    MaxOutside = 1
INVARIANTS ChangesSurvive SwapIsTwiceMemory
CHECK_DEADLOCK FALSE
