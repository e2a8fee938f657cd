SPECIFICATION CenterSpec
CONSTANTS
    Callers = {"writer", "reader"}
    Mode <- MCMode
    ToolCalls <- MCCalls
    TypedTools = {"write_file"}
    Patterns = {"n*"}
    Globbed <- MCGlobbed
    MaxCalls <- MCMaxCalls
    MaxEdits = 1
    Tabs = {"t1"}
    MaxLoads = 1
INVARIANT MostSpecificRuleWins
CHECK_DEADLOCK FALSE
