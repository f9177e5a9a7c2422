CONSTANTS
    Group = {"global", "own"}
    LastTick = 5
    IntervalMachine = {"first"}
    ToggleMachine = {"blink", "second"}
    Interval <- Intervals
    Groupings <- GlobalOrApart
    Order <- FirstThenSecond
    Observed = "blink"
    Messenger = {o1}
    MessageSize = 2

SPECIFICATION Spec

PROPERTY IntervalOverAtTarget
