CONSTANTS
    NoChar = "eof"
    Delimiters <- Blanks
    Sessions <- Typed
    Commands <- Menu
    Properties <- Bytes
    Digit <- Digits
    ByteMax = 16
    InputMax = 8
    MaxParameter = 4
    QueueSize = 2
    DeviceSize = 1

SPECIFICATION Spec

INVARIANTS
    TypeOK
    ScreenShowsLine
    ParametersAreTokens
    ExecutedIsTyped

PROPERTIES
    OnlyValidatedValuesAreSet
    QueuedCallsAreMade
