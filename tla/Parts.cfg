CONSTANTS
    Wdto = {1, 9}
    Pins = {"a0", "a1", "b0"}
    PinGroup <- Group
    PinBit <- Bit
    None = None
    Generators = {2, 3}
    TimeOuts = {8, 4096}
    ModuleClocks = {"usb", "sercom"}
    UsbClock = "usb"
    NoGenerator = NoGenerator
    WiFiRetries = 10
    MQTTRetries = 3
    ClockMax = 5
    Frequency = 3
    Elapsed = {0, 1, 2, 3, 5}
    IntervalMax = 4
    IteratorMax = 4
    MaxsSize = 2
    Callback = {"c", "d"}
    Values = {0, 1}
    Arguments <- Passed
    Unknown = Unknown
    MaxSubscribers = 2
    MaxNested = 2

SPECIFICATION Spec

INVARIANTS
    NoLostWakeup
    AlarmAsRequested
    PinsAndUnitsAsTold
    PeriodAsRequested
    PressesAreTimed
    ProfileIsTrue
    CallbacksAreTold

PROPERTIES
    KeepsProtocol

\* An AVR that nothing can wake sleeps for ever.
CHECK_DEADLOCK FALSE
