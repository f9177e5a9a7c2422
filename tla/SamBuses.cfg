CONSTANTS
    Generators = {2}
    TimeOuts = {8}
    ModuleClocks = {"usb", "sercom"}
    UsbClock = "usb"
    NoGenerator = NoGenerator

SPECIFICATION SamSpec

INVARIANT BusesApart
