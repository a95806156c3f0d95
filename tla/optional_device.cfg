SPECIFICATION PassthroughSpec
CONSTANTS
    Function <- MCFunction
    Display <- MCDisplay
    SlotOf <- MCSlotOf
    Config <- MCConfig
    Host <- MCHost
    MaxSlot = 3
    SpiceSlot = 2
    BuiltIn = {0}
    MaxEvents = 0
CHECK_DEADLOCK FALSE
INVARIANTS
    OptionalAbsenceHarmless
