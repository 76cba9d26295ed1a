SPECIFICATION EveningSpec
CONSTANTS
    None = None
    ann = ann
    bob = bob
    Customers = {ann, bob}
    Weight <- MCWeight
    Zones <- MCZones
    Readings <- MCReadings
    Forms <- MCForms
    Services <- MCServices
    Schedules <- MCSchedules
    Picks = {60, 120, 1440}
    MaxEdits = 1
INVARIANTS
    DoorMatchesShifts
    NamesTheNextOpening
    TicketStaysOnTheBoard
    PickupIsTheOneAsked
    SlotHoldsItsWeight
SYMMETRY Symmetry
CHECK_DEADLOCK FALSE
