SPECIFICATION MSpec
CONSTANTS
    Capacity = 3
    Items = {a, b}
    NoItem = NoItem
    MaxPush = 4
INVARIANTS
    OneSlotStaysFree
    NoSlotRace
PROPERTIES
    DropOnlyWhenFull
    
    ImplementsBoundedFifo
    EverythingIsDelivered
