SPECIFICATION PagingSpec
CONSTANTS
    AddrSize = 256
    RAM_BASE = 64
    RAM_SIZE = 64
    Targets <- MCTargets
    Entries = 2
    Upper = 2
    MaxPpn2 = 2
    VAddrs <- MCVAddrs
    Guests <- MCGuests
    StoreValues <- MCStoreValues
PROPERTY EveryByteTranslated
