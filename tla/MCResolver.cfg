SPECIFICATION RSpec
CONSTANTS
    Worlds <- MCWorlds
    CatalogOrder <- MCCatalogOrder
    ChannelOrder <- MCChannelOrder
    DefaultChannel <- MCDefaultChannel
INVARIANTS
    AgendaKept
    ResolvedRight
PROPERTY
    Terminates
