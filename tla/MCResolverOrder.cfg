SPECIFICATION RSpec
CONSTANTS
    Worlds <- MCWorlds
    CatalogOrder <- MCCatalogOrder
    ChannelOrder <- MCChannelOrder
    DefaultChannel <- MCDefaultChannel
INVARIANT
    PreferenceKept
