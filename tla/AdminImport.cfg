\* A client, two makers that may write one file, one importer.
SPECIFICATION AdminSpec
CONSTANTS
    Sharers = {c, m1, m2}
    Excluders = {a1}
    Client = c
    Makers = {m1, m2}
    Importers = {a1}
    Stores = {objects, keys}
    KeyStore = keys
    MaxRequests = 2
    MaxBoots = 2
    MaxArchives = 1
    Nothing = Nothing
    NoFile = NoFile
    Torn = Torn
INVARIANTS
    AdminTypeOK
    ArchiveExact
PROPERTIES
    AllOrNothing
CHECK_DEADLOCK FALSE
SYMMETRY Symmetry
