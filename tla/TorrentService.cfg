\* Two requests at once, over two files, links and hashes in groups of up to two.
SPECIFICATION Spec
CONSTANTS
    Threads = {t1, t2}
    Hashes = {h1, h2}
    Categories = {c1}
    None = None
    Foreign = Foreign
    Kinds = {"info", "add", "delete", "deleteAll"}
    MaxLinks = 2
SYMMETRY Symmetry
INVARIANTS
    TypeOK
    ListsWhatStays
    UnderwayIsNotDone
    AddedStaysListed
    DeletedIsGone
