SPECIFICATION Spec
CONSTANTS
    Units <- EdgeUnits
    MaxUnits = 4
    Tiny = 3
INVARIANTS
    TypeOK
    NamesComeBack
    NothingDropped
    BindReadsWritten
    AsciiComesBack
    CutAtTheEnd
