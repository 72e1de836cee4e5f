SPECIFICATION Spec
CONSTANTS
    Devices = {dev1, dev2}
    Plain = Plain
    Null = Null
    Short = Short
    Tables <- MCTables
INVARIANTS
    NamesInherited
    CountsAgree
    RecordsPlaced
CHECK_DEADLOCK FALSE
