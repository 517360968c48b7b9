\* Two stems of one title, played by both emulators.
CONSTANTS
    a = a  b = b  t1 = t1
    Stems = {a, b}
    Titles = {t1}
    TitleOf <- OneTitle
    Named = {a, b}
    MaxTime = 3
    None = None
SPECIFICATION Spec
INVARIANTS TypeOK OwnProgress Restorable StartsFromStem
PROPERTY ProgressArrives
