CONSTANTS
    Word = 2
    Byte = {0, 1}
    _data = 0
    _edata = 3
    _bss = 4
    _ebss = 7
    SramEnd = 9
    Flash <- MCFlash
SPECIFICATION FairSpec
INVARIANTS MainStartsInitialised HangsHaveACause
PROPERTIES StartupWritesOnlySections StartupEnds
