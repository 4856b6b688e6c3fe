SPECIFICATION StoresSpec
CONSTANTS
    t1 = t1
    t2 = t2
    Threads = {t1, t2}
    Keys = {0, 1}
    Blocks = {1, 2, 3, 4, 5, 6}
    Settings <- MCSettings
    None = None
    SPDKSettings <- DeviceSettings
CHECK_DEADLOCK FALSE
INVARIANTS StoresReadLatest StoresSound
