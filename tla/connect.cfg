SPECIFICATION Spec
CONSTANTS
    Null = Null
    Tasks = {t1, t2}
    Files <- MCFiles
    Content <- MCContent
    Expected <- MCExpected
    Names <- MCNames
    Cars <- MCCars
SYMMETRY Clicks
INVARIANTS TypeOK LoadedAsStored ShownAsStored OneController PolledWhereFound OneModuleShown
CHECK_DEADLOCK FALSE
