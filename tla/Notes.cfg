SPECIFICATION NotesSpec
CONSTANTS
    tab1 = tab1
    tab2 = tab2
    Editors = {tab1, tab2}
    foo = foo
    bar = bar
    MaxEvents = 3
    foo_ = foo_
    Texts = {foo, foo_, bar}
    Normal <- MCNormal
    None = None
    MaxInputs <- MCMaxInputs
    MaxRevision = 2
    MaxJobs = 3
    MaxAttempts = 2
    MaxDeletes = 1
    MaxRestores = 1
    MaxFaults = 1
    MaxCrashes = 1
INVARIANTS Types NothingIsOverwrittenUnseen SavedTextIsOfRevision LabelsAreHonest OneSaveAtATime PublishedIsStored RestIsRight
PROPERTIES SavesEnd VerifiedStays
CHECK_DEADLOCK FALSE
