SPECIFICATION FairSpec
CONSTANTS
    Tasks = {1, 2, 3}
    Pipelines = {"orders", "events", "lone"}
    Scenarios <- MCScenarios
    Forms <- MCForms
    None = None
INVARIANTS TypeOK SavedFormsComeBack 
           TransformsFollowCheckpoints LinesAreWhole
PROPERTIES RefusedByTheLiving TasksEnd
CHECK_DEADLOCK FALSE
