SPECIFICATION Spec
CONSTANTS
    Scripts = {1, 2}
    Breakpoints = {1, 2}
    Urls <- MCUrls
    ScriptUrl <- MCScriptUrl
    Mapped = {2}
    FriendlyPairs <- MCFriendlyPairs
    Contents <- MCContents
    ScriptText <- MCScriptText
    Positions = {0}
    Conditions = {0, 1}
    NoContent = NoContent
    NoCandidate = NoCandidate
    NoPause = NoPause
    Views <- MCViews
    MappingResults <- MCMappingResults
    Bounds <- MCBounds
INVARIANTS
    BindingsMatchOwners
    BrowserHoldsTheOwned
    QuietIsDecided
    QuietIsReconciled
    EveryResumeEndsAPause
    PauseIsTheBrowsers
PROPERTIES
    StaysHeld
CHECK_DEADLOCK FALSE
