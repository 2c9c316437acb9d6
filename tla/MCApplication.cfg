CONSTANTS
    main = main
    Tasks = {main, other}
    MaxHooks = 2
    Plugins = {p1}
    NoPlugin = NoPlugin
SPECIFICATION FairAppSpec
INVARIANTS
    PlatformInv
    PluginsAfterHooks
    StopOutcome
    StartOutcome
    HooksOutlivePlugins
    AppInv
PROPERTIES
    CallsEnd
    SignalEndsRun
    DownInTheEnd
