SPECIFICATION FairSpec
CONSTANTS
    t1 = t1
    t2 = t2
    session = session
    host = host
    NoTask = NoTask
    Creators = {c1}
    Tasks = {t1, t2}
    Resources = {session, host}
    PluginHosts = {host}
    Desktops = {}
    Android = TRUE
INVARIANTS
    NoCreatorBehindFence
    NothingLeftBehind
    NoLeakedToolFence
PROPERTIES
    ConsentRespected
    UsesPermit
    FenceResolved
