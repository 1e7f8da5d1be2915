SPECIFICATION Spec
CONSTANTS
    Uploads = {u}
    Downloads = {}
    MaxGeneration = 2
    MaxRestarts = 1
    MaxCancels = 0
    MaxShutdowns = 1
    None = None
CHECK_DEADLOCK FALSE
INVARIANTS
    CompletedIsPublished
    UploadKeepsFile
    ChannelOwned
PROPERTIES
    FinalStays
