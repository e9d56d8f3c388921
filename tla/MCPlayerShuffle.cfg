SPECIFICATION Spec

CONSTANTS
    a = a
    b = b
    none = none
    Tracks <- MCTracks
    Previews <- MCPreviews
    NoTrack = none
    Queues <- MCQueues
    MaxQueue = 2
    MaxFailures = 3

PROPERTY ShuffleKeepsCurrent
