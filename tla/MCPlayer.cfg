SPECIFICATION Spec

CONSTANTS
    a = a
    b = b
    none = none
    Tracks <- MCTracks
    Previews <- MCPreviews
    NoTrack = none
    Queues <- MCQueues
    MaxQueue = 3
    MaxFailures = 3

INVARIANTS
    NoEntryTwice
    HeardIsShown

PROPERTIES
    EditsKeepTrack
    LineSurvives
    NoSkipStorm
