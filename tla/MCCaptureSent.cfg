SPECIFICATION Spec
CONSTANTS
    MaxJobs = 1
    MaxScans = 2
    song = song
    clip = clip
    mix = mix
    Urls <- MCUrls
    KindOf <- MCKindOf
    NoUrl = NoUrl
INVARIANTS
    HighlightedIsSent
CHECK_DEADLOCK FALSE
