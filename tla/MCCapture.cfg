SPECIFICATION Spec
CONSTANTS
    MaxJobs = 2
    MaxScans = 2
    song = song
    clip = clip
    mix = mix
    Urls <- MCTwoUrls
    KindOf <- MCKindOfTwo
    NoUrl = NoUrl
INVARIANTS
    ShownIsMusic
PROPERTIES
    NoFrozenDownload
CHECK_DEADLOCK FALSE
