SPECIFICATION WebSpec
CONSTANTS
    Editable = {"EnableRecordings", "EnableTranscriptions", "EnableLiveCaptions", "TranscribeAPI", "RTCDServiceURL", "UDPServerPort"}
    Overridable = {"EnableRecordings", "EnableTranscriptions", "RTCDServiceURL", "UDPServerPort"}
    MaxEdits = 3
    NumCalls = 2
    MaxMoves = 3
    MaxEvts = 2
    Mics = {1, 2}
    Scopes = {{"mic"}, {"cam"}, {"scr"}}
    MaxUses = 3
    MaxWaiting = 2
    Chans = {1, 2}
    DMs = {2}
    MaxClients = 2
    MaxClicks = 3
    Skews = {0, 3}
    MaxEvents = 5
    MaxLag = 1
    MaxDone = 3
    Others = {1, 2}
    MaxActs = 4
    MaxOnWay = 3
INVARIANTS
    DependantsFollow
    RingEnds
    RingOnce
    AnnouncedIsOn
    MicFollowsButton
    SelectedMicUsed
    CameraReleased
    BlurKept
    CapturesReleased
    OneClient
    PromptFollowsNews
    AlertsCurrent
    WindowsAgree
    PopoutEnds
CHECK_DEADLOCK FALSE
