SPECIFICATION FairVoiceSpec
CONSTANTS
    EmitSize = 1
    ResponseSize = 1
    WireSize = 1
    Utterances = 2
    MaxResponses = 2
    MaxDeltas = 2
    HasPlaceholder = TRUE
INVARIANTS
    WordsArrive
    TranscriptsInPlace
    InterruptedAudioStops
PROPERTIES
    EveryTurnEnds
CHECK_DEADLOCK FALSE
