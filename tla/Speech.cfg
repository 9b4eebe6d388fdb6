SPECIFICATION Spec
CONSTANTS
    MaxSpeeches = 2
    MaxTurns = 2
    MaxCalls = 3
    MaxToolSteps = 1
INVARIANT TypeOK
INVARIANT OneSpeaks
INVARIANT NoneForgotten
INVARIANT DrainedIsQuiet
INVARIANT StuckByInterruption
INVARIANT SpeechEnds
INVARIANT StopsEnd
CHECK_DEADLOCK FALSE
VIEW View
