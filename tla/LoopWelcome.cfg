SPECIFICATION LoopSpec
CONSTANTS
    ReconnectInitial = 1
    ReconnectMax = 60
    MaxRefused = 8
INVARIANT WelcomeResets
