SPECIFICATION AskingSpec
CONSTANTS
    MaxBreaks = 1
    MaxExpiries = 0
    MaxWaiting = 1
PROPERTY ListedIsServed
CHECK_DEADLOCK FALSE
