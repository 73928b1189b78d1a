CONSTANTS
    MaxCommands = 4
    PromptWorker = TRUE
SPECIFICATION FairSpec
INVARIANTS
    
    CommandIsAlive

    
