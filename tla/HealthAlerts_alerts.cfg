SPECIFICATION FairSpec
CONSTANTS
    None = None
    Startup = Startup
    Service = {"containers"}
    BootOrder <- JustContainers
    Sources <- FewSources
    Inputs <- MostInputs
    Channels <- MailAndNumber
    Cooldown = 1
    MaxChanges = 2
    MaxTime = 1
    MaxRestarts = 1
INVARIANTS
    TypeOK
    AlertsGoOut
    StatusIsWorstPart
    RowsAgree
PROPERTIES
    ImplementsPolicy
    StateCatchesUp
