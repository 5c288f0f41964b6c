SPECIFICATION FairSpec
CONSTANTS
    None = None
    Startup = Startup
    Service = {"containers"}
    BootOrder <- JustContainers
    Sources <- FewSources
    Inputs <- MostInputs
    Channels <- MailAndNumber
    Cooldown = 2
    MaxChanges = 2
    MaxTime = 2
    MaxRestarts = 0
PROPERTY
    WorseningAlerts
