SPECIFICATION AdminSpec
CONSTANTS
    ann = ann
    bob = bob
    crew = crew
    User <- MCUser
    Team = crew
    Holder <- MCHolder
    Mapped = {"admin"}
    MassRefusals = 2
    Changer = {"editor"}
    Reader = {"scheduler", "portal"}
    MaxChanges = 2
    CondOps <- MCCondOps
    Policies <- MCPolicies
    Questions <- MCQuestions
    Globs <- MCGlobs
    ClientOf <- MCClientOf
    MaxAsked = 2
    Finished <- MCFinished
    Rates <- MCRates
    RateUnit = 4
    Retention = 1
    HoursPerDay = 2
    MaxHours = 2
    MaxExits = 1
VIEW MCView
INVARIANTS
    AdminTypeOK
    
    
    CacheCurrent
    AnswersAsWritten
    MissingNeverGrants
    SplitNeverWider
    GlobIsMatch
    CountersConserved
    ReportsAgree
CHECK_DEADLOCK FALSE
