\* One domain and one database to work on; one retry.
CONSTANTS
    Profiles <- Several
    MaxRetries = 1
    Domains <- Names
    Databases <- Shops
    InitPanels <- Accounts
SPECIFICATION FairProviderSpec
INVARIANTS AnswersTrue PreexistingSurvive
PROPERTIES MethodReturns
