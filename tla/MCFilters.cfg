SPECIFICATION FiltersSpec
CONSTANTS
    Requests = {r1, r2}
    Windows = {w1, w2}
    Params = {"viewModel"}
    Sites <- MCSites
    MaxIds = 3
    Sql = Sql
    Cookie = Cookie
    Exception = Exception
    DefaultView = DefaultView
    NoView = NoView
    Types <- MCTypes
    Assignable <- MCAssignable
    Settings <- MCSettings
    Rescued = {r1, r2}
INVARIANTS
    TxTypeOK
    OutcomeDecides
    CompletedOnce
    TypeOK
    ShownAtMostOnce
    FailuresReachTheViewUnread
    ArgumentsAreLatest
    RescueTypeOK
    ExactViewFirst
    RescuesItsExceptions
    RendersGivenOrExisting
PROPERTY ParametersSurviveReload
