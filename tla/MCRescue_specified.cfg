SPECIFICATION RescueSpec
CONSTANTS
    Sql = Sql
    Cookie = Cookie
    Exception = Exception
    DefaultView = DefaultView
    NoView = NoView
    Types <- MCTypes
    Assignable <- MCAssignable
    Settings <- MCSettings
    Rescued = {r1, r2}
INVARIANT RendersSpecified
