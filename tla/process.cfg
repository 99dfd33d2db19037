SPECIFICATION ProcessSpec
CONSTANTS
    p1 = p1
    p2 = p2
    k1 = k1
    Procs = {p1, p2}
    APIKeys = {k1}
    Roles = {"admin", "user"}
    NoEntry = NoEntry
    Configured <- OneAdmin
    NoCopy = NoCopy
    Unknown = Unknown
    Routes = {"check", "whitelist", "limit", "protected", "rpcCheck", "rpcWhitelist", "rpcLimit"}
    RPCs = {"rpcCheck", "rpcWhitelist", "rpcLimit"}
    Chain <- Chains
    Inputs <- ManyInputs
    RequiredRoles = {"admin"}
    Admin = "admin"
    NoKey = NoKey
    NoRole = NoRole
INVARIANTS ServerInv ProcessInv Authorised
PROPERTIES NothingCutOff SignalEnds
