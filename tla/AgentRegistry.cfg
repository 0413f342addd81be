SPECIFICATION FairSpec
CONSTANTS
    limited = limited
    unlimited = unlimited
    n1 = n1
    n2 = n2
    Spawners = {limited, unlimited}
    Threads = {t1, t2}
    RootThreads = {r}
    Paths = {a}
    ROOT = ROOT
    Names = {n1, n2}
    CandidateLists <- MCCandidateLists
    PreferredNicknames <- MCPreferred
    Messages = {m}
    MaxThreads <- Limits
    Unlimited = Unlimited
    None = None
    MaxResets = 1
    MaxReleasing = 1
INVARIANTS
    RegistryInv
    PlaceholdersOwned
    NicknamesDistinct
PROPERTIES
    LimitHoldsAtReserve
    SlotsReturned
