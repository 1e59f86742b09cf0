SPECIFICATION Spec
CONSTANTS
    Requests = {c1, c2}
    Actors = {a1}
    Tasks = {t1, t2}
    Schedules = {s1}
    Webhooks = {w1}
    n1 = n1
    n2 = n2
    Names <- NamesOf
    Named = {t1}
    NoName = NoName
    Nobody = Nobody
    NotYet = NotYet
    Gone = Gone
    Editors = {c1, c2}
    Versions = {v1}
    Files = {f1, f2}
    EnvNames = {x1}
    NoFile = NoFile
    Records = {r1}
    Accesses = {b1, b2, b3}
    Absent = Absent
    None = None
    Callers = {c1, c2}
    Owners = {u1}
    StorageIds = {i1, i2, i3}
    lower = lower
    upper = upper
    StorageNames <- Casings
    Unnamed = Unnamed
    NotHeld = NotHeld
    ConfigEditors = {c1, c2}
    Unmentioned = Unmentioned
    NoSettings = NoSettings
    ActorBodies <- BodiesOfActors
    TaskBodies <- BodiesOfTasks
    Builds <- BuildsOf
    RunRequests <- RequestsOf
    OptionBodies <- OptionsOf
    DebugSettings <- DebugOf
    Folders = {d1}
    Ports = {"80", "81"}
    Unset = Unset
    MaxLaunches = 2
    PriceEditors = {c1, c2}
    PricedRuns = {r2}
    PriceLists <- ListsOfPrices
    FREE = FREE
    Omitted = Omitted
    MaxDay = 3
SYMMETRY RequestsAlike
INVARIANTS
    NamesUnique
    CascadeComplete
    ContextHasFile
    OneStoragePerName
    EffectiveConfigValid
    StartedAsPromised
    PricesAreAHistory
PROPERTIES
    ImplementsAtomic
CHECK_DEADLOCK FALSE
