SPECIFICATION NodeSpec

CONSTANTS
    Keep = 3
    MaxAttempts = 5
    MaxPrunes = 2
    MaxManifestFaults = 1
    MaxManifestKills = 1
    MaxPowerLosses = 1

    AdminKeys = {a1, a2}
    NoKey = none
    MaxAdminFaults = 1
    MaxAdminCrashes = 2

    Views = {v1, v2}
    Appenders = {t1, t2}
    Kinds = {"subject", "hold"}
    BootModes = {"normal", "skip", "log_only"}
    Replicated = FALSE
    MaxEpisodes = 3
    MaxShreds = 1
    MaxStops = 1

    SubmitNodes = {n1, n2}
    SubmitCalls = {c1, c2, c3}
    SubmitKeys = {k1}
    Payloads = {p, q}
    SubmitRoutes = {"alone", "cluster"}
    SubmitTimeouts = TRUE
    SUBMIT_QUEUE = 1
    SUBMIT_INFLIGHT = 1
    MaxElections = 1
    MaxSubmitStops = 2

    GateModes = {"enforce", "shadow"}
    Agents = {g1}
    Requests = {q1}
    Contents = {x, y}
    ApprovalTtl = 1
    MaxPendingGlobal = 2
    MaxPendingPerAgent = 1
    EvidenceSynced = FALSE
    Handlers = {h1, h2}
    MaxApprovals = 2
    MaxGateClock = 1
    MaxGateFaults = 1
    MaxGateStops = 1

INVARIANT NodeTypeOK
INVARIANT LoadsCommitted
INVARIANT EffectAtMostOnce
INVARIANT JournalNeverRefused
INVARIANT SnapshotsFaithful
INVARIANT ServedWhole
INVARIANT ErasedUnlessOvertaken
INVARIANT KeyedOnceUnlessInDoubt
INVARIANT AnswersStand
INVARIANT OwnGrant
INVARIANT ExecutedOnce
INVARIANT EffectOnRecord
PROPERTY OutcomeStands
PROPERTY HoldsRespected

CHECK_DEADLOCK FALSE
