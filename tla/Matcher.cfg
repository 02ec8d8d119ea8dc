CONSTANTS
    MaxAnnouncements = 2
    MaxOffers = 2
    AnnouncementProps <- MCAnnouncementProps
    OfferProps <- MCOfferProps
    LimitEntryCount = 1
    MaxLimitEntryCount = 2
    QueueMaxSize = 2
    MaxProbe = 1
    MaxPreferredNATProbe = 2
    YieldCount = 1
    None = None
SPECIFICATION Spec
INVARIANTS
    CountsExact
    LimitsHold
    AnswersRouted
    NoMissedMatch
    BestMatch
    AbortedMatchReported
CHECK_DEADLOCK FALSE
