CONSTANTS
    Requests = {r1, r2, r3}
    SnowSlideLimit = 1
    DefaultSnowSlideLimit = 5
    ReturnNilDataHijack = TRUE
    MaxTime = 2
    ClockSetBack = TRUE
SPECIFICATION FairSpec
INVARIANTS TypeOK AnsweredOnce ReportAgreesWithAnswer OnlyAdmittedRun OptionLimitsWindow
PROPERTIES EveryoneAnswered
