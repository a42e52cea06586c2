SPECIFICATION Spec
CONSTANTS
    Ids = {"o1", "o2"}
    MaxHistoryBars = 2
    Terminals <- AllTerminals
    Turns <- FewTerminals
    Fates = {"answered", "unreached", "lost", "damaged", "delayed"}
    Commands = {"status", "preflight", "list_positions", "demo_open", "demo_close", "kill_status",
                "kill_activate", "kill_deactivate", "reconcile", "resolve_received",
                "read_journal", "diagnose_time", "library"}
    LiveEnabled = FALSE
    MaxSimultaneousPositions = 1
    MaxLate = 1
INVARIANTS
    TypeOK
    DefiniteOutcomes
    OpensAreAuthorized
PROPERTIES
    PreflightAgrees
    AnswersAreUnderstood
