\* Every route with every header, and lists of up to two ids.
SPECIFICATION Spec
CONSTANTS
    Users = {u1, u2}
    Spellings = {"canonical", "upper", "malformed"}
    MaxIds = 2
INVARIANTS TypeOK OnlyAdmitted AnsweredOnce CodeTellsOutcome EntriesMatchIds
