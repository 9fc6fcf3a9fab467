CONSTANTS
    Batches <- MCBatches
    Null = Null
SPECIFICATION ScalarSpec
INVARIANTS
    ScalarTypeOK
    ShortlistIsWhatIsLookedUp
    RecognisersExclusive
    PrivateRowsAreAddresses
    TypesAreAsTested
    PrivateMeansReserved
    ViewIsTheOutputSpace
    DocumentedAnswersHold
CHECK_DEADLOCK FALSE
