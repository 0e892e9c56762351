SPECIFICATION Spec
CONSTANTS
    Algorithm = {"sha256", "sha384", "sm3"}
    Supported = {"sha256", "sha384"}
    DigestSize <- Sizes
    Requested <- Selections
    Odd <- OddAnswers
    MaxListed = 8
    Codes <- AllCodes
    WordSize = 512
    GivenValues <- Values
    GivenTexts <- TextsGiven
    KnownNames <- Known
    max_backend_error_description_size = 3
CHECK_DEADLOCK FALSE
INVARIANTS
    NothingLostOnTheWire
    ValuesStandByTheirPcr
    AcceptedResultsAreWellFormed
    CodesKeepTheirCategory
    RangesAreExact
    AlgorithmsAgree
    HexComesBack
    FieldsComeApart
    ConfigurationsAgree
