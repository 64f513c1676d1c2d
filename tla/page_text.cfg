SPECIFICATION MCSpec
CONSTANTS
    ana = ana
    eva = eva
    notes = notes
    rules = rules
    copy = copy
    booklet = booklet
    sheet = sheet
    Users <- MCUsers
    Nobody = Nobody
    Pages <- MCPages
    NoPage = NoPage
    Owner <- MCOwner
    Shared <- MCShared
    Pdf <- MCPdf
    Garbled = {"?"}
    PdfMinChars = 1
    PdfMinWords = 1
    Marks = {"-"}
    PdfMaxGarbled = 2
    PdfMinAlnum = 50
    Image <- MCImage
    TextLayer <- MCTextLayer
    HandWritten <- MCHandWritten
    OcrReadings <- MCReadings
    Fragments <- MCFragments
    Numbers = {"3"}
    Bullet = "e"
    Lexicon <- MCLexicon
    Replacements <- MCReplacements
    Hyphen = "-"
    ChunkSize = 3
    Overlap = 1
    NoConfidence = NoConfidence
    LowLine = 2
    DiscardBelow = 1
    LlmBelow = 3
    LowPage = 4
    RrfK = 60
    FusionCandidates = 20
    Questions <- MCQuestions
    Stopwords <- MCStopwords
    Suffix = "s"
    Idf <- MCIdf
    MaxTexts = 6
    TopK = 2
    MaxEdits = 1
    MaxReprocess = 1
    MaxQuestions = 1
INVARIANTS NoLetterLost MajorityDecides ChunksCoverPage WholeCopies OthersTextIsShared NobodyReadsPrivateText FusionRespectsRanks
PROPERTY SharedWordsAreFound
CHECK_DEADLOCK FALSE
