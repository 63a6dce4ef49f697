SPECIFICATION MCSpec
CONSTANTS
    Halves <- MCHalves
    Words <- MCWords
    Sampled <- MCSampled
CHECK_DEADLOCK FALSE
INVARIANTS DecodeExact OperationsExact TranslationSound BlocksExact CoverageExact MappedIsMemory ImageLoaded
