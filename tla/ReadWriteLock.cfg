\* Three threads, each reader or writer, acquiring or trying, as often as it likes.
CONSTANTS
    Threads = {t1, t2, t3}
    Nobody = Nobody
SPECIFICATION Spec
INVARIANTS Exclusion AtomicsTrueToHolders
PROPERTIES FlaggedWriterSettles ImplementsSharedLock
