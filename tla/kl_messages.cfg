SPECIFICATION Spec
CONSTANTS
    Subjects <- MCSubjects
INVARIANT MemoryIsSound
INVARIANT SessionIsBuffer
INVARIANT SavedWasSent
INVARIANT SavedCanBeOpened
PROPERTY ListRefined
