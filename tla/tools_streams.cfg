SPECIFICATION Spec
CONSTANTS
    None = None
    Files <- ShortFiles
    Limits <- FewLimits
    MaxLines = 2
    MaxBytes = 4
    Texts <- SixTexts
    Edits <- SomeEdits
    Editors = {e1}
    Child = {c1, c2}
    Apis = {"chat", "responses", "codex", "anthropic", "mistral", "google"}
    MaxRetries = 1
    MaxChunks = 4
    Shapes <- SixShapes
    MaxMessages = 4
    OldGemini = TRUE
CHECK_DEADLOCK FALSE
INVARIANTS   StreamIsFaithful HistoryIsPortable
PROPERTIES  CallEnds StreamEnds
