SPECIFICATION Spec
CONSTANTS
    KeyOrder <- MCKeyOrder
    Starts = {"M-SEARCH", "NOTIFY", "HTTP"}
    Lines <- MCLines
    Empty = "-"
    KeyEnds <- MCKeyEnds
    MaxLines <- MCMaxLines
CHECK_DEADLOCK FALSE
INVARIANTS FieldsAsWritten RoundTrip ResponseAsNotifyKept AnswerKeepsUrn TailKeepsFreeFields
