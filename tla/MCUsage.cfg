SPECIFICATION MCSpec
CONSTANTS
    Requests = {r1, r2}
    Buckets = {usd, eur}
    NoRow = NoRow
    NoBucket = NoBucket
CHECK_DEADLOCK FALSE
INVARIANTS LedgerIsExact TransferIsSafe CredentialsSurvive
PROPERTIES GenuineIsFinal TasksEnd
