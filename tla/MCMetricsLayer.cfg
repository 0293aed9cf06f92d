\* A request span, a storage span and datastore spans nested in any order,
\* entered up to twice at once, with the clock moving between enter and exit.
CONSTANTS
    s1 = s1  s2 = s2  s3 = s3
    shouldRateLimit = shouldRateLimit  checkAndUpdate = checkAndUpdate
    datastore = datastore
    None = None
    Spans = {s1, s2, s3}
    Names = {shouldRateLimit, checkAndUpdate, datastore}
    Groups <- MCGroups
    MaxTime = 2
    MaxEntries = 2
SPECIFICATION Spec
PROPERTY ConsumerReceivesRecordedTime
