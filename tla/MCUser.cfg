CONSTANTS
    Client = {c1, c2}
    Device = {s1, s2, s3}
    Agent = {phone, laptop}
    LastVersion = 2
    Job = {j1}
    Line = {l1, l2, junk}
    Valid = {l1, l2}
    MaxConfirms = 2
    Txn = {t1}
    Extension = {jpg, pdf}
    Picture = {p1, p2}
    Key = {"dark_mode", "auto_logout_minutes"}
    Added = {"auto_logout_minutes"}
    Number = {5, 30}
    User = {owner, other}
    Owner = owner
    Server = {k1, k2}
    MaxCrashes = 1
    MaxRequests = 2
    Limit = {0, 25}
    AlertPct = {20, 50}
    Category = {"food", "salary"}
    IncomeCategory = {"salary"}
    BookAmount = {10, 20}
    MonthLength <- MCMonthLength
    BookDate = {2, 3}
    Plan <- MCPlan
    MaxRows = 3
    Notification = {n1, n2}
    PushToken = {phone1}
    Holder = {owner, other}
SPECIFICATION UserSpec
CHECK_DEADLOCK FALSE
INVARIANTS
    UserTypeOK
    OneSessionPerDevice
    ImportedAsReviewed
    ReceiptIsThere
    ChoicesKept
    FirstUseIsSound
    ReportsAgree
    ScoreIsSound
PROPERTIES
    RejectedStaysRejected
    CatalogCompletesInTheEnd
