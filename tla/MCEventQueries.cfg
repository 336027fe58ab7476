SPECIFICATION ListSpec
CONSTANTS
    Numbers <- MCNumbers
    Files = {"f1", "f2", "f3"}
    BatchOf <- MCBatchOf
    FieldDefinitions <- MCFieldDefinitions
    FieldOrder <- MCFieldOrder
    EventRequests <- MCRequests
    Anchors <- MCAnchors
    MaxPages = 3
    Selects <- EventPredicate
    Refused <- RefusedPlan
    Groupings <- MCGroupings
    MaxKvRows = 8
    LongTexts <- MCLongTexts
    Fragments <- MCFragments
INVARIANTS
    PagesAreTheResult
    FiltersMeanTheirFacets
    GroupsListTheirEvents
CONSTRAINT FollowedLists
CHECK_DEADLOCK FALSE
