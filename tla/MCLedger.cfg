SPECIFICATION Spec
CONSTANTS
    Handlers = {1, 2, 3}
    Topics <- MCTopics
    Days = {1, 2}
    Bank <- MCBank
CONSTRAINT Bounded
INVARIANTS ReferencesStayOwn ShapesHold StatementsMerge StoredOnce
PROPERTIES HistoryIsKept
CHECK_DEADLOCK FALSE
