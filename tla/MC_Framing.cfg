SPECIFICATION Spec
CONSTANTS
    Payloads <- MCPayloads
    MaxMessageSize = 2
    MaxWrites = 3
INVARIANT TypeOK
PROPERTY ImplementsMsgChannel
\* A reader blocked on an idle connection is a normal end of a run.
CHECK_DEADLOCK FALSE
