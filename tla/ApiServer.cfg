SPECIFICATION Spec
CONSTANTS
    Requests = {r1, r2}
    Workers = {w1, w2}
    MaxConcurrent = 1
    Pieces = 2
    MaxFailures = 1
    None = None
INVARIANTS StreamsRight SessionsSeparate
PROPERTIES RequestsAnswered
CHECK_DEADLOCK FALSE
