CONSTANTS
    Hosts = {h1, h2, h3}
    Chunks = {c1}
    MaxWrites = 2
SPECIFICATION Spec
INVARIANT Conservation
PROPERTIES EmptyAnswerMeansDrained ReadAnswered
CHECK_DEADLOCK FALSE
