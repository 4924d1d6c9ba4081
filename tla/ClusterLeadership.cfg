SPECIFICATION Spec
CONSTANTS
    Node = {n1, n2}
    NoNode = NoNode
    LeaseSeconds = 1
    HeartbeatTimeout = 1
    Marks = {"DRAINING"}
    MaxLag = 0
    MaxTerm = 3
    MaxStarts = 2
INVARIANTS
    TypeOK
    OneLeaderPerTerm
PROPERTIES
    NoPreemption
    LeaderIsReplaced
    
