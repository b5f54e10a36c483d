CONSTANTS
    v1 = v1
    v2 = v2
    v3 = v3
    n1 = n1
    n2 = n2
    n3 = n3
    r1 = r1
    r2 = r2
    r3 = r3
    Vms = {v1}
    Nodes = {n1}
    Requests = {r1}
    Kinds = {"act"}
    Nowhere = Nowhere
    MaxMoves = 0
    MaxFaults = 1
    CIRCUIT_FAILURE_THRESHOLD = 3
    CIRCUIT_COOLDOWN = 1
    MaxFailures = 3
SPECIFICATION AuditedSpec
INVARIANT
    WhatRanIsRecorded
