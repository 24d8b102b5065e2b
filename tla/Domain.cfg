CONSTANTS
    c1 = c1
    c2 = c2
    None = None
    Clients = {c1, c2}
    NumAssignments = 2
    Deployments <- MCDeployments
    MaxSilent = 1
    MaxFaults <- MCMaxFaults
SPECIFICATION Spec
INVARIANT
    QueuedOrServed
PROPERTIES
    ImplementsPool
    EveryAssignmentServed
    NoClientStuck
