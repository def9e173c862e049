SPECIFICATION Spec
CONSTANTS
    Relays = {A, B}
    Deployments <- AllDeployments
    BadChannel = BadChannel
    None = None
    A = A
    B = B
    wAB = wAB
    wBA = wBA
    c = c
    p = p
    q = q
    x = x
INVARIANTS
    SyncComplete
    ForwardedOnce
    Accounts
    CapabilityStaysHidden
