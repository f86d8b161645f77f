SPECIFICATION Spec
CONSTANTS
    a = a
    b = b
    ip = ip
    proxy = proxy
    None = None
    Hosts <- TheHosts
    Literals = {ip}
    Parent = proxy
    Worlds <- MixedWorld
    MAXIPS = 3
    MAXALIVE = 2
    MaxParts = 1
INVARIANTS HeaderReachesHost
