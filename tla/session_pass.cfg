SPECIFICATION FairSpec
CONSTANTS
    a = a
    b = b
    ip = ip
    proxy = proxy
    None = None
    Hosts <- TheHosts
    Literals = {ip}
    Parent = proxy
    Worlds <- SoundWorlds
    MAXIPS = 3
    MAXALIVE = 2
    MaxParts = 1
INVARIANTS TypeOK HeaderReachesHost TriesAllAddresses UploadsOnce KeptInSync KeyIsHost
PROPERTIES RequestsEnd
