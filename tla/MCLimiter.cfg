SPECIFICATION FairSpec
CONSTANTS
    Tasks = {t1, t2}
    Limit = 2
    GatewayWindow = 2
    Margin = 1
    Timeout = 2
    Configured = 3
    Safeties = {0, 1}
    Reserves = {0, 1}
    Burst = 2
    Share = 2
    BaseBackoff = 1
    MaxBackoff = 3
    None = None
INVARIANT PaceIsRight
PROPERTY SomebodyGetsASlot
