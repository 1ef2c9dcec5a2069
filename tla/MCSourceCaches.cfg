SPECIFICATION CacheFairSpec
CONSTANTS
    Tenants = {t1, t2}
    Urls = {u1, u2}
    Feeds = {e1}
    None = None
    MaxSources = 1
    MaxCacheActs = 2
    MaxCacheFaults = 1
INVARIANTS
    PageShowsItsSource
PROPERTIES
    SourceIsShown
