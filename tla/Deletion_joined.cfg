SPECIFICATION Spec
CONSTANTS
    Owner = o
    Guests = {a}
    Admin = adm
    Requests = {r1, r2}
    Jobs = {j1}
    Urls <- MCUrls
    Labels = {l}
    Windows <- MCWindows
    Null = Null
    SiteLimit = 2
    MaxSites = 3
    Horizon = 2
    Scopes <- MCScopes
    MaxPending = 2
PROPERTY TeamSitesKept
