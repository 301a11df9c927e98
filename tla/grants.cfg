\* One connection of a user: two requests, two callbacks or polls, one
\* authorization of each kind, three grants of which the second cannot be
\* refreshed.
SPECIFICATION Spec
CONSTANTS
    Calls = {c1, c2}
    Returns = {r1, r2}
    Codes = {web}
    Devices = {device}
    Bare = {2}
    Nobody = Nobody
    MaxGrants = 3
    MaxFaults = 1
INVARIANTS PresentedOnce RetiredIsDead ExchangedOnce DeclinedStays
PROPERTIES NewestStands AllEnd
CHECK_DEADLOCK FALSE
