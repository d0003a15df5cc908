\* The best bid and offer.
SPECIFICATION Spec
CONSTANTS
    None = None
    Frac = Frac
    Inf = Inf
    Yes = Yes
    Junk = Junk
    Prices <- Three
    MaxQty = 1
    Noise <- Unreadable
    Payloads = {}
INVARIANTS
    BboIsBest
