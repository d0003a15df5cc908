\* Trades with any JSON value in any one field and with mixtures of forms, between
\* depth updates of a book that changes at will.
SPECIFICATION Spec
CONSTANTS
    None = None
    Frac = Frac
    Inf = Inf
    Yes = Yes
    Junk = Junk
    Prices <- Three
    MaxQty = 1
    Noise <- Unreadable
    Payloads <- AnyForm
INVARIANTS
    TypeOK
    TradeStoredIffSound
    BboIsOfTheBook
