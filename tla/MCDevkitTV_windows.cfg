\* HDMI changes at any moment but inside the three windows.
CONSTANTS
    Start <- Both
    Races = FALSE
    MaxQueue = 2
SPECIFICATION Spec
INVARIANTS
    TypeOK
    QuietAgrees
PROPERTIES
    Converges
