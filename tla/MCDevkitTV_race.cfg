\* HDMI changes while screen_update_thread is between its two steps.
CONSTANTS
    Start <- DeferredOnly
    Races = TRUE
    MaxQueue = 1
SPECIFICATION Spec
INVARIANTS
    QuietAgrees
