\* The rearming of the clean root next to the Wi-Fi loop.
SPECIFICATION Spec
CONSTANTS
    Host = Host
    Cand = Cand
    NoRoot = NoRoot
    CoreServices = {}
    RemoteHelper = TRUE
    Waydroid = FALSE
    CommandsFail = FALSE
    MaxBoots = 1
PROPERTIES
    RearmedOnlyWhenQuiet
