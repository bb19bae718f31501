\* One boot under fairness, with Waydroid.
SPECIFICATION FairSpec
CONSTANTS
    Host = Host
    Cand = Cand
    NoRoot = NoRoot
    CoreServices = {}
    RemoteHelper = FALSE
    Waydroid = TRUE
    CommandsFail = FALSE
    MaxBoots = 1
PROPERTIES
    BootSettles
    StopDecides
