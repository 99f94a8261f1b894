\* Liveness: one handle, one connection.
SPECIFICATION FairSpec
CONSTANTS
    h1 = h1
    h2 = h2
    Handles = {h1}
    Keepers = {}
    Handled = {h1}
    Connections = {c1}
    Failures = {"silent", "shut"}
    None = None
PROPERTIES
    CloseReturns
    SilenceIsNoticed
