\* Two handles, one of which stays open; two connections, whose other end fails.
SPECIFICATION Spec
CONSTANTS
    h1 = h1
    h2 = h2
    Handles = {h1, h2}
    Keepers = {h1}
    Handled = {h1}
    Connections = {c1, c2}
    Failures = {"shut"}
    None = None
SYMMETRY ConnectionSymmetry
INVARIANTS
    TypeOK
    ServersAgree
PROPERTY
    TellsLiveServer
