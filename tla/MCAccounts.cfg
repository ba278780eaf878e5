CONSTANTS
    Parts = {"profiles", "oauth", "sessions"}
    Slots = {1, 2}
    Owners = {n1, n2}
    Keys = {demo, spare, other, live}
    demo = demo
    spare = spare
    live = live
    Sides = {BUY}
    Handlers = {r1, r2}
    Menus = {{"connect", "save", "disconnect"}, {"connect", "activate", "delete"}, {"connect", "detect", "delete"}, {"connect", "toggle"}, {"connect", "save", "detect"}, {"probe", "detect", "save", "certify", "reconcile", "disconnect", "activate", "arm", "delete"}, {"probe", "detect", "save", "certify", "disconnect", "toggle"}, {"create", "save", "activate"}}
    MaxWaits = 3
    None = None
    AuthIds = {n1, n2}
    Subs = {x1, x2}
    Callers = {r1, r2}
    Shared = {}
    Users = {root, deputy}
    Admins = {root, deputy}
    Tokens = {n1, n2}
    Threads = {r1, r2}
    MaxEra = 1
SPECIFICATION Spec
SYMMETRY Symmetry
INVARIANTS
    OneProfilePerAccount
    PermissionIsEarned
    StatusIsTrue
    AccessIsControlled
CHECK_DEADLOCK FALSE
