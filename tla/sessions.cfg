SPECIFICATION Spec
CONSTANTS
    Users = {u1}
    Passwords = {weak, pw1}
    Weak = {weak}
    Clients = {c1}
    Handlers = {h1, h2}
    None = None
    MaxTokens = 3
    MaxResets = 1
    MaxTroubles = 2
SYMMETRY Symmetry
CHECK_DEADLOCK FALSE
INVARIANTS CookieCurrent OldSessionsEnd SpentMeansChanged
