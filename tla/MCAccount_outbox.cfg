SPECIFICATION Spec
CONSTANTS
    n1 = n1  n2 = n2  p1 = p1  p2 = p2  k1 = k1  k2 = k2  b1 = b1  b2 = b2
    d1 = d1  d2 = d2
    None = None
    Nicks = {n1, n2}
    Passwords = {p1, p2}
    Pins = {k1, k2}
    Birthdays = {b1, b2}
    RecoveryTries = 2
    Devices = {d1, d2}
    Issuer = "lab"
    Starts <- TwoUsers
INVARIANT SentByAuthor
CHECK_DEADLOCK FALSE
