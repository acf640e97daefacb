SPECIFICATION AccountsSpec
CONSTANTS
    Signups = {g1, g2}
    Usernames = {n1}
    Emails = {e1, e2}
    Creations = {w1}
    Seeds = {d1}
INVARIANT UsernamesAreUnique
CHECK_DEADLOCK FALSE
