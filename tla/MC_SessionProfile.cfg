SPECIFICATION Spec
CONSTANTS
    d1 = d1
    d2 = d2
    e1 = e1
    e2 = e2
    google = google
    facebook = facebook
    n0 = n0
    n1 = n1
    n2 = n2
    r1 = r1
    r2 = r2
    r3 = r3
    None = None
    Requests = {r1, r2, r3}
    Devices = {d1, d2}
    Emails = {e1, e2}
    Providers = {google, facebook}
    Names = {n0, n1, n2}
    Inputs <- MCInputs
INVARIANTS SessionIsProfile
SYMMETRY Symm
CHECK_DEADLOCK FALSE
