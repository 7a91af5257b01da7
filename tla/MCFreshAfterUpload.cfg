\* One file, two uploads.
SPECIFICATION DocSpec
CONSTANTS
    up = up  scan = scan  ref = ref
    c1 = c1  c2 = c2
    r1 = r1  r2 = r2  r3 = r3
    Uploads = {up}
    References = {}
    Unparseable = {}
    Content = {c1, c2}
    Requests = {r1, r2}
    MaxDocs = 2
    None = None
INVARIANTS FreshAfterUpload
CHECK_DEADLOCK FALSE
