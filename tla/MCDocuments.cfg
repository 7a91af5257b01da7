\* Three requests over two uploads, one of a type the parser does not take and
\* imported by its URL too, and a reference; deletions, cache expiry,
\* pre-warming and restarts at any time.
SPECIFICATION DocSpec
CONSTANTS
    up = up  scan = scan  ref = ref
    c1 = c1  c2 = c2
    r1 = r1  r2 = r2  r3 = r3
    Uploads = {up, scan}
    References = {scan, ref}
    Unparseable = {scan}
    Content = {c1}
    Requests = {r1, r2, r3}
    MaxDocs = 2
    None = None
CONSTRAINT Shared
INVARIANTS DocTypeOK PendingHasWriter OneRecordPerFile FolderCounts
PROPERTIES PendingSettles
CHECK_DEADLOCK FALSE
