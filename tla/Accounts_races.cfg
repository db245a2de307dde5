SPECIFICATION Spec
CONSTANTS
    ann = ann  admin = admin  guest = guest  e1 = e1  e2 = e2  n1 = n1  n2 = n2
    v1 = v1  v2 = v2  p = p
    Known = {ann}
    Mails = {e1, e2}
    Names = {n1, n2}
    MailOf <- MailOfVal
    NameOf <- NameOfVal
    Roles = {"USER", "ARTIST"}
    Passwords = {p}
    Claims = {v1, v2}
    ClaimOf <- ClaimOfVal
    Clients = {admin, guest}
    Topics <- TopicsVal
    Pending = {v1}
    Requests <- RequestsVal
    None = None
    Faults = 1
INVARIANTS
    AccountsWhole
    ArtistsWhole
    OneTokenPerCode
\* Every client has used up its requests and the system rests
CHECK_DEADLOCK FALSE
