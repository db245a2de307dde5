------------------------------ MODULE MCAccounts ------------------------------
\* One account with two verification requests, and one more to be created
EXTENDS Accounts

CONSTANTS ann, admin, guest, e1, e2, n1, n2, v1, v2, p

MailOfVal   == [u \in Known |-> e1]
NameOfVal   == [u \in Known |-> n1]
ClaimOfVal  == [v \in Claims |-> ann]
RequestsVal == [c \in Clients |-> IF c = admin THEN 2 ELSE 1]
TopicsVal   == {Creates \cup {"remove"},
                {"google", "login", "refresh", "logout", "remove"},
                {"decide", "submit", "setRole", "remove"},
                {"toggle", "change", "decide"},
                {"forgot", "confirm", "reset"}}

==============================================================================
