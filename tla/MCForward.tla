----------------------------- MODULE MCForward ------------------------------
(* A small instance of Forward. *)
EXTENDS Forward

CONSTANTS m1, m2, u0, u1, p1, p2, k1, k2

Cred(u, p, k) == [user |-> u, password |-> p, key |-> k]

Login(c, s, auth) == [client |-> c, server |-> s, PasswordAuth |-> auth]

Anonymous(k) == Cred(u0, p1, k)

\* The same key and different keys, with and without a password, a wrong
\* password, and a server that knows a user but does not ask for one.
MCLogins == {
    Login(Anonymous(k1), Anonymous(k1), FALSE), Login(Anonymous(k1), Anonymous(k2), FALSE),
    Login(Cred(u1, p1, k1), Cred(u1, p1, k1), TRUE), Login(Cred(u1, p2, k1), Cred(u1, p1, k1), TRUE),
    Login(Cred(u1, p1, k1), Cred(u1, p1, k1), FALSE) }

MCMsg == {m1, m2}

=============================================================================
