------------------------------- MODULE MCServeWS -------------------------------
(* Instances of ServeWS for TLC: who connects, and what each of them sends.  *)
EXTENDS ServeWS, TLC

CONSTANTS s1, s2, c1, c2, c3, u1, u2, i1, i2

Reg(u, i, m) == [type |-> "server_register", username |-> u, installID |-> i,
                 multiClient |-> m, authorized |-> TRUE]
Con(u) == [type |-> "client_connect", username |-> u, installID |-> i1,
           multiClient |-> FALSE, authorized |-> TRUE]

\* Each instance uses some of the connections.
Among(f) == [c \in Conns |-> f[c]]

\* Legacy servers that replace each other or compete for a username; two usernames.
LegacyRequests == Among(
    s1 :> {Reg(u1, i1, FALSE)}
    @@ s2 :> {Reg(u1, i1, FALSE), Reg(u1, i2, FALSE), Reg(u2, i2, FALSE),
         [Reg(u2, i2, FALSE) EXCEPT !.authorized = FALSE]}
    @@ c1 :> {Con(u1)}
    @@ c2 :> {Con(u1), Con(u2)})

\* A multi-client server and its clients, and another of another username.
MultiRequests == Among(
    s1 :> {Reg(u1, i1, TRUE)}
    @@ s2 :> {Reg(u2, i2, TRUE)}
    @@ c1 :> {Con(u1)}
    @@ c2 :> {Con(u1)}
    @@ c3 :> {Con(u1), Con(u2)})

\* Multi-client servers of one installation that replace each other.
ReplaceRequests == Among(
    s1 :> {Reg(u1, i1, TRUE)}
    @@ s2 :> {Reg(u1, i1, TRUE)}
    @@ c1 :> {Con(u1)}
    @@ c2 :> {Con(u1)})

\* Servers of both kinds for one username.
MixedRequests == Among(
    s1 :> {Reg(u1, i1, TRUE), Reg(u1, i2, FALSE)}
    @@ s2 :> {Reg(u1, i1, TRUE), Reg(u1, i1, FALSE)}
    @@ c1 :> {Con(u1)}
    @@ c2 :> {Con(u1)})

\* One server, of either kind.
SoleRequests == Among(
    s1 :> {Reg(u1, i1, TRUE), Reg(u1, i1, FALSE)}
    @@ c1 :> {Con(u1)}
    @@ c2 :> {Con(u1)})

\* A legacy server that may repeat its registration, and two clients.
ReregisterRequests == Among(
    s1 :> {Reg(u1, i1, FALSE)}
    @@ c1 :> {Con(u1)}
    @@ c2 :> {Con(u1)})

\* The clients of MixedRequests are interchangeable.
MixedSymmetry == Permutations({c1, c2})
================================================================================
