------------------------------ MODULE MCRedisRelay ------------------------------
(* Two relays, two servers of one username, and one client after another.    *)
EXTENDS RedisRelay

CONSTANTS u1, s1, r1

OneUser == [c \in Conns |-> u1]

\* The clients and one server reach the same relay, the other server reaches either.
OneRoams == [c \in Conns |-> IF c = s1 THEN Relays ELSE {r1}]
================================================================================
