------------------------------ MODULE RealtimeMC ------------------------------
(* One member of staff with one or two tabs; a socket may outlive its tab for a while. *)
EXTENDS Realtime

CONSTANTS s1, s2, u1, t1, t2, x1, x2, m1, m2

(* What a restart of Postgres ends, and the loss of the client that listens. *)
MCDrops == {{"pub", "sub"}, {"sub"}}

MCUserOf == [t \in Tabs |-> u1]

===============================================================================
