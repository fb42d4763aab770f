---------------------------- MODULE SessionLease ----------------------------
(***************************************************************************)
(* What the session manager promises: an exclusive lease.  At most one     *)
(* client holds it; another client gets it only once it is free; it is     *)
(* free when the holder has been idle for more than Timeout.               *)
(***************************************************************************)
EXTENDS Integers

CONSTANTS Clients, NoOne, Timeout

VARIABLES holder, idle

vars == <<holder, idle>>

Init == holder = NoOne /\ idle = 0

Acquire(c) == holder = NoOne /\ holder' = c /\ idle' = 0

Renew == holder # NoOne /\ idle' = 0 /\ UNCHANGED holder

Release == holder # NoOne /\ holder' = NoOne /\ idle' = 0

Age ==
    /\ holder # NoOne
    /\ IF idle + 1 > Timeout
       THEN holder' = NoOne /\ idle' = 0
       ELSE idle' = idle + 1 /\ UNCHANGED holder

Next == (\E c \in Clients : Acquire(c)) \/ Renew \/ Release \/ Age

Spec == Init /\ [][Next]_vars
=============================================================================
