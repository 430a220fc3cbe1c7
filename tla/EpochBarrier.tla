---------------------------- MODULE EpochBarrier ----------------------------
(* What the connection between the client thread and the analysis server   *)
(* thread promises: the two threads pass a fixed number of synchronisation *)
(* points together.  The server opens a point only after the client has    *)
(* arrived at it, and the client leaves a point only after the server has  *)
(* opened it, so neither thread ever runs a whole stage ahead.             *)
EXTENDS Naturals

CONSTANT Points    \* the number of synchronisation points

VARIABLES opened,  \* points the server has opened
          passed   \* points the client has left

Init == opened = 0 /\ passed = 0

Open == opened = passed /\ opened < Points
        /\ opened' = opened + 1 /\ UNCHANGED passed

Pass == passed < opened
        /\ passed' = passed + 1 /\ UNCHANGED opened

Next == Open \/ Pass

Spec == Init /\ [][Next]_<<opened, passed>>
        /\ WF_<<opened, passed>>(Open) /\ WF_<<opened, passed>>(Pass)
=============================================================================
