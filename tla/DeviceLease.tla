---------------------------- MODULE DeviceLease ----------------------------
(***************************************************************************)
(* What the input gate of the GUI promises, without queues, ids or         *)
(* messages: the connected device is on loan to one kind of work at a time.*)
(* Work starts only when nothing else holds the device, and it is never    *)
(* taken over: the holder gives it back first.  The exception the code     *)
(* makes is a driver install, which an operation may join.                 *)
(***************************************************************************)
Clients == {"poll", "kill", "close", "operation", "update", "drivers"}

VARIABLES holders, open
vars == <<holders, open>>

Acquire(c) == /\ open
              /\ holders = {} \/ (holders = {"drivers"} /\ c = "operation")
              /\ holders' = holders \cup {c}
              /\ UNCHANGED open

Release(c) == /\ open /\ c \in holders
              /\ holders' = holders \ {c}
              /\ UNCHANGED open

\* The window closes; what still runs ends with the process.
Close == /\ open /\ open' = FALSE
         /\ holders \cap {"operation"} = {}
         /\ UNCHANGED holders

Init == holders = {} /\ open = TRUE
Next == (\E c \in Clients : Acquire(c) \/ Release(c)) \/ Close
Spec == Init /\ [][Next]_vars
=============================================================================
