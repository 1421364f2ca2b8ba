---------------------------- MODULE DurableFile ----------------------------
(* What _atomic_write promises of a file: it holds one whole content at a    *)
(* time, and a power loss leaves it with one of the contents written since   *)
(* the last one known to be on disk.                                         *)
CONSTANT Contents

VARIABLES value,    \* what the file holds
          possible  \* what a power loss may leave it with

Init == value \in Contents /\ possible = {value}

Write ==
    /\ value' \in Contents
    /\ possible' = possible \cup {value'}

Harden == possible' = {value} /\ UNCHANGED value

PowerLoss ==
    /\ value' \in possible
    /\ possible' = {value'}

Next == Write \/ Harden \/ PowerLoss

Spec == Init /\ [][Next]_<<value, possible>>

=============================================================================
