--------------------------- MODULE PositionLedger ---------------------------
(***************************************************************************)
(* What the execution layer promises about its books: each market holds at *)
(* most one position, and the two global counters of SharedState,          *)
(* open_position_count and total_exposure_usdc, move with the positions    *)
(* and only with them.  The order state machines are shown to implement    *)
(* this module (OrderStateMachine, Books).                                 *)
(***************************************************************************)
EXTENDS Integers, FiniteSets

CONSTANTS Markets,      \* the markets that have an order state machine
          Sizes         \* the sizes a position can have, in lots

VARIABLES held,         \* held[m]: USDC lots of m's position, 0 when none
          count,        \* SharedState::open_position_count
          exposure      \* SharedState::total_exposure_usdc, in lots

ledgerVars == <<held, count, exposure>>

Init ==
    /\ held = [m \in Markets |-> 0]
    /\ count = 0
    /\ exposure = 0

Open(m, size) ==
    /\ size \in Nat \ {0}
    /\ held[m] = 0
    /\ held' = [held EXCEPT ![m] = size]
    /\ count' = count + 1
    /\ exposure' = exposure + size

Close(m) ==
    /\ held[m] > 0
    /\ held' = [held EXCEPT ![m] = 0]
    /\ count' = count - 1
    /\ exposure' = exposure - held[m]

Next == \E m \in Markets : Close(m) \/ \E size \in Sizes : Open(m, size)

Spec == Init /\ [][Next]_ledgerVars
=============================================================================
