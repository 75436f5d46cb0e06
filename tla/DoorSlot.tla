------------------------------ MODULE DoorSlot ------------------------------
(***************************************************************************)
(* What one door promises to the people a camera recognises: nobody stands *)
(* in front of a closed door during the time that was granted to them, the *)
(* door is never closed before that time has run out, and it does not stay *)
(* open for ever when nobody is being let in.                              *)
(*                                                                         *)
(* ChannelWorker is the code that is meant to keep this promise.           *)
(***************************************************************************)
EXTENDS Naturals

VARIABLES
    door,   \* the position of the door the relay controls
    slot    \* the time left of the opening granted to the current person

vars == <<door, slot>>

Init ==
    /\ door = "closed"
    /\ slot = 0

\* A person is let in: the door is open from the first moment of the slot.
\* It may already be open for the previous person.
Serve ==
    /\ slot = 0
    /\ slot' \in Nat \ {0}
    /\ door' = "open"

\* One unit of the granted time passes.
Tick ==
    /\ slot > 0
    /\ slot' = slot - 1
    /\ UNCHANGED door

\* Nobody is being let in any more, the door is closed.
Close ==
    /\ slot = 0
    /\ door = "open"
    /\ door' = "closed"
    /\ UNCHANGED slot

Next == Serve \/ Tick \/ Close

SafeSpec == Init /\ [][Next]_vars

Spec == SafeSpec /\ WF_vars(Tick) /\ WF_vars(Close)
=============================================================================
