------------------------ MODULE MCEventActionRegister ------------------------
(* Instances of EventActionRegister for TLC. *)
EXTENDS EventActionRegister

CONSTANTS o1, j1

\* A click, which is a user interface action, and a timer.
Click == [type |-> "AUTO", ui |-> TRUE]
TimerFires == [type |-> "DOMTimer", ui |-> FALSE]

RecordDescriptors == {Click, TimerFires}

\* The record client registers no provider.
NoProviders == <<>>
=============================================================================
