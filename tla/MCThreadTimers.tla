--------------------------- MODULE MCThreadTimers ---------------------------
(* Instances of ThreadTimers for TLC. *)
EXTENDS ThreadTimers

CONSTANTS t1, t2

\* A load, which is a user interface action, and a DOM timer.
Load == [type |-> "BrowserLoadUrl", ui |-> TRUE]
TimerFires == [type |-> "DOMTimer", ui |-> FALSE]

TwoDescriptors == {Load, TimerFires}
OneDescriptor == {Load}

Uncontrolled == [type |-> "null", ui |-> FALSE]

\* A click, which a provider of the replay client offers.
Click == [type |-> "AUTO", ui |-> TRUE]
ReplayDescriptors == {TimerFires, Click}

\* The record client has no providers; those of the replay client may refuse,
\* and the second is then asked for what is not its own.
NoProviders == <<>>
RefusingProviders ==
    <<[type |-> "AUTO", answers |-> BOOLEAN], [type |-> "UserEvent", answers |-> BOOLEAN]>>

\* No action tells the timers apart.
TimerSymmetry == Permutations({t1, t2})
=============================================================================
