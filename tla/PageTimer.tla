----------------------------- MODULE PageTimer -----------------------------
(***************************************************************************)
(* A timer as the component that owns it sees it: what ThreadTimers models *)
(* for all timers, reduced to one timer with a descriptor of its own.      *)
(*                                                                         *)
(* An event action is represented by the set of labels of what happened    *)
(* before or in it.  An arc from an earlier event action to the current    *)
(* one adds the labels of the earlier one to those of the current one.     *)
(***************************************************************************)
EXTENDS Integers, Sequences

\* The label that stands for the current event action in what is stored
\* during it, see Settled.
Now == {<<"now", 0>>}

\* The constructor of TimerBase.
NewTimer ==
    [inHeap |-> FALSE,      \* inHeap()
     queued |-> 0,          \* handlers in the register
     flag |-> FALSE,        \* m_inEventActionRegister
     starter |-> {}]        \* m_starterEventAction

\* startOneShot
startOneShot(t) == [t EXCEPT !.inHeap = TRUE, !.starter = Now]

\* stop: the flag keeps its value.
stopTimer(t) == [t EXCEPT !.inHeap = FALSE, !.queued = IF t.flag THEN 0 ELSE @]

\* isActive
isActive(t) == t.inHeap \/ t.flag

\* sharedTimerFiredInternal: the timer is due and goes to the register.
timerDue(t) == [t EXCEPT !.inHeap = FALSE, !.queued = @ + 1, !.flag = TRUE]

\* fireTimerCallback: a one-shot timer leaves the heap as well.
timerFired(t) == [t EXCEPT !.inHeap = FALSE, !.queued = @ - 1, !.flag = FALSE]
=============================================================================
