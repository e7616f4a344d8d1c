------------------------- MODULE DocumentEventQueue -------------------------
(***************************************************************************)
(* The queue of events a document dispatches asynchronously (scroll,       *)
(* resize, hashchange, ...).  WebERA dispatches one event per firing of    *)
(* the timer, in an event action of its own, and keeps beside the list of  *)
(* events a list of the event actions that enqueued them.                  *)
(***************************************************************************)
EXTENDS PageTimer, FiniteSets

CONSTANTS
    Nodes,          \* the nodes that scroll
    MaxEvents,      \* how many events are enqueued
    MaxSuspends     \* how often the document is suspended

VARIABLES
    queuedEvents,   \* m_queuedEvents, in order
    queuedSources,  \* m_queuedSources
    scrolled,       \* m_nodesWithQueuedScrollEvents
    resized,        \* a resize event has been counted in m_seqNumber
    isClosed,       \* m_isClosed
    timer,          \* m_pendingEventTimer
    active,         \* its SuspendableTimer::m_active
    suspended,      \* its SuspendableTimer::m_suspended
    suspends,       \* how often it has been suspended
    source,         \* for each event so far, the event action that enqueued it
    eventAction,    \* the current (last) event action
    dispatched,     \* the events dispatched, each with the source of its arc
    crashed         \* the first element of an empty list has been used

timerVars == <<timer, active, suspended, suspends>>
listVars == <<queuedEvents, queuedSources>>
vars == <<listVars, timerVars, scrolled, resized, isClosed, source, eventAction,
          dispatched, crashed>>

Init ==
    /\ queuedEvents = <<>> /\ queuedSources = <<>>
    /\ scrolled = {} /\ resized = FALSE /\ isClosed = FALSE
    /\ timer = NewTimer /\ active = FALSE /\ suspended = FALSE /\ suspends = 0
    /\ source = <<>> /\ eventAction = 0 /\ dispatched = <<>> /\ crashed = FALSE

-----------------------------------------------------------------------------
\* tryUpdateAndStartTimer, with the timer t and the events of the caller.  The
\* descriptor is that of the first event.
tryUpdateAndStartTimer(t, events) ==
    IF isActive(t) THEN timer' = t /\ crashed' = crashed
    ELSE IF events = <<>> THEN timer' = t /\ crashed' = TRUE
    ELSE timer' = startOneShot(t) /\ crashed' = crashed

\* The part of enqueueEvent that follows the checks: the event is new, its
\* source the current event action, or outside of one the last of the user.
Add(action) ==
    LET event == Len(source) + 1
    IN  /\ source' = Append(source, action)
        /\ queuedEvents' = Append(queuedEvents, event)
        /\ queuedSources' = Append(queuedSources, action)
        /\ tryUpdateAndStartTimer(timer, queuedEvents')

CanRun == ~crashed /\ ~isClosed

\* enqueueEvent, of an event that is neither a resize nor a scroll event.
EnqueueEvent ==
    /\ CanRun /\ Len(source) < MaxEvents
    /\ eventAction' = eventAction + 1
    /\ Add(eventAction')
    /\ UNCHANGED <<scrolled, resized, isClosed, active, suspended, suspends, dispatched>>

\* enqueueEvent, of a resize event: only the first is let in.
EnqueueResize ==
    /\ CanRun /\ Len(source) < MaxEvents /\ ~resized
    /\ resized' = TRUE
    /\ eventAction' = eventAction + 1
    /\ Add(eventAction')
    /\ UNCHANGED <<scrolled, isClosed, active, suspended, suspends, dispatched>>

\* enqueueOrDispatchScrollEvent: one scroll event for a node is in the queue.
EnqueueScroll(node) ==
    /\ CanRun /\ Len(source) < MaxEvents /\ node \notin scrolled
    /\ scrolled' = scrolled \cup {node}
    /\ eventAction' = eventAction + 1
    /\ Add(eventAction')
    /\ UNCHANGED <<resized, isClosed, active, suspended, suspends, dispatched>>

Without(list, n) == SubSeq(list, 1, n - 1) \o SubSeq(list, n + 1, Len(list))

\* cancelEvent, of the event at place n.  The list of sources has no more
\* elements than the list of events; past its end erase is undefined.
CancelEvent(n) ==
    /\ ~crashed
    /\ n \in 1..Len(queuedSources)
    /\ queuedEvents' = Without(queuedEvents, n)
    /\ queuedSources' = Without(queuedSources, n)
    /\ tryUpdateAndStartTimer(IF n = 1 THEN stopTimer(timer) ELSE timer, queuedEvents')
    /\ eventAction' = eventAction + 1
    /\ UNCHANGED <<scrolled, resized, isClosed, active, suspended, suspends, source, dispatched>>

\* close: the sources are not cleared.
Close ==
    /\ CanRun
    /\ isClosed' = TRUE
    /\ timer' = stopTimer(timer)
    /\ queuedEvents' = <<>>
    /\ UNCHANGED <<queuedSources, scrolled, resized, active, suspended, suspends, source,
                   eventAction, dispatched, crashed>>

TimerDue ==
    /\ ~crashed /\ timer.inHeap
    /\ timer' = timerDue(timer)
    /\ UNCHANGED <<listVars, scrolled, resized, isClosed, active, suspended, suspends, source,
                   eventAction, dispatched, crashed>>

\* pendingEventTimerFired.  m_queuedEvents.remove(0) looks for the event 0,
\* which is not in the list, and removes nothing.
pendingEventTimerFired ==
    /\ ~crashed /\ timer.queued > 0
    /\ timer' = timerFired(timer)
    /\ scrolled' = {}
    /\ eventAction' = eventAction + 1
    /\ IF queuedEvents = <<>> \/ queuedSources = <<>>
       THEN crashed' = TRUE /\ UNCHANGED <<queuedSources, dispatched>>
       ELSE /\ dispatched' = Append(dispatched, [event |-> Head(queuedEvents),
                                                 source |-> Head(queuedSources)])
            /\ queuedSources' = Tail(queuedSources)
            /\ UNCHANGED crashed
    /\ UNCHANGED <<queuedEvents, resized, isClosed, active, suspended, suspends, source>>

\* SuspendableTimer::suspend
Suspend ==
    /\ ~crashed /\ ~suspended /\ suspends < MaxSuspends
    /\ suspended' = TRUE /\ suspends' = suspends + 1
    /\ active' = isActive(timer)
    /\ timer' = IF isActive(timer) THEN stopTimer(timer) ELSE timer
    /\ UNCHANGED <<listVars, scrolled, resized, isClosed, source, eventAction, dispatched, crashed>>

\* SuspendableTimer::resume
Resume ==
    /\ ~crashed /\ suspended
    /\ suspended' = FALSE
    /\ timer' = IF active THEN startOneShot(timer) ELSE timer
    /\ UNCHANGED <<listVars, active, suspends, scrolled, resized, isClosed, source, eventAction,
                   dispatched, crashed>>

Next ==
    \/ EnqueueEvent
    \/ EnqueueResize
    \/ \E node \in Nodes : EnqueueScroll(node)
    \/ \E n \in 1..Len(queuedEvents) : CancelEvent(n)
    \/ Close
    \/ TimerDue
    \/ pendingEventTimerFired
    \/ Suspend
    \/ Resume

Spec == Init /\ [][Next]_vars

-----------------------------------------------------------------------------
\* The arc "triggering event" of an event action that dispatches an event
\* comes from the event action that enqueued this event.
TriggeredByItsSource ==
    \A k \in 1..Len(dispatched) : dispatched[k].source = source[dispatched[k].event]
=============================================================================
