------------------------- MODULE EventActionRegister -------------------------
(***************************************************************************)
(* The event action register: the one-shot handlers waiting under their    *)
(* descriptors, the providers per type, the dispatch of an event action    *)
(* with its history and id translation, and the ghost and immediate event  *)
(* actions that bypass the scheduler.                                      *)
(*                                                                         *)
(* Handlers and providers run page code, so a dispatch takes several       *)
(* steps, and "calls" is the stack of those not yet returned.  With        *)
(* NestedLoops the page code may open a modal dialog, whose event loop     *)
(* dispatches further event actions on top of the running one.             *)
(***************************************************************************)
EXTENDS HappensBefore, SequencesExt

CONSTANTS
    Descriptors,    \* records [type, ui]: what the code keys with toString()
    Objects,        \* handler objects (timers)
    Providers,      \* sequence of [type, answers], in the order of the type map
    OriginalIds,    \* ids a replayed schedule names; record mode passes -1
    Joins,          \* MultiJoinHappensBefore objects
    Preallocate,    \* TRUE: ids come from ReplayScheduler, FALSE: from the register
    Ghosts,         \* TRUE: resize events and frames outside event actions occur
    NestedLoops,    \* TRUE: a handler may run a modal event loop
    MaxId,          \* bound: event action ids
    MaxQueue        \* bound: handlers queued under one descriptor

ASSUME RegisterAssumption ==
    /\ Descriptors \subseteq [type : STRING, ui : BOOLEAN]
    /\ Providers \in Seq([type : STRING, answers : SUBSET BOOLEAN])
    /\ OriginalIds \subseteq Nat \ {0}
    /\ Preallocate \in BOOLEAN
    /\ Ghosts \in BOOLEAN
    /\ NestedLoops \in BOOLEAN
    /\ MaxId \in Nat
    /\ MaxQueue \in Nat

VARIABLES
    reg,        \* the record of the register, see RegisterInit
    calls,      \* frames of event actions entered and not yet returned
    preId,      \* ReplayScheduler::m_nextEventActionId, 0 without preallocation
    joins,      \* the ids each MultiJoinHappensBefore has collected
    undefined   \* the execution has left the defined behaviour of C++

registerVars == <<hb, reg, calls, preId, joins, undefined>>

Unmapped == [o \in {} |-> 0]
NoObject == "none"
GhostDescriptor == [type |-> "ghost", ui |-> FALSE]

\* enterGhostEventAction(HBAllocateEventActionId(), ...)
GhostEntered(h) ==
    HBEnterEventAction(ActionLogStrictMode(HBAllocateEventActionId(h), FALSE),
                       h.nextId, FALSE)

\* The window has created its main frame, and Frame::init has left its ghost
\* event action open; then the replay scheduler takes its first id.
RegisterInit ==
    /\ reg = [handlers    |-> [d \in {} |-> <<>>],  \* m_descriptorToHandler
              waiting     |-> {},                   \* m_currentDescriptors
              dispatching |-> FALSE,                \* m_isDispatching
              history     |-> <<>>,                 \* m_dispatchHistory
              idMap       |-> Unmapped]             \* m_originalToNewEventActionIdMap
    /\ calls = <<>>
    /\ joins = [j \in Joins |-> {}]
    /\ undefined = FALSE
    /\ IF Preallocate
       THEN preId = 2 /\ hb = HBAllocateEventActionId(GhostEntered(HBEmpty))
       ELSE preId = 0 /\ hb = GhostEntered(HBEmpty)

\* The program has neither crashed nor left its defined behaviour.
Alive == ~hb.crashed /\ ~undefined

Idle == calls = <<>>

\* Page code is running: a handler, a provider or an immediate action is on top.
InPageCode == ~Idle /\ Last(calls).kind \in {"handler", "provider", "immediate"}

\* Where event actions are dispatched: in the main event loop, or in a modal one.
InEventLoop == Idle \/ (NestedLoops /\ InPageCode /\ Len(calls) = 1)

Frame(kind, d, index, originalId, object) ==
    [kind |-> kind, descriptor |-> d, index |-> index, original |-> originalId,
     object |-> object, dangling |-> FALSE]

-----------------------------------------------------------------------------
(* Handlers. *)

\* registerEventActionHandler
AddHandler(r, d, object) ==
    LET queue == IF d \in DOMAIN r.handlers THEN r.handlers[d] ELSE <<>>
    IN  [r EXCEPT !.handlers = [k \in DOMAIN @ \cup {d} |->
                                  IF k = d THEN Append(queue, object) ELSE @[k]],
                  !.waiting = @ \cup {d}]

\* The key and every handler queued under it disappear.
EraseKey(r, d) ==
    [r EXCEPT !.handlers = [k \in DOMAIN @ \ {d} |-> @[k]], !.waiting = @ \ {d}]

\* Mutant: an emptied queue stays in the table.
PopHandlerKeepingKey(r, d) == [r EXCEPT !.handlers[d] = Tail(@)]

\* The cleanup after a handler has run.
PopHandler(r, d) ==
    IF Len(r.handlers[d]) = 1 THEN EraseKey(r, d)
    ELSE [r EXCEPT !.handlers[d] = Tail(@)]

-----------------------------------------------------------------------------
(* Dispatch. *)

\* eventActionDispatchStart: an existing translation is not overwritten.
DispatchStart(r, id, originalId, d) ==
    [r EXCEPT !.dispatching = TRUE,
              !.history = Append(@, [id |-> id, descriptor |-> d, original |-> originalId]),
              !.idMap = IF originalId \in DOMAIN @ THEN @
                        ELSE [o \in DOMAIN @ \cup {originalId} |->
                                IF o = originalId THEN id ELSE @[o]]]

\* Mutant: an aborted dispatch keeps its translation.
DispatchEndKeepingId(r, commit, originalId) ==
    [r EXCEPT !.dispatching = FALSE,
              !.history = IF commit THEN @ ELSE Front(@)]

\* eventActionDispatchEnd
DispatchEnd(r, commit, originalId) ==
    [r EXCEPT !.dispatching = FALSE,
              !.history = IF commit THEN @ ELSE Front(@),
              !.idMap = IF commit THEN @ ELSE [o \in DOMAIN @ \ {originalId} |-> @[o]]]

\* The first provider asked for d.  The loop starts at the type of d and runs to
\* the end of the map, over the providers of all later types.
FirstProvider(d) ==
    IF \E i \in 1..Len(Providers) : Providers[i].type = d.type
    THEN CHOOSE i \in 1..Len(Providers) :
           /\ Providers[i].type = d.type
           /\ \A j \in 1..(i - 1) : Providers[j].type # d.type
    ELSE Len(Providers) + 1

\* The id a dispatch runs under, and the allocation it takes.
DispatchId(h) == IF Preallocate THEN preId ELSE h.nextId
AfterDispatchId(h) == IF Preallocate THEN h ELSE HBAllocateEventActionId(h)

\* Enter the i-th provider or, when there is none, call the handler of d.
\* h, r and rest are the state in which the attempt is made.
Attempt(d, originalId, i, h, r, rest) ==
    IF i <= Len(Providers) \/ d \in DOMAIN r.handlers
    THEN /\ reg' = DispatchStart(r, DispatchId(h), originalId, d)
         /\ hb' = HBEnterEventAction(AfterDispatchId(h), DispatchId(h), d.ui)
         /\ calls' = Append(rest,
                       IF i <= Len(Providers)
                       THEN Frame("provider", d, i, originalId, NoObject)
                       ELSE Frame("called", d, i, originalId, r.handlers[d][1]))
    ELSE reg' = r /\ hb' = h /\ calls' = rest    \* not found

\* A found event action takes the preallocated id; the scheduler gets another.
TakePreallocated(h) == IF Preallocate THEN HBAllocateEventActionId(h) ELSE h
NextPreallocated(h) == IF Preallocate THEN h.nextId ELSE preId

-----------------------------------------------------------------------------
(* Actions. *)

RegisterEventActionHandler(d, object) ==
    /\ Alive /\ InEventLoop
    /\ d \in DOMAIN reg.handlers => Len(reg.handlers[d]) < MaxQueue
    /\ reg' = AddHandler(reg, d, object)
    /\ UNCHANGED <<hb, calls, preId, joins, undefined>>

\* The queue disappears, also under a handler of it that is running.
Dangle(stack, d) ==
    [i \in DOMAIN stack |->
        [stack[i] EXCEPT !.dangling = @ \/ (stack[i].index # 0 /\ stack[i].descriptor = d)]]

DeregisterEventActionHandler(d) ==
    /\ Alive /\ (Idle \/ InPageCode)
    /\ d \in reg.waiting
    /\ reg' = EraseKey(reg, d)
    /\ calls' = Dangle(calls, d)
    /\ UNCHANGED <<hb, preId, joins, undefined>>

\* runEventAction, up to the first handler or provider it enters.
RunEventAction(d, originalId) ==
    /\ Alive /\ InEventLoop
    /\ hb.nextId <= MaxId
    /\ Attempt(d, originalId, FirstProvider(d), hb, reg, calls)
    /\ UNCHANGED <<preId, joins, undefined>>

\* A provider accepts the event action: it has been handled.
ProviderAccepts ==
    /\ Alive /\ InPageCode /\ Last(calls).kind = "provider"
    /\ LET frame == Last(calls)
           left == HBExitEventAction(hb, TRUE)
       IN  /\ TRUE \in Providers[frame.index].answers
           /\ reg' = DispatchEnd(reg, TRUE, frame.original)
           /\ hb' = TakePreallocated(left)
           /\ preId' = NextPreallocated(left)
    /\ calls' = Front(calls)
    /\ UNCHANGED <<joins, undefined>>

\* A provider refuses: its dispatch is aborted and the next candidate is tried.
ProviderRefuses ==
    /\ Alive /\ InPageCode /\ Last(calls).kind = "provider"
    /\ LET frame == Last(calls)
       IN  /\ FALSE \in Providers[frame.index].answers
           /\ Attempt(frame.descriptor, frame.original, frame.index + 1,
                      HBExitEventAction(hb, FALSE),
                      DispatchEnd(reg, FALSE, frame.original), Front(calls))
    /\ UNCHANGED <<preId, joins, undefined>>

\* The handler starts to run.
CallHandler ==
    /\ Alive /\ ~Idle /\ Last(calls).kind = "called"
    /\ calls' = Append(Front(calls), [Last(calls) EXCEPT !.kind = "handler"])
    /\ UNCHANGED <<hb, reg, preId, joins, undefined>>

\* The handler returns and is removed from its queue.  The code holds a
\* reference to that queue: if the queue is gone, anything can happen.
HandlerReturns ==
    /\ Alive /\ InPageCode /\ Last(calls).kind = "handler"
    /\ LET frame == Last(calls)
           left == HBExitEventAction(hb, TRUE)
       IN  IF frame.dangling
           THEN undefined' = TRUE /\ UNCHANGED <<reg, hb, preId>>
           ELSE /\ reg' = DispatchEnd(PopHandler(reg, frame.descriptor), TRUE, frame.original)
                /\ hb' = TakePreallocated(left)
                /\ preId' = NextPreallocated(left)
                /\ UNCHANGED undefined
    /\ calls' = Front(calls)
    /\ UNCHANGED joins

\* runAutomaticExploration (record mode): an event action that starts at once.
EnterImmediateEventAction(d) ==
    /\ Alive /\ Idle /\ ~Preallocate
    /\ hb.nextId <= MaxId
    /\ reg' = DispatchStart(reg, hb.nextId, -1, d)
    /\ hb' = HBEnterEventAction(HBAllocateEventActionId(hb), hb.nextId, TRUE)
    /\ calls' = Append(calls, Frame("immediate", d, 0, -1, NoObject))
    /\ UNCHANGED <<preId, joins, undefined>>

ExitImmediateEventAction ==
    /\ Alive /\ InPageCode /\ Last(calls).kind = "immediate"
    /\ reg' = DispatchEnd(reg, TRUE, -1)
    /\ hb' = HBExitEventAction(hb, TRUE)
    /\ calls' = Front(calls)
    /\ UNCHANGED <<preId, joins, undefined>>

\* QWebView::resizeEvent: a ghost event action around the resize.
EnterGhostEventAction ==
    /\ Alive /\ Ghosts /\ InEventLoop
    /\ hb.nextId <= MaxId
    /\ hb' = GhostEntered(hb)
    /\ calls' = Append(calls, Frame("ghost", GhostDescriptor, 0, -1, NoObject))
    /\ UNCHANGED <<reg, preId, joins, undefined>>

ExitGhostEventAction ==
    /\ Alive /\ ~Idle /\ Last(calls).kind = "ghost"
    /\ hb' = HBExitEventAction(ActionLogStrictMode(hb, TRUE), TRUE)
    /\ calls' = Front(calls)
    /\ UNCHANGED <<reg, preId, joins, undefined>>

\* Frame::init, ~Frame and detachFromParent outside an event action: the ghost
\* is entered, and because it makes the current event action valid, the test
\* in front of the exit fails and it is left open.
FrameGhostLeftOpen ==
    /\ Alive /\ Ghosts /\ Idle
    /\ ~HBIsCurrentEventActionValid(hb)
    /\ hb.nextId <= MaxId
    /\ hb' = GhostEntered(hb)
    /\ UNCHANGED <<reg, calls, preId, joins, undefined>>

\* MultiJoinHappensBefore::threadEndAction, called by page code.
ThreadEndAction(j) ==
    /\ Alive /\ InPageCode
    /\ hb' = HBCurrentEventAction(hb)
    /\ joins' = [joins EXCEPT ![j] = @ \cup {hb.current}]
    /\ UNCHANGED <<reg, calls, preId, undefined>>

\* MultiJoinHappensBefore::joinAction
JoinAction(j) ==
    /\ Alive /\ InPageCode
    /\ hb' = JoinArcs(hb, joins[j])
    /\ UNCHANGED <<reg, calls, preId, joins, undefined>>

\* MultiJoinHappensBefore::clear
ClearJoin(j) ==
    /\ Alive /\ InPageCode
    /\ joins[j] # {}
    /\ joins' = [joins EXCEPT ![j] = {}]
    /\ UNCHANGED <<hb, reg, calls, preId, undefined>>

\* The scheduler passes every recorded id once; record mode passes -1.
OriginalIdsPassed == IF Preallocate THEN OriginalIds \ DOMAIN reg.idMap ELSE {-1}

JoinNext == \E j \in Joins : ThreadEndAction(j) \/ JoinAction(j) \/ ClearJoin(j)

GhostNext == EnterGhostEventAction \/ ExitGhostEventAction \/ FrameGhostLeftOpen

\* The register on its own, as the record client uses it: without providers.
RegisterNext ==
    \/ \E d \in Descriptors :
         \/ \E object \in Objects : RegisterEventActionHandler(d, object)
         \/ DeregisterEventActionHandler(d)
         \/ \E o \in OriginalIdsPassed : RunEventAction(d, o)
         \/ EnterImmediateEventAction(d)
    \/ CallHandler
    \/ HandlerReturns
    \/ ExitImmediateEventAction
    \/ GhostNext
    \/ JoinNext

RegisterSpec == RegisterInit /\ [][RegisterNext]_registerVars

-----------------------------------------------------------------------------
(* Properties. *)

Frames ==
    [kind : {"called", "handler", "provider", "immediate", "ghost", "plain"},
     descriptor : Descriptors \cup {GhostDescriptor}, index : 0..(Len(Providers) + 1),
     original : OriginalIds \cup {-1}, object : Objects \cup {NoObject},
     dangling : BOOLEAN]

RegisterTypeOK ==
    /\ hb.nextId \in Nat \ {0}
    /\ hb.current \in 0..(hb.nextId - 1)
    /\ hb.last \in 0..(hb.nextId - 1)
    /\ hb.lastUI \in 0..(hb.nextId - 1)
    /\ hb.arcs \subseteq (1..(hb.nextId - 1)) \X (1..(hb.nextId - 1))
    /\ DOMAIN reg.handlers \subseteq Descriptors
    /\ \A d \in DOMAIN reg.handlers : reg.handlers[d] \in Seq(Objects)
    /\ reg.waiting \subseteq Descriptors
    /\ reg.dispatching \in BOOLEAN
    /\ \A k \in 1..Len(reg.history) : reg.history[k].id \in 1..(hb.nextId - 1)
    /\ calls \in Seq(Frames)
    /\ preId \in 0..(hb.nextId - 1)
    /\ \A j \in Joins : joins[j] \subseteq 1..(hb.nextId - 1)
    /\ undefined \in BOOLEAN

\* getWaitingNames offers exactly the descriptors under which a handler waits,
\* and no queue is ever empty (the assertion in runEventAction): what the
\* scheduler is told to be runnable can be run.
RegistryConsistent ==
    /\ RegisterTypeOK
    /\ reg.waiting = DOMAIN reg.handlers
    /\ \A d \in DOMAIN reg.handlers : reg.handlers[d] # <<>>

\* The history holds the dispatches that were not aborted, in the order of
\* their ids, and the translation of recorded ids is the one it shows: an
\* attempt a provider refused leaves no trace.
HistoryIsTranslation ==
    /\ \A j, k \in 1..Len(reg.history) : j < k => reg.history[j].id < reg.history[k].id
    /\ DOMAIN reg.idMap \ {-1} =
         {reg.history[k].original : k \in 1..Len(reg.history)} \ {-1}
    /\ \A k \in 1..Len(reg.history) :
         reg.history[k].original # -1 =>
            reg.idMap[reg.history[k].original] = reg.history[k].id

\* The program is never ended by one of the consistency checks that call
\* CRASH(), whatever order ghosts, immediate and scheduled actions come in.
NoCrash == ~hb.crashed

\* Every arc the code asks for reaches the log: none is dropped for pointing
\* backwards while the strict mode is off.
NoLostArc == hb.seen \subseteq hb.arcs

\* The user interface actions of the history are totally ordered by the log.
UserActionsOrdered ==
    \A j, k \in 1..Len(reg.history) :
        (j < k /\ reg.history[j].descriptor.ui /\ reg.history[k].descriptor.ui)
        => HBReaches(hb, reg.history[j].id, reg.history[k].id)

\* Whoever joins is ordered after all the threads that ended before.
JoinsOrdered ==
    [][\A j \in Joins :
         JoinAction(j) => \A e \in joins[j] : HBReaches(hb', e, hb.current)]_registerVars
=============================================================================
