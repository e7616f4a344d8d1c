---------------------------- MODULE ThreadTimers ----------------------------
(***************************************************************************)
(* WebKit's timers on top of the event action register.  A timer that is   *)
(* due leaves the timer heap; one without a descriptor runs at once, one   *)
(* with a descriptor is registered as a handler and runs when the          *)
(* scheduler says so: immediately with DefaultScheduler (record), at some  *)
(* later point of some tick with ReplayScheduler (replay).                 *)
(*                                                                         *)
(* Fire times are left out: any timer of the heap may be due.  The clients *)
(* of the timers are arbitrary code: they start, stop, rename and destroy  *)
(* any timer at any time.  "stray" only remembers the timers for which     *)
(* they did one of the things the register is not made for.                *)
(***************************************************************************)
EXTENDS EventActionRegister

CONSTANTS
    NullTimer,          \* the descriptor of timers WebERA does not control
    NoImplicitArcs      \* timers with m_disableImplicitHappensBeforeRelations

ASSUME TimersAssumption ==
    /\ NullTimer \notin Descriptors
    /\ NoImplicitArcs \subseteq Objects

\* The timers are the objects of the register.
Timers == Objects

VARIABLES
    timers,     \* the timer objects, see TimersInit
    firing,     \* m_firingTimers
    ticks,      \* Len(calls) at the start of each sharedTimerFiredInternal
    stopped,    \* DefaultScheduler::m_stopped
    stray       \* history: timers started or renamed while they waited in the
                \* register, and timers that had a descriptor in common

timerVars == <<timers, firing, ticks, stopped, stray>>
allVars == <<registerVars, timerVars>>

TimersInit ==
    /\ RegisterInit
    /\ timers = [t \in Timers |->
                    [inHeap  |-> FALSE,         \* inHeap()
                     repeat  |-> FALSE,         \* m_repeatInterval # 0
                     flag    |-> FALSE,         \* m_inEventActionRegister
                     desc    |-> NullTimer,     \* m_eventActionDescriptor
                     starter |-> 0,             \* m_starterEventAction
                     alive   |-> TRUE,          \* not yet destroyed
                     armed   |-> FALSE]]        \* started, not yet stopped or fired
    /\ firing = FALSE
    /\ ticks = <<>>
    /\ stopped = FALSE
    /\ stray = {}

\* The loop of sharedTimerFiredInternal is at work, no callback is open on it.
AtTick == ticks # <<>> /\ Last(ticks) = Len(calls)

\* Client code runs: a callback, or an event between two ticks.
InClientCode == ~AtTick /\ (~Idle => Last(calls).kind # "called")

\* The timer has a handler in the register.
Queued(t) ==
    \E d \in DOMAIN reg.handlers : \E i \in 1..Len(reg.handlers[d]) :
        /\ reg.handlers[d][i] = t
        /\ ~\E k \in 1..Len(calls) :      \* ... that is not running already
              i = 1 /\ calls[k].kind = "handler" /\ calls[k].descriptor = d

-----------------------------------------------------------------------------
(* TimerBase. *)

\* The event action a timer started now is attributed to.
Starter(h) == IF HBIsCurrentEventActionValid(h) THEN h.current ELSE h.lastUI

\* setNextFireTime
SetNextFireTime(timer, h) == [timer EXCEPT !.inHeap = TRUE, !.starter = Starter(h)]

\* Mutant: the timer stays in the heap.
ClearNextFireTimeNot(timer) == timer

\* setNextFireTime(0, 0)
ClearNextFireTime(timer) == [timer EXCEPT !.inHeap = FALSE]

\* start
StartTimer(t, repeat) ==
    /\ Alive /\ InClientCode
    /\ timers[t].alive
    /\ timers' = [timers EXCEPT
                    ![t] = SetNextFireTime([@ EXCEPT !.repeat = repeat, !.armed = TRUE], hb)]
    /\ stray' = IF Queued(t) THEN stray \cup {t} ELSE stray
    /\ UNCHANGED <<registerVars, firing, ticks, stopped>>

\* Mutant: a timer that left the heap is not deregistered.
DeregisterNot(t) == UNCHANGED <<reg, calls>>

\* deregisterEventActionHandler, under the descriptor the timer has now.
Deregister(t) ==
    IF timers[t].flag
    THEN reg' = EraseKey(reg, timers[t].desc) /\ calls' = Dangle(calls, timers[t].desc)
    ELSE UNCHANGED <<reg, calls>>

\* stop, called by the client or by the destructor.
StopTimer(t, destroy) ==
    /\ Alive /\ InClientCode
    /\ timers[t].alive
    /\ Deregister(t)
    /\ timers' = [timers EXCEPT
                    ![t] = ClearNextFireTime([@ EXCEPT !.repeat = FALSE, !.armed = FALSE,
                                                       !.alive = ~destroy])]
    /\ UNCHANGED <<hb, preId, joins, undefined, firing, ticks, stopped, stray>>

\* The other timers that are named d or have a handler under d.
Namesakes(t, d) ==
    {u \in Timers \ {t} :
        \/ timers[u].alive /\ timers[u].desc = d
        \/ d \in DOMAIN reg.handlers /\ \E i \in 1..Len(reg.handlers[d]) : reg.handlers[d][i] = u}

\* The timers that go astray when t gets the name d.
Entangled(t, d) ==
    (IF Queued(t) THEN {t} ELSE {}) \cup
    (IF d = NullTimer \/ Namesakes(t, d) = {} THEN {} ELSE Namesakes(t, d) \cup {t})

\* setEventActionDescriptor
SetEventActionDescriptor(t, d) ==
    /\ Alive /\ InClientCode
    /\ timers[t].alive
    /\ timers' = [timers EXCEPT ![t].desc = d]
    /\ stray' = IF d = timers[t].desc THEN stray ELSE stray \cup Entangled(t, d)
    /\ UNCHANGED <<registerVars, firing, ticks, stopped>>

-----------------------------------------------------------------------------
(* ThreadTimers. *)

\* A tick of the shared timer.
SharedTimerFired ==
    /\ Alive /\ InEventLoop /\ ~AtTick
    /\ ~firing
    /\ firing' = TRUE
    /\ ticks' = Append(ticks, Len(calls))
    /\ UNCHANGED <<registerVars, timers, stopped, stray>>

\* Mutant: a repeating timer is not put back.
FiredOnce(timer, h) ==
    ClearNextFireTime([timer EXCEPT !.flag = FALSE, !.armed = timer.repeat])

\* fireTimerCallback: the timer's part of it.
Fired(timer, h) ==
    LET left == [timer EXCEPT !.flag = FALSE, !.armed = timer.repeat]
    IN  IF timer.repeat THEN SetNextFireTime(left, h) ELSE ClearNextFireTime(left)

\* Mutant: a repeating timer is restarted before its arc is added.
FiredArcSwapped(t, h) ==
    IF /\ timers[t].starter # 0 /\ HBIsCurrentEventActionValid(h) /\ t \notin NoImplicitArcs
       /\ ~timers[t].repeat
    THEN HBAddArc(h, timers[t].starter, h.current)
    ELSE h

\* fireTimerCallback: the arc from the event action that started the timer.
FiredArc(t, h) ==
    IF timers[t].starter # 0 /\ HBIsCurrentEventActionValid(h) /\ t \notin NoImplicitArcs
    THEN HBAddArc(h, timers[t].starter, h.current)
    ELSE h

\* A due timer without a descriptor runs its callback.
FireUncontrolled(t) ==
    /\ Alive /\ AtTick /\ firing
    /\ timers[t].inHeap /\ timers[t].desc = NullTimer
    /\ hb' = FiredArc(t, hb)
    /\ timers' = [timers EXCEPT ![t] = Fired(@, hb)]
    /\ calls' = Append(calls, Frame("plain", GhostDescriptor, 0, -1, t))
    /\ UNCHANGED <<reg, preId, joins, undefined, firing, ticks, stopped, stray>>

UncontrolledReturns ==
    /\ Alive /\ InClientCode /\ ~Idle /\ Last(calls).kind = "plain"
    /\ calls' = Front(calls)
    /\ UNCHANGED <<hb, reg, preId, joins, undefined, timerVars>>

\* A due timer with a descriptor is registered, and the scheduler is told:
\* DefaultScheduler runs the event action unless it is stopped, ReplayScheduler
\* runs what its schedule says, see DispatchWaiting.
FireControlled(t) ==
    LET d == timers[t].desc
        r == AddHandler(reg, d, t)
    IN  /\ Alive /\ AtTick /\ firing
        /\ timers[t].inHeap /\ d # NullTimer
        /\ d \in DOMAIN reg.handlers => Len(reg.handlers[d]) < MaxQueue
        /\ hb.nextId <= MaxId
        /\ timers' = [timers EXCEPT ![t] = [ClearNextFireTime(@) EXCEPT !.flag = TRUE]]
        /\ IF Preallocate \/ stopped
           THEN reg' = r /\ UNCHANGED <<hb, calls>>
           ELSE Attempt(d, -1, FirstProvider(d), hb, r, calls)
        /\ UNCHANGED <<preId, joins, undefined, firing, ticks, stopped, stray>>

\* What the event action providers of the replay client are asked for.
ProvidedDescriptors ==
    {d \in Descriptors : \E i \in 1..Len(Providers) : Providers[i].type = d.type}

\* ReplayScheduler, in eventActionScheduled or executeDelayedEventActions, has
\* a waiting event action run, or tries one that a provider may offer.
DispatchWaiting ==
    /\ Preallocate /\ AtTick
    /\ \E d \in reg.waiting \cup ProvidedDescriptors, o \in OriginalIdsPassed :
          RunEventAction(d, o)
    /\ UNCHANGED timerVars

ProviderAnswers ==
    /\ ~AtTick
    /\ ProviderAccepts \/ ProviderRefuses
    /\ UNCHANGED timerVars

\* The register calls fireTimerCallback with the object it was given.
FireTimerCallback ==
    /\ Alive /\ ~Idle /\ Last(calls).kind = "called"
    /\ LET t == Last(calls).object
       IN  IF timers[t].alive
           THEN /\ hb' = FiredArc(t, hb)
                /\ timers' = [timers EXCEPT ![t] = Fired(@, hb)]
                /\ calls' = Append(Front(calls), [Last(calls) EXCEPT !.kind = "handler"])
                /\ UNCHANGED undefined
           ELSE undefined' = TRUE /\ UNCHANGED <<hb, timers, calls>>
    /\ UNCHANGED <<reg, preId, joins, firing, ticks, stopped, stray>>

TimerCallbackReturns ==
    /\ ~AtTick
    /\ HandlerReturns
    /\ UNCHANGED timerVars

\* No timer is due any more, or the time for one tick is over.
TickEnds ==
    /\ Alive /\ AtTick
    /\ ticks' = Front(ticks)
    /\ firing' = FALSE
    /\ UNCHANGED <<registerVars, timers, stopped, stray>>

\* Chrome::runModal: the re-entrancy guard is reset for the nested event loop.
FireTimersInNestedEventLoop ==
    /\ Alive /\ NestedLoops /\ InPageCode /\ ~AtTick
    /\ firing
    /\ firing' = FALSE
    /\ UNCHANGED <<registerVars, timers, ticks, stopped, stray>>

\* slOnCloseEvent of the record client: the log's checks are switched off and
\* DefaultScheduler::stop is called.
StopScheduler ==
    /\ Alive /\ Idle /\ ticks = <<>> /\ ~Preallocate
    /\ ~stopped
    /\ hb' = ActionLogStrictMode(hb, FALSE)
    /\ stopped' = TRUE
    /\ UNCHANGED <<reg, calls, preId, joins, undefined, timers, firing, ticks, stray>>

\* Resize events and frames come and go between two ticks.
GhostsBetweenTicks ==
    /\ ticks = <<>>
    /\ GhostNext
    /\ UNCHANGED timerVars

ImmediateBetweenTicks ==
    /\ ticks = <<>>
    /\ (\E d \in Descriptors : EnterImmediateEventAction(d)) \/ ExitImmediateEventAction
    /\ UNCHANGED timerVars

TimersNext ==
    \/ \E t \in Timers :
         \/ \E repeat \in BOOLEAN : StartTimer(t, repeat)
         \/ \E destroy \in BOOLEAN : StopTimer(t, destroy)
         \/ \E d \in Descriptors \cup {NullTimer} : SetEventActionDescriptor(t, d)
         \/ FireUncontrolled(t)
         \/ FireControlled(t)
    \/ SharedTimerFired
    \/ UncontrolledReturns
    \/ DispatchWaiting
    \/ ProviderAnswers
    \/ FireTimerCallback
    \/ TimerCallbackReturns
    \/ TickEnds
    \/ FireTimersInNestedEventLoop
    \/ StopScheduler
    \/ GhostsBetweenTicks
    \/ ImmediateBetweenTicks

TimersSpec == TimersInit /\ [][TimersNext]_allVars

-----------------------------------------------------------------------------
(* Properties. *)

TimersTypeOK ==
    /\ timers \in [Timers -> [inHeap : BOOLEAN, repeat : BOOLEAN, flag : BOOLEAN,
                              desc : Descriptors \cup {NullTimer},
                              starter : 0..(hb.nextId - 1), alive : BOOLEAN,
                              armed : BOOLEAN]]
    /\ firing \in BOOLEAN
    /\ ticks \in Seq(0..Len(calls))
    /\ stopped \in BOOLEAN
    /\ stray \subseteq Timers

\* A timer that was stopped or destroyed, or has fired, has no handler left in
\* the register: its callback cannot run any more.  Stray timers are the only
\* exception: stop finds one handler only, under the name of the moment.
StoppedTimersStaySilent ==
    undefined \/ \A t \in Timers \ stray : Queued(t) => timers[t].armed /\ timers[t].alive

\* A timer that was started and neither stopped nor fired is in the heap or in
\* the register: no event action is lost, in replay but for the stray timers,
\* in record for all timers, until the recording is stopped.
NoLostTimer ==
    \/ stopped \/ undefined
    \/ \A t \in Timers : (Preallocate => t \notin stray) =>
          (timers[t].armed => timers[t].inHeap \/ Queued(t))

\* A handler of a destroyed timer, or one whose queue was freed while it ran, is
\* met for a stray timer only; and not at all in record, until it is stopped.
\* The state of the timers keeps its type.
StaysDefined ==
    [][/\ TimersTypeOK'
       /\ undefined' => \/ undefined
                        \/ Last(calls).object \in stray /\ (Preallocate \/ stopped)]_allVars

\* A callback that starts in an event action is ordered after the event action
\* its timer was started in, unless its owner has switched that off.
FiredAfterStarter ==
    [][\A t \in Timers \ NoImplicitArcs :
         (/\ FireTimerCallback /\ Last(calls).object = t /\ timers[t].alive
          /\ timers[t].starter \notin {0, hb.current})
         => <<timers[t].starter, hb.current>> \in hb'.arcs]_allVars
=============================================================================
