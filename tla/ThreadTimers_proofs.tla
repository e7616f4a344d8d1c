------------------------- MODULE ThreadTimers_proofs -------------------------
(***************************************************************************)
(* Proofs about the timers on top of the event action register: the table  *)
(* of handlers and the history stay consistent, also in modal loops; no    *)
(* arc from the starter of a timer is lost; no timer is lost and none      *)
(* fires that was stopped, but for those that went astray in replay.       *)
(***************************************************************************)
EXTENDS ThreadTimers, EventActionRegister_proofs

(* The timer objects *)

TimerRecords ==
    [inHeap : BOOLEAN, repeat : BOOLEAN, flag : BOOLEAN, desc : Descriptors \cup {NullTimer},
     starter : Nat, alive : BOOLEAN, armed : BOOLEAN]

TimersFit(ts, h) ==
    /\ ts \in [Timers -> TimerRecords]
    /\ \A t \in Timers : ts[t].starter < h.nextId

\* The event action that starts a timer
LEMMA StarterIs ==
    ASSUME NEW h, HBBounded(h)
    PROVE  /\ Starter(h) \in Nat /\ Starter(h) < h.nextId
           /\ Starter(h) = h.current \/ (h.current = 0 /\ Starter(h) = h.lastUI)
BY DEF Starter, HBIsCurrentEventActionValid, HBBounded, HBRecords

\* start
LEMMA TimerStarted ==
    ASSUME NEW x \in TimerRecords, NEW h, HBBounded(h), NEW repeat \in BOOLEAN
    PROVE  LET y == SetNextFireTime([x EXCEPT !.repeat = repeat, !.armed = TRUE], h)
           IN  /\ y \in TimerRecords /\ y.starter = Starter(h) /\ y.starter < h.nextId
               /\ y.inHeap /\ y.armed /\ y.alive = x.alive /\ y.flag = x.flag /\ y.desc = x.desc
<1> DEFINE s == Starter(h)
           z == [x EXCEPT !.repeat = repeat, !.armed = TRUE]
           y == [z EXCEPT !.inHeap = TRUE, !.starter = s]
<1>1. s \in Nat /\ s < h.nextId
  BY StarterIs
<1>2. SetNextFireTime(z, h) = y
  BY DEF SetNextFireTime
<1> HIDE DEF s
<1>3. /\ y \in TimerRecords /\ y.starter = s /\ y.inHeap /\ y.armed /\ y.alive = x.alive
      /\ y.flag = x.flag /\ y.desc = x.desc
  BY <1>1 DEF TimerRecords
<1> HIDE DEF y, z
<1> QED BY <1>1, <1>2, <1>3 DEF s, z

\* stop
LEMMA TimerStopped ==
    ASSUME NEW x \in TimerRecords, NEW destroy \in BOOLEAN
    PROVE  LET y == ClearNextFireTime([x EXCEPT !.repeat = FALSE, !.armed = FALSE,
                                                !.alive = ~destroy])
           IN  /\ y \in TimerRecords /\ y.starter = x.starter
               /\ ~y.inHeap /\ ~y.armed /\ y.flag = x.flag /\ y.desc = x.desc
BY DEF ClearNextFireTime, TimerRecords

\* The timer is due and goes to the register.
LEMMA TimerRegistered ==
    ASSUME NEW x \in TimerRecords
    PROVE  LET y == [ClearNextFireTime(x) EXCEPT !.flag = TRUE]
           IN  /\ y \in TimerRecords /\ y.starter = x.starter
               /\ ~y.inHeap /\ y.flag /\ y.armed = x.armed /\ y.alive = x.alive
               /\ y.desc = x.desc
BY DEF ClearNextFireTime, TimerRecords

\* fireTimerCallback
LEMMA TimerFired ==
    ASSUME NEW x \in TimerRecords, NEW h, HBBounded(h), x.starter < h.nextId
    PROVE  LET y == Fired(x, h)
           IN  /\ y \in TimerRecords /\ y.starter < h.nextId
               /\ y.starter = x.starter \/ y.starter = Starter(h)
               /\ ~y.flag /\ y.armed = x.repeat /\ y.inHeap = x.repeat /\ y.alive = x.alive
               /\ y.desc = x.desc
<1> DEFINE s == Starter(h)
           l == [x EXCEPT !.flag = FALSE, !.armed = x.repeat]
           a == [l EXCEPT !.inHeap = TRUE, !.starter = s]
           b == [l EXCEPT !.inHeap = FALSE]
<1>1. s \in Nat /\ s < h.nextId
  BY StarterIs
<1>2. Fired(x, h) = IF x.repeat THEN a ELSE b
  BY DEF Fired, SetNextFireTime, ClearNextFireTime
<1> HIDE DEF s
<1>3. CASE x.repeat
  <2>1. /\ a \in TimerRecords /\ a.starter = s /\ a.flag = FALSE /\ a.armed = x.repeat
        /\ a.inHeap = TRUE /\ a.alive = x.alive /\ a.desc = x.desc
    BY <1>1 DEF TimerRecords
  <2> HIDE DEF a, b, l
  <2>2. x.repeat = TRUE
    BY <1>3 DEF TimerRecords
  <2> QED BY <1>1, <1>2, <1>3, <2>1, <2>2 DEF s
<1>4. CASE ~x.repeat
  <2>1. /\ b \in TimerRecords /\ b.starter = x.starter /\ b.flag = FALSE /\ b.armed = x.repeat
        /\ b.inHeap = FALSE /\ b.alive = x.alive /\ b.desc = x.desc
    BY DEF TimerRecords
  <2> HIDE DEF a, b, l
  <2>2. x.repeat = FALSE
    BY <1>4 DEF TimerRecords
  <2> QED BY <1>2, <1>4, <2>1, <2>2
<1> QED BY <1>3, <1>4

\* One timer of the table changes.
LEMMA TimersChange ==
    ASSUME NEW ts, NEW h, NEW g, TimersFit(ts, h), h.nextId \in Nat, g.nextId \in Nat,
           g.nextId >= h.nextId, NEW t \in Timers, NEW y \in TimerRecords,
           y.starter < g.nextId
    PROVE  LET us == [ts EXCEPT ![t] = y]
           IN  /\ TimersFit(us, g) /\ us[t] = y
               /\ \A u \in Timers \ {t} : us[u] = ts[u]
<1> DEFINE us == [ts EXCEPT ![t] = y]
<1>1. us \in [Timers -> TimerRecords] /\ us[t] = y /\ \A u \in Timers \ {t} : us[u] = ts[u]
  BY DEF TimersFit
<1> HIDE DEF us
<1>2. ASSUME NEW u \in Timers PROVE us[u].starter < g.nextId
  <2>1. CASE u = t
    BY <1>1, <2>1
  <2>2. CASE u # t
    <3>1. us[u] = ts[u] /\ ts[u].starter < h.nextId /\ ts[u] \in TimerRecords
      BY <1>1, <2>2 DEF TimersFit
    <3>2. ts[u].starter \in Nat
      BY <3>1 DEF TimerRecords
    <3> QED BY <3>1, <3>2
  <2> QED BY <2>1, <2>2
<1> QED BY <1>1, <1>2 DEF TimersFit, us

\* The bookkeeping moves on.
LEMMA TimersLater ==
    ASSUME NEW ts, NEW h, NEW g, TimersFit(ts, h), h.nextId \in Nat, g.nextId \in Nat,
           g.nextId >= h.nextId
    PROVE  TimersFit(ts, g)
<1>1. ASSUME NEW u \in Timers PROVE ts[u].starter < g.nextId
  <2>1. ts[u].starter < h.nextId /\ ts[u] \in TimerRecords
    BY DEF TimersFit
  <2>2. ts[u].starter \in Nat
    BY <2>1 DEF TimerRecords
  <2> QED BY <2>1, <2>2
<1> QED BY <1>1 DEF TimersFit

\* The arc from the starter of a timer
LEMMA StarterArc ==
    ASSUME NEW h, HBBounded(h), NEW t \in Timers, TimersFit(timers, h)
    PROVE  LET g == FiredArc(t, h)
               s == timers[t].starter
           IN  /\ HBBounded(g) /\ g.nextId = h.nextId /\ g.current = h.current
               /\ g.lastUI = h.lastUI /\ g.logOpen = h.logOpen
               /\ HBSound(h) /\ (h.current # 0 => s <= h.current) => HBSound(g)
<1> DEFINE g == FiredArc(t, h)
           s == timers[t].starter
<1>1. s \in Nat /\ s < h.nextId
  BY DEF TimersFit, TimerRecords
<1>2. h.current \in Nat /\ h.current < h.nextId /\ h.nextId \in Nat \ {0}
  BY DEF HBBounded, HBRecords
<1>3. CASE g = h
  BY <1>3
<1>4. CASE g = AddArc(h, s, h.current) /\ s # 0 /\ h.current # 0 /\ s # h.current
  <2>1. s \in 1..(h.nextId - 1) /\ h.current \in 1..(h.nextId - 1)
    BY <1>1, <1>2, <1>4
  <2> DEFINE l == h.current
  <2> HIDE DEF g, s, l
  <2>2. s <= l => s < l
    BY <1>1, <1>2, <1>4 DEF l
  <2>3. /\ HBBounded(g) /\ g.nextId = h.nextId /\ g.current = h.current
        /\ g.lastUI = h.lastUI /\ g.logOpen = h.logOpen
        /\ HBSound(h) /\ s < l => HBSound(g)
    BY <1>4, <2>1, ArcAdded DEF l
  <2> QED BY <1>4, <2>2, <2>3 DEF g, s, l
<1>5. g = h \/ (g = AddArc(h, s, h.current) /\ s # 0 /\ h.current # 0 /\ s # h.current)
  BY DEF FiredArc, HBAddArc, HBIsCurrentEventActionValid
<1> QED BY <1>3, <1>4, <1>5

-----------------------------------------------------------------------------
(* The table and the history stay consistent *)

\* Ticks begin in the main event loop, or in the modal loop of a running event action.
TicksFit(s) ==
    /\ s \in Seq(Nat)
    /\ \A i \in DOMAIN s : s[i] = 0 \/ (NestedLoops /\ s[i] = 1)

TimersInv ==
    /\ RegisterInv /\ TimersFit(timers, hb) /\ TicksFit(ticks)
    /\ firing \in BOOLEAN /\ stopped \in BOOLEAN

\* What a step finds
LEMMA TimersNow ==
    ASSUME TimersInv, Alive
    PROVE  /\ RegisterInv /\ RegFits(hb, reg, calls, preId) /\ calls \in Seq(Frames)
           /\ HBBounded(hb) /\ hb.nextId \in Nat \ {0} /\ TimersFit(timers, hb)
           /\ TicksFit(ticks) /\ Len(calls) \in Nat
BY InvNow, LenProperties DEF TimersInv

\* The loop of a tick runs below all event actions, or in a modal loop.
LEMMA TickLevel ==
    ASSUME TimersInv, Alive, AtTick
    PROVE  calls = <<>> \/ (NestedLoops /\ Len(calls) = 1)
<1>1. ticks \in Seq(Nat) /\ ticks # <<>> /\ Last(ticks) = Len(calls)
  BY DEF TimersInv, TicksFit, AtTick
<1>2. Len(ticks) \in Nat \ {0} /\ DOMAIN ticks = 1..Len(ticks)
  BY <1>1, EmptySeq, LenProperties
<1>3. Len(ticks) \in DOMAIN ticks /\ Last(ticks) = ticks[Len(ticks)]
  BY <1>2 DEF Last
<1>4. Len(calls) = 0 \/ (NestedLoops /\ Len(calls) = 1)
  BY <1>1, <1>3 DEF TimersInv, TicksFit
<1>5. calls \in Seq(Frames)
  BY TimersNow
<1> QED BY <1>4, <1>5, EmptySeq

\* The clients start, stop and rename timers.
LEMMA ClientStep ==
    ASSUME TimersInv, NEW t \in Timers,
           \/ \E repeat \in BOOLEAN : StartTimer(t, repeat)
           \/ \E destroy \in BOOLEAN : StopTimer(t, destroy)
           \/ \E d \in Descriptors \cup {NullTimer} : SetEventActionDescriptor(t, d)
    PROVE  TimersInv'
<1>1. Alive /\ UNCHANGED <<hb, preId, joins, undefined, firing, ticks, stopped>>
  BY DEF StartTimer, StopTimer, SetEventActionDescriptor, registerVars
<1>2. /\ RegisterInv /\ RegFits(hb, reg, calls, preId) /\ HBBounded(hb)
      /\ hb.nextId \in Nat /\ TimersFit(timers, hb) /\ hb.nextId >= hb.nextId
  BY <1>1, TimersNow
<1>3. timers[t] \in TimerRecords /\ timers[t].starter < hb.nextId
  BY <1>2 DEF TimersFit
<1>4. ASSUME NEW y \in TimerRecords, y.starter < hb.nextId, timers' = [timers EXCEPT ![t] = y],
             RegisterInv'
      PROVE  TimersInv'
  <2>1. TimersFit(timers', hb)
    BY <1>2, <1>4, TimersChange
  <2> QED BY <1>1, <1>4, <2>1 DEF TimersInv
<1>5. CASE \E repeat \in BOOLEAN : StartTimer(t, repeat)
  <2>1. PICK repeat \in BOOLEAN : StartTimer(t, repeat)
    BY <1>5
  <2> DEFINE y == SetNextFireTime([timers[t] EXCEPT !.repeat = repeat, !.armed = TRUE], hb)
  <2>2. UNCHANGED registerVars /\ timers' = [timers EXCEPT ![t] = y]
    BY <2>1 DEF StartTimer
  <2>3. y \in TimerRecords /\ y.starter < hb.nextId
    BY <1>2, <1>3, TimerStarted
  <2> HIDE DEF y
  <2>4. RegisterInv'
    BY <1>2, <2>2 DEF registerVars, RegisterInv
  <2> QED BY <1>4, <2>2, <2>3, <2>4
<1>6. CASE \E destroy \in BOOLEAN : StopTimer(t, destroy)
  <2>1. PICK destroy \in BOOLEAN : StopTimer(t, destroy)
    BY <1>6
  <2> DEFINE y == ClearNextFireTime([timers[t] EXCEPT !.repeat = FALSE, !.armed = FALSE,
                                                      !.alive = ~destroy])
  <2>2. Deregister(t) /\ timers' = [timers EXCEPT ![t] = y]
    BY <2>1 DEF StopTimer
  <2>3. y \in TimerRecords /\ y.starter < hb.nextId
    BY <1>3, TimerStopped
  <2> HIDE DEF y
  <2>4. RegisterInv'
    <3>1. CASE timers[t].flag
      <4> DEFINE d == timers[t].desc
      <4>1. reg' = EraseKey(reg, d) /\ calls' = Dangle(calls, d)
        BY <2>2, <3>1 DEF Deregister
      <4> QED BY <1>1, <1>2, <4>1, DeregisterStep
    <3>2. CASE ~timers[t].flag
      <4>1. UNCHANGED <<reg, calls>>
        BY <2>2, <3>2 DEF Deregister
      <4> QED BY <1>1, <1>2, <4>1 DEF RegisterInv
    <3> QED BY <3>1, <3>2
  <2> QED BY <1>4, <2>2, <2>3, <2>4
<1>7. CASE \E d \in Descriptors \cup {NullTimer} : SetEventActionDescriptor(t, d)
  <2>1. PICK d \in Descriptors \cup {NullTimer} : SetEventActionDescriptor(t, d)
    BY <1>7
  <2> DEFINE y == [timers[t] EXCEPT !.desc = d]
  <2>2. UNCHANGED registerVars /\ timers' = [timers EXCEPT ![t] = y]
    BY <2>1 DEF SetEventActionDescriptor
  <2>3. y \in TimerRecords /\ y.starter = timers[t].starter
    BY <1>3 DEF TimerRecords
  <2> HIDE DEF y
  <2>4. RegisterInv'
    BY <1>2, <2>2 DEF registerVars, RegisterInv
  <2> QED BY <1>3, <1>4, <2>2, <2>3, <2>4
<1> QED BY <1>5, <1>6, <1>7

\* A due timer without a descriptor fires.
LEMMA UncontrolledStep ==
    ASSUME TimersInv, NEW t \in Timers, FireUncontrolled(t)
    PROVE  TimersInv'
<1> DEFINE y == Fired(timers[t], hb)
           f == Frame("plain", GhostDescriptor, 0, -1, t)
<1>1. /\ Alive /\ AtTick /\ hb' = FiredArc(t, hb) /\ calls' = Append(calls, f)
      /\ timers' = [timers EXCEPT ![t] = y]
      /\ UNCHANGED <<reg, preId, joins, undefined, firing, ticks, stopped>>
  BY DEF FireUncontrolled
<1>2. /\ RegisterInv /\ RegFits(hb, reg, calls, preId) /\ HBBounded(hb)
      /\ hb.nextId \in Nat /\ TimersFit(timers, hb)
  BY <1>1, TimersNow
<1>3. timers[t] \in TimerRecords /\ timers[t].starter < hb.nextId
  BY <1>2 DEF TimersFit
<1>4. HBBounded(hb') /\ hb'.nextId = hb.nextId
  BY <1>1, <1>2, StarterArc
<1>5. hb'.nextId >= hb.nextId /\ hb'.nextId \in Nat
  BY <1>2, <1>4
<1>6. y \in TimerRecords /\ y.starter < hb'.nextId
  BY <1>2, <1>3, <1>4, TimerFired
<1>7. f \in Frames /\ f.kind = "plain"
  <2>1. 0 \in 0..(Len(Providers) + 1) /\ t \in Objects
    BY RegisterAssumption, LenProperties DEF Timers
  <2> QED BY <2>1 DEF Frame, Frames, GhostDescriptor
<1> HIDE DEF y, f
<1>8. calls = <<>> \/ (NestedLoops /\ Len(calls) <= 1)
  <2>1. calls = <<>> \/ (NestedLoops /\ Len(calls) = 1)
    BY <1>1, TickLevel
  <2> QED BY <2>1, SMTT(60)
<1>9. RegisterInv'
  BY <1>1, <1>2, <1>4, <1>5, <1>7, <1>8, PushStep
<1>10. TimersFit(timers', hb')
  BY <1>1, <1>2, <1>5, <1>6, TimersChange
<1> QED BY <1>1, <1>9, <1>10 DEF TimersInv

\* A due timer with a descriptor is registered and, by DefaultScheduler, dispatched.
LEMMA ControlledStep ==
    ASSUME Modal, TimersInv, NEW t \in Timers, FireControlled(t)
    PROVE  TimersInv'
<1> DEFINE d == timers[t].desc
           y == [ClearNextFireTime(timers[t]) EXCEPT !.flag = TRUE]
           r == AddHandler(reg, d, t)
           m == -1
<1>1. /\ Alive /\ AtTick /\ d # NullTimer /\ timers' = [timers EXCEPT ![t] = y]
      /\ IF Preallocate \/ stopped
         THEN reg' = r /\ UNCHANGED <<hb, calls>>
         ELSE Attempt(d, m, FirstProvider(d), hb, r, calls)
      /\ UNCHANGED <<preId, joins, undefined, firing, ticks, stopped>>
  BY DEF FireControlled
<1>2. /\ RegisterInv /\ RegFits(hb, reg, calls, preId) /\ HBBounded(hb)
      /\ hb.nextId \in Nat /\ TimersFit(timers, hb)
  BY <1>1, TimersNow
<1>3. timers[t] \in TimerRecords /\ timers[t].starter < hb.nextId /\ timers[t].starter \in Nat
  BY <1>2 DEF TimersFit, TimerRecords
<1>4. d \in Descriptors
  BY <1>1, <1>3 DEF TimerRecords
<1>5. y \in TimerRecords /\ y.starter = timers[t].starter
  BY <1>3, TimerRegistered
<1> HIDE DEF d, y, m
<1>6. /\ RegFits(hb, r, calls, preId) /\ d \in DOMAIN r.handlers
      /\ d \in DOMAIN reg.handlers => Len(r.handlers[d]) >= 2
  BY <1>2, <1>4, FitsAdd DEF Timers
<1>7. RegFits(hb', reg', calls', preId) /\ hb'.nextId >= hb.nextId
  <2>1. CASE Preallocate \/ stopped
    BY <1>1, <1>2, <1>6, <2>1
  <2>2. CASE ~(Preallocate \/ stopped)
    <3>1. calls = <<>> \/ (NestedLoops /\ Len(calls) = 1)
      BY <1>1, TickLevel
    <3>2. FirstProvider(d) \in 1..(Len(Providers) + 1)
      BY FirstProviderInRange
    <3>3. m \in OriginalIds \cup {-1} /\ m = -1
      BY DEF m
    <3>4. Attempt(d, m, FirstProvider(d), hb, r, calls)
      BY <1>1, <2>2
    <3>5. CASE calls = <<>>
      BY <1>4, <1>6, <3>2, <3>3, <3>4, <3>5, FitsAttempt
    <3>6. CASE NestedLoops /\ Len(calls) = 1
      <4>1. NestedLoops /\ Len(calls) <= 1
        BY <3>6
      <4>2. \A j \in DOMAIN calls : Holds(calls[j]) /\ calls[j].descriptor = d =>
                                    Len(r.handlers[d]) >= 2
        BY <1>2, <1>6 DEF RegFits, FramesHold
      <4> HIDE DEF r
      <4> QED BY <1>4, <1>6, <3>2, <3>3, <3>4, <4>1, <4>2, FitsAttempt
    <3> QED BY <3>1, <3>5, <3>6
  <2> QED BY <2>1, <2>2
<1>8. RegisterInv'
  BY <1>1, <1>2, <1>7, InvFrom
<1>9. hb'.nextId \in Nat
  BY <1>7 DEF RegFits, HBBounded, HBRecords
<1>10. y.starter < hb'.nextId
  BY <1>2, <1>3, <1>5, <1>7, <1>9
<1>11. TimersFit(timers', hb')
  BY <1>1, <1>2, <1>5, <1>7, <1>9, <1>10, TimersChange
<1> QED BY <1>1, <1>8, <1>11 DEF TimersInv

\* A tick begins or ends.
LEMMA TickStep ==
    ASSUME TimersInv, SharedTimerFired \/ TickEnds \/ FireTimersInNestedEventLoop
    PROVE  TimersInv'
<1>1. Alive /\ UNCHANGED <<registerVars, timers, stopped>> /\ firing' \in BOOLEAN
  BY DEF SharedTimerFired, TickEnds, FireTimersInNestedEventLoop
<1>2. RegisterInv' /\ TimersFit(timers', hb')
  BY <1>1 DEF TimersInv, registerVars, RegisterInv
<1>3. TicksFit(ticks) /\ ticks \in Seq(Nat) /\ calls \in Seq(Frames)
  BY <1>1, TimersNow DEF TicksFit
<1>4. TicksFit(ticks')
  <2>1. CASE SharedTimerFired
    <3> DEFINE n == Len(calls)
    <3>1. ticks' = Append(ticks, n) /\ (calls = <<>> \/ (NestedLoops /\ n = 1))
      BY <2>1 DEF SharedTimerFired, InEventLoop, Idle
    <3>2. n \in Nat /\ (n = 0 \/ (NestedLoops /\ n = 1))
      BY <1>3, <3>1, LenProperties
    <3> HIDE DEF n
    <3>3. /\ ticks' \in Seq(Nat) /\ DOMAIN ticks' = 1..Len(ticks) + 1 /\ Len(ticks) \in Nat
          /\ DOMAIN ticks = 1..Len(ticks)
          /\ \A i \in 1..Len(ticks) : ticks'[i] = ticks[i]
          /\ ticks'[Len(ticks) + 1] = n
      BY <1>3, <3>1, <3>2, LenProperties, AppendProperties
    <3>4. \A i \in 1..Len(ticks) + 1 : i \in 1..Len(ticks) \/ i = Len(ticks) + 1
      BY <3>3
    <3> QED BY <1>3, <3>2, <3>3, <3>4 DEF TicksFit
  <2>2. CASE TickEnds
    <3>1. ticks' = Front(ticks) /\ ticks # <<>>
      BY <2>2 DEF TickEnds, AtTick
    <3>2. /\ ticks' \in Seq(Nat) /\ DOMAIN ticks' = 1..Len(ticks) - 1 /\ Len(ticks) \in Nat \ {0}
          /\ \A i \in 1..Len(ticks) - 1 : ticks'[i] = ticks[i]
      BY <1>3, <3>1, FrontOf
    <3>3. DOMAIN ticks = 1..Len(ticks) /\ 1..Len(ticks) - 1 \subseteq 1..Len(ticks)
      BY <1>3, <3>2, LenProperties
    <3> QED BY <1>3, <3>2, <3>3 DEF TicksFit
  <2>3. CASE FireTimersInNestedEventLoop
    BY <1>3, <2>3 DEF FireTimersInNestedEventLoop
  <2> QED BY <2>1, <2>2, <2>3
<1> QED BY <1>1, <1>2, <1>4 DEF TimersInv

\* A step of the register while the timers stay
LEMMA RegisterOnlyStep ==
    ASSUME TimersInv, Alive, RegisterInv', hb'.nextId >= hb.nextId, UNCHANGED timerVars
    PROVE  TimersInv'
<1>1. hb.nextId \in Nat /\ hb'.nextId \in Nat
  BY DEF TimersInv, RegisterInv, RegShape, HBBounded, HBRecords
<1>2. TimersFit(timers, hb')
  BY <1>1, TimersLater DEF TimersInv
<1> QED BY <1>2 DEF TimersInv, timerVars

\* The next id after a committed dispatch, and after a refused one
LEMMA NextIdGrows ==
    ASSUME Modal, TimersInv, Alive,
           ProviderAccepts \/ ProviderRefuses \/ HandlerReturns
    PROVE  hb'.nextId >= hb.nextId
<1> DEFINE left == HBExitEventAction(hb, TRUE)
<1>1. HBBounded(hb) /\ hb.nextId \in Nat \ {0} /\ RegisterInv
  BY TimersNow
<1>2. CASE hb' = TakePreallocated(left)
  <2>1. HBBounded(left) /\ left.nextId = hb.nextId
    BY <1>1, Left
  <2> HIDE DEF left
  <2>2. hb'.nextId = hb.nextId \/ hb'.nextId = hb.nextId + 1
    BY <1>2, <2>1, Allocated DEF TakePreallocated
  <2> QED BY <1>1, <2>2
<1>3. CASE HandlerReturns
  <2>1. CASE Last(calls).dangling
    <3>1. hb' = hb
      BY <1>3, <2>1 DEF HandlerReturns
    <3> QED BY <1>1, <3>1
  <2>2. CASE ~Last(calls).dangling
    <3>1. hb' = TakePreallocated(left)
      BY <1>3, <2>2 DEF HandlerReturns
    <3> QED BY <1>2, <3>1
  <2> QED BY <2>1, <2>2
<1>4. CASE ProviderAccepts
  BY <1>2, <1>4 DEF ProviderAccepts
<1>5. CASE ProviderRefuses
  <2> DEFINE f == Last(calls)
             l == HBExitEventAction(hb, FALSE)
             s == DispatchEnd(reg, FALSE, f.original)
  <2>1. calls # <<>> /\ f.kind = "provider"
    BY <1>5 DEF ProviderRefuses, InPageCode, Idle
  <2>2. Attempt(f.descriptor, f.original, f.index + 1, l, s, Front(calls))
    BY <1>5 DEF ProviderRefuses
  <2>3. /\ Front(calls) = <<>> /\ f.descriptor \in Descriptors
        /\ f.original \in OriginalIds \cup {-1} /\ f.original \notin DOMAIN s.idMap
        /\ f.index + 1 \in 1..(Len(Providers) + 1)
        /\ RegFits(l, s, <<>>, preId) /\ l.nextId = hb.nextId
    BY <1>1, <2>1, Refused
  <2> HIDE DEF f, l, s
  <2>4. hb'.nextId >= l.nextId
    BY <2>2, <2>3, FitsAttempt
  <2> QED BY <2>3, <2>4
<1> QED BY <1>3, <1>4, <1>5

\* ReplayScheduler runs an event action.
LEMMA WaitingStep ==
    ASSUME Modal, TimersInv, DispatchWaiting
    PROVE  TimersInv' /\ calls = <<>>
<1>1. PICK d \in reg.waiting \cup ProvidedDescriptors, o \in OriginalIdsPassed :
        RunEventAction(d, o)
  BY DEF DispatchWaiting
<1>2. Alive /\ AtTick /\ Preallocate /\ UNCHANGED timerVars
  BY <1>1 DEF DispatchWaiting, RunEventAction
<1>3. calls = <<>>
  <2>1. ~NestedLoops
    BY <1>2 DEF Modal
  <2> QED BY <1>2, <2>1, TickLevel
<1>4. RegisterInv /\ RegFits(hb, reg, calls, preId)
  BY <1>2, TimersNow
<1>5. d \in Descriptors
  BY <1>4 DEF RegFits, Registry, ProvidedDescriptors
<1>6. o \in OriginalIds \cup {-1} /\ (o = -1 \/ o \notin DOMAIN reg.idMap)
  BY PassedIsFresh
<1>7. RegisterInv'
  BY <1>1, <1>3, <1>4, <1>5, <1>6, RunStep
<1>8. hb'.nextId >= hb.nextId
  <2>1. Attempt(d, o, FirstProvider(d), hb, reg, calls)
    BY <1>1 DEF RunEventAction
  <2>2. FirstProvider(d) \in 1..(Len(Providers) + 1)
    BY FirstProviderInRange
  <2> QED BY <1>3, <1>4, <1>5, <1>6, <2>1, <2>2, FitsAttempt
<1> QED BY <1>2, <1>3, <1>7, <1>8, RegisterOnlyStep

\* Event actions end.
LEMMA AnswerStep ==
    ASSUME Modal, TimersInv, ProviderAnswers \/ TimerCallbackReturns
    PROVE  TimersInv'
<1>1. ProviderAccepts \/ ProviderRefuses \/ HandlerReturns
  BY DEF ProviderAnswers, TimerCallbackReturns
<1>2. Alive /\ UNCHANGED timerVars
  BY DEF ProviderAnswers, TimerCallbackReturns, ProviderAccepts, ProviderRefuses, HandlerReturns
<1>3. RegisterInv
  BY DEF TimersInv
<1>4. RegisterInv'
  BY <1>1, <1>3, AcceptStep, RefuseStep, ReturnStep
<1>5. hb'.nextId >= hb.nextId
  BY <1>1, <1>2, NextIdGrows
<1> QED BY <1>2, <1>4, <1>5, RegisterOnlyStep

\* The timer of the frame on top
LEMMA CalledTimer ==
    ASSUME TimersInv, Alive, calls # <<>>, Last(calls).kind = "called"
    PROVE  /\ Last(calls).object \in Timers /\ Last(calls) \in Frames
           /\ timers[Last(calls).object] \in TimerRecords
           /\ timers[Last(calls).object].starter < hb.nextId
<1>1. RegFits(hb, reg, calls, preId) /\ calls \in Seq(Frames) /\ TimersFit(timers, hb)
  BY TimersNow
<1>2. Last(calls) = calls[Len(calls)] /\ Len(calls) \in DOMAIN calls /\ Last(calls) \in Frames
  BY <1>1, StackTop
<1>3. Last(calls).object \in Objects
  BY <1>1, <1>2 DEF RegFits, Stack
<1> QED BY <1>1, <1>2, <1>3 DEF Timers, TimersFit

\* The register calls the timer.
LEMMA CallbackStep ==
    ASSUME TimersInv, FireTimerCallback
    PROVE  TimersInv'
<1> DEFINE t == Last(calls).object
           y == Fired(timers[t], hb)
<1>1. /\ Alive /\ calls # <<>> /\ Last(calls).kind = "called"
      /\ UNCHANGED <<reg, preId, joins, firing, ticks, stopped>>
  BY DEF FireTimerCallback, Idle
<1>2. /\ RegisterInv /\ RegFits(hb, reg, calls, preId) /\ HBBounded(hb)
      /\ hb.nextId \in Nat /\ TimersFit(timers, hb)
  BY <1>1, TimersNow
<1>3. t \in Timers /\ timers[t] \in TimerRecords /\ timers[t].starter < hb.nextId
  BY <1>1, CalledTimer
<1>4. CASE timers[t].alive
  <2>1. /\ hb' = FiredArc(t, hb) /\ timers' = [timers EXCEPT ![t] = y]
        /\ calls' = Append(Front(calls), [Last(calls) EXCEPT !.kind = "handler"])
        /\ UNCHANGED undefined
    BY <1>4 DEF FireTimerCallback
  <2> HIDE DEF t
  <2>2. HBBounded(hb') /\ hb'.nextId = hb.nextId
    BY <1>2, <1>3, <2>1, StarterArc
  <2>3. y \in TimerRecords /\ y.starter < hb'.nextId
    BY <1>2, <1>3, <2>2, TimerFired
  <2> HIDE DEF y
  <2>4. RegisterInv'
    BY <1>1, <1>2, <2>1, <2>2, CallStep
  <2>5. hb'.nextId >= hb.nextId /\ hb'.nextId \in Nat
    BY <1>2, <2>2
  <2>6. TimersFit(timers', hb')
    BY <1>2, <1>3, <2>1, <2>3, <2>5, TimersChange
  <2> QED BY <1>1, <2>4, <2>6 DEF TimersInv
<1>5. CASE ~timers[t].alive
  <2>1. undefined' = TRUE /\ UNCHANGED <<hb, timers, calls>>
    BY <1>5 DEF FireTimerCallback
  <2> QED BY <1>1, <1>2, <2>1 DEF TimersInv, RegisterInv
<1> QED BY <1>4, <1>5

\* A callback without an event action returns.
LEMMA PlainReturnStep ==
    ASSUME Modal, TimersInv, UncontrolledReturns
    PROVE  TimersInv'
<1>1. /\ Alive /\ calls # <<>> /\ Last(calls).kind = "plain" /\ calls' = Front(calls)
      /\ UNCHANGED <<hb, reg, preId, joins, undefined, timerVars>>
  BY DEF UncontrolledReturns, Idle
<1>2. HBBounded(hb') /\ hb'.nextId >= hb.nextId /\ RegisterInv
  BY <1>1, TimersNow
<1>3. RegisterInv'
  BY <1>1, <1>2, PopStep
<1> QED BY <1>1, <1>2, <1>3, RegisterOnlyStep

\* The recording is stopped.
LEMMA StopStep ==
    ASSUME TimersInv, StopScheduler
    PROVE  TimersInv'
<1>1. /\ Alive /\ hb' = ActionLogStrictMode(hb, FALSE) /\ stopped' = TRUE
      /\ UNCHANGED <<reg, calls, preId, joins, undefined, timers, firing, ticks>>
  BY DEF StopScheduler
<1>2. HBBounded(hb) /\ hb.nextId \in Nat /\ RegisterInv /\ TimersFit(timers, hb)
  BY <1>1, TimersNow
<1>3. HBBounded(hb') /\ hb'.nextId = hb.nextId
  BY <1>1, <1>2, StrictModeSet
<1>4. hb'.nextId >= hb.nextId
  BY <1>2, <1>3
<1>5. RegisterInv'
  BY <1>1, <1>2, <1>3, <1>4, BookkeepingStep
<1>6. TimersFit(timers', hb')
  BY <1>1, <1>2, <1>3 DEF TimersFit
<1> QED BY <1>1, <1>5, <1>6 DEF TimersInv

\* Ghost and immediate event actions
LEMMA BetweenStep ==
    ASSUME Modal, TimersInv, GhostsBetweenTicks \/ ImmediateBetweenTicks
    PROVE  TimersInv'
<1>1. RegisterInv
  BY DEF TimersInv
<1>2. Alive /\ UNCHANGED timerVars
  BY DEF GhostsBetweenTicks, ImmediateBetweenTicks, GhostNext, EnterGhostEventAction,
         ExitGhostEventAction, FrameGhostLeftOpen, EnterImmediateEventAction,
         ExitImmediateEventAction
<1>3. HBBounded(hb) /\ hb.nextId \in Nat
  BY <1>2, TimersNow
<1>4. CASE GhostsBetweenTicks
  <2>1. GhostNext
    BY <1>4 DEF GhostsBetweenTicks
  <2>2. RegisterInv'
    BY <1>1, <2>1, GhostStep
  <2> DEFINE m == ActionLogStrictMode(hb, TRUE)
  <2>3. hb' = GhostEntered(hb) \/ hb' = HBExitEventAction(m, TRUE)
    BY <2>1 DEF GhostNext, EnterGhostEventAction, ExitGhostEventAction, FrameGhostLeftOpen
  <2>4. HBBounded(m) /\ m.nextId = hb.nextId
    BY <1>3, StrictModeSet
  <2> HIDE DEF m
  <2>5. hb'.nextId = hb.nextId + 1 \/ hb'.nextId = hb.nextId
    BY <1>3, <2>3, <2>4, GhostIn, Left, ZenonT(60)
  <2>6. hb'.nextId >= hb.nextId
    BY <1>3, <2>5
  <2> QED BY <1>2, <2>2, <2>6, RegisterOnlyStep
<1>5. CASE ImmediateBetweenTicks
  <2>1. (\E d \in Descriptors : EnterImmediateEventAction(d)) \/ ExitImmediateEventAction
    BY <1>5 DEF ImmediateBetweenTicks
  <2>2. RegisterInv'
    BY <1>1, <2>1, ImmediateStep, ExitImmediateStep
  <2>3. \/ hb' = HBEnterEventAction(HBAllocateEventActionId(hb), hb.nextId, TRUE)
        \/ hb' = HBExitEventAction(hb, TRUE)
    BY <2>1 DEF EnterImmediateEventAction, ExitImmediateEventAction
  <2>4. hb'.nextId = hb.nextId + 1 \/ hb'.nextId = hb.nextId
    BY <1>3, <2>3, ImmediateBookkeeping, Left
  <2>5. hb'.nextId >= hb.nextId
    BY <1>3, <2>4
  <2> QED BY <1>2, <2>2, <2>5, RegisterOnlyStep
<1> QED BY <1>4, <1>5

\* Every step keeps the invariant.
LEMMA TimersKeep ==
    ASSUME Modal, TimersInv, [TimersNext]_allVars
    PROVE  TimersInv'
<1>1. CASE UNCHANGED allVars
  BY <1>1 DEF allVars, registerVars, timerVars, TimersInv, RegisterInv
<1>2. CASE TimersNext
  BY <1>2, ClientStep, UncontrolledStep, ControlledStep, TickStep, PlainReturnStep,
     WaitingStep, AnswerStep, CallbackStep, StopStep, BetweenStep
     DEF TimersNext
<1> QED BY <1>1, <1>2

\* The first state has it.
LEMMA TimersStart ==
    ASSUME TimersInit
    PROVE  TimersInv
<1>1. RegisterInv /\ hb.nextId \in Nat \ {0}
  BY RegisterStarts DEF TimersInit, RegisterInv, RegShape, HBBounded, HBRecords
<1>2. timers \in [Timers -> TimerRecords] /\ \A t \in Timers : timers[t].starter = 0
  BY DEF TimersInit, TimerRecords
<1>3. \A t \in Timers : timers[t].starter < hb.nextId
  BY <1>1, <1>2
<1>4. TicksFit(<<>>)
  BY DEF TicksFit
<1> QED BY <1>1, <1>2, <1>3, <1>4 DEF TimersInit, TimersInv, TimersFit

\* The invariant holds in every reachable state.
LEMMA TimersInvariant ==
    ASSUME Modal
    PROVE  TimersSpec => []TimersInv
<1>1. TimersInit => TimersInv
  BY TimersStart
<1>2. TimersInv /\ [TimersNext]_allVars => TimersInv'
  BY TimersKeep
<1> QED BY <1>1, <1>2, PTL DEF TimersSpec

\* What the register offers as waiting can be run and no queue is empty, while timers are
\* started, stopped and renamed at will, with and without modal loops.
THEOREM TableConsistent ==
    ASSUME Modal
    PROVE  TimersSpec => []RegistryConsistent
<1>1. TimersInv => RegistryConsistent
  BY InvImplies DEF TimersInv
<1> QED BY <1>1, TimersInvariant, PTL

\* The history and the translation of recorded ids agree, whatever the providers refuse:
\* an aborted attempt leaves no trace.
THEOREM AbortsLeaveNoTrace ==
    ASSUME Modal
    PROVE  TimersSpec => []HistoryIsTranslation
<1>1. TimersInv => HistoryIsTranslation
  BY InvImplies DEF TimersInv
<1> QED BY <1>1, TimersInvariant, PTL

-----------------------------------------------------------------------------
(* No arc from the starter of a timer is lost *)

\* Where the ids of event actions grow in the order the actions run: in record mode, and
\* in a replay in which neither ghosts nor refused providers get in between.
IdsGrow == ~NestedLoops /\ (Preallocate => ~Ghosts /\ Providers = <<>>)

\* Timers were started in event actions that came before, or in the current one.
StartersBelow == undefined \/ \A t \in Timers : timers[t].starter <= Newest

ArcsInv == TimersInv /\ SoundInv /\ StartersBelow

\* The current state
LEMMA ArcsNow ==
    ASSUME IdsGrow, ArcsInv, Alive
    PROVE  /\ Modal /\ ~NestedLoops /\ TimersInv /\ RegisterInv /\ SoundInv
           /\ Newest \in Nat /\ Starter(hb) \in Nat /\ Starter(hb) <= Newest
           /\ hb.current # 0 => hb.current = Newest
           /\ \A t \in Timers : timers[t] \in TimerRecords /\ timers[t].starter <= Newest
           /\ RegFits(hb, reg, calls, preId) /\ HBBounded(hb) /\ HBSound(hb)
           /\ preId \in 0..(hb.nextId - 1) /\ (Preallocate => preId > 0)
<1>1. TimersInv /\ RegisterInv /\ SoundInv /\ Modal /\ ~NestedLoops /\ TimersFit(timers, hb)
  BY DEF ArcsInv, TimersInv, IdsGrow, Modal
<1>2. /\ Sound(hb, Kind(calls), preId) /\ HBBounded(hb) /\ Newest \in Nat
      /\ hb.lastUI <= Newest /\ RegFits(hb, reg, calls, preId) /\ HBSound(hb)
      /\ preId \in 0..(hb.nextId - 1) /\ (Preallocate => preId > 0)
  BY <1>1, SoundNow
<1>3. hb.current # 0 => hb.current = Newest
  BY <1>2 DEF Sound, Newest, IdsGrow
<1>4. /\ Starter(hb) \in Nat
      /\ Starter(hb) = hb.current \/ (hb.current = 0 /\ Starter(hb) = hb.lastUI)
  BY <1>2, StarterIs
<1>5. Starter(hb) <= Newest
  BY <1>2, <1>3, <1>4
<1>6. \A t \in Timers : timers[t] \in TimerRecords /\ timers[t].starter <= Newest
  BY <1>1 DEF ArcsInv, StartersBelow, Alive, TimersFit
<1> QED BY <1>1, <1>2, <1>3, <1>4, <1>5, <1>6

\* The frames change and the bookkeeping at most gets one more arc.
LEMMA SoundMoves ==
    ASSUME RegisterInv, SoundInv, Alive, HBSound(hb'), hb'.nextId = hb.nextId,
           hb'.current = hb.current, hb'.lastUI = hb.lastUI, hb'.logOpen = hb.logOpen,
           preId' = preId, undefined' = undefined,
           \/ Kind(calls') = Kind(calls)
           \/ Kind(calls) \in Opens /\ Kind(calls') \in Opens
           \/ Kind(calls) \in {"idle", "plain"} /\ Kind(calls') \in {"idle", "plain"}
    PROVE  Keeps
<1> DEFINE k == Kind(calls)
           l == Kind(calls')
<1>1. Sound(hb, k, preId) /\ Newest \in Nat
  BY SoundNow
<1>2. /\ l \in Opens <=> k \in Opens
      /\ l \in {"idle", "plain"} <=> k \in {"idle", "plain"}
      /\ l = "immediate" <=> k = "immediate"
  BY DEF Opens
<1> HIDE DEF k, l
<1>3. Limit(hb', l, preId') = Limit(hb, k, preId)
  BY <1>2 DEF Limit
<1>4. Sound(hb', l, preId')
  BY <1>1, <1>2, <1>3 DEF Sound
<1>5. Newest' = Newest
  BY <1>3 DEF Newest, k, l
<1> QED BY <1>1, <1>4, <1>5 DEF Keeps, SoundInv, Sound, l

\* One timer changes, or none, in a step that keeps the bookkeeping sound.
LEMMA StartersStay ==
    ASSUME IdsGrow, ArcsInv, Alive, TimersInv', Keeps,
           \A t \in Timers : \/ timers'[t].starter = timers[t].starter
                             \/ timers'[t].starter = Starter(hb)
    PROVE  ArcsInv'
<1>1. /\ Newest \in Nat /\ Starter(hb) \in Nat /\ Starter(hb) <= Newest
      /\ \A t \in Timers : timers[t] \in TimerRecords /\ timers[t].starter <= Newest
  BY ArcsNow
<1>2. SoundInv'
  BY DEF Keeps
<1>3. ASSUME ~undefined', NEW t \in Timers PROVE timers'[t].starter <= Newest'
  <2>1. Newest <= Newest'
    BY <1>3 DEF Keeps
  <2>2. RegisterInv' /\ Alive'
    BY <1>2, <1>3 DEF TimersInv, SoundInv, HBSound, Alive
  <2>3. Newest' \in Nat
    <3>1. HBBounded(hb') /\ preId' \in 0..(hb'.nextId - 1) /\ (Preallocate => preId' > 0)
      BY <1>3, <2>2 DEF RegisterInv, RegFits
    <3> QED BY <3>1, LimitNumber DEF Newest
  <2>4. timers[t].starter \in Nat /\ timers[t].starter <= Newest
    BY <1>1 DEF TimerRecords
  <2> DEFINE a == timers'[t].starter
             b == timers[t].starter
             n == Newest
             m == Newest'
             s == Starter(hb)
  <2>5. /\ b \in Nat /\ b <= n /\ s \in Nat /\ s <= n /\ n \in Nat /\ m \in Nat /\ n <= m
        /\ a = b \/ a = s
    BY <1>1, <2>1, <2>3, <2>4
  <2> HIDE DEF a, b, n, m, s
  <2>6. a <= m
    BY <2>5
  <2> QED BY <2>6 DEF a, m
<1> QED BY <1>2, <1>3 DEF ArcsInv, StartersBelow

\* start, stop, setEventActionDescriptor
LEMMA ArcsClient ==
    ASSUME IdsGrow, ArcsInv, NEW t \in Timers,
           \/ \E repeat \in BOOLEAN : StartTimer(t, repeat)
           \/ \E destroy \in BOOLEAN : StopTimer(t, destroy)
           \/ \E d \in Descriptors \cup {NullTimer} : SetEventActionDescriptor(t, d)
    PROVE  ArcsInv'
<1>1. Alive /\ UNCHANGED <<hb, preId, undefined>>
  BY DEF StartTimer, StopTimer, SetEventActionDescriptor, registerVars
<1>2. /\ TimersInv /\ RegisterInv /\ SoundInv /\ RegFits(hb, reg, calls, preId)
      /\ HBBounded(hb) /\ \A u \in Timers : timers[u] \in TimerRecords
  BY <1>1, ArcsNow
<1>3. timers \in [Timers -> TimerRecords] /\ calls \in Seq(Frames)
  BY <1>2 DEF TimersInv, TimersFit, RegFits, Stack
<1>4. TimersInv'
  BY <1>2, ClientStep
<1>5. Kind(calls') = Kind(calls)
  <2>1. calls' = calls \/ calls' = Dangle(calls, timers[t].desc)
    BY DEF StartTimer, StopTimer, SetEventActionDescriptor, registerVars, Deregister
  <2> QED BY <1>3, <2>1, KindOf, SMTT(60)
<1>6. Keeps
  BY <1>1, <1>2, <1>5, SoundFrames
<1>7. ASSUME NEW y, timers' = [timers EXCEPT ![t] = y],
             y.starter = timers[t].starter \/ y.starter = Starter(hb)
      PROVE  ArcsInv'
  <2>1. \A u \in Timers : \/ timers'[u].starter = timers[u].starter
                          \/ timers'[u].starter = Starter(hb)
    BY <1>3, <1>7
  <2> QED BY <1>1, <1>4, <1>6, <2>1, StartersStay
<1>8. CASE \E repeat \in BOOLEAN : StartTimer(t, repeat)
  <2>1. PICK repeat \in BOOLEAN : StartTimer(t, repeat)
    BY <1>8
  <2> DEFINE y == SetNextFireTime([timers[t] EXCEPT !.repeat = repeat, !.armed = TRUE], hb)
  <2>2. timers' = [timers EXCEPT ![t] = y]
    BY <2>1 DEF StartTimer
  <2>3. y.starter = Starter(hb)
    BY <1>2, TimerStarted
  <2> HIDE DEF y
  <2> QED BY <1>7, <2>2, <2>3
<1>9. CASE \E destroy \in BOOLEAN : StopTimer(t, destroy)
  <2>1. PICK destroy \in BOOLEAN : StopTimer(t, destroy)
    BY <1>9
  <2> DEFINE y == ClearNextFireTime([timers[t] EXCEPT !.repeat = FALSE, !.armed = FALSE,
                                                      !.alive = ~destroy])
  <2>2. timers' = [timers EXCEPT ![t] = y]
    BY <2>1 DEF StopTimer
  <2>3. y.starter = timers[t].starter
    BY <1>2, TimerStopped
  <2> HIDE DEF y
  <2> QED BY <1>7, <2>2, <2>3
<1>10. CASE \E d \in Descriptors \cup {NullTimer} : SetEventActionDescriptor(t, d)
  <2>1. PICK d \in Descriptors \cup {NullTimer} : SetEventActionDescriptor(t, d)
    BY <1>10
  <2> DEFINE y == [timers[t] EXCEPT !.desc = d]
  <2>2. timers' = [timers EXCEPT ![t] = y]
    BY <2>1 DEF SetEventActionDescriptor
  <2>3. y.starter = timers[t].starter
    BY <1>2 DEF TimerRecords
  <2> HIDE DEF y
  <2> QED BY <1>7, <2>2, <2>3
<1> QED BY <1>8, <1>9, <1>10

\* A callback starts, in an event action or outside: its arc points forward.
LEMMA ArcsFired ==
    ASSUME IdsGrow, ArcsInv, Alive, NEW t \in Timers, TimersInv',
           hb' = FiredArc(t, hb), timers' = [timers EXCEPT ![t] = Fired(@, hb)],
           UNCHANGED <<preId, undefined>>,
           \/ Kind(calls) \in Opens /\ Kind(calls') \in Opens
           \/ Kind(calls) \in {"idle", "plain"} /\ Kind(calls') \in {"idle", "plain"}
    PROVE  ArcsInv'
<1>1. /\ TimersInv /\ RegisterInv /\ SoundInv /\ HBBounded(hb) /\ HBSound(hb)
      /\ Newest \in Nat /\ (hb.current # 0 => hb.current = Newest)
      /\ timers[t] \in TimerRecords /\ timers[t].starter <= Newest
  BY ArcsNow
<1>2. TimersFit(timers, hb) /\ timers \in [Timers -> TimerRecords]
  BY <1>1 DEF TimersInv, TimersFit
<1>3. hb.current # 0 => timers[t].starter <= hb.current
  BY <1>1
<1>4. /\ hb'.nextId = hb.nextId /\ hb'.current = hb.current
      /\ hb'.lastUI = hb.lastUI /\ hb'.logOpen = hb.logOpen /\ HBSound(hb')
  BY <1>1, <1>2, <1>3, StarterArc
<1>5. Keeps
  BY <1>1, <1>4, SoundMoves
<1> DEFINE y == Fired(timers[t], hb)
<1>6. timers' = [timers EXCEPT ![t] = y]
  OBVIOUS
<1>7. y.starter = timers[t].starter \/ y.starter = Starter(hb)
  BY <1>1, <1>2, TimerFired DEF TimersFit
<1> HIDE DEF y
<1>8. \A u \in Timers : \/ timers'[u].starter = timers[u].starter
                        \/ timers'[u].starter = Starter(hb)
  BY <1>2, <1>6, <1>7
<1> QED BY <1>5, <1>8, StartersStay

\* A due timer without a descriptor
LEMMA ArcsUncontrolled ==
    ASSUME IdsGrow, ArcsInv, NEW t \in Timers, FireUncontrolled(t)
    PROVE  ArcsInv'
<1>1. /\ Alive /\ AtTick /\ hb' = FiredArc(t, hb)
      /\ timers' = [timers EXCEPT ![t] = Fired(@, hb)]
      /\ calls' = Append(calls, Frame("plain", GhostDescriptor, 0, -1, t))
      /\ UNCHANGED <<preId, undefined>>
  BY DEF FireUncontrolled
<1>2. TimersInv /\ ~NestedLoops
  BY <1>1, ArcsNow
<1>3. TimersInv'
  BY <1>2, UncontrolledStep
<1>4. calls = <<>>
  BY <1>1, <1>2, TickLevel
<1> DEFINE f == Frame("plain", GhostDescriptor, 0, -1, t)
<1>5. f.kind = "plain" /\ calls' = Append(<<>>, f)
  BY <1>1, <1>4 DEF Frame
<1> HIDE DEF f
<1>6. Kind(calls) = "idle" /\ Kind(calls') = "plain"
  BY <1>4, <1>5, KindOf
<1> QED BY <1>1, <1>3, <1>6, ArcsFired

\* The register calls a timer.
LEMMA ArcsCallback ==
    ASSUME IdsGrow, ArcsInv, FireTimerCallback
    PROVE  ArcsInv'
<1> DEFINE t == Last(calls).object
           f == [Last(calls) EXCEPT !.kind = "handler"]
<1>1. /\ Alive /\ calls # <<>> /\ Last(calls).kind = "called" /\ preId' = preId
  BY DEF FireTimerCallback, Idle
<1>2. /\ TimersInv /\ ~NestedLoops /\ RegFits(hb, reg, calls, preId) /\ HBSound(hb) /\ RegisterInv
      /\ SoundInv
  BY <1>1, ArcsNow
<1>3. TimersInv'
  BY <1>2, CallbackStep
<1>4. t \in Timers /\ Last(calls) \in Frames
  BY <1>1, <1>2, CalledTimer
<1>5. CASE timers[t].alive
  <2>1. /\ hb' = FiredArc(t, hb) /\ timers' = [timers EXCEPT ![t] = Fired(@, hb)]
        /\ calls' = Append(Front(calls), f) /\ UNCHANGED undefined
    BY <1>5 DEF FireTimerCallback
  <2>2. Kind(calls) = "called" /\ calls' = Append(<<>>, f)
    BY <1>1, <1>2, <2>1, SingleFrame
  <2>3. f.kind = "handler"
    BY <1>4 DEF Frames
  <2> HIDE DEF f, t
  <2>4. Kind(calls) \in Opens /\ Kind(calls') \in Opens
    BY <2>2, <2>3, KindOf DEF Opens
  <2> QED BY <1>1, <1>3, <1>4, <2>1, <2>4, ArcsFired
<1>6. CASE ~timers[t].alive
  <2>1. undefined' = TRUE /\ UNCHANGED hb
    BY <1>6 DEF FireTimerCallback
  <2> QED BY <1>2, <1>3, <2>1 DEF ArcsInv, SoundInv, StartersBelow
<1> QED BY <1>5, <1>6

\* A due timer with a descriptor
LEMMA ArcsControlled ==
    ASSUME IdsGrow, ArcsInv, NEW t \in Timers, FireControlled(t)
    PROVE  ArcsInv'
<1> DEFINE d == timers[t].desc
           y == [ClearNextFireTime(timers[t]) EXCEPT !.flag = TRUE]
           r == AddHandler(reg, d, t)
<1>1. /\ Alive /\ AtTick /\ d # NullTimer /\ timers' = [timers EXCEPT ![t] = y]
      /\ IF Preallocate \/ stopped
         THEN reg' = r /\ UNCHANGED <<hb, calls>>
         ELSE Attempt(d, -1, FirstProvider(d), hb, r, calls)
      /\ UNCHANGED <<preId, undefined>>
  BY DEF FireControlled
<1>2. /\ TimersInv /\ Modal /\ ~NestedLoops /\ RegisterInv /\ SoundInv
      /\ HBBounded(hb) /\ preId \in 0..(hb.nextId - 1) /\ (Preallocate => preId > 0)
      /\ timers[t] \in TimerRecords
  BY <1>1, ArcsNow
<1>3. TimersInv' /\ timers \in [Timers -> TimerRecords]
  BY <1>2, ControlledStep DEF TimersInv, TimersFit
<1>4. calls = <<>> /\ d \in Descriptors
  BY <1>1, <1>2, TickLevel DEF TimerRecords
<1>5. y.starter = timers[t].starter
  BY <1>2, TimerRegistered
<1> HIDE DEF d, y, r
<1>6. \A u \in Timers : timers'[u].starter = timers[u].starter
  BY <1>1, <1>3, <1>5
<1>7. Keeps
  <2>1. CASE Preallocate \/ stopped
    BY <1>1, <1>2, <2>1, SoundFrames
  <2>2. CASE ~(Preallocate \/ stopped)
    <3>1. Attempt(d, -1, FirstProvider(d), hb, r, <<>>) /\ Kind(calls) = "idle"
      BY <1>1, <1>4, <2>2, KindOf
    <3>2. Sound(hb, "idle", preId)
      BY <1>1, <1>2, <3>1, SoundNow
    <3>3. /\ Sound(hb', Kind(calls'), preId)
          /\ Limit(hb, "idle", preId) <= Limit(hb', Kind(calls'), preId)
      BY <1>2, <1>4, <3>1, <3>2, SoundAttempt
    <3> QED BY <1>1, <3>1, <3>3 DEF Keeps, SoundInv, Newest, Sound
  <2> QED BY <2>1, <2>2
<1> QED BY <1>1, <1>3, <1>6, <1>7, StartersStay

\* A provider refuses: the bookkeeping is as it was before the attempt.
LEMMA SoundRefused ==
    ASSUME ~Preallocate, NEW h, HBBounded(h), NEW k \in Opens, Sound(h, k, preId)
    PROVE  LET g == HBExitEventAction(h, FALSE)
           IN  /\ HBBounded(g) /\ g.nextId = h.nextId /\ Sound(g, "idle", preId)
               /\ Limit(g, "idle", preId) = Limit(h, k, preId)
<1> DEFINE g == HBExitEventAction(h, FALSE)
<1>1. /\ HBBounded(g) /\ g.nextId = h.nextId /\ g.current = 0 /\ g.lastUI = h.lastUI
      /\ HBSound(h) /\ (h.logOpen \/ ~h.strict) => HBSound(g)
  BY Left
<1> HIDE DEF g
<1>2. k \notin {"idle", "plain"} /\ "idle" \notin Opens
  BY DEF Opens
<1>3. HBSound(h) /\ h.logOpen
  BY <1>2 DEF Sound
<1>4. Limit(g, "idle", preId) = Limit(h, k, preId)
  BY <1>1 DEF Limit
<1>5. Sound(g, "idle", preId)
  BY <1>1, <1>2, <1>3, <1>4 DEF Sound
<1> QED BY <1>1, <1>4, <1>5 DEF g

\* An event action ends, or a callback outside one.
LEMMA ArcsReturn ==
    ASSUME IdsGrow, ArcsInv, ProviderAnswers \/ TimerCallbackReturns \/ UncontrolledReturns
    PROVE  ArcsInv'
<1>1. Alive /\ UNCHANGED timerVars /\ calls # <<>>
  BY DEF ProviderAnswers, TimerCallbackReturns, UncontrolledReturns, ProviderAccepts,
         ProviderRefuses, HandlerReturns, InPageCode, Idle
<1>2. /\ TimersInv /\ Modal /\ ~NestedLoops /\ RegisterInv /\ SoundInv
      /\ RegFits(hb, reg, calls, preId)
      /\ HBBounded(hb) /\ preId \in 0..(hb.nextId - 1) /\ (Preallocate => preId > 0)
  BY <1>1, ArcsNow
<1>3. TimersInv'
  BY <1>2, AnswerStep, PlainReturnStep
<1>4. Front(calls) = <<>> /\ Kind(calls) = Last(calls).kind
  BY <1>1, <1>2, SingleFrame
<1>5. Sound(hb, Kind(calls), preId)
  BY <1>1, <1>2, SoundNow
<1>6. Keeps
  <2>1. CASE ProviderAccepts
    <3>1. /\ Last(calls).kind = "provider" /\ calls' = Front(calls)
          /\ hb' = TakePreallocated(HBExitEventAction(hb, TRUE))
          /\ preId' = NextPreallocated(HBExitEventAction(hb, TRUE)) /\ undefined' = undefined
      BY <2>1 DEF ProviderAccepts
    <3>2. Kind(calls) \in Opens /\ calls' = <<>>
      BY <1>4, <3>1 DEF Opens
    <3> QED BY <1>1, <1>2, <3>1, <3>2, SoundCommit
  <2>2. CASE ProviderRefuses
    <3> DEFINE f == Last(calls)
               g == HBExitEventAction(hb, FALSE)
               s == DispatchEnd(reg, FALSE, f.original)
    <3>1. /\ f.kind = "provider" /\ UNCHANGED <<preId, undefined>>
          /\ Attempt(f.descriptor, f.original, f.index + 1, g, s, Front(calls))
      BY <2>2 DEF ProviderRefuses
    <3>2. f.descriptor \in Descriptors /\ f.index + 1 \in 1..(Len(Providers) + 1)
      BY <1>1, <1>2, <3>1, Refused
    <3>3. ~Preallocate
      <4>1. f.index \in Nat \ {0} /\ f.index <= Len(Providers)
        <5>1. Last(calls) = calls[1] /\ 1 \in DOMAIN calls /\ Last(calls) \in Frames
          BY <1>1, <1>2, SingleFrame
        <5>2. f.index # 0 /\ f.index <= Len(Providers)
          BY <1>2, <3>1, <5>1 DEF RegFits, Stack
        <5>3. f.index \in 0..(Len(Providers) + 1) /\ Len(Providers) \in Nat
          BY <5>1, FirstProviderInRange DEF Frames
        <5> HIDE DEF f
        <5> QED BY <5>2, <5>3
      <4>2. Len(<<>>) = 0
        OBVIOUS
      <4> HIDE DEF f
      <4> QED BY <4>1, <4>2 DEF IdsGrow
    <3>4. Kind(calls) \in Opens
      BY <1>4, <3>1 DEF Opens
    <3>5. /\ HBBounded(g) /\ g.nextId = hb.nextId /\ Sound(g, "idle", preId)
          /\ Limit(g, "idle", preId) = Limit(hb, Kind(calls), preId)
      BY <1>2, <1>5, <3>3, <3>4, SoundRefused
    <3> HIDE DEF f, g, s
    <3>6. preId \in 0..(g.nextId - 1) /\ Attempt(f.descriptor, f.original, f.index + 1, g, s, <<>>)
      BY <1>2, <1>4, <3>1, <3>5
    <3>7. /\ Sound(hb', Kind(calls'), preId)
          /\ Limit(g, "idle", preId) <= Limit(hb', Kind(calls'), preId)
      BY <1>2, <3>2, <3>5, <3>6, SoundAttempt
    <3> QED BY <3>1, <3>5, <3>7 DEF Keeps, SoundInv, Newest, Sound
  <2>3. CASE HandlerReturns
    BY <1>2, <2>3, SoundHandlerReturns
  <2>4. CASE UncontrolledReturns
    <3>1. /\ Last(calls).kind = "plain" /\ calls' = <<>>
          /\ UNCHANGED <<hb, preId, undefined>>
      BY <1>4, <2>4 DEF UncontrolledReturns
    <3>2. Kind(calls') = "idle" /\ Kind(calls) = "plain"
      BY <1>4, <3>1, KindOf
    <3> QED BY <1>1, <1>2, <3>1, <3>2, SoundFrames
  <2> QED BY <2>1, <2>2, <2>3, <2>4 DEF ProviderAnswers, TimerCallbackReturns
<1> QED BY <1>1, <1>3, <1>6, StartersStay DEF timerVars

\* ReplayScheduler runs an event action.
LEMMA ArcsWaiting ==
    ASSUME IdsGrow, ArcsInv, DispatchWaiting
    PROVE  ArcsInv'
<1>1. PICK d \in reg.waiting \cup ProvidedDescriptors, o \in OriginalIdsPassed :
        RunEventAction(d, o)
  BY DEF DispatchWaiting
<1>2. /\ Alive /\ UNCHANGED timerVars /\ UNCHANGED <<preId, undefined>>
      /\ Attempt(d, o, FirstProvider(d), hb, reg, calls)
  BY <1>1 DEF DispatchWaiting, RunEventAction
<1>3. /\ TimersInv /\ Modal /\ ~NestedLoops /\ RegisterInv /\ SoundInv
      /\ RegFits(hb, reg, calls, preId)
      /\ HBBounded(hb) /\ preId \in 0..(hb.nextId - 1) /\ (Preallocate => preId > 0)
  BY <1>2, ArcsNow
<1>4. TimersInv' /\ calls = <<>>
  BY <1>3, WaitingStep
<1>5. d \in Descriptors
  BY <1>3 DEF RegFits, Registry, ProvidedDescriptors
<1>6. Kind(calls) = "idle" /\ Attempt(d, o, FirstProvider(d), hb, reg, <<>>)
  BY <1>2, <1>4, KindOf
<1>7. Sound(hb, "idle", preId)
  BY <1>2, <1>3, <1>6, SoundNow
<1>8. /\ Sound(hb', Kind(calls'), preId)
      /\ Limit(hb, "idle", preId) <= Limit(hb', Kind(calls'), preId)
  BY <1>3, <1>5, <1>6, <1>7, SoundAttempt
<1>9. Keeps
  BY <1>2, <1>6, <1>8 DEF Keeps, SoundInv, Newest, Sound
<1> QED BY <1>2, <1>4, <1>9, StartersStay DEF timerVars

\* Ticks, the end of the recording, ghosts and immediate event actions
LEMMA ArcsBetween ==
    ASSUME IdsGrow, ArcsInv,
           \/ SharedTimerFired \/ TickEnds \/ FireTimersInNestedEventLoop
           \/ StopScheduler \/ GhostsBetweenTicks \/ ImmediateBetweenTicks
    PROVE  ArcsInv'
<1>1. Alive /\ UNCHANGED timers
  BY DEF SharedTimerFired, TickEnds, FireTimersInNestedEventLoop, StopScheduler,
         GhostsBetweenTicks, ImmediateBetweenTicks, GhostNext, EnterGhostEventAction,
         ExitGhostEventAction, FrameGhostLeftOpen, EnterImmediateEventAction,
         ExitImmediateEventAction, timerVars
<1>2. /\ TimersInv /\ Modal /\ ~NestedLoops /\ RegisterInv /\ SoundInv /\ HBBounded(hb)
      /\ HBSound(hb)
  BY <1>1, ArcsNow
<1>3. TimersInv'
  BY <1>2, TickStep, StopStep, BetweenStep
<1>4. Keeps
  <2>1. CASE SharedTimerFired \/ TickEnds \/ FireTimersInNestedEventLoop
    <3>1. UNCHANGED <<hb, calls, preId, undefined>>
      BY <2>1 DEF SharedTimerFired, TickEnds, FireTimersInNestedEventLoop, registerVars
    <3> QED BY <1>1, <1>2, <3>1, SoundFrames
  <2>2. CASE StopScheduler
    <3>1. hb' = ActionLogStrictMode(hb, FALSE) /\ UNCHANGED <<calls, preId, undefined>>
      BY <2>2 DEF StopScheduler
    <3>2. /\ HBSound(hb') /\ hb'.nextId = hb.nextId /\ hb'.current = hb.current
          /\ hb'.lastUI = hb.lastUI /\ hb'.logOpen = hb.logOpen
      BY <1>2, <3>1, StrictModeSet
    <3> QED BY <1>1, <1>2, <3>1, <3>2, SoundMoves
  <2>3. CASE GhostsBetweenTicks
    BY <1>2, <2>3, SoundGhost DEF GhostsBetweenTicks
  <2>4. CASE ImmediateBetweenTicks
    BY <1>2, <2>4, SoundImmediate DEF ImmediateBetweenTicks
  <2> QED BY <2>1, <2>2, <2>3, <2>4
<1> QED BY <1>1, <1>3, <1>4, StartersStay

\* Every step keeps the invariant.
LEMMA ArcsKeep ==
    ASSUME IdsGrow, ArcsInv, [TimersNext]_allVars
    PROVE  ArcsInv'
<1>1. CASE UNCHANGED allVars
  <2>1. ArcsInv' <=> ArcsInv
    BY <1>1 DEF allVars, registerVars, timerVars, ArcsInv, TimersInv, RegisterInv, SoundInv,
                StartersBelow, Newest
  <2> QED BY <2>1
<1>2. CASE TimersNext
  BY <1>2, ArcsClient, ArcsUncontrolled, ArcsControlled, ArcsBetween, ArcsWaiting,
     ArcsReturn, ArcsCallback DEF TimersNext
<1> QED BY <1>1, <1>2

\* The invariant holds in every reachable state.
LEMMA ArcsInvariant ==
    ASSUME IdsGrow
    PROVE  TimersSpec => []ArcsInv
<1>1. TimersInit => ArcsInv
  <2> SUFFICES ASSUME TimersInit PROVE ArcsInv
    OBVIOUS
  <2>1. TimersInv /\ FullInv /\ ~undefined
    BY TimersStart, FullInvInitially DEF TimersInit, RegisterInit
  <2>2. Newest \in Nat
    <3>1. Alive
      BY <2>1 DEF FullInv, SoundInv, HBSound, Alive
    <3> QED BY <2>1, <3>1, SoundNow DEF FullInv
  <2>3. \A t \in Timers : timers[t].starter = 0
    BY DEF TimersInit
  <2> QED BY <2>1, <2>2, <2>3 DEF ArcsInv, FullInv, StartersBelow
<1>2. ArcsInv /\ [TimersNext]_allVars => ArcsInv'
  BY ArcsKeep
<1> QED BY <1>1, <1>2, PTL DEF TimersSpec

\* Every arc from the starter of a timer, and every arc of the chain of user interface
\* actions, reaches the log: none points backwards, and none is dropped while the checks
\* of the log are off.
THEOREM ArcsReachTheLog ==
    ASSUME IdsGrow
    PROVE  TimersSpec => []NoLostArc
<1>1. ArcsInv => NoLostArc
  BY DEF ArcsInv, SoundInv, HBSound, NoLostArc
<1> QED BY <1>1, ArcsInvariant, PTL

\* With timers on top, too, no consistency check of the bookkeeping or the log fails.
THEOREM TimersDoNotCrash ==
    ASSUME IdsGrow
    PROVE  TimersSpec => []NoCrash
<1>1. ArcsInv => NoCrash
  BY DEF ArcsInv, SoundInv, HBSound, NoCrash
<1> QED BY <1>1, ArcsInvariant, PTL

-----------------------------------------------------------------------------
(* Callbacks come after the event action their timer was started in *)

\* No forward arc is lost.  Where a refused provider makes an event action its own
\* predecessor, the arc of the chain is dropped; nothing else is.
Forward(h) == \A a \in h.seen : a[1] < a[2] => a \in h.arcs

\* One more arc
LEMMA ForwardArc ==
    ASSUME NEW h, HBBounded(h), Forward(h),
           NEW e \in 1..(h.nextId - 1), NEW l \in 1..(h.nextId - 1)
    PROVE  Forward(AddArc(h, e, l)) /\ (e < l => <<e, l>> \in AddArc(h, e, l).arcs)
<1> DEFINE g == AddArc(h, e, l)
           a == <<e, l>>
           s == [h EXCEPT !.seen = @ \cup {a}]
           v == [s EXCEPT !.arcs = @ \cup {a}]
<1>1. h \in HBRecords /\ h.nextId \in Nat \ {0} /\ e \in Nat /\ l \in Nat
  BY DEF HBBounded, HBRecords
<1>2. a[1] = e /\ a[2] = l
  OBVIOUS
<1>3. /\ Crash(h).seen = h.seen /\ Crash(h).arcs = h.arcs
      /\ s.seen = h.seen \cup {a} /\ s.arcs = h.arcs
      /\ v.seen = h.seen \cup {a} /\ v.arcs = h.arcs \cup {a}
      /\ Crash(s).seen = h.seen \cup {a} /\ Crash(s).arcs = h.arcs
  BY <1>1 DEF Crash, HBRecords
<1>4. \/ g = Crash(h) /\ ~(e < l)
      \/ g = h /\ a \in h.seen
      \/ g = v /\ e < l
      \/ (g = Crash(s) \/ g = s) /\ ~(e < l)
  BY <1>1 DEF AddArc, ActionLogAddArc
<1> HIDE DEF g, s, v, a
<1>5. CASE g = Crash(h) /\ ~(e < l)
  BY <1>3, <1>5 DEF Forward, g
<1>6. CASE g = h /\ a \in h.seen
  BY <1>2, <1>6 DEF Forward, g, a
<1>7. CASE g = v /\ e < l
  <2>1. Forward(g) /\ a \in g.arcs
    BY <1>3, <1>7 DEF Forward
  <2> QED BY <2>1 DEF g, a
<1>8. CASE (g = Crash(s) \/ g = s) /\ ~(e < l)
  <2>1. g.seen = h.seen \cup {a} /\ g.arcs = h.arcs
    BY <1>3, <1>8
  <2>2. Forward(g)
    BY <1>2, <1>8, <2>1 DEF Forward
  <2> QED BY <1>8, <2>2 DEF g
<1> QED BY <1>4, <1>5, <1>6, <1>7, <1>8

\* Operations that leave the arcs alone
LEMMA ForwardStays ==
    ASSUME NEW h, HBBounded(h), Forward(h), NEW b \in BOOLEAN
    PROVE  /\ Forward(HBAllocateEventActionId(h)) /\ Forward(ActionLogStrictMode(h, b))
           /\ Forward(HBExitEventAction(h, b))
<1>1. h \in HBRecords
  BY DEF HBBounded
<1>2. /\ HBAllocateEventActionId(h).seen = h.seen /\ HBAllocateEventActionId(h).arcs = h.arcs
      /\ ActionLogStrictMode(h, b).seen = h.seen /\ ActionLogStrictMode(h, b).arcs = h.arcs
  BY <1>1 DEF HBAllocateEventActionId, ActionLogStrictMode, HBRecords
<1> DEFINE f == [h EXCEPT !.current = 0, !.logOpen = FALSE,
                          !.last = IF b THEN h.current ELSE h.last]
<1>3. /\ f.seen = h.seen /\ f.arcs = h.arcs
      /\ Crash(f).seen = h.seen /\ Crash(f).arcs = h.arcs
  BY <1>1 DEF Crash, HBRecords
<1>4. HBExitEventAction(h, b) = f \/ HBExitEventAction(h, b) = Crash(f)
  BY DEF HBExitEventAction
<1> HIDE DEF f
<1>5. HBExitEventAction(h, b).seen = h.seen /\ HBExitEventAction(h, b).arcs = h.arcs
  BY <1>3, <1>4
<1> QED BY <1>2, <1>5 DEF Forward

\* setCurrentEventAction
LEMMA ForwardEnter ==
    ASSUME NEW h, HBBounded(h), Forward(h), NEW id \in 1..(h.nextId - 1), NEW isUI \in BOOLEAN
    PROVE  Forward(HBEnterEventAction(h, id, isUI))
<1> DEFINE n == [h EXCEPT !.current = id, !.logOpen = TRUE]
           c == IF h.lastUI = 0 THEN n ELSE AddArc(n, h.lastUI, id)
           u == [c EXCEPT !.lastUI = id]
           g == HBEnterEventAction(h, id, isUI)
<1>1. /\ h \in HBRecords /\ h.nextId \in Nat \ {0} /\ h.lastUI \in Nat /\ id \in Nat
      /\ id < h.nextId /\ h.lastUI < h.nextId
  BY DEF HBBounded, HBRecords
<1>2. /\ n \in HBRecords /\ n.nextId = h.nextId /\ n.lastUI = h.lastUI /\ n.last = h.last
      /\ n.current = id /\ n.seen = h.seen /\ n.arcs = h.arcs
  BY <1>1 DEF HBRecords
<1>3. g = IF isUI THEN u ELSE n
  BY DEF HBEnterEventAction
<1> HIDE DEF n, g
<1>4. HBBounded(n) /\ Forward(n)
  BY <1>1, <1>2 DEF HBBounded, Forward
<1>5. Forward(c) /\ HBBounded(c)
  <2>1. CASE h.lastUI = 0
    BY <1>4, <2>1
  <2>2. CASE h.lastUI # 0
    <3>1. h.lastUI \in 1..(n.nextId - 1) /\ id \in 1..(n.nextId - 1)
      BY <1>1, <1>2, <2>2
    <3> QED BY <1>4, <2>2, <3>1, ForwardArc, ArcAdded
  <2> QED BY <2>1, <2>2
<1> HIDE DEF c
<1>6. u.seen = c.seen /\ u.arcs = c.arcs
  BY <1>5 DEF HBBounded, HBRecords
<1> HIDE DEF u
<1>7. Forward(u)
  BY <1>5, <1>6 DEF Forward
<1> QED BY <1>3, <1>4, <1>7 DEF g

\* The arc of a timer
LEMMA ForwardFired ==
    ASSUME NEW h, HBBounded(h), Forward(h), NEW t \in Timers, TimersFit(timers, h)
    PROVE  LET s == timers[t].starter
           IN  /\ Forward(FiredArc(t, h))
               /\ t \notin NoImplicitArcs /\ s # 0 /\ h.current # 0 /\ s < h.current
                    => <<s, h.current>> \in FiredArc(t, h).arcs
<1> DEFINE s == timers[t].starter
           c == h.current
           g == FiredArc(t, h)
<1>1. s \in Nat /\ s < h.nextId /\ c \in Nat /\ c < h.nextId /\ h.nextId \in Nat \ {0}
  BY DEF TimersFit, TimerRecords, HBBounded, HBRecords
<1>2. g = IF s # 0 /\ c # 0 /\ t \notin NoImplicitArcs /\ s # c THEN AddArc(h, s, c) ELSE h
  BY DEF FiredArc, HBAddArc, HBIsCurrentEventActionValid
<1> HIDE DEF s, c, g
<1>3. CASE s # 0 /\ c # 0 /\ t \notin NoImplicitArcs /\ s # c
  <2>1. s \in 1..(h.nextId - 1) /\ c \in 1..(h.nextId - 1)
    BY <1>1, <1>3
  <2>2. g = AddArc(h, s, c)
    BY <1>2, <1>3
  <2>3. Forward(g) /\ (s < c => <<s, c>> \in g.arcs)
    BY <2>1, <2>2, ForwardArc
  <2> QED BY <2>3 DEF g, s, c
<1>4. CASE ~(s # 0 /\ c # 0 /\ t \notin NoImplicitArcs /\ s # c)
  <2>1. g = h /\ ~(t \notin NoImplicitArcs /\ s # 0 /\ c # 0 /\ s < c)
    BY <1>1, <1>2, <1>4
  <2> QED BY <2>1 DEF g, s, c
<1> QED BY <1>3, <1>4

\* One event loop, and in a replay no ids are given out between two event actions.
OneLoop == ~NestedLoops /\ (Preallocate => ~Ghosts)

\* The id of the running event action, and the one held for the next, is the newest.
Latest(h, k, p) ==
    /\ Preallocate => p = h.nextId - 1
    /\ k \in Opens => h.current = h.nextId - 1

OrderInv == TimersInv /\ Forward(hb) /\ (undefined \/ Latest(hb, Kind(calls), preId))

\* The current state
LEMMA OrderNow ==
    ASSUME OneLoop, OrderInv, Alive
    PROVE  /\ Modal /\ ~NestedLoops /\ TimersInv /\ RegisterInv /\ Forward(hb)
           /\ Latest(hb, Kind(calls), preId) /\ RegFits(hb, reg, calls, preId)
           /\ HBBounded(hb) /\ hb.nextId \in Nat \ {0} /\ TimersFit(timers, hb)
           /\ preId \in 0..(hb.nextId - 1) /\ (Preallocate => preId > 0)
           /\ calls \in Seq(Frames)
<1>1. TimersInv /\ Modal /\ Forward(hb) /\ Latest(hb, Kind(calls), preId)
  BY DEF OrderInv, OneLoop, Modal, Alive
<1>2. /\ RegisterInv /\ RegFits(hb, reg, calls, preId) /\ HBBounded(hb)
      /\ hb.nextId \in Nat \ {0} /\ TimersFit(timers, hb) /\ calls \in Seq(Frames)
  BY <1>1, TimersNow
<1> QED BY <1>1, <1>2 DEF OneLoop, RegFits

\* An attempt from the idle state
LEMMA LatestAttempt ==
    ASSUME NEW h, NEW r, HBBounded(h), preId \in 0..(h.nextId - 1), Preallocate => preId > 0,
           Forward(h), Latest(h, "idle", preId), NEW d \in Descriptors, NEW o, NEW i,
           Attempt(d, o, i, h, r, <<>>)
    PROVE  Forward(hb') /\ Latest(hb', Kind(calls'), preId)
<1>1. CASE hb' = h /\ calls' = <<>>
  BY <1>1, KindOf
<1>2. CASE hb' = HBEnterEventAction(AfterDispatchId(h), DispatchId(h), d.ui)
  <2> DEFINE a == AfterDispatchId(h)
             id == DispatchId(h)
  <2>1. h.nextId \in Nat \ {0} /\ preId \in Nat /\ preId < h.nextId
    BY DEF HBBounded, HBRecords
  <2>2. /\ HBBounded(a) /\ Forward(a)
        /\ a.nextId = (IF Preallocate THEN h.nextId ELSE h.nextId + 1)
    BY Allocated, ForwardStays DEF AfterDispatchId
  <2>3. id = a.nextId - 1 /\ id \in 1..(a.nextId - 1)
    BY <2>1, <2>2 DEF DispatchId, Latest
  <2>4. d.ui \in BOOLEAN
    BY RegisterAssumption
  <2> HIDE DEF a, id
  <2>5. hb' = HBEnterEventAction(a, id, d.ui)
    BY <1>2 DEF a, id
  <2>6. hb'.nextId = a.nextId /\ hb'.current = id /\ Forward(hb')
    BY <2>2, <2>3, <2>4, <2>5, Entered, ForwardEnter
  <2>7. Preallocate => preId = hb'.nextId - 1
    BY <2>1, <2>2, <2>6 DEF Latest
  <2> QED BY <2>3, <2>6, <2>7 DEF Latest
<1> QED BY <1>1, <1>2 DEF Attempt

\* An event action is committed.
LEMMA LatestCommit ==
    ASSUME OneLoop, OrderInv, Alive, calls' = <<>>,
           hb' = TakePreallocated(HBExitEventAction(hb, TRUE)),
           preId' = NextPreallocated(HBExitEventAction(hb, TRUE))
    PROVE  Forward(hb') /\ Latest(hb', Kind(calls'), preId')
<1> DEFINE g == HBExitEventAction(hb, TRUE)
<1>1. HBBounded(hb) /\ Forward(hb) /\ hb.nextId \in Nat \ {0}
  BY OrderNow
<1>2. HBBounded(g) /\ g.nextId = hb.nextId /\ Forward(g)
  BY <1>1, Left, ForwardStays
<1> HIDE DEF g
<1>3. Kind(calls') = "idle" /\ "idle" \notin Opens
  BY KindOf DEF Opens
<1>4. Forward(hb')
  BY <1>2, ForwardStays DEF TakePreallocated, g
<1>5. Preallocate => preId' = hb'.nextId - 1
  <2> SUFFICES ASSUME Preallocate PROVE preId' = hb'.nextId - 1
    OBVIOUS
  <2>1. hb' = HBAllocateEventActionId(g) /\ preId' = g.nextId
    BY DEF TakePreallocated, NextPreallocated, g
  <2>2. hb'.nextId = g.nextId + 1
    BY <1>2, <2>1, Allocated
  <2> DEFINE n == g.nextId
             m == hb'.nextId
             q == preId'
  <2>3. n \in Nat /\ m = n + 1 /\ q = n
    BY <1>1, <1>2, <2>1, <2>2
  <2> HIDE DEF n, m, q
  <2>4. q = m - 1
    BY <2>3
  <2> QED BY <2>4 DEF m, q
<1> QED BY <1>3, <1>4, <1>5 DEF Latest

\* A step that gives out no id and starts no event action
LEMMA LatestStays ==
    ASSUME OneLoop, OrderInv, Alive, TimersInv', Forward(hb'), hb'.nextId = hb.nextId,
           UNCHANGED <<preId, undefined>>,
           \/ Kind(calls') \notin Opens
           \/ Kind(calls) \in Opens /\ hb'.current = hb.current
    PROVE  OrderInv'
<1>1. Latest(hb, Kind(calls), preId)
  BY OrderNow
<1>2. Latest(hb', Kind(calls'), preId')
  BY <1>1 DEF Latest
<1> QED BY <1>2 DEF OrderInv

\* The steps of the timers
LEMMA OrderTimers ==
    ASSUME OneLoop, OrderInv, NEW t \in Timers,
           \/ \E repeat \in BOOLEAN : StartTimer(t, repeat)
           \/ \E destroy \in BOOLEAN : StopTimer(t, destroy)
           \/ \E d \in Descriptors \cup {NullTimer} : SetEventActionDescriptor(t, d)
           \/ FireUncontrolled(t)
           \/ FireControlled(t)
    PROVE  OrderInv'
<1>1. Alive /\ UNCHANGED <<preId, undefined>>
  BY DEF StartTimer, StopTimer, SetEventActionDescriptor, FireUncontrolled, FireControlled,
         registerVars
<1>2. /\ Modal /\ ~NestedLoops /\ TimersInv /\ RegisterInv /\ Forward(hb)
      /\ Latest(hb, Kind(calls), preId) /\ HBBounded(hb) /\ TimersFit(timers, hb)
      /\ preId \in 0..(hb.nextId - 1) /\ (Preallocate => preId > 0) /\ calls \in Seq(Frames)
  BY <1>1, OrderNow
<1>3. TimersInv'
  BY <1>2, ClientStep, UncontrolledStep, ControlledStep
<1>4. CASE \/ \E repeat \in BOOLEAN : StartTimer(t, repeat)
           \/ \E destroy \in BOOLEAN : StopTimer(t, destroy)
           \/ \E d \in Descriptors \cup {NullTimer} : SetEventActionDescriptor(t, d)
  <2>1. hb' = hb /\ (calls' = calls \/ calls' = Dangle(calls, timers[t].desc))
    BY <1>4 DEF StartTimer, StopTimer, SetEventActionDescriptor, registerVars, Deregister
  <2>2. Kind(calls') = Kind(calls)
    BY <1>2, <2>1, KindOf
  <2> QED BY <1>1, <1>2, <1>3, <2>1, <2>2, LatestStays, SMTT(60)
<1>5. CASE FireUncontrolled(t)
  <2> DEFINE f == Frame("plain", GhostDescriptor, 0, -1, t)
  <2>1. AtTick /\ hb' = FiredArc(t, hb) /\ calls' = Append(calls, f)
    BY <1>5 DEF FireUncontrolled
  <2>2. f.kind = "plain" /\ calls' = Append(<<>>, f)
    BY <1>1, <1>2, <2>1, TickLevel DEF Frame
  <2> HIDE DEF f
  <2>3. Kind(calls') \notin Opens
    BY <2>2, KindOf DEF Opens
  <2>4. hb'.nextId = hb.nextId /\ Forward(hb')
    BY <1>2, <2>1, StarterArc, ForwardFired
  <2> QED BY <1>1, <1>3, <2>3, <2>4, LatestStays
<1>6. CASE FireControlled(t)
  <2> DEFINE d == timers[t].desc
             r == AddHandler(reg, d, t)
  <2>1. /\ AtTick /\ d # NullTimer
        /\ IF Preallocate \/ stopped
           THEN reg' = r /\ UNCHANGED <<hb, calls>>
           ELSE Attempt(d, -1, FirstProvider(d), hb, r, calls)
    BY <1>6 DEF FireControlled
  <2>2. calls = <<>> /\ d \in Descriptors
    BY <1>1, <1>2, <2>1, TickLevel DEF TimersFit, TimerRecords
  <2>3. Kind(calls) = "idle"
    BY <2>2, KindOf
  <2> HIDE DEF d, r
  <2>4. CASE Preallocate \/ stopped
    BY <1>2, <1>1, <1>3, <2>1, <2>4 DEF OrderInv
  <2>5. CASE ~(Preallocate \/ stopped)
    <3>1. Attempt(d, -1, FirstProvider(d), hb, r, <<>>)
      BY <2>1, <2>2, <2>5
    <3>2. Forward(hb') /\ Latest(hb', Kind(calls'), preId)
      BY <1>2, <2>2, <2>3, <3>1, LatestAttempt
    <3> QED BY <1>1, <1>3, <3>2 DEF OrderInv
  <2> QED BY <2>4, <2>5
<1> QED BY <1>4, <1>5, <1>6, SMTT(60)

\* The steps of the register
LEMMA OrderRegister ==
    ASSUME OneLoop, OrderInv,
           \/ UncontrolledReturns \/ DispatchWaiting \/ ProviderAnswers
           \/ FireTimerCallback \/ TimerCallbackReturns
    PROVE  OrderInv'
<1>1. Alive
  BY DEF UncontrolledReturns, DispatchWaiting, RunEventAction, ProviderAnswers, ProviderAccepts,
         ProviderRefuses, FireTimerCallback, TimerCallbackReturns, HandlerReturns
<1>2. /\ Modal /\ ~NestedLoops /\ TimersInv /\ RegisterInv /\ Forward(hb)
      /\ Latest(hb, Kind(calls), preId) /\ HBBounded(hb) /\ TimersFit(timers, hb)
      /\ preId \in 0..(hb.nextId - 1) /\ (Preallocate => preId > 0) /\ calls \in Seq(Frames)
      /\ RegFits(hb, reg, calls, preId)
  BY <1>1, OrderNow
<1>3. TimersInv'
  BY <1>2, PlainReturnStep, WaitingStep, AnswerStep, CallbackStep
<1>4. ASSUME calls # <<>> PROVE Front(calls) = <<>> /\ Kind(calls) = Last(calls).kind
  BY <1>2, <1>4, SingleFrame
<1>5. Kind(<<>>) = "idle" /\ "idle" \notin Opens
  BY KindOf DEF Opens
<1>6. CASE UncontrolledReturns
  <2>1. calls # <<>> /\ calls' = Front(calls) /\ UNCHANGED <<hb, preId, undefined>>
    BY <1>6 DEF UncontrolledReturns, Idle
  <2> QED BY <1>1, <1>2, <1>3, <1>4, <1>5, <2>1, LatestStays
<1>7. CASE DispatchWaiting
  <2>1. PICK d \in reg.waiting \cup ProvidedDescriptors, o \in OriginalIdsPassed :
          RunEventAction(d, o)
    BY <1>7 DEF DispatchWaiting
  <2>2. calls = <<>> /\ d \in Descriptors
    BY <1>2, <1>7, WaitingStep DEF RegFits, Registry, ProvidedDescriptors
  <2>3. /\ Attempt(d, o, FirstProvider(d), hb, reg, <<>>) /\ Latest(hb, "idle", preId)
        /\ UNCHANGED <<preId, undefined>>
    BY <1>2, <1>5, <2>1, <2>2 DEF RunEventAction
  <2>4. Forward(hb') /\ Latest(hb', Kind(calls'), preId)
    BY <1>2, <2>2, <2>3, LatestAttempt
  <2> QED BY <1>3, <2>3, <2>4 DEF OrderInv
<1>8. CASE ProviderAccepts
  <2>1. /\ calls # <<>> /\ calls' = Front(calls) /\ undefined' = undefined
        /\ hb' = TakePreallocated(HBExitEventAction(hb, TRUE))
        /\ preId' = NextPreallocated(HBExitEventAction(hb, TRUE))
    BY <1>8 DEF ProviderAccepts, InPageCode, Idle
  <2>2. Forward(hb') /\ Latest(hb', Kind(calls'), preId')
    BY <1>1, <1>4, <2>1, LatestCommit
  <2> QED BY <1>3, <2>1, <2>2 DEF OrderInv
<1>9. CASE ProviderRefuses
  <2> DEFINE f == Last(calls)
             g == HBExitEventAction(hb, FALSE)
             s == DispatchEnd(reg, FALSE, f.original)
  <2>1. /\ calls # <<>> /\ f.kind = "provider" /\ UNCHANGED <<preId, undefined>>
        /\ Attempt(f.descriptor, f.original, f.index + 1, g, s, Front(calls))
    BY <1>9 DEF ProviderRefuses, InPageCode, Idle
  <2>2. f.descriptor \in Descriptors /\ Front(calls) = <<>>
    BY <1>1, <1>2, <2>1, Refused
  <2>3. HBBounded(g) /\ g.nextId = hb.nextId /\ Forward(g)
    BY <1>2, Left, ForwardStays
  <2> HIDE DEF f, g, s
  <2>4. Latest(g, "idle", preId)
    BY <1>2, <1>5, <2>3 DEF Latest
  <2>5. /\ Attempt(f.descriptor, f.original, f.index + 1, g, s, <<>>)
        /\ preId \in 0..(g.nextId - 1)
    BY <1>2, <2>1, <2>2, <2>3
  <2>6. Forward(hb') /\ Latest(hb', Kind(calls'), preId)
    BY <1>2, <2>2, <2>3, <2>4, <2>5, LatestAttempt
  <2> QED BY <1>3, <2>1, <2>6 DEF OrderInv
<1>10. CASE FireTimerCallback
  <2> DEFINE t == Last(calls).object
             f == [Last(calls) EXCEPT !.kind = "handler"]
  <2>1. calls # <<>> /\ Last(calls).kind = "called" /\ preId' = preId
    BY <1>10 DEF FireTimerCallback, Idle
  <2>2. t \in Timers /\ Last(calls) \in Frames
    BY <1>1, <1>2, <2>1, CalledTimer
  <2>3. CASE timers[t].alive
    <3>1. hb' = FiredArc(t, hb) /\ calls' = Append(Front(calls), f) /\ undefined' = undefined
      BY <1>10, <2>3 DEF FireTimerCallback
    <3>2. Kind(calls) \in Opens
      BY <1>4, <2>1 DEF Opens
    <3> HIDE DEF t
    <3>3. hb'.nextId = hb.nextId /\ hb'.current = hb.current /\ Forward(hb')
      BY <1>2, <2>2, <3>1, StarterArc, ForwardFired
    <3> QED BY <1>1, <1>3, <2>1, <3>1, <3>2, <3>3, LatestStays
  <2>4. CASE ~timers[t].alive
    <3>1. undefined' = TRUE /\ hb' = hb
      BY <1>10, <2>4 DEF FireTimerCallback
    <3> QED BY <1>2, <1>3, <3>1 DEF OrderInv
  <2> QED BY <2>3, <2>4
<1>11. CASE HandlerReturns
  <2>1. calls # <<>> /\ calls' = Front(calls)
    BY <1>11 DEF HandlerReturns, InPageCode, Idle
  <2>2. CASE Last(calls).dangling
    <3>1. undefined' = TRUE /\ hb' = hb
      BY <1>11, <2>2 DEF HandlerReturns
    <3> QED BY <1>2, <1>3, <3>1 DEF OrderInv
  <2>3. CASE ~Last(calls).dangling
    <3>1. /\ hb' = TakePreallocated(HBExitEventAction(hb, TRUE))
          /\ preId' = NextPreallocated(HBExitEventAction(hb, TRUE))
      BY <1>11, <2>3 DEF HandlerReturns
    <3>2. Forward(hb') /\ Latest(hb', Kind(calls'), preId')
      BY <1>1, <1>4, <2>1, <3>1, LatestCommit
    <3> QED BY <1>3, <3>2 DEF OrderInv
  <2> QED BY <2>2, <2>3
<1> QED BY <1>6, <1>7, <1>8, <1>9, <1>10, <1>11 DEF ProviderAnswers, TimerCallbackReturns

\* Ticks, the end of the recording, ghosts and immediate event actions
LEMMA OrderBetween ==
    ASSUME OneLoop, OrderInv,
           \/ SharedTimerFired \/ TickEnds \/ FireTimersInNestedEventLoop
           \/ StopScheduler \/ GhostsBetweenTicks \/ ImmediateBetweenTicks
    PROVE  OrderInv'
<1>1. Alive /\ UNCHANGED <<preId, undefined>>
  BY DEF SharedTimerFired, TickEnds, FireTimersInNestedEventLoop, StopScheduler,
         GhostsBetweenTicks, ImmediateBetweenTicks, GhostNext, EnterGhostEventAction,
         ExitGhostEventAction, FrameGhostLeftOpen, EnterImmediateEventAction,
         ExitImmediateEventAction, registerVars
<1>2. /\ Modal /\ ~NestedLoops /\ TimersInv /\ RegisterInv /\ Forward(hb)
      /\ Latest(hb, Kind(calls), preId) /\ HBBounded(hb) /\ hb.nextId \in Nat \ {0}
      /\ RegFits(hb, reg, calls, preId)
  BY <1>1, OrderNow
<1>3. TimersInv'
  BY <1>2, TickStep, StopStep, BetweenStep
<1>4. CASE SharedTimerFired \/ TickEnds \/ FireTimersInNestedEventLoop
  <2>1. UNCHANGED <<hb, calls>>
    BY <1>4 DEF SharedTimerFired, TickEnds, FireTimersInNestedEventLoop, registerVars
  <2> QED BY <1>1, <1>2, <1>3, <2>1 DEF OrderInv
<1>5. CASE StopScheduler
  <2>1. hb' = ActionLogStrictMode(hb, FALSE) /\ calls' = calls
    BY <1>5 DEF StopScheduler
  <2>2. hb'.nextId = hb.nextId /\ hb'.current = hb.current /\ Forward(hb')
    BY <1>2, <2>1, StrictModeSet, ForwardStays
  <2> QED BY <1>1, <1>3, <2>1, <2>2, LatestStays
<1>6. ASSUME calls # <<>> PROVE Front(calls) = <<>>
  BY <1>2, <1>6, SingleFrame
<1>7. Kind(<<>>) = "idle" /\ Opens \cap {"idle", "ghost", "immediate"} = {}
  BY KindOf DEF Opens
<1>8. ASSUME ~Preallocate, Forward(hb'), Kind(calls') \notin Opens PROVE OrderInv'
  BY <1>3, <1>8 DEF OrderInv, Latest
<1> DEFINE a == HBAllocateEventActionId(hb)
           n == hb.nextId
<1>9. HBBounded(a) /\ Forward(a) /\ a.nextId = n + 1
  BY <1>2, Allocated, ForwardStays
<1>10. n \in 1..(a.nextId - 1)
  BY <1>2, <1>9
<1> HIDE DEF a, n
<1>11. CASE GhostsBetweenTicks
  <2> DEFINE z == Frame("ghost", GhostDescriptor, 0, -1, NoObject)
             s == ActionLogStrictMode(a, FALSE)
             m == ActionLogStrictMode(hb, TRUE)
  <2>1. z.kind = "ghost"
    BY DEF Frame
  <2>2. HBBounded(s) /\ Forward(s) /\ s.nextId = a.nextId
    BY <1>9, StrictModeSet, ForwardStays
  <2>3. HBBounded(m) /\ Forward(m) /\ m.nextId = hb.nextId
    BY <1>2, StrictModeSet, ForwardStays
  <2> HIDE DEF z, s, m
  <2>4. CASE EnterGhostEventAction
    <3>1. Ghosts /\ hb' = GhostEntered(hb) /\ calls = <<>> /\ calls' = Append(calls, z)
      BY <1>2, <2>4 DEF EnterGhostEventAction, InEventLoop, Idle, z
    <3>2. hb' = HBEnterEventAction(s, n, FALSE)
      BY <3>1 DEF GhostEntered, s, a, n
    <3>3. Forward(hb')
      BY <1>10, <2>2, <3>2, ForwardEnter
    <3>4. Kind(calls') \notin Opens
      BY <1>7, <2>1, <3>1, KindOf
    <3> QED BY <1>8, <3>1, <3>3, <3>4 DEF OneLoop
  <2>5. CASE ExitGhostEventAction
    <3>1. hb' = HBExitEventAction(m, TRUE) /\ calls # <<>> /\ calls' = Front(calls)
      BY <2>5 DEF ExitGhostEventAction, Idle, m
    <3>2. hb'.nextId = hb.nextId /\ Forward(hb')
      BY <2>3, <3>1, Left, ForwardStays
    <3> QED BY <1>1, <1>3, <1>6, <1>7, <3>1, <3>2, LatestStays
  <2>6. CASE FrameGhostLeftOpen
    <3>1. Ghosts /\ hb' = GhostEntered(hb) /\ calls = <<>> /\ calls' = calls
      BY <2>6 DEF FrameGhostLeftOpen, Idle
    <3>2. hb' = HBEnterEventAction(s, n, FALSE)
      BY <3>1 DEF GhostEntered, s, a, n
    <3>3. Forward(hb')
      BY <1>10, <2>2, <3>2, ForwardEnter
    <3> QED BY <1>7, <1>8, <3>1, <3>3 DEF OneLoop
  <2> QED BY <1>11, <2>4, <2>5, <2>6 DEF GhostsBetweenTicks, GhostNext
<1>12. CASE ImmediateBetweenTicks
  <2>1. CASE \E d \in Descriptors : EnterImmediateEventAction(d)
    <3>1. PICK d \in Descriptors : EnterImmediateEventAction(d)
      BY <2>1
    <3> DEFINE z == Frame("immediate", d, 0, -1, NoObject)
    <3>2. /\ ~Preallocate /\ calls = <<>> /\ calls' = Append(calls, z)
          /\ hb' = HBEnterEventAction(a, n, TRUE)
      BY <3>1 DEF EnterImmediateEventAction, Idle, a, n
    <3>3. z.kind = "immediate"
      BY DEF Frame
    <3> HIDE DEF z
    <3>4. Kind(calls') \notin Opens
      BY <1>7, <3>2, <3>3, KindOf
    <3>5. Forward(hb')
      BY <1>9, <1>10, <3>2, ForwardEnter
    <3> QED BY <1>8, <3>2, <3>4, <3>5
  <2>2. CASE ExitImmediateEventAction
    <3>1. hb' = HBExitEventAction(hb, TRUE) /\ calls # <<>> /\ calls' = Front(calls)
      BY <2>2 DEF ExitImmediateEventAction, InPageCode, Idle
    <3>2. hb'.nextId = hb.nextId /\ Forward(hb')
      BY <1>2, <3>1, Left, ForwardStays
    <3> QED BY <1>1, <1>3, <1>6, <1>7, <3>1, <3>2, LatestStays
  <2> QED BY <1>12, <2>1, <2>2 DEF ImmediateBetweenTicks
<1> QED BY <1>4, <1>5, <1>11, <1>12

\* Every step keeps the invariant.
LEMMA OrderKeeps ==
    ASSUME OneLoop, OrderInv, [TimersNext]_allVars
    PROVE  OrderInv'
<1>1. CASE UNCHANGED allVars
  <2>1. OrderInv' <=> OrderInv
    BY <1>1 DEF allVars, registerVars, timerVars, OrderInv, TimersInv, RegisterInv
  <2> QED BY <2>1
<1>2. CASE TimersNext
  BY <1>2, OrderTimers, OrderRegister, OrderBetween DEF TimersNext
<1> QED BY <1>1, <1>2

\* The first state has it.
LEMMA OrderStarts ==
    ASSUME TimersInit
    PROVE  OrderInv
<1>1. TimersInv /\ RegisterInit
  BY TimersStart DEF TimersInit
<1>2. /\ calls = <<>> /\ HBSound(hb)
      /\ IF Preallocate THEN preId = 2 ELSE hb.nextId = 2
  BY <1>1, RegisterStarts
<1>3. Forward(hb)
  BY <1>2 DEF HBSound, Forward
<1>4. Preallocate => hb.nextId = 3
  <2> DEFINE g == GhostEntered(HBEmpty)
  <2>1. HBBounded(g) /\ g.nextId = HBEmpty.nextId + 1 /\ HBEmpty.nextId = 1
    BY EmptySound, GhostIn DEF HBEmpty
  <2> HIDE DEF g
  <2>2. HBAllocateEventActionId(g).nextId = 3
    BY <2>1, Allocated
  <2> QED BY <1>1, <2>2 DEF RegisterInit, g
<1>5. Latest(hb, Kind(calls), preId)
  BY <1>2, <1>4, KindOf DEF Latest, Opens
<1> QED BY <1>1, <1>3, <1>5 DEF OrderInv

-----------------------------------------------------------------------------
(* Whatever the clients do, the timers that did not go astray are neither lost nor late *)

\* The event loops in which this is so: no modal ones, and no providers in the record client
PlainLoop == ~NestedLoops /\ (Preallocate \/ Providers = <<>>)

\* A handler of d is running.
Runs(c, d) == \E k \in DOMAIN c : c[k].kind = "handler" /\ c[k].descriptor = d

\* The timer x waits in the register under d.
Holder(x, d) == x.flag /\ x.desc = d /\ x.armed /\ x.alive /\ ~x.inHeap

\* The timer t has a handler in the queue under d.
HasHandler(H, d, t) == d \in DOMAIN H /\ \E i \in DOMAIN H[d] : H[d][i] = t

\* No other timer is named d or has a handler under d.
Alone(ts, H, d, t) ==
    \A u \in Timers \ {t} : (ts[u].alive => ts[u].desc # d) /\ ~HasHandler(H, d, u)

\* The name of t is its own.
NameFits(ts, H, t) ==
    ts[t].alive /\ ts[t].desc # NullTimer => Alone(ts, H, ts[t].desc, t)

\* A queue that t is in is its own, and t waits or runs.
QueueFits(ts, H, c, d, t) ==
    HasHandler(H, d, t) =>
      /\ Len(H[d]) = 1 /\ Alone(ts, H, d, t)
      /\ Runs(c, d) => ~ts[t].flag
      /\ ~Runs(c, d) => Holder(ts[t], d)

\* If t was started, it is in the heap or waits.
HeapFits(ts, H, c, t) ==
    /\ ts[t].inHeap => ts[t].armed
    /\ ts[t].armed =>
         ts[t].alive /\ (ts[t].inHeap \/ (HasHandler(H, ts[t].desc, t) /\ ~Runs(c, ts[t].desc)))

TimerFits(ts, H, c, t) ==
    NameFits(ts, H, t) /\ (\A d : QueueFits(ts, H, c, d, t)) /\ HeapFits(ts, H, c, t)

\* The handler that is called or runs is the first of its queue; only a stray timer
\* may have lost that queue meanwhile.
FrameKnown(H, S, f) ==
    f.kind \in {"called", "handler"} =>
      /\ f.index # 0
      /\ f.dangling => f.kind = "handler" /\ f.object \in S
      /\ ~f.dangling => f.descriptor \in DOMAIN H /\ f.object = H[f.descriptor][1]

Silent(ts, H, c, S) ==
    /\ \A t \in Timers : ts[t].inHeap => ts[t].alive
    /\ \A t \in Timers \ S : TimerFits(ts, H, c, t)
    /\ \A k \in DOMAIN c : FrameKnown(H, S, c[k])

SilentInv ==
    TimersInv /\ stray \subseteq Timers /\ (undefined \/ Silent(timers, reg.handlers, calls, stray))

\* The names and queues that concern t
Mine(ts, H, t, d) == (ts[t].alive /\ ts[t].desc = d /\ d # NullTimer) \/ HasHandler(H, d, t)

\* A step that leaves t alone keeps it as it is.
LEMMA Bystander ==
    ASSUME NEW ts, NEW H, NEW c, NEW t \in Timers, TimerFits(ts, H, c, t),
           NEW us, NEW G, NEW e, us[t] = ts[t],
           \A u \in Timers \ {t} : \A d : Mine(ts, H, t, d) /\ us[u].alive /\ us[u].desc = d
                                          => ts[u].alive /\ ts[u].desc = d,
           \A d : HasHandler(G, d, t) <=> HasHandler(H, d, t),
           \A d : HasHandler(H, d, t) => Len(G[d]) = Len(H[d]) /\ (Runs(e, d) <=> Runs(c, d)),
           \A u \in Timers \ {t} : \A d : Mine(ts, H, t, d) /\ HasHandler(G, d, u) => HasHandler(H, d, u)
    PROVE  TimerFits(us, G, e, t)
<1>1. ASSUME NEW d, Mine(ts, H, t, d), Alone(ts, H, d, t) PROVE Alone(us, G, d, t)
  BY <1>1 DEF Alone
<1>2. NameFits(us, G, t)
  BY <1>1 DEF TimerFits, NameFits, Mine
<1>3. ASSUME NEW d PROVE QueueFits(us, G, e, d, t)
  <2>1. QueueFits(ts, H, c, d, t)
    BY DEF TimerFits
  <2> QED BY <1>1, <2>1 DEF QueueFits, Mine
<1>4. HeapFits(us, G, e, t)
  BY DEF TimerFits, HeapFits
<1> QED BY <1>2, <1>3, <1>4 DEF TimerFits

\* The frames change, the running handlers stay.
LEMMA SilentFrames ==
    ASSUME NEW ts, NEW H, NEW c, NEW S, Silent(ts, H, c, S), NEW e,
           \A d : Runs(e, d) <=> Runs(c, d), \A k \in DOMAIN e : FrameKnown(H, S, e[k])
    PROVE  Silent(ts, H, e, S)
<1>1. ASSUME NEW t \in Timers \ S PROVE TimerFits(ts, H, e, t)
  <2>1. TimerFits(ts, H, c, t)
    BY DEF Silent
  <2> QED BY <2>1, Bystander
<1> QED BY <1>1 DEF Silent

\* A timer changes; if it does not go astray, it does not wait in the register.
LEMMA SilentTimer ==
    ASSUME NEW ts, NEW H, NEW c, NEW S, Silent(ts, H, c, S), ts \in [Timers -> TimerRecords],
           NullTimer \notin DOMAIN H, NEW t \in Timers, NEW Z, S \subseteq Z, NEW y,
           y.inHeap => y.alive, y.alive => ts[t].alive,
           \A u \in Timers \ (Z \cup {t}) :
              \/ y.desc \in {ts[t].desc, NullTimer}
              \/ (ts[u].alive => ts[u].desc # y.desc) /\ ~HasHandler(H, y.desc, u),
           t \notin Z =>
              /\ \A d : HasHandler(H, d, t) => Runs(c, d)
              /\ y.flag => ts[t].flag
              /\ y.inHeap => y.armed
              /\ y.armed => y.inHeap
              /\ y.desc \in {ts[t].desc, NullTimer} \/ Alone(ts, H, y.desc, t)
    PROVE  Silent([ts EXCEPT ![t] = y], H, c, Z)
<1> DEFINE us == [ts EXCEPT ![t] = y]
<1>1. us[t] = y /\ \A u \in Timers \ {t} : us[u] = ts[u]
  OBVIOUS
<1> HIDE DEF us
<1>2. ASSUME NEW u \in Timers \ Z, u # t PROVE TimerFits(us, H, c, u)
  <2>1. TimerFits(ts, H, c, u) /\ us[u] = ts[u]
    BY <1>1, <1>2 DEF Silent
  <2>2. ASSUME NEW w \in Timers \ {u}, NEW d, Mine(ts, H, u, d), us[w].alive, us[w].desc = d
        PROVE  ts[w].alive /\ ts[w].desc = d
    <3>1. CASE w # t
      BY <1>1, <2>2, <3>1
    <3>2. CASE w = t
      BY <1>1, <1>2, <2>2, <3>2 DEF Mine, HasHandler
    <3> QED BY <3>1, <3>2
  <2> QED BY <2>1, <2>2, Bystander
<1>3. ASSUME t \notin Z PROVE TimerFits(us, H, c, t)
  <2>1. TimerFits(ts, H, c, t)
    BY <1>3 DEF Silent
  <2>2. ASSUME NEW d, Alone(ts, H, d, t) PROVE Alone(us, H, d, t)
    BY <1>1, <2>2 DEF Alone
  <2>3. NameFits(us, H, t)
    BY <1>1, <1>3, <2>1, <2>2 DEF TimerFits, NameFits
  <2>4. ASSUME NEW d PROVE QueueFits(us, H, c, d, t)
    <3>1. QueueFits(ts, H, c, d, t)
      BY <2>1 DEF TimerFits
    <3> QED BY <1>1, <1>3, <2>2, <3>1 DEF QueueFits
  <2>5. HeapFits(us, H, c, t)
    BY <1>1, <1>3 DEF HeapFits
  <2> QED BY <2>3, <2>4, <2>5 DEF TimerFits
<1>4. \A u \in Timers : us[u].inHeap => us[u].alive
  BY <1>1 DEF Silent
<1>5. \A k \in DOMAIN c : FrameKnown(H, Z, c[k])
  BY DEF Silent, FrameKnown
<1>6. Silent(us, H, c, Z)
  BY <1>2, <1>3, <1>4, <1>5 DEF Silent
<1> QED BY <1>6 DEF us

\* A timer that went to the register is stopped: its queue is erased with it.
LEMMA SilentErase ==
    ASSUME NEW ts, NEW H, NEW c, NEW S, Silent(ts, H, c, S), ts \in [Timers -> TimerRecords],
           NEW t \in Timers, ts[t].flag, ts[t].alive,
           NEW y, y.desc = ts[t].desc, ~y.inHeap, ~y.armed,
           NEW G, DOMAIN G = DOMAIN H \ {y.desc},
           \A d \in DOMAIN G : G[d] = H[d], NullTimer \notin DOMAIN H,
           \A d \in DOMAIN H : H[d] \in Seq(Timers) /\ H[d] # <<>>,
           \A k \in DOMAIN c : c[k].kind # "called",
           NEW e, DOMAIN e = DOMAIN c, 
           \A k \in DOMAIN c :
              /\ e[k].kind = c[k].kind /\ e[k].descriptor = c[k].descriptor
              /\ e[k].index = c[k].index /\ e[k].object = c[k].object
              /\ e[k].dangling <=>
                   (c[k].dangling \/ (c[k].index # 0 /\ c[k].descriptor = y.desc))
    PROVE  Silent([ts EXCEPT ![t] = y], G, e, S)
<1> DEFINE us == [ts EXCEPT ![t] = y]
           x == y.desc
<1>1. us[t] = y /\ \A u \in Timers \ {t} : us[u] = ts[u]
  OBVIOUS
<1> HIDE DEF us
<1>2. \A d : Runs(e, d) <=> Runs(c, d)
  BY DEF Runs
<1>3. \A d, u : HasHandler(G, d, u) <=> HasHandler(H, d, u) /\ d # x
  BY DEF HasHandler
<1>4. ASSUME NEW u \in Timers \ S, HasHandler(H, x, u) PROVE u = t /\ ~Runs(c, x)
  <2>1. QueueFits(ts, H, c, x, u)
    BY <1>4 DEF Silent, TimerFits
  <2>2. u = t
    BY <1>4, <2>1 DEF QueueFits, Alone
  <2> QED BY <1>4, <2>1, <2>2 DEF QueueFits
<1>5. ASSUME NEW u \in Timers \ S, u # t PROVE TimerFits(us, G, e, u)
  <2>1. TimerFits(ts, H, c, u) /\ us[u] = ts[u]
    BY <1>1, <1>5 DEF Silent
  <2>2. \A d : HasHandler(G, d, u) <=> HasHandler(H, d, u)
    BY <1>3, <1>4, <1>5
  <2>3. \A d : HasHandler(H, d, u) => Len(G[d]) = Len(H[d])
    BY <2>2 DEF HasHandler
  <2>4. \A w \in Timers : us[w].alive => ts[w].alive /\ us[w].desc = ts[w].desc
    BY <1>1
  <2>5. \A w \in Timers \ {u} : \A d : Mine(ts, H, u, d) /\ us[w].alive /\ us[w].desc = d
                                          => ts[w].alive /\ ts[w].desc = d
    BY <2>4
  <2> QED BY <1>2, <1>3, <2>1, <2>2, <2>3, <2>5, Bystander
<1>6. ASSUME t \notin S PROVE TimerFits(us, G, e, t)
  <2>1. TimerFits(ts, H, c, t)
    BY <1>6 DEF Silent
  <2>2. ASSUME NEW d PROVE ~HasHandler(G, d, t)
    <3>1. QueueFits(ts, H, c, d, t)
      BY <2>1 DEF TimerFits
    <3> QED BY <1>3, <3>1 DEF QueueFits, Holder
  <2>3. NameFits(us, G, t)
    BY <1>1, <1>3, <2>1 DEF TimerFits, NameFits, Alone
  <2>4. HeapFits(us, G, e, t)
    BY <1>1 DEF HeapFits
  <2> QED BY <2>2, <2>3, <2>4 DEF TimerFits, QueueFits
<1>7. ASSUME NEW k \in DOMAIN e PROVE FrameKnown(G, S, e[k])
  <2>1. FrameKnown(H, S, c[k]) /\ c[k].kind # "called"
    BY DEF Silent
  <2> DEFINE f == c[k]
             d == f.descriptor
  <2>2. CASE f.kind # "handler"
    BY <2>1, <2>2 DEF FrameKnown
  <2>3. CASE f.kind = "handler" /\ f.dangling
    BY <2>1, <2>3 DEF FrameKnown
  <2>4. CASE f.kind = "handler" /\ ~f.dangling /\ d # x
    BY <2>1, <2>4 DEF FrameKnown
  <2>5. CASE f.kind = "handler" /\ ~f.dangling /\ d = x
    <3>1. x \in DOMAIN H /\ f.object = H[x][1] /\ f.index # 0
      BY <2>1, <2>5 DEF FrameKnown
    <3>2. H[x] \in Seq(Timers) /\ 1 \in DOMAIN H[x] /\ H[x][1] \in Timers
      BY <3>1, ElementOfSeq, EmptySeq, LenProperties
    <3>3. HasHandler(H, x, f.object) /\ Runs(c, x)
      BY <2>5, <3>1, <3>2 DEF HasHandler, Runs
    <3>4. f.object \in S
      BY <1>4, <3>1, <3>2, <3>3
    <3> QED BY <2>5, <3>1, <3>4 DEF FrameKnown
  <2> QED BY <2>2, <2>3, <2>4, <2>5
<1>8. \A u \in Timers : us[u].inHeap => us[u].alive
  BY <1>1 DEF Silent
<1>9. Silent(us, G, e, S)
  BY <1>5, <1>6, <1>7, <1>8 DEF Silent
<1> QED BY <1>9 DEF us

\* A due timer goes to the register.
LEMMA SilentAdd ==
    ASSUME NEW ts, NEW H, NEW S, Silent(ts, H, <<>>, S), ts \in [Timers -> TimerRecords],
           \A d \in DOMAIN H : H[d] \in Seq(Timers) /\ H[d] # <<>>,
           NEW t \in Timers, ts[t].inHeap, ts[t].desc # NullTimer,
           NEW y, y.flag, ~y.inHeap, y.armed = ts[t].armed, y.alive = ts[t].alive,
           y.desc = ts[t].desc,
           NEW G, DOMAIN G = DOMAIN H \cup {y.desc},
           \A d \in DOMAIN H \ {y.desc} : G[d] = H[d],
           \A u : HasHandler(G, y.desc, u) <=> HasHandler(H, y.desc, u) \/ u = t,
           y.desc \notin DOMAIN H => Len(G[y.desc]) = 1
    PROVE  Silent([ts EXCEPT ![t] = y], G, <<>>, S)
<1> DEFINE us == [ts EXCEPT ![t] = y]
           x == y.desc
<1>1. us[t] = y /\ \A u \in Timers \ {t} : us[u] = ts[u]
  OBVIOUS
<1> HIDE DEF us
<1>2. (\A d : ~Runs(<<>>, d)) /\ ts[t].alive
  BY DEF Runs, Silent
<1>3. \A d, u : d # x => (HasHandler(G, d, u) <=> HasHandler(H, d, u))
  BY DEF HasHandler
<1>4. ASSUME NEW u \in Timers \ S, u # t PROVE TimerFits(us, G, <<>>, u)
  <2>1. TimerFits(ts, H, <<>>, u) /\ us[u] = ts[u]
    BY <1>1, <1>4 DEF Silent
  <2>2. ~Mine(ts, H, u, x)
    BY <1>2, <1>4, <2>1 DEF TimerFits, NameFits, QueueFits, Alone, Mine
  <2>3. \A d : HasHandler(G, d, u) <=> HasHandler(H, d, u)
    BY <1>3, <1>4
  <2>4. \A d : HasHandler(H, d, u) => Len(G[d]) = Len(H[d])
    BY <2>2 DEF Mine, HasHandler
  <2>5. \A w \in Timers : us[w].alive = ts[w].alive /\ us[w].desc = ts[w].desc
    BY <1>1
  <2> QED BY <1>3, <2>1, <2>2, <2>3, <2>4, <2>5, Bystander
<1>5. ASSUME t \notin S PROVE TimerFits(us, G, <<>>, t)
  <2>1. TimerFits(ts, H, <<>>, t)
    BY <1>5 DEF Silent
  <2>2. ASSUME NEW d PROVE ~HasHandler(H, d, t)
    <3>1. QueueFits(ts, H, <<>>, d, t)
      BY <2>1 DEF TimerFits
    <3> QED BY <1>2, <3>1 DEF QueueFits, Holder
  <2>3. Alone(ts, H, x, t)
    BY <1>2, <2>1 DEF TimerFits, NameFits
  <2>4. x \notin DOMAIN H
    <3> SUFFICES ASSUME x \in DOMAIN H PROVE FALSE
      OBVIOUS
    <3>1. H[x] \in Seq(Timers) /\ 1 \in DOMAIN H[x] /\ H[x][1] \in Timers
      BY ElementOfSeq, EmptySeq, LenProperties
    <3>2. HasHandler(H, x, H[x][1])
      BY <3>1 DEF HasHandler
    <3> QED BY <2>2, <2>3, <3>1, <3>2 DEF Alone
  <2>5. Alone(us, G, x, t)
    <3> SUFFICES ASSUME NEW u \in Timers \ {t}
                 PROVE  (us[u].alive => us[u].desc # x) /\ ~HasHandler(G, x, u)
      BY DEF Alone
    <3> QED BY <1>1, <2>3 DEF Alone
  <2>6. ts[t].armed /\ Holder(us[t], x)
    BY <1>1, <1>2, <2>1 DEF TimerFits, HeapFits, Holder
  <2>7. ASSUME NEW d PROVE QueueFits(us, G, <<>>, d, t)
    <3>1. CASE d = x
      BY <1>2, <2>4, <2>5, <2>6, <3>1 DEF QueueFits
    <3>2. CASE d # x
      BY <1>3, <2>2, <3>2 DEF QueueFits
    <3> QED BY <3>1, <3>2
  <2>8. NameFits(us, G, t)
    BY <1>1, <2>5 DEF NameFits
  <2>9. HeapFits(us, G, <<>>, t)
    BY <1>1, <1>2, <2>6 DEF HeapFits, Holder
  <2> QED BY <2>7, <2>8, <2>9 DEF TimerFits
<1>6. \A u \in Timers : us[u].inHeap => us[u].alive
  BY <1>1 DEF Silent
<1>7. \A k \in DOMAIN <<>> : FrameKnown(G, S, <<>>[k])
  OBVIOUS
<1>8. Silent(us, G, <<>>, S)
  BY <1>4, <1>5, <1>6, <1>7 DEF Silent
<1> QED BY <1>8 DEF us

\* The register calls the timer: it leaves the queue when the callback returns.
LEMMA SilentCall ==
    ASSUME NEW ts, NEW H, NEW c, NEW S, Silent(ts, H, c, S), ts \in [Timers -> TimerRecords],
           NEW e, DOMAIN c = {1}, DOMAIN e = {1}, c[1].kind = "called",
           e[1].kind = "handler", e[1].descriptor = c[1].descriptor,
           e[1].dangling = c[1].dangling, e[1].object = c[1].object, e[1].index = c[1].index,
           c[1].object \in Timers, 1 \in DOMAIN H[c[1].descriptor],
           NEW y, ~y.flag, y.inHeap => y.armed, y.armed => y.inHeap,
           ts[c[1].object].alive, y.alive, y.desc = ts[c[1].object].desc
    PROVE  Silent([ts EXCEPT ![c[1].object] = y], H, e, S)
<1> DEFINE t == c[1].object
           x == c[1].descriptor
           us == [ts EXCEPT ![t] = y]
<1>1. /\ x \in DOMAIN H /\ H[x][1] = t /\ ~c[1].dangling /\ c[1].index # 0
  BY DEF Silent, FrameKnown
<1>2. (\A d : ~Runs(c, d)) /\ (\A d : Runs(e, d) <=> d = x)
  BY DEF Runs
<1>3. us[t] = y /\ \A u \in Timers \ {t} : us[u] = ts[u]
  OBVIOUS
<1>4. HasHandler(H, x, t)
  BY <1>1 DEF HasHandler
<1>5. FrameKnown(H, S, e[1])
  BY <1>1 DEF FrameKnown
<1>6. t \in Timers /\ ts[t].alive /\ y.desc = ts[t].desc
  OBVIOUS
<1> HIDE DEF us, t, x
<1>7. \A u \in Timers : (us[u].alive <=> ts[u].alive) /\ us[u].desc = ts[u].desc
  BY <1>3, <1>6
<1>8. ASSUME NEW u \in Timers \ S, u # t PROVE TimerFits(us, H, e, u)
  <2>1. TimerFits(ts, H, c, u) /\ us[u] = ts[u]
    BY <1>3, <1>8 DEF Silent
  <2>2. ~HasHandler(H, x, u)
    BY <1>4, <1>6, <1>8, <2>1 DEF TimerFits, QueueFits, Alone
  <2> QED BY <1>2, <1>7, <2>1, <2>2, Bystander
<1>9. ASSUME t \notin S PROVE TimerFits(us, H, e, t)
  <2>1. TimerFits(ts, H, c, t)
    BY <1>6, <1>9 DEF Silent
  <2>2. \A d : Alone(ts, H, d, t) => Alone(us, H, d, t)
    BY <1>7 DEF Alone
  <2>3. ASSUME NEW d PROVE QueueFits(us, H, e, d, t)
    <3>1. QueueFits(ts, H, c, d, t) /\ QueueFits(ts, H, c, x, t)
      BY <2>1 DEF TimerFits
    <3>2. HasHandler(H, d, t) => d = x
      BY <1>2, <1>4, <3>1 DEF QueueFits, Holder
    <3> QED BY <1>2, <1>3, <2>2, <3>1, <3>2 DEF QueueFits
  <2>4. NameFits(us, H, t)
    BY <1>3, <1>6, <2>1, <2>2 DEF TimerFits, NameFits
  <2>5. HeapFits(us, H, e, t)
    BY <1>3 DEF HeapFits
  <2> QED BY <2>3, <2>4, <2>5 DEF TimerFits
<1>10. \A u \in Timers : us[u].inHeap => us[u].alive
  BY <1>3 DEF Silent
<1>11. Silent(us, H, e, S)
  BY <1>5, <1>8, <1>9, <1>10 DEF Silent
<1> QED BY <1>11 DEF us, t

\* A handler returns and leaves its queue.
LEMMA SilentReturn ==
    ASSUME NEW ts, NEW H, NEW c, NEW S, Silent(ts, H, c, S), DOMAIN c = {1},
           c[1].kind = "handler", NEW G, DOMAIN G \subseteq DOMAIN H,
           \A d \in DOMAIN H \ {c[1].descriptor} : d \in DOMAIN G /\ G[d] = H[d],
           c[1].descriptor \in DOMAIN G => Len(H[c[1].descriptor]) # 1,
           \A d, u : HasHandler(G, d, u) => HasHandler(H, d, u)
    PROVE  Silent(ts, G, <<>>, S)
<1> DEFINE x == c[1].descriptor
<1>1. (\A d : ~Runs(<<>>, d)) /\ (\A d : Runs(c, d) <=> d = x)
  BY DEF Runs
<1>2. ASSUME NEW u \in Timers \ S PROVE TimerFits(ts, G, <<>>, u)
  <2>1. TimerFits(ts, H, c, u)
    BY DEF Silent
  <2>2. \A d : Alone(ts, H, d, u) => Alone(ts, G, d, u)
    BY DEF Alone
  <2>3. ASSUME NEW d PROVE QueueFits(ts, G, <<>>, d, u)
    <3>1. QueueFits(ts, H, c, d, u)
      BY <2>1 DEF TimerFits
    <3>2. CASE d = x
      BY <3>1, <3>2 DEF QueueFits, HasHandler
    <3>3. CASE d # x
      <4>1. HasHandler(G, d, u) => HasHandler(H, d, u) /\ G[d] = H[d] /\ ~Runs(c, d)
        BY <1>1, <3>3 DEF HasHandler
      <4> QED BY <1>1, <2>2, <3>1, <4>1 DEF QueueFits
    <3> QED BY <3>2, <3>3
  <2>4. NameFits(ts, G, u)
    BY <2>1, <2>2 DEF TimerFits, NameFits
  <2>5. HeapFits(ts, G, <<>>, u)
    BY <1>1, <2>1 DEF TimerFits, HeapFits, HasHandler
  <2> QED BY <2>3, <2>4, <2>5 DEF TimerFits
<1>3. \A k \in DOMAIN <<>> : FrameKnown(G, S, <<>>[k])
  OBVIOUS
<1> QED BY <1>2, <1>3 DEF Silent

\* The current state
LEMMA SilentNow ==
    ASSUME PlainLoop, SilentInv, Alive
    PROVE  /\ Modal /\ ~NestedLoops /\ TimersInv /\ RegisterInv /\ Registry(reg)
           /\ Silent(timers, reg.handlers, calls, stray) /\ timers \in [Timers -> TimerRecords]
           /\ calls \in Seq(Frames) /\ NullTimer \notin DOMAIN reg.handlers
           /\ \A d \in DOMAIN reg.handlers :
                 reg.handlers[d] \in Seq(Timers) /\ reg.handlers[d] # <<>>
           /\ RegFits(hb, reg, calls, preId) /\ HBBounded(hb) /\ TimersFit(timers, hb)
<1>1. TimersInv /\ Silent(timers, reg.handlers, calls, stray)
  BY DEF SilentInv, Alive
<1>2. /\ RegisterInv /\ RegFits(hb, reg, calls, preId) /\ HBBounded(hb)
      /\ TimersFit(timers, hb) /\ calls \in Seq(Frames)
  BY <1>1, TimersNow
<1>3. /\ Registry(reg) /\ DOMAIN reg.handlers \subseteq Descriptors
      /\ \A d \in DOMAIN reg.handlers :
            reg.handlers[d] \in Seq(Timers) /\ reg.handlers[d] # <<>>
  BY <1>2 DEF RegFits, Registry, Timers
<1>4. NullTimer \notin DOMAIN reg.handlers
  BY <1>3, TimersAssumption
<1> QED BY <1>1, <1>2, <1>3, <1>4 DEF PlainLoop, Modal, TimersFit

\* A timer has a handler in a queue, by its domain or by its length.
LEMMA HasHandlerIs ==
    ASSUME Registry(reg), NEW d, NEW t
    PROVE  HasHandler(reg.handlers, d, t) <=>
             /\ d \in DOMAIN reg.handlers
             /\ \E i \in 1..Len(reg.handlers[d]) : reg.handlers[d][i] = t
<1>1. d \in DOMAIN reg.handlers => DOMAIN reg.handlers[d] = 1..Len(reg.handlers[d])
  BY LenProperties DEF Registry
<1> QED BY <1>1 DEF HasHandler

\* A timer that has a handler, and none that runs, is waiting in the register.
LEMMA QueuedIs ==
    ASSUME Registry(reg), calls \in Seq(Frames), NEW t \in Timers
    PROVE  /\ \A d : HasHandler(reg.handlers, d, t) /\ ~Runs(calls, d) => Queued(t)
           /\ Queued(t) => \E d \in DOMAIN reg.handlers :
                 HasHandler(reg.handlers, d, t) /\ (Len(reg.handlers[d]) = 1 => ~Runs(calls, d))
<1>1. DOMAIN calls = 1..Len(calls)
  BY LenProperties
<1>2. \A d : Runs(calls, d) <=>
               \E k \in 1..Len(calls) : calls[k].kind = "handler" /\ calls[k].descriptor = d
  BY <1>1 DEF Runs
<1>3. \A i : i \in 1..1 <=> i = 1
  OBVIOUS
<1>4. ASSUME NEW d, HasHandler(reg.handlers, d, t), ~Runs(calls, d) PROVE Queued(t)
  <2>1. /\ d \in DOMAIN reg.handlers
        /\ \E i \in 1..Len(reg.handlers[d]) : reg.handlers[d][i] = t
    BY <1>4, HasHandlerIs
  <2> QED BY <1>2, <1>4, <2>1 DEF Queued
<1>5. ASSUME Queued(t)
      PROVE  \E d \in DOMAIN reg.handlers :
                 HasHandler(reg.handlers, d, t) /\ (Len(reg.handlers[d]) = 1 => ~Runs(calls, d))
  <2>1. PICK d \in DOMAIN reg.handlers : \E i \in 1..Len(reg.handlers[d]) :
          /\ reg.handlers[d][i] = t
          /\ ~\E k \in 1..Len(calls) :
                i = 1 /\ calls[k].kind = "handler" /\ calls[k].descriptor = d
    BY <1>5 DEF Queued
  <2>2. HasHandler(reg.handlers, d, t)
    BY <2>1, HasHandlerIs
  <2> QED BY <1>2, <1>3, <2>1, <2>2
<1> QED BY <1>4, <1>5

\* A dispatch starts or ends: the table stays.
LEMMA HandlersStay ==
    ASSUME NEW r, Registry(r), NEW id, NEW o, NEW d, NEW b
    PROVE  DispatchStart(r, id, o, d).handlers = r.handlers /\
           DispatchEnd(r, b, o).handlers = r.handlers
BY DEF Registry, DispatchStart, DispatchEnd

\* An attempt from the idle state
LEMMA SilentAttempt ==
    ASSUME NEW ts, NEW r, Registry(r), NEW S, Silent(ts, r.handlers, <<>>, S),
           NEW d, NEW o, NEW i \in Nat \ {0}, NEW h, Attempt(d, o, i, h, r, <<>>)
    PROVE  Silent(ts, reg'.handlers, calls', S)
<1>1. CASE reg' = r /\ calls' = <<>>
  BY <1>1
<1>2. CASE /\ i <= Len(Providers) \/ d \in DOMAIN r.handlers
           /\ reg' = DispatchStart(r, DispatchId(h), o, d)
           /\ calls' = Append(<<>>, IF i <= Len(Providers)
                                    THEN Frame("provider", d, i, o, NoObject)
                                    ELSE Frame("called", d, i, o, r.handlers[d][1]))
  <2> DEFINE f == IF i <= Len(Providers) THEN Frame("provider", d, i, o, NoObject)
                  ELSE Frame("called", d, i, o, r.handlers[d][1])
  <2>1. reg'.handlers = r.handlers
    BY <1>2, HandlersStay
  <2>2. /\ f.kind \in {"provider", "called"} /\ f.descriptor = d /\ ~f.dangling /\ f.index = i
        /\ f.kind = "called" => d \in DOMAIN r.handlers /\ f.object = r.handlers[d][1]
    BY <1>2 DEF Frame
  <2> HIDE DEF f
  <2>3. calls' = Append(<<>>, f)
    BY <1>2 DEF f
  <2>4. DOMAIN calls' = {1} /\ calls'[1] = f
    BY <2>3
  <2>5. \A k : Runs(calls', k) <=> Runs(<<>>, k)
    BY <2>2, <2>4 DEF Runs
  <2>6. \A k \in DOMAIN calls' : FrameKnown(r.handlers, S, calls'[k])
    BY <2>2, <2>4 DEF FrameKnown
  <2> QED BY <2>1, <2>5, <2>6, SilentFrames
<1> QED BY <1>1, <1>2 DEF Attempt

\* The first provider has a place in the list, or the one behind it.
LEMMA FirstProviderIs ==
    ASSUME NEW d
    PROVE  FirstProvider(d) \in Nat \ {0}
<1>1. FirstProvider(d) \in 1..(Len(Providers) + 1) /\ Len(Providers) \in Nat
  BY FirstProviderInRange
<1> QED BY <1>1

\* start and setEventActionDescriptor
LEMMA SilentClient ==
    ASSUME PlainLoop, SilentInv, NEW t \in Timers,
           \/ \E repeat \in BOOLEAN : StartTimer(t, repeat)
           \/ \E d \in Descriptors \cup {NullTimer} : SetEventActionDescriptor(t, d)
    PROVE  SilentInv'
<1> DEFINE H == reg.handlers
<1>1. Alive /\ timers[t].alive /\ UNCHANGED registerVars
  BY DEF StartTimer, SetEventActionDescriptor
<1>2. /\ TimersInv /\ Registry(reg) /\ Silent(timers, H, calls, stray)
      /\ timers \in [Timers -> TimerRecords] /\ NullTimer \notin DOMAIN H
      /\ HBBounded(hb) /\ calls \in Seq(Frames)
  BY <1>1, SilentNow
<1>3. TimersInv' /\ stray \subseteq Timers
  BY <1>1, <1>2, ClientStep DEF SilentInv
<1>4. ~Queued(t) => \A d : HasHandler(H, d, t) => Runs(calls, d)
  BY <1>2, QueuedIs
<1>5. ASSUME NEW y, timers' = [timers EXCEPT ![t] = y], stray' \subseteq Timers,
             Silent(timers', H, calls, stray')
      PROVE  SilentInv'
  BY <1>1, <1>3, <1>5 DEF SilentInv, registerVars
<1>6. CASE \E repeat \in BOOLEAN : StartTimer(t, repeat)
  <2>1. PICK repeat \in BOOLEAN : StartTimer(t, repeat)
    BY <1>6
  <2> DEFINE y == SetNextFireTime([timers[t] EXCEPT !.repeat = repeat, !.armed = TRUE], hb)
  <2>2. /\ timers' = [timers EXCEPT ![t] = y]
        /\ stray' = IF Queued(t) THEN stray \cup {t} ELSE stray
    BY <2>1 DEF StartTimer
  <2>3. /\ y.inHeap /\ y.armed /\ y.alive = timers[t].alive /\ y.flag = timers[t].flag
        /\ y.desc = timers[t].desc
    <3> DEFINE x == timers[t]
               z == SetNextFireTime([x EXCEPT !.repeat = repeat, !.armed = TRUE], hb)
    <3>1. x \in TimerRecords /\ HBBounded(hb)
      BY <1>2
    <3> HIDE DEF x
    <3>2. /\ z.inHeap /\ z.armed /\ z.alive = x.alive /\ z.flag = x.flag
          /\ z.desc = x.desc
      BY <3>1, TimerStarted
    <3> QED BY <3>2 DEF x
  <2> HIDE DEF y, H
  <2>4. stray \subseteq stray' /\ stray' \subseteq Timers /\ (t \notin stray' => ~Queued(t))
    BY <1>3, <2>2
  <2>5. Silent([timers EXCEPT ![t] = y], H, calls, stray')
    BY <1>1, <1>2, <1>4, <2>3, <2>4, SilentTimer
  <2> QED BY <1>5, <2>2, <2>4, <2>5
<1>7. CASE \E d \in Descriptors \cup {NullTimer} : SetEventActionDescriptor(t, d)
  <2>1. PICK d \in Descriptors \cup {NullTimer} : SetEventActionDescriptor(t, d)
    BY <1>7
  <2> DEFINE y == [timers[t] EXCEPT !.desc = d]
  <2>2. /\ timers' = [timers EXCEPT ![t] = y]
        /\ stray' = IF d = timers[t].desc THEN stray ELSE stray \cup Entangled(t, d)
    BY <2>1 DEF SetEventActionDescriptor
  <2>3. timers[t] \in TimerRecords
    BY <1>2
  <2>4. CASE d = timers[t].desc
    <3>1. y = timers[t]
      BY <2>3, <2>4 DEF TimerRecords
    <3>2. timers' = timers /\ stray' = stray
      BY <1>2, <2>2, <2>4, <3>1
    <3> QED BY <1>2, <1>3, <1>5, <2>2, <3>2
  <2>5. CASE d # timers[t].desc
    <3>1. /\ y.desc = d /\ y.flag = timers[t].flag /\ y.inHeap = timers[t].inHeap
          /\ y.armed = timers[t].armed /\ y.alive = timers[t].alive
      BY <2>3 DEF TimerRecords
    <3> HIDE DEF y
    <3>2. stray' = stray \cup Entangled(t, d)
      BY <2>2, <2>5
    <3>3. /\ Namesakes(t, d) \subseteq Timers /\ Entangled(t, d) \subseteq Timers
          /\ t \notin Entangled(t, d) => ~Queued(t)
      BY DEF Namesakes, Entangled
    <3>4. \A u \in Timers \ {t} : u \notin Namesakes(t, d) <=>
              (timers[u].alive => timers[u].desc # d) /\ ~HasHandler(H, d, u)
      BY <1>2, HasHandlerIs DEF Namesakes
    <3>5. d # NullTimer =>
              /\ Namesakes(t, d) \subseteq Entangled(t, d)
              /\ t \notin Entangled(t, d) => Namesakes(t, d) = {}
      BY DEF Entangled
    <3>6. \A u \in Timers \ (stray' \cup {t}) :
              \/ y.desc \in {timers[t].desc, NullTimer}
              \/ (timers[u].alive => timers[u].desc # y.desc) /\ ~HasHandler(H, y.desc, u)
      BY <3>1, <3>2, <3>4, <3>5
    <3>7. t \notin stray' =>
              y.desc \in {timers[t].desc, NullTimer} \/ Alone(timers, H, y.desc, t)
      BY <3>1, <3>2, <3>4, <3>5 DEF Alone
    <3> HIDE DEF H
    <3>8. t \notin stray' =>
              /\ \A k : HasHandler(H, k, t) => Runs(calls, k)
              /\ (y.inHeap => y.armed) /\ (y.armed => y.inHeap)
      <4> SUFFICES ASSUME t \notin stray'
                   PROVE  /\ \A k : HasHandler(H, k, t) => Runs(calls, k)
                          /\ (y.inHeap => y.armed) /\ (y.armed => y.inHeap)
        OBVIOUS
      <4>1. \A k : HasHandler(H, k, t) => Runs(calls, k)
        BY <1>4, <3>2, <3>3
      <4>2. HeapFits(timers, H, calls, t)
        BY <1>2, <3>2 DEF Silent, TimerFits
      <4> QED BY <3>1, <4>1, <4>2 DEF HeapFits
    <3>9. y.inHeap => y.alive
      BY <1>1, <3>1
    <3>10. Silent([timers EXCEPT ![t] = y], H, calls, stray')
      BY <1>1, <1>2, <3>1, <3>2, <3>6, <3>7, <3>8, <3>9, SilentTimer
    <3> QED BY <1>3, <1>5, <2>2, <3>2, <3>3, <3>10
  <2> QED BY <2>4, <2>5
<1> QED BY <1>6, <1>7

\* stop
LEMMA SilentStop ==
    ASSUME PlainLoop, SilentInv, NEW t \in Timers, NEW destroy \in BOOLEAN,
           StopTimer(t, destroy)
    PROVE  SilentInv'
<1> DEFINE y == ClearNextFireTime([timers[t] EXCEPT !.repeat = FALSE, !.armed = FALSE,
                                                    !.alive = ~destroy])
           H == reg.handlers
<1>1. /\ Alive /\ InClientCode /\ Deregister(t) /\ timers' = [timers EXCEPT ![t] = y]
      /\ undefined' = undefined /\ timers[t].alive /\ stray' = stray
  BY DEF StopTimer
<1>2. /\ TimersInv /\ Registry(reg) /\ Silent(timers, H, calls, stray) /\ ~NestedLoops
      /\ timers \in [Timers -> TimerRecords] /\ NullTimer \notin DOMAIN H
      /\ \A d \in DOMAIN H : H[d] \in Seq(Timers) /\ H[d] # <<>>
      /\ calls \in Seq(Frames) /\ RegFits(hb, reg, calls, preId)
  BY <1>1, SilentNow
<1>3. TimersInv' /\ stray' \subseteq Timers
  BY <1>1, <1>2, ClientStep DEF SilentInv
<1>4. ~y.inHeap /\ ~y.armed /\ y.flag = timers[t].flag /\ y.desc = timers[t].desc
  BY <1>2, TimerStopped
<1> HIDE DEF y
<1>5. CASE timers[t].flag
  <2> DEFINE x == timers[t].desc
             e == Dangle(calls, x)
  <2>1. reg' = EraseKey(reg, x) /\ calls' = e
    BY <1>1, <1>5 DEF Deregister
  <2>2. /\ DOMAIN reg'.handlers = DOMAIN H \ {x}
        /\ \A d \in DOMAIN H \ {x} : reg'.handlers[d] = H[d]
    BY <1>2, <2>1, KeyErased
  <2>3. \A k \in DOMAIN calls : calls[k].kind # "called"
    <3>1. CASE calls = <<>>
      BY <3>1
    <3>2. CASE calls # <<>>
      <4>1. Last(calls).kind # "called"
        BY <1>1, <3>2 DEF InClientCode, Idle
      <4> QED BY <1>2, <3>2, <4>1, SingleFrame
    <3> QED BY <3>1, <3>2
  <2>4. DOMAIN e = DOMAIN calls
    BY DEF Dangle
  <2>5. ASSUME NEW k \in DOMAIN calls
        PROVE  /\ e[k].kind = calls[k].kind /\ e[k].descriptor = calls[k].descriptor
               /\ e[k].index = calls[k].index /\ e[k].object = calls[k].object
               /\ e[k].dangling <=>
                    (calls[k].dangling \/ (calls[k].index # 0 /\ calls[k].descriptor = y.desc))
    <3> DEFINE f == calls[k]
               b == f.dangling \/ (f.index # 0 /\ f.descriptor = x)
    <3>1. e[k] = [f EXCEPT !.dangling = b]
      BY DEF Dangle
    <3>2. f \in Frames
      <4>1. DOMAIN calls = 1..Len(calls)
        BY <1>2, LenProperties
      <4> QED BY <1>2, <4>1, ElementOfSeq
    <3> HIDE DEF e, f
    <3>3. /\ e[k].kind = f.kind /\ e[k].descriptor = f.descriptor /\ e[k].index = f.index
          /\ e[k].object = f.object /\ e[k].dangling = b
      BY <3>1, <3>2 DEF Frames
    <3> QED BY <1>4, <3>3 DEF f
  <2> HIDE DEF e
  <2> DEFINE G == reg'.handlers
  <2>6. DOMAIN G = DOMAIN H \ {y.desc} /\ \A d \in DOMAIN G : G[d] = H[d]
    BY <1>4, <2>2
  <2> HIDE DEF G, H
  <2>7. Silent([timers EXCEPT ![t] = y], G, e, stray)
    BY <1>1, <1>2, <1>4, <1>5, <2>3, <2>4, <2>5, <2>6, SilentErase
  <2> QED BY <1>1, <1>3, <2>1, <2>7 DEF SilentInv, G
<1>6. CASE ~timers[t].flag
  <2>1. UNCHANGED <<reg, calls>>
    BY <1>1, <1>6 DEF Deregister
  <2>2. t \notin stray => \A d : HasHandler(H, d, t) => Runs(calls, d)
    BY <1>2, <1>6 DEF Silent, TimerFits, QueueFits, Holder
  <2> HIDE DEF H
  <2>3. Silent([timers EXCEPT ![t] = y], H, calls, stray)
    BY <1>1, <1>2, <1>4, <2>2, SilentTimer
  <2> QED BY <1>1, <1>3, <2>1, <2>3 DEF SilentInv, H
<1> QED BY <1>5, <1>6

\* A frame that is no handler is pushed or popped.
LEMMA SilentPlain ==
    ASSUME NEW ts, NEW H, NEW S
    PROVE  /\ \A c : Silent(ts, H, c, S) /\ DOMAIN c = {1} /\ c[1].kind # "handler"
                     => Silent(ts, H, <<>>, S)
           /\ \A f : Silent(ts, H, <<>>, S) /\ f.kind \notin {"called", "handler"}
                     => Silent(ts, H, Append(<<>>, f), S)
<1>1. (\A d : ~Runs(<<>>, d)) /\ (\A k \in DOMAIN <<>> : FrameKnown(H, S, <<>>[k]))
  BY DEF Runs
<1>2. ASSUME NEW c, Silent(ts, H, c, S), DOMAIN c = {1}, c[1].kind # "handler"
      PROVE  Silent(ts, H, <<>>, S)
  <2>1. \A d : ~Runs(c, d)
    BY <1>2 DEF Runs
  <2>2. \A d : Runs(<<>>, d) <=> Runs(c, d)
    BY <1>1, <2>1
  <2> QED BY <1>1, <1>2, <2>2, SilentFrames
<1>3. ASSUME NEW f, Silent(ts, H, <<>>, S), f.kind \notin {"called", "handler"}
      PROVE  Silent(ts, H, Append(<<>>, f), S)
  <2> DEFINE e == Append(<<>>, f)
  <2>1. DOMAIN e = {1} /\ e[1] = f
    OBVIOUS
  <2> HIDE DEF e
  <2>2. \A d : Runs(e, d) <=> Runs(<<>>, d)
    BY <1>1, <1>3, <2>1 DEF Runs
  <2>3. \A k \in DOMAIN e : FrameKnown(H, S, e[k])
    BY <1>3, <2>1 DEF FrameKnown
  <2>4. Silent(ts, H, e, S)
    BY <1>3, <2>2, <2>3, SilentFrames
  <2> QED BY <2>4 DEF e
<1> QED BY <1>2, <1>3

\* A due timer without a descriptor
LEMMA SilentUncontrolled ==
    ASSUME PlainLoop, SilentInv, NEW t \in Timers, FireUncontrolled(t)
    PROVE  SilentInv'
<1> DEFINE x == timers[t]
           y == Fired(x, hb)
           f == Frame("plain", GhostDescriptor, 0, -1, t)
           H == reg.handlers
<1>1. /\ Alive /\ AtTick /\ x.inHeap /\ timers' = [timers EXCEPT ![t] = y]
      /\ calls' = Append(calls, f) /\ reg' = reg /\ undefined' = undefined /\ stray' = stray
  BY DEF FireUncontrolled
<1>2. /\ TimersInv /\ Silent(timers, H, calls, stray) /\ ~NestedLoops
      /\ timers \in [Timers -> TimerRecords] /\ NullTimer \notin DOMAIN H
      /\ HBBounded(hb) /\ TimersFit(timers, hb)
  BY <1>1, SilentNow
<1>3. TimersInv' /\ calls = <<>> /\ stray' \subseteq Timers
  BY <1>1, <1>2, UncontrolledStep, TickLevel DEF SilentInv
<1>4. x \in TimerRecords /\ x.starter < hb.nextId /\ HBBounded(hb)
  BY <1>2 DEF TimersFit
<1> HIDE DEF x
<1>5. /\ ~y.flag /\ y.armed = x.repeat /\ y.inHeap = x.repeat /\ y.alive = x.alive
      /\ y.desc = x.desc
  BY <1>4, TimerFired
<1> HIDE DEF y, H
<1>6. x.alive
  BY <1>1, <1>2 DEF Silent, x
<1>7. t \notin stray => \A d : HasHandler(H, d, t) => Runs(calls, d)
  BY <1>1, <1>2 DEF Silent, TimerFits, QueueFits, Holder, x
<1>8. Silent([timers EXCEPT ![t] = y], H, calls, stray)
  BY <1>1, <1>2, <1>5, <1>6, <1>7, SilentTimer DEF x
<1>9. f.kind = "plain" /\ calls' = Append(<<>>, f)
  BY <1>1, <1>3 DEF Frame
<1> HIDE DEF f
<1>10. Silent(timers', H, calls', stray)
  BY <1>1, <1>3, <1>8, <1>9, SilentPlain
<1> QED BY <1>1, <1>3, <1>10 DEF SilentInv, H

\* A due timer with a descriptor
LEMMA SilentControlled ==
    ASSUME PlainLoop, SilentInv, NEW t \in Timers, FireControlled(t)
    PROVE  SilentInv'
<1> DEFINE x == timers[t]
           d == x.desc
           y == [ClearNextFireTime(x) EXCEPT !.flag = TRUE]
           r == AddHandler(reg, d, t)
           H == reg.handlers
           q == IF d \in DOMAIN H THEN H[d] ELSE <<>>
           us == [timers EXCEPT ![t] = y]
<1>1. /\ Alive /\ AtTick /\ x.inHeap /\ d # NullTimer /\ timers' = us
      /\ IF Preallocate \/ stopped
         THEN reg' = r /\ UNCHANGED <<hb, calls>>
         ELSE Attempt(d, -1, FirstProvider(d), hb, r, calls)
      /\ undefined' = undefined /\ stray' = stray
  BY DEF FireControlled
<1>2. /\ TimersInv /\ Silent(timers, H, calls, stray) /\ ~NestedLoops /\ Modal
      /\ Registry(reg) /\ timers \in [Timers -> TimerRecords]
      /\ \A k \in DOMAIN H : H[k] \in Seq(Timers) /\ H[k] # <<>>
  BY <1>1, SilentNow
<1>3. TimersInv' /\ calls = <<>> /\ stray' \subseteq Timers
  BY <1>1, <1>2, ControlledStep, TickLevel DEF SilentInv
<1>4. x \in TimerRecords /\ d \in Descriptors /\ t \in Objects
  BY <1>1, <1>2 DEF TimerRecords, Timers
<1>5. /\ ~y.inHeap /\ y.flag /\ y.armed = x.armed /\ y.alive = x.alive /\ y.desc = d
  BY <1>4, TimerRegistered
<1> HIDE DEF y
<1>6. Silent(timers, H, <<>>, stray)
  BY <1>2, <1>3
<1>7. /\ Registry(r) /\ DOMAIN r.handlers = DOMAIN H \cup {d}
      /\ q \in Seq(Objects) /\ r.handlers[d] = Append(q, t)
      /\ \A k \in DOMAIN H \ {d} : r.handlers[k] = H[k]
  <2> HIDE DEF d, x
  <2> QED BY <1>2, <1>4, HandlerAdded
<1>8. /\ \A u : (\E i \in DOMAIN Append(q, t) : Append(q, t)[i] = u) <=>
               (\E i \in DOMAIN q : q[i] = u) \/ u = t
      /\ q = <<>> => Len(Append(q, t)) = 1
  <2> HIDE DEF q
  <2>1. /\ Len(q) \in Nat /\ DOMAIN q = 1..Len(q) /\ DOMAIN Append(q, t) = 1..(Len(q) + 1)
        /\ \A i \in 1..Len(q) : Append(q, t)[i] = q[i]
        /\ Append(q, t)[Len(q) + 1] = t
        /\ Len(Append(q, t)) = Len(q) + 1
    BY <1>4, <1>7, LenProperties, AppendProperties
  <2>2. q = <<>> => Len(q) = 0
    OBVIOUS
  <2>3. \A i : i \in 1..(Len(q) + 1) <=> i \in 1..Len(q) \/ i = Len(q) + 1
    BY <2>1
  <2> QED BY <2>1, <2>2, <2>3
<1>9. \A u : HasHandler(r.handlers, d, u) <=> HasHandler(H, d, u) \/ u = t
  <2> HIDE DEF r, d, H
  <2>1. \A u : HasHandler(r.handlers, d, u) <=> (\E i \in DOMAIN q : q[i] = u) \/ u = t
    BY <1>7, <1>8 DEF HasHandler
  <2>2. \A u : HasHandler(H, d, u) <=> \E i \in DOMAIN q : q[i] = u
    BY DEF HasHandler, q
  <2> QED BY <2>1, <2>2
<1>10. d \notin DOMAIN H => Len(r.handlers[d]) = 1
  BY <1>7, <1>8
<1>11. Silent(us, r.handlers, <<>>, stray)
  <2>1. /\ timers[t].inHeap /\ timers[t].desc # NullTimer /\ y.armed = timers[t].armed
        /\ y.alive = timers[t].alive /\ y.desc = timers[t].desc /\ y.flag /\ ~y.inHeap
        /\ y.desc = d
    BY <1>1, <1>5
  <2> DEFINE G == r.handlers
  <2>2. /\ DOMAIN G = DOMAIN H \cup {y.desc} /\ \A k \in DOMAIN H \ {y.desc} : G[k] = H[k]
        /\ \A u : HasHandler(G, y.desc, u) <=> HasHandler(H, y.desc, u) \/ u = t
        /\ y.desc \notin DOMAIN H => Len(G[y.desc]) = 1
    BY <1>7, <1>9, <1>10, <2>1
  <2> HIDE DEF G, H
  <2>3. Silent([timers EXCEPT ![t] = y], G, <<>>, stray)
    BY <1>2, <1>6, <2>1, <2>2, SilentAdd
  <2> QED BY <2>3 DEF G
<1> HIDE DEF r, us, d, H
<1>12. Silent(us, reg'.handlers, calls', stray)
  <2>1. CASE Preallocate \/ stopped
    BY <1>1, <1>3, <1>11, <2>1
  <2>2. CASE ~(Preallocate \/ stopped)
    <3>1. Attempt(d, -1, FirstProvider(d), hb, r, <<>>)
      BY <1>1, <1>3, <2>2
    <3> QED BY <1>7, <1>11, <3>1, SilentAttempt, FirstProviderIs
  <2> QED BY <2>1, <2>2
<1> QED BY <1>1, <1>3, <1>12 DEF SilentInv

\* The register calls a timer: it is alive, if it did not go astray.
LEMMA SilentCallback ==
    ASSUME PlainLoop, SilentInv, FireTimerCallback
    PROVE  SilentInv' /\ (undefined' => Last(calls).object \in stray)
<1> DEFINE t == Last(calls).object
           x == timers[t]
           y == Fired(x, hb)
           f == [Last(calls) EXCEPT !.kind = "handler"]
           H == reg.handlers
<1>1. /\ Alive /\ calls # <<>> /\ Last(calls).kind = "called" /\ reg' = reg /\ stray' = stray
  BY DEF FireTimerCallback, Idle
<1>2. /\ TimersInv /\ Silent(timers, H, calls, stray) /\ ~NestedLoops
      /\ timers \in [Timers -> TimerRecords] /\ HBBounded(hb) /\ TimersFit(timers, hb)
      /\ RegFits(hb, reg, calls, preId)
      /\ \A d \in DOMAIN H : H[d] \in Seq(Timers) /\ H[d] # <<>>
  BY <1>1, SilentNow
<1>3. TimersInv' /\ stray' \subseteq Timers
  BY <1>1, <1>2, CallbackStep DEF SilentInv
<1>4. /\ DOMAIN calls = {1} /\ Last(calls) = calls[1] /\ Front(calls) = <<>>
      /\ Last(calls) \in Frames
  BY <1>1, <1>2, SingleFrame
<1>5. t \in Timers /\ x \in TimerRecords /\ x.starter < hb.nextId
  BY <1>1, <1>2, CalledTimer, SMTT(60)
<1> DEFINE d == calls[1].descriptor
<1>6. d \in DOMAIN H /\ calls[1].object = H[d][1] /\ calls[1].index # 0
  BY <1>1, <1>2, <1>4 DEF Silent, FrameKnown
<1>7. 1 \in DOMAIN H[d]
  BY <1>2, <1>6, EmptySeq, LenProperties
<1>8. x.alive \/ t \in stray
  <2>1. HasHandler(H, d, t) /\ ~Runs(calls, d)
    BY <1>1, <1>4, <1>6, <1>7 DEF HasHandler, Runs
  <2> QED BY <1>2, <1>5, <2>1 DEF Silent, TimerFits, QueueFits, Holder
<1>9. CASE ~x.alive
  <2>1. undefined'
    BY <1>9 DEF FireTimerCallback
  <2> QED BY <1>3, <1>8, <1>9, <2>1 DEF SilentInv
<1>10. CASE x.alive
  <2>1. /\ timers' = [timers EXCEPT ![t] = y] /\ calls' = Append(<<>>, f)
        /\ undefined' = undefined
    BY <1>4, <1>10 DEF FireTimerCallback
  <2>2. /\ f.kind = "handler" /\ f.descriptor = calls[1].descriptor
        /\ f.dangling = calls[1].dangling /\ f.object = calls[1].object
        /\ f.index = calls[1].index
    BY <1>4 DEF Frames
  <2> HIDE DEF f
  <2>3. DOMAIN calls' = {1} /\ calls'[1] = f
    BY <2>1
  <2>4. /\ ~y.flag /\ y.armed = x.repeat /\ y.inHeap = x.repeat /\ y.alive = x.alive
        /\ y.desc = x.desc
    <3> HIDE DEF x
    <3> QED BY <1>2, <1>5, TimerFired
  <2> HIDE DEF y, H
  <2>5. t = calls[1].object
    BY <1>4
  <2>6. Silent([timers EXCEPT ![calls[1].object] = y], H, calls', stray)
    BY <1>1, <1>2, <1>4, <1>5, <1>7, <1>10, <2>2, <2>3, <2>4, <2>5, SilentCall, ZenonT(60)
  <2>7. Silent(timers', H, calls', stray)
    BY <2>1, <2>5, <2>6
  <2> QED BY <1>1, <1>3, <2>1, <2>7 DEF SilentInv, Alive, H
<1> QED BY <1>9, <1>10

\* An event action ends, or a callback outside one; a queue was freed meanwhile only
\* under the handler of a stray timer.
LEMMA SilentEnds ==
    ASSUME PlainLoop, SilentInv, ProviderAnswers \/ TimerCallbackReturns \/ UncontrolledReturns
    PROVE  SilentInv' /\ (undefined' => Last(calls).object \in stray)
<1> DEFINE H == reg.handlers
           f == Last(calls)
<1>1. Alive /\ UNCHANGED timerVars /\ calls # <<>>
  BY DEF ProviderAnswers, TimerCallbackReturns, UncontrolledReturns, ProviderAccepts,
         ProviderRefuses, HandlerReturns, InPageCode, Idle
<1>2. /\ TimersInv /\ Modal /\ ~NestedLoops /\ RegisterInv /\ Registry(reg)
      /\ Silent(timers, H, calls, stray) /\ RegFits(hb, reg, calls, preId)
  BY <1>1, SilentNow
<1>3. TimersInv' /\ timers' = timers /\ stray' = stray /\ stray' \subseteq Timers
  BY <1>1, <1>2, AnswerStep, PlainReturnStep DEF timerVars, SilentInv
<1>4. DOMAIN calls = {1} /\ f = calls[1] /\ Front(calls) = <<>>
  BY <1>1, <1>2, SingleFrame
<1>5. CASE f.kind # "handler"
  <2>1. Silent(timers, H, <<>>, stray)
    BY <1>2, <1>4, <1>5, SilentPlain
  <2>2. CASE ProviderAccepts
    <3>1. calls' = <<>> /\ reg' = DispatchEnd(reg, TRUE, f.original) /\ undefined' = undefined
      BY <1>4, <2>2 DEF ProviderAccepts
    <3>2. reg'.handlers = H
      BY <1>2, <3>1, HandlersStay
    <3> QED BY <1>1, <1>3, <2>1, <3>1, <3>2 DEF SilentInv, Alive
  <2>3. CASE UncontrolledReturns
    <3>1. calls' = <<>> /\ reg' = reg /\ undefined' = undefined
      BY <1>4, <2>3 DEF UncontrolledReturns
    <3> QED BY <1>1, <1>3, <2>1, <3>1 DEF SilentInv, Alive
  <2>4. CASE ProviderRefuses
    <3> DEFINE s == DispatchEnd(reg, FALSE, f.original)
               g == HBExitEventAction(hb, FALSE)
    <3>1. /\ f.kind = "provider" /\ undefined' = undefined
          /\ Attempt(f.descriptor, f.original, f.index + 1, g, s, <<>>)
      BY <1>4, <2>4 DEF ProviderRefuses
    <3>2. RegFits(g, s, <<>>, preId) /\ s.handlers = H /\ f.index + 1 \in 1..(Len(Providers) + 1)
      BY <1>1, <1>2, <3>1, Refused
    <3>3. Registry(s) /\ f.index + 1 \in Nat \ {0}
      <4>1. Len(Providers) \in Nat
        BY FirstProviderInRange
      <4> DEFINE i == f.index + 1
      <4>2. i \in 1..(Len(Providers) + 1)
        BY <3>2
      <4> HIDE DEF i
      <4>3. i \in Nat \ {0}
        BY <4>1, <4>2
      <4>4. Registry(s)
        BY <3>2 DEF RegFits
      <4> QED BY <4>3, <4>4 DEF i
    <3> HIDE DEF s, g, f, H
    <3>4. Silent(timers, s.handlers, <<>>, stray)
      BY <2>1, <3>2
    <3>5. Silent(timers, reg'.handlers, calls', stray)
      BY <3>1, <3>3, <3>4, SilentAttempt
    <3> QED BY <1>1, <1>3, <3>1, <3>5 DEF SilentInv, Alive
  <2>5. ~HandlerReturns
    BY <1>5 DEF HandlerReturns
  <2> QED BY <2>2, <2>3, <2>4, <2>5 DEF ProviderAnswers, TimerCallbackReturns
<1>6. CASE f.kind = "handler"
  <2> DEFINE d == f.descriptor
             q == PopHandler(reg, d)
  <2>1. HandlerReturns
    BY <1>6 DEF ProviderAnswers, TimerCallbackReturns, UncontrolledReturns, ProviderAccepts,
                ProviderRefuses
  <2>2. FrameKnown(H, stray, f)
    BY <1>2, <1>4 DEF Silent
  <2>3. CASE f.dangling
    <3>1. f.object \in stray
      BY <1>6, <2>2, <2>3 DEF FrameKnown
    <3>2. undefined'
      BY <2>1, <2>3 DEF HandlerReturns
    <3> QED BY <1>3, <3>1, <3>2 DEF SilentInv
  <2>4. CASE ~f.dangling
    <3>1. d \in DOMAIN H
      BY <1>6, <2>2, <2>4 DEF FrameKnown
    <3>2. calls' = <<>> /\ reg' = DispatchEnd(q, TRUE, f.original) /\ undefined' = undefined
      BY <1>4, <2>1, <2>4 DEF HandlerReturns
    <3> HIDE DEF f
    <3>3. /\ Registry(q)
          /\ \A k \in DOMAIN H \ {d} : k \in DOMAIN q.handlers /\ q.handlers[k] = H[k]
          /\ IF Len(H[d]) = 1 THEN DOMAIN q.handlers = DOMAIN H \ {d}
             ELSE DOMAIN q.handlers = DOMAIN H /\ q.handlers[d] = Tail(H[d])
      BY <1>2, <3>1, HandlerPopped
    <3> HIDE DEF q
    <3>4. reg'.handlers = q.handlers
      BY <3>2, <3>3, HandlersStay
    <3> DEFINE G == q.handlers
    <3>5. ASSUME NEW k, NEW u, HasHandler(G, k, u) PROVE HasHandler(H, k, u)
      <4>1. CASE k # d
        BY <3>1, <3>3, <3>5, <4>1 DEF HasHandler
      <4>2. CASE k = d
        <5>1. Len(H[d]) # 1 /\ G[d] = Tail(H[d])
          BY <3>3, <3>5, <4>2 DEF HasHandler
        <5>2. H[d] \in Seq(Objects) /\ H[d] # <<>>
          BY <1>2, <3>1 DEF Registry
        <5>3. PICK i \in DOMAIN Tail(H[d]) : Tail(H[d])[i] = u
          BY <3>5, <4>2, <5>1 DEF HasHandler
        <5>4. i + 1 \in DOMAIN H[d] /\ H[d][i + 1] = u
          <6> HIDE DEF H, d
          <6>1. /\ Len(H[d]) \in Nat \ {0} /\ DOMAIN H[d] = 1..Len(H[d])
                /\ Len(Tail(H[d])) = Len(H[d]) - 1 /\ Tail(H[d]) \in Seq(Objects)
                /\ \A j \in 1..(Len(H[d]) - 1) : Tail(H[d])[j] = H[d][j + 1]
            BY <5>2, HeadTailProperties, EmptySeq, LenProperties
          <6>2. DOMAIN Tail(H[d]) = 1..(Len(H[d]) - 1)
            BY <6>1, LenProperties
          <6> QED BY <5>3, <6>1, <6>2
        <5> QED BY <3>1, <4>2, <5>4 DEF HasHandler
      <4> QED BY <4>1, <4>2
    <3>6. /\ DOMAIN G \subseteq DOMAIN H
          /\ \A k \in DOMAIN H \ {calls[1].descriptor} : k \in DOMAIN G /\ G[k] = H[k]
          /\ calls[1].descriptor \in DOMAIN G => Len(H[calls[1].descriptor]) # 1
      BY <1>4, <3>3
    <3> HIDE DEF G, H
    <3>7. Silent(timers, G, <<>>, stray)
      BY <1>2, <1>4, <1>6, <3>5, <3>6, SilentReturn
    <3> QED BY <1>1, <1>3, <3>2, <3>4, <3>7 DEF SilentInv, Alive, G
  <2> QED BY <2>3, <2>4
<1> QED BY <1>5, <1>6

\* ReplayScheduler runs an event action.
LEMMA SilentWaiting ==
    ASSUME PlainLoop, SilentInv, DispatchWaiting
    PROVE  SilentInv'
<1>1. PICK d \in reg.waiting \cup ProvidedDescriptors, o \in OriginalIdsPassed :
        RunEventAction(d, o)
  BY DEF DispatchWaiting
<1>2. /\ Alive /\ UNCHANGED timerVars /\ undefined' = undefined
      /\ Attempt(d, o, FirstProvider(d), hb, reg, calls)
  BY <1>1 DEF DispatchWaiting, RunEventAction
<1>3. TimersInv /\ Modal /\ Registry(reg) /\ Silent(timers, reg.handlers, calls, stray)
  BY <1>2, SilentNow
<1>4. TimersInv' /\ calls = <<>> /\ stray \subseteq Timers
  BY <1>3, WaitingStep DEF SilentInv
<1>5. Attempt(d, o, FirstProvider(d), hb, reg, <<>>) /\ Silent(timers, reg.handlers, <<>>, stray)
  BY <1>2, <1>3, <1>4
<1>6. Silent(timers, reg'.handlers, calls', stray)
  BY <1>3, <1>5, SilentAttempt, FirstProviderIs
<1> QED BY <1>2, <1>4, <1>6 DEF SilentInv, Alive, timerVars

\* Ticks, the end of the recording, ghosts and immediate event actions
LEMMA SilentBetween ==
    ASSUME PlainLoop, SilentInv,
           \/ SharedTimerFired \/ TickEnds \/ FireTimersInNestedEventLoop
           \/ StopScheduler \/ GhostsBetweenTicks \/ ImmediateBetweenTicks
    PROVE  SilentInv'
<1> DEFINE H == reg.handlers
<1>1. Alive /\ UNCHANGED <<timers, undefined, stray>>
  BY DEF SharedTimerFired, TickEnds, FireTimersInNestedEventLoop, StopScheduler,
         GhostsBetweenTicks, ImmediateBetweenTicks, GhostNext, EnterGhostEventAction,
         ExitGhostEventAction, FrameGhostLeftOpen, EnterImmediateEventAction,
         ExitImmediateEventAction, timerVars, registerVars
<1>2. /\ TimersInv /\ Modal /\ ~NestedLoops /\ Registry(reg) /\ Silent(timers, H, calls, stray)
      /\ RegFits(hb, reg, calls, preId)
  BY <1>1, SilentNow
<1>3. TimersInv' /\ stray' \subseteq Timers
  BY <1>1, <1>2, TickStep, StopStep, BetweenStep DEF SilentInv
<1>4. SUFFICES Silent(timers, reg'.handlers, calls', stray)
  BY <1>1, <1>3 DEF SilentInv, Alive
<1>5. CASE SharedTimerFired \/ TickEnds \/ FireTimersInNestedEventLoop \/ StopScheduler
  <2>1. UNCHANGED <<reg, calls>>
    BY <1>5 DEF SharedTimerFired, TickEnds, FireTimersInNestedEventLoop, StopScheduler,
                registerVars
  <2> QED BY <1>2, <2>1
<1>6. ASSUME calls # <<>>, Last(calls).kind # "handler" PROVE Silent(timers, H, Front(calls), stray)
  <2>1. DOMAIN calls = {1} /\ Last(calls) = calls[1] /\ Front(calls) = <<>>
    BY <1>2, <1>6, SingleFrame
  <2> QED BY <1>2, <1>6, <2>1, SilentPlain
<1>7. CASE GhostsBetweenTicks
  <2> DEFINE f == Frame("ghost", GhostDescriptor, 0, -1, NoObject)
  <2>1. reg' = reg
    BY <1>7 DEF GhostsBetweenTicks, GhostNext, EnterGhostEventAction, ExitGhostEventAction,
                FrameGhostLeftOpen
  <2>2. CASE EnterGhostEventAction
    <3>1. calls = <<>> /\ calls' = Append(<<>>, f) /\ f.kind = "ghost"
      BY <1>2, <2>2 DEF EnterGhostEventAction, InEventLoop, Idle, Frame
    <3> HIDE DEF f
    <3> QED BY <1>2, <2>1, <3>1, SilentPlain
  <2>3. CASE ExitGhostEventAction
    BY <1>6, <2>1, <2>3 DEF ExitGhostEventAction, Idle
  <2>4. CASE FrameGhostLeftOpen
    BY <1>2, <2>1, <2>4 DEF FrameGhostLeftOpen
  <2> QED BY <1>7, <2>2, <2>3, <2>4 DEF GhostsBetweenTicks, GhostNext
<1>8. CASE ImmediateBetweenTicks
  <2>1. CASE \E d \in Descriptors : EnterImmediateEventAction(d)
    <3>1. PICK d \in Descriptors : EnterImmediateEventAction(d)
      BY <2>1
    <3> DEFINE f == Frame("immediate", d, 0, -1, NoObject)
    <3>2. /\ calls = <<>> /\ calls' = Append(<<>>, f) /\ f.kind = "immediate"
          /\ reg' = DispatchStart(reg, hb.nextId, -1, d)
      BY <3>1 DEF EnterImmediateEventAction, Idle, Frame
    <3> HIDE DEF f
    <3>3. reg'.handlers = H
      BY <1>2, <3>2, HandlersStay
    <3> QED BY <1>2, <3>2, <3>3, SilentPlain
  <2>2. CASE ExitImmediateEventAction
    <3>1. /\ calls # <<>> /\ Last(calls).kind = "immediate" /\ calls' = Front(calls)
          /\ reg' = DispatchEnd(reg, TRUE, -1)
      BY <2>2 DEF ExitImmediateEventAction, InPageCode, Idle
    <3>2. reg'.handlers = H
      BY <1>2, <3>1, HandlersStay
    <3> QED BY <1>6, <3>1, <3>2
  <2> QED BY <1>8, <2>1, <2>2 DEF ImmediateBetweenTicks
<1> QED BY <1>5, <1>7, <1>8

\* Every step keeps the invariant.
LEMMA SilentKeeps ==
    ASSUME PlainLoop, SilentInv, [TimersNext]_allVars
    PROVE  SilentInv'
<1>1. CASE UNCHANGED allVars
  <2>1. SilentInv' <=> SilentInv
    BY <1>1 DEF allVars, registerVars, timerVars, SilentInv, TimersInv, RegisterInv
  <2> QED BY <2>1
<1>2. CASE TimersNext
  BY <1>2, SilentClient, SilentStop, SilentUncontrolled, SilentControlled, SilentCallback,
     SilentEnds, SilentWaiting, SilentBetween DEF TimersNext
<1> QED BY <1>1, <1>2

\* The invariant holds in every reachable state.
LEMMA SilentInvariant ==
    ASSUME PlainLoop
    PROVE  TimersSpec => []SilentInv
<1>1. TimersInit => SilentInv
  <2> SUFFICES ASSUME TimersInit PROVE SilentInv
    OBVIOUS
  <2>1. TimersInv
    BY TimersStart
  <2>2. calls = <<>> /\ ~undefined /\ DOMAIN reg.handlers = {} /\ stray = {}
    BY DEF TimersInit, RegisterInit
  <2>3. \A t \in Timers : timers[t].desc = NullTimer /\ ~timers[t].inHeap /\ ~timers[t].armed
    BY DEF TimersInit
  <2>4. \A d, t : ~HasHandler(reg.handlers, d, t)
    BY <2>2 DEF HasHandler
  <2>5. ASSUME NEW t \in Timers PROVE TimerFits(timers, reg.handlers, calls, t)
    BY <2>3, <2>4 DEF TimerFits, NameFits, QueueFits, HeapFits
  <2>6. Silent(timers, reg.handlers, calls, stray)
    BY <2>2, <2>3, <2>5 DEF Silent
  <2> QED BY <2>1, <2>2, <2>6 DEF SilentInv
<1>2. SilentInv /\ [TimersNext]_allVars => SilentInv'
  BY SilentKeeps
<1> QED BY <1>1, <1>2, PTL DEF TimersSpec

\* A timer that was stopped, destroyed or has fired has no handler left in the register,
\* whatever the clients do with other timers, unless it went astray itself.
THEOREM StoppedStaySilent ==
    ASSUME PlainLoop
    PROVE  TimersSpec => []StoppedTimersStaySilent
<1>1. SilentInv => StoppedTimersStaySilent
  <2> SUFFICES ASSUME SilentInv, ~undefined, NEW t \in Timers \ stray, Queued(t)
               PROVE  timers[t].armed /\ timers[t].alive
    BY DEF StoppedTimersStaySilent
  <2>1. /\ Registry(reg) /\ calls \in Seq(Frames)
        /\ TimerFits(timers, reg.handlers, calls, t)
    BY DEF SilentInv, Silent, TimersInv, RegisterInv, RegShape
  <2>2. PICK d \in DOMAIN reg.handlers :
          HasHandler(reg.handlers, d, t) /\ (Len(reg.handlers[d]) = 1 => ~Runs(calls, d))
    BY <2>1, QueuedIs
  <2>3. QueueFits(timers, reg.handlers, calls, d, t)
    BY <2>1 DEF TimerFits
  <2> QED BY <2>2, <2>3 DEF QueueFits, Holder
<1> QED BY <1>1, SilentInvariant, PTL

\* A started timer that did not go astray is in the heap or in the register.
LEMMA NotLost ==
    ASSUME SilentInv, ~undefined, NEW t \in Timers \ stray, timers[t].armed,
           ~timers[t].inHeap
    PROVE  Queued(t)
<1>1. /\ Registry(reg) /\ calls \in Seq(Frames) /\ HeapFits(timers, reg.handlers, calls, t)
  BY DEF SilentInv, Silent, TimerFits, TimersInv, RegisterInv, RegShape
<1> QED BY <1>1, QueuedIs DEF HeapFits

\* The invariant implies the type.
LEMMA TimersTyped ==
    ASSUME ~NestedLoops, TimersInv, stray \subseteq Timers
    PROVE  TimersTypeOK
<1>1. /\ TimersFit(timers, hb) /\ TicksFit(ticks) /\ firing \in BOOLEAN /\ stopped \in BOOLEAN
      /\ calls \in Seq(Frames) /\ hb.nextId \in Nat \ {0}
  BY DEF TimersInv, RegisterInv, RegShape, HBBounded, HBRecords
<1>2. ASSUME NEW t \in Timers
      PROVE  timers[t] \in [inHeap : BOOLEAN, repeat : BOOLEAN, flag : BOOLEAN,
                            desc : Descriptors \cup {NullTimer},
                            starter : 0..(hb.nextId - 1), alive : BOOLEAN,
                            armed : BOOLEAN]
  <2>1. timers[t] \in TimerRecords /\ timers[t].starter < hb.nextId
    BY <1>1 DEF TimersFit
  <2>2. timers[t].starter \in 0..(hb.nextId - 1)
    BY <1>1, <2>1 DEF TimerRecords
  <2> QED BY <2>1, <2>2 DEF TimerRecords
<1>3. ticks \in Seq(0..Len(calls))
  <2> DEFINE n == Len(ticks)
             S == 0..Len(calls)
  <2>1. n \in Nat /\ DOMAIN ticks = 1..n /\ ticks \in [1..n -> Nat]
    BY <1>1, LenProperties DEF TicksFit
  <2>2. 0 \in S
    BY <1>1, LenProperties
  <2> HIDE DEF n, S
  <2>3. \A i \in 1..n : ticks[i] \in S
    BY <1>1, <2>1, <2>2 DEF TicksFit
  <2>4. ticks \in [1..n -> S]
    BY <2>1, <2>3
  <2>5. ticks \in Seq(S)
    BY <2>1, <2>4, SeqDef
  <2> QED BY <2>5 DEF S
<1>4. timers \in [Timers -> [inHeap : BOOLEAN, repeat : BOOLEAN, flag : BOOLEAN,
                             desc : Descriptors \cup {NullTimer},
                             starter : 0..(hb.nextId - 1), alive : BOOLEAN,
                             armed : BOOLEAN]]
  BY <1>1, <1>2 DEF TimersFit
<1> QED BY <1>1, <1>3, <1>4 DEF TimersTypeOK

\* A callback that starts in an event action is ordered by the log after the event action
\* its timer was started in, also where providers refuse and the id is used again.
THEOREM CallbackAfterStarter ==
    ASSUME OneLoop
    PROVE  TimersSpec => FiredAfterStarter
<1> DEFINE Step == \A t \in Timers \ NoImplicitArcs :
         (/\ FireTimerCallback /\ Last(calls).object = t /\ timers[t].alive
          /\ timers[t].starter \notin {0, hb.current})
         => <<timers[t].starter, hb.current>> \in hb'.arcs
<1>1. OrderInv /\ [TimersNext]_allVars => [Step]_allVars
  <2> SUFFICES ASSUME OrderInv, NEW t \in Timers \ NoImplicitArcs,
                      FireTimerCallback, Last(calls).object = t, timers[t].alive,
                      timers[t].starter \notin {0, hb.current}
               PROVE  <<timers[t].starter, hb.current>> \in hb'.arcs
    OBVIOUS
  <2> DEFINE s == timers[t].starter
             c == hb.current
  <2>1. Alive /\ calls # <<>> /\ Last(calls).kind = "called"
    BY DEF FireTimerCallback, Idle
  <2>3. hb' = FiredArc(t, hb)
    BY DEF FireTimerCallback
  <2>4. /\ ~NestedLoops /\ Forward(hb) /\ Latest(hb, Kind(calls), preId) /\ HBBounded(hb)
        /\ RegFits(hb, reg, calls, preId) /\ TimersFit(timers, hb)
        /\ hb.nextId \in Nat \ {0}
    BY <2>1, OrderNow
  <2>5. Kind(calls) \in Opens
    BY <2>1, <2>4, SingleFrame DEF Opens
  <2>6. c = hb.nextId - 1 /\ s \in Nat /\ s < hb.nextId /\ s # 0 /\ s # c
    BY <2>4, <2>5 DEF Latest, TimersFit, TimerRecords
  <2>7. c # 0 /\ s < c
    <3> HIDE DEF s, c
    <3> QED BY <2>4, <2>6
  <2> QED BY <2>3, <2>4, <2>6, <2>7, ForwardFired
<1>2. TimersInit => OrderInv
  BY OrderStarts
<1>3. OrderInv /\ [TimersNext]_allVars => OrderInv'
  BY OrderKeeps
<1>4. FiredAfterStarter <=> [][Step]_allVars
  BY DEF FiredAfterStarter
<1> QED BY <1>1, <1>2, <1>3, <1>4, PTL DEF TimersSpec

-----------------------------------------------------------------------------
(* The record client, whose timers keep no rules: a registered timer is called at once *)

RecordClient == ~NestedLoops /\ ~Preallocate /\ Providers = <<>>

\* The register is about to call the timer t.
Calls(c, t) == \E k \in DOMAIN c : c[k].kind = "called" /\ c[k].object = t

\* The queue of a running or called handler exists, and what is called is its timer.
FrameFits(H, f) ==
    /\ f.kind \in {"called", "handler"} => ~f.dangling /\ f.descriptor \in DOMAIN H
    /\ f.kind = "called" => f.object = H[f.descriptor][1]

\* The table holds the event action that runs and nothing else.
Recorded(ts, H, c) ==
    /\ \A t \in Timers :
         /\ ts[t].inHeap => ts[t].armed /\ ts[t].alive
         /\ ts[t].armed => ts[t].inHeap \/ Calls(c, t)
         /\ ts[t].flag => Calls(c, t)
    /\ \A d \in DOMAIN H :
         /\ Len(H[d]) = 1
         /\ \E k \in DOMAIN c : c[k].kind \in {"called", "handler"} /\ c[k].descriptor = d
    /\ \A k \in DOMAIN c :
         FrameFits(H, c[k]) /\ (c[k].kind = "called" => ts[c[k].object].alive)

RecordInv == TimersInv /\ (stopped \/ (~undefined /\ Recorded(timers, reg.handlers, calls)))

\* The current state, before the recording is stopped
LEMMA RecordNow ==
    ASSUME RecordClient, RecordInv, Alive
    PROVE  /\ Modal /\ ~NestedLoops /\ TimersInv /\ RegisterInv /\ Registry(reg)
           /\ timers \in [Timers -> TimerRecords] /\ calls \in Seq(Frames)
           /\ stopped \/ Recorded(timers, reg.handlers, calls)
           /\ RegFits(hb, reg, calls, preId) /\ HBBounded(hb) /\ TimersFit(timers, hb)
<1>1. TimersInv
  BY DEF RecordInv
<1>2. /\ RegisterInv /\ RegFits(hb, reg, calls, preId) /\ HBBounded(hb)
      /\ TimersFit(timers, hb) /\ calls \in Seq(Frames)
  BY <1>1, TimersNow
<1> QED BY <1>1, <1>2 DEF RecordInv, RecordClient, Modal, RegFits, TimersFit

\* A timer changes while none is about to be called.
LEMMA RecordedTimer ==
    ASSUME NEW ts, NEW H, NEW c, Recorded(ts, H, c), ts \in [Timers -> TimerRecords],
           \A k \in DOMAIN c : c[k].kind # "called", NEW t \in Timers, NEW y, ~y.flag,
           y.inHeap => y.armed /\ y.alive, y.armed => y.inHeap
    PROVE  Recorded([ts EXCEPT ![t] = y], H, c)
<1> DEFINE us == [ts EXCEPT ![t] = y]
<1>1. us[t] = y /\ \A u \in Timers \ {t} : us[u] = ts[u]
  OBVIOUS
<1> HIDE DEF us
<1>2. ASSUME NEW u \in Timers
      PROVE  /\ us[u].inHeap => us[u].armed /\ us[u].alive
             /\ us[u].armed => us[u].inHeap \/ Calls(c, u)
             /\ us[u].flag => Calls(c, u)
  <2>1. CASE u = t
    BY <1>1, <2>1
  <2>2. CASE u # t
    BY <1>1, <2>2 DEF Recorded
  <2> QED BY <2>1, <2>2
<1>3. Recorded(us, H, c)
  BY <1>2 DEF Recorded
<1> QED BY <1>3 DEF us

\* A frame that is no handler is pushed or popped.
LEMMA RecordedPlain ==
    ASSUME NEW ts, NEW H
    PROVE  /\ \A c : /\ Recorded(ts, H, c) /\ DOMAIN c = {1}
                     /\ c[1].kind \notin {"called", "handler"}
                     => Recorded(ts, H, <<>>)
           /\ \A f : Recorded(ts, H, <<>>) /\ f.kind \notin {"called", "handler"}
                     => Recorded(ts, H, Append(<<>>, f))
<1>1. DOMAIN <<>> = {}
  OBVIOUS
<1>2. ASSUME NEW c, Recorded(ts, H, c), DOMAIN c = {1}, c[1].kind \notin {"called", "handler"}
      PROVE  Recorded(ts, H, <<>>)
  <2>1. DOMAIN H = {}
    BY <1>2 DEF Recorded
  <2>2. \A t : ~Calls(c, t)
    BY <1>2 DEF Calls
  <2> QED BY <1>1, <1>2, <2>1, <2>2 DEF Recorded
<1>3. ASSUME NEW f, Recorded(ts, H, <<>>), f.kind \notin {"called", "handler"}
      PROVE  Recorded(ts, H, Append(<<>>, f))
  <2> DEFINE e == Append(<<>>, f)
  <2>1. DOMAIN e = {1} /\ e[1] = f
    OBVIOUS
  <2> HIDE DEF e
  <2>2. DOMAIN H = {} /\ \A t : ~Calls(<<>>, t)
    BY <1>1, <1>3 DEF Recorded, Calls
  <2>3. FrameFits(H, f)
    BY <1>3 DEF FrameFits
  <2>4. Recorded(ts, H, e)
    BY <1>3, <2>1, <2>2, <2>3 DEF Recorded
  <2> QED BY <2>4 DEF e
<1> QED BY <1>2, <1>3

\* start, stop and setEventActionDescriptor: nothing waits that could be taken away.
LEMMA RecordClientStep ==
    ASSUME RecordClient, RecordInv, NEW t \in Timers,
           \/ \E repeat \in BOOLEAN : StartTimer(t, repeat)
           \/ \E destroy \in BOOLEAN : StopTimer(t, destroy)
           \/ \E d \in Descriptors \cup {NullTimer} : SetEventActionDescriptor(t, d)
    PROVE  RecordInv'
<1> DEFINE x == timers[t]
           H == reg.handlers
<1>1. Alive /\ InClientCode /\ x.alive /\ UNCHANGED <<undefined, stopped>>
  BY DEF StartTimer, StopTimer, SetEventActionDescriptor, registerVars
<1>2. /\ TimersInv /\ ~NestedLoops /\ timers \in [Timers -> TimerRecords]
      /\ stopped \/ Recorded(timers, H, calls)
      /\ RegFits(hb, reg, calls, preId) /\ HBBounded(hb)
  BY <1>1, RecordNow
<1>3. TimersInv'
  BY <1>2, ClientStep
<1>4. CASE stopped
  BY <1>1, <1>3, <1>4 DEF RecordInv
<1>5. CASE ~stopped
  <2>1. Recorded(timers, H, calls)
    BY <1>2, <1>5
  <2>2. \A k \in DOMAIN calls : calls[k].kind # "called"
    <3>1. CASE calls = <<>>
      BY <3>1
    <3>2. CASE calls # <<>>
      <4>1. Last(calls).kind # "called"
        BY <1>1, <3>2 DEF InClientCode, Idle
      <4> QED BY <1>2, <3>2, <4>1, SingleFrame
    <3> QED BY <3>1, <3>2
  <2>3. ~x.flag
    BY <2>1, <2>2 DEF Recorded, Calls
  <2>4. UNCHANGED <<reg, calls>>
    BY <2>3 DEF StartTimer, StopTimer, SetEventActionDescriptor, registerVars, Deregister
  <2>5. ASSUME NEW y, timers' = [timers EXCEPT ![t] = y], y.flag = x.flag,
               y.inHeap => y.armed /\ y.alive, y.armed => y.inHeap
        PROVE  RecordInv'
    <3> HIDE DEF H, x
    <3>1. Recorded([timers EXCEPT ![t] = y], H, calls)
      BY <1>2, <2>1, <2>2, <2>3, <2>5, RecordedTimer
    <3> QED BY <1>1, <1>3, <2>4, <2>5, <3>1 DEF RecordInv, Alive, H
  <2>6. x \in TimerRecords /\ HBBounded(hb)
    BY <1>2
  <2>7. (x.inHeap => x.armed /\ x.alive) /\ (x.armed => x.inHeap)
    BY <2>1, <2>2 DEF Recorded, Calls
  <2>8. CASE \E repeat \in BOOLEAN : StartTimer(t, repeat)
    <3>1. PICK repeat \in BOOLEAN : StartTimer(t, repeat)
      BY <2>8
    <3> DEFINE y == SetNextFireTime([x EXCEPT !.repeat = repeat, !.armed = TRUE], hb)
    <3>2. timers' = [timers EXCEPT ![t] = y]
      BY <3>1 DEF StartTimer
    <3> HIDE DEF x
    <3>3. y.inHeap /\ y.armed /\ y.alive = x.alive /\ y.flag = x.flag
      BY <2>6, TimerStarted
    <3> HIDE DEF y
    <3> QED BY <1>1, <2>5, <3>2, <3>3
  <2>9. CASE \E destroy \in BOOLEAN : StopTimer(t, destroy)
    <3>1. PICK destroy \in BOOLEAN : StopTimer(t, destroy)
      BY <2>9
    <3> DEFINE y == ClearNextFireTime([x EXCEPT !.repeat = FALSE, !.armed = FALSE,
                                                !.alive = ~destroy])
    <3>2. timers' = [timers EXCEPT ![t] = y]
      BY <3>1 DEF StopTimer
    <3> HIDE DEF x
    <3>3. ~y.inHeap /\ ~y.armed /\ y.flag = x.flag
      BY <2>6, TimerStopped
    <3> HIDE DEF y
    <3> QED BY <2>5, <3>2, <3>3
  <2>10. CASE \E d \in Descriptors \cup {NullTimer} : SetEventActionDescriptor(t, d)
    <3>1. PICK d \in Descriptors \cup {NullTimer} : SetEventActionDescriptor(t, d)
      BY <2>10
    <3> DEFINE y == [x EXCEPT !.desc = d]
    <3>2. timers' = [timers EXCEPT ![t] = y]
      BY <3>1 DEF SetEventActionDescriptor
    <3> HIDE DEF x
    <3>3. /\ y.flag = x.flag /\ y.inHeap = x.inHeap /\ y.armed = x.armed
          /\ y.alive = x.alive
      BY <2>6 DEF TimerRecords
    <3> HIDE DEF y
    <3> QED BY <2>5, <2>7, <3>2, <3>3
  <2> QED BY <2>8, <2>9, <2>10
<1> QED BY <1>2, <1>4, <1>5

\* A due timer without a descriptor
LEMMA RecordUncontrolled ==
    ASSUME RecordClient, RecordInv, NEW t \in Timers, FireUncontrolled(t)
    PROVE  RecordInv'
<1> DEFINE x == timers[t]
           y == Fired(x, hb)
           f == Frame("plain", GhostDescriptor, 0, -1, t)
           H == reg.handlers
<1>1. /\ Alive /\ AtTick /\ x.inHeap /\ timers' = [timers EXCEPT ![t] = y]
      /\ calls' = Append(calls, f) /\ reg' = reg /\ UNCHANGED <<undefined, stopped>>
  BY DEF FireUncontrolled
<1>2. /\ TimersInv /\ ~NestedLoops /\ timers \in [Timers -> TimerRecords]
      /\ stopped \/ Recorded(timers, H, calls)
      /\ HBBounded(hb) /\ TimersFit(timers, hb)
  BY <1>1, RecordNow
<1>3. TimersInv' /\ calls = <<>>
  BY <1>1, <1>2, UncontrolledStep, TickLevel
<1>4. x \in TimerRecords /\ x.starter < hb.nextId /\ HBBounded(hb)
  BY <1>2 DEF TimersFit
<1> HIDE DEF x
<1>5. ~y.flag /\ y.armed = x.repeat /\ y.inHeap = x.repeat /\ y.alive = x.alive
  BY <1>4, TimerFired
<1>6. f.kind = "plain" /\ calls' = Append(<<>>, f)
  BY <1>1, <1>3 DEF Frame
<1> HIDE DEF y, f, H
<1>7. CASE ~stopped
  <2>1. Recorded(timers, H, <<>>) /\ \A k \in DOMAIN <<>> : <<>>[k].kind # "called"
    BY <1>2, <1>3, <1>7
  <2>2. x.alive
    BY <1>1, <2>1 DEF Recorded, x
  <2>3. Recorded([timers EXCEPT ![t] = y], H, <<>>)
    BY <1>2, <1>5, <2>1, <2>2, RecordedTimer
  <2>4. Recorded(timers', H, calls')
    BY <1>1, <1>6, <2>3, RecordedPlain
  <2> QED BY <1>1, <1>3, <2>4 DEF RecordInv, Alive, H
<1>8. CASE stopped
  BY <1>1, <1>3, <1>8 DEF RecordInv
<1> QED BY <1>7, <1>8

\* Without providers an attempt calls the first handler under the descriptor.
LEMMA RecordAttempt ==
    ASSUME RecordClient, NEW h, NEW r, Registry(r), NEW d \in DOMAIN r.handlers,
           Attempt(d, -1, FirstProvider(d), h, r, <<>>)
    PROVE  /\ reg'.handlers = r.handlers /\ DOMAIN calls' = {1}
           /\ calls'[1].kind = "called" /\ calls'[1].descriptor = d
           /\ calls'[1].object = r.handlers[d][1] /\ ~calls'[1].dangling
<1> DEFINE f == Frame("called", d, FirstProvider(d), -1, r.handlers[d][1])
<1>1. Len(Providers) = 0
  BY DEF RecordClient
<1>2. FirstProvider(d) = 1
  BY <1>1 DEF FirstProvider
<1>3. ~(FirstProvider(d) <= Len(Providers))
  BY <1>1, <1>2
<1>4. calls' = Append(<<>>, f) /\ reg' = DispatchStart(r, DispatchId(h), -1, d)
  BY <1>3 DEF Attempt
<1>5. /\ f.kind = "called" /\ f.descriptor = d /\ f.object = r.handlers[d][1]
      /\ ~f.dangling
  BY DEF Frame
<1> HIDE DEF f
<1>6. DOMAIN calls' = {1} /\ calls'[1] = f
  BY <1>4
<1>7. reg'.handlers = r.handlers
  BY <1>4, HandlersStay
<1> QED BY <1>5, <1>6, <1>7

\* A due timer with a descriptor: it is the only one in the table.
LEMMA RecordControlled ==
    ASSUME RecordClient, RecordInv, NEW t \in Timers, FireControlled(t)
    PROVE  RecordInv'
<1> DEFINE x == timers[t]
           d == x.desc
           y == [ClearNextFireTime(x) EXCEPT !.flag = TRUE]
           r == AddHandler(reg, d, t)
           H == reg.handlers
           us == [timers EXCEPT ![t] = y]
<1>1. /\ Alive /\ AtTick /\ x.inHeap /\ d # NullTimer /\ timers' = us
      /\ IF Preallocate \/ stopped
         THEN reg' = r /\ UNCHANGED <<hb, calls>>
         ELSE Attempt(d, -1, FirstProvider(d), hb, r, calls)
      /\ UNCHANGED <<undefined, stopped>>
  BY DEF FireControlled
<1>2. /\ TimersInv /\ ~NestedLoops /\ Modal /\ Registry(reg)
      /\ timers \in [Timers -> TimerRecords]
      /\ stopped \/ Recorded(timers, H, calls)
  BY <1>1, RecordNow
<1>3. TimersInv' /\ calls = <<>>
  BY <1>1, <1>2, ControlledStep, TickLevel
<1>4. x \in TimerRecords /\ d \in Descriptors /\ t \in Objects
  BY <1>1, <1>2 DEF TimerRecords, Timers
<1>5. ~y.inHeap /\ y.alive = x.alive
  BY <1>4, TimerRegistered
<1>6. CASE stopped
  BY <1>1, <1>3, <1>6 DEF RecordInv
<1>7. CASE ~stopped
  <2>1. Recorded(timers, H, <<>>) /\ \A u : ~Calls(<<>>, u)
    BY <1>2, <1>3, <1>7 DEF Calls
  <2>2. DOMAIN H = {} /\ x.alive
    BY <1>1, <2>1 DEF Recorded
  <2> HIDE DEF d, x, y
  <2>3. Registry(r) /\ DOMAIN r.handlers = {d} /\ r.handlers[d] = Append(<<>>, t)
    BY <1>2, <1>4, <2>2, HandlerAdded
  <2> HIDE DEF r
  <2>4. Attempt(d, -1, FirstProvider(d), hb, r, <<>>)
    BY <1>1, <1>3, <1>7 DEF RecordClient
  <2>5. Len(Append(<<>>, t)) = 1 /\ Append(<<>>, t)[1] = t
    OBVIOUS
  <2>6. Len(r.handlers[d]) = 1 /\ r.handlers[d][1] = t /\ d \in DOMAIN r.handlers
    BY <2>3, <2>5
  <2> DEFINE G == reg'.handlers
             e == calls'
  <2>7. /\ G = r.handlers /\ DOMAIN e = {1} /\ e[1].kind = "called"
        /\ e[1].descriptor = d /\ e[1].object = r.handlers[d][1] /\ ~e[1].dangling
    BY <2>3, <2>4, <2>6, RecordAttempt
  <2>8. us[t] = y /\ \A u \in Timers \ {t} : us[u] = timers[u]
    BY <1>2
  <2> HIDE DEF us, G, e
  <2>9. Calls(e, t)
    BY <2>6, <2>7 DEF Calls
  <2>10. ASSUME NEW u \in Timers
         PROVE  /\ us[u].inHeap => us[u].armed /\ us[u].alive
                /\ us[u].armed => us[u].inHeap \/ Calls(e, u)
                /\ us[u].flag => Calls(e, u)
    <3>1. CASE u = t
      BY <1>5, <2>8, <2>9, <3>1
    <3>2. CASE u # t
      BY <2>1, <2>8, <3>2 DEF Recorded
    <3> QED BY <3>1, <3>2
  <2>11. \A k \in DOMAIN G : Len(G[k]) = 1 /\ \E i \in DOMAIN e :
                               e[i].kind \in {"called", "handler"} /\ e[i].descriptor = k
    BY <2>3, <2>6, <2>7
  <2>12. \A k \in DOMAIN e :
           FrameFits(G, e[k]) /\ (e[k].kind = "called" => us[e[k].object].alive)
    BY <1>5, <2>2, <2>6, <2>7, <2>8 DEF FrameFits
  <2>13. Recorded(us, G, e)
    BY <2>10, <2>11, <2>12 DEF Recorded
  <2> QED BY <1>1, <1>3, <2>13 DEF RecordInv, Alive, G, e
<1> QED BY <1>6, <1>7

\* The register calls the timer: it is alive.
LEMMA RecordCallback ==
    ASSUME RecordClient, RecordInv, FireTimerCallback
    PROVE  RecordInv'
<1> DEFINE t == Last(calls).object
           x == timers[t]
           y == Fired(x, hb)
           f == [Last(calls) EXCEPT !.kind = "handler"]
           H == reg.handlers
           us == [timers EXCEPT ![t] = y]
<1>1. /\ Alive /\ calls # <<>> /\ Last(calls).kind = "called" /\ UNCHANGED <<reg, stopped>>
  BY DEF FireTimerCallback, Idle
<1>2. /\ TimersInv /\ ~NestedLoops /\ timers \in [Timers -> TimerRecords] /\ HBBounded(hb)
      /\ TimersFit(timers, hb) /\ RegFits(hb, reg, calls, preId)
      /\ stopped \/ Recorded(timers, H, calls)
  BY <1>1, RecordNow
<1>3. TimersInv'
  BY <1>2, CallbackStep
<1>4. CASE stopped
  BY <1>1, <1>3, <1>4 DEF RecordInv
<1>5. CASE ~stopped
  <2>1. Recorded(timers, H, calls)
    BY <1>2, <1>5
  <2>2. DOMAIN calls = {1} /\ Last(calls) = calls[1] /\ Front(calls) = <<>>
        /\ Last(calls) \in Frames
    BY <1>1, <1>2, SingleFrame
  <2>3. t \in Timers /\ x \in TimerRecords /\ x.starter < hb.nextId
    BY <1>1, <1>2, CalledTimer
  <2>4. x.alive /\ FrameFits(H, calls[1])
    BY <1>1, <2>1, <2>2 DEF Recorded
  <2>5. timers' = us /\ calls' = Append(<<>>, f) /\ undefined' = undefined
    BY <2>2, <2>4 DEF FireTimerCallback
  <2>6. /\ f.kind = "handler" /\ f.descriptor = calls[1].descriptor
        /\ f.dangling = calls[1].dangling
    BY <2>2 DEF Frames
  <2> HIDE DEF f
  <2>7. DOMAIN calls' = {1} /\ calls'[1] = f
    BY <2>5
  <2>8. ~y.flag /\ y.armed = x.repeat /\ y.inHeap = x.repeat /\ y.alive = x.alive
    <3> HIDE DEF x
    <3> QED BY <1>2, <2>3, TimerFired
  <2>9. us[t] = y /\ \A u \in Timers \ {t} : us[u] = timers[u]
    <3> HIDE DEF y
    <3> QED BY <1>2, <2>3
  <2>10. t = calls[1].object
    BY <2>2
  <2> DEFINE e == calls'
  <2> HIDE DEF us, y, t, H, x, e
  <2>11. ASSUME NEW u \in Timers
         PROVE  /\ us[u].inHeap => us[u].armed /\ us[u].alive
                /\ us[u].armed => us[u].inHeap \/ Calls(e, u)
                /\ us[u].flag => Calls(e, u)
    <3>1. CASE u = t
      BY <2>4, <2>8, <2>9, <3>1
    <3>2. CASE u # t
      <4>1. ~Calls(calls, u)
        BY <2>2, <2>10, <3>2 DEF Calls
      <4> QED BY <2>1, <2>9, <3>2, <4>1 DEF Recorded
    <3> QED BY <3>1, <3>2
  <2>12. \A k \in DOMAIN H : Len(H[k]) = 1 /\ k = calls[1].descriptor
    BY <2>1, <2>2 DEF Recorded
  <2>13. FrameFits(H, f)
    BY <1>1, <2>2, <2>4, <2>6 DEF FrameFits
  <2>14. DOMAIN e = {1} /\ e[1] = f
    BY <2>7 DEF e
  <2>15. Recorded(us, H, e)
    BY <2>6, <2>11, <2>12, <2>13, <2>14 DEF Recorded
  <2> QED BY <1>1, <1>3, <2>5, <2>15 DEF RecordInv, Alive, H, e
<1> QED BY <1>2, <1>4, <1>5

\* An event action ends, or a callback outside one: its queue is still there.
LEMMA RecordEnds ==
    ASSUME RecordClient, RecordInv,
           ProviderAnswers \/ TimerCallbackReturns \/ UncontrolledReturns
    PROVE  RecordInv'
<1> DEFINE H == reg.handlers
           f == Last(calls)
<1>1. Alive /\ UNCHANGED timerVars /\ calls # <<>>
  BY DEF ProviderAnswers, TimerCallbackReturns, UncontrolledReturns, ProviderAccepts,
         ProviderRefuses, HandlerReturns, InPageCode, Idle
<1>2. /\ TimersInv /\ Modal /\ ~NestedLoops /\ RegisterInv /\ Registry(reg)
      /\ RegFits(hb, reg, calls, preId)
      /\ stopped \/ Recorded(timers, H, calls)
  BY <1>1, RecordNow
<1>3. TimersInv' /\ UNCHANGED <<timers, stopped>>
  BY <1>1, <1>2, AnswerStep, PlainReturnStep DEF timerVars
<1>4. DOMAIN calls = {1} /\ f = calls[1] /\ Front(calls) = <<>> /\ f \in Frames
  BY <1>1, <1>2, SingleFrame
<1>5. CASE stopped
  BY <1>3, <1>5 DEF RecordInv
<1>6. CASE ~stopped
  <2>1. Recorded(timers, H, calls)
    BY <1>2, <1>6
  <2>2. CASE UncontrolledReturns
    <3>1. calls' = <<>> /\ reg' = reg /\ undefined' = undefined /\ f.kind = "plain"
      BY <1>4, <2>2 DEF UncontrolledReturns
    <3>2. Recorded(timers, H, <<>>)
      BY <1>4, <2>1, <3>1, RecordedPlain
    <3> QED BY <1>1, <1>3, <3>1, <3>2 DEF RecordInv, Alive
  <2>3. CASE TimerCallbackReturns
    <3> DEFINE d == f.descriptor
               q == PopHandler(reg, d)
    <3>1. f.kind = "handler" /\ HandlerReturns
      BY <2>3 DEF TimerCallbackReturns, HandlerReturns
    <3>2. ~f.dangling /\ d \in DOMAIN H /\ Len(H[d]) = 1 /\ DOMAIN H \subseteq {d}
      BY <1>4, <2>1, <3>1 DEF Recorded, FrameFits
    <3>3. /\ calls' = <<>> /\ reg' = DispatchEnd(q, TRUE, f.original)
          /\ undefined' = undefined
      BY <1>4, <3>1, <3>2 DEF HandlerReturns
    <3> HIDE DEF f
    <3>4. Registry(q) /\ DOMAIN q.handlers = DOMAIN H \ {d}
      BY <1>2, <3>2, HandlerPopped
    <3> HIDE DEF q
    <3>5. reg'.handlers = q.handlers
      BY <3>3, <3>4, HandlersStay
    <3> DEFINE G == reg'.handlers
    <3>6. DOMAIN G = {}
      BY <3>2, <3>4, <3>5
    <3> HIDE DEF G
    <3>7. DOMAIN <<>> = {} /\ \A u : ~Calls(calls, u)
      BY <1>4, <3>1 DEF Calls
    <3>8. Recorded(timers, G, <<>>)
      BY <2>1, <3>6, <3>7 DEF Recorded
    <3> QED BY <1>1, <1>3, <3>3, <3>8 DEF RecordInv, Alive, G
  <2>4. CASE ProviderAnswers
    <3>1. f.kind = "provider"
      BY <2>4 DEF ProviderAnswers, ProviderAccepts, ProviderRefuses
    <3>2. f.index \in Nat \ {0} /\ f.index <= Len(Providers)
      BY <1>2, <1>4, <3>1 DEF RegFits, Stack, Frames
    <3>3. Len(Providers) = 0
      BY DEF RecordClient
    <3> HIDE DEF f
    <3> QED BY <3>2, <3>3
  <2> QED BY <2>2, <2>3, <2>4
<1> QED BY <1>2, <1>5, <1>6

\* Ticks, the end of the recording, ghosts and immediate event actions
LEMMA RecordBetween ==
    ASSUME RecordClient, RecordInv,
           \/ SharedTimerFired \/ TickEnds \/ FireTimersInNestedEventLoop
           \/ StopScheduler \/ GhostsBetweenTicks \/ ImmediateBetweenTicks
    PROVE  RecordInv'
<1> DEFINE H == reg.handlers
<1>1. Alive /\ UNCHANGED <<timers, undefined>>
  BY DEF SharedTimerFired, TickEnds, FireTimersInNestedEventLoop, StopScheduler,
         GhostsBetweenTicks, ImmediateBetweenTicks, GhostNext, EnterGhostEventAction,
         ExitGhostEventAction, FrameGhostLeftOpen, EnterImmediateEventAction,
         ExitImmediateEventAction, timerVars, registerVars
<1>2. /\ TimersInv /\ Modal /\ ~NestedLoops /\ Registry(reg)
      /\ RegFits(hb, reg, calls, preId)
      /\ stopped \/ Recorded(timers, H, calls)
  BY <1>1, RecordNow
<1>3. TimersInv'
  BY <1>2, TickStep, StopStep, BetweenStep
<1>4. CASE stopped
  <2>1. stopped' = stopped \/ stopped' = TRUE
    BY DEF SharedTimerFired, TickEnds, FireTimersInNestedEventLoop, StopScheduler,
           GhostsBetweenTicks, ImmediateBetweenTicks, timerVars
  <2> QED BY <1>3, <1>4, <2>1 DEF RecordInv
<1>5. CASE ~stopped
  <2>1. Recorded(timers, H, calls)
    BY <1>2, <1>5
  <2>2. SUFFICES Recorded(timers, reg'.handlers, calls')
    BY <1>1, <1>3 DEF RecordInv, Alive
  <2>3. CASE SharedTimerFired \/ TickEnds \/ FireTimersInNestedEventLoop \/ StopScheduler
    <3>1. UNCHANGED <<reg, calls>>
      BY <2>3 DEF SharedTimerFired, TickEnds, FireTimersInNestedEventLoop, StopScheduler,
                  registerVars
    <3> QED BY <2>1, <3>1
  <2>4. ASSUME calls # <<>>, Last(calls).kind \notin {"called", "handler"}
        PROVE  Recorded(timers, H, Front(calls))
    <3>1. DOMAIN calls = {1} /\ Last(calls) = calls[1] /\ Front(calls) = <<>>
      BY <1>2, <2>4, SingleFrame
    <3> QED BY <2>1, <2>4, <3>1, RecordedPlain
  <2>5. CASE GhostsBetweenTicks
    <3> DEFINE f == Frame("ghost", GhostDescriptor, 0, -1, NoObject)
    <3>1. reg' = reg
      BY <2>5 DEF GhostsBetweenTicks, GhostNext, EnterGhostEventAction,
                  ExitGhostEventAction, FrameGhostLeftOpen
    <3>2. CASE EnterGhostEventAction
      <4>1. calls = <<>> /\ calls' = Append(<<>>, f) /\ f.kind = "ghost"
        BY <1>2, <3>2 DEF EnterGhostEventAction, InEventLoop, Idle, Frame
      <4> HIDE DEF f
      <4> QED BY <2>1, <3>1, <4>1, RecordedPlain
    <3>3. CASE ExitGhostEventAction
      BY <2>4, <3>1, <3>3 DEF ExitGhostEventAction, Idle
    <3>4. CASE FrameGhostLeftOpen
      BY <2>1, <3>1, <3>4 DEF FrameGhostLeftOpen
    <3> QED BY <2>5, <3>2, <3>3, <3>4 DEF GhostsBetweenTicks, GhostNext
  <2>6. CASE ImmediateBetweenTicks
    <3>1. CASE \E d \in Descriptors : EnterImmediateEventAction(d)
      <4>1. PICK d \in Descriptors : EnterImmediateEventAction(d)
        BY <3>1
      <4> DEFINE f == Frame("immediate", d, 0, -1, NoObject)
      <4>2. /\ calls = <<>> /\ calls' = Append(<<>>, f) /\ f.kind = "immediate"
            /\ reg' = DispatchStart(reg, hb.nextId, -1, d)
        BY <4>1 DEF EnterImmediateEventAction, Idle, Frame
      <4> HIDE DEF f
      <4>3. reg'.handlers = H
        BY <1>2, <4>2, HandlersStay
      <4> QED BY <2>1, <4>2, <4>3, RecordedPlain
    <3>2. CASE ExitImmediateEventAction
      <4>1. /\ calls # <<>> /\ Last(calls).kind = "immediate" /\ calls' = Front(calls)
            /\ reg' = DispatchEnd(reg, TRUE, -1)
        BY <3>2 DEF ExitImmediateEventAction, InPageCode, Idle
      <4>2. reg'.handlers = H
        BY <1>2, <4>1, HandlersStay
      <4> QED BY <2>4, <4>1, <4>2
    <3> QED BY <2>6, <3>1, <3>2 DEF ImmediateBetweenTicks
  <2> QED BY <2>3, <2>5, <2>6
<1> QED BY <1>2, <1>4, <1>5

\* Every step keeps the invariant.
LEMMA RecordKeeps ==
    ASSUME RecordClient, RecordInv, [TimersNext]_allVars
    PROVE  RecordInv'
<1>1. CASE UNCHANGED allVars
  <2>1. RecordInv' <=> RecordInv
    BY <1>1 DEF allVars, registerVars, timerVars, RecordInv, TimersInv, RegisterInv
  <2> QED BY <2>1
<1>2. CASE TimersNext
  <2>1. ~DispatchWaiting
    BY DEF DispatchWaiting, RecordClient
  <2> QED BY <1>2, <2>1, RecordClientStep, RecordUncontrolled, RecordControlled,
             RecordCallback, RecordEnds, RecordBetween DEF TimersNext
<1> QED BY <1>1, <1>2

\* The invariant holds in every reachable state.
LEMMA RecordInvariant ==
    ASSUME RecordClient
    PROVE  TimersSpec => []RecordInv
<1>1. TimersInit => RecordInv
  <2> SUFFICES ASSUME TimersInit PROVE RecordInv
    OBVIOUS
  <2>1. TimersInv
    BY TimersStart
  <2>2. calls = <<>> /\ ~undefined /\ DOMAIN reg.handlers = {}
    BY DEF TimersInit, RegisterInit
  <2>3. \A t \in Timers : ~timers[t].flag /\ ~timers[t].inHeap /\ ~timers[t].armed
    BY DEF TimersInit
  <2>4. Recorded(timers, reg.handlers, calls)
    BY <2>2, <2>3 DEF Recorded
  <2> QED BY <2>1, <2>2, <2>4 DEF RecordInv
<1>2. RecordInv /\ [TimersNext]_allVars => RecordInv'
  BY RecordKeeps
<1> QED BY <1>1, <1>2, PTL DEF TimersSpec

\* A started timer of the record client is in the heap or in the register.
LEMMA RecordNotLost ==
    ASSUME RecordClient, RecordInv, ~stopped, NEW t \in Timers, timers[t].armed,
           ~timers[t].inHeap
    PROVE  Queued(t)
<1>1. Recorded(timers, reg.handlers, calls) /\ TimersInv /\ ~undefined
  BY DEF RecordInv
<1>2. PICK k \in DOMAIN calls : calls[k].kind = "called" /\ calls[k].object = t
  BY <1>1 DEF Recorded, Calls
<1> DEFINE d == calls[k].descriptor
           H == reg.handlers
<1>3. d \in DOMAIN H /\ H[d][1] = t /\ Len(H[d]) = 1
  BY <1>1, <1>2 DEF Recorded, FrameFits
<1>4. RegisterInv /\ calls # <<>> /\ calls \in Seq(Frames)
  BY <1>1, <1>2 DEF TimersInv, RegisterInv, RegShape
<1>5. RegFits(hb, reg, calls, preId)
  BY <1>1, <1>4 DEF RegisterInv
<1>6. Len(calls) = 1 /\ DOMAIN calls = {1}
  BY <1>4, <1>5, SingleFrame DEF RecordClient
<1>7. ~\E j \in 1..Len(calls) : calls[j].kind = "handler"
  BY <1>2, <1>6
<1> HIDE DEF d, H
<1>8. 1 \in 1..Len(H[d])
  BY <1>3
<1> QED BY <1>3, <1>7, <1>8 DEF Queued, H

-----------------------------------------------------------------------------
(* Both clients *)

\* The invariants of the timers, in replay and in the record client
LoopInv == SilentInv /\ (Preallocate \/ RecordInv)

\* Both hold in every reachable state.
LEMMA LoopInvariant ==
    ASSUME PlainLoop
    PROVE  TimersSpec => []LoopInv
<1>1. CASE Preallocate
  <2>1. SilentInv => LoopInv
    BY <1>1 DEF LoopInv
  <2> QED BY <2>1, SilentInvariant, PTL
<1>2. CASE ~Preallocate
  <2>1. RecordClient
    BY <1>2 DEF PlainLoop, RecordClient
  <2>2. TimersSpec => []RecordInv
    BY <2>1, RecordInvariant
  <2>3. SilentInv /\ RecordInv => LoopInv
    BY DEF LoopInv
  <2> QED BY <2>2, <2>3, SilentInvariant, PTL
<1> QED BY <1>1, <1>2

\* A timer that was started and neither stopped nor fired is in the heap or in the
\* register: in replay unless it went astray, and in the record client, until the
\* recording is stopped, whatever its owner does with it.
THEOREM NoTimerIsLost ==
    ASSUME PlainLoop
    PROVE  TimersSpec => []NoLostTimer
<1>1. LoopInv => NoLostTimer
  <2> SUFFICES ASSUME LoopInv, ~stopped, ~undefined, NEW t \in Timers,
                      Preallocate => t \notin stray, timers[t].armed, ~timers[t].inHeap
               PROVE  Queued(t)
    BY DEF NoLostTimer
  <2>1. CASE Preallocate
    BY <2>1, NotLost DEF LoopInv
  <2>2. CASE ~Preallocate
    BY <2>2, RecordNotLost DEF LoopInv, PlainLoop, RecordClient
  <2> QED BY <2>1, <2>2
<1> QED BY <1>1, LoopInvariant, PTL

\* The steps after which the behaviour may be undefined
LEMMA UndefinedStep ==
    ASSUME [TimersNext]_allVars
    PROVE  undefined' = undefined \/ FireTimerCallback \/ TimerCallbackReturns
<1>1. CASE UNCHANGED allVars
  BY <1>1 DEF allVars, registerVars
<1>2. ASSUME NEW t \in Timers,
             \/ \E repeat \in BOOLEAN : StartTimer(t, repeat)
             \/ \E destroy \in BOOLEAN : StopTimer(t, destroy)
             \/ \E d \in Descriptors \cup {NullTimer} : SetEventActionDescriptor(t, d)
             \/ FireUncontrolled(t)
             \/ FireControlled(t)
      PROVE  undefined' = undefined
  BY <1>2 DEF StartTimer, StopTimer, SetEventActionDescriptor, FireUncontrolled,
              FireControlled, registerVars
<1>3. CASE DispatchWaiting \/ ProviderAnswers
  BY <1>3 DEF DispatchWaiting, ProviderAnswers, RunEventAction, ProviderAccepts,
              ProviderRefuses
<1>4. CASE \/ SharedTimerFired \/ UncontrolledReturns \/ TickEnds
           \/ FireTimersInNestedEventLoop \/ StopScheduler
  BY <1>4 DEF SharedTimerFired, UncontrolledReturns, TickEnds, FireTimersInNestedEventLoop,
              StopScheduler, registerVars
<1>5. CASE GhostsBetweenTicks \/ ImmediateBetweenTicks
  BY <1>5 DEF GhostsBetweenTicks, ImmediateBetweenTicks, GhostNext, EnterGhostEventAction,
              ExitGhostEventAction, FrameGhostLeftOpen, EnterImmediateEventAction,
              ExitImmediateEventAction
<1> QED BY <1>1, <1>2, <1>3, <1>4, <1>5 DEF TimersNext

\* No handler runs for a destroyed timer and no queue is freed under a running handler:
\* in replay for the timers that did not go astray, in the record client for all until
\* the recording is stopped.  The state of the timers keeps its type.
THEOREM TimersStayDefined ==
    ASSUME PlainLoop
    PROVE  TimersSpec => StaysDefined
<1> DEFINE Step == /\ TimersTypeOK'
                   /\ undefined' =>
                        \/ undefined
                        \/ Last(calls).object \in stray /\ (Preallocate \/ stopped)
<1>0. LoopInv => TimersTypeOK
  BY TimersTyped DEF LoopInv, SilentInv, PlainLoop
<1>1. LoopInv /\ LoopInv' /\ TimersTypeOK' /\ [TimersNext]_allVars => [Step]_allVars
  <2> SUFFICES ASSUME LoopInv, LoopInv', TimersTypeOK', [TimersNext]_allVars PROVE Step
    OBVIOUS
  <2>3. ASSUME undefined', ~undefined PROVE Last(calls).object \in stray
    <3>1. FireTimerCallback \/ TimerCallbackReturns
      BY <2>3, UndefinedStep
    <3> QED BY <2>3, <3>1, SilentCallback, SilentEnds DEF LoopInv
  <2>4. ASSUME undefined', ~undefined, ~Preallocate PROVE stopped
    <3>1. stopped'
      BY <2>4 DEF LoopInv, RecordInv
    <3>2. FireTimerCallback \/ TimerCallbackReturns
      BY <2>4, UndefinedStep
    <3>3. stopped' = stopped
      BY <3>2 DEF FireTimerCallback, TimerCallbackReturns, timerVars
    <3> QED BY <3>1, <3>3
  <2> QED BY <2>3, <2>4
<1>2. StaysDefined <=> [][Step]_allVars
  BY DEF StaysDefined
<1> QED BY <1>0, <1>1, <1>2, LoopInvariant, PTL DEF TimersSpec
=============================================================================
