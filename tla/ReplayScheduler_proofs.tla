----------------------- MODULE ReplayScheduler_proofs -----------------------
(***************************************************************************)
(* Theorems about ReplayScheduler, for every set of schedules, descriptors *)
(* and bounds that satisfy the assumptions of the module.                  *)
(***************************************************************************)
EXTENDS ReplayScheduler, SequenceTheorems, TLAPS

\* The constants, in the form the steps below use them.
LEMMA ConstantFacts ==
    /\ FirstId \in Nat \ {0}
    /\ OriginalIds \subseteq Nat \ {0}
    /\ \A d \in Names : d.parent \in Nat
    /\ NullDescriptor \notin Names
BY BoundsAssumption, NamesAssumption DEF IsDescriptor, NullDescriptor

\* Removing the element at index i shifts the later ones down.
LEMMA RemoveAtProperties ==
    ASSUME NEW S, NEW s \in Seq(S), NEW i \in 1..Len(s)
    PROVE  /\ RemoveAt(s, i) \in Seq(S)
           /\ Len(RemoveAt(s, i)) = Len(s) - 1
           /\ \A j \in 1..(Len(s) - 1) :
                 RemoveAt(s, i)[j] = IF j < i THEN s[j] ELSE s[j + 1]
<1> DEFINE a == SubSeq(s, 1, i - 1)
           b == SubSeq(s, i + 1, Len(s))
<1>1. Len(s) \in Nat /\ i \in Nat /\ i >= 1 /\ i <= Len(s) /\ \A j \in 1..Len(s) : s[j] \in S
  OBVIOUS
<1>2. a \in Seq(S) /\ Len(a) = i - 1 /\ \A j \in 1..(i - 1) : a[j] = s[j]
  <2>1. \A j \in 1..(i - 1) : s[j] \in S
    BY <1>1
  <2> QED BY <1>1, <2>1, SubSeqProperties
<1>3. b \in Seq(S) /\ Len(b) = Len(s) - i /\ \A j \in 1..(Len(s) - i) : b[j] = s[i + j]
  <2>1. \A j \in (i + 1)..Len(s) : s[j] \in S
    BY <1>1
  <2>2. /\ b \in Seq(S)
        /\ Len(b) = IF i + 1 <= Len(s) THEN Len(s) - (i + 1) + 1 ELSE 0
        /\ \A j \in 1..(Len(s) - (i + 1) + 1) : b[j] = s[(i + 1) + j - 1]
    BY <1>1, <2>1, SubSeqProperties
  <2> QED BY <1>1, <2>2
<1> HIDE DEF a, b
<1>4. /\ a \o b \in Seq(S)
      /\ Len(a \o b) = Len(a) + Len(b)
      /\ \A j \in 1..(Len(a) + Len(b)) :
            (a \o b)[j] = IF j <= Len(a) THEN a[j] ELSE b[j - Len(a)]
  BY <1>2, <1>3, ConcatProperties
<1>5. RemoveAt(s, i) = a \o b
  BY DEF RemoveAt, a, b
<1>6. Len(a) + Len(b) = Len(s) - 1
  <2>1. Len(s) \in Int /\ i \in Int /\ Len(a) = i - 1 /\ Len(b) = Len(s) - i
    BY <1>1, <1>2, <1>3
  <2> QED BY ONLY <2>1
<1>7. ASSUME NEW j \in 1..(Len(s) - 1)
      PROVE  RemoveAt(s, i)[j] = IF j < i THEN s[j] ELSE s[j + 1]
  <2>1. RemoveAt(s, i)[j] = IF j <= Len(a) THEN a[j] ELSE b[j - Len(a)]
    <3>1. j \in 1..(Len(a) + Len(b))
      BY <1>6
    <3> QED BY <3>1, <1>4, <1>5
  <2>2. CASE j < i
    <3>1. j \in 1..(i - 1) /\ j <= Len(a)
      BY <1>1, <1>2, <2>2
    <3> QED BY <1>2, <2>1, <2>2, <3>1
  <2>3. CASE ~(j < i)
    <3>1. ~(j <= Len(a)) /\ j - Len(a) \in 1..(Len(s) - i) /\ i + (j - Len(a)) = j + 1
      BY <1>1, <1>2, <2>3
    <3> QED BY <1>3, <2>1, <2>3, <3>1
  <2> QED BY <2>2, <2>3
<1> QED BY <1>4, <1>5, <1>6, <1>7

\* What IsSchedule says of a single line.
LEMMA ScheduleLines ==
    ASSUME TypeOK, NEW l \in Lines
    PROVE  /\ schedule[l] \in [id : OriginalIds \cup {0}, name : Names \cup {NullDescriptor}]
           /\ schedule[l].name # NullDescriptor =>
                 schedule[l].name \in Names /\ schedule[l].id \in OriginalIds
           /\ schedule[l].name.parent \in Nat
<1>1. schedule[l] \in [id : OriginalIds \cup {0}, name : Names \cup {NullDescriptor}]
  <2> DEFINE Items == [id : OriginalIds \cup {0}, name : Names \cup {NullDescriptor}]
  <2>1. schedule \in Seq(Items)
    BY DEF TypeOK, IsSchedule
  <2>2. l \in 1..Len(schedule)
    BY DEF Lines
  <2> HIDE DEF Items
  <2>3. schedule[l] \in Items
    BY <2>1, <2>2
  <2> QED BY <2>3 DEF Items
<1>2. IsScheduleItem(schedule[l])
  BY DEF TypeOK, IsSchedule, Lines
<1>3. schedule[l].name.parent \in Nat
  <2>1. CASE schedule[l].name = NullDescriptor
    BY <2>1 DEF NullDescriptor
  <2>2. CASE schedule[l].name \in Names
    BY <2>2, ConstantFacts
  <2> QED BY <1>1, <2>1, <2>2
<1> QED BY <1>1, <1>2, <1>3 DEF IsScheduleItem

\* Patching a line keeps the patches well typed.
LEMMA PatchType ==
    ASSUME TypeOK, NEW l \in Lines
    PROVE  PatchLine(l) \in [Lines -> Nat \cup {Unpatched}]
<1>1. schedule[l].name.parent \in Nat
  BY ScheduleLines
<1>2. TranslateOldIdToNew(schedule[l].name.parent) \in Nat
  BY <1>1 DEF TypeOK, TranslateOldIdToNew
<1> QED BY <1>2 DEF TypeOK, PatchLine

\* An event action that runs is one of the known descriptors.
LEMMA MatchesType ==
    ASSUME TypeOK, NEW l \in Lines, schedule[l].name # NullDescriptor,
           NEW p \in [Lines -> Nat \cup {Unpatched}],
           p[l] = Unpatched \/ schedule[l].name.type = "DOMTimer",
           NEW n \in Matches(DescriptorOf(l, p))
    PROVE  n \in Names
<1>1. schedule[l].name \in Names
  BY ScheduleLines
<1>2. CASE n \in BestFuzzyMatches(DescriptorOf(l, p))
  BY <1>2 DEF BestFuzzyMatches, FuzzyCandidates, WaitingNames
<1>3. CASE CanRunExactly(DescriptorOf(l, p)) /\ n = DescriptorOf(l, p)
  <2>1. CASE DescriptorOf(l, p) \in WaitingNames
    BY <1>3, <2>1 DEF WaitingNames
  <2>2. CASE DescriptorOf(l, p).type \in ProviderTypes
    <3>0. DOMAIN schedule[l].name = {"type", "url", "seq", "parent"}
      BY <1>1, NamesAssumption DEF IsDescriptor
    <3>1. DescriptorOf(l, p).type = schedule[l].name.type
      BY <3>0 DEF DescriptorOf
    <3>2. p[l] = Unpatched
      BY <3>1, <2>2 DEF ProviderTypes
    <3> QED BY <3>2, <1>3, <1>1 DEF DescriptorOf
  <2> QED BY <1>3, <2>1, <2>2 DEF CanRunExactly
<1> QED BY <1>2, <1>3 DEF Matches

-----------------------------------------------------------------------------
(* Type correctness.  TypeOK alone is not inductive: that a returning handler
   finds a handler to pop and a line to remove needs ControlInv, and that a
   backlog line runs a known descriptor needs LineInv. *)

TypeInv == TypeOK /\ ControlInv /\ LineInv

\* The constructor establishes the type and control invariants.
LEMMA InitTypeInv == Init => TypeInv
<1> SUFFICES ASSUME Init PROVE TypeInv
  OBVIOUS
<1>1. IsSchedule(schedule)
  BY SchedulesAssumption DEF Init
<1>2. Len(schedule) \in Nat
  BY <1>1 DEF IsSchedule
<1>3. TypeOK
  <2>1. running \in Activities
    BY DEF Init, NoAction, Activities
  <2>2. FirstId \in Nat \ {0} /\ FirstId + 1 \in Nat \ {0}
    BY ConstantFacts
  <2>3. history \in Seq(HistoryEntries) /\ backlog \in Seq(Lines)
    BY DEF Init
  <2>4. next \in 1..(Len(schedule) + 1)
    BY <1>2 DEF Init
  <2> QED BY <1>1, <2>1, <2>2, <2>3, <2>4 DEF Init, TypeOK, Modes, States
<1>4. ControlInv
  BY DEF Init, ControlInv, NoAction
<1>5. LineInv
  BY DEF Init, LineInv, Lines
<1> QED BY <1>3, <1>4, <1>5 DEF TypeInv

\* The constructor's view of the schedule: nothing ever changes it.
LEMMA ScheduleFixed == ASSUME [Next]_vars PROVE schedule' = schedule
BY DEF Next, vars, EventActionScheduled, EventActionDescheduled,
       ExecuteDelayedEventActions, ExecuteDelayedEventAction, FinishSchedule,
       ExecuteFromBacklog, ConsumeToken, ExecuteNext, SkipNext, AwaitNext, Dispatch,
       EventActionReturns, EventActionTimeout, Timeout, ResizeEvent

\* State functions of the schedule alone do not change.
LEMMA FixedByStep ==
    ASSUME [Next]_vars
    PROVE  /\ Lines' = Lines
           /\ HistoryEntries' = HistoryEntries
           /\ Activities' = Activities
           /\ IsSchedule(schedule)' = IsSchedule(schedule)
BY ScheduleFixed DEF Lines, HistoryEntries, Activities

\* Starting an event action for a line of the schedule.
LEMMA DispatchType ==
    ASSUME TypeOK, NEW line \in Lines, schedule[line].name # NullDescriptor,
           NEW n \in Names, NEW src \in {"schedule", "backlog"}, NEW index \in Nat,
           Dispatch(line, n, src, index)
    PROVE  /\ running' \in Activities
           /\ running'.src = src /\ running'.index = index /\ running'.name = n
           /\ history' \in Seq(HistoryEntries)
           /\ idMap' \in [OriginalIds -> Nat]
<1>1. schedule[line].id \in OriginalIds
  BY ScheduleLines
<1>2. running' = [src |-> src, index |-> index, name |-> n]
  BY DEF Dispatch
<1>3. running' \in Activities
  BY <1>2 DEF Activities
<1>4. nextEventActionId \in Nat \ {0}
  BY DEF TypeOK
<1>5. [line |-> line, id |-> nextEventActionId, src |-> src, name |-> n] \in HistoryEntries
  BY <1>4 DEF HistoryEntries
<1>6. history' \in Seq(HistoryEntries)
  BY <1>5 DEF TypeOK, Dispatch
<1>7. idMap' \in [OriginalIds -> Nat]
  BY <1>1, <1>4 DEF TypeOK, Dispatch
<1> QED BY <1>2, <1>3, <1>6, <1>7

\* stop() keeps the types of the variables it writes, whether or not it was
\* called before.
LEMMA StopType ==
    ASSUME TypeOK, NEW st \in States, Stop(st)
    PROVE  /\ mode' \in Modes
           /\ state' \in States
           /\ doneEmitted' \in BOOLEAN
           /\ strictMode' \in BOOLEAN
           /\ status' \in States \cup {"none"}
BY DEF TypeOK, Stop, stopVars, Modes

\* The whole state of type correctness, spelled out for one step.
LEMMA TypeStep == ASSUME TypeInv, [Next]_vars PROVE TypeInv'
<1> USE DEF TypeInv
<1>0. /\ Lines' = Lines /\ HistoryEntries' = HistoryEntries /\ Activities' = Activities
      /\ schedule' = schedule /\ IsSchedule(schedule)'
  BY FixedByStep, ScheduleFixed DEF TypeOK
<1>1. ASSUME NEW n \in Names, EventActionScheduled(n) PROVE TypeInv'
  <2>1. TypeOK'
    BY <1>0, <1>1 DEF EventActionScheduled, TypeOK, schedulerVars, stopVars
  <2>2. ControlInv'
    BY <1>1 DEF EventActionScheduled, TypeOK, ControlInv, schedulerVars, NoAction
  <2>3. LineInv'
    BY <1>0, <1>1 DEF EventActionScheduled, LineInv, schedulerVars
  <2> QED BY <2>1, <2>2, <2>3
<1>2. ASSUME NEW n \in Names, EventActionDescheduled(n) PROVE TypeInv'
  <2>1. TypeOK'
    BY <1>0, <1>2 DEF EventActionDescheduled, TypeOK, schedulerVars, stopVars
  <2>2. ControlInv'
    BY <1>2 DEF EventActionDescheduled, TypeOK, ControlInv, schedulerVars, IsEmpty, NextIsToken
  <2>3. LineInv'
    BY <1>0, <1>2 DEF EventActionDescheduled, LineInv, schedulerVars
  <2> QED BY <2>1, <2>2, <2>3
<1>3. CASE ExecuteDelayedEventActions
  <2>1. TypeOK'
    BY <1>0, <1>3 DEF ExecuteDelayedEventActions, TypeOK, schedulerVars, stopVars
  <2>2. ControlInv'
    BY <1>3 DEF ExecuteDelayedEventActions, ControlInv, NoAction
  <2>3. LineInv'
    BY <1>0, <1>3 DEF ExecuteDelayedEventActions, LineInv, schedulerVars
  <2> QED BY <2>1, <2>2, <2>3
<1>4. CASE FinishSchedule
  <2>1. TypeOK'
    BY <1>0, <1>4, StopType DEF FinishSchedule, TypeOK, schedulerVars, States
  <2>2. ControlInv'
    BY <1>4 DEF FinishSchedule, ControlInv, NoAction
  <2>3. LineInv'
    BY <1>0, <1>4 DEF FinishSchedule, LineInv, schedulerVars
  <2> QED BY <2>1, <2>2, <2>3
<1>5. CASE ExecuteFromBacklog
  <2>1. PICK i \in RunnableBacklog : \E n \in Matches(DescriptorOf(backlog[i], patch)) :
                                       Dispatch(backlog[i], n, "backlog", i)
    BY <1>5 DEF ExecuteFromBacklog
  <2>2. PICK n \in Matches(DescriptorOf(backlog[i], patch)) :
                                       Dispatch(backlog[i], n, "backlog", i)
    BY <2>1
  <2>3. i \in 1..Len(backlog) /\ i \in Nat
    BY DEF RunnableBacklog, TypeOK
  <2>4. backlog[i] \in Lines /\ schedule[backlog[i]].name # NullDescriptor
    BY <2>3 DEF TypeOK, LineInv
  <2>5. n \in Names
    BY <2>4, MatchesType DEF TypeOK, LineInv
  <2>6. /\ running' \in Activities /\ history' \in Seq(HistoryEntries)
        /\ idMap' \in [OriginalIds -> Nat]
        /\ running'.src = "backlog" /\ running'.index = i /\ running'.name = n
    BY <2>2, <2>3, <2>4, <2>5, DispatchType
  <2>7. TypeOK'
    BY <1>0, <1>5, <2>2, <2>6 DEF ExecuteFromBacklog, Dispatch, TypeOK, stopVars
  <2>8. n.type \in ProviderTypes \/ waiting[n] > 0
    BY DEF Matches, CanRunExactly, BestFuzzyMatches, FuzzyCandidates, WaitingNames
  <2>9. ControlInv'
    BY <2>2, <2>3, <2>5, <2>6, <2>8 DEF Dispatch, ControlInv
  <2>10. LineInv'
    BY <1>0, <1>5, <2>2 DEF ExecuteFromBacklog, Dispatch, LineInv
  <2> QED BY <2>7, <2>9, <2>10
<1>6. CASE ConsumeToken
  <2>1. next \in Lines
    BY <1>6 DEF ConsumeToken, TryNext, IsEmpty, TypeOK, Lines, IsSchedule
  <2>2. next' \in 1..(Len(schedule) + 1)
    BY <1>6, <2>1 DEF ConsumeToken, Lines, TypeOK, IsSchedule
  <2>3. mode' \in Modes /\ strictMode' \in BOOLEAN
    BY <1>6 DEF ConsumeToken, RelaxMode, TryNext, AfterBacklog, Modes, TypeOK
  <2>4. TypeOK'
    BY <1>0, <1>6, <2>2, <2>3 DEF ConsumeToken, TypeOK
  <2>5. ControlInv'
    BY <1>6 DEF ConsumeToken, TryNext, ControlInv, NoAction
  <2>6. LineInv'
    BY <1>0, <1>6 DEF ConsumeToken, LineInv
  <2> QED BY <2>4, <2>5, <2>6
<1>7. CASE ExecuteNext
  <2>1. next \in Lines /\ schedule[next].name # NullDescriptor
    BY <1>7 DEF ExecuteNext, TryNext, NextIsToken, IsEmpty, TypeOK, Lines, IsSchedule
  <2>2. PICK n \in NextMatches : Dispatch(next, n, "schedule", 0)
    BY <1>7 DEF ExecuteNext
  <2>3. PatchLine(next) \in [Lines -> Nat \cup {Unpatched}]
    BY <2>1, PatchType
  <2>4. PatchLine(next)[next] = Unpatched \/ schedule[next].name.type = "DOMTimer"
    BY <2>1 DEF PatchLine, LineInv
  <2>5. n \in Names
    BY <2>1, <2>2, <2>3, <2>4, MatchesType DEF NextMatches
  <2>6. /\ running' \in Activities /\ history' \in Seq(HistoryEntries)
        /\ idMap' \in [OriginalIds -> Nat]
        /\ running'.src = "schedule" /\ running'.index = 0 /\ running'.name = n
    BY <2>1, <2>2, <2>5, DispatchType
  <2>7. strictMode' \in BOOLEAN
    BY <1>7 DEF ExecuteNext, TryNext, AfterBacklog, TypeOK
  <2>8. TypeOK'
    BY <1>0, <1>7, <2>2, <2>3, <2>6, <2>7 DEF ExecuteNext, Dispatch, TypeOK, stopVars
  <2>9. n.type \in ProviderTypes \/ waiting[n] > 0
    BY DEF NextMatches, Matches, CanRunExactly, BestFuzzyMatches, FuzzyCandidates, WaitingNames
  <2>10. ControlInv'
    BY <1>0, <1>7, <2>1, <2>2, <2>5, <2>6, <2>9
    DEF ExecuteNext, TryNext, Dispatch, ControlInv, IsEmpty, NextIsToken
  <2>11. LineInv'
    BY <1>0, <1>7, <2>1, <2>2 DEF ExecuteNext, Dispatch, LineInv, PatchLine, TypeOK
  <2> QED BY <2>8, <2>10, <2>11
<1>8. CASE SkipNext
  <2>1. next \in Lines /\ schedule[next].name # NullDescriptor
    BY <1>8 DEF SkipNext, TryNext, NextIsToken, IsEmpty, TypeOK, Lines, IsSchedule
  <2>2. PatchLine(next) \in [Lines -> Nat \cup {Unpatched}]
    BY <2>1, PatchType
  <2>3. next' \in 1..(Len(schedule) + 1)
    BY <1>8, <2>1 DEF SkipNext, Lines, TypeOK, IsSchedule
  <2>4. backlog' \in Seq(Lines)
    BY <1>8, <2>1 DEF SkipNext, TypeOK
  <2>5. strictMode' \in BOOLEAN
    BY <1>8 DEF SkipNext, TryNext, AfterBacklog, TypeOK
  <2>6. TypeOK'
    BY <1>0, <1>8, <2>2, <2>3, <2>4, <2>5 DEF SkipNext, TypeOK, stopVars
  <2>7. ControlInv'
    BY <1>8 DEF SkipNext, TryNext, ControlInv, NoAction
  <2>8. \A l \in Lines : PatchLine(next)[l] # Unpatched => schedule[l].name.type = "DOMTimer"
    BY <2>1 DEF PatchLine, LineInv, TypeOK
  <2>9. \A i \in 1..Len(backlog') : schedule[backlog'[i]].name # NullDescriptor
    BY <1>8, <2>1 DEF SkipNext, LineInv, TypeOK
  <2>10. LineInv'
    BY <1>0, <1>8, <2>8, <2>9 DEF SkipNext, LineInv
  <2> QED BY <2>6, <2>7, <2>10
<1>9. CASE AwaitNext
  <2>1. next \in Lines
    BY <1>9 DEF AwaitNext, TryNext, IsEmpty, TypeOK, Lines, IsSchedule
  <2>2. PatchLine(next) \in [Lines -> Nat \cup {Unpatched}]
    BY <2>1, PatchType
  <2>3. strictMode' \in BOOLEAN
    BY <1>9 DEF AwaitNext, TryNext, AfterBacklog, TypeOK
  <2>4. TypeOK'
    BY <1>0, <1>9, <2>2, <2>3 DEF AwaitNext, StartTimeout, TypeOK, stopVars
  <2>5. ControlInv'
    BY <1>9 DEF AwaitNext, TryNext, ControlInv, NoAction
  <2>6. LineInv'
    BY <1>0, <1>9, <2>1 DEF AwaitNext, LineInv, PatchLine, TypeOK
  <2> QED BY <2>4, <2>5, <2>6
<1>10. CASE EventActionReturns
  <2>1. running.src \in {"schedule", "backlog"} /\ running.name \in Names
    BY <1>10 DEF EventActionReturns, ControlInv, TypeOK, Activities
  <2>2. waiting' \in [Names -> Nat]
    BY <1>10, <2>1 DEF EventActionReturns, PopHandler, ControlInv, TypeOK
  <2>3. next' \in 1..(Len(schedule) + 1)
    <3>1. Len(schedule) \in Nat
      BY DEF TypeOK, IsSchedule
    <3> QED BY <1>10, <3>1 DEF EventActionReturns, ControlInv, TypeOK, IsEmpty
  <2>4. backlog' \in Seq(Lines)
    BY <1>10, <2>1, RemoveAtProperties DEF EventActionReturns, LeaveBacklog, ControlInv, TypeOK
  <2>5. running' \in Activities
    BY <1>10 DEF EventActionReturns, NoAction, Activities
  <2>6. TypeOK'
    <3>1. nextEventActionId' \in Nat \ {0} /\ hbNextId' \in Nat \ {0}
      BY <1>10 DEF EventActionReturns, AllocateNextId, TypeOK
    <3>2. /\ pc' = "loop"
          /\ UNCHANGED <<patch, idMap, mode, state, doneEmitted, status, history, globalTimer>>
      BY <1>10 DEF EventActionReturns, stopVars
    <3>3. /\ skipAfterNextTry' \in BOOLEAN /\ timeoutTimer' \in BOOLEAN
          /\ strictMode' \in BOOLEAN
      BY <1>10, Zenon DEF EventActionReturns, TypeOK
    <3> QED BY <1>0, <2>2, <2>3, <2>4, <2>5, <3>1, <3>2, <3>3 DEF TypeOK
  <2>7. ControlInv'
    BY <1>10 DEF EventActionReturns, ControlInv, NoAction
  <2>8. \A i \in 1..Len(backlog') : schedule[backlog'[i]].name # NullDescriptor
    <3>1. CASE running.src = "schedule"
      BY <1>10, <3>1 DEF EventActionReturns, LineInv
    <3>2. CASE running.src = "backlog"
      <4>1. backlog' = RemoveAt(backlog, running.index) /\ running.index \in 1..Len(backlog)
        BY <1>10, <3>2 DEF EventActionReturns, LeaveBacklog, ControlInv
      <4>2. /\ Len(backlog) \in Nat /\ Len(backlog') = Len(backlog) - 1
            /\ \A j \in 1..Len(backlog') :
                  \E k \in 1..Len(backlog) : backlog'[j] = backlog[k]
        <5>1. backlog \in Seq(Lines) /\ Len(backlog) \in Nat
          BY DEF TypeOK
        <5>2. /\ Len(backlog') = Len(backlog) - 1
              /\ \A j \in 1..(Len(backlog) - 1) :
                    backlog'[j] = IF j < running.index THEN backlog[j] ELSE backlog[j + 1]
          BY <4>1, <5>1, RemoveAtProperties
        <5> QED BY <5>1, <5>2
      <4> QED BY <4>2 DEF LineInv
    <3> QED BY <2>1, <3>1, <3>2
  <2>9. LineInv'
    BY <1>0, <1>10, <2>8 DEF EventActionReturns, LineInv
  <2> QED BY <2>6, <2>7, <2>9
<1>11. CASE EventActionTimeout
  <2>1. TypeOK'
    BY <1>0, <1>11, StopType, ZenonT(60) DEF EventActionTimeout, MissingIsError, TypeOK, stopVars, States
  <2>2. ControlInv'
    BY <1>11 DEF EventActionTimeout, ControlInv, IsEmpty, NextIsToken
  <2>3. LineInv'
    BY <1>0, <1>11 DEF EventActionTimeout, LineInv
  <2> QED BY <2>1, <2>2, <2>3
<1>12. CASE Timeout
  <2>1. TypeOK'
    BY <1>0, <1>12, StopType DEF Timeout, TypeOK, schedulerVars, States
  <2>2. ControlInv'
    BY <1>12 DEF Timeout, ControlInv, schedulerVars, IsEmpty, NextIsToken
  <2>3. LineInv'
    BY <1>0, <1>12 DEF Timeout, LineInv, schedulerVars
  <2> QED BY <2>1, <2>2, <2>3
<1>13. CASE ResizeEvent
  <2>1. TypeOK'
    BY <1>0, <1>13 DEF ResizeEvent, TypeOK, stopVars
  <2>2. ControlInv'
    BY <1>13 DEF ResizeEvent, ControlInv, IsEmpty, NextIsToken
  <2>3. LineInv'
    BY <1>0, <1>13 DEF ResizeEvent, LineInv
  <2> QED BY <2>1, <2>2, <2>3
<1>14. CASE UNCHANGED vars
  <2>1. TypeOK'
    BY <1>0, <1>14 DEF vars, TypeOK, schedulerVars, stopVars
  <2>2. ControlInv'
    BY <1>14 DEF vars, ControlInv, schedulerVars, IsEmpty, NextIsToken
  <2>3. LineInv'
    BY <1>0, <1>14 DEF vars, LineInv, schedulerVars
  <2> QED BY <2>1, <2>2, <2>3
<1> QED
  BY <1>1, <1>2, <1>3, <1>4, <1>5, <1>6, <1>7, <1>8, <1>9, <1>10, <1>11, <1>12,
     <1>13, <1>14
  DEF Next, ExecuteDelayedEventAction

\* Type correctness of the scheduler, for every schedule it may be given.
THEOREM TypeCorrect == Spec => [](TypeOK /\ ControlInv /\ LineInv)
<1>1. Init => TypeInv
  BY InitTypeInv
<1>2. TypeInv /\ [Next]_vars => TypeInv'
  BY TypeStep
<1>3. TypeInv <=> TypeOK /\ ControlInv /\ LineInv
  BY DEF TypeInv
<1> QED BY <1>1, <1>2, <1>3, PTL DEF Spec

-----------------------------------------------------------------------------
(* The verdict. *)

\* The scheduler never goes back in its schedule.
LEMMA NextGrows == ASSUME TypeOK, [Next]_vars PROVE next' = next \/ next' = next + 1
BY DEF Next, vars, schedulerVars, EventActionScheduled, EventActionDescheduled,
       ExecuteDelayedEventActions, ExecuteDelayedEventAction, FinishSchedule,
       ExecuteFromBacklog, ConsumeToken, ExecuteNext, SkipNext, AwaitNext, Dispatch,
       EventActionReturns, EventActionTimeout, Timeout, ResizeEvent

\* m_schedule only ever shrinks: a schedule that is used up stays used up.
LEMMA EmptyStaysEmpty == ASSUME TypeOK, [Next]_vars, IsEmpty PROVE IsEmpty'
<1>1. Len(schedule) \in Nat /\ next \in Nat
  BY DEF TypeOK, IsSchedule
<1> QED BY <1>1, NextGrows, ScheduleFixed DEF IsEmpty

\* A call of stop() with a verdict that is true of the schedule.
LEMMA StopVerdict ==
    ASSUME TypeOK, VerdictStands, NEW st \in States \ {"RUNNING"}, Stop(st),
           st = "FINISHED" => IsEmpty \/ mode = "STOP",
           IsEmpty => IsEmpty'
    PROVE  VerdictStands'
BY DEF TypeOK, VerdictStands, Stop, stopVars, States

\* A step that stops nothing and leaves the mode on one side of STOP.
LEMMA NoStopVerdict ==
    ASSUME VerdictStands, UNCHANGED <<state, doneEmitted, status>>,
           mode' = "STOP" <=> mode = "STOP",
           IsEmpty => IsEmpty'
    PROVE  VerdictStands'
BY DEF VerdictStands

\* No step disturbs the verdict: the status file, m_state and m_doneEmitted
\* change together and only once.
LEMMA VerdictStep == ASSUME TypeOK, VerdictStands, [Next]_vars PROVE VerdictStands'
<1>0. IsEmpty => IsEmpty'
  BY EmptyStaysEmpty
<1>1. CASE FinishSchedule
  BY <1>0, <1>1, StopVerdict DEF FinishSchedule, States
<1>2. CASE Timeout
  BY <1>0, <1>2, StopVerdict DEF Timeout, States
<1>3. CASE EventActionTimeout
  <2>1. CASE Stop("ERROR")
    BY <1>0, <2>1, StopVerdict DEF States
  <2>2. CASE UNCHANGED stopVars
    BY <1>0, <2>2, NoStopVerdict DEF stopVars
  <2> QED BY <1>3, <2>1, <2>2 DEF EventActionTimeout, MissingIsError
<1>4. CASE ConsumeToken
  BY <1>0, <1>4, NoStopVerdict DEF ConsumeToken, RelaxMode, TryNext
<1>5. CASE ~(FinishSchedule \/ Timeout \/ EventActionTimeout \/ ConsumeToken)
  <2>1. UNCHANGED stopVars
    BY <1>5
    DEF Next, vars, EventActionScheduled, EventActionDescheduled,
        ExecuteDelayedEventActions, ExecuteDelayedEventAction, ExecuteFromBacklog,
        ExecuteNext, SkipNext, AwaitNext, Dispatch, EventActionReturns, ResizeEvent
  <2> QED BY <1>0, <2>1, NoStopVerdict DEF stopVars
<1> QED BY <1>1, <1>2, <1>3, <1>4, <1>5

\* The verdict of a replay is written once, stays what the scheduler holds, and
\* is FINISHED only when no line of the schedule is left.
THEOREM VerdictCorrect == Spec => []VerdictStands
<1>1. Init => VerdictStands
  BY DEF Init, VerdictStands
<1>2. TypeOK /\ VerdictStands /\ [Next]_vars => VerdictStands'
  BY VerdictStep
<1> QED BY <1>1, <1>2, TypeCorrect, PTL DEF Spec

\* After sigDone no step dispatches an event action or changes m_state.
LEMMA DoneStep ==
    ASSUME TypeOK, VerdictStands, [Next]_vars, doneEmitted
    PROVE  history' = history /\ state' = state /\ doneEmitted'
<1>1. mode = "STOP"
  BY DEF VerdictStands
<1>2. ~ConsumeToken /\ ~ExecuteNext /\ ~ExecuteFromBacklog
  BY <1>1 DEF ConsumeToken, ExecuteNext, ExecuteFromBacklog, TryNext
<1>3. history' = history
  BY <1>2
  DEF Next, vars, EventActionScheduled, EventActionDescheduled,
      ExecuteDelayedEventActions, ExecuteDelayedEventAction, FinishSchedule,
      SkipNext, AwaitNext, EventActionReturns, EventActionTimeout, Timeout, ResizeEvent
<1>4. \A st \in States : Stop(st) => state' = state /\ doneEmitted' = doneEmitted
  BY DEF Stop, stopVars
<1>5. state' = state /\ doneEmitted' = doneEmitted
  BY <1>2, <1>4
  DEF Next, vars, EventActionScheduled, EventActionDescheduled,
      ExecuteDelayedEventActions, ExecuteDelayedEventAction, FinishSchedule,
      SkipNext, AwaitNext, EventActionReturns, EventActionTimeout, Timeout, ResizeEvent,
      stopVars, States, MissingIsError
<1> QED BY <1>3, <1>5

\* Once sigDone is emitted no event action starts and the verdict is kept.
THEOREM DoneIsFinal == Spec => NothingStartsAfterDone
<1>1. TypeOK /\ VerdictStands /\ [Next]_vars =>
        [doneEmitted => history' = history /\ state' = state /\ doneEmitted']_vars
  BY DoneStep
<1> QED BY <1>1, TypeCorrect, VerdictCorrect, PTL DEF Spec, NothingStartsAfterDone

-----------------------------------------------------------------------------
(* The order of event actions: no line is lost or run twice, ids follow the history, *)
(* and nothing is out of order before the second relax token.                        *)

\* The variables that say which line was started, put aside, or is running.
orderVars == <<next, backlog, history, running>>

\* Only six ways through the scheduler touch them.
LEMMA OrderUntouched ==
    ASSUME [Next]_vars,
           ~(ExecuteFromBacklog \/ ConsumeToken \/ ExecuteNext \/ SkipNext \/ EventActionReturns)
    PROVE  UNCHANGED orderVars
BY DEF Next, vars, schedulerVars, orderVars, EventActionScheduled, EventActionDescheduled,
       ExecuteDelayedEventActions, ExecuteDelayedEventAction, FinishSchedule, AwaitNext,
       EventActionTimeout, Timeout, ResizeEvent

\* Facts about the sequences and numbers that every case below uses.
LEMMA OrderTypes ==
    ASSUME TypeInv
    PROVE  /\ Len(schedule) \in Nat /\ Len(backlog) \in Nat /\ Len(history) \in Nat
           /\ next \in Nat /\ next >= 1 /\ next <= Len(schedule) + 1
           /\ Lines = 1..Len(schedule)
           /\ \A i \in 1..Len(backlog) : backlog[i] \in Lines
           /\ \A k \in 1..Len(history) : history[k] \in HistoryEntries /\ history[k].line \in Lines
<1>1. IsSchedule(schedule) /\ backlog \in Seq(Lines) /\ history \in Seq(HistoryEntries)
  BY DEF TypeInv, TypeOK
<1>2. Len(schedule) \in Nat /\ Len(backlog) \in Nat /\ Len(history) \in Nat
  BY <1>1 DEF IsSchedule
<1>3. next \in 1..(Len(schedule) + 1)
  BY DEF TypeInv, TypeOK
<1>4. \A i \in 1..Len(backlog) : backlog[i] \in Lines
  BY <1>1
<1>5. \A k \in 1..Len(history) : history[k] \in HistoryEntries
  BY <1>1
<1>6. \A k \in 1..Len(history) : history[k].line \in Lines
  BY <1>5 DEF HistoryEntries
<1> QED BY <1>2, <1>3, <1>4, <1>5, <1>6 DEF Lines

\* Starting an event action for a line: what becomes of history and running.
LEMMA DispatchOrder ==
    ASSUME TypeInv, NEW line \in Lines, schedule[line].name # NullDescriptor,
           NEW n \in Names, NEW src \in {"schedule", "backlog"}, NEW index \in Nat,
           Dispatch(line, n, src, index)
    PROVE  /\ UNCHANGED <<schedule, next, backlog, nextEventActionId, hbNextId>>
           /\ running' = [src |-> src, index |-> index, name |-> n]
           /\ running'.src = src /\ running'.index = index /\ running' # NoAction
           /\ Len(history') = Len(history) + 1
           /\ \A k \in 1..Len(history) : history'[k] = history[k]
           /\ LET new == history'[Len(history) + 1]
              IN  new.line = line /\ new.id = nextEventActionId /\ new.src = src /\ new.name = n
<1>1. running' = [src |-> src, index |-> index, name |-> n]
  BY DEF Dispatch
<1>2. running'.src = src /\ running'.index = index /\ running' # NoAction
  BY <1>1 DEF NoAction
<1> DEFINE e == [line |-> line, id |-> nextEventActionId, src |-> src, name |-> n]
<1>3. e \in HistoryEntries
  BY DEF HistoryEntries, TypeInv, TypeOK
<1>4. history \in Seq(HistoryEntries) /\ history' = Append(history, e)
  BY DEF TypeInv, TypeOK, Dispatch
<1> HIDE DEF e
<1>5. /\ Len(history') = Len(history) + 1
      /\ \A k \in 1..Len(history) : history'[k] = history[k]
      /\ history'[Len(history) + 1] = e
  BY <1>3, <1>4, AppendProperties
<1>6. UNCHANGED <<schedule, next, backlog, nextEventActionId, hbNextId>>
  BY DEF Dispatch
<1>7. e.line = line /\ e.id = nextEventActionId /\ e.src = src /\ e.name = n
  BY DEF e
<1> QED BY <1>1, <1>2, <1>5, <1>6, <1>7

\* The two ways to start an event action, with the line that is started.
LEMMA StartFromBacklog ==
    ASSUME TypeInv, ExecuteFromBacklog
    PROVE  /\ running = NoAction
           /\ \E i \in 1..Len(backlog), n \in Names :
                /\ backlog[i] \in Lines /\ schedule[backlog[i]].name # NullDescriptor
                /\ Dispatch(backlog[i], n, "backlog", i)
<1>1. PICK i \in RunnableBacklog : \E n \in Matches(DescriptorOf(backlog[i], patch)) :
                                       Dispatch(backlog[i], n, "backlog", i)
  BY DEF ExecuteFromBacklog
<1>2. PICK n \in Matches(DescriptorOf(backlog[i], patch)) : Dispatch(backlog[i], n, "backlog", i)
  BY <1>1
<1>3. i \in 1..Len(backlog)
  BY DEF RunnableBacklog
<1>4. backlog[i] \in Lines /\ schedule[backlog[i]].name # NullDescriptor
  BY <1>3, OrderTypes DEF TypeInv, LineInv
<1>5. n \in Names
  BY <1>4, MatchesType DEF TypeInv, TypeOK, LineInv
<1>6. running = NoAction
  BY DEF ExecuteFromBacklog, TypeInv, ControlInv
<1> QED BY <1>2, <1>3, <1>4, <1>5, <1>6

LEMMA StartFromSchedule ==
    ASSUME TypeInv, ExecuteNext
    PROVE  /\ running = NoAction
           /\ next \in Lines /\ schedule[next].name # NullDescriptor
           /\ \E n \in Names : n \in NextMatches /\ Dispatch(next, n, "schedule", 0)
<1>1. next \in Lines /\ schedule[next].name # NullDescriptor
  BY OrderTypes DEF ExecuteNext, TryNext, NextIsToken, IsEmpty
<1>2. PICK n \in NextMatches : Dispatch(next, n, "schedule", 0)
  BY DEF ExecuteNext
<1>3. PatchLine(next) \in [Lines -> Nat \cup {Unpatched}]
  BY <1>1, PatchType DEF TypeInv
<1>4. PatchLine(next)[next] = Unpatched \/ schedule[next].name.type = "DOMTimer"
  BY <1>1 DEF PatchLine, TypeInv, LineInv
<1>5. n \in Names
  BY <1>1, <1>2, <1>3, <1>4, MatchesType DEF NextMatches, TypeInv
<1>6. running = NoAction
  BY DEF ExecuteNext, TryNext, TypeInv, ControlInv
<1> QED BY <1>1, <1>2, <1>5, <1>6

\* What returns is what was running.
LEMMA ReturnsOrder ==
    ASSUME TypeInv, EventActionReturns
    PROVE  /\ running' = NoAction /\ history' = history
           /\ \/ /\ running.src = "schedule"
                 /\ next \in Lines /\ schedule[next].name # NullDescriptor
                 /\ next' = next + 1 /\ backlog' = backlog
              \/ /\ running.src = "backlog"
                 /\ running.index \in 1..Len(backlog)
                 /\ next' = next
                 /\ Len(backlog') = Len(backlog) - 1
                 /\ \A j \in 1..(Len(backlog) - 1) :
                       backlog'[j] = IF j < running.index THEN backlog[j] ELSE backlog[j + 1]
<1>1. running.src \in {"schedule", "backlog"}
  BY DEF EventActionReturns, TypeInv, ControlInv, TypeOK, Activities
<1>2. CASE running.src = "schedule"
  BY <1>2, OrderTypes DEF EventActionReturns, TypeInv, ControlInv, IsEmpty, NextIsToken
<1>3. CASE running.src = "backlog"
  <2>1. running.index \in 1..Len(backlog) /\ backlog \in Seq(Lines)
    BY <1>3 DEF TypeInv, ControlInv, TypeOK
  <2>2. backlog' = RemoveAt(backlog, running.index) /\ next' = next
    BY <1>3 DEF EventActionReturns, LeaveBacklog
  <2>3. /\ Len(backlog') = Len(backlog) - 1
        /\ \A j \in 1..(Len(backlog) - 1) :
              backlog'[j] = IF j < running.index THEN backlog[j] ELSE backlog[j + 1]
    BY <2>1, <2>2, RemoveAtProperties
  <2> QED BY <1>3, <2>1, <2>2, <2>3 DEF EventActionReturns
<1> QED BY <1>1, <1>2, <1>3

-----------------------------------------------------------------------------
(* No line is lost and none runs twice. *)

\* EachLineOnce is about the sets of started, put aside and passed lines.
LEMMA OnceFromSets ==
    ASSUME TypeInv, EachLineOnce, [Next]_vars,
           \A l \in PassedLines' \ PassedLines :
              schedule[l].name # NullDescriptor => (l \in StartedLines') # (l \in AsideLines'),
           \A l \in PassedLines' \cap PassedLines :
              schedule[l].name # NullDescriptor =>
                 ((l \in StartedLines') # (l \in AsideLines')
                  <=> (l \in StartedLines) # (l \in AsideLines)),
           StartedLines' \cup AsideLines' \subseteq PassedLines',
           \A j, k \in 1..Len(history') : history'[j].line = history'[k].line => j = k,
           \A j, k \in 1..Len(backlog') : backlog'[j] = backlog'[k] => j = k
    PROVE  EachLineOnce'
<1>1. schedule' = schedule
  BY ScheduleFixed
<1>2. \A l \in PassedLines' :
         schedule[l].name # NullDescriptor => (l \in StartedLines') # (l \in AsideLines')
  BY DEF EachLineOnce
<1> QED BY <1>1, <1>2 DEF EachLineOnce

\* The lines started after one more event action was started.
LEMMA StartedGrows ==
    ASSUME TypeInv, NEW line \in Lines, line \notin StartedLines,
           Len(history') = Len(history) + 1,
           \A k \in 1..Len(history) : history'[k] = history[k],
           history'[Len(history) + 1].line = line,
           EachLineOnce
    PROVE  /\ StartedLines' = StartedLines \cup {line}
           /\ \A j, k \in 1..Len(history') : history'[j].line = history'[k].line => j = k
<1>1. Len(history) \in Nat
  BY OrderTypes
<1>2. \A k \in 1..Len(history) : history[k].line # line
  BY DEF StartedLines
<1>3. \A j, k \in 1..Len(history') : history'[j].line = history'[k].line => j = k
  BY <1>1, <1>2 DEF EachLineOnce
<1>4. StartedLines' = StartedLines \cup {line}
  BY <1>1 DEF StartedLines
<1> QED BY <1>3, <1>4

\* Outside a handler the whole backlog is aside and next is not yet passed.
LEMMA AtRest ==
    ASSUME TypeInv, running = NoAction
    PROVE  /\ AsideLines = {backlog[i] : i \in 1..Len(backlog)}
           /\ PassedLines = 1..(next - 1)
BY DEF AsideLines, PassedLines, NoAction

\* Each step keeps every line once.
LEMMA OnceStep == ASSUME TypeInv, EachLineOnce, [Next]_vars PROVE EachLineOnce'
<1>0. /\ Len(schedule) \in Nat /\ Len(backlog) \in Nat /\ Len(history) \in Nat
      /\ next \in Nat /\ next >= 1 /\ next <= Len(schedule) + 1 /\ Lines = 1..Len(schedule)
      /\ schedule' = schedule
  BY OrderTypes, ScheduleFixed
<1>1. CASE ExecuteFromBacklog
  <2>1. PICK i \in 1..Len(backlog), n \in Names :
             /\ backlog[i] \in Lines /\ schedule[backlog[i]].name # NullDescriptor
             /\ Dispatch(backlog[i], n, "backlog", i)
    BY <1>1, StartFromBacklog
  <2>2. running = NoAction
    BY <1>1, StartFromBacklog
  <2> DEFINE l0 == backlog[i]
  <2>3. /\ UNCHANGED <<next, backlog>>
        /\ running'.src = "backlog" /\ running'.index = i
        /\ Len(history') = Len(history) + 1
        /\ \A k \in 1..Len(history) : history'[k] = history[k]
        /\ history'[Len(history) + 1].line = l0
    <3>1. i \in Nat /\ "backlog" \in {"schedule", "backlog"}
      OBVIOUS
    <3> HIDE DEF l0
    <3>2. l0 \in Lines /\ schedule[l0].name # NullDescriptor /\ Dispatch(l0, n, "backlog", i)
      BY <2>1 DEF l0
    <3> QED BY <3>1, <3>2, DispatchOrder
  <2>4. l0 \in AsideLines /\ l0 \in PassedLines
    BY <2>2, AtRest DEF EachLineOnce
  <2>5. l0 \notin StartedLines
    BY <2>1, <2>4 DEF EachLineOnce
  <2>6. /\ StartedLines' = StartedLines \cup {l0}
        /\ \A j, k \in 1..Len(history') : history'[j].line = history'[k].line => j = k
    BY <2>1, <2>3, <2>5, StartedGrows
  <2>7. AsideLines' = AsideLines \ {l0}
    <3>1. AsideLines' = {backlog[k] : k \in {j \in 1..Len(backlog) : i # j}}
      BY <2>3 DEF AsideLines
    <3>2. \A k \in 1..Len(backlog) : backlog[k] = l0 => k = i
      BY DEF EachLineOnce
    <3>3. AsideLines = {backlog[k] : k \in 1..Len(backlog)}
      BY <2>2, AtRest
    <3> QED BY <3>1, <3>2, <3>3
  <2>8. PassedLines' = PassedLines
    BY <2>2, <2>3 DEF PassedLines, NoAction
  <2>9. \A j, k \in 1..Len(backlog') : backlog'[j] = backlog'[k] => j = k
    BY <2>3 DEF EachLineOnce
  <2> HIDE DEF l0
  <2> QED BY <2>4, <2>5, <2>6, <2>7, <2>8, <2>9, OnceFromSets DEF EachLineOnce
<1>2. CASE ExecuteNext
  <2>1. /\ running = NoAction /\ next \in Lines
        /\ \E n \in Names : Dispatch(next, n, "schedule", 0)
    BY <1>2, StartFromSchedule
  <2>2. PICK n \in Names : Dispatch(next, n, "schedule", 0)
    BY <2>1
  <2>3. /\ UNCHANGED <<next, backlog>>
        /\ running'.src = "schedule"
        /\ Len(history') = Len(history) + 1
        /\ \A k \in 1..Len(history) : history'[k] = history[k]
        /\ history'[Len(history) + 1].line = next
    <3>1. schedule[next].name # NullDescriptor
      BY <1>2, StartFromSchedule
    <3> QED BY <2>1, <2>2, <3>1, DispatchOrder
  <2>4. AsideLines' = AsideLines
    BY <2>1, <2>3 DEF AsideLines, NoAction
  <2>5. PassedLines = 1..(next - 1) /\ PassedLines' = 1..next
    BY <2>1, <2>3, AtRest DEF PassedLines
  <2>6. next \notin StartedLines /\ next \notin AsideLines
    BY <1>0, <2>5 DEF EachLineOnce
  <2>7. /\ StartedLines' = StartedLines \cup {next}
        /\ \A j, k \in 1..Len(history') : history'[j].line = history'[k].line => j = k
    BY <2>1, <2>3, <2>6, StartedGrows
  <2>8. \A j, k \in 1..Len(backlog') : backlog'[j] = backlog'[k] => j = k
    BY <2>3 DEF EachLineOnce
  <2>9. PassedLines' = PassedLines \cup {next}
    BY <1>0, <2>5
  <2>10. next \notin PassedLines
    BY <1>0, <2>5
  <2> QED BY <2>4, <2>6, <2>7, <2>8, <2>9, <2>10, OnceFromSets DEF EachLineOnce
<1>3. CASE ConsumeToken
  <2>1. /\ running = NoAction /\ running' = NoAction
        /\ next' = next + 1 /\ UNCHANGED <<backlog, history>>
        /\ schedule[next].name = NullDescriptor
    BY <1>3 DEF ConsumeToken, TryNext, TypeInv, ControlInv, NextIsToken
  <2>2. AsideLines' = AsideLines /\ StartedLines' = StartedLines
    BY <2>1 DEF AsideLines, StartedLines
  <2>3. PassedLines = 1..(next - 1) /\ PassedLines' = 1..(next' - 1)
    BY <2>1 DEF PassedLines, NoAction
  <2>4. PassedLines' = PassedLines \cup {next}
    BY <1>0, <2>1, <2>3
  <2>5. /\ \A j, k \in 1..Len(history') : history'[j].line = history'[k].line => j = k
        /\ \A j, k \in 1..Len(backlog') : backlog'[j] = backlog'[k] => j = k
    BY <2>1 DEF EachLineOnce
  <2> QED BY <2>1, <2>2, <2>4, <2>5, OnceFromSets DEF EachLineOnce
<1>4. CASE SkipNext
  <2>1. /\ running = NoAction /\ running' = NoAction
        /\ next' = next + 1 /\ backlog' = Append(backlog, next) /\ UNCHANGED history
        /\ next \in Lines /\ backlog \in Seq(Lines)
    BY <1>0, <1>4 DEF SkipNext, TryNext, TypeInv, TypeOK, ControlInv, IsEmpty
  <2>2. /\ Len(backlog') = Len(backlog) + 1
        /\ \A i \in 1..Len(backlog) : backlog'[i] = backlog[i]
        /\ backlog'[Len(backlog) + 1] = next
    BY <2>1, AppendProperties
  <2>3. PassedLines = 1..(next - 1) /\ PassedLines' = 1..(next' - 1)
    BY <2>1 DEF PassedLines, NoAction
  <2>4. PassedLines' = PassedLines \cup {next} /\ next \notin PassedLines
    BY <1>0, <2>1, <2>3
  <2>5. next \notin StartedLines /\ next \notin AsideLines
    BY <2>4 DEF EachLineOnce
  <2>6. StartedLines' = StartedLines
    BY <2>1 DEF StartedLines
  <2>7. AsideLines = {backlog[i] : i \in 1..Len(backlog)}
    BY <2>1, AtRest
  <2>8. AsideLines' = {backlog'[i] : i \in 1..Len(backlog')}
    BY <2>1 DEF AsideLines, NoAction
  <2>9. AsideLines' = AsideLines \cup {next}
    BY <1>0, <2>2, <2>7, <2>8
  <2>10. \A j, k \in 1..Len(backlog') : backlog'[j] = backlog'[k] => j = k
    <3>1. \A i \in 1..Len(backlog) : backlog[i] # next
      BY <2>5, <2>7
    <3> QED BY <1>0, <2>2, <3>1 DEF EachLineOnce
  <2>11. \A j, k \in 1..Len(history') : history'[j].line = history'[k].line => j = k
    BY <2>1 DEF EachLineOnce
  <2> QED BY <2>4, <2>5, <2>6, <2>9, <2>10, <2>11, OnceFromSets DEF EachLineOnce
<1>5. CASE EventActionReturns
  <2>0. running' = NoAction /\ history' = history
    BY <1>5, ReturnsOrder
  <2>1. StartedLines' = StartedLines
    BY <2>0 DEF StartedLines
  <2>2. /\ AsideLines' = {backlog'[i] : i \in 1..Len(backlog')}
        /\ PassedLines' = 1..(next' - 1)
    BY <2>0 DEF AsideLines, PassedLines, NoAction
  <2>3. \A j, k \in 1..Len(history') : history'[j].line = history'[k].line => j = k
    BY <2>0 DEF EachLineOnce
  <2>4. CASE running.src = "schedule"
    <3>1. next' = next + 1 /\ backlog' = backlog
      BY <1>5, <2>4, ReturnsOrder
    <3>2. AsideLines' = AsideLines
      BY <2>2, <2>4, <3>1 DEF AsideLines
    <3>3. PassedLines' = PassedLines
      BY <1>0, <2>2, <2>4, <3>1 DEF PassedLines
    <3>4. \A j, k \in 1..Len(backlog') : backlog'[j] = backlog'[k] => j = k
      BY <3>1 DEF EachLineOnce
    <3> QED BY <2>1, <2>3, <3>2, <3>3, <3>4, OnceFromSets DEF EachLineOnce
  <2>5. CASE running.src = "backlog"
    <3> DEFINE r == running.index
    <3>1. /\ r \in 1..Len(backlog) /\ next' = next /\ Len(backlog') = Len(backlog) - 1
          /\ \A j \in 1..(Len(backlog) - 1) :
                backlog'[j] = IF j < r THEN backlog[j] ELSE backlog[j + 1]
      BY <1>5, <2>5, ReturnsOrder
    <3>2. AsideLines = {backlog[i] : i \in {j \in 1..Len(backlog) : r # j}}
      BY <2>5 DEF AsideLines
    <3> HIDE DEF r
    <3>3. AsideLines' \subseteq AsideLines
      <4>1. ASSUME NEW j \in 1..Len(backlog')
            PROVE  \E i \in 1..Len(backlog) : r # i /\ backlog'[j] = backlog[i]
        <5>1. CASE j < r
          <6>1. j \in 1..Len(backlog) /\ r # j /\ backlog'[j] = backlog[j]
            BY <1>0, <3>1, <5>1
          <6> QED BY <6>1
        <5>2. CASE ~(j < r)
          <6>1. j + 1 \in 1..Len(backlog) /\ r # j + 1 /\ backlog'[j] = backlog[j + 1]
            BY <1>0, <3>1, <5>2
          <6> QED BY <6>1
        <5> QED BY <5>1, <5>2
      <4> QED BY <2>2, <3>2, <4>1
    <3>4. AsideLines \subseteq AsideLines'
      <4>1. ASSUME NEW i \in 1..Len(backlog), r # i
            PROVE  \E j \in 1..Len(backlog') : backlog'[j] = backlog[i]
        <5>1. CASE i < r
          <6>1. i \in 1..Len(backlog') /\ backlog'[i] = backlog[i]
            BY <1>0, <3>1, <5>1
          <6> QED BY <6>1
        <5>2. CASE ~(i < r)
          <6>1. i - 1 \in 1..(Len(backlog) - 1) /\ ~(i - 1 < r) /\ (i - 1) + 1 = i
            BY <1>0, <3>1, <4>1, <5>2
          <6>2. backlog'[i - 1] = backlog[i]
            BY <3>1, <6>1
          <6> QED BY <3>1, <6>1, <6>2
        <5> QED BY <5>1, <5>2
      <4> QED BY <2>2, <3>2, <4>1
    <3>5. PassedLines' = PassedLines
      BY <2>2, <2>5, <3>1 DEF PassedLines
    <3>6. \A j, k \in 1..Len(backlog') : backlog'[j] = backlog'[k] => j = k
      BY <1>0, <3>1, SMTT(60) DEF EachLineOnce
    <3> QED BY <2>1, <2>3, <3>3, <3>4, <3>5, <3>6, OnceFromSets DEF EachLineOnce
  <2> QED BY <1>5, <2>4, <2>5, ReturnsOrder
<1>6. CASE ~(ExecuteFromBacklog \/ ConsumeToken \/ ExecuteNext \/ SkipNext \/ EventActionReturns)
  BY <1>0, <1>6, OrderUntouched, SMTT(60)
  DEF EachLineOnce, orderVars, PassedLines, StartedLines, AsideLines
<1> QED BY <1>1, <1>2, <1>3, <1>4, <1>5, <1>6

\* No line of a schedule is lost and none is run twice, whatever the schedule,
\* and however timeouts, skips and late arrivals interleave.
THEOREM LinesOnce == Spec => []EachLineOnce
<1>1. Init => EachLineOnce
  <2> SUFFICES ASSUME Init PROVE EachLineOnce
    OBVIOUS
  <2>1. /\ next = 1 /\ running = NoAction /\ history = <<>> /\ backlog = <<>>
        /\ Len(history) = 0 /\ Len(backlog) = 0
    BY DEF Init
  <2>2. PassedLines = {} /\ StartedLines = {} /\ AsideLines = {}
    BY <2>1 DEF PassedLines, StartedLines, AsideLines, NoAction
  <2> QED BY <2>1, <2>2 DEF EachLineOnce
<1>2. TypeInv /\ EachLineOnce /\ [Next]_vars => EachLineOnce'
  BY OnceStep
<1>3. TypeInv <=> TypeOK /\ ControlInv /\ LineInv
  BY DEF TypeInv
<1> QED BY <1>1, <1>2, <1>3, TypeCorrect, PTL DEF Spec

-----------------------------------------------------------------------------
(* Ids. *)

\* What is started is a line that was not started before.
LEMMA StartsFreshLine ==
    ASSUME TypeInv, EachLineOnce, ExecuteFromBacklog \/ ExecuteNext
    PROVE  /\ running = NoAction
           /\ \E line \in Lines, n \in Names, src \in {"schedule", "backlog"}, index \in Nat :
                /\ schedule[line].name # NullDescriptor /\ line \notin StartedLines
                /\ Dispatch(line, n, src, index)
<1>1. CASE ExecuteFromBacklog
  <2>1. PICK i \in 1..Len(backlog), n \in Names :
             /\ backlog[i] \in Lines /\ schedule[backlog[i]].name # NullDescriptor
             /\ Dispatch(backlog[i], n, "backlog", i)
    BY <1>1, StartFromBacklog
  <2>2. running = NoAction
    BY <1>1, StartFromBacklog
  <2>3. backlog[i] \in AsideLines
    BY <2>2, AtRest
  <2>4. backlog[i] \notin StartedLines
    BY <2>1, <2>3 DEF EachLineOnce
  <2>5. i \in Nat
    OBVIOUS
  <2> QED BY <2>1, <2>2, <2>4, <2>5
<1>2. CASE ExecuteNext
  <2>1. /\ running = NoAction /\ next \in Lines /\ schedule[next].name # NullDescriptor
        /\ \E n \in Names : Dispatch(next, n, "schedule", 0)
    BY <1>2, StartFromSchedule
  <2>2. PassedLines = 1..(next - 1)
    BY <2>1, AtRest
  <2>3. next \notin StartedLines
    BY <2>2, OrderTypes DEF EachLineOnce
  <2> QED BY <2>1, <2>3
<1> QED BY <1>1, <1>2

\* The strengthening of IdsFollowHistory: the id given to the next event action
\* was allocated, only lines with an id are started, and the translation holds
\* nothing but started lines.
IdsInv ==
    /\ IdsFollowHistory
    /\ nextEventActionId < hbNextId
    /\ \A k \in 1..Len(history) : schedule[history[k].line].name # NullDescriptor
    /\ \A i \in OriginalIds : idMap[i] # 0 =>
          \E k \in 1..Len(history) : schedule[history[k].line].id = i

\* Starting a fresh line gives it the next id and translates it.
LEMMA StartIds ==
    ASSUME TypeInv, EachLineOnce, IdsInv, running = NoAction, schedule' = schedule,
           NEW line \in Lines, NEW n \in Names, NEW src \in {"schedule", "backlog"},
           NEW index \in Nat,
           schedule[line].name # NullDescriptor, line \notin StartedLines,
           Dispatch(line, n, src, index)
    PROVE  IdsInv'
<1> DEFINE oldId == schedule[line].id
           lineId(k) == schedule[history[k].line].id
           last == Len(history) + 1
<1>0. /\ Len(history) \in Nat /\ Lines = 1..Len(schedule)
      /\ \A k \in 1..Len(history) : history[k] \in HistoryEntries /\ history[k].line \in Lines
  BY OrderTypes
<1>1. /\ Len(history') = last
      /\ \A k \in 1..Len(history) : history'[k] = history[k]
      /\ history'[last].line = line /\ history'[last].id = nextEventActionId
      /\ nextEventActionId' = nextEventActionId /\ hbNextId' = hbNextId
      /\ running' # NoAction
  BY DispatchOrder
<1>2. oldId \in OriginalIds /\ oldId # 0
  BY ScheduleLines, ConstantFacts DEF TypeInv
<1>3. \A k \in 1..Len(history) : lineId(k) \in OriginalIds /\ lineId(k) # 0
  BY <1>0, ScheduleLines, ConstantFacts DEF IdsInv, TypeInv
<1>4. \A l, m \in Lines : schedule[l].id = schedule[m].id /\ schedule[l].id # 0 => l = m
  BY <1>0 DEF TypeInv, TypeOK, IsSchedule
<1>5. \A k \in 1..Len(history) : history[k].line # line
  BY DEF StartedLines
<1>6. \A k \in 1..Len(history) : lineId(k) # oldId
  BY <1>0, <1>2, <1>4, <1>5
<1>7. idMap[oldId] = 0
  BY <1>2, <1>6 DEF IdsInv
<1>8. idMap' = [idMap EXCEPT ![oldId] = nextEventActionId] /\ idMap \in [OriginalIds -> Nat]
  BY <1>7 DEF Dispatch, TypeInv, TypeOK
<1>9. nextEventActionId \in Nat /\ hbNextId \in Nat /\ nextEventActionId < hbNextId
  BY DEF TypeInv, TypeOK, IdsInv
<1>10. /\ \A k \in 1..Len(history) : history[k].id < nextEventActionId /\ history[k].id \in Nat
       /\ \A k \in 1..Len(history) : idMap[lineId(k)] = history[k].id
  BY <1>0 DEF IdsInv, IdsFollowHistory, HistoryEntries
<1>11. \A k \in 1..last : k \in 1..Len(history) \/ k = last
  BY <1>0
<1>12. \A j, k \in 1..last : j < k => history'[j].id < history'[k].id
  <2> SUFFICES ASSUME NEW j \in 1..last, NEW k \in 1..last, j < k
               PROVE  history'[j].id < history'[k].id
    OBVIOUS
  <2>1. j \in 1..Len(history)
    BY <1>0
  <2>2. CASE k = last
    BY <1>1, <1>10, <2>1, <2>2
  <2>3. CASE k \in 1..Len(history)
    BY <1>1, <2>1, <2>3 DEF IdsInv, IdsFollowHistory
  <2> QED BY <1>11, <2>2, <2>3
<1>13. ASSUME NEW k \in 1..last
       PROVE  /\ history'[k].id < hbNextId
              /\ idMap'[schedule[history'[k].line].id] = history'[k].id
              /\ schedule[history'[k].line].name # NullDescriptor
  <2>1. CASE k = last
    BY <1>1, <1>2, <1>8, <1>9, <2>1
  <2>2. CASE k \in 1..Len(history)
    <3>1. history'[k] = history[k] /\ history[k].id < hbNextId
      BY <1>1, <1>9, <1>10, <2>2
    <3>2. idMap'[lineId(k)] = idMap[lineId(k)]
      BY <1>3, <1>6, <1>8, <2>2
    <3> QED BY <1>10, <2>2, <3>1, <3>2 DEF IdsInv
  <2> QED BY <1>11, <2>1, <2>2
<1>14. ASSUME NEW i \in OriginalIds, idMap'[i] # 0
       PROVE  \E k \in 1..last : schedule[history'[k].line].id = i
  <2>1. CASE i = oldId
    <3>1. last \in 1..last /\ schedule[history'[last].line].id = i
      BY <1>0, <1>1, <2>1
    <3> QED BY <3>1
  <2>2. CASE i # oldId
    <3>1. idMap[i] # 0
      BY <1>8, <1>14, <2>2
    <3>2. PICK k \in 1..Len(history) : lineId(k) = i
      BY <3>1 DEF IdsInv
    <3>3. k \in 1..last /\ schedule[history'[k].line].id = i
      BY <1>0, <1>1, <3>2
    <3> QED BY <3>3
  <2> QED BY <2>1, <2>2
<1> HIDE DEF last, lineId, oldId
<1>15. IdsFollowHistory'
  BY <1>1, <1>12, <1>13 DEF IdsFollowHistory
<1> QED BY <1>1, <1>9, <1>13, <1>14, <1>15 DEF IdsInv

LEMMA IdsStep ==
    ASSUME TypeInv, EachLineOnce, IdsInv, [Next]_vars
    PROVE  IdsInv'
<1>0. /\ schedule' = schedule /\ Len(history) \in Nat
      /\ nextEventActionId \in Nat /\ hbNextId \in Nat
      /\ \A k \in 1..Len(history) : history[k] \in HistoryEntries /\ history[k].id \in Nat
  <2>1. \A k \in 1..Len(history) : history[k] \in HistoryEntries
    BY OrderTypes
  <2>2. \A k \in 1..Len(history) : history[k].id \in Nat
    BY <2>1 DEF HistoryEntries
  <2> QED BY <2>1, <2>2, OrderTypes, ScheduleFixed DEF TypeInv, TypeOK
<1>1. CASE ExecuteFromBacklog \/ ExecuteNext
  BY <1>0, <1>1, StartsFreshLine, StartIds
<1>2. CASE EventActionReturns
  <2>1. /\ history' = history /\ idMap' = idMap
        /\ nextEventActionId' = hbNextId /\ hbNextId' = hbNextId + 1 /\ running' = NoAction
    BY <1>2 DEF EventActionReturns, AllocateNextId
  <2>2. \A k \in 1..Len(history) : history[k].id < hbNextId
    <3>1. running # NoAction
      BY <1>2 DEF EventActionReturns, TypeInv, ControlInv, NoAction
    <3> QED BY <3>1 DEF IdsInv, IdsFollowHistory
  <2>3. nextEventActionId' < hbNextId'
    BY <1>0, <2>1
  <2> QED BY <1>0, <2>1, <2>2, <2>3 DEF IdsInv, IdsFollowHistory
<1>3. CASE ResizeEvent
  <2>1. /\ hbNextId' = hbNextId + 1
        /\ UNCHANGED <<history, idMap, nextEventActionId, running>>
    BY <1>3 DEF ResizeEvent
  <2>2. \A k \in 1..Len(history) :
           history[k].id < (IF running = NoAction THEN nextEventActionId ELSE hbNextId + 1)
    BY <1>0 DEF IdsInv, IdsFollowHistory
  <2>3. nextEventActionId' < hbNextId'
    BY <1>0, <2>1 DEF IdsInv
  <2> QED BY <1>0, <2>1, <2>2, <2>3 DEF IdsInv, IdsFollowHistory
<1>4. CASE ~(ExecuteFromBacklog \/ ExecuteNext \/ EventActionReturns \/ ResizeEvent)
  <2>1. UNCHANGED <<history, idMap, nextEventActionId, hbNextId, running>>
    BY <1>4 DEF Next, vars, schedulerVars, EventActionScheduled, EventActionDescheduled,
       ExecuteDelayedEventActions, ExecuteDelayedEventAction, FinishSchedule, AwaitNext,
       SkipNext, ConsumeToken, EventActionTimeout, Timeout
  <2> QED BY <1>0, <2>1 DEF IdsInv, IdsFollowHistory
<1> QED BY <1>1, <1>2, <1>3, <1>4

\* Types, lines and ids together, as later theorems use them.
LEMMA IdsAlways == Spec => [](TypeInv /\ EachLineOnce /\ IdsInv)
<1>1. Init => IdsInv
  <2> SUFFICES ASSUME Init PROVE IdsInv
    OBVIOUS
  <2>1. /\ history = <<>> /\ Len(history) = 0 /\ nextEventActionId = FirstId
        /\ hbNextId = FirstId + 1 /\ idMap = [i \in OriginalIds |-> 0]
    BY DEF Init
  <2>2. nextEventActionId < hbNextId
    BY <2>1, ConstantFacts
  <2> QED BY <2>1, <2>2 DEF IdsInv, IdsFollowHistory
<1>2. TypeInv /\ EachLineOnce /\ IdsInv /\ [Next]_vars => IdsInv'
  BY IdsStep
<1>3. TypeInv <=> TypeOK /\ ControlInv /\ LineInv
  BY DEF TypeInv
<1> QED BY <1>1, <1>2, <1>3, TypeCorrect, LinesOnce, PTL DEF Spec

\* Event actions get increasing ids in the order they start, and the translation
\* of recorded to new ids is exactly what the dispatch history shows.
THEOREM IdsCorrect == Spec => []IdsFollowHistory
<1>1. IdsInv => IdsFollowHistory
  BY DEF IdsInv
<1> QED BY <1>1, IdsAlways, PTL

-----------------------------------------------------------------------------
(* Strictness: what the relax tokens in front of a line allow. *)

\* The tokens in front of a line, one line at a time.
LEMMA TokensStep ==
    ASSUME NEW l \in Nat, l >= 1
    PROVE  TokensBefore(l + 1) =
              IF schedule[l].name = NullDescriptor THEN TokensBefore(l) \cup {l}
                                                   ELSE TokensBefore(l)
BY DEF TokensBefore

\* A line behind a relaxed one is relaxed.
LEMMA RelaxedMonotone ==
    ASSUME NEW l \in Nat, NEW m \in Nat, l <= m, Relaxed(l)
    PROVE  Relaxed(m)
<1>1. TokensBefore(l) \subseteq TokensBefore(m)
  BY DEF TokensBefore
<1> QED BY <1>1 DEF Relaxed

\* The tokens of a schedule are where they were.
LEMMA TokensFixed ==
    ASSUME [Next]_vars
    PROVE  /\ \A l \in Nat : TokensBefore(l)' = TokensBefore(l)
           /\ \A l \in Nat : Relaxed(l)' = Relaxed(l)
BY ScheduleFixed DEF TokensBefore, Relaxed

\* The mode counts the tokens that were consumed; a skip is only ever announced,
\* and a line only ever put aside, behind the second one.
ModeInv ==
    /\ mode = "STRICT" => TokensBefore(next) = {}
    /\ mode = "BEST_EFFORT_NOND" => \E t \in Nat : TokensBefore(next) = {t}
    /\ mode = "BEST_EFFORT" => Relaxed(next)
    /\ skipAfterNextTry => Relaxed(next)
    /\ \A i \in 1..Len(backlog) : Relaxed(backlog[i])

\* A step that leaves mode, next and backlog alone.
LEMMA ModeUntouched ==
    ASSUME TypeInv, ModeInv, [Next]_vars, UNCHANGED <<next, backlog>>,
           mode' = mode \/ mode' = "STOP",
           skipAfterNextTry' = skipAfterNextTry \/ mode = "BEST_EFFORT"
    PROVE  ModeInv'
<1>1. next \in Nat /\ \A i \in 1..Len(backlog) : backlog[i] \in Nat
  BY OrderTypes
<1>2. /\ (TokensBefore(next))' = TokensBefore(next)
      /\ (Relaxed(next))' = Relaxed(next)
      /\ \A i \in 1..Len(backlog') : Relaxed(backlog[i])' = Relaxed(backlog[i])
  BY <1>1, ScheduleFixed DEF TokensBefore, Relaxed
<1>3. skipAfterNextTry' => skipAfterNextTry \/ mode = "BEST_EFFORT"
  BY Zenon
<1> QED BY <1>2, <1>3 DEF ModeInv

LEMMA ModeStep == ASSUME TypeInv, ModeInv, [Next]_vars PROVE ModeInv'
<1>0. /\ next \in Nat /\ next >= 1 /\ schedule' = schedule /\ Len(backlog) \in Nat
      /\ Lines = 1..Len(schedule) /\ Len(schedule) \in Nat
      /\ \A i \in 1..Len(backlog) : backlog[i] \in Nat
  BY OrderTypes, ScheduleFixed
<1>1. /\ (TokensBefore(next + 1))' = TokensBefore(next' + 1)
      /\ \A l \in Nat : TokensBefore(l)' = TokensBefore(l) /\ Relaxed(l)' = Relaxed(l)
  BY <1>0, TokensFixed DEF TokensBefore
<1>2. ASSUME next' = next + 1, schedule[next].name # NullDescriptor
      PROVE  (TokensBefore(next))' = TokensBefore(next) /\ (Relaxed(next))' = Relaxed(next)
  <2>1. TokensBefore(next + 1) = TokensBefore(next)
    BY <1>0, <1>2, TokensStep
  <2>2. (TokensBefore(next))' = TokensBefore(next + 1)
    BY <1>0, <1>2 DEF TokensBefore
  <2> QED BY <2>1, <2>2 DEF Relaxed
<1>3. CASE ConsumeToken
  <2>1. /\ next' = next + 1 /\ schedule[next].name = NullDescriptor /\ backlog' = backlog
        /\ mode' = RelaxMode(mode) /\ mode \in Modes \ {"STOP"} /\ skipAfterNextTry' = FALSE
    BY <1>3 DEF ConsumeToken, TryNext, NextIsToken, TypeInv, TypeOK
  <2>2. (TokensBefore(next))' = TokensBefore(next) \cup {next}
    <3>1. TokensBefore(next + 1) = TokensBefore(next) \cup {next}
      BY <1>0, <2>1, TokensStep
    <3>2. (TokensBefore(next))' = TokensBefore(next + 1)
      BY <1>0, <2>1 DEF TokensBefore
    <3> QED BY <3>1, <3>2
  <2>3. next \notin TokensBefore(next)
    BY <1>0 DEF TokensBefore
  <2>4. \A i \in 1..Len(backlog') : Relaxed(backlog[i])'
    BY <1>0, <2>1 DEF ModeInv, Relaxed, TokensBefore
  <2>5. CASE mode = "STRICT"
    BY <1>0, <2>1, <2>2, <2>4, <2>5 DEF ModeInv, RelaxMode
  <2>6. CASE mode = "BEST_EFFORT_NOND"
    <3>1. PICK t \in Nat : TokensBefore(next) = {t}
      BY <2>6 DEF ModeInv
    <3>2. (Relaxed(next))'
      BY <2>2, <2>3, <3>1 DEF Relaxed
    <3> QED BY <2>1, <2>4, <2>6, <3>2 DEF ModeInv, RelaxMode
  <2>7. CASE mode = "BEST_EFFORT"
    <3>1. (Relaxed(next))'
      BY <2>2, <2>7 DEF ModeInv, Relaxed
    <3> QED BY <2>1, <2>4, <2>7, <3>1 DEF ModeInv, RelaxMode
  <2> QED BY <2>1, <2>5, <2>6, <2>7 DEF Modes
<1>4. CASE SkipNext
  <2>1. /\ next' = next + 1 /\ schedule[next].name # NullDescriptor
        /\ skipAfterNextTry /\ UNCHANGED <<mode, skipAfterNextTry>>
        /\ backlog' = Append(backlog, next) /\ next \in Lines /\ backlog \in Seq(Lines)
    BY <1>0, <1>4 DEF SkipNext, TryNext, NextIsToken, IsEmpty, stopVars, TypeInv, TypeOK
  <2>2. /\ Len(backlog') = Len(backlog) + 1
        /\ \A i \in 1..Len(backlog) : backlog'[i] = backlog[i]
        /\ backlog'[Len(backlog) + 1] = next
    BY <2>1, AppendProperties
  <2>3. Relaxed(next)
    BY <2>1 DEF ModeInv
  <2>4. ASSUME NEW i \in 1..Len(backlog') PROVE Relaxed(backlog[i])'
    <3>1. backlog'[i] = next \/ (i \in 1..Len(backlog) /\ backlog'[i] = backlog[i])
      BY <1>0, <2>2
    <3>2. PICK l \in Nat : backlog'[i] = l /\ Relaxed(l)
      BY <1>0, <2>3, <3>1 DEF ModeInv
    <3>3. Relaxed(l)'
      BY <1>1, <3>2
    <3> QED BY <3>2, <3>3 DEF Relaxed, TokensBefore
  <2>5. (TokensBefore(next))' = TokensBefore(next) /\ (Relaxed(next))' = Relaxed(next)
    BY <1>2, <2>1
  <2> QED BY <2>1, <2>4, <2>5 DEF ModeInv
<1>5. CASE EventActionReturns
  <2>1. UNCHANGED mode
    BY <1>5 DEF EventActionReturns, stopVars
  <2>2. CASE running.src = "schedule"
    <3>1. /\ next' = next + 1 /\ schedule[next].name # NullDescriptor /\ backlog' = backlog
          /\ skipAfterNextTry' = FALSE
      BY <1>5, <2>2, ReturnsOrder DEF EventActionReturns
    <3>2. (TokensBefore(next))' = TokensBefore(next) /\ (Relaxed(next))' = Relaxed(next)
      BY <1>2, <3>1
    <3>3. \A i \in 1..Len(backlog') : Relaxed(backlog[i])'
      BY <1>0, <3>1 DEF ModeInv, Relaxed, TokensBefore
    <3> QED BY <2>1, <3>1, <3>2, <3>3 DEF ModeInv
  <2>3. CASE running.src = "backlog"
    <3>1. /\ next' = next /\ Len(backlog') = Len(backlog) - 1
          /\ skipAfterNextTry' = skipAfterNextTry
          /\ \A j \in 1..(Len(backlog) - 1) :
                backlog'[j] = IF j < running.index THEN backlog[j] ELSE backlog[j + 1]
      BY <1>5, <2>3, ReturnsOrder DEF EventActionReturns
    <3>2. ASSUME NEW i \in 1..Len(backlog') PROVE Relaxed(backlog[i])'
      <4>1. \E k \in 1..Len(backlog) : backlog'[i] = backlog[k]
        BY <1>0, <3>1
      <4>2. PICK l \in Nat : backlog'[i] = l /\ Relaxed(l)
        BY <1>0, <4>1 DEF ModeInv
      <4>3. Relaxed(l)'
        BY <1>1, <4>2
      <4> QED BY <4>2, <4>3 DEF Relaxed, TokensBefore
    <3>3. (TokensBefore(next))' = TokensBefore(next) /\ (Relaxed(next))' = Relaxed(next)
      BY <1>0, <3>1 DEF TokensBefore, Relaxed
    <3> QED BY <2>1, <3>1, <3>2, <3>3 DEF ModeInv
  <2> QED BY <1>5, <2>2, <2>3, ReturnsOrder
<1>6. CASE ~(ConsumeToken \/ SkipNext \/ EventActionReturns)
  <2>1. UNCHANGED <<next, backlog>>
    BY <1>6 DEF Next, vars, schedulerVars, EventActionScheduled, EventActionDescheduled,
       ExecuteDelayedEventActions, ExecuteDelayedEventAction, FinishSchedule, AwaitNext,
       ExecuteNext, ExecuteFromBacklog, Dispatch, EventActionTimeout, Timeout, ResizeEvent
  <2>2. /\ mode' = mode \/ mode' = "STOP"
        /\ skipAfterNextTry' = skipAfterNextTry \/ mode = "BEST_EFFORT"
    <3>1. CASE EventActionTimeout
      BY <3>1 DEF EventActionTimeout, MissingIsError, Stop, stopVars
    <3>2. CASE Timeout
      BY <3>2 DEF Timeout, Stop, stopVars, schedulerVars
    <3>3. CASE FinishSchedule
      BY <3>3 DEF FinishSchedule, Stop, stopVars, schedulerVars
    <3>4. CASE ~(EventActionTimeout \/ Timeout \/ FinishSchedule)
      BY <1>6, <3>4 DEF Next, vars, schedulerVars, stopVars, EventActionScheduled,
         EventActionDescheduled, ExecuteDelayedEventActions, ExecuteDelayedEventAction,
         AwaitNext, ExecuteNext, ExecuteFromBacklog, Dispatch, ResizeEvent
    <3> QED BY <3>1, <3>2, <3>3, <3>4
  <2> QED BY <2>1, <2>2, ModeUntouched
<1> QED BY <1>3, <1>4, <1>5, <1>6

\* A patch is only ever added, for the line that is tried, which has not run.
LEMMA PatchSteps ==
    ASSUME TypeInv, EachLineOnce, [Next]_vars
    PROVE  \/ patch' = patch
           \/ /\ patch' = PatchLine(next)
              /\ next \in Lines /\ running = NoAction /\ next \notin StartedLines
<1>1. CASE ExecuteNext \/ SkipNext \/ AwaitNext
  <2>1. patch' = PatchLine(next) /\ TryNext
    BY <1>1 DEF ExecuteNext, SkipNext, AwaitNext
  <2>2. running = NoAction /\ next \in Lines
    BY <2>1, OrderTypes DEF TryNext, TypeInv, ControlInv, IsEmpty
  <2>3. PassedLines = 1..(next - 1)
    BY <2>2, AtRest
  <2>4. next \notin StartedLines
    BY <2>3, OrderTypes DEF EachLineOnce
  <2> QED BY <2>1, <2>2, <2>4
<1>2. CASE ~(ExecuteNext \/ SkipNext \/ AwaitNext)
  BY <1>2 DEF Next, vars, schedulerVars, EventActionScheduled, EventActionDescheduled,
     ExecuteDelayedEventActions, ExecuteDelayedEventAction, FinishSchedule,
     ExecuteFromBacklog, Dispatch, ConsumeToken, EventActionReturns, EventActionTimeout,
     Timeout, ResizeEvent
<1> QED BY <1>1, <1>2

\* The descriptor of a line that was started is final.
LEMMA StartedKeepDescriptor ==
    ASSUME TypeInv, EachLineOnce, [Next]_vars, NEW l \in StartedLines
    PROVE  DescriptorOf(l, patch)' = DescriptorOf(l, patch)
<1>1. l \in Lines
  BY OrderTypes DEF StartedLines
<1>2. patch'[l] = patch[l]
  <2>1. CASE patch' = PatchLine(next) /\ next # l
    BY <1>1, <2>1 DEF PatchLine, TypeInv, TypeOK
  <2> QED BY <2>1, PatchSteps
<1> QED BY <1>2, ScheduleFixed DEF DescriptorOf

\* One more entry in the history, in order and exact unless its line is relaxed.
LEMMA StrictGrows ==
    ASSUME TypeInv, EachLineOnce, StrictUntilRelaxed, [Next]_vars,
           Len(history') = Len(history) + 1,
           \A k \in 1..Len(history) : history'[k] = history[k],
           LET new == history'[Len(history) + 1]
           IN  /\ new.line \in Nat
               /\ ~Relaxed(new.line) =>
                    /\ new.src = "schedule"
                    /\ new.name = DescriptorOf(new.line, patch')
                    /\ \A l \in StartedLines : l < new.line
    PROVE  StrictUntilRelaxed'
<1>0. /\ Len(history) \in Nat /\ schedule' = schedule
      /\ \A k \in 1..Len(history) : history[k].line \in Nat /\ history[k].line \in StartedLines
  BY OrderTypes, ScheduleFixed DEF StartedLines
<1> SUFFICES ASSUME NEW k \in 1..Len(history'), ~Relaxed(history[k].line)'
             PROVE  /\ history'[k].src = "schedule"
                    /\ history'[k].name = DescriptorOf(history[k].line, patch)'
                    /\ \A j \in 1..(k - 1) : history'[j].line < history'[k].line
  BY DEF StrictUntilRelaxed
<1>1. CASE k \in 1..Len(history)
  <2>1. history'[k] = history[k] /\ Relaxed(history[k].line)' = Relaxed(history[k].line)
    BY <1>0, <1>1 DEF Relaxed, TokensBefore
  <2>2. PICK l \in StartedLines : history[k].line = l
    BY <1>0, <1>1
  <2>3. DescriptorOf(l, patch)' = DescriptorOf(l, patch)
    BY StartedKeepDescriptor
  <2>4. DescriptorOf(history[k].line, patch)' = DescriptorOf(history[k].line, patch)
    BY <1>0, <2>1, <2>2, <2>3 DEF DescriptorOf
  <2>5. \A j \in 1..(k - 1) : history'[j] = history[j]
    BY <1>0, <1>1
  <2> QED BY <1>0, <1>1, <2>1, <2>4, <2>5 DEF StrictUntilRelaxed
<1>2. CASE k = Len(history) + 1
  <2>1. ~Relaxed(history'[k].line)
    BY <1>0, <1>2 DEF Relaxed, TokensBefore
  <2>2. DescriptorOf(history[k].line, patch)' = DescriptorOf(history'[k].line, patch')
    BY <1>0 DEF DescriptorOf
  <2>3. \A j \in 1..(k - 1) : history'[j] = history[j] /\ j \in 1..Len(history)
    BY <1>0, <1>2
  <2> QED BY <1>0, <1>2, <2>1, <2>2, <2>3
<1> QED BY <1>0, <1>1, <1>2

LEMMA StrictStep ==
    ASSUME TypeInv, EachLineOnce, ModeInv, StrictUntilRelaxed, [Next]_vars
    PROVE  StrictUntilRelaxed'
<1>0. schedule' = schedule /\ Len(history) \in Nat /\ Len(backlog) \in Nat /\ next \in Nat
  BY OrderTypes, ScheduleFixed
<1>1. CASE ExecuteFromBacklog
  <2>1. PICK i \in 1..Len(backlog), n \in Names :
             /\ backlog[i] \in Lines /\ schedule[backlog[i]].name # NullDescriptor
             /\ Dispatch(backlog[i], n, "backlog", i)
    BY <1>1, StartFromBacklog
  <2> DEFINE l0 == backlog[i]
  <2>2. Relaxed(l0) /\ i \in Nat
    BY DEF ModeInv
  <2>3. l0 \in Lines /\ schedule[l0].name # NullDescriptor /\ Dispatch(l0, n, "backlog", i)
    BY <2>1
  <2> HIDE DEF l0
  <2>4. /\ Len(history') = Len(history) + 1
        /\ \A k \in 1..Len(history) : history'[k] = history[k]
        /\ history'[Len(history) + 1].line = l0
    BY <2>2, <2>3, DispatchOrder
  <2>5. l0 \in Nat
    BY <2>3 DEF Lines
  <2> QED BY <2>2, <2>4, <2>5, StrictGrows
<1>2. CASE ExecuteNext
  <2>1. /\ running = NoAction /\ next \in Lines /\ schedule[next].name # NullDescriptor
        /\ \E n \in Names : n \in NextMatches /\ Dispatch(next, n, "schedule", 0)
    BY <1>2, StartFromSchedule
  <2>2. PICK n \in Names : n \in NextMatches /\ Dispatch(next, n, "schedule", 0)
    BY <2>1
  <2>3. /\ Len(history') = Len(history) + 1
        /\ \A k \in 1..Len(history) : history'[k] = history[k]
        /\ LET new == history'[Len(history) + 1]
           IN  new.line = next /\ new.src = "schedule" /\ new.name = n
    BY <2>1, <2>2, DispatchOrder
  <2>4. patch' = PatchLine(next)
    BY <1>2 DEF ExecuteNext
  <2>5. ~Relaxed(next) => n = DescriptorOf(next, patch')
    <3>1. ~Relaxed(next) => ~skipAfterNextTry
      BY DEF ModeInv
    <3> QED BY <2>2, <2>4, <3>1 DEF NextMatches, Matches
  <2>6. \A l \in StartedLines : l < next
    <3>1. PassedLines = 1..(next - 1)
      BY <2>1, AtRest
    <3> QED BY <1>0, <3>1 DEF EachLineOnce
  <2> QED BY <1>0, <2>3, <2>5, <2>6, StrictGrows
<1>3. CASE ~(ExecuteFromBacklog \/ ExecuteNext)
  <2>1. history' = history
    BY <1>3, OrderUntouched DEF orderVars, ConsumeToken, SkipNext, EventActionReturns
  <2>2. ASSUME NEW k \in 1..Len(history)
        PROVE  /\ Relaxed(history[k].line)' = Relaxed(history[k].line)
               /\ DescriptorOf(history[k].line, patch)' = DescriptorOf(history[k].line, patch)
    <3>1. PICK l \in StartedLines : history[k].line = l
      BY DEF StartedLines
    <3>2. DescriptorOf(l, patch)' = DescriptorOf(l, patch)
      BY StartedKeepDescriptor
    <3> QED BY <1>0, <2>1, <3>1, <3>2 DEF DescriptorOf, Relaxed, TokensBefore
  <2> QED BY <2>1, <2>2 DEF StrictUntilRelaxed
<1> QED BY <1>1, <1>2, <1>3

\* Types, lines, ids and modes together, as the later theorems use them.
LEMMA ModeAlways == Spec => [](TypeInv /\ EachLineOnce /\ IdsInv /\ ModeInv)
<1>1. Init => ModeInv
  <2> SUFFICES ASSUME Init PROVE ModeInv
    OBVIOUS
  <2>1. next = 1 /\ mode = "STRICT" /\ skipAfterNextTry = FALSE /\ Len(backlog) = 0
    BY DEF Init
  <2>2. TokensBefore(next) = {}
    BY <2>1 DEF TokensBefore
  <2> QED BY <2>1, <2>2 DEF ModeInv
<1>2. TypeInv /\ ModeInv /\ [Next]_vars => ModeInv'
  BY ModeStep
<1> QED BY <1>1, <1>2, IdsAlways, PTL DEF Spec

\* In front of the second relax token nothing runs out of order, from the
\* backlog, or under another name than the recorded one with its patch.
THEOREM StrictOrder == Spec => []StrictUntilRelaxed
<1>1. Init => StrictUntilRelaxed
  BY DEF Init, StrictUntilRelaxed
<1>2. /\ TypeInv /\ EachLineOnce /\ IdsInv /\ ModeInv
      /\ StrictUntilRelaxed /\ [Next]_vars
      => StrictUntilRelaxed'
  BY StrictStep
<1> QED BY <1>1, <1>2, ModeAlways, PTL DEF Spec

-----------------------------------------------------------------------------
(* Timers set by replayed event actions. *)

\* A translation, once made, is final.
LEMMA IdMapSteps ==
    ASSUME TypeInv, EachLineOnce, [Next]_vars, NEW i \in OriginalIds, idMap[i] # 0
    PROVE  idMap'[i] = idMap[i]
<1>1. CASE ExecuteFromBacklog \/ ExecuteNext
  <2>1. \E line \in Lines, n \in Names, src \in {"schedule", "backlog"}, index \in Nat :
            Dispatch(line, n, src, index)
    BY <1>1, StartsFreshLine
  <2> QED BY <2>1 DEF Dispatch, TypeInv, TypeOK
<1>2. CASE ~(ExecuteFromBacklog \/ ExecuteNext)
  BY <1>2 DEF Next, vars, schedulerVars, EventActionScheduled, EventActionDescheduled,
     ExecuteDelayedEventActions, ExecuteDelayedEventAction, FinishSchedule, AwaitNext,
     SkipNext, ConsumeToken, EventActionReturns, EventActionTimeout, Timeout, ResizeEvent
<1> QED BY <1>1, <1>2

\* In front of the second token, a recorded event action that comes before the
\* line being tried was started, and so has been translated.
LEMMA StrictParentStarted ==
    ASSUME TypeInv, EachLineOnce, IdsInv, ModeInv, running = NoAction,
           next \in Lines, ~Relaxed(next),
           NEW i \in 1..(next - 1), schedule[i].id # 0
    PROVE  schedule[i].id \in OriginalIds /\ idMap[schedule[i].id] # 0
<1>0. /\ next \in Nat /\ i \in Lines /\ i <= next /\ i \in Nat /\ Lines = 1..Len(schedule)
  BY OrderTypes
<1>1. schedule[i].name # NullDescriptor
  BY <1>0 DEF TypeInv, TypeOK, IsSchedule, IsScheduleItem
<1>2. schedule[i].id \in OriginalIds
  BY <1>0, <1>1, ScheduleLines DEF TypeInv
<1>3. i \in PassedLines
  BY AtRest
<1>4. ~Relaxed(i)
  BY <1>0, RelaxedMonotone
<1>5. i \notin AsideLines
  BY <1>4, AtRest DEF ModeInv
<1>6. PICK k \in 1..Len(history) : history[k].line = i
  BY <1>1, <1>3, <1>5 DEF EachLineOnce, StartedLines
<1>7. idMap[schedule[i].id] = history[k].id
  BY <1>6 DEF IdsInv, IdsFollowHistory
<1>8. history[k].id # 0
  BY OrderTypes DEF HistoryEntries
<1> QED BY <1>2, <1>7, <1>8

\* What the property says of one line.
LEMMA TimersStep ==
    ASSUME TypeInv, EachLineOnce, IdsInv, ModeInv, StrictTimersFollowParent, [Next]_vars
    PROVE  StrictTimersFollowParent'
<1>0. schedule' = schedule /\ Lines' = Lines
  BY ScheduleFixed, FixedByStep
<1> SUFFICES ASSUME NEW l \in Lines,
                    patch'[l] # Unpatched, ~Relaxed(l),
                    NEW i \in 1..(l - 1),
                    schedule[i].id = schedule[l].name.parent,
                    schedule[l].name.parent # 0
             PROVE  /\ patch'[l] = idMap'[schedule[l].name.parent]
                    /\ idMap'[schedule[l].name.parent] # 0
  BY <1>0, TokensFixed DEF StrictTimersFollowParent, Relaxed, TokensBefore
<1> DEFINE parent == schedule[l].name.parent
<1>1. CASE patch[l] # Unpatched
  <2>1. patch[l] = idMap[parent] /\ idMap[parent] # 0
    BY <1>1 DEF StrictTimersFollowParent
  <2>2. patch'[l] = patch[l]
    BY <1>1, PatchSteps DEF PatchLine, TypeInv, TypeOK
  <2>3. parent \in OriginalIds
    <3>1. i \in Lines
      BY OrderTypes
    <3> QED BY <3>1, ScheduleLines DEF TypeInv
  <2> QED BY <2>1, <2>2, <2>3, IdMapSteps
<1>2. CASE patch[l] = Unpatched
  <2>1. /\ patch' = PatchLine(next) /\ next \in Lines /\ running = NoAction
    BY <1>2, PatchSteps
  <2>2. l = next
    BY <1>2, <2>1 DEF PatchLine, TypeInv, TypeOK
  <2>3. patch'[l] = TranslateOldIdToNew(parent)
    BY <1>2, <2>1, <2>2 DEF PatchLine, TypeInv, TypeOK
  <2>4. parent \in OriginalIds /\ idMap[parent] # 0
    BY <2>1, <2>2, StrictParentStarted
  <2> QED BY <2>3, <2>4, IdMapSteps DEF TranslateOldIdToNew
<1> QED BY <1>1, <1>2

\* A DOM timer line replayed strictly waits for the timer its replayed parent
\* set: its patch is the new id of the parent, never the recorded one.
THEOREM TimersFollowParent == Spec => []StrictTimersFollowParent
<1>1. Init => StrictTimersFollowParent
  BY DEF Init, StrictTimersFollowParent, Lines
<1>2. /\ TypeInv /\ EachLineOnce /\ IdsInv /\ ModeInv
      /\ StrictTimersFollowParent /\ [Next]_vars
      => StrictTimersFollowParent'
  BY TimersStep
<1> QED BY <1>1, <1>2, ModeAlways, PTL DEF Spec

-----------------------------------------------------------------------------
(* The refinement: the initial states of the scheduler map to initial      *)
(* states of ReplayPromise and each of its steps to one step of the        *)
(* promise or to none.                                                     *)

Ids == OriginalIds \cup {0}

\* A function on 1..n is a sequence of length n.
LEMMA FunctionIsSeq ==
    ASSUME NEW S, NEW n \in Nat, NEW f \in [1..n -> S]
    PROVE  f \in Seq(S) /\ Len(f) = n
BY SeqDef

\* The ids of a sequence of lines.
LEMMA IdsOfType ==
    ASSUME TypeOK, NEW s \in Seq(Lines)
    PROVE  /\ IdsOf(s) \in Seq(Ids)
           /\ Len(IdsOf(s)) = Len(s)
           /\ \A i \in 1..Len(s) : IdsOf(s)[i] = schedule[s[i]].id
<1>1. \A i \in 1..Len(s) : schedule[s[i]].id \in Ids
  BY ScheduleLines DEF Ids
<1>2. IdsOf(s) \in [1..Len(s) -> Ids] /\ Len(s) \in Nat
  BY <1>1 DEF IdsOf
<1>3. \A i \in 1..Len(s) : IdsOf(s)[i] = schedule[s[i]].id
  BY DEF IdsOf
<1> QED BY <1>2, <1>3, FunctionIsSeq

LEMMA IdsOfAppend ==
    ASSUME TypeOK, NEW s \in Seq(Lines), NEW l \in Lines
    PROVE  IdsOf(Append(s, l)) = Append(IdsOf(s), schedule[l].id)
<1> DEFINE a == Append(s, l)
<1>0. Len(s) \in Nat
  OBVIOUS
<1>1. /\ a \in Seq(Lines) /\ Len(a) = Len(s) + 1
      /\ \A i \in 1..Len(s) : a[i] = s[i]
      /\ a[Len(s) + 1] = l
  BY AppendProperties
<1> HIDE DEF a
<1>2. /\ IdsOf(a) \in Seq(Ids) /\ Len(IdsOf(a)) = Len(s) + 1
      /\ \A i \in 1..(Len(s) + 1) : IdsOf(a)[i] = schedule[a[i]].id
  BY <1>1, IdsOfType
<1>3. /\ IdsOf(s) \in Seq(Ids) /\ Len(IdsOf(s)) = Len(s)
      /\ \A i \in 1..Len(s) : IdsOf(s)[i] = schedule[s[i]].id
  BY IdsOfType
<1>4. schedule[l].id \in Ids
  BY ScheduleLines DEF Ids
<1> DEFINE b == Append(IdsOf(s), schedule[l].id)
<1>5. /\ b \in Seq(Ids) /\ Len(b) = Len(s) + 1
      /\ \A i \in 1..Len(s) : b[i] = IdsOf(s)[i]
      /\ b[Len(s) + 1] = schedule[l].id
  BY <1>3, <1>4, AppendProperties
<1> HIDE DEF b
<1>6. \A i \in 1..(Len(s) + 1) : IdsOf(a)[i] = b[i]
  BY <1>0, <1>1, <1>2, <1>3, <1>5, SMTT(60)
<1>7. IdsOf(a) = b
  BY <1>2, <1>5, <1>6, SeqEqual
<1> QED BY <1>7 DEF a, b

LEMMA IdsOfRemoveAt ==
    ASSUME TypeOK, NEW s \in Seq(Lines), NEW i \in 1..Len(s)
    PROVE  IdsOf(RemoveAt(s, i)) = RemoveAt(IdsOf(s), i)
<1> DEFINE a == RemoveAt(s, i)
<1>0. Len(s) \in Nat
  OBVIOUS
<1>1. /\ a \in Seq(Lines) /\ Len(a) = Len(s) - 1
      /\ \A j \in 1..(Len(s) - 1) : a[j] = IF j < i THEN s[j] ELSE s[j + 1]
  BY RemoveAtProperties
<1> HIDE DEF a
<1>2. /\ IdsOf(a) \in Seq(Ids) /\ Len(IdsOf(a)) = Len(s) - 1
      /\ \A j \in 1..(Len(s) - 1) : IdsOf(a)[j] = schedule[a[j]].id
  BY <1>1, IdsOfType
<1> DEFINE t == IdsOf(s)
<1>3. /\ t \in Seq(Ids) /\ Len(t) = Len(s)
      /\ \A j \in 1..Len(s) : t[j] = schedule[s[j]].id
  BY IdsOfType
<1> HIDE DEF t
<1> DEFINE b == RemoveAt(t, i)
<1>4. /\ b \in Seq(Ids) /\ Len(b) = Len(s) - 1
      /\ \A j \in 1..(Len(s) - 1) : b[j] = IF j < i THEN t[j] ELSE t[j + 1]
  BY <1>3, RemoveAtProperties
<1> HIDE DEF b
<1>5. \A j \in 1..(Len(s) - 1) : j \in 1..Len(s) /\ j + 1 \in 1..Len(s)
  BY <1>0
<1>6. \A j \in 1..(Len(s) - 1) : IdsOf(a)[j] = b[j]
  BY <1>1, <1>2, <1>3, <1>4, <1>5, ZenonT(60)
<1>7. IdsOf(a) = b
  BY <1>2, <1>4, <1>6, SeqEqual
<1> QED BY <1>7 DEF a, b, t

\* The ids from line f on.
TodoFrom(f) == [i \in 1..(Len(schedule) + 1 - f) |-> schedule[f + i - 1].id]

LEMMA TodoFromType ==
    ASSUME TypeOK, NEW f \in 1..(Len(schedule) + 1)
    PROVE  /\ TodoFrom(f) \in Seq(Ids)
           /\ Len(TodoFrom(f)) = Len(schedule) + 1 - f
           /\ \A i \in 1..(Len(schedule) + 1 - f) : TodoFrom(f)[i] = schedule[f + i - 1].id
<1>0. Len(schedule) \in Nat /\ Len(schedule) + 1 - f \in Nat
  BY DEF TypeOK, IsSchedule
<1>1. \A i \in 1..(Len(schedule) + 1 - f) : f + i - 1 \in Lines
  BY <1>0 DEF Lines
<1>2. \A i \in 1..(Len(schedule) + 1 - f) : schedule[f + i - 1].id \in Ids
  BY <1>1, ScheduleLines DEF Ids
<1>3. TodoFrom(f) \in [1..(Len(schedule) + 1 - f) -> Ids]
  BY <1>2 DEF TodoFrom
<1>4. \A i \in 1..(Len(schedule) + 1 - f) : TodoFrom(f)[i] = schedule[f + i - 1].id
  BY DEF TodoFrom
<1> QED BY <1>0, <1>3, <1>4, FunctionIsSeq

\* Passing a line takes the head off the ids that are left.
LEMMA TodoFromTail ==
    ASSUME TypeOK, NEW f \in Lines
    PROVE  /\ TodoFrom(f) # <<>>
           /\ Head(TodoFrom(f)) = schedule[f].id
           /\ TodoFrom(f + 1) = Tail(TodoFrom(f))
<1>0. /\ Len(schedule) \in Nat /\ f \in Nat /\ f >= 1 /\ f <= Len(schedule)
      /\ f \in 1..(Len(schedule) + 1) /\ f + 1 \in 1..(Len(schedule) + 1)
  BY DEF TypeOK, IsSchedule, Lines
<1> DEFINE s == TodoFrom(f)
           t == TodoFrom(f + 1)
<1>1. /\ s \in Seq(Ids) /\ Len(s) = Len(schedule) + 1 - f
      /\ \A i \in 1..(Len(schedule) + 1 - f) : s[i] = schedule[f + i - 1].id
  BY <1>0, TodoFromType
<1>2. /\ t \in Seq(Ids) /\ Len(t) = Len(schedule) + 1 - (f + 1)
      /\ \A i \in 1..(Len(schedule) + 1 - (f + 1)) : t[i] = schedule[(f + 1) + i - 1].id
  BY <1>0, TodoFromType
<1> HIDE DEF s, t
<1>3. s # <<>>
  BY <1>0, <1>1
<1>4. Head(s) = s[1] /\ s[1] = schedule[f].id
  <2>1. 1 \in 1..(Len(schedule) + 1 - f) /\ f + 1 - 1 = f
    BY <1>0
  <2>2. s[1] = schedule[f].id
    BY <1>1, <2>1
  <2> QED BY <1>1, <1>3, <2>2
<1>5. /\ Tail(s) \in Seq(Ids) /\ Len(Tail(s)) = Len(s) - 1
      /\ \A i \in 1..Len(Tail(s)) : Tail(s)[i] = s[i + 1]
  BY <1>1, <1>3, HeadTailProperties
<1>6. ASSUME NEW i \in 1..Len(t) PROVE t[i] = Tail(s)[i]
  <2>1. /\ i \in 1..Len(Tail(s)) /\ i + 1 \in 1..(Len(schedule) + 1 - f)
        /\ f + (i + 1) - 1 = (f + 1) + i - 1
    BY <1>0, <1>1, <1>2, <1>5
  <2>2. Tail(s)[i] = schedule[f + (i + 1) - 1].id
    BY <1>1, <1>5, <2>1
  <2>3. t[i] = schedule[(f + 1) + i - 1].id
    BY <1>2
  <2> QED BY <2>1, <2>2, <2>3
<1>7. Len(t) = Len(Tail(s))
  BY <1>0, <1>1, <1>2, <1>5
<1>8. t = Tail(s)
  BY <1>2, <1>5, <1>6, <1>7, SeqEqual
<1> QED BY <1>3, <1>4, <1>8 DEF s, t

-----------------------------------------------------------------------------
(* The refinement mapping, by name. *)

TodoOf == TodoFrom(FirstPending)

LateOf == IF running.src = "backlog" THEN IdsOf(RemoveAt(backlog, running.index))
                                     ELSE IdsOf(backlog)

StartedOf == [k \in 1..Len(history) |-> schedule[history[k].line].id]

VerdictOf == IF pc = "exit" THEN "EXIT" ELSE state

\* m_state leaves RUNNING with the one call of stop() that emits sigDone.
StateInv == doneEmitted <=> state # "RUNNING"

LEMMA StateStep == ASSUME TypeInv, StateInv, [Next]_vars PROVE StateInv'
<1>1. ASSUME NEW st \in States \ {"RUNNING"}, Stop(st) PROVE StateInv'
  BY <1>1 DEF Stop, stopVars, StateInv
<1>2. CASE UNCHANGED <<state, doneEmitted>>
  BY <1>2 DEF StateInv
<1>3. CASE FinishSchedule \/ Timeout \/ EventActionTimeout
  <2>1. CASE Stop("FINISHED") \/ Stop("TIMEOUT") \/ Stop("ERROR")
    BY <1>1, <2>1 DEF States
  <2>2. CASE UNCHANGED stopVars
    BY <1>2, <2>2 DEF stopVars
  <2> QED BY <1>3, <2>1, <2>2 DEF FinishSchedule, Timeout, EventActionTimeout, MissingIsError
<1>4. CASE ~(FinishSchedule \/ Timeout \/ EventActionTimeout)
  BY <1>2, <1>4 DEF Next, vars, stopVars, EventActionScheduled, EventActionDescheduled,
     ExecuteDelayedEventActions, ExecuteDelayedEventAction, ExecuteFromBacklog,
     ConsumeToken, ExecuteNext, SkipNext, AwaitNext, Dispatch, EventActionReturns, ResizeEvent
<1> QED BY <1>3, <1>4

\* Everything the steps of the refinement rest on.
RefinementInv ==
    TypeInv /\ EachLineOnce /\ ModeInv /\ VerdictStands /\ StateInv

LEMMA RefinementAlways == Spec => []RefinementInv
<1>1. Init => StateInv
  BY DEF Init, StateInv
<1>2. TypeInv /\ StateInv /\ [Next]_vars => StateInv'
  BY StateStep
<1> QED BY <1>1, <1>2, ModeAlways, VerdictCorrect, PTL DEF Spec, RefinementInv

\* A step that changes nothing the promise speaks of.
LEMMA Stutter ==
    ASSUME TodoOf' = TodoOf, LateOf' = LateOf, StartedOf' = StartedOf,
           TokensPassed' = TokensPassed, VerdictOf' = VerdictOf
    PROVE  UNCHANGED Promise!promiseVars
BY DEF Promise!promiseVars, TodoOf, TodoFrom, LateOf, StartedOf, VerdictOf

\* What is started is appended to the started ids.
LEMMA StartedAppend ==
    ASSUME TypeInv, schedule' = schedule, NEW line \in Lines,
           Len(history') = Len(history) + 1,
           \A k \in 1..Len(history) : history'[k] = history[k],
           history'[Len(history) + 1].line = line
    PROVE  StartedOf' = Append(StartedOf, schedule[line].id)
<1>0. /\ Len(history) \in Nat
      /\ \A k \in 1..Len(history) : schedule[history[k].line].id \in Ids
      /\ schedule[line].id \in Ids
  BY OrderTypes, ScheduleLines DEF Ids, TypeInv
<1> DEFINE s == StartedOf
           n == Len(history)
<1>1. s \in [1..n -> Ids] /\ \A k \in 1..n : s[k] = schedule[history[k].line].id
  BY <1>0 DEF StartedOf
<1>2. s \in Seq(Ids) /\ Len(s) = n
  BY <1>0, <1>1, FunctionIsSeq
<1> DEFINE b == Append(s, schedule[line].id)
<1> HIDE DEF s
<1>3. /\ b \in Seq(Ids) /\ Len(b) = n + 1
      /\ \A k \in 1..n : b[k] = s[k]
      /\ b[n + 1] = schedule[line].id
  BY <1>0, <1>2, AppendProperties
<1> HIDE DEF b
<1> DEFINE t == [k \in 1..(n + 1) |-> schedule[history'[k].line].id]
<1>4. \A k \in 1..(n + 1) : t[k] = b[k]
  BY <1>0, <1>1, <1>3
<1>5. t \in [1..(n + 1) -> Ids]
  BY <1>0
<1> HIDE DEF t
<1>6. t \in Seq(Ids) /\ Len(t) = n + 1
  BY <1>0, <1>5, FunctionIsSeq
<1>7. t = b
  BY <1>3, <1>4, <1>6, SeqEqual
<1>8. StartedOf' = t
  BY DEF StartedOf, t
<1> QED BY <1>7, <1>8 DEF b, s

\* The tokens passed change only with the tokens in front of next.
LEMMA TokensSame ==
    ASSUME schedule' = schedule, (TokensBefore(next))' = TokensBefore(next)
    PROVE  TokensPassed' = TokensPassed
BY DEF TokensPassed, Relaxed

\* The ids aside follow the backlog and what is running.
LEMMA LateSame ==
    ASSUME schedule' = schedule, backlog' = backlog, 
           running.src # "backlog", running'.src # "backlog"
    PROVE  LateOf' = LateOf
BY DEF LateOf, IdsOf

\* While the loop runs and has not stopped, the promise is undecided, and what
\* is left begins with the line next.
LEMMA LoopUndecided ==
    ASSUME RefinementInv, pc = "loop", mode # "STOP"
    PROVE  /\ VerdictOf = "RUNNING" /\ state = "RUNNING" /\ running = NoAction
           /\ TodoOf = TodoFrom(next)
           /\ LateOf = IdsOf(backlog)
BY DEF RefinementInv, VerdictStands, StateInv, VerdictOf, TypeInv, ControlInv,
       NoAction, TodoOf, FirstPending, LateOf

\* What passing the line next does to the ids that are left.
LEMMA TodoPasses ==
    ASSUME RefinementInv, schedule' = schedule, pc = "loop", mode # "STOP", ~IsEmpty,
           (FirstPending)' = next + 1
    PROVE  /\ TodoOf # <<>> /\ Head(TodoOf) = schedule[next].id /\ TodoOf' = Tail(TodoOf)
<1>1. next \in Lines
  BY OrderTypes DEF RefinementInv, IsEmpty
<1>2. TypeOK
  BY DEF RefinementInv, TypeInv
<1>3. TodoOf = TodoFrom(next)
  BY LoopUndecided
<1>4. TodoOf' = TodoFrom(next + 1)
  BY DEF TodoOf, TodoFrom
<1> QED BY <1>1, <1>2, <1>3, <1>4, TodoFromTail

\* One step per action of the scheduler.
LEMMA ExecuteNextRefines ==
    ASSUME RefinementInv, [Next]_vars, ExecuteNext
    PROVE  Promise!StartNext
<1>0. TypeInv /\ schedule' = schedule /\ pc = "loop" /\ mode # "STOP" /\ ~IsEmpty
  BY ScheduleFixed DEF RefinementInv, ExecuteNext, TryNext
<1>1. /\ next \in Lines /\ schedule[next].name # NullDescriptor
      /\ \E n \in Names : Dispatch(next, n, "schedule", 0)
  BY <1>0, StartFromSchedule
<1>2. PICK n \in Names : Dispatch(next, n, "schedule", 0)
  BY <1>1
<1>3. /\ next' = next /\ backlog' = backlog /\ running'.src = "schedule"
      /\ Len(history') = Len(history) + 1
      /\ \A k \in 1..Len(history) : history'[k] = history[k]
      /\ history'[Len(history) + 1].line = next
  BY <1>0, <1>1, <1>2, DispatchOrder
<1>4. (FirstPending)' = next + 1
  BY <1>3 DEF FirstPending
<1>5. TodoOf # <<>> /\ Head(TodoOf) = schedule[next].id /\ TodoOf' = Tail(TodoOf)
  BY <1>0, <1>4, TodoPasses
<1>6. Head(TodoOf) # 0
  BY <1>0, <1>1, <1>5, ScheduleLines, ConstantFacts DEF TypeInv
<1>7. StartedOf' = Append(StartedOf, Head(TodoOf))
  BY <1>0, <1>1, <1>3, <1>5, StartedAppend
<1>8. LateOf' = LateOf
  <2>1. running.src # "backlog" /\ running'.src # "backlog"
    BY <1>0, <1>3, LoopUndecided DEF NoAction
  <2> QED BY <1>0, <1>3, <2>1, LateSame
<1>9. TokensPassed' = TokensPassed
  BY <1>0, <1>3 DEF TokensPassed, Relaxed, TokensBefore
<1>10. VerdictOf = "RUNNING" /\ VerdictOf' = VerdictOf
  BY <1>0, <1>2, LoopUndecided DEF VerdictOf, Dispatch, stopVars
<1> QED BY <1>5, <1>6, <1>7, <1>8, <1>9, <1>10
  DEF Promise!StartNext, Promise!Undecided, TodoOf, TodoFrom, LateOf, StartedOf, VerdictOf

LEMMA ConsumeTokenRefines ==
    ASSUME RefinementInv, [Next]_vars, ConsumeToken
    PROVE  Promise!Relax
<1>0. TypeInv /\ schedule' = schedule /\ pc = "loop" /\ mode # "STOP" /\ ~IsEmpty
  BY ScheduleFixed DEF RefinementInv, ConsumeToken, TryNext
<1>1. /\ next \in Lines /\ next \in Nat /\ next >= 1 /\ schedule[next].name = NullDescriptor
      /\ next' = next + 1 /\ UNCHANGED <<backlog, running, history, pc, state>>
  BY <1>0, OrderTypes DEF ConsumeToken, NextIsToken, IsEmpty
<1>2. running = NoAction
  BY <1>0, LoopUndecided
<1>3. (FirstPending)' = next + 1
  BY <1>1, <1>2 DEF FirstPending, NoAction
<1>4. TodoOf # <<>> /\ Head(TodoOf) = schedule[next].id /\ TodoOf' = Tail(TodoOf)
  BY <1>0, <1>3, TodoPasses
<1>5. schedule[next].id = 0
  BY <1>0, <1>1 DEF TypeInv, TypeOK, IsSchedule, IsScheduleItem, Lines
<1>6. LateOf' = LateOf
  <2>1. running.src # "backlog" /\ running'.src # "backlog"
    BY <1>1, <1>2 DEF NoAction
  <2> QED BY <1>0, <1>1, <2>1, LateSame
<1>7. StartedOf' = StartedOf
  BY <1>0, <1>1 DEF StartedOf
<1>8. TokensPassed' = IF TokensPassed = 0 THEN 1 ELSE 2
  <2>1. TokensBefore(next + 1) = TokensBefore(next) \cup {next}
    BY <1>1, TokensStep
  <2>2. (TokensBefore(next))' = TokensBefore(next) \cup {next}
    BY <1>0, <1>1, <2>1 DEF TokensBefore
  <2>3. next \notin TokensBefore(next)
    BY <1>1 DEF TokensBefore
  <2>4. CASE TokensBefore(next) = {}
    <3>1. (TokensBefore(next))' = {next}
      BY <2>2, <2>4
    <3>2. ~Relaxed(next) /\ ~(Relaxed(next))'
      BY <2>4, <3>1 DEF Relaxed
    <3>3. TokensPassed = 0
      BY <2>4, <3>2 DEF TokensPassed
    <3>4. TokensPassed' = 1
      BY <3>1, <3>2 DEF TokensPassed
    <3> QED BY <3>3, <3>4
  <2>5. CASE TokensBefore(next) # {}
    <3>1. (Relaxed(next))'
      BY <2>2, <2>3, <2>5 DEF Relaxed
    <3> QED BY <2>5, <3>1 DEF TokensPassed
  <2> QED BY <2>4, <2>5
<1>9. VerdictOf = "RUNNING" /\ VerdictOf' = VerdictOf
  BY <1>0, <1>1, LoopUndecided DEF VerdictOf
<1> QED BY <1>4, <1>5, <1>6, <1>7, <1>8, <1>9
  DEF Promise!Relax, Promise!Undecided, TodoOf, TodoFrom, LateOf, StartedOf, VerdictOf

LEMMA SkipNextRefines ==
    ASSUME RefinementInv, [Next]_vars, SkipNext
    PROVE  Promise!PutAside
<1>0. TypeInv /\ schedule' = schedule /\ pc = "loop" /\ mode # "STOP" /\ ~IsEmpty
  BY ScheduleFixed DEF RefinementInv, SkipNext, TryNext
<1>1. /\ next \in Lines /\ next \in Nat /\ next >= 1 /\ schedule[next].name # NullDescriptor
      /\ next' = next + 1 /\ UNCHANGED <<running, history, pc, state>>
      /\ backlog' = Append(backlog, next) /\ backlog \in Seq(Lines)
  BY <1>0, OrderTypes DEF SkipNext, NextIsToken, IsEmpty, stopVars, TypeInv, TypeOK
<1>2. running = NoAction /\ LateOf = IdsOf(backlog) /\ VerdictOf = "RUNNING"
  BY <1>0, LoopUndecided
<1>3. (FirstPending)' = next + 1
  BY <1>1, <1>2 DEF FirstPending, NoAction
<1>4. TodoOf # <<>> /\ Head(TodoOf) = schedule[next].id /\ TodoOf' = Tail(TodoOf)
  BY <1>0, <1>3, TodoPasses
<1>5. Head(TodoOf) # 0
  BY <1>0, <1>1, <1>4, ScheduleLines, ConstantFacts DEF TypeInv
<1>6. LateOf' = Append(LateOf, Head(TodoOf))
  <2>1. LateOf' = IdsOf(backlog')
    BY <1>0, <1>1, <1>2 DEF LateOf, IdsOf, NoAction
  <2>2. IdsOf(Append(backlog, next)) = Append(IdsOf(backlog), schedule[next].id)
    BY <1>0, <1>1, IdsOfAppend DEF TypeInv
  <2> QED BY <1>1, <1>2, <1>4, <2>1, <2>2
<1>7. StartedOf' = StartedOf
  BY <1>0, <1>1 DEF StartedOf
<1>8. Relaxed(next)
  BY DEF SkipNext, RefinementInv, ModeInv
<1>9. TokensPassed = 2 /\ TokensPassed' = TokensPassed
  <2>1. TokensBefore(next + 1) = TokensBefore(next)
    BY <1>1, TokensStep
  <2>2. (TokensBefore(next))' = TokensBefore(next)
    BY <1>0, <1>1, <2>1 DEF TokensBefore
  <2> QED BY <1>0, <1>8, <2>2, TokensSame DEF TokensPassed
<1>10. VerdictOf' = VerdictOf
  BY <1>1 DEF VerdictOf
<1> QED BY <1>2, <1>4, <1>5, <1>6, <1>7, <1>9, <1>10
  DEF Promise!PutAside, Promise!Undecided, TodoOf, TodoFrom, LateOf, StartedOf, VerdictOf

LEMMA ExecuteFromBacklogRefines ==
    ASSUME RefinementInv, [Next]_vars, ExecuteFromBacklog
    PROVE  Promise!StartLate
<1>0. TypeInv /\ schedule' = schedule /\ pc = "loop" /\ mode # "STOP"
  BY ScheduleFixed DEF RefinementInv, ExecuteFromBacklog
<1>1. PICK i \in 1..Len(backlog), n \in Names :
           /\ backlog[i] \in Lines /\ schedule[backlog[i]].name # NullDescriptor
           /\ Dispatch(backlog[i], n, "backlog", i)
  BY <1>0, StartFromBacklog
<1>2. running = NoAction /\ LateOf = IdsOf(backlog) /\ VerdictOf = "RUNNING"
  BY <1>0, LoopUndecided
<1>3. PICK l0 \in Lines : l0 = backlog[i]
  BY <1>1
<1>4. /\ next' = next /\ backlog' = backlog
      /\ running'.src = "backlog" /\ running'.index = i
      /\ Len(history') = Len(history) + 1
      /\ \A k \in 1..Len(history) : history'[k] = history[k]
      /\ history'[Len(history) + 1].line = l0
  <2>1. i \in Nat /\ schedule[l0].name # NullDescriptor /\ Dispatch(l0, n, "backlog", i)
    BY <1>1, <1>3
  <2> QED BY <1>0, <2>1, DispatchOrder
<1>5. backlog \in Seq(Lines) /\ TypeOK /\ next \in Nat /\ Lines = 1..Len(schedule)
  BY <1>0, OrderTypes DEF TypeInv, TypeOK
<1>6. Len(LateOf) = Len(backlog) /\ LateOf[i] = schedule[l0].id
  BY <1>2, <1>3, <1>5, IdsOfType
<1>7. LateOf' = RemoveAt(LateOf, i)
  <2>1. LateOf' = IdsOf(RemoveAt(backlog, i))
    BY <1>0, <1>4 DEF LateOf, IdsOf
  <2> QED BY <1>2, <1>5, <2>1, IdsOfRemoveAt
<1>8. StartedOf' = Append(StartedOf, LateOf[i])
  BY <1>0, <1>4, <1>6, StartedAppend
<1>9. TodoOf' = TodoOf
  BY <1>0, <1>2, <1>4 DEF TodoOf, TodoFrom, FirstPending, NoAction
<1>10. Relaxed(next)
  <2>1. Relaxed(l0)
    BY <1>3 DEF RefinementInv, ModeInv
  <2>2. l0 \in 1..(next - 1)
    BY <1>0, <1>2, <1>3, AtRest DEF RefinementInv, EachLineOnce
  <2> QED BY <1>5, <2>1, <2>2, RelaxedMonotone
<1>11. TokensPassed = 2 /\ TokensPassed' = TokensPassed
  BY <1>0, <1>4, <1>10 DEF TokensPassed, Relaxed, TokensBefore
<1>12. VerdictOf' = VerdictOf
  BY <1>0, <1>1 DEF VerdictOf, Dispatch, stopVars
<1>13. \E j \in 1..Len(LateOf) :
          /\ StartedOf' = Append(StartedOf, LateOf[j])
          /\ LateOf' = Promise!RemoveAt(LateOf, j)
  BY <1>6, <1>7, <1>8 DEF RemoveAt, Promise!RemoveAt
<1> QED BY <1>2, <1>9, <1>11, <1>12, <1>13
  DEF Promise!StartLate, Promise!Undecided, TodoOf, TodoFrom, LateOf, StartedOf, VerdictOf

\* A first call of stop() decides, a later one changes nothing.
LEMMA StopRefines ==
    ASSUME RefinementInv, schedule' = schedule, NEW st \in {"FINISHED", "TIMEOUT", "ERROR"},
           Stop(st), pc # "exit", pc' # "exit",
           UNCHANGED <<next, backlog, running, history>>,
           st = "FINISHED" /\ mode # "STOP" => TodoOf = <<>>,
           st = "ERROR" /\ mode # "STOP" => TokensPassed = 1
    PROVE  [Promise!PromiseNext]_Promise!promiseVars
<1>1. /\ TodoOf' = TodoOf /\ LateOf' = LateOf /\ StartedOf' = StartedOf
      /\ TokensPassed' = TokensPassed
  BY DEF TodoOf, TodoFrom, FirstPending, LateOf, IdsOf, StartedOf, TokensPassed, Relaxed,
         TokensBefore
<1>2. CASE doneEmitted
  <2>1. VerdictOf' = VerdictOf
    BY <1>2 DEF Stop, stopVars, VerdictOf
  <2> QED BY <1>1, <2>1, Stutter
<1>3. CASE ~doneEmitted
  <2>1. mode # "STOP" /\ VerdictOf = "RUNNING" /\ VerdictOf' = st
    BY <1>3 DEF Stop, VerdictOf, RefinementInv, VerdictStands, StateInv
  <2>2. Promise!Decide(st)
    BY <1>1, <2>1
    DEF Promise!Decide, Promise!Undecided, TodoOf, TodoFrom, LateOf, StartedOf, VerdictOf
  <2> QED BY <2>2 DEF Promise!PromiseNext
<1> QED BY <1>2, <1>3

LEMMA FinishScheduleRefines ==
    ASSUME RefinementInv, [Next]_vars, FinishSchedule
    PROVE  [Promise!PromiseNext]_Promise!promiseVars
<1>1. /\ schedule' = schedule /\ pc = "loop" /\ pc' = "idle" /\ Stop("FINISHED")
      /\ UNCHANGED <<next, backlog, running, history>>
  BY ScheduleFixed DEF FinishSchedule, schedulerVars
<1>2. mode # "STOP" => TodoOf = <<>>
  <2> SUFFICES ASSUME mode # "STOP" PROVE TodoOf = <<>>
    OBVIOUS
  <2>1. next = Len(schedule) + 1 /\ TypeOK /\ Len(schedule) \in Nat
    BY OrderTypes DEF FinishSchedule, IsEmpty, RefinementInv, TypeInv
  <2>2. TodoOf = TodoFrom(next)
    BY <1>1, LoopUndecided
  <2>3. TodoFrom(next) \in Seq(Ids) /\ Len(TodoFrom(next)) = 0
    BY <2>1, TodoFromType
  <2> QED BY <2>2, <2>3, EmptySeq
<1> QED BY <1>1, <1>2, StopRefines

LEMMA EventActionTimeoutRefines ==
    ASSUME RefinementInv, [Next]_vars, EventActionTimeout
    PROVE  [Promise!PromiseNext]_Promise!promiseVars
<1>0. /\ schedule' = schedule /\ pc \in {"idle", "run"}
      /\ UNCHANGED <<next, backlog, running, history>>
  BY ScheduleFixed DEF EventActionTimeout
<1>1. /\ TodoOf' = TodoOf /\ LateOf' = LateOf /\ StartedOf' = StartedOf
      /\ TokensPassed' = TokensPassed
  BY <1>0 DEF TodoOf, TodoFrom, FirstPending, LateOf, IdsOf, StartedOf, TokensPassed,
         Relaxed, TokensBefore
<1>2. CASE UNCHANGED stopVars /\ pc' = pc
  <2>1. VerdictOf' = VerdictOf
    BY <1>2 DEF stopVars, VerdictOf
  <2> QED BY <1>1, <2>1, Stutter
<1>3. CASE UNCHANGED stopVars /\ mode = "STRICT" /\ pc' = "exit"
  <2>1. VerdictOf = "RUNNING" /\ VerdictOf' = "EXIT"
    BY <1>0, <1>3 DEF VerdictOf, RefinementInv, VerdictStands, StateInv
  <2>2. TokensPassed = 0
    BY <1>3 DEF TokensPassed, RefinementInv, ModeInv, Relaxed
  <2>3. Promise!Decide("EXIT")
    BY <1>1, <2>1, <2>2
    DEF Promise!Decide, Promise!Undecided, TodoOf, TodoFrom, LateOf, StartedOf, VerdictOf
  <2> QED BY <2>3 DEF Promise!PromiseNext
<1>4. CASE mode = "BEST_EFFORT_NOND" /\ Stop("ERROR") /\ pc' = pc
  <2>1. TokensPassed = 1
    <3>1. PICK t \in Nat : TokensBefore(next) = {t}
      BY <1>4 DEF RefinementInv, ModeInv
    <3> QED BY <3>1 DEF TokensPassed, Relaxed
  <2>2. pc # "exit" /\ pc' # "exit"
    BY <1>0, <1>4
  <2> QED BY <1>0, <1>4, <2>1, <2>2, StopRefines
<1> QED BY <1>2, <1>3, <1>4 DEF EventActionTimeout, MissingIsError

LEMMA EventActionReturnsRefines ==
    ASSUME RefinementInv, [Next]_vars, EventActionReturns
    PROVE  UNCHANGED Promise!promiseVars
<1>0. TypeInv /\ schedule' = schedule /\ next \in Nat /\ next >= 1
  BY ScheduleFixed, OrderTypes DEF RefinementInv
<1>1. /\ running' = NoAction /\ history' = history
      /\ pc = "run" /\ pc' = "loop" /\ state' = state
  BY DEF EventActionReturns, stopVars
<1>2. StartedOf' = StartedOf /\ VerdictOf' = VerdictOf
  BY <1>0, <1>1 DEF StartedOf, VerdictOf
<1>3. CASE running.src = "schedule"
  <2>1. next' = next + 1 /\ backlog' = backlog /\ schedule[next].name # NullDescriptor
    BY <1>0, <1>3, ReturnsOrder
  <2>2. TodoOf' = TodoOf
    BY <1>0, <1>1, <1>3, <2>1 DEF TodoOf, TodoFrom, FirstPending, NoAction
  <2>3. LateOf' = LateOf
    BY <1>0, <1>1, <1>3, <2>1, LateSame DEF NoAction
  <2>4. TokensBefore(next + 1) = TokensBefore(next)
    BY <1>0, <2>1, TokensStep
  <2>5. (TokensBefore(next))' = TokensBefore(next)
    BY <1>0, <2>1, <2>4 DEF TokensBefore
  <2> QED BY <1>0, <1>2, <2>2, <2>3, <2>5, TokensSame, Stutter
<1>4. CASE running.src = "backlog"
  <2>1. backlog' = RemoveAt(backlog, running.index) /\ next' = next
    BY <1>4 DEF EventActionReturns, LeaveBacklog
  <2>2. TodoOf' = TodoOf
    BY <1>0, <1>1, <1>4, <2>1 DEF TodoOf, TodoFrom, FirstPending, NoAction
  <2>3. LateOf' = LateOf
    BY <1>0, <1>1, <1>4, <2>1 DEF LateOf, IdsOf, NoAction
  <2>4. TokensPassed' = TokensPassed
    BY <1>0, <2>1 DEF TokensPassed, Relaxed, TokensBefore
  <2> QED BY <1>2, <2>2, <2>3, <2>4, Stutter
<1> QED BY <1>0, <1>3, <1>4, ReturnsOrder

\* Every step of the scheduler is a step of the promise or none.
LEMMA StepRefines ==
    ASSUME RefinementInv, [Next]_vars
    PROVE  [Promise!PromiseNext]_Promise!promiseVars
<1>1. CASE ExecuteNext
  BY <1>1, ExecuteNextRefines DEF Promise!PromiseNext
<1>2. CASE ConsumeToken
  BY <1>2, ConsumeTokenRefines DEF Promise!PromiseNext
<1>3. CASE SkipNext
  BY <1>3, SkipNextRefines DEF Promise!PromiseNext
<1>4. CASE ExecuteFromBacklog
  BY <1>4, ExecuteFromBacklogRefines DEF Promise!PromiseNext
<1>5. CASE FinishSchedule
  BY <1>5, FinishScheduleRefines
<1>6. CASE EventActionTimeout
  BY <1>6, EventActionTimeoutRefines
<1>7. CASE Timeout
  <2>1. /\ schedule' = schedule /\ pc # "exit" /\ pc' # "exit" /\ Stop("TIMEOUT")
        /\ UNCHANGED <<next, backlog, running, history>>
    BY <1>7, ScheduleFixed DEF Timeout, schedulerVars
  <2> QED BY <2>1, StopRefines
<1>8. CASE EventActionReturns
  BY <1>8, EventActionReturnsRefines
<1>9. CASE ~(ExecuteNext \/ ConsumeToken \/ SkipNext \/ ExecuteFromBacklog \/ FinishSchedule
             \/ EventActionTimeout \/ Timeout \/ EventActionReturns)
  <2>1. /\ UNCHANGED <<next, backlog, running, history, state>>
        /\ schedule' = schedule /\ (pc' = "exit" <=> pc = "exit")
    BY <1>9, ScheduleFixed
    DEF Next, vars, schedulerVars, stopVars, EventActionScheduled, EventActionDescheduled,
        ExecuteDelayedEventActions, ExecuteDelayedEventAction, AwaitNext, TryNext, ResizeEvent
  <2>2. /\ TodoOf' = TodoOf /\ LateOf' = LateOf /\ StartedOf' = StartedOf
        /\ TokensPassed' = TokensPassed /\ VerdictOf' = VerdictOf
    BY <2>1 DEF TodoOf, TodoFrom, FirstPending, LateOf, IdsOf, StartedOf, TokensPassed,
       Relaxed, TokensBefore, VerdictOf
  <2> QED BY <2>2, Stutter
<1> QED BY <1>1, <1>2, <1>3, <1>4, <1>5, <1>6, <1>7, <1>8, <1>9

LEMMA InitRefines == Init => Promise!PromiseInit
<1> SUFFICES ASSUME Init PROVE Promise!PromiseInit
  OBVIOUS
<1>1. /\ next = 1 /\ backlog = <<>> /\ history = <<>> /\ running = NoAction
      /\ pc = "idle" /\ state = "RUNNING" /\ schedule \in Schedules
      /\ Len(history) = 0 /\ Len(backlog) = 0
  BY DEF Init
<1>2. FirstPending = 1 /\ Len(schedule) \in Nat
  BY <1>1, SchedulesAssumption DEF FirstPending, NoAction, IsSchedule
<1>3. TodoOf = [i \in 1..Len(schedule) |-> schedule[i].id]
  <2>1. Len(schedule) + 1 - 1 = Len(schedule) /\ \A i \in 1..Len(schedule) : 1 + i - 1 = i
    BY <1>2
  <2> QED BY <1>2, <2>1 DEF TodoOf, TodoFrom
<1>4. TodoOf \in Orders
  BY <1>1, <1>3 DEF Orders
<1>5. TypeOK
  BY InitTypeInv DEF TypeInv
<1>6. LateOf = <<>>
  <2>1. backlog \in Seq(Lines) /\ LateOf = IdsOf(backlog)
    BY <1>1, <1>5 DEF LateOf, NoAction, TypeOK
  <2>2. LateOf \in Seq(Ids) /\ Len(LateOf) = 0
    BY <1>1, <1>5, <2>1, IdsOfType
  <2> QED BY <2>2, EmptySeq
<1>7. StartedOf = <<>>
  <2>1. StartedOf \in [1..0 -> Ids]
    BY <1>1 DEF StartedOf
  <2>2. StartedOf \in Seq(Ids) /\ Len(StartedOf) = 0
    BY <2>1, FunctionIsSeq
  <2> QED BY <2>2, EmptySeq
<1>8. TokensPassed = 0 /\ VerdictOf = "RUNNING"
  BY <1>1 DEF TokensPassed, Relaxed, TokensBefore, VerdictOf
<1> QED BY <1>4, <1>6, <1>7, <1>8
  DEF Promise!PromiseInit, TodoOf, TodoFrom, LateOf, StartedOf, VerdictOf

\* Every run of the scheduler is one the promise allows: event actions start in
\* the order of the schedule until the second relax token, only then are they
\* put aside and started late, and the verdict is one and fits the schedule.
THEOREM SchedulerKeepsPromise == Spec => KeepsPromise
<1>1. Init => Promise!PromiseInit
  BY InitRefines
<1>2. RefinementInv /\ [Next]_vars => [Promise!PromiseNext]_Promise!promiseVars
  BY StepRefines
<1> QED BY <1>1, <1>2, RefinementAlways, PTL DEF Spec, KeepsPromise, Promise!PromiseSpec
=============================================================================
