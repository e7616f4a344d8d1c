---------------------------- MODULE HappensBefore ----------------------------
(***************************************************************************)
(* The happens-before bookkeeping of one thread: EventActionsHB, the arcs  *)
(* it hands to the action log, and the log's strict mode.                  *)
(*                                                                         *)
(* The state is one record.  The operations are functions from record to   *)
(* record, because the callers combine several of them in one step; an     *)
(* operation that would call CRASH() marks the record as crashed.          *)
(***************************************************************************)
EXTENDS Integers, Sequences, FiniteSets

VARIABLE hb
    \* nextId   m_nextEventActionId          current  m_currentEventActionId
    \* last     m_lastEventAction            lastUI   m_lastUIEventAction
    \* seen     m_hbarcs_unique              arcs     the arcs in the action log
    \* strict   strict_mode                  logOpen  the log is in an operation
    \* crashed  CRASH() was called

\* The constructor of EventActionsHB.
HBEmpty ==
    [nextId |-> 1, current |-> 0, last |-> 0, lastUI |-> 0, seen |-> {},
     arcs |-> {}, strict |-> TRUE, logOpen |-> FALSE, crashed |-> FALSE]

Crash(h) == [h EXCEPT !.crashed = TRUE]

\* ActionLogStrictMode
ActionLogStrictMode(h, on) == [h EXCEPT !.strict = on]

\* The id is h.nextId.
HBAllocateEventActionId(h) == [h EXCEPT !.nextId = @ + 1]

\* Mutant: an arc to the directly following id is taken for a backward one.
ActionLogAddArcOffByOne(h, earlier, later) ==
    IF later > earlier + 1 THEN [h EXCEPT !.arcs = @ \cup {<<earlier, later>>}]
    ELSE h

\* Arcs must point forward; a backward arc is fatal in strict mode and dropped
\* otherwise.
ActionLogAddArc(h, earlier, later) ==
    IF later > earlier THEN [h EXCEPT !.arcs = @ \cup {<<earlier, later>>}]
    ELSE IF h.strict THEN Crash(h) ELSE h

\* EventActionsHB::addExplicitArc; addTimedArc differs in the label only, its
\* callers never pass equal ids.
AddArc(h, earlier, later) ==
    IF h.strict /\ (earlier <= 0 \/ later <= 0 \/ earlier = later) THEN Crash(h)
    ELSE IF <<earlier, later>> \in h.seen THEN h
    ELSE ActionLogAddArc([h EXCEPT !.seen = @ \cup {<<earlier, later>>}], earlier, later)

\* HBAddExplicitArc and HBAddTimedArc filter out self loops.
HBAddArc(h, earlier, later) == IF earlier = later THEN h ELSE AddArc(h, earlier, later)

\* Mutant: only the first user interface action is remembered.
HBEnterEventActionFirstUI(h, id, isUI) ==
    LET entered == [h EXCEPT !.current = id, !.logOpen = TRUE]
    IN  IF ~isUI THEN entered
        ELSE IF h.lastUI = 0 THEN [entered EXCEPT !.lastUI = id]
        ELSE AddArc(entered, h.lastUI, id)

\* Mutant: the action log does not learn that an operation starts.
HBEnterEventActionUnlogged(h, id, isUI) ==
    LET entered == [h EXCEPT !.current = id]
        chained == IF h.lastUI = 0 THEN entered ELSE AddArc(entered, h.lastUI, id)
    IN  IF isUI THEN [chained EXCEPT !.lastUI = id] ELSE entered

\* setCurrentEventAction: user interface actions form a chain.
HBEnterEventAction(h, id, isUI) ==
    LET entered == [h EXCEPT !.current = id, !.logOpen = TRUE]
        chained == IF h.lastUI = 0 THEN entered ELSE AddArc(entered, h.lastUI, id)
    IN  IF isUI THEN [chained EXCEPT !.lastUI = id] ELSE entered

\* setCurrentEventActionInvalid: leaving an operation the log is not in is
\* fatal in strict mode.
HBExitEventAction(h, commit) ==
    LET left == [h EXCEPT !.current = 0, !.logOpen = FALSE,
                          !.last = IF commit THEN h.current ELSE h.last]
    IN  IF h.strict /\ ~h.logOpen THEN Crash(left) ELSE left

HBIsCurrentEventActionValid(h) == h.current # 0

\* HBCurrentEventAction: asking for the current action outside one is fatal in
\* every mode, by the accessor if not by the check in front of it.
HBCurrentEventAction(h) == IF h.current = 0 THEN Crash(h) ELSE h

\* Mutant: the join is ordered after the oldest thread only.
JoinArcsOldest(h, ends) ==
    LET oldest == {e \in ends \ {h.current} : \A f \in ends : e <= f}
        new == {<<e, h.current>> : e \in oldest} \ h.seen
    IN  [h EXCEPT !.seen = @ \cup new, !.arcs = @ \cup new]

\* joinAction of a MultiJoinHappensBefore whose threads ended in the actions
\* of the set ends: the current action comes after all of them.  The arcs are
\* added one by one; each is independent of the others.
JoinArcs(h, ends) ==
    LET new == {<<e, h.current>> : e \in ends \ {h.current}} \ h.seen
        bad == {a \in new : a[2] <= a[1] \/ a[1] <= 0}
    IN  IF ends = {} THEN h
        ELSE IF h.current = 0 \/ (h.strict /\ bad # {}) THEN Crash(h)
        ELSE [h EXCEPT !.seen = @ \cup new, !.arcs = @ \cup {a \in new : a[2] > a[1]}]

\* Y is ordered after X by the logged arcs among the ids up to Y: X is in
\* the set of ids from which Y can be reached.
HBReaches(h, X, Y) ==
    LET back[n \in 0..Y] ==
          IF n = 0 THEN {Y}
          ELSE back[n - 1] \cup {a[1] : a \in {b \in h.arcs : b[2] \in back[n - 1]}}
    IN  X \in back[Y]
=============================================================================
