---------------------- MODULE EventActionRegister_proofs ----------------------
(***************************************************************************)
(* Proofs about the event action register: what its operations, and those  *)
(* of the happens-before bookkeeping, do to the parts of the state that    *)
(* the properties speak of; and that in the main event loop no consistency *)
(* check of the log fails.                                                 *)
(***************************************************************************)
EXTENDS EventActionRegister, SequenceTheorems, WellFoundedInduction, TLAPS

(* Sequences without their last element *)

\* Front drops the last element.
LEMMA FrontOf ==
    ASSUME NEW S, NEW s \in Seq(S), s # <<>>
    PROVE  /\ Front(s) \in Seq(S) /\ Len(Front(s)) = Len(s) - 1 /\ Len(s) \in Nat \ {0}
           /\ DOMAIN Front(s) = 1..Len(s) - 1
           /\ \A k \in 1..Len(s) - 1 : Front(s)[k] = s[k]
<1>1. Len(s) \in Nat \ {0}
  BY EmptySeq
<1> DEFINE n == Len(s)
<1>2. Front(s) = SubSeq(s, 1, n - 1)
  BY DEF Front
<1>3. \A i \in 1..n - 1 : s[i] \in S
  BY <1>1, ElementOfSeq
<1>4. n - 1 \in Int /\ n \in Nat \ {0}
  BY <1>1
<1> HIDE DEF n
<1>5. /\ SubSeq(s, 1, n - 1) \in Seq(S)
      /\ Len(SubSeq(s, 1, n - 1)) = IF 1 <= n - 1 THEN n - 1 - 1 + 1 ELSE 0
      /\ \A i \in 1..n - 1 - 1 + 1 : SubSeq(s, 1, n - 1)[i] = s[1 + i - 1]
  BY <1>3, <1>4, SubSeqProperties
<1>6. /\ SubSeq(s, 1, n - 1) \in Seq(S)
      /\ Len(SubSeq(s, 1, n - 1)) = n - 1
      /\ \A i \in 1..n - 1 : SubSeq(s, 1, n - 1)[i] = s[i]
  BY <1>4, <1>5
<1>7. DOMAIN SubSeq(s, 1, n - 1) = 1..n - 1
  BY <1>6, LenProperties
<1> QED BY <1>2, <1>4, <1>6, <1>7 DEF n

-----------------------------------------------------------------------------
(* The happens-before bookkeeping *)

HBRecords ==
    [nextId : Nat \ {0}, current : Nat, last : Nat, lastUI : Nat,
     seen : SUBSET (Nat \X Nat), arcs : SUBSET (Nat \X Nat),
     strict : BOOLEAN, logOpen : BOOLEAN, crashed : BOOLEAN]

\* Every id is one that was allocated.
HBBounded(h) ==
    /\ h \in HBRecords
    /\ h.current < h.nextId /\ h.last < h.nextId /\ h.lastUI < h.nextId
    /\ h.arcs \subseteq (1..(h.nextId - 1)) \X (1..(h.nextId - 1))

\* No check has failed and no arc was dropped.
HBSound(h) == ~h.crashed /\ h.seen \subseteq h.arcs

\* The bookkeeping before the first event action
LEMMA EmptySound == HBBounded(HBEmpty) /\ HBSound(HBEmpty)
BY DEF HBBounded, HBSound, HBEmpty, HBRecords

\* A new id
LEMMA Allocated ==
    ASSUME NEW h, HBBounded(h)
    PROVE  LET g == HBAllocateEventActionId(h)
           IN  /\ HBBounded(g) /\ (HBSound(h) => HBSound(g))
               /\ g.nextId = h.nextId + 1 /\ g.current = h.current /\ g.lastUI = h.lastUI
               /\ g.logOpen = h.logOpen /\ g.strict = h.strict
               /\ g.arcs = h.arcs
<1> DEFINE g == HBAllocateEventActionId(h)
<1>1. /\ g \in HBRecords /\ g.nextId = h.nextId + 1 /\ g.current = h.current
      /\ g.last = h.last /\ g.lastUI = h.lastUI /\ g.seen = h.seen /\ g.arcs = h.arcs
      /\ g.logOpen = h.logOpen /\ g.strict = h.strict /\ g.crashed = h.crashed
  BY DEF HBAllocateEventActionId, HBBounded, HBRecords
<1> HIDE DEF g
<1>2. h.nextId \in Nat \ {0} /\ h.current \in Nat /\ h.last \in Nat /\ h.lastUI \in Nat
  BY DEF HBBounded, HBRecords
<1>3. g.current < g.nextId /\ g.last < g.nextId /\ g.lastUI < g.nextId
  BY <1>1, <1>2 DEF HBBounded
<1>4. 1..(h.nextId - 1) \subseteq 1..(g.nextId - 1)
  BY <1>1, <1>2
<1>5. g.arcs \subseteq (1..(g.nextId - 1)) \X (1..(g.nextId - 1))
  BY <1>1, <1>4 DEF HBBounded
<1> QED BY <1>1, <1>3, <1>5 DEF HBBounded, HBSound, g

\* The strict mode of the log
LEMMA StrictModeSet ==
    ASSUME NEW h, HBBounded(h), NEW on \in BOOLEAN
    PROVE  LET g == ActionLogStrictMode(h, on)
           IN  /\ HBBounded(g) /\ (HBSound(h) => HBSound(g))
               /\ g.nextId = h.nextId /\ g.current = h.current /\ g.lastUI = h.lastUI
               /\ g.logOpen = h.logOpen /\ g.strict = on
               /\ g.arcs = h.arcs
BY DEF ActionLogStrictMode, HBBounded, HBSound, HBRecords

\* One more arc between allocated ids
LEMMA ArcAdded ==
    ASSUME NEW h, HBBounded(h), NEW e \in 1..(h.nextId - 1), NEW l \in 1..(h.nextId - 1)
    PROVE  LET g == AddArc(h, e, l)
           IN  /\ HBBounded(g)
               /\ g.nextId = h.nextId /\ g.current = h.current /\ g.lastUI = h.lastUI
               /\ g.last = h.last
               /\ g.logOpen = h.logOpen /\ g.strict = h.strict
               /\ h.arcs \subseteq g.arcs
               /\ HBSound(h) /\ e < l => HBSound(g) /\ <<e, l>> \in g.arcs
<1> DEFINE g == AddArc(h, e, l)
           a == <<e, l>>
           s == [h EXCEPT !.seen = @ \cup {a}]
<1>1. h \in HBRecords /\ h.nextId \in Nat \ {0} /\ e \in Nat /\ l \in Nat /\ e > 0 /\ l > 0
  BY DEF HBBounded, HBRecords
<1>2. a \in Nat \X Nat /\ a \in (1..(h.nextId - 1)) \X (1..(h.nextId - 1))
  BY <1>1
<1>3. /\ s \in HBRecords /\ s.seen = h.seen \cup {a} /\ s.arcs = h.arcs
      /\ s.nextId = h.nextId /\ s.current = h.current /\ s.last = h.last
      /\ s.lastUI = h.lastUI /\ s.strict = h.strict /\ s.logOpen = h.logOpen
      /\ s.crashed = h.crashed
  BY <1>1, <1>2 DEF HBRecords
<1>4. CASE g = Crash(h) /\ ~(e < l)
  <2>1. /\ g \in HBRecords /\ g.seen = h.seen /\ g.arcs = h.arcs
        /\ g.nextId = h.nextId /\ g.current = h.current /\ g.last = h.last
        /\ g.lastUI = h.lastUI /\ g.strict = h.strict /\ g.logOpen = h.logOpen
    BY <1>1, <1>4 DEF Crash, HBRecords
  <2> HIDE DEF g
  <2> QED BY <1>4, <2>1 DEF HBBounded, g
<1>5. CASE g = h /\ a \in h.seen
  BY <1>5 DEF HBSound
<1>6. CASE g = [s EXCEPT !.arcs = @ \cup {a}] /\ e < l
  <2> HIDE DEF s, a
  <2>1. /\ g \in HBRecords /\ g.seen = s.seen /\ g.arcs = s.arcs \cup {a}
        /\ g.nextId = s.nextId /\ g.current = s.current /\ g.last = s.last
        /\ g.lastUI = s.lastUI /\ g.strict = s.strict /\ g.logOpen = s.logOpen
        /\ g.crashed = s.crashed
    BY <1>2, <1>3, <1>6 DEF HBRecords
  <2> HIDE DEF g
  <2>2. HBBounded(g) /\ h.arcs \subseteq g.arcs /\ a \in g.arcs
    BY <1>2, <1>3, <2>1 DEF HBBounded
  <2>3. HBSound(h) => HBSound(g)
    BY <1>3, <2>1 DEF HBSound
  <2> QED BY <1>3, <2>1, <2>2, <2>3 DEF g, a
<1>7. CASE g = Crash(s) /\ ~(e < l)
  <2> HIDE DEF s
  <2>1. /\ g \in HBRecords /\ g.seen = s.seen /\ g.arcs = s.arcs
        /\ g.nextId = s.nextId /\ g.current = s.current /\ g.last = s.last
        /\ g.lastUI = s.lastUI /\ g.strict = s.strict /\ g.logOpen = s.logOpen
    BY <1>3, <1>7 DEF Crash, HBRecords
  <2> HIDE DEF g
  <2> QED BY <1>3, <1>7, <2>1 DEF HBBounded, g
<1>8. CASE g = s /\ ~(e < l)
  <2> HIDE DEF s
  <2> QED BY <1>3, <1>8 DEF HBBounded
<1>9. \/ g = Crash(h) /\ ~(e < l)
      \/ g = h /\ a \in h.seen
      \/ g = [s EXCEPT !.arcs = @ \cup {a}] /\ e < l
      \/ g = Crash(s) /\ ~(e < l)
      \/ g = s /\ ~(e < l)
  <2>1. CASE h.strict /\ (e <= 0 \/ l <= 0 \/ e = l)
    <3>1. g = Crash(h)
      BY <2>1 DEF AddArc
    <3>2. ~(e < l)
      BY <1>1, <2>1
    <3> QED BY <3>1, <3>2
  <2>2. CASE ~(h.strict /\ (e <= 0 \/ l <= 0 \/ e = l)) /\ a \in h.seen
    <3>1. g = h
      BY <2>2 DEF AddArc
    <3> QED BY <2>2, <3>1
  <2>3. CASE ~(h.strict /\ (e <= 0 \/ l <= 0 \/ e = l)) /\ a \notin h.seen
    <3>1. g = ActionLogAddArc(s, e, l)
      BY <2>3 DEF AddArc
    <3> HIDE DEF g, s
    <3>2. l > e <=> e < l
      BY <1>1
    <3> QED BY <3>1, <3>2 DEF ActionLogAddArc
  <2> QED BY <2>1, <2>2, <2>3
<1> HIDE DEF g, s, a
<1> QED BY <1>4, <1>5, <1>6, <1>7, <1>8, <1>9 DEF g, a

\* An event action is entered; user interface actions are chained.
LEMMA Entered ==
    ASSUME NEW h, HBBounded(h), NEW id \in 1..(h.nextId - 1), NEW isUI \in BOOLEAN
    PROVE  LET g == HBEnterEventAction(h, id, isUI)
           IN  /\ HBBounded(g)
               /\ g.nextId = h.nextId /\ g.current = id
               /\ g.lastUI = (IF isUI THEN id ELSE h.lastUI)
               /\ g.logOpen /\ g.strict = h.strict
               /\ HBSound(h) /\ (isUI => h.lastUI < id) => HBSound(g)
<1> DEFINE n == [h EXCEPT !.current = id, !.logOpen = TRUE]
           c == IF h.lastUI = 0 THEN n ELSE AddArc(n, h.lastUI, id)
           u == [c EXCEPT !.lastUI = id]
           g == HBEnterEventAction(h, id, isUI)
<1>1. /\ h \in HBRecords /\ h.nextId \in Nat \ {0} /\ h.lastUI \in Nat /\ id \in Nat
      /\ id < h.nextId /\ h.lastUI < h.nextId
  BY DEF HBBounded, HBRecords
<1>2. /\ n \in HBRecords /\ n.nextId = h.nextId /\ n.current = id /\ n.last = h.last
      /\ n.lastUI = h.lastUI /\ n.seen = h.seen /\ n.arcs = h.arcs /\ n.logOpen
      /\ n.strict = h.strict /\ n.crashed = h.crashed
  BY <1>1 DEF HBRecords
<1>3. g = IF isUI THEN u ELSE n
  BY DEF HBEnterEventAction
<1> HIDE DEF n, g
<1>4. HBBounded(n) /\ (HBSound(h) => HBSound(n))
  BY <1>1, <1>2 DEF HBBounded, HBSound
<1>5. /\ HBBounded(c) /\ c.nextId = h.nextId /\ c.current = id /\ c.logOpen
      /\ c.strict = h.strict
      /\ HBSound(h) /\ h.lastUI < id => HBSound(c)
  <2>1. CASE h.lastUI = 0
    BY <1>2, <1>4, <2>1
  <2>2. CASE h.lastUI # 0
    <3>1. h.lastUI \in 1..(n.nextId - 1) /\ id \in 1..(n.nextId - 1)
      BY <1>1, <1>2, <2>2
    <3>2. c = AddArc(n, h.lastUI, id)
      BY <2>2
    <3> HIDE DEF c
    <3> QED BY <1>2, <1>4, <3>1, <3>2, ArcAdded, ZenonT(60)
  <2> QED BY <2>1, <2>2
<1> HIDE DEF c
<1>6. /\ u \in HBRecords /\ u.nextId = c.nextId /\ u.current = c.current /\ u.last = c.last
      /\ u.lastUI = id /\ u.seen = c.seen /\ u.arcs = c.arcs /\ u.logOpen = c.logOpen
      /\ u.strict = c.strict /\ u.crashed = c.crashed
  BY <1>1, <1>5 DEF HBRecords, HBBounded
<1> HIDE DEF u
<1>7. HBBounded(u) /\ (HBSound(c) => HBSound(u))
  BY <1>1, <1>5, <1>6 DEF HBBounded, HBSound
<1>8. CASE isUI
  BY <1>3, <1>5, <1>6, <1>7, <1>8 DEF g
<1>9. CASE ~isUI
  BY <1>2, <1>3, <1>4, <1>9 DEF g
<1> QED BY <1>8, <1>9

\* An event action is left.
LEMMA Left ==
    ASSUME NEW h, HBBounded(h), NEW commit \in BOOLEAN
    PROVE  LET g == HBExitEventAction(h, commit)
           IN  /\ HBBounded(g)
               /\ g.nextId = h.nextId /\ g.current = 0 /\ g.lastUI = h.lastUI
               /\ g.strict = h.strict
               /\ HBSound(h) /\ (h.logOpen \/ ~h.strict) => HBSound(g)
<1> DEFINE f == [h EXCEPT !.current = 0, !.logOpen = FALSE,
                          !.last = IF commit THEN h.current ELSE h.last]
           g == HBExitEventAction(h, commit)
<1>1. /\ h \in HBRecords /\ h.nextId \in Nat \ {0} /\ h.last \in Nat /\ h.current \in Nat
      /\ h.last < h.nextId /\ h.current < h.nextId
  BY DEF HBBounded, HBRecords
<1>2. /\ f \in HBRecords /\ f.nextId = h.nextId /\ f.current = 0 /\ f.last \in {h.last, h.current}
      /\ f.lastUI = h.lastUI /\ f.seen = h.seen /\ f.arcs = h.arcs
      /\ f.strict = h.strict /\ f.crashed = h.crashed
  BY <1>1 DEF HBRecords
<1>3. g = IF h.strict /\ ~h.logOpen THEN Crash(f) ELSE f
  BY DEF HBExitEventAction
<1> HIDE DEF f, g
<1>4. HBBounded(f) /\ (HBSound(h) => HBSound(f))
  BY <1>1, <1>2 DEF HBBounded, HBSound
<1>5. CASE h.strict /\ ~h.logOpen
  <2>1. /\ g \in HBRecords /\ g.nextId = f.nextId /\ g.current = f.current /\ g.last = f.last
        /\ g.lastUI = f.lastUI /\ g.arcs = f.arcs /\ g.strict = f.strict
    BY <1>2, <1>3, <1>5 DEF Crash, HBRecords
  <2> QED BY <1>2, <1>4, <1>5, <2>1 DEF HBBounded, g
<1>6. CASE ~(h.strict /\ ~h.logOpen)
  BY <1>2, <1>3, <1>4, <1>6 DEF g
<1> QED BY <1>5, <1>6

\* A join adds the arcs from all ends that came before.
LEMMA Joined ==
    ASSUME NEW h, HBBounded(h), NEW ends, ends \subseteq 1..(h.nextId - 1)
    PROVE  LET g == JoinArcs(h, ends)
           IN  /\ HBBounded(g)
               /\ g.nextId = h.nextId /\ g.current = h.current /\ g.lastUI = h.lastUI
               /\ g.logOpen = h.logOpen /\ g.strict = h.strict
               /\ HBSound(h) /\ h.current # 0 /\ (\A e \in ends : e <= h.current) => HBSound(g)
<1> DEFINE new == {<<e, h.current>> : e \in ends \ {h.current}} \ h.seen
           bad == {a \in new : a[2] <= a[1] \/ a[1] <= 0}
           fwd == {a \in new : a[2] > a[1]}
           v == [h EXCEPT !.seen = @ \cup new, !.arcs = @ \cup fwd]
           g == JoinArcs(h, ends)
<1>1. /\ h \in HBRecords /\ h.nextId \in Nat \ {0} /\ h.current \in Nat
      /\ h.current < h.nextId
  BY DEF HBBounded, HBRecords
<1>2. \A e \in ends : e \in Nat /\ e > 0 /\ e < h.nextId
  BY <1>1
<1>3. /\ new \subseteq Nat \X Nat
      /\ \A a \in new : a = <<a[1], h.current>> /\ a[1] \in ends /\ a[1] # h.current
                        /\ a[2] = h.current
  BY <1>1, <1>2
<1>4. g = IF ends = {} THEN h
          ELSE IF h.current = 0 \/ (h.strict /\ bad # {}) THEN Crash(h) ELSE v
  BY DEF JoinArcs
<1> HIDE DEF new
<1>5. fwd \subseteq (1..(h.nextId - 1)) \X (1..(h.nextId - 1))
  <2> SUFFICES ASSUME NEW a \in new, a[2] > a[1]
               PROVE  a \in (1..(h.nextId - 1)) \X (1..(h.nextId - 1))
    OBVIOUS
  <2>1. a[1] \in 1..(h.nextId - 1) /\ a[2] \in 1..(h.nextId - 1)
    BY <1>1, <1>2, <1>3
  <2> QED BY <1>3, <2>1
<1>6. ASSUME \A e \in ends : e <= h.current PROVE bad = {} /\ fwd = new
  <2>1. \A a \in new : a[1] > 0 /\ a[2] > a[1] /\ ~(a[2] <= a[1]) /\ ~(a[1] <= 0)
    BY <1>1, <1>2, <1>3, <1>6
  <2> QED BY <2>1
<1> HIDE DEF bad, fwd
<1>7. fwd \subseteq new
  BY DEF fwd
<1>8. /\ v \in HBRecords /\ v.nextId = h.nextId /\ v.current = h.current /\ v.last = h.last
      /\ v.lastUI = h.lastUI /\ v.seen = h.seen \cup new /\ v.arcs = h.arcs \cup fwd
      /\ v.logOpen = h.logOpen /\ v.strict = h.strict /\ v.crashed = h.crashed
  BY <1>1, <1>3, <1>7 DEF HBRecords
<1> HIDE DEF v, g
<1>9. HBBounded(v)
  BY <1>5, <1>8 DEF HBBounded
<1>10. HBSound(h) /\ fwd = new => HBSound(v)
  BY <1>8 DEF HBSound
<1>11. CASE ends = {}
  BY <1>4, <1>11 DEF g
<1>12. CASE ends # {} /\ (h.current = 0 \/ (h.strict /\ bad # {}))
  <2>1. g = Crash(h)
    BY <1>4, <1>12
  <2>2. /\ g \in HBRecords /\ g.nextId = h.nextId /\ g.current = h.current /\ g.last = h.last
        /\ g.lastUI = h.lastUI /\ g.arcs = h.arcs /\ g.strict = h.strict
        /\ g.logOpen = h.logOpen
    BY <1>1, <2>1 DEF Crash, HBRecords
  <2>3. HBBounded(g)
    BY <2>2 DEF HBBounded
  <2> QED BY <1>6, <1>12, <2>2, <2>3 DEF g
<1>13. CASE ends # {} /\ ~(h.current = 0 \/ (h.strict /\ bad # {}))
  <2>1. g = v
    BY <1>4, <1>13
  <2> QED BY <1>6, <1>8, <1>9, <1>10, <2>1 DEF g
<1> QED BY <1>11, <1>12, <1>13

\* A ghost event action is entered: a new id, and the checks of the log are off.
LEMMA GhostIn ==
    ASSUME NEW h, HBBounded(h)
    PROVE  LET g == GhostEntered(h)
           IN  /\ HBBounded(g) /\ (HBSound(h) => HBSound(g))
               /\ g.nextId = h.nextId + 1 /\ g.current = h.nextId /\ g.lastUI = h.lastUI
               /\ g.logOpen /\ ~g.strict
<1> DEFINE a == HBAllocateEventActionId(h)
           s == ActionLogStrictMode(a, FALSE)
<1>1. /\ HBBounded(a) /\ (HBSound(h) => HBSound(a)) /\ a.nextId = h.nextId + 1
      /\ a.lastUI = h.lastUI
  BY Allocated
<1> HIDE DEF a
<1>2. /\ HBBounded(s) /\ (HBSound(h) => HBSound(s)) /\ s.nextId = h.nextId + 1
      /\ s.lastUI = h.lastUI /\ ~s.strict
  BY <1>1, StrictModeSet
<1> HIDE DEF s
<1>3. h.nextId \in 1..(s.nextId - 1)
  BY <1>2 DEF HBBounded, HBRecords
<1>4. GhostEntered(h) = HBEnterEventAction(s, h.nextId, FALSE)
  BY DEF GhostEntered, s, a
<1> DEFINE g == HBEnterEventAction(s, h.nextId, FALSE)
<1>5. /\ HBBounded(g) /\ g.nextId = s.nextId /\ g.current = h.nextId /\ g.lastUI = s.lastUI
      /\ g.logOpen /\ g.strict = s.strict /\ (HBSound(s) => HBSound(g))
  BY <1>2, <1>3, Entered, ZenonT(60)
<1> HIDE DEF g
<1> QED BY <1>2, <1>4, <1>5 DEF g

-----------------------------------------------------------------------------
(* The table of handlers *)

\* getWaitingNames and the table agree, and no queue is empty.
Registry(r) ==
    /\ r = [handlers |-> r.handlers, waiting |-> r.waiting, dispatching |-> r.dispatching,
            history |-> r.history, idMap |-> r.idMap]
    /\ DOMAIN r.handlers \subseteq Descriptors
    /\ r.waiting = DOMAIN r.handlers
    /\ \A d \in DOMAIN r.handlers : r.handlers[d] \in Seq(Objects) /\ r.handlers[d] # <<>>
    /\ r.dispatching \in BOOLEAN

\* registerEventActionHandler
LEMMA HandlerAdded ==
    ASSUME NEW r, Registry(r), NEW d \in Descriptors, NEW o \in Objects
    PROVE  LET s == AddHandler(r, d, o)
               q == IF d \in DOMAIN r.handlers THEN r.handlers[d] ELSE <<>>
           IN  /\ Registry(s) /\ s.history = r.history /\ s.idMap = r.idMap
               /\ DOMAIN s.handlers = DOMAIN r.handlers \cup {d}
               /\ q \in Seq(Objects) /\ s.handlers[d] = Append(q, o)
               /\ \A k \in DOMAIN r.handlers \ {d} : s.handlers[k] = r.handlers[k]
<1> DEFINE s == AddHandler(r, d, o)
           q == IF d \in DOMAIN r.handlers THEN r.handlers[d] ELSE <<>>
           f == [k \in DOMAIN r.handlers \cup {d} |->
                   IF k = d THEN Append(q, o) ELSE r.handlers[k]]
<1>1. q \in Seq(Objects)
  BY DEF Registry
<1>2. Append(q, o) \in Seq(Objects) /\ Append(q, o) # <<>>
  BY <1>1
<1>3. s = [r EXCEPT !.handlers = f, !.waiting = @ \cup {d}]
  BY DEF AddHandler
<1> HIDE DEF q, s
<1>4. /\ DOMAIN f = DOMAIN r.handlers \cup {d} /\ f[d] = Append(q, o)
      /\ \A k \in DOMAIN r.handlers \ {d} : f[k] = r.handlers[k]
  OBVIOUS
<1> HIDE DEF f
<1>5. /\ s = [handlers |-> f, waiting |-> r.waiting \cup {d}, dispatching |-> r.dispatching,
              history |-> r.history, idMap |-> r.idMap]
  BY <1>3 DEF Registry
<1>6. /\ s.handlers = f /\ s.waiting = r.waiting \cup {d} /\ s.dispatching = r.dispatching
      /\ s.history = r.history /\ s.idMap = r.idMap
  BY <1>5
<1>7. \A k \in DOMAIN f : f[k] \in Seq(Objects) /\ f[k] # <<>>
  BY <1>2, <1>4 DEF Registry
<1>8. Registry(s)
  BY <1>4, <1>5, <1>6, <1>7 DEF Registry
<1> QED BY <1>1, <1>4, <1>6, <1>8 DEF s, q

\* deregisterEventActionHandler
LEMMA KeyErased ==
    ASSUME NEW r, Registry(r), NEW d
    PROVE  LET s == EraseKey(r, d)
           IN  /\ Registry(s) /\ s.history = r.history /\ s.idMap = r.idMap
               /\ DOMAIN s.handlers = DOMAIN r.handlers \ {d}
               /\ \A k \in DOMAIN r.handlers \ {d} : s.handlers[k] = r.handlers[k]
<1> DEFINE s == EraseKey(r, d)
           f == [k \in DOMAIN r.handlers \ {d} |-> r.handlers[k]]
<1>1. s = [r EXCEPT !.handlers = f, !.waiting = @ \ {d}]
  BY DEF EraseKey
<1>2. /\ DOMAIN f = DOMAIN r.handlers \ {d}
      /\ \A k \in DOMAIN r.handlers \ {d} : f[k] = r.handlers[k]
  OBVIOUS
<1> HIDE DEF f, s
<1>3. /\ s = [handlers |-> f, waiting |-> r.waiting \ {d}, dispatching |-> r.dispatching,
              history |-> r.history, idMap |-> r.idMap]
  BY <1>1 DEF Registry
<1>4. /\ s.handlers = f /\ s.waiting = r.waiting \ {d} /\ s.dispatching = r.dispatching
      /\ s.history = r.history /\ s.idMap = r.idMap
  BY <1>3
<1>5. \A k \in DOMAIN f : f[k] \in Seq(Objects) /\ f[k] # <<>>
  BY <1>2 DEF Registry
<1>6. Registry(s)
  BY <1>2, <1>3, <1>4, <1>5 DEF Registry
<1> QED BY <1>2, <1>4, <1>6 DEF s

\* The cleanup after a handler
LEMMA HandlerPopped ==
    ASSUME NEW r, Registry(r), NEW d \in DOMAIN r.handlers
    PROVE  LET s == PopHandler(r, d)
           IN  /\ Registry(s) /\ s.history = r.history /\ s.idMap = r.idMap
               /\ \A k \in DOMAIN r.handlers \ {d} :
                    k \in DOMAIN s.handlers /\ s.handlers[k] = r.handlers[k]
               /\ IF Len(r.handlers[d]) = 1 THEN DOMAIN s.handlers = DOMAIN r.handlers \ {d}
                  ELSE /\ DOMAIN s.handlers = DOMAIN r.handlers
                       /\ s.handlers[d] = Tail(r.handlers[d])
<1> DEFINE s == PopHandler(r, d)
           q == r.handlers[d]
<1>1. CASE Len(q) = 1
  <2>1. s = EraseKey(r, d)
    BY <1>1 DEF PopHandler
  <2> HIDE DEF s
  <2> QED BY <1>1, <2>1, KeyErased DEF s
<1>2. CASE Len(q) # 1
  <2> DEFINE f == [r.handlers EXCEPT ![d] = Tail(q)]
  <2>1. s = [r EXCEPT !.handlers = f]
    BY <1>2 DEF PopHandler
  <2>2. /\ DOMAIN f = DOMAIN r.handlers /\ f[d] = Tail(q)
        /\ \A k \in DOMAIN r.handlers \ {d} : f[k] = r.handlers[k]
    OBVIOUS
  <2>3. Tail(q) \in Seq(Objects) /\ Tail(q) # <<>>
    <3>1. q \in Seq(Objects) /\ q # <<>>
      BY DEF Registry
    <3> HIDE DEF q
    <3>2. Tail(q) \in Seq(Objects) /\ Len(Tail(q)) = Len(q) - 1 /\ Len(q) \in Nat \ {0}
      BY <3>1, HeadTailProperties, EmptySeq
    <3>3. Len(Tail(q)) # 0
      BY <1>2, <3>2
    <3> QED BY <3>2, <3>3, EmptySeq
  <2> HIDE DEF f, s, q
  <2>4. /\ s = [handlers |-> f, waiting |-> r.waiting, dispatching |-> r.dispatching,
                history |-> r.history, idMap |-> r.idMap]
    BY <2>1 DEF Registry
  <2>5. /\ s.handlers = f /\ s.waiting = r.waiting /\ s.dispatching = r.dispatching
        /\ s.history = r.history /\ s.idMap = r.idMap
    BY <2>4
  <2>6. \A k \in DOMAIN f : f[k] \in Seq(Objects) /\ f[k] # <<>>
    BY <2>2, <2>3 DEF Registry
  <2>7. Registry(s)
    BY <2>2, <2>4, <2>5, <2>6 DEF Registry
  <2> QED BY <1>2, <2>2, <2>5, <2>7 DEF s, q
<1> QED BY <1>1, <1>2

-----------------------------------------------------------------------------
(* The history and the translation of recorded ids *)

Entries == [id : Nat \ {0}, descriptor : Descriptors, original : OriginalIds \cup {-1}]

\* HistoryIsTranslation for the register r
Translated(r) ==
    LET H == r.history
    IN  /\ H \in Seq(Entries)
        /\ \A j, k \in 1..Len(H) : j < k => H[j].id < H[k].id
        /\ DOMAIN r.idMap \ {-1} = {H[k].original : k \in 1..Len(H)} \ {-1}
        /\ \A k \in 1..Len(H) : H[k].original # -1 => r.idMap[H[k].original] = H[k].id

\* A dispatch starts: the history grows by it, the table stays.
LEMMA DispatchStarted ==
    ASSUME NEW r, Registry(r), Translated(r), NEW id \in Nat \ {0},
           NEW o \in OriginalIds \cup {-1}, NEW d \in Descriptors,
           \A k \in 1..Len(r.history) : r.history[k].id < id,
           o = -1 \/ o \notin DOMAIN r.idMap
    PROVE  LET s == DispatchStart(r, id, o, d)
           IN  /\ Registry(s) /\ s.handlers = r.handlers /\ Translated(s)
               /\ s.history = Append(r.history, [id |-> id, descriptor |-> d, original |-> o])
<1> DEFINE s == DispatchStart(r, id, o, d)
           e == [id |-> id, descriptor |-> d, original |-> o]
           H == r.history
           G == Append(H, e)
           n == Len(H)
           m == IF o \in DOMAIN r.idMap THEN r.idMap
                ELSE [x \in DOMAIN r.idMap \cup {o} |-> IF x = o THEN id ELSE r.idMap[x]]
<1>1. s = [handlers |-> r.handlers, waiting |-> r.waiting, dispatching |-> TRUE,
           history |-> G, idMap |-> m]
  <2>1. s = [r EXCEPT !.dispatching = TRUE, !.history = G, !.idMap = m]
    BY DEF DispatchStart
  <2> HIDE DEF s, G, m
  <2> QED BY <2>1 DEF Registry
<1>2. /\ s.handlers = r.handlers /\ s.waiting = r.waiting /\ s.dispatching = TRUE
      /\ s.history = G /\ s.idMap = m
  BY <1>1
<1>3. Registry(s)
  BY <1>1, <1>2 DEF Registry
<1>4. e \in Entries /\ e.id = id /\ e.original = o
  BY DEF Entries
<1>5. H \in Seq(Entries)
  BY DEF Translated
<1> HIDE DEF e, s
<1>6. /\ G \in Seq(Entries) /\ n \in Nat /\ Len(G) = n + 1
      /\ \A k \in 1..n : G[k] = H[k]
      /\ G[n + 1] = e
  BY <1>4, <1>5, AppendProperties, LenProperties
<1>7. /\ DOMAIN m = DOMAIN r.idMap \cup {o}
      /\ o # -1 => m[o] = id
      /\ \A x \in DOMAIN r.idMap : x # -1 => m[x] = r.idMap[x]
  OBVIOUS
<1> HIDE DEF G, m
<1>8. /\ \A k \in 1..n : H[k].id < id
      /\ \A j, k \in 1..n : j < k => H[j].id < H[k].id
      /\ DOMAIN r.idMap \ {-1} = {H[k].original : k \in 1..n} \ {-1}
      /\ \A k \in 1..n : H[k].original # -1 => r.idMap[H[k].original] = H[k].id
  BY DEF Translated
<1> HIDE DEF H, n
<1>9. \A k \in 1..n + 1 : k \in 1..n \/ k = n + 1
  BY <1>6
<1>10. ASSUME NEW j \in 1..n + 1, NEW k \in 1..n + 1, j < k PROVE G[j].id < G[k].id
  <2>1. j \in 1..n
    BY <1>6, <1>10
  <2>2. CASE k \in 1..n
    BY <1>6, <1>8, <1>10, <2>1, <2>2
  <2>3. CASE k = n + 1
    BY <1>4, <1>6, <1>8, <2>1, <2>3
  <2> QED BY <1>9, <2>2, <2>3
<1>11. {G[k].original : k \in 1..n + 1} = {H[k].original : k \in 1..n} \cup {o}
  <2>1. n + 1 \in 1..n + 1 /\ 1..n \subseteq 1..n + 1
    BY <1>6
  <2> QED BY <1>4, <1>6, <1>9, <2>1
<1>12. DOMAIN m \ {-1} = {G[k].original : k \in 1..n + 1} \ {-1}
  BY <1>7, <1>8, <1>11
<1>13. ASSUME NEW k \in 1..n + 1, G[k].original # -1 PROVE m[G[k].original] = G[k].id
  <2>1. CASE k \in 1..n
    <3>1. G[k] = H[k] /\ H[k].original \in DOMAIN r.idMap
      BY <1>6, <1>8, <1>13, <2>1
    <3> QED BY <1>7, <1>8, <1>13, <2>1, <3>1
  <2>2. CASE k = n + 1
    BY <1>4, <1>6, <1>7, <1>13, <2>2
  <2> QED BY <1>9, <2>1, <2>2
<1>14. Translated(s)
  BY <1>2, <1>6, <1>10, <1>12, <1>13 DEF Translated
<1> QED BY <1>2, <1>3, <1>14 DEF s, e, G, H

\* A dispatch ends: an aborted one leaves no trace.
LEMMA DispatchEnded ==
    ASSUME NEW r, Registry(r), Translated(r), NEW commit \in BOOLEAN, NEW o,
           ~commit => r.history # <<>> /\ r.history[Len(r.history)].original = o
    PROVE  LET s == DispatchEnd(r, commit, o)
           IN  /\ Registry(s) /\ s.handlers = r.handlers /\ Translated(s)
               /\ commit => s.history = r.history
               /\ ~commit => s.history = Front(r.history) /\ o \notin DOMAIN s.idMap
<1> DEFINE s == DispatchEnd(r, commit, o)
           H == r.history
           G == Front(H)
           n == Len(H)
           m == [x \in DOMAIN r.idMap \ {o} |-> r.idMap[x]]
           p == IF commit THEN H ELSE G
           l == IF commit THEN r.idMap ELSE m
<1>1. s = [handlers |-> r.handlers, waiting |-> r.waiting, dispatching |-> FALSE,
           history |-> p, idMap |-> l]
  <2>1. s = [r EXCEPT !.dispatching = FALSE, !.history = p, !.idMap = l]
    BY DEF DispatchEnd
  <2> HIDE DEF s, p, l
  <2> QED BY <2>1 DEF Registry
<1> HIDE DEF s
<1>2. /\ s.handlers = r.handlers /\ s.waiting = r.waiting /\ s.dispatching = FALSE
      /\ s.history = (IF commit THEN H ELSE G) /\ s.idMap = (IF commit THEN r.idMap ELSE m)
  <2> HIDE DEF p, l
  <2>1. s.history = p /\ s.idMap = l
    BY <1>1
  <2>2. s.handlers = r.handlers /\ s.waiting = r.waiting /\ s.dispatching = FALSE
    BY <1>1
  <2> QED BY <2>1, <2>2 DEF p, l
<1>3. Registry(s)
  <2> HIDE DEF p, l
  <2>1. s.history = p /\ s.idMap = l
    BY <1>1
  <2> QED BY <1>1, <1>2, <2>1 DEF Registry
<1>4. CASE commit
  <2>1. s.history = H /\ s.idMap = r.idMap
    BY <1>2, <1>4
  <2>2. Translated(s)
    BY <2>1 DEF Translated
  <2> QED BY <1>2, <1>3, <1>4, <2>1, <2>2 DEF s
<1>5. CASE ~commit
  <2>1. H \in Seq(Entries) /\ H # <<>>
    BY <1>5 DEF Translated
  <2>2. /\ G \in Seq(Entries) /\ n \in Nat \ {0} /\ Len(G) = n - 1
        /\ \A k \in 1..n - 1 : G[k] = H[k]
    BY <2>1, FrontOf, EmptySeq
  <2>3. DOMAIN m = DOMAIN r.idMap \ {o} /\ \A x \in DOMAIN m : m[x] = r.idMap[x]
    OBVIOUS
  <2>4. H[n].original = o
    BY <1>5
  <2>5. /\ \A j, k \in 1..n : j < k => H[j].id < H[k].id
        /\ DOMAIN r.idMap \ {-1} = {H[k].original : k \in 1..n} \ {-1}
        /\ \A k \in 1..n : H[k].original # -1 => r.idMap[H[k].original] = H[k].id
    BY DEF Translated
  <2>6. \A k \in 1..n : H[k].id \in Nat
    <3>1. \A k \in 1..n : H[k] \in Entries
      BY <2>1, ElementOfSeq
    <3> HIDE DEF H
    <3> QED BY <3>1 DEF Entries
  <2> HIDE DEF G, H, m, n
  <2>7. \A k \in 1..n : (k \in 1..n - 1 \/ k = n)
    BY <2>2
  <2>8. 1..n - 1 \subseteq 1..n /\ n \in 1..n
    BY <2>2
  <2>9. ASSUME NEW k \in 1..n - 1, H[k].original # -1 PROVE H[k].original # o
    <3>1. H[k].id < H[n].id /\ H[k].id \in Nat /\ H[n].id \in Nat
      BY <2>2, <2>5, <2>6, <2>8
    <3>2. H[k].original = o => H[k].id = H[n].id
      BY <2>4, <2>5, <2>8, <2>9
    <3> QED BY <3>1, <3>2
  <2>10. \A j, k \in 1..n - 1 : j < k => G[j].id < G[k].id
    BY <2>2, <2>5, <2>8
  <2>11. {G[k].original : k \in 1..n - 1} = {H[k].original : k \in 1..n - 1}
    BY <2>2
  <2>12. DOMAIN m \ {-1} = {G[k].original : k \in 1..n - 1} \ {-1}
    <3>1. ASSUME NEW x \in DOMAIN m \ {-1} PROVE x \in {H[k].original : k \in 1..n - 1}
      <4>1. x # o /\ x \in {H[k].original : k \in 1..n}
        BY <2>3, <2>5, <3>1
      <4> QED BY <2>4, <2>7, <4>1
    <3>2. ASSUME NEW k \in 1..n - 1, H[k].original # -1 PROVE H[k].original \in DOMAIN m
      BY <2>3, <2>5, <2>8, <2>9, <3>2
    <3> QED BY <2>11, <3>1, <3>2
  <2>13. \A k \in 1..n - 1 : G[k].original # -1 => m[G[k].original] = G[k].id
    <3> SUFFICES ASSUME NEW k \in 1..n - 1, G[k].original # -1
                 PROVE  m[G[k].original] = G[k].id
      OBVIOUS
    <3>1. G[k] = H[k] /\ H[k].original # o /\ H[k].original \in DOMAIN r.idMap
      BY <2>2, <2>5, <2>8, <2>9
    <3> QED BY <2>3, <2>5, <2>8, <3>1
  <2>14. s.history = G /\ s.idMap = m
    BY <1>2, <1>5
  <2>15. Translated(s)
    BY <2>2, <2>10, <2>12, <2>13, <2>14 DEF Translated
  <2>16. o \notin DOMAIN s.idMap
    BY <2>3, <2>14
  <2> QED BY <1>2, <1>3, <1>5, <2>14, <2>15, <2>16 DEF s, G, H
<1> QED BY <1>4, <1>5

-----------------------------------------------------------------------------
(* The dispatch *)

\* The search for a provider ends at one of them or behind the last.
LEMMA FirstProviderInRange ==
    ASSUME NEW d
    PROVE  FirstProvider(d) \in 1..(Len(Providers) + 1) /\ Len(Providers) \in Nat
<1> DEFINE n == Len(Providers)
           T == {i \in 1..n : Providers[i].type = d.type}
<1>1. n \in Nat
  BY RegisterAssumption, LenProperties
<1>2. CASE T = {}
  <2>1. FirstProvider(d) = n + 1
    BY <1>2 DEF FirstProvider
  <2> HIDE DEF n, T
  <2> QED BY <1>1, <2>1 DEF n
<1>3. CASE T # {}
  <2> HIDE DEF n
  <2>1. T \subseteq Nat
    BY <1>1
  <2>2. PICK x \in T : \A y \in T : ~(<<y, x>> \in OpToRel(<, Nat))
    <3>1. IsWellFoundedOn(OpToRel(<, Nat), Nat)
      BY NatLessThanWellFounded
    <3> HIDE DEF T
    <3> QED BY <1>3, <2>1, <3>1, WFMin
  <2>3. \A y \in T : ~(y < x)
    BY <2>1, <2>2 DEF OpToRel
  <2>4. /\ x \in 1..n /\ Providers[x].type = d.type
        /\ \A j \in 1..(x - 1) : Providers[j].type # d.type
    <3>1. x \in 1..n /\ Providers[x].type = d.type
      OBVIOUS
    <3>2. ASSUME NEW j \in 1..(x - 1), Providers[j].type = d.type PROVE FALSE
      <4>1. j \in 1..n /\ j < x
        BY <1>1, <3>1
      <4> QED BY <2>3, <3>2, <4>1
    <3> QED BY <3>1, <3>2
  <2>5. FirstProvider(d) \in 1..n
    BY <2>4 DEF FirstProvider, n
  <2> QED BY <1>1, <2>5 DEF n
<1> QED BY <1>2, <1>3

\* A frame whose dispatch called the handlers of a descriptor and will clean up after it
Holds(f) == f.kind \in {"called", "handler"} /\ ~f.dangling

\* Each such frame finds its queue, and two of them find two handlers in it.
FramesHold(c, r) ==
    /\ \A i \in DOMAIN c : Holds(c[i]) => c[i].descriptor \in DOMAIN r.handlers
    /\ \A i, j \in DOMAIN c :
         i # j /\ Holds(c[i]) /\ Holds(c[j]) /\ c[i].descriptor = c[j].descriptor
            => Len(r.handlers[c[i].descriptor]) >= 2

\* Dispatches have descriptors; one level of event actions, and one more in a modal loop.
Stack(c) ==
    /\ c \in Seq(Frames)
    /\ Len(c) <= 1 \/ (NestedLoops /\ Len(c) <= 2)
    /\ \A i \in DOMAIN c :
         /\ c[i].kind \in {"called", "handler", "provider"} =>
              c[i].index # 0 /\ c[i].descriptor \in Descriptors
         /\ c[i].kind = "provider" => c[i].index <= Len(Providers)
         /\ c[i].kind = "called" => c[i].object \in Objects

\* A dispatch is open: its id is the preallocated one, which is not given out before it ends.
Open(c) == c # <<>> /\ c[1].kind \in {"called", "handler", "provider"}

HistoryFits(h, r, c, p) ==
    /\ \A k \in 1..Len(r.history) : r.history[k].id < h.nextId
    /\ Preallocate /\ Open(c) => r.history # <<>> /\ r.history[Len(r.history)].id = p
    /\ Preallocate /\ ~Open(c) => \A k \in 1..Len(r.history) : r.history[k].id < p
    /\ \A i \in DOMAIN c : c[i].kind = "provider" =>
         r.history # <<>> /\ r.history[Len(r.history)].original = c[i].original

RegFits(h, r, c, p) ==
    /\ HBBounded(h) /\ Registry(r) /\ Translated(r) /\ Stack(c)
    /\ p \in 0..(h.nextId - 1) /\ (Preallocate => p > 0)
    /\ FramesHold(c, r)
    /\ HistoryFits(h, r, c, p)

\* Modal loops are those of the record client, which has no providers.
Modal == NestedLoops => ~Preallocate /\ Providers = <<>>

\* What also holds once the behaviour of the program is undefined
RegShape(h, r, c, p) ==
    /\ HBBounded(h) /\ Registry(r) /\ Translated(r) /\ c \in Seq(Frames)
    /\ p \in 0..(h.nextId - 1)
    /\ \A k \in 1..Len(r.history) : r.history[k].id < h.nextId

JoinsFit(h, js) == DOMAIN js = Joins /\ \A j \in Joins : js[j] \subseteq 1..(h.nextId - 1)

RegisterInv ==
    /\ RegShape(hb, reg, calls, preId)
    /\ JoinsFit(hb, joins)
    /\ undefined \in BOOLEAN
    /\ undefined \/ RegFits(hb, reg, calls, preId)

\* The invariant implies the properties.
LEMMA InvImplies == RegisterInv => RegistryConsistent /\ HistoryIsTranslation
<1> SUFFICES ASSUME RegisterInv PROVE RegistryConsistent /\ HistoryIsTranslation
  OBVIOUS
<1>1. /\ HBBounded(hb) /\ Registry(reg) /\ Translated(reg) /\ calls \in Seq(Frames)
      /\ preId \in 0..(hb.nextId - 1)
      /\ \A k \in 1..Len(reg.history) : reg.history[k].id < hb.nextId
  BY DEF RegisterInv, RegShape
<1>2. /\ hb.nextId \in Nat \ {0} /\ hb.current \in 0..(hb.nextId - 1)
      /\ hb.last \in 0..(hb.nextId - 1) /\ hb.lastUI \in 0..(hb.nextId - 1)
      /\ hb.arcs \subseteq (1..(hb.nextId - 1)) \X (1..(hb.nextId - 1))
  BY <1>1 DEF HBBounded, HBRecords
<1>3. \A k \in 1..Len(reg.history) : reg.history[k].id \in 1..(hb.nextId - 1)
  <2> SUFFICES ASSUME NEW k \in 1..Len(reg.history)
               PROVE  reg.history[k].id \in 1..(hb.nextId - 1)
    OBVIOUS
  <2>1. reg.history[k] \in Entries
    BY <1>1, ElementOfSeq DEF Translated
  <2>2. reg.history[k].id \in Nat \ {0}
    BY <2>1 DEF Entries
  <2>3. reg.history[k].id < hb.nextId
    BY <1>1
  <2> QED BY <1>2, <2>2, <2>3
<1>4. RegisterTypeOK
  BY <1>1, <1>2, <1>3 DEF RegisterTypeOK, Registry, RegisterInv, JoinsFit
<1> QED BY <1>1, <1>4 DEF RegistryConsistent, HistoryIsTranslation, Registry, Translated

\* The invariant after a step that keeps the joins
LEMMA InvFrom ==
    ASSUME RegisterInv, RegFits(hb', reg', calls', preId'), hb'.nextId >= hb.nextId,
           joins' = joins, undefined' = undefined
    PROVE  RegisterInv'
<1>1. RegShape(hb', reg', calls', preId')
  BY DEF RegShape, RegFits, HistoryFits, Stack
<1>2. hb.nextId \in Nat /\ hb'.nextId \in Nat
  BY DEF RegisterInv, RegShape, RegFits, HBBounded, HBRecords
<1>3. 1..(hb.nextId - 1) \subseteq 1..(hb'.nextId - 1)
  BY <1>2
<1>4. JoinsFit(hb', joins')
  BY <1>3 DEF RegisterInv, JoinsFit
<1> QED BY <1>1, <1>4 DEF RegisterInv

\* The stack of frames with one more, and without its top
LEMMA StackPush ==
    ASSUME NEW c \in Seq(Frames), NEW f \in Frames
    PROVE  LET e == Append(c, f)
           IN  /\ e \in Seq(Frames) /\ Len(e) = Len(c) + 1 /\ Len(c) \in Nat /\ e # <<>>
               /\ DOMAIN c = 1..Len(c) /\ DOMAIN e = 1..Len(c) + 1
               /\ \A i \in 1..Len(c) : e[i] = c[i]
               /\ e[Len(c) + 1] = f /\ Last(e) = f
<1> DEFINE e == Append(c, f)
<1>1. /\ e \in Seq(Frames) /\ Len(e) = Len(c) + 1 /\ Len(c) \in Nat
      /\ DOMAIN c = 1..Len(c) /\ DOMAIN e = 1..Len(c) + 1
      /\ \A i \in 1..Len(c) : e[i] = c[i]
      /\ e[Len(c) + 1] = f
  BY LenProperties, AppendProperties
<1> HIDE DEF e
<1>2. Last(e) = f
  BY <1>1 DEF Last
<1>3. Len(e) # 0
  BY <1>1
<1>4. e # <<>>
  BY <1>3, EmptySeq
<1> QED BY <1>1, <1>2, <1>4 DEF e

\* The top of the stack
LEMMA StackTop ==
    ASSUME NEW c \in Seq(Frames), c # <<>>
    PROVE  /\ Len(c) \in Nat \ {0} /\ DOMAIN c = 1..Len(c) /\ Len(c) \in DOMAIN c
           /\ Last(c) = c[Len(c)] /\ Last(c) \in Frames
<1>1. Len(c) \in Nat \ {0} /\ DOMAIN c = 1..Len(c)
  BY EmptySeq, LenProperties
<1>2. Len(c) \in 1..Len(c)
  BY <1>1
<1> QED BY <1>1, <1>2, ElementOfSeq DEF Last

-----------------------------------------------------------------------------
(* What the operations do to RegFits *)

\* The bookkeeping alone moves on.
LEMMA FitsLater ==
    ASSUME NEW h, NEW r, NEW c, NEW p, RegFits(h, r, c, p),
           NEW g, HBBounded(g), g.nextId >= h.nextId
    PROVE  RegFits(g, r, c, p)
<1>1. h.nextId \in Nat \ {0} /\ g.nextId \in Nat \ {0}
  BY DEF RegFits, HBBounded, HBRecords
<1>2. p \in 0..(g.nextId - 1)
  BY <1>1 DEF RegFits
<1>3. \A k \in 1..Len(r.history) : r.history[k].id < g.nextId
  <2> SUFFICES ASSUME NEW k \in 1..Len(r.history) PROVE r.history[k].id < g.nextId
    OBVIOUS
  <2>1. r.history[k] \in Entries
    BY ElementOfSeq DEF RegFits, Translated
  <2>2. r.history[k].id \in Nat
    BY <2>1 DEF Entries
  <2>3. r.history[k].id < h.nextId
    BY DEF RegFits, HistoryFits
  <2> QED BY <1>1, <2>2, <2>3
<1> QED BY <1>2, <1>3 DEF RegFits, HistoryFits

\* Another handler is registered.
LEMMA FitsAdd ==
    ASSUME NEW h, NEW r, NEW c, NEW p, RegFits(h, r, c, p),
           NEW d \in Descriptors, NEW o \in Objects
    PROVE  LET s == AddHandler(r, d, o)
           IN  /\ RegFits(h, s, c, p)
               /\ s.idMap = r.idMap /\ d \in DOMAIN s.handlers
               /\ d \in DOMAIN r.handlers => Len(s.handlers[d]) >= 2
<1> DEFINE s == AddHandler(r, d, o)
           q == IF d \in DOMAIN r.handlers THEN r.handlers[d] ELSE <<>>
<1>1. /\ Registry(s) /\ s.history = r.history /\ s.idMap = r.idMap
      /\ DOMAIN s.handlers = DOMAIN r.handlers \cup {d}
      /\ q \in Seq(Objects) /\ s.handlers[d] = Append(q, o)
      /\ \A k \in DOMAIN r.handlers \ {d} : s.handlers[k] = r.handlers[k]
  BY HandlerAdded DEF RegFits
<1> HIDE DEF s
<1>2. Len(q) \in Nat /\ Len(s.handlers[d]) = Len(q) + 1
  <2> HIDE DEF q
  <2> QED BY <1>1, LenProperties, AppendProperties
<1>3. d \in DOMAIN r.handlers => Len(r.handlers[d]) \in Nat \ {0} /\ q = r.handlers[d]
  BY EmptySeq DEF RegFits, Registry
<1> HIDE DEF q
<1>4. d \in DOMAIN r.handlers => Len(s.handlers[d]) >= 2
  BY <1>2, <1>3
<1>5. FramesHold(c, s)
  <2>1. \A i \in DOMAIN c : Holds(c[i]) => c[i].descriptor \in DOMAIN s.handlers
    BY <1>1 DEF RegFits, FramesHold
  <2>2. ASSUME NEW i \in DOMAIN c, NEW j \in DOMAIN c, i # j, Holds(c[i]), Holds(c[j]),
               c[i].descriptor = c[j].descriptor
        PROVE  Len(s.handlers[c[i].descriptor]) >= 2
    <3>1. c[i].descriptor \in DOMAIN r.handlers /\ Len(r.handlers[c[i].descriptor]) >= 2
      BY <2>2 DEF RegFits, FramesHold
    <3>2. CASE c[i].descriptor = d
      BY <1>4, <3>1, <3>2
    <3>3. CASE c[i].descriptor # d
      BY <1>1, <3>1, <3>3
    <3> QED BY <3>2, <3>3
  <2> QED BY <2>1, <2>2 DEF FramesHold
<1>6. Translated(s) /\ HistoryFits(h, s, c, p)
  BY <1>1, SMTT(60) DEF RegFits, Translated, HistoryFits
<1>7. RegFits(h, s, c, p)
  BY <1>1, <1>5, <1>6 DEF RegFits
<1> QED BY <1>1, <1>4, <1>7 DEF s

\* A key is erased, also under the frames that hold it.
LEMMA FitsErase ==
    ASSUME NEW h, NEW r, NEW c, NEW p, RegFits(h, r, c, p), NEW d
    PROVE  RegFits(h, EraseKey(r, d), Dangle(c, d), p)
<1> DEFINE s == EraseKey(r, d)
           e == Dangle(c, d)
<1>1. /\ Registry(s) /\ s.history = r.history /\ s.idMap = r.idMap
      /\ DOMAIN s.handlers = DOMAIN r.handlers \ {d}
      /\ \A k \in DOMAIN r.handlers \ {d} : s.handlers[k] = r.handlers[k]
  BY KeyErased DEF RegFits
<1>2. c \in Seq(Frames) /\ DOMAIN c = 1..Len(c) /\ Len(c) \in Nat
  BY LenProperties DEF RegFits, Stack
<1>3. DOMAIN e = 1..Len(c)
  BY <1>2 DEF Dangle
<1>4. \A i \in 1..Len(c) :
         /\ e[i] \in Frames /\ e[i].kind = c[i].kind /\ e[i].descriptor = c[i].descriptor
         /\ e[i].index = c[i].index /\ e[i].original = c[i].original
         /\ e[i].object = c[i].object
         /\ e[i].dangling = (c[i].dangling \/ (c[i].index # 0 /\ c[i].descriptor = d))
  <2> SUFFICES ASSUME NEW i \in 1..Len(c)
               PROVE
         /\ e[i] \in Frames /\ e[i].kind = c[i].kind /\ e[i].descriptor = c[i].descriptor
         /\ e[i].index = c[i].index /\ e[i].original = c[i].original
         /\ e[i].object = c[i].object
         /\ e[i].dangling = (c[i].dangling \/ (c[i].index # 0 /\ c[i].descriptor = d))
    OBVIOUS
  <2>1. c[i] \in Frames
    BY <1>2, ElementOfSeq
  <2> DEFINE b == c[i].dangling \/ (c[i].index # 0 /\ c[i].descriptor = d)
  <2>2. e[i] = [c[i] EXCEPT !.dangling = b] /\ b \in BOOLEAN
    BY <1>2, <2>1 DEF Dangle, Frames
  <2> HIDE DEF e, b
  <2>3. /\ e[i] \in Frames /\ e[i].kind = c[i].kind /\ e[i].descriptor = c[i].descriptor
        /\ e[i].index = c[i].index /\ e[i].original = c[i].original
        /\ e[i].object = c[i].object
        /\ e[i].dangling = b
    BY <2>1, <2>2 DEF Frames
  <2> QED BY <2>3 DEF b
<1> HIDE DEF s, e
<1>5. e \in Seq(Frames) /\ Len(e) = Len(c)
  <2>1. e = [i \in 1..Len(c) |-> e[i]]
    <3> USE DEF e, Dangle
    <3> QED BY <1>2
  <2>2. e \in [1..Len(c) -> Frames]
    BY <1>4, <2>1
  <2> QED BY <1>2, <2>2, LenProperties, IsASeq
<1>6. Stack(e)
  <2>1. \A i \in DOMAIN e :
         /\ e[i].kind \in {"called", "handler", "provider"} =>
              e[i].index # 0 /\ e[i].descriptor \in Descriptors
         /\ e[i].kind = "provider" => e[i].index <= Len(Providers)
         /\ e[i].kind = "called" => e[i].object \in Objects
    BY <1>2, <1>3, <1>4 DEF RegFits, Stack
  <2>2. Len(c) <= 1 \/ (NestedLoops /\ Len(c) <= 2)
    BY DEF RegFits, Stack
  <2> QED BY <1>5, <2>1, <2>2 DEF Stack
<1>7. ASSUME NEW i \in 1..Len(c), Holds(e[i])
      PROVE  Holds(c[i]) /\ c[i].descriptor # d /\ e[i].descriptor = c[i].descriptor
  <2>1. ~c[i].dangling /\ c[i].kind \in {"called", "handler"} /\ c[i].index # 0
    BY <1>2, <1>4, <1>7 DEF Holds, RegFits, Stack
  <2> QED BY <1>4, <1>7, <2>1 DEF Holds
<1>8. FramesHold(e, s)
  <2>1. \A i \in DOMAIN e : Holds(e[i]) => e[i].descriptor \in DOMAIN s.handlers
    BY <1>1, <1>2, <1>3, <1>7 DEF RegFits, FramesHold
  <2>2. ASSUME NEW i \in DOMAIN e, NEW j \in DOMAIN e, i # j, Holds(e[i]), Holds(e[j]),
               e[i].descriptor = e[j].descriptor
        PROVE  Len(s.handlers[e[i].descriptor]) >= 2
    <3>1. /\ Holds(c[i]) /\ Holds(c[j]) /\ c[i].descriptor = c[j].descriptor
          /\ c[i].descriptor # d /\ e[i].descriptor = c[i].descriptor
      BY <1>3, <1>7, <2>2
    <3>2. Len(r.handlers[c[i].descriptor]) >= 2 /\ c[i].descriptor \in DOMAIN r.handlers
      BY <1>2, <1>3, <2>2, <3>1 DEF RegFits, FramesHold
    <3> QED BY <1>1, <3>1, <3>2
  <2> QED BY <2>1, <2>2 DEF FramesHold
<1>9. Open(e) <=> Open(c)
  <2>1. e # <<>> <=> c # <<>>
    BY <1>2, <1>5, EmptySeq
  <2>2. c # <<>> => 1 \in 1..Len(c)
    BY <1>2, EmptySeq
  <2> QED BY <1>4, <2>1, <2>2 DEF Open
<1>10. Translated(s) /\ HistoryFits(h, s, e, p)
  <2>1. \A i \in DOMAIN e : e[i].kind = "provider" =>
          s.history # <<>> /\ s.history[Len(s.history)].original = e[i].original
    BY <1>1, <1>2, <1>3, <1>4 DEF RegFits, HistoryFits
  <2> QED BY <1>1, <1>9, <2>1 DEF RegFits, Translated, HistoryFits
<1> QED BY <1>1, <1>6, <1>8, <1>10 DEF RegFits, s, e

\* The frames below the top keep their queues.
LEMMA HoldsFront ==
    ASSUME NEW c \in Seq(Frames), c # <<>>, NEW r, FramesHold(c, r)
    PROVE  FramesHold(Front(c), r)
<1>1. /\ DOMAIN Front(c) = 1..Len(c) - 1 /\ Len(c) \in Nat \ {0}
      /\ \A k \in 1..Len(c) - 1 : Front(c)[k] = c[k]
  BY FrontOf
<1>2. DOMAIN c = 1..Len(c) /\ 1..Len(c) - 1 \subseteq 1..Len(c)
  BY <1>1, LenProperties
<1> QED BY <1>1, <1>2, SMTT(60) DEF FramesHold

\* The top frame is taken from the stack, and the table changes with it.
LEMMA FitsPop ==
    ASSUME NEW h, NEW r, NEW c, NEW p, RegFits(h, r, c, p), c # <<>>,
           ~Preallocate \/ ~Open(c),
           NEW s, Registry(s), s.history = r.history, Translated(s), FramesHold(Front(c), s)
    PROVE  RegFits(h, s, Front(c), p)
<1> DEFINE e == Front(c)
<1>1. c \in Seq(Frames) /\ DOMAIN c = 1..Len(c)
  BY LenProperties DEF RegFits, Stack
<1>2. /\ e \in Seq(Frames) /\ Len(e) = Len(c) - 1 /\ Len(c) \in Nat \ {0}
      /\ DOMAIN e = 1..Len(c) - 1
      /\ \A k \in 1..Len(c) - 1 : e[k] = c[k]
  BY <1>1, FrontOf
<1> HIDE DEF e
<1>3. 1..Len(c) - 1 \subseteq 1..Len(c)
  BY <1>2
<1>4. Stack(e)
  <2>1. \A i \in DOMAIN e :
         /\ e[i].kind \in {"called", "handler", "provider"} =>
              e[i].index # 0 /\ e[i].descriptor \in Descriptors
         /\ e[i].kind = "provider" => e[i].index <= Len(Providers)
         /\ e[i].kind = "called" => e[i].object \in Objects
    BY <1>1, <1>2, <1>3 DEF RegFits, Stack
  <2>2. Len(c) <= 1 \/ (NestedLoops /\ Len(c) <= 2)
    BY DEF RegFits, Stack
  <2>3. Len(e) <= 1 \/ (NestedLoops /\ Len(e) <= 2)
    BY <1>2, <2>2
  <2> QED BY <1>2, <2>1, <2>3 DEF Stack
<1>5. Open(e) => Open(c)
  <2> SUFFICES ASSUME Open(e) PROVE Open(c)
    OBVIOUS
  <2>1. e # <<>> /\ Len(e) # 0
    BY <1>2, EmptySeq DEF Open
  <2>2. 1 \in 1..Len(c) - 1
    BY <1>2, <2>1
  <2> QED BY <1>2, <2>2 DEF Open
<1>6. HistoryFits(h, s, e, p)
  BY <1>1, <1>2, <1>3, <1>5 DEF RegFits, HistoryFits
<1> QED BY <1>4, <1>6 DEF RegFits, e

\* A dispatch is committed: the replay scheduler allocates its next id.
LEMMA FitsReturn ==
    ASSUME Modal, NEW h, NEW r, NEW c, RegFits(h, r, c, preId), c # <<>>,
           NEW s, Registry(s), s.history = r.history, Translated(s), FramesHold(Front(c), s)
    PROVE  LET left == HBExitEventAction(h, TRUE)
           IN  /\ RegFits(TakePreallocated(left), s, Front(c), NextPreallocated(left))
               /\ TakePreallocated(left).nextId >= h.nextId /\ h.nextId \in Nat
<1> DEFINE left == HBExitEventAction(h, TRUE)
           g == TakePreallocated(left)
           p == NextPreallocated(left)
<1>1. HBBounded(h) /\ h.nextId \in Nat \ {0}
  BY DEF RegFits, HBBounded, HBRecords
<1>2. HBBounded(left) /\ left.nextId = h.nextId
  BY <1>1, Left
<1> HIDE DEF left
<1>3. CASE ~Preallocate
  <2>1. g = left /\ p = preId
    BY <1>3 DEF TakePreallocated, NextPreallocated
  <2>2. RegFits(h, s, Front(c), preId)
    BY <1>3, FitsPop
  <2>3. RegFits(left, s, Front(c), preId)
    BY <1>1, <1>2, <2>2, FitsLater
  <2>4. RegFits(g, s, Front(c), p) /\ g.nextId = h.nextId
    BY <1>2, <2>1, <2>3
  <2> HIDE DEF g, p
  <2>5. g.nextId >= h.nextId
    BY <1>1, <2>4
  <2> QED BY <1>1, <2>4, <2>5 DEF g, p, left
<1>4. CASE Preallocate
  <2>1. g = HBAllocateEventActionId(left) /\ p = left.nextId
    BY <1>4 DEF TakePreallocated, NextPreallocated
  <2>2. HBBounded(g) /\ g.nextId = h.nextId + 1
    BY <1>2, <2>1, Allocated
  <2>3. c \in Seq(Frames) /\ Len(c) <= 1
    BY <1>4 DEF RegFits, Stack, Modal
  <2>4. Front(c) \in Seq(Frames) /\ Len(Front(c)) = Len(c) - 1 /\ Len(c) \in Nat \ {0}
    BY <2>3, FrontOf
  <2>5. Len(Front(c)) = 0
    BY <2>3, <2>4
  <2>6. Front(c) = <<>>
    BY <2>4, <2>5, EmptySeq
  <2> DEFINE z == << >>
  <2>7. Stack(z) /\ ~Open(z) /\ DOMAIN z = {}
    BY DEF Stack, Open
  <2>8. p \in 0..(g.nextId - 1) /\ p > 0
    BY <1>1, <1>2, <2>1, <2>2
  <2>9. \A k \in 1..Len(s.history) : s.history[k].id < h.nextId /\ s.history[k].id < g.nextId
    <3> SUFFICES ASSUME NEW k \in 1..Len(s.history)
                 PROVE s.history[k].id < h.nextId /\ s.history[k].id < g.nextId
      OBVIOUS
    <3>1. s.history[k] \in Entries
      BY ElementOfSeq DEF Translated
    <3>2. s.history[k].id \in Nat
      BY <3>1 DEF Entries
    <3>3. s.history[k].id < h.nextId
      BY DEF RegFits, HistoryFits
    <3> QED BY <1>1, <2>2, <3>2, <3>3
  <2> HIDE DEF z, g, p
  <2>10. p = h.nextId
    BY <1>2, <2>1
  <2>11. HistoryFits(g, s, z, p)
    BY <2>7, <2>9, <2>10 DEF HistoryFits
  <2>12. FramesHold(z, s)
    BY <2>7 DEF FramesHold
  <2>13. RegFits(g, s, z, p)
    BY <2>2, <2>7, <2>8, <2>11, <2>12 DEF RegFits
  <2>14. g.nextId >= h.nextId
    BY <1>1, <2>2
  <2> QED BY <1>1, <2>6, <2>13, <2>14 DEF g, p, left, z
<1> QED BY <1>3, <1>4

\* A frame that is no dispatch comes on the stack.
LEMMA FitsPush ==
    ASSUME NEW h, NEW r, NEW c, NEW p, RegFits(h, r, c, p),
           NEW f \in Frames, f.kind \in {"ghost", "plain", "immediate"},
           c = <<>> \/ (NestedLoops /\ Len(c) <= 1)
    PROVE  RegFits(h, r, Append(c, f), p)
<1> DEFINE e == Append(c, f)
           n == Len(c)
<1>1. c \in Seq(Frames)
  BY DEF RegFits, Stack
<1>2. /\ e \in Seq(Frames) /\ Len(e) = n + 1 /\ n \in Nat /\ e # <<>>
      /\ DOMAIN c = 1..n /\ DOMAIN e = 1..n + 1
      /\ \A i \in 1..n : e[i] = c[i]
      /\ e[n + 1] = f
  BY <1>1, StackPush
<1>3. n = 0 \/ (NestedLoops /\ n <= 1)
  BY DEF Stack
<1> HIDE DEF e, n
<1>4. \A i \in 1..n + 1 : i \in 1..n \/ i = n + 1
  BY <1>2
<1>5. Stack(e)
  <2>1. \A i \in DOMAIN e :
         /\ e[i].kind \in {"called", "handler", "provider"} =>
              e[i].index # 0 /\ e[i].descriptor \in Descriptors
         /\ e[i].kind = "provider" => e[i].index <= Len(Providers)
         /\ e[i].kind = "called" => e[i].object \in Objects
    BY <1>2, <1>4 DEF RegFits, Stack
  <2>2. Len(e) <= 1 \/ (NestedLoops /\ Len(e) <= 2)
    BY <1>2, <1>3
  <2> QED BY <1>2, <2>1, <2>2 DEF Stack
<1>6. \A i \in 1..n + 1 : Holds(e[i]) => i \in 1..n /\ e[i] = c[i]
  BY <1>2, <1>4 DEF Holds
<1>7. FramesHold(e, r)
  BY <1>2, <1>6 DEF RegFits, FramesHold
<1>8. Open(e) <=> Open(c)
  <2>1. CASE n = 0
    <3>1. c = <<>> /\ e[1] = f
      BY <1>1, <1>2, <2>1, EmptySeq DEF n
    <3> QED BY <3>1 DEF Open
  <2>2. CASE n # 0
    <3>1. 1 \in 1..n /\ c # <<>>
      BY <1>1, <1>2, <2>2, EmptySeq DEF n
    <3> QED BY <1>2, <3>1 DEF Open
  <2> QED BY <2>1, <2>2
<1>9. \A i \in DOMAIN e : e[i].kind = "provider" =>
         r.history # <<>> /\ r.history[Len(r.history)].original = e[i].original
  BY <1>2, <1>4 DEF RegFits, HistoryFits
<1>10. HistoryFits(h, r, e, p)
  BY <1>8, <1>9 DEF RegFits, HistoryFits
<1> QED BY <1>5, <1>7, <1>10 DEF RegFits, e

\* The handler on top starts to run.
LEMMA FitsCall ==
    ASSUME NEW h, NEW r, NEW c, NEW p, RegFits(h, r, c, p), c # <<>>, Last(c).kind = "called"
    PROVE  LET e == Append(Front(c), [Last(c) EXCEPT !.kind = "handler"])
           IN  /\ RegFits(h, r, e, p) /\ Len(e) = Len(c) /\ e # <<>>
               /\ Last(e) = [Last(c) EXCEPT !.kind = "handler"]
               /\ \A i \in 1..Len(c) - 1 : e[i] = c[i]
<1> DEFINE f == [Last(c) EXCEPT !.kind = "handler"]
           b == Front(c)
           e == Append(b, f)
           n == Len(c)
<1>1. c \in Seq(Frames)
  BY DEF RegFits, Stack
<1>2. n \in Nat \ {0} /\ DOMAIN c = 1..n /\ Last(c) = c[n] /\ Last(c) \in Frames /\ n \in DOMAIN c
  BY <1>1, StackTop
<1>3. b \in Seq(Frames) /\ Len(b) = n - 1 /\ \A k \in 1..n - 1 : b[k] = c[k]
  BY <1>1, FrontOf
<1>4. /\ f \in Frames /\ f.kind = "handler" /\ f.descriptor = c[n].descriptor
      /\ f.index = c[n].index /\ f.dangling = c[n].dangling
  BY <1>2 DEF Frames
<1> HIDE DEF f, b, n
<1>5. /\ e \in Seq(Frames) /\ Len(e) = Len(b) + 1 /\ e # <<>>
      /\ DOMAIN e = 1..Len(b) + 1
      /\ \A i \in 1..Len(b) : e[i] = b[i]
      /\ e[Len(b) + 1] = f /\ Last(e) = f
  BY <1>3, <1>4, StackPush
<1> HIDE DEF e
<1>6. /\ Len(e) = n /\ DOMAIN e = 1..n /\ e[n] = f
      /\ \A i \in 1..n - 1 : e[i] = c[i]
      /\ \A i \in 1..n : i \in 1..n - 1 \/ i = n
  BY <1>2, <1>3, <1>5
<1>7. c[n].kind = "called"
  BY <1>2
<1>8. \A i \in 1..n : /\ e[i].descriptor = c[i].descriptor /\ (Holds(e[i]) <=> Holds(c[i]))
                      /\ e[i].index = c[i].index
                      /\ e[i].kind \in {"provider", "called"} => e[i] = c[i]
                      /\ e[i].kind \in {"called", "handler", "provider"} <=>
                           c[i].kind \in {"called", "handler", "provider"}
  BY <1>4, <1>6, <1>7 DEF Holds
<1>9. Stack(e)
  <2>1. Len(e) <= 1 \/ (NestedLoops /\ Len(e) <= 2)
    BY <1>6 DEF RegFits, Stack, n
  <2>2. \A i \in DOMAIN e :
         /\ e[i].kind \in {"called", "handler", "provider"} =>
              e[i].index # 0 /\ e[i].descriptor \in Descriptors
         /\ e[i].kind = "provider" => e[i].index <= Len(Providers)
         /\ e[i].kind = "called" => e[i].object \in Objects
    BY <1>2, <1>6, <1>8 DEF RegFits, Stack
  <2> QED BY <1>5, <2>1, <2>2, SMTT(60) DEF Stack
<1>10. FramesHold(e, r)
  BY <1>2, <1>6, <1>8 DEF RegFits, FramesHold
<1>11. Open(e) <=> Open(c)
  <2>1. 1 \in 1..n
    BY <1>2
  <2> QED BY <1>5, <1>8, <2>1 DEF Open
<1>12. \A i \in DOMAIN e : e[i].kind = "provider" =>
         r.history # <<>> /\ r.history[Len(r.history)].original = e[i].original
  BY <1>2, <1>6, <1>8 DEF RegFits, HistoryFits
<1>13. HistoryFits(h, r, e, p)
  BY <1>11, <1>12 DEF RegFits, HistoryFits
<1>14. RegFits(h, r, e, p)
  BY <1>9, <1>10, <1>13 DEF RegFits
<1> QED BY <1>5, <1>6, <1>14 DEF e, f, b, n

\* The bookkeeping of a dispatch
LEMMA DispatchEntered ==
    ASSUME NEW h, HBBounded(h), preId \in 0..(h.nextId - 1), Preallocate => preId > 0,
           NEW ui \in BOOLEAN
    PROVE  LET id == DispatchId(h)
               g == HBEnterEventAction(AfterDispatchId(h), id, ui)
           IN  /\ HBBounded(g) /\ g.current = id /\ g.logOpen
               /\ id \in Nat \ {0} /\ id < g.nextId
               /\ g.nextId = (IF Preallocate THEN h.nextId ELSE h.nextId + 1)
               /\ g.lastUI = (IF ui THEN id ELSE h.lastUI)
               /\ HBSound(h) /\ (ui => h.lastUI < id) => HBSound(g)
<1> DEFINE id == DispatchId(h)
           a == AfterDispatchId(h)
           g == HBEnterEventAction(a, id, ui)
<1>1. h.nextId \in Nat \ {0}
  BY DEF HBBounded, HBRecords
<1>2. /\ HBBounded(a) /\ id \in 1..(a.nextId - 1) /\ a.lastUI = h.lastUI
      /\ a.nextId = (IF Preallocate THEN h.nextId ELSE h.nextId + 1)
      /\ HBSound(h) => HBSound(a)
  <2>1. CASE Preallocate
    BY <1>1, <2>1 DEF AfterDispatchId, DispatchId
  <2>2. CASE ~Preallocate
    <3>1. a = HBAllocateEventActionId(h) /\ id = h.nextId
      BY <2>2 DEF AfterDispatchId, DispatchId
    <3> HIDE DEF a, id
    <3>2. /\ HBBounded(a) /\ a.nextId = h.nextId + 1 /\ a.lastUI = h.lastUI
          /\ HBSound(h) => HBSound(a)
      BY <3>1, Allocated
    <3>3. id \in 1..(a.nextId - 1)
      BY <1>1, <3>1, <3>2
    <3> QED BY <2>2, <3>2, <3>3
  <2> QED BY <2>1, <2>2
<1> HIDE DEF a, id
<1>3. /\ HBBounded(g) /\ g.nextId = a.nextId /\ g.current = id
      /\ g.lastUI = (IF ui THEN id ELSE a.lastUI)
      /\ g.logOpen
      /\ HBSound(a) /\ (ui => a.lastUI < id) => HBSound(g)
  BY <1>2, Entered
<1> HIDE DEF g
<1>4. a.nextId \in Nat \ {0}
  BY <1>2 DEF HBBounded, HBRecords
<1>5. id \in Nat \ {0} /\ id < g.nextId
  BY <1>2, <1>3, <1>4
<1> QED BY <1>2, <1>3, <1>5 DEF g, a, id

\* A dispatch starts with a provider or a handler of d.  In a modal loop the handler may
\* wait in the queue of the running one, behind it.
LEMMA FitsDispatch ==
    ASSUME Modal, NEW h, NEW r, NEW c, RegFits(h, r, c, preId), NEW d \in Descriptors,
           NEW o \in OriginalIds \cup {-1}, o = -1 \/ o \notin DOMAIN r.idMap,
           NEW f \in Frames, f.kind \in {"called", "provider"}, f.index # 0, f.descriptor = d,
           f.original = o,
           f.kind = "called" => d \in DOMAIN r.handlers,
           f.kind = "provider" => f.index <= Len(Providers),
           f.kind = "called" => f.object \in Objects,
           \/ c = <<>>
           \/ /\ NestedLoops /\ Len(c) <= 1
              /\ \A j \in DOMAIN c : Holds(c[j]) /\ c[j].descriptor = d =>
                                      Len(r.handlers[d]) >= 2
    PROVE  RegFits(HBEnterEventAction(AfterDispatchId(h), DispatchId(h), d.ui),
                   DispatchStart(r, DispatchId(h), o, d), Append(c, f), preId)
<1> DEFINE id == DispatchId(h)
           g == HBEnterEventAction(AfterDispatchId(h), id, d.ui)
           s == DispatchStart(r, id, o, d)
           e == Append(c, f)
           n == Len(c)
           H == r.history
           G == s.history
<1>1. /\ HBBounded(h) /\ h.nextId \in Nat \ {0} /\ preId \in 0..(h.nextId - 1)
      /\ Preallocate => preId > 0
  BY DEF RegFits, HBBounded, HBRecords
<1>2. d.ui \in BOOLEAN
  BY RegisterAssumption
<1>3. /\ HBBounded(g) /\ id \in Nat \ {0} /\ id < g.nextId
      /\ g.nextId = (IF Preallocate THEN h.nextId ELSE h.nextId + 1)
  BY <1>1, <1>2, DispatchEntered
<1>4. id = (IF Preallocate THEN preId ELSE h.nextId)
  BY DEF DispatchId
<1> HIDE DEF g, id
<1>5. g.nextId \in Nat /\ h.nextId <= g.nextId
  BY <1>1, <1>3
<1>6. c \in Seq(Frames) /\ Registry(r) /\ Translated(r)
  BY DEF RegFits, Stack
<1>7. /\ e \in Seq(Frames) /\ Len(e) = n + 1 /\ n \in Nat /\ e # <<>>
      /\ DOMAIN c = 1..n /\ DOMAIN e = 1..n + 1
      /\ \A i \in 1..n : e[i] = c[i]
      /\ e[n + 1] = f
  BY <1>6, StackPush
<1>8. n = 0 \/ (NestedLoops /\ n <= 1)
  OBVIOUS
<1>9. c = <<>> <=> n = 0
  BY <1>6, EmptySeq
<1> HIDE DEF e, n
<1>10. \A i \in 1..n + 1 : i \in 1..n \/ i = n + 1
  BY <1>7
<1>11. ~Open(c) \/ ~Preallocate
  BY DEF Open, Modal
<1>12. \A k \in 1..Len(H) : H[k].id \in Nat /\ H[k].id < h.nextId /\ H[k].id < id
  <2> SUFFICES ASSUME NEW k \in 1..Len(H)
               PROVE  H[k].id \in Nat /\ H[k].id < h.nextId /\ H[k].id < id
    OBVIOUS
  <2>1. H[k] \in Entries
    BY <1>6, ElementOfSeq DEF Translated
  <2>2. H[k].id \in Nat
    BY <2>1 DEF Entries
  <2>3. H[k].id < h.nextId /\ (Preallocate => H[k].id < preId)
    BY <1>11 DEF RegFits, HistoryFits
  <2> QED BY <1>4, <2>2, <2>3
<1>13. /\ Registry(s) /\ s.handlers = r.handlers /\ Translated(s)
       /\ G = Append(H, [id |-> id, descriptor |-> d, original |-> o])
  <2>1. \A k \in 1..Len(r.history) : r.history[k].id < id
    BY <1>12
  <2>2. /\ Registry(s) /\ s.handlers = r.handlers /\ Translated(s)
        /\ s.history = Append(r.history, [id |-> id, descriptor |-> d, original |-> o])
    <3>1. id \in Nat \ {0} /\ Registry(r) /\ Translated(r)
      BY <1>3, <1>6
    <3> DEFINE orig == OriginalIds \cup {-1}
    <3>2. o \in orig /\ (o = -1 \/ o \notin DOMAIN r.idMap)
      OBVIOUS
    <3>3. \A rr, ii, oo, dd :
            /\ Registry(rr) /\ Translated(rr) /\ ii \in Nat \ {0} /\ oo \in orig
            /\ dd \in Descriptors /\ (\A k \in 1..Len(rr.history) : rr.history[k].id < ii)
            /\ (oo = -1 \/ oo \notin DOMAIN rr.idMap)
            => LET ss == DispatchStart(rr, ii, oo, dd)
               IN  /\ Registry(ss) /\ ss.handlers = rr.handlers /\ Translated(ss)
                   /\ ss.history = Append(rr.history, [id |-> ii, descriptor |-> dd, original |-> oo])
      BY DispatchStarted, SMTT(60)
    <3> HIDE DEF orig, G, H
    <3> QED BY <2>1, <3>1, <3>2, <3>3
  <2> QED BY <2>2
<1> HIDE DEF s
<1>14. /\ Len(H) \in Nat /\ Len(G) = Len(H) + 1 /\ G # <<>>
       /\ \A k \in 1..Len(H) : G[k] = H[k]
       /\ G[Len(G)].id = id /\ G[Len(G)].original = o
  <2> DEFINE x == [id |-> id, descriptor |-> d, original |-> o]
  <2>1. x \in Entries /\ x.id = id /\ x.original = o
    BY <1>3 DEF Entries
  <2>2. H \in Seq(Entries) /\ G = Append(H, x)
    BY <1>6, <1>13 DEF Translated
  <2> HIDE DEF x, H, G
  <2>3. Len(H) \in Nat /\ Len(G) = Len(H) + 1 /\ G[Len(H) + 1] = x /\ G \in Seq(Entries)
        /\ \A k \in 1..Len(H) : G[k] = H[k]
    BY <2>1, <2>2, LenProperties, AppendProperties
  <2>4. Len(G) # 0
    BY <2>3
  <2> QED BY <2>1, <2>3, <2>4, EmptySeq DEF G, H
<1> HIDE DEF H, G
<1>15. Stack(e)
  <2>1. \A i \in DOMAIN e :
         /\ e[i].kind \in {"called", "handler", "provider"} =>
              e[i].index # 0 /\ e[i].descriptor \in Descriptors
         /\ e[i].kind = "provider" => e[i].index <= Len(Providers)
         /\ e[i].kind = "called" => e[i].object \in Objects
    BY <1>7, <1>10 DEF RegFits, Stack
  <2>2. Len(e) <= 1 \/ (NestedLoops /\ Len(e) <= 2)
    BY <1>7, <1>8
  <2> QED BY <1>7, <2>1, <2>2 DEF Stack
<1>16. FramesHold(e, s)
  <2>1. ASSUME NEW i \in DOMAIN e, Holds(e[i]) PROVE e[i].descriptor \in DOMAIN s.handlers
    <3>1. CASE i \in 1..n
      BY <1>7, <1>13, <2>1, <3>1 DEF RegFits, FramesHold
    <3>2. CASE i = n + 1
      BY <1>7, <1>13, <2>1, <3>2 DEF Holds
    <3> QED BY <1>7, <1>10, <3>1, <3>2
  <2>2. ASSUME NEW i \in DOMAIN e, NEW j \in DOMAIN e, i # j, Holds(e[i]), Holds(e[j]),
               e[i].descriptor = e[j].descriptor
        PROVE  Len(s.handlers[e[i].descriptor]) >= 2
    <3>1. CASE i \in 1..n /\ j \in 1..n
      BY <1>7, <1>13, <2>2, <3>1 DEF RegFits, FramesHold
    <3>2. CASE i = n + 1 \/ j = n + 1
      <4>1. n # 0 /\ e[i].descriptor = d
        BY <1>7, <1>10, <2>2, <3>2
      <4>2. \E j0 \in 1..n : Holds(c[j0]) /\ c[j0].descriptor = d
        BY <1>7, <1>10, <2>2, <3>2, <4>1
      <4> QED BY <1>7, <1>9, <1>13, <4>1, <4>2
    <3> QED BY <1>7, <1>10, <3>1, <3>2
  <2> QED BY <2>1, <2>2 DEF FramesHold
<1>17. HistoryFits(g, s, e, preId)
  <2>1. ASSUME NEW k \in 1..Len(G) PROVE G[k].id < g.nextId
    <3>1. CASE k \in 1..Len(H)
      <4>1. G[k].id = H[k].id
        BY <1>14, <3>1
      <4> QED BY <1>1, <1>5, <1>12, <3>1, <4>1
    <3>2. CASE k = Len(G)
      BY <1>3, <1>14, <3>2
    <3> QED BY <1>14, <3>1, <3>2
  <2>2. Preallocate => Open(e)
    <3> SUFFICES ASSUME Preallocate PROVE Open(e)
      OBVIOUS
    <3>1. n = 0
      BY <1>8 DEF Modal
    <3>2. e[1] = f
      BY <1>7, <3>1
    <3> QED BY <1>7, <3>2 DEF Open
  <2>3. ASSUME NEW i \in DOMAIN e, e[i].kind = "provider"
        PROVE  G # <<>> /\ G[Len(G)].original = e[i].original
    <3>1. CASE i \in 1..n
      <4>1. n # 0
        BY <1>7, <3>1
      <4>2. Providers = <<>>
        BY <1>8, <4>1 DEF Modal
      <4>3. e[i].index \in 0..(Len(Providers) + 1) /\ e[i].index # 0 /\ e[i].index <= Len(Providers)
        <5>1. e[i] \in Frames
          BY <1>7, <2>3, ElementOfSeq
        <5> QED BY <1>15, <2>3, <5>1 DEF Stack, Frames
      <4>4. Len(Providers) = 0
        BY <4>2
      <4> QED BY <4>3, <4>4
    <3>2. CASE i = n + 1
      BY <1>7, <1>14, <3>2
    <3> QED BY <1>7, <1>10, <3>1, <3>2
  <2> QED BY <1>4, <1>14, <2>1, <2>2, <2>3 DEF HistoryFits, G
<1>18. preId \in 0..(g.nextId - 1)
  BY <1>1, <1>5
<1>19. RegFits(g, s, e, preId)
  BY <1>1, <1>3, <1>13, <1>15, <1>16, <1>17, <1>18 DEF RegFits
<1> QED BY <1>19 DEF g, s, e, id

\* An attempt, found or not found.
LEMMA FitsAttempt ==
    ASSUME Modal, NEW h, NEW r, NEW c, RegFits(h, r, c, preId), NEW d \in Descriptors,
           NEW o \in OriginalIds \cup {-1}, o = -1 \/ o \notin DOMAIN r.idMap,
           NEW i \in 1..(Len(Providers) + 1),
           \/ c = <<>>
           \/ /\ NestedLoops /\ Len(c) <= 1
              /\ \A j \in DOMAIN c : Holds(c[j]) /\ c[j].descriptor = d =>
                                      Len(r.handlers[d]) >= 2,
           Attempt(d, o, i, h, r, c)
    PROVE  RegFits(hb', reg', calls', preId) /\ hb'.nextId >= h.nextId /\ h.nextId \in Nat
<1>1. HBBounded(h) /\ h.nextId \in Nat \ {0} /\ preId \in 0..(h.nextId - 1)
      /\ (Preallocate => preId > 0)
  BY DEF RegFits, HBBounded, HBRecords
<1>2. Len(Providers) \in Nat /\ i \in Nat \ {0}
  BY RegisterAssumption, LenProperties
<1>3. CASE ~(i <= Len(Providers) \/ d \in DOMAIN r.handlers)
  <2>1. reg' = r /\ hb' = h /\ calls' = c
    BY <1>3 DEF Attempt
  <2> QED BY <1>1, <2>1
<1>4. CASE i <= Len(Providers) \/ d \in DOMAIN r.handlers
  <2> DEFINE f == IF i <= Len(Providers)
                  THEN Frame("provider", d, i, o, NoObject)
                  ELSE Frame("called", d, i, o, r.handlers[d][1])
             g == HBEnterEventAction(AfterDispatchId(h), DispatchId(h), d.ui)
             s == DispatchStart(r, DispatchId(h), o, d)
  <2>1. reg' = s /\ hb' = g /\ calls' = Append(c, f)
    BY <1>4 DEF Attempt
  <2>2. /\ f \in Frames /\ f.kind \in {"called", "provider"} /\ f.index # 0
        /\ f.descriptor = d /\ f.original = o
        /\ f.kind = "called" => d \in DOMAIN r.handlers
        /\ f.kind = "provider" => f.index <= Len(Providers)
        /\ f.kind = "called" => f.object \in Objects
    <3>1. CASE i <= Len(Providers)
      BY <1>2, <3>1 DEF Frame, Frames
    <3>2. CASE ~(i <= Len(Providers))
      <4>1. d \in DOMAIN r.handlers /\ r.handlers[d] \in Seq(Objects) /\ r.handlers[d] # <<>>
        BY <1>4, <3>2 DEF RegFits, Registry
      <4>2. Len(r.handlers[d]) \in Nat \ {0}
        BY <4>1, EmptySeq
      <4>3. r.handlers[d][1] \in Objects
        BY <4>1, <4>2, ElementOfSeq
      <4>4. f = Frame("called", d, i, o, r.handlers[d][1])
        BY <3>2
      <4> HIDE DEF f
      <4> DEFINE x == r.handlers[d][1]
      <4>5. f = Frame("called", d, i, o, x) /\ x \in Objects
        BY <4>3, <4>4
      <4> HIDE DEF x
      <4>6. /\ f.kind = "called" /\ f.index = i /\ f.descriptor = d /\ f.original = o
            /\ f.object = x /\ f \in Frames
        BY <1>2, <4>5 DEF Frame, Frames
      <4> QED BY <1>2, <4>1, <4>5, <4>6
    <3> QED BY <3>1, <3>2
  <2> HIDE DEF f
  <2>3. RegFits(g, s, Append(c, f), preId)
    BY <2>2, FitsDispatch
  <2>4. d.ui \in BOOLEAN
    BY RegisterAssumption
  <2>5. g.nextId = (IF Preallocate THEN h.nextId ELSE h.nextId + 1)
    BY <1>1, <2>4, DispatchEntered
  <2> HIDE DEF g, s
  <2>6. g.nextId >= h.nextId
    BY <1>1, <2>5
  <2> QED BY <1>1, <2>1, <2>3, <2>6
<1> QED BY <1>3, <1>4

-----------------------------------------------------------------------------
(* The actions of the register keep the invariant *)

\* What an action finds
LEMMA InvNow ==
    ASSUME RegisterInv, Alive
    PROVE  /\ RegFits(hb, reg, calls, preId) /\ calls \in Seq(Frames)
           /\ HBBounded(hb) /\ hb.nextId \in Nat \ {0}
           /\ Registry(reg) /\ Translated(reg) /\ FramesHold(calls, reg)
BY DEF RegisterInv, Alive, RegFits, Stack, HBBounded, HBRecords

\* registerEventActionHandler
LEMMA RegisterStep ==
    ASSUME RegisterInv, NEW d \in Descriptors, NEW o \in Objects,
           RegisterEventActionHandler(d, o)
    PROVE  RegisterInv'
<1>1. /\ RegFits(hb, reg, calls, preId) /\ hb.nextId \in Nat
  BY InvNow DEF RegisterEventActionHandler
<1>2. RegFits(hb, AddHandler(reg, d, o), calls, preId)
  BY <1>1, FitsAdd
<1>3. RegFits(hb', reg', calls', preId')
  BY <1>2 DEF RegisterEventActionHandler
<1>4. hb' = hb /\ joins' = joins /\ undefined' = undefined
  BY DEF RegisterEventActionHandler
<1>5. hb'.nextId >= hb.nextId
  BY <1>1, <1>4
<1> QED BY <1>3, <1>4, <1>5, InvFrom

\* deregisterEventActionHandler
LEMMA DeregisterStep ==
    ASSUME RegisterInv, Alive, NEW d, reg' = EraseKey(reg, d), calls' = Dangle(calls, d),
           UNCHANGED <<hb, preId, joins, undefined>>
    PROVE  RegisterInv'
<1>1. RegFits(hb, reg, calls, preId) /\ hb.nextId \in Nat
  BY InvNow
<1>2. RegFits(hb', reg', calls', preId')
  BY <1>1, FitsErase
<1>3. hb'.nextId >= hb.nextId
  BY <1>1
<1> QED BY <1>2, <1>3, InvFrom

\* runEventAction in the main event loop
LEMMA RunStep ==
    ASSUME Modal, RegisterInv, NEW d \in Descriptors, NEW o \in OriginalIds \cup {-1},
           o = -1 \/ o \notin DOMAIN reg.idMap, calls = <<>>, RunEventAction(d, o)
    PROVE  RegisterInv'
<1>1. RegFits(hb, reg, calls, preId)
  BY InvNow DEF RunEventAction
<1>2. FirstProvider(d) \in 1..(Len(Providers) + 1)
  BY FirstProviderInRange
<1>3. Attempt(d, o, FirstProvider(d), hb, reg, calls)
  BY DEF RunEventAction
<1>4. RegFits(hb', reg', calls', preId) /\ hb'.nextId >= hb.nextId
  BY <1>1, <1>2, <1>3, FitsAttempt
<1>5. preId' = preId /\ joins' = joins /\ undefined' = undefined
  BY DEF RunEventAction
<1> QED BY <1>4, <1>5, InvFrom

\* A provider accepts.
LEMMA AcceptStep ==
    ASSUME Modal, RegisterInv, ProviderAccepts
    PROVE  RegisterInv'
<1> DEFINE f == Last(calls)
           left == HBExitEventAction(hb, TRUE)
           s == DispatchEnd(reg, TRUE, f.original)
<1>1. /\ RegFits(hb, reg, calls, preId) /\ calls \in Seq(Frames)
      /\ Registry(reg) /\ Translated(reg) /\ FramesHold(calls, reg)
  BY InvNow DEF ProviderAccepts
<1>2. calls # <<>>
  BY DEF ProviderAccepts, InPageCode, Idle
<1>3. /\ reg' = s /\ hb' = TakePreallocated(left) /\ preId' = NextPreallocated(left)
      /\ calls' = Front(calls) /\ joins' = joins /\ undefined' = undefined
  BY DEF ProviderAccepts
<1>4. Registry(s) /\ s.handlers = reg.handlers /\ Translated(s) /\ s.history = reg.history
  BY <1>1, DispatchEnded
<1> HIDE DEF s
<1>5. FramesHold(Front(calls), reg)
  BY <1>1, <1>2, HoldsFront
<1>6. FramesHold(Front(calls), s)
  BY <1>4, <1>5 DEF FramesHold
<1>7. /\ RegFits(TakePreallocated(left), s, Front(calls), NextPreallocated(left))
      /\ TakePreallocated(left).nextId >= hb.nextId
  BY <1>1, <1>2, <1>4, <1>6, FitsReturn
<1> HIDE DEF left
<1>8. RegFits(hb', reg', calls', preId') /\ hb'.nextId >= hb.nextId
  BY <1>3, <1>7
<1> QED BY <1>3, <1>8, InvFrom

\* The state after a refusal is that before the attempt, up to the last ids.
LEMMA Refused ==
    ASSUME Modal, RegisterInv, Alive, calls # <<>>, Last(calls).kind = "provider"
    PROVE  LET f == Last(calls)
               left == HBExitEventAction(hb, FALSE)
               s == DispatchEnd(reg, FALSE, f.original)
           IN  /\ Front(calls) = <<>> /\ ~NestedLoops /\ f.descriptor \in Descriptors
               /\ f.original \in OriginalIds \cup {-1} /\ f.original \notin DOMAIN s.idMap
               /\ f.index + 1 \in 1..(Len(Providers) + 1)
               /\ RegFits(left, s, <<>>, preId) /\ left.nextId = hb.nextId
               /\ s.handlers = reg.handlers
<1> DEFINE f == Last(calls)
           left == HBExitEventAction(hb, FALSE)
           s == DispatchEnd(reg, FALSE, f.original)
           H == reg.history
           z == << >>
<1>1. /\ RegFits(hb, reg, calls, preId) /\ calls \in Seq(Frames) /\ HBBounded(hb)
      /\ Registry(reg) /\ Translated(reg) /\ FramesHold(calls, reg) /\ Stack(calls)
      /\ HistoryFits(hb, reg, calls, preId)
  BY InvNow DEF RegFits
<1>2. /\ Len(calls) \in Nat \ {0} /\ DOMAIN calls = 1..Len(calls) /\ f = calls[Len(calls)]
      /\ f \in Frames /\ Len(calls) \in DOMAIN calls
  BY <1>1, StackTop
<1>3. /\ f.index # 0 /\ f.descriptor \in Descriptors /\ f.index <= Len(Providers)
      /\ f.index \in 0..(Len(Providers) + 1) /\ f.original \in OriginalIds \cup {-1}
      /\ Len(Providers) \in Nat
  BY <1>1, <1>2, RegisterAssumption, LenProperties DEF Stack, Frames
<1>4. f.index + 1 \in 1..(Len(Providers) + 1) /\ Len(Providers) # 0
  BY <1>3
<1>5. ~NestedLoops
  BY <1>4 DEF Modal
<1>6. Len(calls) = 1
  BY <1>1, <1>2, <1>5 DEF Stack
<1>7. Front(calls) = <<>>
  <2>1. Front(calls) \in Seq(Frames) /\ Len(Front(calls)) = 1 - 1
    BY <1>1, <1>6, FrontOf
  <2> QED BY <2>1, EmptySeq
<1>8. H # <<>> /\ H[Len(H)].original = f.original
  BY <1>1, <1>2 DEF HistoryFits
<1>9. Open(calls)
  BY <1>2, <1>6 DEF Open
<1>10. /\ Registry(s) /\ s.handlers = reg.handlers /\ Translated(s)
       /\ s.history = Front(H) /\ f.original \notin DOMAIN s.idMap
  <2>1. FALSE \in BOOLEAN
    OBVIOUS
  <2> HIDE DEF f
  <2> QED BY <1>1, <1>8, <2>1, DispatchEnded
<1>11. HBBounded(left) /\ left.nextId = hb.nextId
  BY <1>1, Left
<1> HIDE DEF s, left
<1>12. \A k \in 1..Len(s.history) :
         s.history[k].id < left.nextId /\ (Preallocate => s.history[k].id < preId)
  <2>1. H \in Seq(Entries) /\ Len(H) \in Nat
    BY <1>1, LenProperties DEF Translated
  <2>2. /\ Len(s.history) = Len(H) - 1 /\ Len(H) \in Nat \ {0}
        /\ \A k \in 1..Len(H) - 1 : s.history[k] = H[k]
    <3> HIDE DEF H
    <3> QED BY <1>8, <1>10, <2>1, FrontOf
  <2> SUFFICES ASSUME NEW k \in 1..Len(s.history)
               PROVE  s.history[k].id < left.nextId /\ (Preallocate => s.history[k].id < preId)
    OBVIOUS
  <2>3. k \in 1..Len(H) /\ k < Len(H) /\ s.history[k] = H[k] /\ Len(H) \in 1..Len(H)
    BY <2>2
  <2>4. H[k].id < hb.nextId
    BY <1>1, <2>3 DEF HistoryFits
  <2>5. H[k].id < H[Len(H)].id
    BY <1>1, <2>3 DEF Translated
  <2>6. Preallocate => H[Len(H)].id = preId
    BY <1>1, <1>9 DEF HistoryFits
  <2> QED BY <1>11, <2>3, <2>4, <2>5, <2>6
<1>13. Stack(z) /\ ~Open(z) /\ DOMAIN z = {}
  BY DEF Stack, Open
<1> HIDE DEF z
<1>14. HistoryFits(left, s, z, preId) /\ FramesHold(z, s)
  BY <1>12, <1>13 DEF HistoryFits, FramesHold
<1>15. preId \in 0..(left.nextId - 1) /\ (Preallocate => preId > 0)
  BY <1>1, <1>11 DEF RegFits
<1>16. RegFits(left, s, z, preId)
  BY <1>10, <1>11, <1>13, <1>14, <1>15 DEF RegFits
<1> HIDE DEF f
<1> QED BY <1>3, <1>4, <1>5, <1>7, <1>10, <1>11, <1>16 DEF f, left, s, z

\* A provider refuses.
LEMMA RefuseStep ==
    ASSUME Modal, RegisterInv, ProviderRefuses
    PROVE  RegisterInv'
<1> DEFINE f == Last(calls)
           left == HBExitEventAction(hb, FALSE)
           s == DispatchEnd(reg, FALSE, f.original)
<1>1. Alive /\ calls # <<>> /\ f.kind = "provider"
  BY DEF ProviderRefuses, InPageCode, Idle
<1>2. /\ Attempt(f.descriptor, f.original, f.index + 1, left, s, Front(calls))
      /\ preId' = preId /\ joins' = joins /\ undefined' = undefined
  BY DEF ProviderRefuses
<1>3. /\ Front(calls) = <<>> /\ f.descriptor \in Descriptors
      /\ f.original \in OriginalIds \cup {-1} /\ f.original \notin DOMAIN s.idMap
      /\ f.index + 1 \in 1..(Len(Providers) + 1)
      /\ RegFits(left, s, <<>>, preId) /\ left.nextId = hb.nextId
  BY <1>1, Refused
<1> HIDE DEF f, left, s
<1>4. RegFits(hb', reg', calls', preId) /\ hb'.nextId >= left.nextId
  BY <1>2, <1>3, FitsAttempt
<1> QED BY <1>2, <1>3, <1>4, InvFrom

\* The handler on top starts to run.
LEMMA CallStep ==
    ASSUME RegisterInv, Alive, calls # <<>>, Last(calls).kind = "called",
           calls' = Append(Front(calls), [Last(calls) EXCEPT !.kind = "handler"]),
           HBBounded(hb'), hb'.nextId = hb.nextId,
           UNCHANGED <<reg, preId, joins, undefined>>
    PROVE  RegisterInv'
<1>1. RegFits(hb, reg, calls, preId) /\ hb.nextId \in Nat
  BY InvNow
<1>2. RegFits(hb, reg, calls', preId)
  BY <1>1, FitsCall
<1>3. hb'.nextId >= hb.nextId
  BY <1>1
<1>4. RegFits(hb', reg, calls', preId)
  BY <1>2, <1>3, FitsLater
<1> QED BY <1>3, <1>4, InvFrom

\* The handler on top returns.
LEMMA ReturnStep ==
    ASSUME Modal, RegisterInv, HandlerReturns
    PROVE  RegisterInv'
<1> DEFINE f == Last(calls)
           d == f.descriptor
           left == HBExitEventAction(hb, TRUE)
           q == PopHandler(reg, d)
           s == DispatchEnd(q, TRUE, f.original)
           b == Front(calls)
<1>1. /\ RegFits(hb, reg, calls, preId) /\ calls \in Seq(Frames) /\ HBBounded(hb)
      /\ hb.nextId \in Nat
      /\ Registry(reg) /\ Translated(reg) /\ FramesHold(calls, reg) /\ Stack(calls)
  BY InvNow DEF RegFits, HandlerReturns
<1>2. calls # <<>> /\ f.kind = "handler" /\ joins' = joins /\ calls' = b
  BY DEF HandlerReturns, InPageCode, Idle
<1>3. /\ Len(calls) \in Nat \ {0} /\ DOMAIN calls = 1..Len(calls) /\ f = calls[Len(calls)]
      /\ f \in Frames /\ Len(calls) \in DOMAIN calls
  BY <1>1, <1>2, StackTop
<1>4. /\ b \in Seq(Frames) /\ DOMAIN b = 1..Len(calls) - 1
      /\ \A k \in 1..Len(calls) - 1 : b[k] = calls[k]
  BY <1>1, <1>2, FrontOf
<1>5. CASE f.dangling
  <2>1. undefined' = TRUE /\ UNCHANGED <<reg, hb, preId>>
    BY <1>5 DEF HandlerReturns
  <2>2. RegShape(hb', reg', calls', preId')
    BY <1>1, <1>2, <1>4, <2>1 DEF RegisterInv, RegShape
  <2> QED BY <1>2, <2>1, <2>2 DEF RegisterInv, JoinsFit
<1>6. CASE ~f.dangling
  <2>1. /\ reg' = s /\ hb' = TakePreallocated(left) /\ preId' = NextPreallocated(left)
        /\ undefined' = undefined
    BY <1>6 DEF HandlerReturns
  <2>2. Holds(f) /\ d \in DOMAIN reg.handlers
    BY <1>1, <1>2, <1>3, <1>6 DEF Holds, FramesHold
  <2>3. /\ Registry(q) /\ q.history = reg.history /\ q.idMap = reg.idMap
        /\ \A k \in DOMAIN reg.handlers \ {d} :
             k \in DOMAIN q.handlers /\ q.handlers[k] = reg.handlers[k]
        /\ Len(reg.handlers[d]) # 1 => DOMAIN q.handlers = DOMAIN reg.handlers
    BY <1>1, <2>2, HandlerPopped
  <2> HIDE DEF q
  <2>4. Translated(q)
    BY <1>1, <2>3 DEF Translated
  <2>5. Registry(s) /\ s.handlers = q.handlers /\ Translated(s) /\ s.history = q.history
    BY <2>3, <2>4, DispatchEnded
  <2> HIDE DEF s
  <2>6. Len(calls) <= 2
    BY <1>1, <1>3 DEF Stack
  <2>7. FramesHold(b, s)
    <3>1. ASSUME NEW i \in DOMAIN b, Holds(b[i]) PROVE b[i].descriptor \in DOMAIN s.handlers
      <4>1. i \in DOMAIN calls /\ i # Len(calls) /\ b[i] = calls[i]
        BY <1>3, <1>4
      <4>2. calls[i].descriptor \in DOMAIN reg.handlers
        BY <1>1, <3>1, <4>1 DEF FramesHold
      <4>3. CASE calls[i].descriptor = d
        <5> DEFINE n == Len(reg.handlers[d])
        <5>1. n >= 2
          BY <1>1, <1>3, <2>2, <3>1, <4>1, <4>3 DEF FramesHold
        <5>2. n \in Nat
          BY <1>1, <2>2, LenProperties DEF Registry
        <5>3. Len(reg.handlers[d]) # 1
          <6> HIDE DEF n
          <6>1. n # 1
            BY <5>1, <5>2
          <6> QED BY <6>1 DEF n
        <5> QED BY <2>3, <2>5, <4>1, <4>2, <5>3
      <4>4. CASE calls[i].descriptor # d
        BY <2>3, <2>5, <4>1, <4>2, <4>4
      <4> QED BY <4>3, <4>4
    <3>2. \A i, j \in DOMAIN b : i = j
      BY <1>3, <1>4, <2>6
    <3> QED BY <3>1, <3>2 DEF FramesHold
  <2>8. s.history = reg.history
    BY <2>3, <2>5
  <2>9. /\ RegFits(TakePreallocated(left), s, b, NextPreallocated(left))
        /\ TakePreallocated(left).nextId >= hb.nextId
    BY <1>1, <1>2, <2>5, <2>7, <2>8, FitsReturn
  <2> HIDE DEF left
  <2>10. RegFits(hb', reg', calls', preId') /\ hb'.nextId >= hb.nextId
    BY <1>2, <2>1, <2>9
  <2> QED BY <1>2, <2>1, <2>10, InvFrom
<1> QED BY <1>5, <1>6

\* A frame that is no dispatch is pushed.
LEMMA PushStep ==
    ASSUME RegisterInv, Alive, calls = <<>> \/ (NestedLoops /\ Len(calls) <= 1),
           NEW f \in Frames, f.kind \in {"ghost", "plain", "immediate"},
           calls' = Append(calls, f), HBBounded(hb'), hb'.nextId >= hb.nextId,
           UNCHANGED <<reg, preId, joins, undefined>>
    PROVE  RegisterInv'
<1>1. RegFits(hb, reg, calls, preId)
  BY InvNow
<1>2. RegFits(hb, reg, calls', preId)
  BY <1>1, FitsPush
<1>3. RegFits(hb', reg, calls', preId)
  BY <1>2, FitsLater
<1> QED BY <1>3, InvFrom

\* A frame that is no dispatch is popped.
LEMMA PopStep ==
    ASSUME Modal, RegisterInv, Alive, calls # <<>>,
           Last(calls).kind \in {"ghost", "plain", "immediate"},
           calls' = Front(calls), HBBounded(hb'), hb'.nextId >= hb.nextId,
           reg' = reg \/ (\E o : reg' = DispatchEnd(reg, TRUE, o)),
           UNCHANGED <<preId, joins, undefined>>
    PROVE  RegisterInv'
<1>1. /\ RegFits(hb, reg, calls, preId) /\ calls \in Seq(Frames) /\ Stack(calls)
      /\ Registry(reg) /\ Translated(reg) /\ FramesHold(calls, reg)
  BY InvNow DEF RegFits
<1>2. Len(calls) \in Nat \ {0} /\ Last(calls) = calls[Len(calls)]
  BY <1>1, StackTop
<1>3. ~Preallocate \/ ~Open(calls)
  <2> SUFFICES ASSUME Preallocate PROVE ~Open(calls)
    OBVIOUS
  <2>1. ~NestedLoops
    BY DEF Modal
  <2>2. Len(calls) <= 1
    BY <1>1, <2>1 DEF Stack
  <2>3. Len(calls) = 1
    BY <1>2, <2>2, SMTT(60)
  <2> QED BY <1>2, <2>3 DEF Open
<1>4. Registry(reg') /\ reg'.history = reg.history /\ Translated(reg')
      /\ reg'.handlers = reg.handlers
  <2>1. CASE reg' = reg
    BY <1>1, <2>1
  <2>2. CASE \E o : reg' = DispatchEnd(reg, TRUE, o)
    <3>1. PICK o : reg' = DispatchEnd(reg, TRUE, o)
      BY <2>2
    <3> QED BY <1>1, <3>1, DispatchEnded
  <2> QED BY <2>1, <2>2
<1>5. FramesHold(Front(calls), reg')
  <2>1. FramesHold(Front(calls), reg)
    BY <1>1, HoldsFront
  <2> QED BY <1>4, <2>1 DEF FramesHold
<1>6. RegFits(hb, reg', calls', preId)
  BY <1>1, <1>3, <1>4, <1>5, FitsPop
<1>7. RegFits(hb', reg', calls', preId)
  BY <1>6, FitsLater
<1> QED BY <1>7, InvFrom

\* The bookkeeping alone makes a step.
LEMMA BookkeepingStep ==
    ASSUME RegisterInv, Alive, HBBounded(hb'), hb'.nextId >= hb.nextId,
           UNCHANGED <<reg, calls, preId, joins, undefined>>
    PROVE  RegisterInv'
<1>1. RegFits(hb, reg, calls, preId)
  BY InvNow
<1>2. RegFits(hb', reg', calls', preId')
  BY <1>1, FitsLater
<1> QED BY <1>2, InvFrom

\* An immediate event action is entered.
LEMMA ImmediateBookkeeping ==
    ASSUME NEW h, HBBounded(h)
    PROVE  LET g == HBEnterEventAction(HBAllocateEventActionId(h), h.nextId, TRUE)
           IN  /\ HBBounded(g) /\ g.nextId = h.nextId + 1 /\ g.current = h.nextId
               /\ g.lastUI = h.nextId /\ g.logOpen /\ h.nextId \in Nat \ {0}
               /\ HBSound(h) => HBSound(g)
<1> DEFINE a == HBAllocateEventActionId(h)
           g == HBEnterEventAction(a, h.nextId, TRUE)
<1>1. /\ HBBounded(a) /\ a.nextId = h.nextId + 1 /\ a.lastUI = h.lastUI
      /\ HBSound(h) => HBSound(a)
  BY Allocated
<1>2. h.nextId \in Nat \ {0} /\ h.lastUI < h.nextId
  BY DEF HBBounded, HBRecords
<1> HIDE DEF a
<1>3. h.nextId \in 1..(a.nextId - 1)
  BY <1>1, <1>2
<1>4. /\ HBBounded(g) /\ g.nextId = a.nextId /\ g.current = h.nextId
      /\ g.lastUI = h.nextId /\ g.logOpen
      /\ HBSound(a) /\ a.lastUI < h.nextId => HBSound(g)
  <2>1. TRUE \in BOOLEAN
    OBVIOUS
  <2> QED BY <1>1, <1>3, <2>1, Entered, ZenonT(60)
<1> HIDE DEF g
<1> QED BY <1>1, <1>2, <1>4 DEF g, a

\* enterImmediateEventAction
LEMMA ImmediateStep ==
    ASSUME RegisterInv, NEW d \in Descriptors, EnterImmediateEventAction(d)
    PROVE  RegisterInv'
<1> DEFINE g == HBEnterEventAction(HBAllocateEventActionId(hb), hb.nextId, TRUE)
           s == DispatchStart(reg, hb.nextId, -1, d)
           f == Frame("immediate", d, 0, -1, NoObject)
<1>1. /\ RegFits(hb, reg, calls, preId) /\ HBBounded(hb) /\ hb.nextId \in Nat \ {0}
      /\ Registry(reg) /\ Translated(reg)
  BY InvNow DEF EnterImmediateEventAction
<1>2. /\ hb' = g /\ reg' = s /\ calls' = Append(calls, f) /\ calls = <<>> /\ ~Preallocate
      /\ UNCHANGED <<preId, joins, undefined>>
  BY DEF EnterImmediateEventAction, Idle
<1>3. HBBounded(g) /\ g.nextId = hb.nextId + 1
  BY <1>1, ImmediateBookkeeping
<1> HIDE DEF g
<1>4. g.nextId >= hb.nextId
  BY <1>1, <1>3
<1>5. \A k \in 1..Len(reg.history) : reg.history[k].id < hb.nextId
  BY <1>1 DEF RegFits, HistoryFits
<1>6. /\ Registry(s) /\ Translated(s)
      /\ s.history = Append(reg.history, [id |-> hb.nextId, descriptor |-> d, original |-> -1])
  <2>1. -1 \in OriginalIds \cup {-1} /\ -1 = -1
    OBVIOUS
  <2> QED BY <1>1, <1>5, <2>1, DispatchStarted, ZenonT(60)
<1> HIDE DEF s
<1>7. \A k \in 1..Len(s.history) : s.history[k].id < g.nextId
  <2> DEFINE H == reg.history
             G == s.history
             x == [id |-> hb.nextId, descriptor |-> d, original |-> -1]
  <2>1. H \in Seq(Entries) /\ x \in Entries /\ x.id = hb.nextId /\ G = Append(H, x)
    BY <1>1, <1>6 DEF Translated, Entries
  <2>2. \A k \in 1..Len(H) : H[k].id \in Nat /\ H[k].id < hb.nextId
    <3>1. \A k \in 1..Len(H) : H[k] \in Entries
      BY <2>1, ElementOfSeq
    <3> QED BY <1>5, <3>1 DEF Entries
  <2> HIDE DEF x, G, H
  <2>3. Len(H) \in Nat /\ Len(G) = Len(H) + 1 /\ G[Len(H) + 1] = x
        /\ \A k \in 1..Len(H) : G[k] = H[k]
    BY <2>1, LenProperties, AppendProperties
  <2>4. ASSUME NEW k \in 1..Len(G) PROVE G[k].id < g.nextId
    <3>1. CASE k \in 1..Len(H)
      BY <1>1, <1>3, <2>2, <2>3, <3>1
    <3>2. CASE k = Len(H) + 1
      BY <1>1, <1>3, <2>1, <2>3, <3>2
    <3> QED BY <2>3, <3>1, <3>2
  <2> QED BY <2>4 DEF G
<1> DEFINE z == << >>
<1>8. Stack(z) /\ ~Open(z) /\ DOMAIN z = {} /\ calls = z
  BY <1>2 DEF Stack, Open
<1> HIDE DEF z
<1>9. preId \in 0..(g.nextId - 1)
  BY <1>1, <1>3 DEF RegFits
<1>10. RegFits(g, s, z, preId)
  BY <1>2, <1>3, <1>6, <1>7, <1>8, <1>9 DEF RegFits, FramesHold, HistoryFits
<1>11. f \in Frames /\ f.kind = "immediate"
  <2>1. 0 \in 0..(Len(Providers) + 1)
    BY RegisterAssumption, LenProperties
  <2> QED BY <2>1 DEF Frame, Frames
<1> HIDE DEF f
<1>12. RegFits(g, s, Append(calls, f), preId)
  BY <1>2, <1>8, <1>10, <1>11, FitsPush
<1> QED BY <1>2, <1>4, <1>12, InvFrom

\* The frame of a ghost event action
LEMMA GhostFrame ==
    LET f == Frame("ghost", GhostDescriptor, 0, -1, NoObject)
    IN  f \in Frames /\ f.kind = "ghost"
<1>1. 0 \in 0..(Len(Providers) + 1)
  BY RegisterAssumption, LenProperties
<1> QED BY <1>1 DEF Frame, Frames, GhostDescriptor

\* Ghost event actions
LEMMA GhostStep ==
    ASSUME Modal, RegisterInv, GhostNext
    PROVE  RegisterInv'
<1>1. CASE EnterGhostEventAction
  <2> DEFINE f == Frame("ghost", GhostDescriptor, 0, -1, NoObject)
  <2>1. Alive /\ HBBounded(hb) /\ hb.nextId \in Nat
    BY <1>1, InvNow DEF EnterGhostEventAction
  <2>2. hb' = GhostEntered(hb) /\ calls' = Append(calls, f)
        /\ UNCHANGED <<reg, preId, joins, undefined>>
    BY <1>1 DEF EnterGhostEventAction
  <2>3. calls = <<>> \/ (NestedLoops /\ Len(calls) <= 1)
    <3>1. calls = <<>> \/ (NestedLoops /\ Len(calls) = 1)
      BY <1>1 DEF EnterGhostEventAction, InEventLoop, Idle
    <3> QED BY <3>1
  <2>4. HBBounded(hb') /\ hb'.nextId = hb.nextId + 1
    BY <2>1, <2>2, GhostIn
  <2>5. hb'.nextId >= hb.nextId
    BY <2>1, <2>4
  <2>6. f \in Frames /\ f.kind = "ghost"
    BY GhostFrame
  <2> HIDE DEF f
  <2> QED BY <2>1, <2>2, <2>3, <2>4, <2>5, <2>6, PushStep
<1>2. CASE ExitGhostEventAction
  <2> DEFINE m == ActionLogStrictMode(hb, TRUE)
  <2>1. /\ Alive /\ calls # <<>> /\ Last(calls).kind = "ghost"
        /\ hb' = HBExitEventAction(m, TRUE) /\ calls' = Front(calls)
        /\ UNCHANGED <<reg, preId, joins, undefined>>
    BY <1>2 DEF ExitGhostEventAction, Idle
  <2>2. HBBounded(hb) /\ hb.nextId \in Nat
    BY <2>1, InvNow
  <2>3. HBBounded(m) /\ m.nextId = hb.nextId
    BY <2>2, StrictModeSet
  <2> HIDE DEF m
  <2>4. HBBounded(hb') /\ hb'.nextId = hb.nextId
    BY <2>1, <2>3, Left
  <2>5. hb'.nextId >= hb.nextId
    BY <2>2, <2>4
  <2> QED BY <2>1, <2>4, <2>5, PopStep
<1>3. CASE FrameGhostLeftOpen
  <2>1. Alive /\ HBBounded(hb) /\ hb.nextId \in Nat
    BY <1>3, InvNow DEF FrameGhostLeftOpen
  <2>2. hb' = GhostEntered(hb) /\ UNCHANGED <<reg, calls, preId, joins, undefined>>
    BY <1>3 DEF FrameGhostLeftOpen
  <2>3. HBBounded(hb') /\ hb'.nextId = hb.nextId + 1
    BY <2>1, <2>2, GhostIn
  <2>4. hb'.nextId >= hb.nextId
    BY <2>1, <2>3
  <2> QED BY <2>1, <2>2, <2>3, <2>4, BookkeepingStep
<1> QED BY <1>1, <1>2, <1>3 DEF GhostNext

\* exitImmediateEventAction
LEMMA ExitImmediateStep ==
    ASSUME Modal, RegisterInv, ExitImmediateEventAction
    PROVE  RegisterInv'
<1>1. /\ Alive /\ calls # <<>> /\ Last(calls).kind = "immediate"
      /\ hb' = HBExitEventAction(hb, TRUE) /\ calls' = Front(calls)
      /\ reg' = DispatchEnd(reg, TRUE, -1)
      /\ UNCHANGED <<preId, joins, undefined>>
  BY DEF ExitImmediateEventAction, InPageCode, Idle
<1>2. HBBounded(hb) /\ hb.nextId \in Nat
  BY <1>1, InvNow
<1>3. HBBounded(hb') /\ hb'.nextId = hb.nextId
  BY <1>1, <1>2, Left
<1>4. hb'.nextId >= hb.nextId
  BY <1>2, <1>3
<1> QED BY <1>1, <1>3, <1>4, PopStep

\* The joins of threads
LEMMA JoinStep ==
    ASSUME RegisterInv, JoinNext, InPageCode => hb.current # 0
    PROVE  RegisterInv'
<1>1. PICK j \in Joins : ThreadEndAction(j) \/ JoinAction(j) \/ ClearJoin(j)
  BY DEF JoinNext
<1>2. Alive
  BY <1>1 DEF ThreadEndAction, JoinAction, ClearJoin
<1>3. /\ RegFits(hb, reg, calls, preId) /\ HBBounded(hb) /\ hb.nextId \in Nat \ {0}
      /\ hb.current \in Nat /\ hb.current < hb.nextId
      /\ JoinsFit(hb, joins)
  BY <1>2, InvNow DEF HBBounded, HBRecords, RegisterInv
<1>4. CASE ThreadEndAction(j)
  <2>1. hb.current # 0
    BY <1>4 DEF ThreadEndAction
  <2>2. /\ hb' = hb /\ joins' = [joins EXCEPT ![j] = @ \cup {hb.current}]
        /\ UNCHANGED <<reg, calls, preId, undefined>>
    BY <1>4, <2>1 DEF ThreadEndAction, HBCurrentEventAction
  <2>3. hb.current \in 1..(hb.nextId - 1)
    BY <1>3, <2>1
  <2>4. JoinsFit(hb', joins')
    BY <1>3, <2>2, <2>3 DEF JoinsFit
  <2> QED BY <2>2, <2>4 DEF RegisterInv
<1>5. CASE JoinAction(j)
  <2>1. hb' = JoinArcs(hb, joins[j]) /\ UNCHANGED <<reg, calls, preId, joins, undefined>>
    BY <1>5 DEF JoinAction
  <2>2. joins[j] \subseteq 1..(hb.nextId - 1)
    BY <1>3 DEF JoinsFit
  <2>3. HBBounded(hb') /\ hb'.nextId = hb.nextId
    BY <1>3, <2>1, <2>2, Joined
  <2>4. hb'.nextId >= hb.nextId
    BY <1>3, <2>3
  <2> QED BY <1>2, <2>1, <2>3, <2>4, BookkeepingStep
<1>6. CASE ClearJoin(j)
  <2>1. joins' = [joins EXCEPT ![j] = {}] /\ UNCHANGED <<hb, reg, calls, preId, undefined>>
    BY <1>6 DEF ClearJoin
  <2>2. JoinsFit(hb', joins')
    BY <1>3, <2>1 DEF JoinsFit
  <2> QED BY <2>1, <2>2 DEF RegisterInv
<1> QED BY <1>1, <1>4, <1>5, <1>6

\* The first state: the ghost of the main frame is left open.
LEMMA RegisterStarts ==
    ASSUME RegisterInit
    PROVE  /\ RegisterInv /\ calls = <<>> /\ HBSound(hb) /\ hb.current = 1 /\ hb.lastUI = 0
           /\ IF Preallocate THEN preId = 2 ELSE hb.nextId = 2
<1> DEFINE g == GhostEntered(HBEmpty)
           a == HBAllocateEventActionId(g)
<1>1. /\ HBBounded(g) /\ HBSound(g) /\ g.nextId = 2 /\ g.current = 1 /\ g.lastUI = 0
  <2>1. HBEmpty.nextId = 1 /\ HBEmpty.lastUI = 0
    BY DEF HBEmpty
  <2> QED BY <2>1, EmptySound, GhostIn
<1> HIDE DEF g
<1>2. /\ HBBounded(a) /\ HBSound(a) /\ a.nextId = 3 /\ a.current = 1 /\ a.lastUI = 0
  BY <1>1, Allocated
<1> HIDE DEF a
<1>3. /\ HBBounded(hb) /\ HBSound(hb) /\ hb.current = 1 /\ hb.lastUI = 0
      /\ IF Preallocate THEN preId = 2 /\ hb.nextId = 3 ELSE preId = 0 /\ hb.nextId = 2
  BY <1>1, <1>2 DEF RegisterInit, a, g
<1>4. preId \in 0..(hb.nextId - 1) /\ (Preallocate => preId > 0)
  BY <1>3
<1>5. calls = <<>> /\ undefined = FALSE /\ joins = [j \in Joins |-> {}]
  BY DEF RegisterInit
<1>6. reg.history = <<>> /\ reg.idMap = Unmapped /\ Registry(reg)
  BY DEF RegisterInit, Registry
<1>7. Translated(reg) /\ Len(reg.history) = 0
  <2>1. Len(reg.history) = 0 /\ reg.history \in Seq(Entries) /\ DOMAIN reg.idMap = {}
    BY <1>6 DEF Unmapped
  <2>2. 1..Len(reg.history) = {}
    BY <2>1
  <2> QED BY <2>1, <2>2 DEF Translated
<1>8. Stack(calls) /\ ~Open(calls) /\ DOMAIN calls = {}
  BY <1>5 DEF Stack, Open
<1>9. 1..Len(reg.history) = {}
  BY <1>7
<1>10. RegFits(hb, reg, calls, preId)
  BY <1>3, <1>4, <1>6, <1>7, <1>8, <1>9 DEF RegFits, FramesHold, HistoryFits
<1>11. RegisterInv
  BY <1>5, <1>10 DEF RegisterInv, RegShape, RegFits, Stack, HistoryFits, JoinsFit
<1> QED BY <1>3, <1>5, <1>11

-----------------------------------------------------------------------------
(* No check of the log fails *)

Opens == {"called", "handler", "provider"}

\* What runs in the main event loop
Kind(c) == IF c = <<>> THEN "idle" ELSE c[1].kind

\* The newest id that a user interface action, a thread or a timer can have been given.
\* The replay scheduler holds the id of the next event action, which is not in use yet.
Limit(h, k, p) ==
    IF Preallocate THEN (IF k \in Opens THEN p ELSE p - 1) ELSE h.nextId - 1

\* The log is in an operation while an event action runs, and the current action is the
\* newest one of its kind.
Sound(h, k, p) ==
    /\ HBSound(h)
    /\ h.lastUI <= Limit(h, k, p)
    /\ k \notin {"idle", "plain"} => h.logOpen
    /\ k \in Opens \cup {"immediate"} => h.current # 0
    /\ k = "immediate" => ~Preallocate
    /\ h.current # 0 /\ (k \in Opens \/ ~Preallocate \/ ~Ghosts) => h.current = Limit(h, k, p)

\* The bounds as numbers
LEMMA LimitNumber ==
    ASSUME NEW h, HBBounded(h), NEW p \in 0..(h.nextId - 1), Preallocate => p > 0, NEW k
    PROVE  /\ Limit(h, k, p) \in Nat /\ Limit(h, k, p) < h.nextId /\ h.lastUI \in Nat
           /\ h.current \in Nat /\ h.nextId \in Nat \ {0} /\ p \in Nat
<1>1. h.lastUI \in Nat /\ h.current \in Nat /\ h.nextId \in Nat \ {0}
  BY DEF HBBounded, HBRecords
<1> QED BY <1>1 DEF Limit

\* A dispatch starts.
LEMMA SoundDispatch ==
    ASSUME NEW h, HBBounded(h), preId \in 0..(h.nextId - 1), Preallocate => preId > 0,
           NEW ui \in BOOLEAN, Sound(h, "idle", preId), NEW k \in Opens
    PROVE  LET g == HBEnterEventAction(AfterDispatchId(h), DispatchId(h), ui)
           IN  Sound(g, k, preId) /\ Limit(h, "idle", preId) <= Limit(g, k, preId)
<1> DEFINE id == DispatchId(h)
           g == HBEnterEventAction(AfterDispatchId(h), id, ui)
           u == "idle"
<1>1. /\ Limit(h, u, preId) \in Nat /\ Limit(h, u, preId) < h.nextId /\ h.lastUI \in Nat
      /\ h.nextId \in Nat \ {0} /\ preId \in Nat
  BY LimitNumber
<1>2. /\ HBBounded(g) /\ g.current = id /\ g.logOpen /\ id \in Nat \ {0}
      /\ g.nextId = (IF Preallocate THEN h.nextId ELSE h.nextId + 1)
      /\ g.lastUI = (IF ui THEN id ELSE h.lastUI)
      /\ HBSound(h) /\ (ui => h.lastUI < id) => HBSound(g)
  BY DispatchEntered
<1>3. id = IF Preallocate THEN preId ELSE h.nextId
  BY DEF DispatchId
<1> HIDE DEF id, g
<1>4. u \notin Opens
  BY DEF Opens
<1>5. Limit(h, u, preId) < id /\ Limit(g, k, preId) = id
  BY <1>1, <1>2, <1>3, <1>4 DEF Limit
<1>6. h.lastUI <= Limit(h, u, preId) /\ HBSound(h)
  BY DEF Sound
<1> HIDE DEF u
<1>7. h.lastUI < id /\ Limit(h, u, preId) <= id
  BY <1>1, <1>2, <1>5, <1>6
<1>8. g.lastUI <= id
  BY <1>1, <1>2, <1>7
<1>9. k # "immediate"
  BY DEF Opens
<1>10. Sound(g, k, preId)
  BY <1>2, <1>5, <1>6, <1>7, <1>8, <1>9 DEF Sound
<1> QED BY <1>5, <1>7, <1>10 DEF g, id, u

\* A dispatch ends, and the replay scheduler allocates its next id.
LEMMA SoundReturn ==
    ASSUME NEW h, HBBounded(h), preId \in 0..(h.nextId - 1), Preallocate => preId > 0,
           NEW k \in Opens, Sound(h, k, preId)
    PROVE  LET left == HBExitEventAction(h, TRUE)
           IN  /\ Sound(TakePreallocated(left), "idle", NextPreallocated(left))
               /\ Limit(h, k, preId) <=
                    Limit(TakePreallocated(left), "idle", NextPreallocated(left))
<1> DEFINE left == HBExitEventAction(h, TRUE)
           g == TakePreallocated(left)
           p == NextPreallocated(left)
           u == "idle"
<1>1. /\ Limit(h, k, preId) \in Nat /\ Limit(h, k, preId) < h.nextId /\ h.lastUI \in Nat
      /\ h.nextId \in Nat \ {0} /\ preId \in Nat
  BY LimitNumber
<1>2. h.logOpen /\ HBSound(h) /\ h.lastUI <= Limit(h, k, preId)
  BY DEF Sound, Opens
<1>3. /\ HBBounded(left) /\ left.nextId = h.nextId /\ left.current = 0
      /\ left.lastUI = h.lastUI /\ HBSound(left)
  BY <1>2, Left
<1> HIDE DEF left
<1>4. /\ g.current = 0 /\ g.lastUI = h.lastUI /\ HBSound(g)
      /\ Limit(g, u, p) = h.nextId - 1
  <2>1. CASE Preallocate
    <3>1. g = HBAllocateEventActionId(left) /\ p = h.nextId
      BY <1>3, <2>1 DEF TakePreallocated, NextPreallocated
    <3> HIDE DEF g, p
    <3>2. g.current = 0 /\ g.lastUI = h.lastUI /\ HBSound(g)
      BY <1>3, <3>1, Allocated
    <3> QED BY <2>1, <3>1, <3>2 DEF Limit, Opens
  <2>2. CASE ~Preallocate
    <3>1. g = left
      BY <2>2 DEF TakePreallocated
    <3> HIDE DEF g
    <3> QED BY <1>3, <2>2, <3>1 DEF Limit
  <2> QED BY <2>1, <2>2
<1> HIDE DEF g, p
<1>5. Limit(h, k, preId) <= Limit(g, u, p) /\ g.lastUI <= Limit(g, u, p)
  BY <1>1, <1>2, <1>4
<1>6. u = "idle" /\ u \notin Opens /\ u # "immediate"
  BY DEF Opens
<1>7. Sound(g, u, p)
  BY <1>4, <1>5, <1>6 DEF Sound
<1> QED BY <1>5, <1>7 DEF g, p, u, left

\* Without modal loops there is at most one frame.
LEMMA SingleFrame ==
    ASSUME ~NestedLoops, NEW h, NEW r, NEW c, NEW p, RegFits(h, r, c, p), c # <<>>
    PROVE  /\ Len(c) = 1 /\ DOMAIN c = {1} /\ Last(c) = c[1] /\ Kind(c) = Last(c).kind
           /\ Front(c) = <<>> /\ Last(c) \in Frames /\ c \in Seq(Frames)
<1>1. c \in Seq(Frames) /\ Len(c) <= 1
  BY DEF RegFits, Stack
<1>2. /\ Len(c) \in Nat \ {0} /\ DOMAIN c = 1..Len(c) /\ Last(c) = c[Len(c)]
      /\ Last(c) \in Frames
  BY <1>1, StackTop
<1>3. Len(c) = 1
  BY <1>1, <1>2
<1>4. Front(c) \in Seq(Frames) /\ Len(Front(c)) = 1 - 1
  BY <1>1, <1>3, FrontOf
<1>5. Front(c) = <<>>
  BY <1>4, EmptySeq
<1>6. 1..1 = {1}
  OBVIOUS
<1> QED BY <1>1, <1>2, <1>3, <1>5, <1>6 DEF Kind

\* What runs after one of the operations on the stack
LEMMA KindOf ==
    /\ Kind(<<>>) = "idle"
    /\ \A f : Kind(Append(<<>>, f)) = f.kind
    /\ \A c, d : c \in Seq(Frames) => Kind(Dangle(c, d)) = Kind(c)
<1>1. Kind(<<>>) = "idle"
  BY DEF Kind
<1>2. ASSUME NEW f PROVE Kind(Append(<<>>, f)) = f.kind
  <2>1. Append(<<>>, f) = <<f>>
    OBVIOUS
  <2>2. <<f>> # <<>> /\ <<f>>[1] = f
    OBVIOUS
  <2> QED BY <2>1, <2>2 DEF Kind
<1>3. ASSUME NEW c \in Seq(Frames), NEW d PROVE Kind(Dangle(c, d)) = Kind(c)
  <2>1. DOMAIN Dangle(c, d) = DOMAIN c /\ DOMAIN c = 1..Len(c)
    BY LenProperties DEF Dangle
  <2>2. CASE c = <<>>
    <3>1. DOMAIN Dangle(c, d) = {} /\ Dangle(c, d) = [i \in {} |-> Dangle(c, d)[i]]
      BY <2>1, <2>2 DEF Dangle
    <3>2. Dangle(c, d) = <<>>
      BY <3>1
    <3> QED BY <2>2, <3>2
  <2>3. CASE c # <<>>
    <3>1. Len(c) \in Nat \ {0} /\ Len(c) \in DOMAIN c
      BY <2>3, StackTop
    <3>2. 1 \in DOMAIN c /\ c[1] \in Frames
      BY <2>1, <3>1, ElementOfSeq
    <3>3. Dangle(c, d) # <<>>
      BY <2>1, <3>2
    <3> DEFINE b == c[1].dangling \/ (c[1].index # 0 /\ c[1].descriptor = d)
    <3>4. Dangle(c, d)[1] = [c[1] EXCEPT !.dangling = b]
      BY <3>2 DEF Dangle
    <3> HIDE DEF b
    <3>5. Dangle(c, d)[1].kind = c[1].kind
      BY <3>2, <3>4 DEF Frames
    <3> QED BY <2>3, <3>3, <3>5 DEF Kind
  <2> QED BY <2>2, <2>3
<1> QED BY <1>1, <1>2, <1>3

\* Everything the checks of the log depend on, unless the behaviour is undefined
SoundInv == HBSound(hb) /\ (undefined \/ Sound(hb, Kind(calls), preId))

\* The limit of the current state
Newest == Limit(hb, Kind(calls), preId)

\* What a step does to them
Keeps == SoundInv' /\ (undefined' \/ Newest <= Newest')

\* The current state as numbers
LEMMA SoundNow ==
    ASSUME RegisterInv, SoundInv, Alive
    PROVE  /\ Sound(hb, Kind(calls), preId) /\ HBBounded(hb) /\ preId \in 0..(hb.nextId - 1)
           /\ Preallocate => preId > 0
           /\ Newest \in Nat /\ Newest < hb.nextId /\ hb.nextId \in Nat \ {0}
           /\ hb.lastUI \in Nat /\ hb.current \in Nat /\ hb.lastUI <= Newest
           /\ RegFits(hb, reg, calls, preId) /\ HBSound(hb)
<1>1. /\ RegFits(hb, reg, calls, preId) /\ HBBounded(hb) /\ preId \in 0..(hb.nextId - 1)
      /\ Preallocate => preId > 0
  BY DEF RegisterInv, Alive, RegFits
<1>2. Sound(hb, Kind(calls), preId)
  BY DEF SoundInv, Alive
<1>3. Limit(hb, Kind(calls), preId) \in Nat /\ Limit(hb, Kind(calls), preId) < hb.nextId
      /\ hb.nextId \in Nat \ {0} /\ hb.lastUI \in Nat /\ hb.current \in Nat
  BY <1>1, LimitNumber
<1> QED BY <1>1, <1>2, <1>3 DEF Newest, Sound

\* A step that changes the frames only
LEMMA SoundFrames ==
    ASSUME RegisterInv, SoundInv, Alive, hb' = hb, preId' = preId, undefined' = undefined,
           \/ Kind(calls') = Kind(calls)
           \/ Kind(calls) \in Opens /\ Kind(calls') \in Opens
           \/ Kind(calls) \in {"idle", "plain"} /\ Kind(calls') \in {"idle", "plain"}
    PROVE  Keeps
<1> DEFINE k == Kind(calls)
           l == Kind(calls')
<1>1. Sound(hb, k, preId) /\ Newest \in Nat
  BY SoundNow
<1>2. /\ l \in Opens <=> k \in Opens
      /\ l \in {"idle", "plain"} <=> k \in {"idle", "plain"}
      /\ l = "immediate" <=> k = "immediate"
  BY DEF Opens
<1>3. Newest' = Limit(hb, l, preId) /\ Newest = Limit(hb, k, preId)
  BY DEF Newest
<1> HIDE DEF k, l
<1>4. Limit(hb, l, preId) = Limit(hb, k, preId)
  BY <1>2 DEF Limit
<1>5. Sound(hb, l, preId)
  BY <1>1, <1>2, <1>4 DEF Sound
<1>6. Newest <= Newest'
  BY <1>1, <1>3, <1>4
<1> QED BY <1>5, <1>6 DEF Keeps, SoundInv, l

\* An attempt from the idle state
LEMMA SoundAttempt ==
    ASSUME NEW h, NEW r, HBBounded(h), preId \in 0..(h.nextId - 1), Preallocate => preId > 0,
           Sound(h, "idle", preId), NEW d \in Descriptors, NEW o, NEW i,
           Attempt(d, o, i, h, r, <<>>)
    PROVE  /\ Sound(hb', Kind(calls'), preId)
           /\ Limit(h, "idle", preId) <= Limit(hb', Kind(calls'), preId)
<1>1. CASE ~(i <= Len(Providers) \/ d \in DOMAIN r.handlers)
  <2>1. hb' = h /\ calls' = <<>>
    BY <1>1 DEF Attempt
  <2>2. Limit(h, "idle", preId) \in Nat
    BY LimitNumber
  <2> QED BY <2>1, <2>2, KindOf
<1>2. CASE i <= Len(Providers) \/ d \in DOMAIN r.handlers
  <2> DEFINE f == IF i <= Len(Providers)
                  THEN Frame("provider", d, i, o, NoObject)
                  ELSE Frame("called", d, i, o, r.handlers[d][1])
  <2>1. /\ hb' = HBEnterEventAction(AfterDispatchId(h), DispatchId(h), d.ui)
        /\ calls' = Append(<<>>, f)
    BY <1>2 DEF Attempt
  <2>2. f.kind \in Opens
    BY DEF Frame, Opens
  <2> HIDE DEF f
  <2>3. Kind(calls') \in Opens
    BY <2>1, <2>2, KindOf
  <2>4. d.ui \in BOOLEAN
    BY RegisterAssumption
  <2> QED BY <2>1, <2>3, <2>4, SoundDispatch
<1> QED BY <1>1, <1>2

\* The dispatch that runs is committed.
LEMMA SoundCommit ==
    ASSUME RegisterInv, SoundInv, Alive, Kind(calls) \in Opens, calls' = <<>>,
           hb' = TakePreallocated(HBExitEventAction(hb, TRUE)),
           preId' = NextPreallocated(HBExitEventAction(hb, TRUE)), undefined' = undefined
    PROVE  Keeps
<1> DEFINE left == HBExitEventAction(hb, TRUE)
           k == Kind(calls)
<1>1. /\ Sound(hb, k, preId) /\ HBBounded(hb) /\ preId \in 0..(hb.nextId - 1)
      /\ Preallocate => preId > 0
  BY SoundNow
<1> HIDE DEF k
<1>2. /\ Sound(TakePreallocated(left), "idle", NextPreallocated(left))
      /\ Limit(hb, k, preId) <= Limit(TakePreallocated(left), "idle", NextPreallocated(left))
  BY <1>1, SoundReturn DEF k
<1>3. /\ Sound(hb', Kind(calls'), preId') /\ Newest <= Newest'
  BY <1>2, KindOf DEF Newest, k
<1> QED BY <1>3 DEF Keeps, SoundInv, Sound

\* Ghost event actions
LEMMA SoundGhost ==
    ASSUME ~NestedLoops, RegisterInv, SoundInv, GhostNext
    PROVE  Keeps
<1>1. Alive /\ UNCHANGED <<preId, undefined>>
  BY DEF GhostNext, EnterGhostEventAction, ExitGhostEventAction, FrameGhostLeftOpen
<1>2. /\ Sound(hb, Kind(calls), preId) /\ HBBounded(hb) /\ Newest \in Nat
      /\ Newest < hb.nextId /\ hb.nextId \in Nat \ {0} /\ hb.lastUI \in Nat
      /\ hb.lastUI <= Newest /\ RegFits(hb, reg, calls, preId) /\ HBSound(hb)
  BY <1>1, SoundNow
<1>3. CASE Ghosts /\ calls = <<>> /\ hb' = GhostEntered(hb) /\ Kind(calls') \in {"idle", "ghost"}
  <2> DEFINE k == Kind(calls')
  <2>1. /\ HBSound(hb') /\ hb'.nextId = hb.nextId + 1 /\ hb'.current = hb.nextId
        /\ hb'.lastUI = hb.lastUI /\ hb'.logOpen
    BY <1>2, <1>3, GhostIn
  <2>2. k \notin Opens /\ k # "immediate" /\ Kind(calls) \notin Opens
    BY <1>3, KindOf DEF Opens
  <2> HIDE DEF k
  <2>3. Limit(hb', k, preId) = IF Preallocate THEN Newest ELSE hb.nextId
    <3>1. hb'.nextId - 1 = hb.nextId
      BY <1>2, <2>1
    <3> QED BY <2>2, <3>1 DEF Limit, Newest
  <2>4. Newest <= Limit(hb', k, preId) /\ hb'.lastUI <= Limit(hb', k, preId)
    BY <1>2, <2>1, <2>3
  <2>5. hb'.current # 0 /\ (~Preallocate \/ ~Ghosts) => hb'.current = Limit(hb', k, preId)
    BY <1>3, <2>1, <2>3
  <2>6. Sound(hb', k, preId)
    BY <2>1, <2>2, <2>4, <2>5 DEF Sound
  <2> QED BY <1>1, <2>1, <2>4, <2>6 DEF Keeps, SoundInv, Newest, k
<1>4. CASE EnterGhostEventAction
  <2> DEFINE f == Frame("ghost", GhostDescriptor, 0, -1, NoObject)
  <2>1. Ghosts /\ calls = <<>> /\ hb' = GhostEntered(hb) /\ calls' = Append(<<>>, f)
    BY <1>4 DEF EnterGhostEventAction, InEventLoop, Idle
  <2>2. Kind(calls') = "ghost"
    BY <2>1, KindOf, GhostFrame
  <2> QED BY <1>3, <2>1, <2>2
<1>5. CASE FrameGhostLeftOpen
  <2>1. Ghosts /\ calls = <<>> /\ hb' = GhostEntered(hb) /\ calls' = calls
    BY <1>5 DEF FrameGhostLeftOpen, Idle
  <2>2. Kind(calls') = "idle"
    BY <2>1, KindOf
  <2> QED BY <1>3, <2>1, <2>2
<1>6. CASE ExitGhostEventAction
  <2> DEFINE m == ActionLogStrictMode(hb, TRUE)
  <2>1. /\ calls # <<>> /\ Last(calls).kind = "ghost" /\ calls' = Front(calls)
        /\ hb' = HBExitEventAction(m, TRUE)
    BY <1>6 DEF ExitGhostEventAction, Idle
  <2>2. Kind(calls) = "ghost" /\ calls' = <<>>
    BY <1>2, <2>1, SingleFrame
  <2>3. hb.logOpen
    BY <1>2, <2>2 DEF Sound
  <2>4. /\ HBBounded(m) /\ HBSound(m) /\ m.nextId = hb.nextId /\ m.lastUI = hb.lastUI
        /\ m.logOpen
    BY <1>2, <2>3, StrictModeSet
  <2> HIDE DEF m
  <2>5. /\ hb'.nextId = hb.nextId /\ hb'.current = 0 /\ hb'.lastUI = hb.lastUI /\ HBSound(hb')
    BY <2>1, <2>4, Left
  <2> DEFINE k == Kind(calls')
  <2>6. k = "idle"
    BY <2>2, KindOf
  <2>7. k \notin Opens /\ k # "immediate" /\ Kind(calls) \notin Opens
    BY <2>2, <2>6 DEF Opens
  <2> HIDE DEF k
  <2>8. Limit(hb', k, preId) = Newest
    BY <2>5, <2>7 DEF Limit, Newest
  <2>9. Sound(hb', k, preId)
    BY <1>2, <2>5, <2>6, <2>7, <2>8 DEF Sound
  <2>10. Newest <= Limit(hb', k, preId)
    BY <1>2, <2>8
  <2> QED BY <1>1, <2>5, <2>9, <2>10 DEF Keeps, SoundInv, Newest, k
<1> QED BY <1>4, <1>5, <1>6 DEF GhostNext

\* Immediate event actions
LEMMA SoundImmediate ==
    ASSUME ~NestedLoops, RegisterInv, SoundInv,
           (\E d \in Descriptors : EnterImmediateEventAction(d)) \/ ExitImmediateEventAction
    PROVE  Keeps
<1>1. Alive /\ UNCHANGED <<preId, undefined>>
  BY DEF EnterImmediateEventAction, ExitImmediateEventAction
<1>2. /\ Sound(hb, Kind(calls), preId) /\ HBBounded(hb) /\ Newest \in Nat
      /\ Newest < hb.nextId /\ hb.nextId \in Nat \ {0} /\ hb.lastUI \in Nat
      /\ hb.lastUI <= Newest /\ RegFits(hb, reg, calls, preId) /\ HBSound(hb)
  BY <1>1, SoundNow
<1> DEFINE k == Kind(calls')
<1>3. CASE \E d \in Descriptors : EnterImmediateEventAction(d)
  <2>1. PICK d \in Descriptors : EnterImmediateEventAction(d)
    BY <1>3
  <2> DEFINE f == Frame("immediate", d, 0, -1, NoObject)
  <2>2. /\ calls = <<>> /\ ~Preallocate /\ calls' = Append(<<>>, f)
        /\ hb' = HBEnterEventAction(HBAllocateEventActionId(hb), hb.nextId, TRUE)
    BY <2>1 DEF EnterImmediateEventAction, Idle
  <2>3. f.kind = "immediate"
    BY DEF Frame
  <2> HIDE DEF f
  <2>4. k = "immediate"
    BY <2>2, <2>3, KindOf
  <2>5. /\ HBSound(hb') /\ hb'.nextId = hb.nextId + 1 /\ hb'.current = hb.nextId
        /\ hb'.lastUI = hb.nextId /\ hb'.logOpen
    BY <1>2, <2>2, ImmediateBookkeeping
  <2> HIDE DEF k
  <2>6. Limit(hb', k, preId) = hb.nextId
    <3>1. Limit(hb', k, preId) = hb'.nextId - 1
      BY <2>2 DEF Limit
    <3> QED BY <1>2, <2>5, <3>1
  <2>7. Newest <= Limit(hb', k, preId) /\ hb'.lastUI <= Limit(hb', k, preId) /\ hb'.current # 0
    BY <1>2, <2>5, <2>6
  <2>8. Sound(hb', k, preId)
    BY <2>2, <2>5, <2>6, <2>7 DEF Sound
  <2> QED BY <1>1, <2>5, <2>7, <2>8 DEF Keeps, SoundInv, Newest, k
<1>4. CASE ExitImmediateEventAction
  <2>1. /\ calls # <<>> /\ Last(calls).kind = "immediate" /\ calls' = Front(calls)
        /\ hb' = HBExitEventAction(hb, TRUE)
    BY <1>4 DEF ExitImmediateEventAction, InPageCode, Idle
  <2>2. Kind(calls) = "immediate" /\ calls' = <<>>
    BY <1>2, <2>1, SingleFrame
  <2>3. hb.logOpen /\ ~Preallocate
    BY <1>2, <2>2 DEF Sound
  <2>4. /\ hb'.nextId = hb.nextId /\ hb'.current = 0 /\ hb'.lastUI = hb.lastUI /\ HBSound(hb')
    BY <1>2, <2>1, <2>3, Left
  <2>5. k = "idle"
    BY <2>2, KindOf
  <2>6. k \notin Opens /\ k # "immediate"
    BY <2>5 DEF Opens
  <2> HIDE DEF k
  <2>7. Limit(hb', k, preId) = Newest
    BY <2>3, <2>4 DEF Limit, Newest
  <2>8. Sound(hb', k, preId)
    BY <1>2, <2>4, <2>5, <2>6, <2>7 DEF Sound
  <2>9. Newest <= Limit(hb', k, preId)
    BY <1>2, <2>7
  <2> QED BY <1>1, <2>4, <2>8, <2>9 DEF Keeps, SoundInv, Newest, k
<1> QED BY <1>3, <1>4

\* A handler returns.
LEMMA SoundHandlerReturns ==
    ASSUME ~NestedLoops, RegisterInv, SoundInv, HandlerReturns
    PROVE  Keeps
<1>1. Alive /\ calls # <<>> /\ Last(calls).kind = "handler" /\ calls' = Front(calls)
  BY DEF HandlerReturns, InPageCode, Idle
<1>2. RegFits(hb, reg, calls, preId) /\ HBSound(hb)
  BY <1>1, SoundNow
<1>3. Kind(calls) \in Opens /\ calls' = <<>>
  BY <1>1, <1>2, SingleFrame DEF Opens
<1>4. CASE Last(calls).dangling
  <2>1. undefined' = TRUE /\ hb' = hb
    BY <1>4 DEF HandlerReturns
  <2> QED BY <1>2, <2>1 DEF Keeps, SoundInv
<1>5. CASE ~Last(calls).dangling
  <2>1. /\ hb' = TakePreallocated(HBExitEventAction(hb, TRUE))
        /\ preId' = NextPreallocated(HBExitEventAction(hb, TRUE))
        /\ undefined' = undefined
    BY <1>5 DEF HandlerReturns
  <2> QED BY <1>1, <1>3, <2>1, SoundCommit
<1> QED BY <1>4, <1>5

\* The threads that can be joined ended in the newest event action at the latest.
JoinsBelow == undefined \/ \A j \in Joins : \A e \in joins[j] : e <= Newest

\* They did, after a step that leaves them alone.
LEMMA JoinsStayBelow ==
    ASSUME RegisterInv, RegisterInv', JoinsBelow, Alive, Keeps, SoundInv, joins' = joins
    PROVE  JoinsBelow'
<1> SUFFICES ASSUME ~undefined', NEW j \in Joins, NEW e \in joins[j]
             PROVE  e <= Newest'
  BY DEF JoinsBelow
<1>1. e <= Newest /\ Newest <= Newest'
  BY DEF JoinsBelow, Alive, Keeps
<1>2. Newest \in Nat
  BY SoundNow
<1>3. e \in 1..(hb.nextId - 1)
  BY DEF RegisterInv, JoinsFit
<1>4. Newest' \in Nat
  <2>1. /\ HBBounded(hb') /\ preId' \in 0..(hb'.nextId - 1) /\ (Preallocate => preId' > 0)
    BY DEF RegisterInv, RegFits
  <2>2. Limit(hb', Kind(calls'), preId') \in Nat
    BY <2>1, LimitNumber
  <2> QED BY <2>2 DEF Newest
<1> QED BY <1>1, <1>2, <1>3, <1>4

\* Page code runs in a valid event action, the newest one.
LEMMA PageCodeIsNewest ==
    ASSUME ~NestedLoops, RegisterInv, SoundInv, Alive, InPageCode
    PROVE  hb.current # 0 /\ hb.current = Newest
<1>1. Sound(hb, Kind(calls), preId) /\ RegFits(hb, reg, calls, preId)
  BY SoundNow
<1>2. calls # <<>> /\ Last(calls).kind \in {"handler", "provider", "immediate"}
  BY DEF InPageCode, Idle
<1>3. Kind(calls) \in {"handler", "provider", "immediate"}
  BY <1>1, <1>2, SingleFrame
<1>4. hb.current # 0 /\ (Kind(calls) \in Opens \/ ~Preallocate)
  BY <1>1, <1>3 DEF Sound, Opens
<1> QED BY <1>1, <1>4 DEF Sound, Newest

\* The joins of threads
LEMMA SoundJoin ==
    ASSUME ~NestedLoops, RegisterInv, SoundInv, JoinsBelow, JoinNext
    PROVE  SoundInv' /\ JoinsBelow'
<1>1. PICK j \in Joins : ThreadEndAction(j) \/ JoinAction(j) \/ ClearJoin(j)
  BY DEF JoinNext
<1>2. Alive /\ InPageCode
  BY <1>1 DEF ThreadEndAction, JoinAction, ClearJoin
<1>3. hb.current # 0 /\ hb.current = Newest
  BY <1>2, PageCodeIsNewest
<1>4. /\ Sound(hb, Kind(calls), preId) /\ HBBounded(hb) /\ Newest \in Nat /\ HBSound(hb)
  BY <1>2, SoundNow
<1>5. \A i \in Joins : \A e \in joins[i] : e <= Newest
  BY <1>2 DEF JoinsBelow, Alive
<1>6. DOMAIN joins = Joins /\ joins[j] \subseteq 1..(hb.nextId - 1)
  BY DEF RegisterInv, JoinsFit
<1>7. CASE ThreadEndAction(j)
  <2>1. /\ hb' = hb /\ joins' = [joins EXCEPT ![j] = @ \cup {hb.current}]
        /\ UNCHANGED <<reg, calls, preId, undefined>>
    BY <1>3, <1>7 DEF ThreadEndAction, HBCurrentEventAction
  <2>2. Newest' = Newest /\ Newest <= Newest
    BY <1>4, <2>1 DEF Newest
  <2>3. \A i \in Joins : \A e \in joins'[i] : e <= Newest
    BY <1>3, <1>5, <1>6, <2>1, <2>2
  <2> QED BY <2>1, <2>2, <2>3 DEF SoundInv, JoinsBelow
<1>8. CASE JoinAction(j)
  <2>1. hb' = JoinArcs(hb, joins[j]) /\ UNCHANGED <<reg, calls, preId, joins, undefined>>
    BY <1>8 DEF JoinAction
  <2>2. \A e \in joins[j] : e <= hb.current
    BY <1>3, <1>5
  <2>3. /\ hb'.nextId = hb.nextId /\ hb'.current = hb.current /\ hb'.lastUI = hb.lastUI
        /\ hb'.logOpen = hb.logOpen /\ HBSound(hb')
    BY <1>3, <1>4, <1>6, <2>1, <2>2, Joined
  <2>4. Limit(hb', Kind(calls), preId) = Limit(hb, Kind(calls), preId) /\ Newest' = Newest
    BY <2>1, <2>3 DEF Limit, Newest
  <2>5. Sound(hb', Kind(calls), preId)
    BY <1>4, <2>3, <2>4 DEF Sound
  <2> QED BY <1>5, <2>1, <2>3, <2>4, <2>5 DEF SoundInv, JoinsBelow
<1>9. CASE ClearJoin(j)
  <2>1. joins' = [joins EXCEPT ![j] = {}] /\ UNCHANGED <<hb, reg, calls, preId, undefined>>
    BY <1>9 DEF ClearJoin
  <2>2. Newest' = Newest
    BY <2>1 DEF Newest
  <2>3. \A i \in Joins : \A e \in joins'[i] : e <= Newest
    BY <1>5, <1>6, <2>1
  <2> QED BY <2>1, <2>2, <2>3 DEF SoundInv, JoinsBelow
<1> QED BY <1>1, <1>7, <1>8, <1>9

-----------------------------------------------------------------------------
(* The register on its own *)

FullInv == RegisterInv /\ SoundInv /\ JoinsBelow

\* The recorded ids that are passed have no translation yet.
LEMMA PassedIsFresh ==
    ASSUME NEW o \in OriginalIdsPassed
    PROVE  o \in OriginalIds \cup {-1} /\ (o = -1 \/ o \notin DOMAIN reg.idMap)
BY DEF OriginalIdsPassed

\* Registering, removing and running handlers
LEMMA SoundRegister ==
    ASSUME ~NestedLoops, Modal, FullInv, NEW d \in Descriptors,
           \/ \E object \in Objects : RegisterEventActionHandler(d, object)
           \/ DeregisterEventActionHandler(d)
           \/ \E o \in OriginalIdsPassed : RunEventAction(d, o)
           \/ CallHandler
    PROVE  FullInv'
<1>1. RegisterInv /\ SoundInv /\ JoinsBelow
  BY DEF FullInv
<1>2. Alive /\ joins' = joins
  BY DEF RegisterEventActionHandler, DeregisterEventActionHandler, RunEventAction, CallHandler
<1>3. /\ Sound(hb, Kind(calls), preId) /\ HBBounded(hb) /\ preId \in 0..(hb.nextId - 1)
      /\ Preallocate => preId > 0
      /\ RegFits(hb, reg, calls, preId) /\ HBSound(hb) /\ calls \in Seq(Frames)
  BY <1>1, <1>2, SoundNow DEF RegFits, Stack
<1>4. ASSUME RegisterInv', Keeps PROVE FullInv'
  BY <1>1, <1>2, <1>4, JoinsStayBelow DEF FullInv, Keeps
<1>5. CASE \E object \in Objects : RegisterEventActionHandler(d, object)
  <2>1. PICK object \in Objects : RegisterEventActionHandler(d, object)
    BY <1>5
  <2>2. RegisterInv'
    BY <1>1, <2>1, RegisterStep
  <2>3. UNCHANGED <<hb, calls, preId, undefined>>
    BY <2>1 DEF RegisterEventActionHandler
  <2>4. Keeps
    BY <1>1, <1>2, <2>3, SoundFrames
  <2> QED BY <1>4, <2>2, <2>4
<1>6. CASE DeregisterEventActionHandler(d)
  <2>1. /\ reg' = EraseKey(reg, d) /\ calls' = Dangle(calls, d)
        /\ UNCHANGED <<hb, preId, joins, undefined>>
    BY <1>6 DEF DeregisterEventActionHandler
  <2>2. RegisterInv'
    BY <1>1, <1>2, <2>1, DeregisterStep
  <2>3. Kind(calls') = Kind(calls)
    BY <1>3, <2>1, KindOf
  <2>4. Keeps
    BY <1>1, <1>2, <2>1, <2>3, SoundFrames
  <2> QED BY <1>4, <2>2, <2>4
<1>7. CASE \E o \in OriginalIdsPassed : RunEventAction(d, o)
  <2>1. PICK o \in OriginalIdsPassed : RunEventAction(d, o)
    BY <1>7
  <2>2. o \in OriginalIds \cup {-1} /\ (o = -1 \/ o \notin DOMAIN reg.idMap)
    BY PassedIsFresh
  <2>3. /\ calls = <<>> /\ Attempt(d, o, FirstProvider(d), hb, reg, calls)
        /\ UNCHANGED <<preId, undefined>>
    BY <2>1 DEF RunEventAction, InEventLoop, Idle
  <2>4. RegisterInv'
    BY <1>1, <2>1, <2>2, <2>3, RunStep
  <2>5. Kind(calls) = "idle" /\ Attempt(d, o, FirstProvider(d), hb, reg, <<>>)
    BY <2>3, KindOf
  <2>6. /\ Sound(hb', Kind(calls'), preId)
        /\ Limit(hb, "idle", preId) <= Limit(hb', Kind(calls'), preId)
    BY <1>3, <2>5, SoundAttempt
  <2>7. Keeps
    BY <2>3, <2>5, <2>6 DEF Keeps, SoundInv, Newest, Sound
  <2> QED BY <1>4, <2>4, <2>7
<1>8. CASE CallHandler
  <2> DEFINE f == [Last(calls) EXCEPT !.kind = "handler"]
  <2>1. /\ calls # <<>> /\ Last(calls).kind = "called" /\ calls' = Append(Front(calls), f)
        /\ UNCHANGED <<hb, reg, preId, joins, undefined>>
    BY <1>8 DEF CallHandler, Idle
  <2>2. RegisterInv'
    BY <1>1, <1>2, <1>3, <2>1, CallStep
  <2>3. Kind(calls) = "called" /\ calls' = Append(<<>>, f) /\ Last(calls) \in Frames
    BY <1>3, <2>1, SingleFrame
  <2>4. f.kind = "handler"
    BY <2>3 DEF Frames
  <2> HIDE DEF f
  <2>5. Kind(calls') = "handler"
    BY <2>3, <2>4, KindOf
  <2>6. Kind(calls) \in Opens /\ Kind(calls') \in Opens
    BY <2>3, <2>5 DEF Opens
  <2>7. Keeps
    BY <1>1, <1>2, <2>1, <2>6, SoundFrames
  <2> QED BY <1>4, <2>2, <2>7
<1> QED BY <1>5, <1>6, <1>7, <1>8

\* Every step of the register keeps the invariant.
LEMMA RegisterKeeps ==
    ASSUME ~NestedLoops, FullInv, [RegisterNext]_registerVars
    PROVE  FullInv'
<1>1. RegisterInv /\ SoundInv /\ JoinsBelow /\ Modal
  BY DEF FullInv, Modal
<1>2. ASSUME RegisterInv', Keeps, Alive, joins' = joins PROVE FullInv'
  BY <1>1, <1>2, JoinsStayBelow DEF FullInv, Keeps
<1>3. CASE UNCHANGED registerVars
  BY <1>1, <1>3 DEF registerVars, FullInv, RegisterInv, SoundInv, JoinsBelow, Newest, Limit
<1>4. CASE \E d \in Descriptors :
         \/ \E object \in Objects : RegisterEventActionHandler(d, object)
         \/ DeregisterEventActionHandler(d)
         \/ \E o \in OriginalIdsPassed : RunEventAction(d, o)
  BY <1>1, <1>4, SoundRegister
<1>5. CASE CallHandler
  <2>1. CASE Descriptors = {}
    <3>1. RegFits(hb, reg, calls, preId) /\ calls # <<>> /\ Last(calls).kind = "called"
      BY <1>1, <1>5, SoundNow DEF CallHandler, Idle
    <3>2. Last(calls) = calls[Len(calls)] /\ Len(calls) \in DOMAIN calls
      BY <3>1, StackTop DEF RegFits, Stack
    <3>3. calls[Len(calls)].descriptor \in Descriptors
      BY <3>1, <3>2 DEF RegFits, Stack
    <3> QED BY <2>1, <3>3
  <2>2. CASE Descriptors # {}
    BY <1>1, <1>5, <2>2, SoundRegister
  <2> QED BY <2>1, <2>2
<1>6. CASE HandlerReturns
  <2>1. RegisterInv' /\ Keeps
    BY <1>1, <1>6, ReturnStep, SoundHandlerReturns
  <2>2. Alive /\ joins' = joins
    BY <1>6 DEF HandlerReturns
  <2> QED BY <1>2, <2>1, <2>2
<1>7. CASE (\E d \in Descriptors : EnterImmediateEventAction(d)) \/ ExitImmediateEventAction
  <2>1. RegisterInv' /\ Keeps
    BY <1>1, <1>7, ImmediateStep, ExitImmediateStep, SoundImmediate
  <2>2. Alive /\ joins' = joins
    BY <1>7 DEF EnterImmediateEventAction, ExitImmediateEventAction
  <2> QED BY <1>2, <2>1, <2>2
<1>8. CASE GhostNext
  <2>1. RegisterInv' /\ Keeps
    BY <1>1, <1>8, GhostStep, SoundGhost
  <2>2. Alive /\ joins' = joins
    BY <1>8 DEF GhostNext, EnterGhostEventAction, ExitGhostEventAction, FrameGhostLeftOpen
  <2> QED BY <1>2, <2>1, <2>2
<1>9. CASE JoinNext
  <2>1. Alive
    BY <1>9 DEF JoinNext, ThreadEndAction, JoinAction, ClearJoin
  <2>2. InPageCode => hb.current # 0
    BY <1>1, <2>1, PageCodeIsNewest
  <2> QED BY <1>1, <1>9, <2>2, JoinStep, SoundJoin DEF FullInv
<1> QED BY <1>3, <1>4, <1>5, <1>6, <1>7, <1>8, <1>9 DEF RegisterNext

\* The first state has it.
LEMMA FullInvInitially ==
    ASSUME RegisterInit
    PROVE  FullInv
<1>1. /\ RegisterInv /\ calls = <<>> /\ HBSound(hb) /\ hb.current = 1 /\ hb.lastUI = 0
      /\ IF Preallocate THEN preId = 2 ELSE hb.nextId = 2
  BY RegisterStarts
<1>2. Kind(calls) = "idle"
  BY <1>1, KindOf
<1>3. "idle" \notin Opens
  BY DEF Opens
<1>4. Newest = 1
  BY <1>1, <1>2, <1>3 DEF Newest, Limit
<1>5. Sound(hb, "idle", preId)
  BY <1>1, <1>2, <1>3, <1>4 DEF Sound, Newest
<1>6. JoinsBelow
  BY DEF RegisterInit, JoinsBelow
<1> QED BY <1>1, <1>2, <1>5, <1>6 DEF FullInv, SoundInv

\* In the main event loop none of the consistency checks that call CRASH() fails and no
\* arc is dropped, whatever order handlers, immediate event actions, ghosts and joins come
\* in: the id of every event action is newer than all that an arc to it can start from.
THEOREM RegisterSound ==
    ASSUME ~NestedLoops
    PROVE  RegisterSpec => []NoCrash
<1>1. RegisterInit => FullInv
  BY FullInvInitially
<1>2. FullInv /\ [RegisterNext]_registerVars => FullInv'
  BY RegisterKeeps
<1>3. FullInv => NoCrash
  BY DEF FullInv, SoundInv, HBSound, NoCrash
<1> QED BY <1>1, <1>2, <1>3, PTL DEF RegisterSpec

-----------------------------------------------------------------------------
(* The order of the log.  What HBReaches computes is found by induction: the least number *)
(* for which a claim about its function fails is neither 0 nor the successor of another.  *)

\* The ids from which some id of S is reached over one arc of A, and those of S
Before(A, S) == S \cup {a[1] : a \in {b \in A : b[2] \in S}}

\* b is the function HBReaches defines, up to k.
IsBack(b, A, Y, k) == b = [n \in 0..k |-> IF n = 0 THEN {Y} ELSE Before(A, b[n - 1])]

\* Every set of numbers has a least one.
LEMMA LeastOf ==
    ASSUME NEW T, T \subseteq Nat, T # {}
    PROVE  \E x \in T : \A y \in T : ~(y < x)
<1>1. IsWellFoundedOn(OpToRel(<, Nat), Nat)
  BY NatLessThanWellFounded
<1>2. PICK x \in T : \A y \in T : ~(<<y, x>> \in OpToRel(<, Nat))
  BY <1>1, WFMin
<1>3. \A y \in T : ~(y < x)
  BY <1>2 DEF OpToRel
<1> QED BY <1>3

\* There is such a function.
LEMMA BackExists ==
    ASSUME NEW A, NEW Y \in Nat
    PROVE  \E b : IsBack(b, A, Y, Y)
<1> DEFINE T == {k \in Nat : ~\E b : IsBack(b, A, Y, k)}
<1>1. ASSUME T # {} PROVE FALSE
  <2>1. PICK k \in T : \A j \in T : ~(j < k)
    <3>1. T \subseteq Nat
      OBVIOUS
    <3> HIDE DEF T
    <3> QED BY <1>1, <3>1, LeastOf
  <2>2. CASE k = 0
    <3> DEFINE b == [n \in 0..0 |-> {Y}]
    <3>1. b = [n \in 0..0 |-> IF n = 0 THEN {Y} ELSE Before(A, b[n - 1])]
      OBVIOUS
    <3>2. IsBack(b, A, Y, 0)
      BY <3>1 DEF IsBack
    <3> QED BY <2>2, <3>2
  <2>3. CASE k # 0
    <3>1. k - 1 \in Nat /\ k - 1 \notin T
      BY <2>1, <2>3
    <3>2. PICK f : IsBack(f, A, Y, k - 1)
      BY <3>1
    <3> DEFINE b == [n \in 0..k |-> IF n = 0 THEN {Y} ELSE Before(A, f[n - 1])]
    <3>3. ASSUME NEW n \in 0..(k - 1) PROVE b[n] = f[n]
      <4>1. n \in 0..k
        BY <3>1
      <4>2. f = [m \in 0..(k - 1) |-> IF m = 0 THEN {Y} ELSE Before(A, f[m - 1])]
        BY <3>2 DEF IsBack
      <4>3. f[n] = IF n = 0 THEN {Y} ELSE Before(A, f[n - 1])
        BY <4>2
      <4> QED BY <4>1, <4>3
    <3>4. \A n \in 0..k : n # 0 => n - 1 \in 0..(k - 1)
      BY <3>1
    <3>5. b = [n \in 0..k |-> IF n = 0 THEN {Y} ELSE Before(A, b[n - 1])]
      <4>1. \A n \in 0..k : n # 0 => b[n - 1] = f[n - 1]
        BY <3>3, <3>4
      <4> QED BY <4>1
    <3>6. IsBack(b, A, Y, k)
      BY <3>5 DEF IsBack
    <3> QED BY <3>6
  <2> QED BY <2>2, <2>3
<1> QED BY <1>1

\* HBReaches is about it.
LEMMA ReachesBack ==
    ASSUME NEW h, NEW X, NEW Y \in Nat
    PROVE  \E b : IsBack(b, h.arcs, Y, Y) /\ (HBReaches(h, X, Y) <=> X \in b[Y])
<1> DEFINE back == CHOOSE b : b = [n \in 0..Y |->
          IF n = 0 THEN {Y}
          ELSE b[n - 1] \cup {a[1] : a \in {c \in h.arcs : c[2] \in b[n - 1]}}]
<1>1. \E b : b = [n \in 0..Y |->
          IF n = 0 THEN {Y}
          ELSE b[n - 1] \cup {a[1] : a \in {c \in h.arcs : c[2] \in b[n - 1]}}]
  <2>1. PICK b : IsBack(b, h.arcs, Y, Y)
    BY BackExists
  <2>2. b = [n \in 0..Y |->
          IF n = 0 THEN {Y}
          ELSE b[n - 1] \cup {a[1] : a \in {c \in h.arcs : c[2] \in b[n - 1]}}]
    BY <2>1 DEF IsBack, Before
  <2> QED BY <2>2
<1>2. back = [n \in 0..Y |->
          IF n = 0 THEN {Y}
          ELSE back[n - 1] \cup {a[1] : a \in {c \in h.arcs : c[2] \in back[n - 1]}}]
  BY <1>1
<1>3. IsBack(back, h.arcs, Y, Y)
  BY <1>2 DEF IsBack, Before
<1>4. HBReaches(h, X, Y) <=> X \in back[Y]
  BY DEF HBReaches
<1> QED BY <1>3, <1>4
\* The values of the function
LEMMA BackValues ==
    ASSUME NEW b, NEW A, NEW Y \in Nat, IsBack(b, A, Y, Y)
    PROVE  /\ b[0] = {Y}
           /\ \A n \in 1..Y : b[n] = Before(A, b[n - 1])
<1>1. b = [n \in 0..Y |-> IF n = 0 THEN {Y} ELSE Before(A, b[n - 1])]
  BY DEF IsBack
<1>2. \A n \in 0..Y : b[n] = IF n = 0 THEN {Y} ELSE Before(A, b[n - 1])
  BY <1>1
<1>3. 0 \in 0..Y /\ \A n \in 1..Y : n \in 0..Y /\ n # 0
  OBVIOUS
<1> QED BY <1>2, <1>3

\* The function grows.
LEMMA BackGrows ==
    ASSUME NEW b, NEW A, NEW Y \in Nat, IsBack(b, A, Y, Y), NEW m \in 0..Y
    PROVE  b[m] \subseteq b[Y]
<1> DEFINE T == {k \in Nat : k >= m /\ k <= Y /\ ~(b[m] \subseteq b[k])}
<1>1. ASSUME T # {} PROVE FALSE
  <2>1. PICK k \in T : \A j \in T : ~(j < k)
    <3>1. T \subseteq Nat
      OBVIOUS
    <3> HIDE DEF T
    <3> QED BY <1>1, <3>1, LeastOf
  <2>2. k # m
    OBVIOUS
  <2>3. k \in 1..Y /\ k - 1 \in Nat /\ k - 1 >= m /\ k - 1 <= Y /\ k - 1 \notin T
    BY <2>1, <2>2
  <2>4. b[m] \subseteq b[k - 1]
    BY <2>3
  <2>5. b[k] = Before(A, b[k - 1])
    BY <2>3, BackValues
  <2> QED BY <2>4, <2>5 DEF Before
<1>2. Y \in Nat /\ Y >= m /\ Y <= Y
  OBVIOUS
<1> QED BY <1>1, <1>2

\* More arcs, and an id Z that an arc leads to from Y
LEMMA BackLonger ==
    ASSUME NEW b, NEW A, NEW Y \in Nat, IsBack(b, A, Y, Y),
           NEW c, NEW B, NEW Z \in Nat, IsBack(c, B, Z, Z), A \subseteq B,
           NEW s \in {0, 1}, Y + s <= Z, Y \in c[s]
    PROVE  b[Y] \subseteq c[Z]
<1> DEFINE T == {k \in Nat : k <= Y /\ ~(b[k] \subseteq c[k + s])}
<1>1. ASSUME T # {} PROVE FALSE
  <2>1. PICK k \in T : \A j \in T : ~(j < k)
    <3>1. T \subseteq Nat
      OBVIOUS
    <3> HIDE DEF T
    <3> QED BY <1>1, <3>1, LeastOf
  <2>2. b[0] = {Y} /\ 0 + s = s
    BY BackValues
  <2>3. k # 0
    BY <2>2
  <2>4. k \in 1..Y /\ k - 1 \in Nat /\ k - 1 <= Y /\ k - 1 \notin T
    BY <2>1, <2>3
  <2>5. k + s \in 1..Z /\ (k + s) - 1 = (k - 1) + s
    BY <2>4
  <2>6. b[k - 1] \subseteq c[(k + s) - 1]
    BY <2>4, <2>5
  <2>7. b[k] = Before(A, b[k - 1]) /\ c[k + s] = Before(B, c[(k + s) - 1])
    BY <2>4, <2>5, BackValues
  <2>8. Before(A, b[k - 1]) \subseteq Before(B, c[(k + s) - 1])
    BY <2>6 DEF Before
  <2> QED BY <2>7, <2>8
<1>2. b[Y] \subseteq c[Y + s]
  BY <1>1
<1>3. Y + s \in 0..Z
  OBVIOUS
<1>4. c[Y + s] \subseteq c[Z]
  BY <1>3, BackGrows
<1> QED BY <1>2, <1>4

\* An order stays when the log grows.
LEMMA ReachesLater ==
    ASSUME NEW h, NEW g, h.arcs \subseteq g.arcs, NEW X, NEW Y \in Nat, HBReaches(h, X, Y)
    PROVE  HBReaches(g, X, Y)
<1>1. PICK b : IsBack(b, h.arcs, Y, Y) /\ (HBReaches(h, X, Y) <=> X \in b[Y])
  BY ReachesBack
<1>2. PICK c : IsBack(c, g.arcs, Y, Y) /\ (HBReaches(g, X, Y) <=> X \in c[Y])
  BY ReachesBack
<1>3. Y \in c[0]
  BY <1>2, BackValues
<1>4. Y + 0 <= Y /\ 0 \in {0, 1}
  OBVIOUS
<1>5. b[Y] \subseteq c[Y]
  BY <1>1, <1>2, <1>3, <1>4, BackLonger
<1> QED BY <1>1, <1>2, <1>5

\* An arc continues it.
LEMMA ReachesOver ==
    ASSUME NEW h, NEW X, NEW Y \in Nat, NEW Z \in Nat, Y < Z, <<Y, Z>> \in h.arcs,
           X = Y \/ HBReaches(h, X, Y)
    PROVE  HBReaches(h, X, Z)
<1>1. PICK c : IsBack(c, h.arcs, Z, Z) /\ (HBReaches(h, X, Z) <=> X \in c[Z])
  BY ReachesBack
<1>2. 1 \in 1..Z /\ 1 \in 0..Z /\ 1 - 1 = 0 /\ Y + 1 <= Z
  OBVIOUS
<1>3. c[1] = Before(h.arcs, c[0]) /\ c[0] = {Z}
  <2>1. c[0] = {Z} /\ \A n \in 1..Z : c[n] = Before(h.arcs, c[n - 1])
    BY <1>1, BackValues
  <2>2. c[1] = Before(h.arcs, c[1 - 1])
    BY <1>2, <2>1
  <2> QED BY <1>2, <2>1, <2>2
<1>4. Y \in c[1]
  BY <1>3 DEF Before
<1>5. CASE X = Y
  <2>1. c[1] \subseteq c[Z]
    BY <1>1, <1>2, BackGrows
  <2> QED BY <1>1, <1>4, <1>5, <2>1
<1>6. CASE HBReaches(h, X, Y)
  <2>1. PICK b : IsBack(b, h.arcs, Y, Y) /\ (HBReaches(h, X, Y) <=> X \in b[Y])
    BY ReachesBack
  <2>2. 1 \in {0, 1}
    OBVIOUS
  <2>3. b[Y] \subseteq c[Z]
    BY <1>1, <1>2, <1>4, <2>1, <2>2, BackLonger
  <2> QED BY <1>1, <1>6, <2>1, <2>3
<1> QED BY <1>5, <1>6

\* Every id is ordered after itself, in the sense of HBReaches.
LEMMA ReachesItself ==
    ASSUME NEW h, NEW Y \in Nat
    PROVE  HBReaches(h, Y, Y)
<1>1. PICK b : IsBack(b, h.arcs, Y, Y) /\ (HBReaches(h, Y, Y) <=> Y \in b[Y])
  BY ReachesBack
<1>2. b[0] = {Y} /\ 0 \in 0..Y
  BY <1>1, BackValues
<1>3. b[0] \subseteq b[Y]
  BY <1>1, <1>2, BackGrows
<1> QED BY <1>1, <1>2, <1>3

\* The arc that entering a user interface action adds
LEMMA EnteredArc ==
    ASSUME NEW h, HBBounded(h), HBSound(h), NEW id \in 1..(h.nextId - 1), NEW isUI \in BOOLEAN,
           h.lastUI < id
    PROVE  LET g == HBEnterEventAction(h, id, isUI)
           IN  /\ h.arcs \subseteq g.arcs /\ g.lastUI = (IF isUI THEN id ELSE h.lastUI)
               /\ isUI /\ h.lastUI # 0 => <<h.lastUI, id>> \in g.arcs
<1> DEFINE n == [h EXCEPT !.current = id, !.logOpen = TRUE]
           c == IF h.lastUI = 0 THEN n ELSE AddArc(n, h.lastUI, id)
           u == [c EXCEPT !.lastUI = id]
           g == HBEnterEventAction(h, id, isUI)
<1>1. /\ h \in HBRecords /\ h.nextId \in Nat \ {0} /\ h.lastUI \in Nat /\ id \in Nat
      /\ id < h.nextId /\ h.lastUI < h.nextId
  BY DEF HBBounded, HBRecords
<1>2. /\ n \in HBRecords /\ n.nextId = h.nextId /\ n.current = id /\ n.last = h.last
      /\ n.lastUI = h.lastUI /\ n.seen = h.seen /\ n.arcs = h.arcs /\ n.crashed = h.crashed
  BY <1>1 DEF HBRecords
<1>3. g = IF isUI THEN u ELSE n
  BY DEF HBEnterEventAction
<1> HIDE DEF n, g
<1>4. HBBounded(n) /\ HBSound(n)
  BY <1>1, <1>2 DEF HBBounded, HBSound
<1>5. /\ HBBounded(c) /\ h.arcs \subseteq c.arcs
      /\ h.lastUI # 0 => <<h.lastUI, id>> \in c.arcs
  <2>1. CASE h.lastUI = 0
    BY <1>2, <1>4, <2>1
  <2>2. CASE h.lastUI # 0
    <3>1. h.lastUI \in 1..(n.nextId - 1) /\ id \in 1..(n.nextId - 1)
      BY <1>1, <1>2, <2>2
    <3>2. c = AddArc(n, h.lastUI, id)
      BY <2>2
    <3> HIDE DEF c
    <3> QED BY <1>2, <1>4, <3>1, <3>2, ArcAdded
  <2> QED BY <2>1, <2>2
<1> HIDE DEF c
<1>6. u.lastUI = id /\ u.arcs = c.arcs
  BY <1>1, <1>5 DEF HBRecords, HBBounded
<1> HIDE DEF u
<1> QED BY <1>2, <1>3, <1>5, <1>6 DEF g

\* UserActionsOrdered for the bookkeeping h and the history H; the last user interface
\* action comes after all those of the history.
Chained(h, H) ==
    /\ \A j, k \in 1..Len(H) :
         (j < k /\ H[j].descriptor.ui /\ H[k].descriptor.ui)
         => HBReaches(h, H[j].id, H[k].id)
    /\ \A k \in 1..Len(H) : H[k].descriptor.ui =>
         h.lastUI # 0 /\ (H[k].id = h.lastUI \/ HBReaches(h, H[k].id, h.lastUI))

\* Arcs are added, but no user interface action.
LEMMA ChainedLater ==
    ASSUME NEW h, NEW g, NEW H \in Seq(Entries), Chained(h, H), h.lastUI \in Nat,
           h.arcs \subseteq g.arcs, g.lastUI = h.lastUI
    PROVE  Chained(g, H)
<1>1. \A k \in 1..Len(H) : H[k].id \in Nat
  <2>1. \A k \in 1..Len(H) : H[k] \in Entries
    BY ElementOfSeq
  <2> QED BY <2>1 DEF Entries
<1>2. \A X : \A Y \in Nat : HBReaches(h, X, Y) => HBReaches(g, X, Y)
  BY ReachesLater
<1> QED BY <1>1, <1>2 DEF Chained

\* An event action is entered and added to the history.
LEMMA ChainedEnter ==
    ASSUME NEW h, HBBounded(h), HBSound(h), NEW id \in 1..(h.nextId - 1), h.lastUI < id,
           NEW isUI \in BOOLEAN, NEW e \in Entries, e.id = id, e.descriptor.ui => isUI,
           NEW H \in Seq(Entries), Chained(h, H)
    PROVE  Chained(HBEnterEventAction(h, id, isUI), Append(H, e))
<1> DEFINE g == HBEnterEventAction(h, id, isUI)
           G == Append(H, e)
           n == Len(H)
<1>1. /\ h.arcs \subseteq g.arcs /\ g.lastUI = (IF isUI THEN id ELSE h.lastUI)
      /\ isUI /\ h.lastUI # 0 => <<h.lastUI, id>> \in g.arcs
  BY EnteredArc
<1>2. h.lastUI \in Nat /\ h.nextId \in Nat
  BY DEF HBBounded, HBRecords
<1>3. id \in Nat \ {0}
  BY <1>2
<1> HIDE DEF g
<1>4. n \in Nat /\ Len(G) = n + 1 /\ G[n + 1] = e /\ \A k \in 1..n : G[k] = H[k]
  BY LenProperties, AppendProperties
<1>5. \A k \in 1..n : H[k].id \in Nat
  <2>1. \A k \in 1..n : H[k] \in Entries
    BY ElementOfSeq
  <2> QED BY <2>1 DEF Entries
<1> HIDE DEF G, n
<1>6. \A X : \A Y \in Nat : HBReaches(h, X, Y) => HBReaches(g, X, Y)
  BY <1>1, ReachesLater
<1>7. ASSUME NEW k \in 1..n, H[k].descriptor.ui, isUI
      PROVE  HBReaches(g, H[k].id, id)
  <2>1. h.lastUI # 0 /\ (H[k].id = h.lastUI \/ HBReaches(h, H[k].id, h.lastUI))
    BY <1>7 DEF Chained, n
  <2>2. H[k].id = h.lastUI \/ HBReaches(g, H[k].id, h.lastUI)
    BY <1>2, <1>6, <2>1
  <2>3. <<h.lastUI, id>> \in g.arcs
    BY <1>1, <1>7, <2>1
  <2> QED BY <1>2, <1>3, <2>2, <2>3, ReachesOver
<1>8. \A k \in 1..Len(G) : k = n + 1 \/ k \in 1..n
  BY <1>4
<1>9. ASSUME NEW j \in 1..Len(G), NEW k \in 1..Len(G), j < k, G[j].descriptor.ui,
             G[k].descriptor.ui
      PROVE  HBReaches(g, G[j].id, G[k].id)
  <2>1. j \in 1..n
    BY <1>4, <1>9
  <2>2. CASE k = n + 1
    BY <1>4, <1>7, <1>9, <2>1, <2>2
  <2>3. CASE k \in 1..n
    <3>1. HBReaches(h, H[j].id, H[k].id)
      BY <1>4, <1>9, <2>1, <2>3 DEF Chained, n
    <3> QED BY <1>4, <1>5, <1>6, <2>1, <2>3, <3>1
  <2> QED BY <1>8, <2>2, <2>3
<1>10. ASSUME NEW k \in 1..Len(G), G[k].descriptor.ui
       PROVE  g.lastUI # 0 /\ (G[k].id = g.lastUI \/ HBReaches(g, G[k].id, g.lastUI))
  <2>1. CASE k = n + 1
    BY <1>1, <1>3, <1>4, <1>10, <2>1
  <2>2. CASE k \in 1..n
    <3>1. H[k].descriptor.ui /\ G[k] = H[k]
      BY <1>4, <1>10, <2>2
    <3>2. CASE isUI
      BY <1>1, <1>3, <1>7, <2>2, <3>1, <3>2
    <3>3. CASE ~isUI
      <4>1. h.lastUI # 0 /\ (H[k].id = h.lastUI \/ HBReaches(h, H[k].id, h.lastUI))
        BY <2>2, <3>1 DEF Chained, n
      <4> QED BY <1>1, <1>2, <1>6, <3>1, <3>3, <4>1
    <3> QED BY <3>2, <3>3
  <2> QED BY <1>8, <2>1, <2>2
<1>11. Chained(g, G)
  BY <1>9, <1>10 DEF Chained
<1> QED BY <1>11 DEF g, G

\* Leaving an event action and allocating an id change no arc.
LEMMA ArcsStay ==
    ASSUME NEW h, HBBounded(h), NEW commit \in BOOLEAN, NEW on \in BOOLEAN
    PROVE  /\ HBExitEventAction(h, commit).arcs = h.arcs
           /\ HBExitEventAction(h, commit).lastUI = h.lastUI
           /\ TakePreallocated(h).arcs = h.arcs /\ TakePreallocated(h).lastUI = h.lastUI
           /\ ActionLogStrictMode(h, on).arcs = h.arcs
           /\ ActionLogStrictMode(h, on).lastUI = h.lastUI
           /\ GhostEntered(h).arcs = h.arcs /\ GhostEntered(h).lastUI = h.lastUI
<1>1. h \in HBRecords
  BY DEF HBBounded
<1>2. HBExitEventAction(h, commit).arcs = h.arcs /\ HBExitEventAction(h, commit).lastUI = h.lastUI
  BY <1>1 DEF HBExitEventAction, Crash, HBRecords
<1>3. TakePreallocated(h).arcs = h.arcs /\ TakePreallocated(h).lastUI = h.lastUI
  BY <1>1 DEF TakePreallocated, HBAllocateEventActionId, HBRecords
<1>4. ActionLogStrictMode(h, on).arcs = h.arcs /\ ActionLogStrictMode(h, on).lastUI = h.lastUI
  BY <1>1 DEF ActionLogStrictMode, HBRecords
<1>5. GhostEntered(h).arcs = h.arcs /\ GhostEntered(h).lastUI = h.lastUI
  BY <1>1 DEF GhostEntered, HBEnterEventAction, ActionLogStrictMode,
              HBAllocateEventActionId, HBRecords
<1> QED BY <1>2, <1>3, <1>4, <1>5

\* A dispatch that starts from the idle state
LEMMA ChainedAttempt ==
    ASSUME FullInv, Alive, Kind(calls) = "idle", Chained(hb, reg.history), NEW d \in Descriptors,
           NEW o \in OriginalIds \cup {-1}, NEW i, Attempt(d, o, i, hb, reg, calls)
    PROVE  Chained(hb', reg'.history)
<1>1. CASE hb' = hb /\ reg' = reg
  BY <1>1
<1>2. CASE /\ reg' = DispatchStart(reg, DispatchId(hb), o, d)
           /\ hb' = HBEnterEventAction(AfterDispatchId(hb), DispatchId(hb), d.ui)
  <2> DEFINE id == DispatchId(hb)
             a == AfterDispatchId(hb)
             H == reg.history
             e == [id |-> id, descriptor |-> d, original |-> o]
  <2>1. /\ Sound(hb, "idle", preId) /\ HBBounded(hb) /\ preId \in 0..(hb.nextId - 1)
        /\ Preallocate => preId > 0
        /\ RegFits(hb, reg, calls, preId) /\ HBSound(hb)
    BY SoundNow DEF FullInv
  <2>2. H \in Seq(Entries) /\ Registry(reg)
    BY <2>1 DEF RegFits, Translated
  <2>3. /\ Limit(hb, "idle", preId) \in Nat /\ Limit(hb, "idle", preId) < hb.nextId
        /\ hb.lastUI \in Nat /\ hb.nextId \in Nat \ {0} /\ preId \in Nat
    BY <2>1, LimitNumber
  <2>4. hb.lastUI <= Limit(hb, "idle", preId) /\ "idle" \notin Opens
    BY <2>1 DEF Sound, Opens
  <2>5. hb.lastUI < id
    BY <2>1, <2>3, <2>4 DEF DispatchId, Limit
  <2>6. /\ HBBounded(a) /\ HBSound(a) /\ id \in 1..(a.nextId - 1) /\ a.lastUI = hb.lastUI
        /\ a.arcs = hb.arcs
    <3>1. CASE Preallocate
      BY <2>1, <2>3, <3>1 DEF AfterDispatchId, DispatchId
    <3>2. CASE ~Preallocate
      <4>1. a = HBAllocateEventActionId(hb) /\ id = hb.nextId
        BY <3>2 DEF AfterDispatchId, DispatchId
      <4> HIDE DEF a, id
      <4>2. /\ HBBounded(a) /\ HBSound(a) /\ a.nextId = hb.nextId + 1
            /\ a.lastUI = hb.lastUI /\ a.arcs = hb.arcs
        BY <2>1, <4>1, Allocated
      <4>3. id \in 1..(a.nextId - 1)
        BY <2>3, <4>1, <4>2
      <4> QED BY <4>2, <4>3
    <3> QED BY <3>1, <3>2
  <2>7. reg'.history = Append(H, e)
    BY <1>2, <2>2 DEF DispatchStart, Registry
  <2>8. d.ui \in BOOLEAN
    BY RegisterAssumption
  <2> HIDE DEF a, id, H
  <2>9. a.nextId \in Nat
    BY <2>6 DEF HBBounded, HBRecords
  <2>10. e \in Entries /\ e.id = id /\ e.descriptor = d
    BY <2>6, <2>9 DEF Entries
  <2> HIDE DEF e
  <2>11. a.lastUI < id
    BY <2>5, <2>6
  <2>12. Chained(a, H)
    BY <2>2, <2>3, <2>6, ChainedLater DEF H
  <2>13. Chained(HBEnterEventAction(a, id, d.ui), Append(H, e))
    BY <2>2, <2>6, <2>8, <2>10, <2>11, <2>12, ChainedEnter DEF H
  <2> QED BY <1>2, <2>7, <2>13 DEF a, id
<1> QED BY <1>1, <1>2 DEF Attempt

\* Every step of the register keeps the chain.
LEMMA ChainKeeps ==
    ASSUME ~NestedLoops, FullInv, Chained(hb, reg.history), [RegisterNext]_registerVars
    PROVE  Chained(hb', reg'.history)
<1> DEFINE H == reg.history
<1>1. RegisterInv /\ SoundInv
  BY DEF FullInv
<1>2. HBBounded(hb) /\ H \in Seq(Entries) /\ Registry(reg) /\ hb.lastUI \in Nat
  BY <1>1 DEF RegisterInv, RegShape, Translated, HBBounded, HBRecords
<1>3. ASSUME reg'.history = H, hb.arcs \subseteq hb'.arcs, hb'.lastUI = hb.lastUI
      PROVE  Chained(hb', reg'.history)
  <2> HIDE DEF H
  <2> QED BY <1>2, <1>3, ChainedLater DEF H
<1>4. CASE UNCHANGED <<hb, reg>>
  BY <1>3, <1>4
<1>5. ASSUME NEW d \in Descriptors,
             \/ \E object \in Objects : RegisterEventActionHandler(d, object)
             \/ DeregisterEventActionHandler(d)
      PROVE  Chained(hb', reg'.history)
  <2>1. hb' = hb
    BY <1>5 DEF RegisterEventActionHandler, DeregisterEventActionHandler
  <2>2. reg'.history = H
    BY <1>2, <1>5 DEF RegisterEventActionHandler, DeregisterEventActionHandler, AddHandler,
                      EraseKey, Registry
  <2> QED BY <1>3, <2>1, <2>2
<1>6. ASSUME NEW d \in Descriptors, \E o \in OriginalIdsPassed : RunEventAction(d, o)
      PROVE  Chained(hb', reg'.history)
  <2>1. PICK o \in OriginalIdsPassed : RunEventAction(d, o)
    BY <1>6
  <2>2. Alive /\ calls = <<>> /\ Attempt(d, o, FirstProvider(d), hb, reg, calls)
    BY <2>1 DEF RunEventAction, InEventLoop, Idle
  <2>3. Kind(calls) = "idle" /\ o \in OriginalIds \cup {-1}
    BY <2>2, KindOf, PassedIsFresh
  <2> QED BY <2>2, <2>3, ChainedAttempt
<1>7. CASE HandlerReturns
  <2> DEFINE f == Last(calls)
             left == HBExitEventAction(hb, TRUE)
  <2>1. CASE f.dangling
    BY <1>4, <1>7, <2>1 DEF HandlerReturns
  <2>2. CASE ~f.dangling
    <3>1. /\ reg' = DispatchEnd(PopHandler(reg, f.descriptor), TRUE, f.original)
          /\ hb' = TakePreallocated(left)
      BY <1>7, <2>2 DEF HandlerReturns
    <3>2. HBBounded(left) /\ left.arcs = hb.arcs /\ left.lastUI = hb.lastUI
      BY <1>2, Left, ArcsStay
    <3> HIDE DEF left
    <3>3. hb'.arcs = hb.arcs /\ hb'.lastUI = hb.lastUI
      BY <3>1, <3>2, ArcsStay
    <3>4. reg'.history = H
      BY <1>2, <3>1 DEF DispatchEnd, PopHandler, EraseKey, Registry
    <3> QED BY <1>3, <3>3, <3>4
  <2> QED BY <2>1, <2>2
<1>8. ASSUME NEW d \in Descriptors, EnterImmediateEventAction(d)
      PROVE  Chained(hb', reg'.history)
  <2> DEFINE a == HBAllocateEventActionId(hb)
             id == hb.nextId
             e == [id |-> id, descriptor |-> d, original |-> -1]
  <2>1. /\ Alive /\ reg' = DispatchStart(reg, id, -1, d) /\ hb' = HBEnterEventAction(a, id, TRUE)
    BY <1>8 DEF EnterImmediateEventAction
  <2>2. HBSound(hb) /\ hb.nextId \in Nat \ {0} /\ hb.lastUI < hb.nextId
    BY <1>1, <1>2 DEF SoundInv, HBBounded, HBRecords
  <2>3. /\ HBBounded(a) /\ HBSound(a) /\ a.nextId = hb.nextId + 1 /\ a.lastUI = hb.lastUI
        /\ a.arcs = hb.arcs
    BY <1>2, <2>2, Allocated
  <2>4. reg'.history = Append(H, e)
    BY <1>2, <2>1 DEF DispatchStart, Registry
  <2> HIDE DEF a, id, H
  <2>5. id \in 1..(a.nextId - 1) /\ a.lastUI < id
    BY <2>2, <2>3 DEF id
  <2>6. e \in Entries /\ e.id = id
    BY <2>2 DEF Entries, id
  <2> HIDE DEF e
  <2>7. Chained(a, H)
    BY <1>2, <2>3, ChainedLater DEF H
  <2>8. TRUE \in BOOLEAN
    OBVIOUS
  <2>9. Chained(HBEnterEventAction(a, id, TRUE), Append(H, e))
    BY <1>2, <2>3, <2>5, <2>6, <2>7, <2>8, ChainedEnter
  <2> QED BY <2>1, <2>4, <2>9
<1>9. CASE ExitImmediateEventAction
  <2>1. reg' = DispatchEnd(reg, TRUE, -1) /\ hb' = HBExitEventAction(hb, TRUE)
    BY <1>9 DEF ExitImmediateEventAction
  <2>2. reg'.history = H
    BY <1>2, <2>1 DEF DispatchEnd, Registry
  <2>3. hb'.arcs = hb.arcs /\ hb'.lastUI = hb.lastUI
    BY <1>2, <2>1, ArcsStay
  <2> QED BY <1>3, <2>2, <2>3
<1>10. CASE GhostNext
  <2>1. reg' = reg
    BY <1>10 DEF GhostNext, EnterGhostEventAction, ExitGhostEventAction, FrameGhostLeftOpen
  <2>2. hb' = GhostEntered(hb) \/ hb' = HBExitEventAction(ActionLogStrictMode(hb, TRUE), TRUE)
    BY <1>10 DEF GhostNext, EnterGhostEventAction, ExitGhostEventAction, FrameGhostLeftOpen
  <2> DEFINE m == ActionLogStrictMode(hb, TRUE)
  <2>3. HBBounded(m) /\ m.arcs = hb.arcs /\ m.lastUI = hb.lastUI
    BY <1>2, StrictModeSet, ArcsStay
  <2>4. GhostEntered(hb).arcs = hb.arcs /\ GhostEntered(hb).lastUI = hb.lastUI
    BY <1>2, ArcsStay
  <2> HIDE DEF m
  <2>5. HBExitEventAction(m, TRUE).arcs = hb.arcs /\ HBExitEventAction(m, TRUE).lastUI = hb.lastUI
    BY <2>3, ArcsStay
  <2>6. hb'.arcs = hb.arcs /\ hb'.lastUI = hb.lastUI
    BY <2>2, <2>4, <2>5 DEF m
  <2> QED BY <1>3, <2>1, <2>6
<1>11. CASE JoinNext
  <2>1. PICK j \in Joins : ThreadEndAction(j) \/ JoinAction(j) \/ ClearJoin(j)
    BY <1>11 DEF JoinNext
  <2>2. reg' = reg
    BY <2>1 DEF ThreadEndAction, JoinAction, ClearJoin
  <2>3. hb.arcs \subseteq hb'.arcs /\ hb'.lastUI = hb.lastUI
    <3>1. hb \in HBRecords
      BY <1>2 DEF HBBounded
    <3>2. CASE ThreadEndAction(j) \/ ClearJoin(j)
      BY <3>1, <3>2 DEF ThreadEndAction, ClearJoin, HBCurrentEventAction, Crash, HBRecords
    <3>3. CASE JoinAction(j)
      BY <3>1, <3>3 DEF JoinAction, JoinArcs, Crash, HBRecords
    <3> QED BY <2>1, <3>2, <3>3
  <2> QED BY <1>3, <2>2, <2>3
<1>12. CASE CallHandler \/ UNCHANGED registerVars
  BY <1>4, <1>12 DEF CallHandler, registerVars
<1> QED BY <1>5, <1>6, <1>7, <1>8, <1>9, <1>10, <1>11, <1>12 DEF RegisterNext

\* The user interface actions of the history are totally ordered by the log: each has an
\* arc from the one before it, and no arc of the chain is dropped.
THEOREM UserActionsChained ==
    ASSUME ~NestedLoops
    PROVE  RegisterSpec => []UserActionsOrdered
<1> DEFINE Inv == FullInv /\ Chained(hb, reg.history)
<1>1. RegisterInit => Inv
  <2>1. RegisterInit => reg.history = <<>>
    BY DEF RegisterInit
  <2>2. RegisterInit => Chained(hb, reg.history)
    BY <2>1 DEF Chained
  <2> QED BY <2>2, FullInvInitially
<1>2. Inv /\ [RegisterNext]_registerVars => Inv'
  BY RegisterKeeps, ChainKeeps
<1>3. Inv => UserActionsOrdered
  BY DEF Chained, UserActionsOrdered
<1> QED BY <1>1, <1>2, <1>3, PTL DEF RegisterSpec

\* An action that joins threads is ordered after all the actions in which they ended.
THEOREM JoinsAfterThreads ==
    ASSUME ~NestedLoops
    PROVE  RegisterSpec => JoinsOrdered
<1> DEFINE Step == \A j \in Joins :
         JoinAction(j) => \A e \in joins[j] : HBReaches(hb', e, hb.current)
<1>1. FullInv /\ [RegisterNext]_registerVars => [Step]_registerVars
  <2> SUFFICES ASSUME FullInv, NEW j \in Joins, JoinAction(j), NEW e \in joins[j]
               PROVE  HBReaches(hb', e, hb.current)
    OBVIOUS
  <2> DEFINE c == hb.current
             new == {<<x, c>> : x \in joins[j] \ {c}} \ hb.seen
             g == [hb EXCEPT !.seen = @ \cup new, !.arcs = @ \cup {a \in new : a[2] > a[1]}]
  <2>1. Alive /\ InPageCode /\ hb' = JoinArcs(hb, joins[j])
    BY DEF JoinAction
  <2>2. c # 0 /\ c = Newest
    BY <2>1, PageCodeIsNewest DEF FullInv
  <2>3. HBBounded(hb) /\ HBSound(hb) /\ Newest \in Nat
    BY <2>1, SoundNow DEF FullInv
  <2>4. joins[j] \subseteq 1..(hb.nextId - 1) /\ hb.nextId \in Nat /\ hb \in HBRecords
    BY <2>3 DEF FullInv, RegisterInv, JoinsFit, HBBounded, HBRecords
  <2>5. \A x \in joins[j] : x \in Nat /\ x > 0 /\ x <= c
    BY <2>1, <2>2, <2>4 DEF FullInv, JoinsBelow, Alive
  <2> HIDE DEF c
  <2>6. {a \in new : a[2] <= a[1] \/ a[1] <= 0} = {}
    BY <2>2, <2>3, <2>5
  <2>7. hb' = g
    BY <2>1, <2>2, <2>6 DEF JoinArcs, c
  <2>8. g.arcs = hb.arcs \cup {a \in new : a[2] > a[1]}
    BY <2>4 DEF HBRecords
  <2>9. CASE e = c
    BY <2>2, <2>3, <2>9, ReachesItself DEF c
  <2>10. CASE e # c
    <3>1. e < c /\ e \in Nat /\ c \in Nat
      BY <2>2, <2>3, <2>5, <2>10
    <3>2. <<e, c>> \in g.arcs
      <4>1. <<e, c>> \in hb.seen \/ <<e, c>> \in new
        BY <2>10
      <4> QED BY <2>3, <2>8, <3>1, <4>1 DEF HBSound
    <3>3. HBReaches(g, e, c)
      BY <3>1, <3>2, ReachesOver
    <3> QED BY <2>7, <3>3 DEF c
  <2> QED BY <2>9, <2>10
<1>2. RegisterInit => FullInv
  BY FullInvInitially
<1>3. FullInv /\ [RegisterNext]_registerVars => FullInv'
  BY RegisterKeeps
<1>4. JoinsOrdered <=> [][Step]_registerVars
  BY DEF JoinsOrdered
<1> QED BY <1>1, <1>2, <1>3, <1>4, PTL DEF RegisterSpec

=============================================================================
