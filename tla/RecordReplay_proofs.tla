------------------------ MODULE RecordReplay_proofs ------------------------
(***************************************************************************)
(* Proofs about recording and replaying the inputs of a page.              *)
(*                                                                         *)
(* First the queues of the replies, in every mode (NetInv).  Then what     *)
(* tells replies apart, and the chain of their event actions, as long as   *)
(* the process is compared with the recording (OrderInv).  Last the        *)
(* replay: it is in the state the recording was in at the same place of    *)
(* its script (PlayInv).                                                   *)
(***************************************************************************)
EXTENDS RecordReplay, FiniteSetTheorems, WellFoundedInduction, TLAPS

-----------------------------------------------------------------------------
(* Types. *)

Snapshot == [signal : {"READY_READ", "FINISHED"}, size : Nat]

Base == [url : Urls, num : Nat, pos : Nat, entries : Seq(Snapshot)]

Descriptor == [type : {"Network", "Page", "none"}, url : Urls \cup {"none"}, num : Nat, seq : Nat]

Reply == [url : Urls, base : Nat, num : Nat, queue : Seq(Snapshot), seq : Nat,
          waiting : Descriptor, size : Nat, open : BOOLEAN, live : BOOLEAN,
          last : Nat, creator : Nat]

NetType ==
    /\ bases \in Seq(Base)
    /\ replies \in Seq(Reply)
    /\ store \in [Urls -> SUBSET Nat]
    /\ nextNum \in [Urls -> Nat]
    /\ jar \subseteq Nat
    /\ chain \subseteq Nat \X Nat

-----------------------------------------------------------------------------
(* The queue of a reply holds what is not released of its base. *)

\* What a recorded reply can be: it grows, and its end is its last signal.
EntriesOK(e) ==
    /\ Len(e) <= FinalNumber
    /\ Len(e) <= MaxSignals \/ e[Len(e)].signal = "FINISHED"
    /\ \A i, j \in 1..Len(e) : i <= j => e[i].size <= e[j].size
    /\ \A i \in 1..Len(e) : i < Len(e) => e[i].signal # "FINISHED"

Released(reply, e) == Len(e) - Len(reply.queue)

SizeAt(e, n) == IF n = 0 THEN 0 ELSE e[n].size

\* The event action that releases the k-th signal.
Signal(u, num, e, k) == Network(u, num, IF e[k].signal = "FINISHED" THEN FinalNumber ELSE k - 1)

QueueOK(reply, e) ==
    /\ Len(reply.queue) <= Len(e)
    /\ \A k \in 1..Len(reply.queue) : reply.queue[k] = e[Released(reply, e) + k]
    /\ reply.size = SizeAt(e, Released(reply, e))

\* The numbers of the signals follow the queue.
NumberOK(reply, e) ==
    LET n == Released(reply, e)
    IN  IF reply.queue # <<>>
        THEN /\ reply.waiting = Signal(reply.url, reply.num, e, n + 1)
             /\ reply.seq = IF e[n + 1].signal = "FINISHED" THEN n ELSE n + 1
        ELSE /\ reply.waiting = None
             /\ (n = 0 \/ e[n].signal # "FINISHED") => reply.seq = n

ReplyOK(reply, base) ==
    /\ base.pos <= reply.size
    /\ reply.open => QueueOK(reply, base.entries) /\ NumberOK(reply, base.entries)
    /\ ~reply.open => reply.queue = <<>> /\ reply.waiting = None

NetInv ==
    /\ NetType
    /\ \A b \in DOMAIN bases : EntriesOK(bases[b].entries)
    /\ \A r \in DOMAIN replies :
         /\ replies[r].base \in DOMAIN bases
         /\ ReplyOK(replies[r], bases[replies[r].base])
         /\ \A u \in Urls : replies[r].base \notin store[u]
    /\ \A r, s \in DOMAIN replies : replies[r].base = replies[s].base => r = s
    /\ \A u \in Urls : \A b \in store[u] :
         b \in DOMAIN bases /\ bases[b].url = u /\ bases[b].pos = 0

\* A descriptor of a signal is not the empty one.
LEMMA SignalNotNone ==
    ASSUME NEW u, NEW n, NEW s
    PROVE  Network(u, n, s) # None
BY DEF Network, None

\* ULONG_MAX as a number.
LEMMA FinalType == FinalNumber \in Nat /\ MaxSignals \in Nat /\ FinalNumber = MaxSignals + 1
BY NetworkAssumption DEF FinalNumber

\* The names of signals are descriptors.
LEMMA SignalType ==
    ASSUME NEW u \in Urls, NEW num \in Nat, NEW s \in Nat
    PROVE  Network(u, num, s) \in Descriptor
BY DEF Network, Descriptor

\* None is a descriptor.
LEMMA NoneType == None \in Descriptor
BY DEF Descriptor, None

\* The first element of a sequence.
LEMMA HeadIsFirst ==
    ASSUME NEW S, NEW q \in Seq(S), q # <<>>
    PROVE  /\ Len(q) \in Nat /\ Len(q) > 0 /\ Head(q) = q[1] /\ Head(q) \in S
           /\ Tail(q) \in Seq(S) /\ Len(Tail(q)) = Len(q) - 1
           /\ \A k \in 1..Len(q) - 1 : Tail(q)[k] = q[k + 1]
OBVIOUS

\* scheduleNextSnapshotUpdate gives the first signal of the queue its number, when the
\* count of signals is right.
LEMMA ScheduleOK ==
    ASSUME NEW reply \in Reply, NEW e \in Seq(Snapshot), EntriesOK(e),
           reply.waiting = None, QueueOK(reply, e), NEW n, n = Released(reply, e),
           (n = 0 \/ e[n].signal # "FINISHED") => reply.seq = n
    PROVE  LET s == scheduleNextSnapshotUpdate(reply)
           IN  /\ s \in Reply
               /\ QueueOK(s, e) /\ NumberOK(s, e)
               /\ s = [reply EXCEPT !.waiting = s.waiting, !.seq = s.seq]
<1> DEFINE s == scheduleNextSnapshotUpdate(reply)
<1>1. /\ reply.queue \in Seq(Snapshot) /\ Len(reply.queue) \in Nat /\ Len(e) \in Nat
      /\ n \in Nat /\ n + Len(reply.queue) = Len(e)
  BY DEF Reply, QueueOK, Released
<1>2. CASE reply.queue = <<>>
  <2>1. s = reply
    BY <1>2 DEF scheduleNextSnapshotUpdate
  <2>2. s = [reply EXCEPT !.waiting = s.waiting, !.seq = s.seq]
    BY <2>1 DEF Reply
  <2>3. NumberOK(s, e)
    BY <2>1, <1>2 DEF NumberOK
  <2> QED BY <2>1, <2>2, <2>3
<1>3. CASE reply.queue # <<>>
  <2>1. Len(reply.queue) > 0 /\ Head(reply.queue) = reply.queue[1]
    BY <1>1, <1>3, HeadIsFirst
  <2>2. n + 1 \in 1..Len(e) /\ Head(reply.queue) = e[n + 1]
    BY <1>1, <2>1 DEF QueueOK
  <2>3. n = 0 \/ (n \in 1..Len(e) /\ n < Len(e))
    BY <1>1, <2>1, SMTT(60)
  <2>4. reply.seq = n
    BY <2>3 DEF EntriesOK
  <2> DEFINE last == e[n + 1].signal = "FINISHED"
             w == Network(reply.url, reply.num, IF last THEN FinalNumber ELSE n)
             q == IF last THEN n ELSE n + 1
  <2>5. s = [reply EXCEPT !.waiting = w, !.seq = q]
    BY <1>3, <2>2, <2>4 DEF scheduleNextSnapshotUpdate
  <2>6. w \in Descriptor /\ q \in Nat
    <3>1. (IF last THEN FinalNumber ELSE n) \in Nat /\ q \in Nat
      BY <1>1, FinalType
    <3>2. reply.url \in Urls /\ reply.num \in Nat
      BY DEF Reply
    <3> QED BY <3>1, <3>2, SignalType
  <2> HIDE DEF w, q
  <2>7. /\ s \in Reply /\ s.waiting = w /\ s.seq = q /\ s.queue = reply.queue
        /\ s.size = reply.size /\ s.url = reply.url /\ s.num = reply.num
    BY <2>5, <2>6 DEF Reply
  <2>8. Released(s, e) = n
    BY <2>7 DEF Released
  <2>9. QueueOK(s, e)
    BY <2>7, <2>8 DEF QueueOK
  <2>10. w = Signal(s.url, s.num, e, n + 1)
    BY <2>7, <1>1 DEF Signal, w
  <2>11. NumberOK(s, e)
    BY <2>7, <2>8, <2>10, <1>3 DEF NumberOK, q
  <2>12. s = [reply EXCEPT !.waiting = s.waiting, !.seq = s.seq]
    BY <2>5, <2>7
  <2> QED BY <2>7, <2>9, <2>11, <2>12
<1> QED BY <1>2, <1>3

-----------------------------------------------------------------------------
(* Every operation of the network keeps NetInv. *)

\* An operation that changes one reply and its base.
LEMMA OneReplyChanged ==
    ASSUME NetInv, NEW r \in DOMAIN replies, NEW new \in Reply, NEW base \in Base,
           new.base = replies[r].base, base.url = bases[replies[r].base].url,
           EntriesOK(base.entries), ReplyOK(new, base),
           bases' = [bases EXCEPT ![replies[r].base] = base],
           replies' = [replies EXCEPT ![r] = new],
           UNCHANGED <<store, nextNum>>, jar' \subseteq Nat, chain' \subseteq Nat \X Nat
    PROVE  NetInv'
<1> DEFINE b == replies[r].base
<1>1. NetType /\ b \in DOMAIN bases /\ r \in 1..Len(replies) /\ b \in 1..Len(bases)
  BY DEF NetInv, NetType
<1>2. /\ bases' \in Seq(Base) /\ replies' \in Seq(Reply)
      /\ DOMAIN bases' = DOMAIN bases /\ DOMAIN replies' = DOMAIN replies
  BY <1>1 DEF NetType
<1>3. NetType'
  BY <1>1, <1>2 DEF NetType
<1>4. /\ \A c \in DOMAIN bases : c # b => bases'[c] = bases[c]
      /\ bases'[b] = base
      /\ \A s \in DOMAIN replies : s # r => replies'[s] = replies[s]
      /\ replies'[r] = new
  BY <1>1 DEF NetType
<1>5. /\ \A c \in DOMAIN bases : bases'[c].url = bases[c].url
      /\ \A s \in DOMAIN replies : replies'[s].base = replies[s].base
  BY <1>4
<1>6. \A c \in DOMAIN bases' : EntriesOK(bases'[c].entries)
  BY <1>2, <1>4 DEF NetInv
<1>7. ASSUME NEW s \in DOMAIN replies'
      PROVE  ReplyOK(replies'[s], bases'[replies'[s].base])
  <2>1. CASE s = r
    BY <2>1, <1>4, <1>5
  <2>2. CASE s # r
    <3>1. s \in DOMAIN replies /\ replies[s].base # b /\ replies[s].base \in DOMAIN bases
      BY <2>2, <1>2 DEF NetInv
    <3> QED BY <3>1, <2>2, <1>4 DEF NetInv
  <2> QED BY <2>1, <2>2
<1>8. \A s \in DOMAIN replies' :
        /\ replies'[s].base \in DOMAIN bases'
        /\ \A u \in Urls : replies'[s].base \notin store'[u]
  BY <1>2, <1>5 DEF NetInv
<1>9. \A s, t \in DOMAIN replies' : replies'[s].base = replies'[t].base => s = t
  BY <1>2, <1>5 DEF NetInv
<1>10. ASSUME NEW u \in Urls, NEW c \in store'[u]
       PROVE  c \in DOMAIN bases' /\ bases'[c].url = u /\ bases'[c].pos = 0
  <2>1. c \in store[u] /\ c # b
    BY DEF NetInv
  <2> QED BY <2>1, <1>2, <1>4 DEF NetInv
<1> QED BY <1>3, <1>6, <1>7, <1>8, <1>9, <1>10 DEF NetInv

\* An operation that makes a reply.
LEMMA ReplyAdded ==
    ASSUME NetInv, NEW new \in Reply, NEW bs \in Seq(Base), bases' = bs,
           Len(bases) <= Len(bs), \A b \in DOMAIN bases : bs[b] = bases[b],
           \A b \in DOMAIN bs : EntriesOK(bs[b].entries),
           new.base \in DOMAIN bs, ReplyOK(new, bs[new.base]),
           \A r \in DOMAIN replies : replies[r].base # new.base,
           replies' = Append(replies, new),
           store' \in [Urls -> SUBSET Nat],
           \A u \in Urls : store'[u] \subseteq store[u] \ {new.base},
           nextNum' \in [Urls -> Nat], UNCHANGED <<jar, chain>>
    PROVE  NetInv'
<1>1. NetType
  BY DEF NetInv
<1>2. /\ replies' \in Seq(Reply) /\ Len(replies') = Len(replies) + 1
      /\ DOMAIN replies = 1..Len(replies) /\ DOMAIN replies' = 1..Len(replies) + 1
      /\ Len(replies) \in Nat
      /\ \A s \in DOMAIN replies : replies'[s] = replies[s]
      /\ replies'[Len(replies) + 1] = new
      /\ DOMAIN bases \subseteq DOMAIN bs
  BY <1>1 DEF NetType
<1>3. NetType'
  BY <1>1, <1>2 DEF NetType
<1>4. ASSUME NEW s \in DOMAIN replies'
      PROVE  /\ replies'[s].base \in DOMAIN bs
             /\ ReplyOK(replies'[s], bs[replies'[s].base])
             /\ \A u \in Urls : replies'[s].base \notin store'[u]
  <2>1. CASE s \in DOMAIN replies
    <3>1. /\ replies'[s] = replies[s] /\ replies[s].base \in DOMAIN bases
          /\ bs[replies[s].base] = bases[replies[s].base]
          /\ \A u \in Urls : replies[s].base \notin store[u]
          /\ ReplyOK(replies[s], bases[replies[s].base])
      BY <2>1, <1>2 DEF NetInv
    <3> QED BY <3>1, <1>2
  <2>2. CASE s = Len(replies) + 1
    BY <2>2, <1>2
  <2> QED BY <2>1, <2>2, <1>2
<1>5. ASSUME NEW s \in DOMAIN replies', NEW t \in DOMAIN replies', replies'[s].base = replies'[t].base
      PROVE  s = t
  <2>1. CASE s \in DOMAIN replies /\ t \in DOMAIN replies
    BY <2>1, <1>2, <1>5 DEF NetInv
  <2>2. CASE s = Len(replies) + 1 /\ t \in DOMAIN replies
    BY <2>2, <1>2, <1>5
  <2>3. CASE s \in DOMAIN replies /\ t = Len(replies) + 1
    BY <2>3, <1>2, <1>5
  <2> QED BY <2>1, <2>2, <2>3, <1>2
<1>6. \A u \in Urls : \A b \in store'[u] : b \in DOMAIN bs /\ bs[b].url = u /\ bs[b].pos = 0
  BY <1>2, SMTT(60) DEF NetInv
<1> QED BY <1>3, <1>4, <1>5, <1>6 DEF NetInv

\* The constructor makes a reply.
LEMMA ControllableType ==
    ASSUME NEW u \in Urls, NEW b \in Nat, NEW num \in Nat, NEW id \in Nat
    PROVE  LET c == Controllable(u, b, num, 0, id)
           IN  /\ c \in Reply
               /\ c.url = u /\ c.base = b /\ c.num = num /\ c.queue = <<>> /\ c.seq = 0
               /\ c.waiting = None /\ c.size = 0 /\ c.open /\ ~c.live /\ c.last = 0
               /\ c.creator = id
<1> DEFINE c == Controllable(u, b, num, 0, id)
<1>1. <<>> \in Seq(Snapshot) /\ None \in Descriptor
  BY NoneType
<1>2. c \in Reply
  BY <1>1 DEF Controllable, Reply
<1>3. /\ c.url = u /\ c.base = b /\ c.num = num /\ c.queue = <<>> /\ c.seq = 0
      /\ c.waiting = None /\ c.size = 0 /\ c.open /\ ~c.live /\ c.last = 0
      /\ c.creator = id
  BY DEF Controllable
<1> QED BY <1>2, <1>3

\* Live: a new base and a reply with nothing in its queue.
LEMMA LiveInv ==
    ASSUME NetInv, NEW u \in Urls, NEW id \in Nat, Live(u, id)
    PROVE  NetInv'
<1> DEFINE base == [url |-> u, num |-> nextNum[u], pos |-> 0, entries |-> <<>>]
           bs == Append(bases, base)
           new == [Controllable(u, Len(bases) + 1, base.num, 0, id) EXCEPT !.live = TRUE]
<1>1. NetType
  BY DEF NetInv
<1>2. base \in Base
  BY <1>1 DEF NetType, Base
<1>3. /\ Len(bases) \in Nat /\ nextNum[u] \in Nat /\ base.num = nextNum[u]
      /\ Len(bases) + 1 \in Nat
  BY <1>1 DEF NetType
<1>4. /\ new \in Reply /\ new.base = Len(bases) + 1 /\ new.queue = <<>> /\ new.seq = 0
      /\ new.waiting = None /\ new.size = 0 /\ new.open
  <2> DEFINE c == Controllable(u, Len(bases) + 1, base.num, 0, id)
  <2>1. /\ c \in Reply /\ c.base = Len(bases) + 1 /\ c.queue = <<>> /\ c.seq = 0
        /\ c.waiting = None /\ c.size = 0 /\ c.open
    BY <1>3, ControllableType, SMTT(60)
  <2>2. new = [c EXCEPT !.live = TRUE]
    OBVIOUS
  <2> HIDE DEF c, new
  <2> QED BY <2>1, <2>2 DEF Reply
<1>5. /\ bs \in Seq(Base) /\ Len(bs) = Len(bases) + 1 /\ DOMAIN bs = 1..Len(bases) + 1
      /\ DOMAIN bases = 1..Len(bases)
      /\ \A b \in DOMAIN bases : bs[b] = bases[b]
      /\ bs[Len(bases) + 1] = base
  BY <1>1, <1>2, <1>3 DEF NetType
<1>6. EntriesOK(<<>>)
  BY FinalType DEF EntriesOK
<1>7. \A b \in DOMAIN bs : EntriesOK(bs[b].entries)
  BY <1>5, <1>6 DEF NetInv
<1>8. ReplyOK(new, base)
  BY <1>4 DEF ReplyOK, QueueOK, NumberOK, Released, SizeAt
<1>9. \A r \in DOMAIN replies : replies[r].base # Len(bases) + 1
  BY <1>5, <1>3 DEF NetInv
<1>10. \A v \in Urls : store[v] \subseteq store[v] \ {Len(bases) + 1}
  BY <1>5, <1>3 DEF NetInv
<1>11. /\ bases' = bs /\ replies' = Append(replies, new)
       /\ store' = store /\ nextNum' = [nextNum EXCEPT ![u] = @ + 1] /\ UNCHANGED <<jar, chain>>
  BY DEF Live
<1>12. nextNum' \in [Urls -> Nat] /\ store' \in [Urls -> SUBSET Nat]
  BY <1>11, <1>1 DEF NetType
<1>13. new.base = Len(bases) + 1
  BY <1>4
<1> HIDE DEF base, bs, new
<1>14. new.base \in DOMAIN bs /\ Len(bases) <= Len(bs) /\ ReplyOK(new, bs[new.base])
  BY <1>5, <1>13, <1>3, <1>8
<1> QED BY <1>4, <1>5, <1>7, <1>9, <1>10, <1>11, <1>12, <1>13, <1>14, ReplyAdded, SMTT(60)

\* The constructor of a replayed reply.
LEMMA EnqueueAllOK ==
    ASSUME NEW u \in Urls, NEW b \in Nat, NEW num \in Nat, NEW id \in Nat,
           NEW e \in Seq(Snapshot), EntriesOK(e),
           NEW new, new = enqueueAll(Controllable(u, b, num, 0, id), e)
    PROVE  /\ new \in Reply
           /\ QueueOK(new, e) /\ NumberOK(new, e)
           /\ new.url = u /\ new.base = b /\ new.num = num /\ new.queue = e /\ new.size = 0
           /\ new.open /\ ~new.live /\ new.last = 0 /\ new.creator = id
<1> DEFINE c == [Controllable(u, b, num, 0, id) EXCEPT !.queue = e]
           s == scheduleNextSnapshotUpdate(c)
<1>2. c \in Reply
  BY ControllableType DEF Reply
<1>3. /\ c.url = u /\ c.base = b /\ c.num = num /\ c.queue = e /\ c.seq = 0 /\ c.waiting = None
      /\ c.size = 0 /\ c.open /\ ~c.live /\ c.last = 0 /\ c.creator = id
  BY ControllableType DEF Reply
<1> HIDE DEF c
<1>4. Released(c, e) = 0 /\ Len(e) \in Nat
  BY <1>3 DEF Released
<1>5. QueueOK(c, e)
  BY <1>3, <1>4 DEF QueueOK, SizeAt
<1>6. /\ s \in Reply /\ QueueOK(s, e) /\ NumberOK(s, e)
      /\ s = [c EXCEPT !.waiting = s.waiting, !.seq = s.seq]
  BY <1>2, <1>3, <1>4, <1>5, ScheduleOK
<1> HIDE DEF s
<1>7. /\ s.url = u /\ s.base = b /\ s.num = num /\ s.queue = e /\ s.size = 0
      /\ s.open /\ ~s.live /\ s.last = 0 /\ s.creator = id
  BY <1>2, <1>3, <1>6 DEF Reply
<1>8. s = new
  BY DEF enqueueAll, s, c
<1> QED BY <1>6, <1>7, <1>8

\* The first snapshot of a list that is not empty.
LEMMA MinOfStore ==
    ASSUME NEW S \in SUBSET Nat, S # {}
    PROVE  Min(S) \in S /\ \A x \in S : Min(S) <= x
<1>1. IsWellFoundedOn(OpToRel(<, Nat), Nat)
  BY NatLessThanWellFounded
<1>2. PICK m \in S : \A y \in S : ~(<<y, m>> \in OpToRel(<, Nat))
  BY <1>1, WFMin
<1>3. \A y \in S : ~(y < m)
  BY <1>2 DEF OpToRel
<1>4. \A y \in S : m <= y
  BY <1>3
<1> QED BY <1>4 DEF Min

\* Replayed: the reply takes over a base of a list that is shortened.
LEMMA ReplayedInv ==
    ASSUME NetInv, NEW u \in Urls, NEW v \in Urls, NEW id \in Nat, store[v] # {},
           Replayed(u, id, Min(store[v])), store' = [store EXCEPT ![v] = @ \ {Min(@)}]
    PROVE  NetInv'
<1> DEFINE b == Min(store[v])
           new == enqueueAll(Controllable(u, b, bases[b].num, 0, id), bases[b].entries)
<1>1. NetType
  BY DEF NetInv
<1>2. b \in store[v] /\ b \in Nat
  BY <1>1, MinOfStore DEF NetType
<1>3. b \in DOMAIN bases /\ bases[b] \in Base /\ EntriesOK(bases[b].entries) /\ bases[b].pos = 0
  BY <1>1, <1>2 DEF NetInv, NetType
<1>4. bases[b].num \in Nat /\ bases[b].entries \in Seq(Snapshot) /\ bases[b].pos \in Nat
  BY <1>3 DEF Base
<1>5. /\ bases' = bases /\ nextNum' = nextNum /\ UNCHANGED <<jar, chain>>
      /\ replies' = Append(replies, new)
  BY DEF Replayed
<1> HIDE DEF b
<1>6. /\ new \in Reply /\ QueueOK(new, bases[b].entries) /\ NumberOK(new, bases[b].entries)
      /\ new.base = b /\ new.size = 0 /\ new.open
  BY <1>2, <1>3, <1>4, EnqueueAllOK, SMTT(60)
<1> HIDE DEF new
<1>7. \A r \in DOMAIN replies : replies[r].base # b
  BY <1>2 DEF NetInv
<1>8. /\ store' \in [Urls -> SUBSET Nat]
      /\ \A w \in Urls : store'[w] = IF w = v THEN store[v] \ {b} ELSE store[w]
  BY <1>1 DEF NetType, b
<1>9. ASSUME NEW w \in Urls PROVE store'[w] \subseteq store[w] \ {b}
  <2>1. CASE w = v
    BY <2>1, <1>8
  <2>2. CASE w # v
    <3>1. b \notin store[w]
      BY <2>2, <1>2 DEF NetInv
    <3> QED BY <3>1, <2>2, <1>8
  <2> QED BY <2>1, <2>2
<1> QED
  <2>1. ReplyOK(new, bases[b])
    BY <1>3, <1>4, <1>6 DEF ReplyOK
  <2>2. /\ nextNum' \in [Urls -> Nat] /\ bases' \in Seq(Base) /\ bases' = bases
        /\ Len(bases) <= Len(bases)
        /\ \A c \in DOMAIN bases : EntriesOK(bases[c].entries)
        /\ new.base \in DOMAIN bases
    BY <1>1, <1>3, <1>5, <1>6 DEF NetType, NetInv
  <2>3. /\ \A r \in DOMAIN replies : replies[r].base # new.base
        /\ \A w \in Urls : store'[w] \subseteq store[w] \ {new.base}
        /\ ReplyOK(new, bases[new.base]) /\ store' \in [Urls -> SUBSET Nat]
    BY <1>6, <1>7, <1>8, <1>9, <2>1
  <2>4. UNCHANGED <<jar, chain>> /\ replies' = Append(replies, new) /\ new \in Reply
    BY <1>5, <1>6
  <2>5. bases \in Seq(Base) /\ \A c \in DOMAIN bases : bases[c] = bases[c]
    BY <1>1 DEF NetType
  <2> QED BY <2>2, <2>3, <2>4, <2>5, ReplyAdded

\* A base that does not change.
LEMMA SameBases ==
    ASSUME NetInv, NEW r \in DOMAIN replies
    PROVE  /\ bases = [bases EXCEPT ![replies[r].base] = bases[replies[r].base]]
           /\ bases[replies[r].base] \in Base /\ EntriesOK(bases[replies[r].base].entries)
           /\ replies[r] \in Reply /\ ReplyOK(replies[r], bases[replies[r].base])
           /\ replies = [replies EXCEPT ![r] = replies[r]]
<1>1. /\ replies[r].base \in DOMAIN bases /\ bases \in Seq(Base) /\ replies \in Seq(Reply)
      /\ ReplyOK(replies[r], bases[replies[r].base])
  BY DEF NetInv, NetType
<1>2. bases[replies[r].base] \in Base /\ EntriesOK(bases[replies[r].base].entries)
  BY <1>1 DEF NetInv
<1>3. bases = [bases EXCEPT ![replies[r].base] = bases[replies[r].base]]
  BY <1>1
<1>4. replies[r] \in Reply /\ replies = [replies EXCEPT ![r] = replies[r]]
  BY <1>1
<1> QED BY <1>1, <1>2, <1>3, <1>4

\* release: the reply is closed.
LEMMA ReleaseInv ==
    ASSUME NetInv, NEW r \in DOMAIN replies, Release(r)
    PROVE  NetInv'
<1> DEFINE new == release(replies[r])
           base == bases[replies[r].base]
<1>1. replies[r] \in Reply /\ base \in Base /\ EntriesOK(base.entries) /\ ReplyOK(replies[r], base)
  BY SameBases
<1>2. /\ new \in Reply /\ new.base = replies[r].base /\ new.size = replies[r].size
      /\ new.queue = <<>> /\ new.waiting = None /\ ~new.open
  <2>1. <<>> \in Seq(Snapshot) /\ None \in Descriptor
    BY NoneType
  <2> QED BY <1>1, <2>1 DEF release, Reply
<1>3. /\ bases' = [bases EXCEPT ![replies[r].base] = base]
      /\ replies' = [replies EXCEPT ![r] = new] /\ UNCHANGED <<store, nextNum, jar, chain>>
  BY SameBases DEF Release
<1> HIDE DEF new
<1>4. ReplyOK(new, base)
  BY <1>1, <1>2 DEF ReplyOK
<1>5. jar' \subseteq Nat /\ chain' \subseteq Nat \X Nat
  BY <1>3 DEF NetInv, NetType
<1> QED BY <1>1, <1>2, <1>3, <1>4, <1>5, OneReplyChanged

\* read: the stream is read as far as the current snapshot says.
LEMMA ReadInv ==
    ASSUME NetInv, NEW r \in DOMAIN replies, read(r)
    PROVE  /\ NetInv'
           /\ bases' = [bases EXCEPT ![replies[r].base] =
                          [bases[replies[r].base] EXCEPT !.pos = replies[r].size]]
<1> DEFINE old == bases[replies[r].base]
           base == [old EXCEPT !.pos = replies[r].size]
<1>1. replies[r] \in Reply /\ old \in Base /\ EntriesOK(old.entries) /\ ReplyOK(replies[r], old)
  BY SameBases
<1>2. old.pos \in Nat /\ replies[r].size \in Nat
  BY <1>1 DEF Base, Reply
<1>3. base \in Base /\ base.url = old.url /\ base.entries = old.entries /\ base.pos = replies[r].size
  BY <1>1, <1>2 DEF Base
<1>4. ReplyOK(replies[r], base)
  BY <1>1, <1>2, <1>3 DEF ReplyOK
<1>5. /\ bases' = [bases EXCEPT ![replies[r].base] = base]
      /\ replies' = [replies EXCEPT ![r] = replies[r]] /\ UNCHANGED <<store, nextNum, jar, chain>>
  <2>1. old.pos + bytesAvailable(r) = replies[r].size
    BY <1>2 DEF bytesAvailable
  <2>2. bases' = [bases EXCEPT ![replies[r].base].pos = @ + bytesAvailable(r)]
    BY DEF read
  <2>3. bases' = [bases EXCEPT ![replies[r].base] = base]
    BY <2>1, <2>2
  <2> QED BY <2>3, SameBases DEF read
<1>6. jar' \subseteq Nat /\ chain' \subseteq Nat \X Nat
  BY <1>5 DEF NetInv, NetType
<1> HIDE DEF base
<1>7. NetInv'
  BY <1>1, <1>3, <1>4, <1>5, <1>6, OneReplyChanged
<1> QED BY <1>5, <1>7 DEF base

\* What is released and what is not make up the recorded reply.
LEMMA ReleasedCount ==
    ASSUME NEW reply \in Reply, NEW e \in Seq(Snapshot), Len(reply.queue) <= Len(e)
    PROVE  /\ Released(reply, e) \in Nat /\ Released(reply, e) + Len(reply.queue) = Len(e)
           /\ Len(reply.queue) \in Nat /\ Len(e) \in Nat
           /\ Released(reply, e) = Len(e) - Len(reply.queue)
<1>1. Len(reply.queue) \in Nat /\ Len(e) \in Nat
  BY DEF Reply
<1> QED BY <1>1 DEF Released

\* What a reply that waits is waiting for.
LEMMA WaitingReply ==
    ASSUME NetInv, NEW r \in DOMAIN replies, replies[r].waiting # None
    PROVE  LET reply == replies[r]
               e == bases[reply.base].entries
               n == Released(reply, e)
           IN  /\ reply.open /\ reply.queue # <<>> /\ n \in Nat /\ n + 1 \in 1..Len(e)
               /\ Len(reply.queue) > 0 /\ n + Len(reply.queue) = Len(e)
               /\ reply.waiting = Signal(reply.url, reply.num, e, n + 1)
               /\ Head(reply.queue) = e[n + 1] /\ e \in Seq(Snapshot) /\ reply.queue \in Seq(Snapshot)
               /\ reply.seq = IF e[n + 1].signal = "FINISHED" THEN n ELSE n + 1
<1> DEFINE reply == replies[r]
           base == bases[reply.base]
           e == base.entries
           n == Released(reply, e)
<1>1. reply \in Reply /\ base \in Base /\ EntriesOK(e) /\ ReplyOK(reply, base)
  BY SameBases
<1>2. /\ e \in Seq(Snapshot) /\ reply.queue \in Seq(Snapshot)
      /\ Len(e) \in Nat /\ Len(reply.queue) \in Nat
  BY <1>1 DEF Base, Reply
<1>3. reply.open /\ QueueOK(reply, e) /\ NumberOK(reply, e)
  BY <1>1 DEF ReplyOK
<1>4. reply.queue # <<>>
  BY <1>3 DEF NumberOK
<1>5. Len(reply.queue) > 0 /\ Head(reply.queue) = reply.queue[1]
  BY <1>2, <1>4, HeadIsFirst
<1>6. n \in Nat /\ n + 1 \in 1..Len(e) /\ n + Len(reply.queue) = Len(e)
  <2>1. Len(reply.queue) <= Len(e)
    BY <1>3 DEF QueueOK
  <2>2. n \in Nat /\ n + Len(reply.queue) = Len(e)
    BY <1>1, <1>2, <2>1, ReleasedCount
  <2> QED BY <2>2, <1>2, <1>5
<1>7. Head(reply.queue) = e[n + 1]
  BY <1>2, <1>3, <1>5 DEF QueueOK
<1>8. /\ reply.waiting = Signal(reply.url, reply.num, e, n + 1)
      /\ reply.seq = IF e[n + 1].signal = "FINISHED" THEN n ELSE n + 1
  BY <1>3, <1>4 DEF NumberOK
<1> QED BY <1>2, <1>3, <1>4, <1>5, <1>6, <1>7, <1>8

\* updateSnapshot releases the first signal of the queue and schedules the next.
LEMMA UpdateInv ==
    ASSUME NetInv, NEW r \in DOMAIN replies, NEW id \in Nat, updateSnapshot(r, id)
    PROVE  /\ NetInv'
           /\ bases' = bases /\ store' = store /\ nextNum' = nextNum
           /\ LET reply == replies[r]
                  e == bases[reply.base].entries
              IN  \E new \in Reply :
                    /\ replies' = [replies EXCEPT ![r] = new]
                    /\ new.url = reply.url /\ new.num = reply.num /\ new.base = reply.base
                    /\ new.open /\ new.live = reply.live /\ new.creator = reply.creator
                    /\ new.last = id /\ Released(new, e) = Released(reply, e) + 1
<1> DEFINE reply == replies[r]
           base == bases[reply.base]
           e == base.entries
           n == Released(reply, e)
           first == [reply EXCEPT !.last = id, !.size = Head(reply.queue).size,
                                   !.queue = Tail(@), !.waiting = None]
           new == scheduleNextSnapshotUpdate(first)
<1>1. reply \in Reply /\ base \in Base /\ EntriesOK(e) /\ ReplyOK(reply, base)
  BY SameBases
<1>2. /\ reply.waiting # None /\ replies' = [replies EXCEPT ![r] = new]
      /\ bases' = bases /\ store' = store /\ nextNum' = nextNum
      /\ jar' = IF reply.last = 0 THEN jar \cup {reply.base} ELSE jar
      /\ chain' = chain \cup {<<IF reply.last # 0 THEN reply.last ELSE reply.creator, id>>}
  BY DEF updateSnapshot
<1>3. /\ reply.open /\ reply.queue # <<>> /\ n \in Nat /\ n + 1 \in 1..Len(e)
      /\ Len(reply.queue) > 0 /\ n + Len(reply.queue) = Len(e)
      /\ Head(reply.queue) = e[n + 1] /\ e \in Seq(Snapshot) /\ reply.queue \in Seq(Snapshot)
      /\ reply.seq = IF e[n + 1].signal = "FINISHED" THEN n ELSE n + 1
  BY <1>2, WaitingReply
<1>a. e = base.entries /\ QueueOK(reply, e) /\ base.pos <= reply.size /\ n = Released(reply, e)
  BY <1>1, <1>3 DEF ReplyOK
<1>b. reply.size = SizeAt(e, n) /\ \A k \in 1..Len(reply.queue) : reply.queue[k] = e[n + k]
  BY <1>a DEF QueueOK
<1> HIDE DEF n, new, first, e, reply
<1>4. /\ e[n + 1] \in Snapshot /\ e[n + 1].size \in Nat
      /\ Tail(reply.queue) \in Seq(Snapshot) /\ Len(Tail(reply.queue)) = Len(reply.queue) - 1
      /\ \A k \in 1..Len(reply.queue) - 1 : Tail(reply.queue)[k] = reply.queue[k + 1]
  <2>1. e[n + 1] \in Snapshot
    BY <1>3
  <2> QED BY <2>1, <1>3, HeadIsFirst, SMTT(60) DEF Snapshot
<1>5. /\ first \in Reply /\ first.last = id /\ first.size = e[n + 1].size
      /\ first.queue = Tail(reply.queue) /\ first.waiting = None
      /\ first.url = reply.url /\ first.num = reply.num /\ first.base = reply.base
      /\ first.open /\ first.live = reply.live /\ first.creator = reply.creator
      /\ first.seq = reply.seq
  BY <1>1, <1>3, <1>4, NoneType DEF Reply, first
<1>6. Released(first, e) = n + 1 /\ Len(e) \in Nat /\ Len(reply.queue) \in Nat
  <2>1. Len(e) \in Nat /\ Len(reply.queue) \in Nat /\ Len(first.queue) = Len(reply.queue) - 1
    BY <1>3, <1>4, <1>5
  <2>2. n \in Nat /\ n + Len(reply.queue) = Len(e)
    BY <1>3
  <2>3. \A a, b, c \in Nat : c + b = a => a - (b - 1) = c + 1
    OBVIOUS
  <2>4. Len(e) - (Len(reply.queue) - 1) = n + 1
    <3>1. PICK a \in Nat : a = Len(e)
      BY <2>1
    <3>2. PICK b \in Nat : b = Len(reply.queue)
      BY <2>1
    <3>3. PICK c \in Nat : c = n
      BY <2>2
    <3>4. c + b = a
      BY <3>1, <3>2, <3>3, <2>2
    <3>5. a - (b - 1) = c + 1
      BY <3>4, <2>3
    <3> QED BY <3>1, <3>2, <3>3, <3>5
  <2> QED BY <2>1, <2>4 DEF Released
<1>7. QueueOK(first, e)
  <2>1. Len(first.queue) <= Len(e)
    BY <1>3, <1>4, <1>5, <1>6
  <2>2. ASSUME NEW k \in 1..Len(first.queue) PROVE first.queue[k] = e[n + 1 + k]
    <3>1. k \in 1..Len(reply.queue) - 1 /\ k + 1 \in 1..Len(reply.queue)
      BY <1>3, <1>4, <1>5, <1>6
    <3>2. first.queue[k] = reply.queue[k + 1]
      BY <3>1, <1>4, <1>5
    <3>3. reply.queue[k + 1] = e[n + (k + 1)]
      BY <3>1, <1>b
    <3>4. n + (k + 1) = n + 1 + k
      BY <3>1, <1>3
    <3> QED BY <3>2, <3>3, <3>4
  <2>3. first.size = SizeAt(e, n + 1)
    BY <1>3, <1>5 DEF SizeAt
  <2> QED BY <2>1, <2>2, <2>3, <1>6 DEF QueueOK
<1>8. (n + 1 = 0 \/ e[n + 1].signal # "FINISHED") => first.seq = n + 1
  BY <1>3, <1>5, SMTT(60)
<1>9. /\ new \in Reply /\ QueueOK(new, e) /\ NumberOK(new, e)
      /\ new = [first EXCEPT !.waiting = new.waiting, !.seq = new.seq]
  BY <1>1, <1>3, <1>5, <1>6, <1>7, <1>8, ScheduleOK, ZenonT(60) DEF e, new
<1>10. /\ new.url = reply.url /\ new.num = reply.num /\ new.base = reply.base
       /\ new.open /\ new.live = reply.live /\ new.creator = reply.creator /\ new.last = id
       /\ new.queue = first.queue /\ new.size = first.size
  BY <1>5, <1>9 DEF Reply
<1>11. Released(new, e) = n + 1
  BY <1>6, <1>10 DEF Released
<1>12. ReplyOK(new, base)
  <2>1. base.pos <= reply.size /\ reply.size = SizeAt(e, n)
    BY <1>a, <1>b
  <2>2. SizeAt(e, n) <= e[n + 1].size
    <3>1. CASE n = 0
      BY <3>1, <1>4 DEF SizeAt
    <3>2. CASE n # 0
      <4>1. n \in 1..Len(e) /\ n <= n + 1
        BY <3>2, <1>3, <1>6
      <4> QED BY <4>1, <3>2, <1>1, <1>3 DEF SizeAt, EntriesOK
    <3> QED BY <3>1, <3>2
  <2>3. base.pos \in Nat /\ SizeAt(e, n) \in Nat
    BY <1>1, <2>1 DEF Base, Reply
  <2>4. base.pos <= new.size
    BY <2>1, <2>2, <2>3, <1>4, <1>5, <1>10
  <2> QED BY <2>4, <1>9, <1>10, <1>a DEF ReplyOK
<1>13. jar' \subseteq Nat /\ chain' \subseteq Nat \X Nat
  <2>1. reply.last \in Nat /\ reply.creator \in Nat /\ reply.base \in Nat
    BY <1>1 DEF Reply
  <2>2. jar \subseteq Nat /\ chain \subseteq Nat \X Nat
    BY DEF NetInv, NetType
  <2> QED BY <2>1, <2>2, <1>2
<1>14. NetInv'
  <2>1. bases' = [bases EXCEPT ![replies[r].base] = base]
    BY SameBases, <1>2 DEF reply
  <2>2. /\ new.base = replies[r].base /\ base.url = bases[replies[r].base].url
        /\ replies' = [replies EXCEPT ![r] = new] /\ UNCHANGED <<store, nextNum>>
        /\ EntriesOK(base.entries) /\ base \in Base
    BY <1>1, <1>2, <1>10, <1>a DEF reply
  <2> HIDE DEF base
  <2> QED BY <2>1, <2>2, <1>9, <1>12, <1>13, OneReplyChanged
<1>15. /\ replies' = [replies EXCEPT ![r] = new] /\ new \in Reply
       /\ Released(new, e) = Released(reply, e) + 1
  BY <1>2, <1>9, <1>11, <1>a
<1>16. reply = replies[r] /\ e = bases[reply.base].entries
  BY <1>a DEF reply
<1> HIDE DEF base
<1> QED BY <1>2, <1>10, <1>14, <1>15, <1>16

\* A recorded reply that has not ended can get one more signal.
LEMMA EntriesGrow ==
    ASSUME NEW e \in Seq(Snapshot), EntriesOK(e), NEW snap \in Snapshot,
           \A i \in 1..Len(e) : e[i].signal # "FINISHED",
           \A i \in 1..Len(e) : e[i].size <= snap.size,
           snap.signal = "FINISHED" \/ Len(e) + 1 <= MaxSignals
    PROVE  /\ EntriesOK(Append(e, snap)) /\ Append(e, snap) \in Seq(Snapshot)
           /\ Len(Append(e, snap)) = Len(e) + 1 /\ Append(e, snap)[Len(e) + 1] = snap
           /\ \A i \in 1..Len(e) : Append(e, snap)[i] = e[i]
<1> DEFINE f == Append(e, snap)
<1>1. /\ f \in Seq(Snapshot) /\ Len(e) \in Nat /\ Len(f) = Len(e) + 1 /\ f[Len(e) + 1] = snap
      /\ \A i \in 1..Len(e) : f[i] = e[i]
  OBVIOUS
<1> HIDE DEF f
<1>2. Len(e) <= MaxSignals
  <2>1. CASE Len(e) = 0
    BY <2>1, FinalType
  <2>2. CASE Len(e) # 0
    <3>1. Len(e) \in 1..Len(e)
      BY <2>2, <1>1
    <3> QED BY <3>1 DEF EntriesOK
  <2> QED BY <2>1, <2>2
<1>3. Len(f) <= FinalNumber /\ (Len(f) <= MaxSignals \/ f[Len(f)].signal = "FINISHED")
  BY <1>1, <1>2, FinalType
<1>4. ASSUME NEW i \in 1..Len(f), NEW j \in 1..Len(f), i <= j PROVE f[i].size <= f[j].size
  <2>1. CASE j \in 1..Len(e)
    <3>1. i \in 1..Len(e)
      BY <2>1, <1>1, <1>4
    <3> QED BY <3>1, <2>1, <1>1, <1>4 DEF EntriesOK
  <2>2. CASE j = Len(e) + 1 /\ i \in 1..Len(e)
    BY <2>2, <1>1
  <2>3. CASE j = Len(e) + 1 /\ i = Len(e) + 1
    BY <2>3, <1>1 DEF Snapshot
  <2> QED BY <2>1, <2>2, <2>3, <1>1
<1>5. ASSUME NEW i \in 1..Len(f), i < Len(f) PROVE f[i].signal # "FINISHED"
  <2>1. i \in 1..Len(e)
    BY <1>1, <1>5
  <2> QED BY <2>1, <1>1
<1>6. EntriesOK(f)
  BY <1>3, <1>4, <1>5 DEF EntriesOK
<1> QED BY <1>1, <1>6 DEF f

\* enqueueSnapshot: the new signal is behind those that wait, and is scheduled if none does.
LEMMA EnqueueOK ==
    ASSUME NEW reply \in Reply, NEW e \in Seq(Snapshot), QueueOK(reply, e), NumberOK(reply, e),
           NEW snap \in Snapshot, EntriesOK(Append(e, snap)),
           \A i \in 1..Len(e) : e[i].signal # "FINISHED"
    PROVE  LET s == enqueueSnapshot(reply, snap)
               f == Append(e, snap)
           IN  /\ s \in Reply
               /\ QueueOK(s, f) /\ NumberOK(s, f) /\ Released(s, f) = Released(reply, e)
               /\ s.url = reply.url /\ s.base = reply.base /\ s.num = reply.num
               /\ s.size = reply.size /\ s.open = reply.open /\ s.live = reply.live
               /\ s.last = reply.last /\ s.creator = reply.creator
<1> DEFINE f == Append(e, snap)
           n == Released(reply, e)
           c == [reply EXCEPT !.queue = Append(@, snap)]
           s == scheduleNextSnapshotUpdate(c)
<1>1. /\ f \in Seq(Snapshot) /\ Len(e) \in Nat /\ Len(f) = Len(e) + 1 /\ f[Len(e) + 1] = snap
      /\ \A i \in 1..Len(e) : f[i] = e[i]
  OBVIOUS
<1>2. reply.queue \in Seq(Snapshot) /\ Len(reply.queue) \in Nat
  BY DEF Reply
<1>3. n \in Nat /\ n + Len(reply.queue) = Len(e)
  BY ReleasedCount DEF QueueOK
<1>4. /\ c \in Reply /\ c.queue = Append(reply.queue, snap) /\ c.seq = reply.seq
      /\ c.waiting = reply.waiting
      /\ c.url = reply.url /\ c.base = reply.base /\ c.num = reply.num
      /\ c.size = reply.size /\ c.open = reply.open /\ c.live = reply.live
      /\ c.last = reply.last /\ c.creator = reply.creator
  <2> DEFINE q == Append(reply.queue, snap)
  <2>1. q \in Seq(Snapshot) /\ c = [reply EXCEPT !.queue = q]
    BY <1>2
  <2> HIDE DEF q, c
  <2>2. c \in Reply /\ c.queue = q
    BY <2>1 DEF Reply
  <2>3. /\ c.seq = reply.seq /\ c.waiting = reply.waiting
        /\ c.url = reply.url /\ c.base = reply.base /\ c.num = reply.num
        /\ c.size = reply.size /\ c.open = reply.open /\ c.live = reply.live
        /\ c.last = reply.last /\ c.creator = reply.creator
    BY <2>1 DEF Reply
  <2> QED BY <2>2, <2>3 DEF q
<1>5. /\ Len(c.queue) = Len(reply.queue) + 1 /\ c.queue # <<>>
      /\ \A k \in 1..Len(reply.queue) : c.queue[k] = reply.queue[k]
      /\ c.queue[Len(reply.queue) + 1] = snap
  BY <1>2, <1>4
<1>q. \A k \in 1..Len(reply.queue) : reply.queue[k] = e[n + k]
  BY DEF QueueOK
<1>s. reply.size = SizeAt(e, n)
  BY DEF QueueOK
<1> HIDE DEF f, c, n
<1>6. Released(c, f) = n
  <2>1. \A a, b, d \in Nat : d + b = a => (a + 1) - (b + 1) = d
    OBVIOUS
  <2>2. (Len(e) + 1) - (Len(reply.queue) + 1) = n
    BY <2>1, <1>1, <1>2, <1>3
  <2> QED BY <2>2, <1>1, <1>5 DEF Released
<1>7. QueueOK(c, f)
  <2>1. Len(c.queue) <= Len(f)
    BY <1>1, <1>2, <1>3, <1>5
  <2>2. ASSUME NEW k \in 1..Len(c.queue) PROVE c.queue[k] = f[n + k]
    <3>1. CASE k \in 1..Len(reply.queue)
      <4>1. n + k \in 1..Len(e)
        BY <3>1, <1>2, <1>3
      <4> QED BY <3>1, <4>1, <1>1, <1>5, <1>q
    <3>2. CASE k = Len(reply.queue) + 1
      <4>1. n + k = Len(e) + 1
        BY <3>2, <1>2, <1>3
      <4> QED BY <3>2, <4>1, <1>1, <1>5
    <3> QED BY <3>1, <3>2, <1>2, <1>5
  <2>3. c.size = SizeAt(f, n)
    <3>1. n = 0 \/ n \in 1..Len(e)
      BY <1>2, <1>3
    <3> QED BY <3>1, <1>1, <1>4, <1>s DEF SizeAt
  <2> QED BY <2>1, <2>2, <2>3, <1>6 DEF QueueOK
<1>8. /\ s \in Reply /\ QueueOK(s, f) /\ NumberOK(s, f)
      /\ s = [c EXCEPT !.waiting = s.waiting, !.seq = s.seq]
  <2>1. CASE reply.queue = <<>>
    <3>1. n = Len(e) /\ c.waiting = None
      BY <2>1, <1>1, <1>2, <1>3, <1>4 DEF NumberOK
    <3>2. n = 0 \/ e[n].signal # "FINISHED"
      BY <3>1, <1>1
    <3>3. c.seq = n
      BY <2>1, <3>2, <1>4 DEF NumberOK, n
    <3> QED BY <3>1, <3>3, <1>1, <1>4, <1>6, <1>7, ScheduleOK, ZenonT(60) DEF f
  <2>2. CASE reply.queue # <<>>
    <3>1. /\ reply.waiting = Signal(reply.url, reply.num, e, n + 1)
          /\ reply.seq = IF e[n + 1].signal = "FINISHED" THEN n ELSE n + 1
      BY <2>2 DEF NumberOK, n
    <3>2. n + 1 \in 1..Len(e)
      BY <2>2, <1>1, <1>2, <1>3
    <3>3. f[n + 1] = e[n + 1]
      BY <3>2, <1>1
    <3>4. reply.waiting # None
      BY <3>1, SignalNotNone DEF Signal
    <3>5. s = c
      BY <3>4, <1>4 DEF scheduleNextSnapshotUpdate
    <3>6. c.waiting = Signal(c.url, c.num, f, n + 1)
      BY <3>1, <3>3, <1>4 DEF Signal
    <3>7. c.seq = IF f[n + 1].signal = "FINISHED" THEN n ELSE n + 1
      BY <3>1, <3>3, <1>4
    <3>8. NumberOK(c, f)
      BY <3>6, <3>7, <1>5, <1>6 DEF NumberOK
    <3>9. c = [c EXCEPT !.waiting = c.waiting, !.seq = c.seq]
      BY <1>4 DEF Reply
    <3> QED BY <3>5, <3>8, <3>9, <1>4, <1>7
  <2> QED BY <2>1, <2>2
<1>9. s = enqueueSnapshot(reply, snap)
  BY DEF enqueueSnapshot, c
<1> HIDE DEF s
<1>10. /\ s.url = reply.url /\ s.base = reply.base /\ s.num = reply.num
       /\ s.size = reply.size /\ s.open = reply.open /\ s.live = reply.live
       /\ s.last = reply.last /\ s.creator = reply.creator /\ s.queue = c.queue
  BY <1>4, <1>8 DEF Reply
<1>11. Released(s, f) = n
  BY <1>6, <1>10 DEF Released
<1> QED BY <1>8, <1>9, <1>10, <1>11 DEF f, n

\* What changes when the network delivers snap to reply r.
Delivers(r, new, snap) ==
    LET reply == replies[r]
        base == bases[reply.base]
    IN  /\ EntriesOK(Append(base.entries, snap))
        /\ bases' = [bases EXCEPT ![reply.base] =
                       [base EXCEPT !.entries = Append(base.entries, snap)]]
        /\ replies' = [replies EXCEPT ![r] = new]
        /\ new.url = reply.url /\ new.num = reply.num /\ new.base = reply.base
        /\ new.open /\ new.live = reply.live /\ new.creator = reply.creator
        /\ new.last = reply.last
        /\ Released(new, Append(base.entries, snap)) = Released(reply, base.entries)

\* takeSnapshot: the network delivers a signal of a live reply.
LEMMA TakeInv ==
    ASSUME NetInv, NEW r \in DOMAIN replies, Connected(r),
           NEW signal \in {"READY_READ", "FINISHED"}, NEW n \in Nat,
           signal = "FINISHED" \/ Len(bases[replies[r].base].entries) + 1 < MaxSignals,
           takeSnapshot(r, signal, n)
    PROVE  /\ NetInv'
           /\ UNCHANGED <<store, nextNum, jar, chain>>
           /\ \E new \in Reply, snap \in Snapshot : Delivers(r, new, snap)
<1> DEFINE reply == replies[r]
           base == bases[reply.base]
           e == base.entries
           size == (IF e = <<>> THEN 0 ELSE e[Len(e)].size) + n
           snap == [signal |-> signal, size |-> size]
           f == Append(e, snap)
           base2 == [base EXCEPT !.entries = f]
           new == enqueueSnapshot(reply, snap)
<1>1. reply \in Reply /\ base \in Base /\ EntriesOK(e) /\ ReplyOK(reply, base)
  BY SameBases
<1>2. /\ bases' = [bases EXCEPT ![reply.base] = base2]
      /\ replies' = [replies EXCEPT ![r] = new]
      /\ UNCHANGED <<store, nextNum, jar, chain>>
  <2>1. /\ bases' = [bases EXCEPT ![reply.base].entries = Append(@, snap)]
        /\ replies' = [replies EXCEPT ![r] = enqueueSnapshot(@, snap)]
        /\ UNCHANGED <<store, nextNum, jar, chain>>
    BY DEF takeSnapshot
  <2> HIDE DEF snap
  <2> QED BY <2>1
<1>3. /\ reply.live /\ reply.open /\ \A i \in 1..Len(e) : e[i].signal # "FINISHED"
      /\ QueueOK(reply, e) /\ NumberOK(reply, e) /\ base.pos <= reply.size
  <2>1. e \in Seq(Snapshot) /\ DOMAIN e = 1..Len(e)
    BY <1>1 DEF Base
  <2> QED BY <2>1, <1>1 DEF Connected, ReplyOK
<1>4. e \in Seq(Snapshot) /\ Len(e) \in Nat /\ \A i \in 1..Len(e) : e[i].size \in Nat
  <2>1. e \in Seq(Snapshot)
    BY <1>1 DEF Base
  <2> HIDE DEF e
  <2>2. Len(e) \in Nat /\ \A i \in 1..Len(e) : e[i] \in Snapshot
    BY <2>1
  <2>3. \A x \in Snapshot : x.size \in Nat
    BY DEF Snapshot
  <2> QED BY <2>1, <2>2, <2>3
<1>5. size \in Nat /\ \A i \in 1..Len(e) : e[i].size <= size
  <2>1. CASE e = <<>>
    BY <2>1, <1>4
  <2>2. CASE e # <<>>
    <3>1. Len(e) \in 1..Len(e)
      BY <2>2, <1>4
    <3>2. size = e[Len(e)].size + n
      BY <2>2
    <3>3. \A i \in 1..Len(e) : e[i].size <= e[Len(e)].size
      BY <3>1, <1>1 DEF EntriesOK
    <3> HIDE DEF size, e
    <3> QED BY <3>1, <3>2, <3>3, <1>4
  <2> QED BY <2>1, <2>2
<1> HIDE DEF size
<1>6. snap \in Snapshot /\ snap.signal = signal /\ snap.size = size
  BY <1>5 DEF Snapshot
<1>7. /\ EntriesOK(f) /\ f \in Seq(Snapshot) /\ Len(f) = Len(e) + 1
  <2>1. snap.signal = "FINISHED" \/ Len(e) + 1 <= MaxSignals
    BY <1>4, <1>6, FinalType
  <2> HIDE DEF snap, e
  <2> QED BY <2>1, <1>1, <1>3, <1>4, <1>5, <1>6, EntriesGrow
<1> HIDE DEF snap
<1>8. /\ new \in Reply
      /\ QueueOK(new, f) /\ NumberOK(new, f) /\ Released(new, f) = Released(reply, e)
      /\ new.url = reply.url /\ new.base = reply.base /\ new.num = reply.num
      /\ new.size = reply.size /\ new.open = reply.open /\ new.live = reply.live
      /\ new.last = reply.last /\ new.creator = reply.creator
  BY <1>1, <1>3, <1>4, <1>6, <1>7, EnqueueOK, ZenonT(60)
<1>9. base2 \in Base /\ base2.url = base.url /\ base2.pos = base.pos /\ base2.entries = f
  <2> HIDE DEF f, base
  <2> QED BY <1>1, <1>7 DEF Base
<1>10. ReplyOK(new, base2)
  <2> HIDE DEF new, base2, f
  <2> QED BY <1>3, <1>8, <1>9 DEF ReplyOK
<1>11. jar' \subseteq Nat /\ chain' \subseteq Nat \X Nat
  BY <1>2 DEF NetInv, NetType
<1>12. NetInv'
  <2>1. EntriesOK(base2.entries)
    BY <1>7, <1>9
  <2> HIDE DEF new, base2
  <2> QED BY <2>1, <1>2, <1>8, <1>9, <1>10, <1>11, OneReplyChanged
<1>13. Delivers(r, new, snap)
  <2> HIDE DEF new
  <2> QED BY <1>2, <1>3, <1>7, <1>8 DEF Delivers
<1> HIDE DEF new
<1> QED BY <1>2, <1>6, <1>8, <1>12, <1>13

\* A signal of a live reply arrives.
LEMMA LiveFacts ==
    ASSUME NetInv, NEW r \in DOMAIN replies, LiveSignal(r)
    PROVE  /\ NetInv' /\ UNCHANGED <<store, nextNum, jar, chain>> /\ replies[r].live
           /\ \E new \in Reply, snap \in Snapshot : Delivers(r, new, snap)
<1>1. CASE slReadyRead(r)
  BY <1>1, TakeInv DEF slReadyRead, Connected
<1>2. CASE slFinished(r)
  BY <1>2, TakeInv DEF slFinished, Connected
<1> QED BY <1>1, <1>2 DEF LiveSignal

-----------------------------------------------------------------------------
(* The session: types, and which event action the data logs know of. *)

\* What can be the result of a step of the page.
Seen == Urls \cup Nat \cup Snapshot \cup (SUBSET Nat) \cup {"page"}

Ops == {"begin", "request", "read", "abort", "time"}

StepType == [op : Ops, arg : Urls \cup Nat, res : Seq(Seen)]

Item == [desc : Descriptor, steps : Seq(StepType)]

LogType == UNION {[D -> Seq(Nat)] : D \in SUBSET Descriptor}

SessionInv ==
    /\ phase \in {"record", "replay", "exited"}
    /\ mode \in {"STOP", "STRICT", "BEST_EFFORT"}
    /\ phase = "record" => mode = "STOP"
    /\ script \in Seq(Item) /\ done \in Seq(Item) /\ cur \in Item /\ taken \in Nat
    /\ cur # Idle => cur.desc # None
    /\ inLog \in LogType /\ outLog \in LogType /\ clock \in Nat
    /\ current = IF cur = Idle \/ mode = "STOP" THEN None ELSE cur.desc

\* The event actions of a process and the number of the running one.
LEMMA TraceFacts ==
    ASSUME SessionInv
    PROVE  /\ Trace \in Seq(Item) /\ Len(done) \in Nat
           /\ cur = Idle => Trace = done /\ Len(Trace) = Len(done)
           /\ cur # Idle => /\ Len(Trace) = Len(done) + 1 /\ Trace[Len(done) + 1] = cur
                            /\ \A i \in 1..Len(done) : Trace[i] = done[i]
           /\ Id \in Nat
<1>1. done \in Seq(Item) /\ cur \in Item
  BY DEF SessionInv
<1>2. CASE cur = Idle
  BY <1>1, <1>2 DEF Trace, Id
<1>3. CASE cur # Idle
  <2>1. Trace = Append(done, cur)
    BY <1>3 DEF Trace
  <2> QED BY <2>1, <1>1, <1>3 DEF Id
<1> QED BY <1>2, <1>3

\* Every step of the network or of the page keeps NetInv.
LEMMA NetStep ==
    ASSUME NetInv, SessionInv, [Next]_vars
    PROVE  NetInv'
<1> USE DEF networkVars
<1>0. Id \in Nat /\ Len(done) + 1 \in Nat
  BY TraceFacts
<1>u. ASSUME UNCHANGED networkVars PROVE NetInv'
  <2>1. NetType'
    BY <1>u DEF NetInv, NetType
  <2> QED BY <2>1, <1>u DEF NetInv
<1>1. ASSUME NEW u \in Urls, Request(u) PROVE NetInv'
  <2>1. CASE Live(u, Id)
    BY <2>1, <1>0, LiveInv
  <2>2. CASE ConstructExact(u, Id)
    BY <2>2, <1>0, ReplayedInv DEF ConstructExact, Hit
  <2>3. CASE ConstructFuzzy(u, Id)
    <3>1. PICK v \in FuzzyMatches(u) :
            /\ Replayed(u, Id, Min(store[v]))
            /\ store' = [store EXCEPT ![v] = @ \ {Min(@)}]
      BY <2>3 DEF ConstructFuzzy
    <3>2. v \in Urls /\ store[v] # {}
      BY DEF FuzzyMatches
    <3> QED BY <3>1, <3>2, <1>0, ReplayedInv
  <2>4. CASE ConstructUnmatched(u, Id)
    BY <2>4, <1>0, LiveInv DEF ConstructUnmatched
  <2>5. CASE Exit
    BY <2>5, <1>u DEF Exit
  <2> QED BY <1>1, <2>1, <2>2, <2>3, <2>4, <2>5 DEF Request
<1>2. ASSUME NEW r \in DOMAIN replies, Read(r) \/ Abort(r) \/ BeginNetwork(r) \/ LiveSignal(r)
      PROVE  NetInv'
  <2>1. CASE Read(r)
    BY <2>1, ReadInv DEF Read
  <2>2. CASE Abort(r)
    BY <2>2, ReleaseInv DEF Abort
  <2>3. CASE BeginNetwork(r)
    BY <2>3, <1>0, UpdateInv DEF BeginNetwork
  <2>4. CASE LiveSignal(r)
    BY <2>4, LiveFacts
  <2> QED BY <1>2, <2>1, <2>2, <2>3, <2>4
<1>3. CASE Time
  BY <1>3, <1>u DEF Time, Exit
<1>4. CASE TimeOutside \/ BeginPage \/ End \/ Relax \/ Stop \/ UNCHANGED vars
  BY <1>4, <1>u DEF TimeOutside, BeginPage, End, Relax, Stop, vars, Exit
<1>5. CASE Restart
  <2>1. NetworkRestart /\ NetType
    BY <1>5 DEF Restart, NetInv
  <2>2. /\ bases' = [b \in DOMAIN bases |-> [bases[b] EXCEPT !.pos = 0]]
        /\ replies' = <<>> /\ jar' = {} /\ chain' = {} /\ nextNum' = [u \in Urls |-> 0]
        /\ store' = [u \in Urls |-> {b \in DOMAIN bases : bases[b].url = u}]
    BY <2>1 DEF NetworkRestart
  <2>3. bases \in Seq(Base) /\ Len(bases) \in Nat /\ DOMAIN bases = 1..Len(bases)
    BY <2>1 DEF NetType
  <2>4. ASSUME NEW b \in DOMAIN bases
        PROVE  /\ bases'[b] \in Base /\ bases'[b].url = bases[b].url
               /\ bases'[b].entries = bases[b].entries /\ bases'[b].pos = 0
    <3>1. bases[b] \in Base /\ bases'[b] = [bases[b] EXCEPT !.pos = 0]
      BY <2>2, <2>3
    <3> QED BY <3>1 DEF Base
  <2>5. bases' \in Seq(Base) /\ DOMAIN bases' = DOMAIN bases
    <3>1. bases' \in [1..Len(bases) -> Base]
      BY <2>2, <2>3, <2>4
    <3> QED BY <3>1, <2>3
  <2>6. /\ store' \in [Urls -> SUBSET Nat]
        /\ \A u \in Urls : store'[u] = {b \in DOMAIN bases : bases[b].url = u}
    BY <2>2, <2>3
  <2>7. NetType'
    BY <2>2, <2>5, <2>6 DEF NetType
  <2>8. \A b \in DOMAIN bases' : EntriesOK(bases'[b].entries)
    BY <2>4, <2>5 DEF NetInv
  <2>9. \A u \in Urls : \A b \in store'[u] :
           b \in DOMAIN bases' /\ bases'[b].url = u /\ bases'[b].pos = 0
    BY <2>4, <2>5, <2>6
  <2>10. DOMAIN replies' = {}
    BY <2>2
  <2> QED BY <2>7, <2>8, <2>9, <2>10 DEF NetInv
<1> QED BY <1>1, <1>2, <1>3, <1>4, <1>5 DEF Next

\* The results of the steps of the page.
LEMMA ResultTypes ==
    /\ <<>> \in Seq(Seen)
    /\ \A v \in Nat : <<v>> \in Seq(Seen)
    /\ \A u \in Urls, a, b, c \in Nat : <<u, a, b, c>> \in Seq(Seen)
    /\ \A s \in Snapshot, j \in SUBSET Nat : <<s, j>> \in Seq(Seen)
    /\ \A j \in SUBSET Nat : <<"page", j>> \in Seq(Seen)
<1>1. \A x \in Seen : <<x>> \in Seq(Seen)
  OBVIOUS
<1>2. \A x, y \in Seen : <<x, y>> \in Seq(Seen)
  OBVIOUS
<1>3. \A x, y, z, w \in Seen : <<x, y, z, w>> \in Seq(Seen)
  OBVIOUS
<1>4. Urls \subseteq Seen /\ Nat \subseteq Seen /\ Snapshot \subseteq Seen /\ SUBSET Nat \subseteq Seen
      /\ "page" \in Seen
  BY DEF Seen
<1> QED BY <1>1, <1>2, <1>3, <1>4

\* A step of the page is added to the running event action.
LEMMA DoesFacts ==
    ASSUME SessionInv, cur # Idle, NEW op \in Ops, NEW arg \in Urls \cup Nat,
           NEW res \in Seq(Seen), Does(op, arg, res)
    PROVE  /\ cur' \in Item /\ cur'.desc = cur.desc /\ cur' # Idle /\ taken' \in Nat
           /\ Step(op, arg, res) \in StepType
           /\ Compared /\ ~Beyond => cur'.steps = Append(cur.steps, Step(op, arg, res))
<1>1. cur \in Item /\ cur.steps \in Seq(StepType) /\ taken \in Nat /\ cur.desc # None
  BY DEF SessionInv, Item
<1>2. Step(op, arg, res) \in StepType
  BY DEF Step, StepType
<1>3. Append(cur.steps, Step(op, arg, res)) \in Seq(StepType)
  BY <1>1, <1>2
<1>4. /\ taken' = IF Beyond THEN taken ELSE taken + 1
      /\ cur' = IF Compared /\ ~Beyond THEN [cur EXCEPT !.steps = Append(@, Step(op, arg, res))] ELSE cur
  BY DEF Does
<1>5. cur' \in Item /\ cur'.desc = cur.desc
  BY <1>1, <1>3, <1>4 DEF Item
<1>6. Compared /\ ~Beyond => cur'.steps = Append(cur.steps, Step(op, arg, res))
  BY <1>1, <1>4 DEF Item
<1>7. cur' # Idle
  BY <1>1, <1>5 DEF Idle
<1> QED BY <1>1, <1>2, <1>4, <1>5, <1>6, <1>7

\* The data logs keep their type.
LEMMA LogTypes ==
    ASSUME NEW log \in LogType, NEW d \in Descriptor, NEW v \in Nat
    PROVE  /\ Logged(log, d) \in Seq(Nat)
           /\ Extended(log, d, v) \in LogType
           /\ DOMAIN Extended(log, d, v) = DOMAIN log \cup {d}
           /\ Logged(Extended(log, d, v), d) = Append(Logged(log, d), v)
           /\ \A c : c # d => Logged(Extended(log, d, v), c) = Logged(log, c)
           /\ EmptyLog \in LogType /\ \A c : Logged(EmptyLog, c) = <<>>
<1>1. PICK D \in SUBSET Descriptor : log \in [D -> Seq(Nat)]
  BY DEF LogType
<1>2. Logged(log, d) \in Seq(Nat)
  BY <1>1 DEF Logged
<1> DEFINE ext == Extended(log, d, v)
<1>3. DOMAIN ext = D \cup {d} /\ DOMAIN log = D
  BY <1>1 DEF Extended
<1>4. ext \in [D \cup {d} -> Seq(Nat)]
  <2>1. ext = [e \in D \cup {d} |-> IF e = d THEN Append(Logged(log, d), v) ELSE log[e]]
    BY <1>1 DEF Extended
  <2>2. Append(Logged(log, d), v) \in Seq(Nat)
    BY <1>2
  <2> HIDE DEF ext
  <2> QED BY <2>1, <2>2, <1>1
<1>5. D \cup {d} \in SUBSET Descriptor
  OBVIOUS
<1>6. ext \in LogType
  BY <1>4, <1>5 DEF LogType
<1>7. Logged(ext, d) = Append(Logged(log, d), v)
  <2>1. ext[d] = Append(Logged(log, d), v) /\ d \in DOMAIN ext
    BY <1>1 DEF Extended
  <2> HIDE DEF ext
  <2> QED BY <2>1 DEF Logged
<1>8. \A c : c # d => Logged(ext, c) = Logged(log, c)
  <2> TAKE c
  <2> HAVE c # d
  <2>1. CASE c \in D
    <3>1. ext[c] = log[c] /\ c \in DOMAIN ext /\ c \in DOMAIN log
      BY <2>1, <1>1 DEF Extended
    <3> HIDE DEF ext
    <3> QED BY <3>1 DEF Logged
  <2>2. CASE c \notin D
    <3>1. c \notin DOMAIN ext /\ c \notin DOMAIN log
      BY <2>2, <1>3
    <3> HIDE DEF ext
    <3> QED BY <3>1 DEF Logged
  <2> QED BY <2>1, <2>2
<1>9. EmptyLog \in LogType /\ \A c : Logged(EmptyLog, c) = <<>>
  <2>1. EmptyLog \in [{} -> Seq(Nat)] /\ DOMAIN EmptyLog = {}
    BY DEF EmptyLog
  <2>2. {} \in SUBSET Descriptor
    OBVIOUS
  <2> QED BY <2>1, <2>2 DEF LogType, Logged
<1> QED BY <1>2, <1>3, <1>6, <1>7, <1>8, <1>9

\* A value is taken from a log.
LEMMA TakenFrom ==
    ASSUME NEW log \in LogType, NEW d, Logged(log, d) # <<>>
    PROVE  /\ d \in DOMAIN log /\ log[d] = Logged(log, d) /\ log[d] \in Seq(Nat)
           /\ [log EXCEPT ![d] = Tail(@)] \in LogType
           /\ DOMAIN [log EXCEPT ![d] = Tail(@)] = DOMAIN log
           /\ Logged([log EXCEPT ![d] = Tail(@)], d) = Tail(log[d])
           /\ \A c : c # d => Logged([log EXCEPT ![d] = Tail(@)], c) = Logged(log, c)
<1>1. PICK D \in SUBSET Descriptor : log \in [D -> Seq(Nat)]
  BY DEF LogType
<1>2. d \in DOMAIN log /\ d \in D /\ log[d] = Logged(log, d) /\ DOMAIN log = D
  BY <1>1 DEF Logged
<1>3. log[d] \in Seq(Nat) /\ Tail(log[d]) \in Seq(Nat)
  BY <1>1, <1>2
<1> DEFINE less == [log EXCEPT ![d] = Tail(@)]
<1>4. less \in [D -> Seq(Nat)]
  BY <1>1, <1>2, <1>3
<1>5. less[d] = Tail(log[d]) /\ DOMAIN less = D /\ \A c \in D : c # d => less[c] = log[c]
  BY <1>1, <1>2
<1>6. less \in LogType
  BY <1>4 DEF LogType
<1> HIDE DEF less
<1>7. Logged(less, d) = Tail(log[d]) /\ \A c : c # d => Logged(less, c) = Logged(log, c)
  BY <1>2, <1>5 DEF Logged
<1> QED BY <1>2, <1>3, <1>5, <1>6, <1>7 DEF less

\* A step of the page that changes neither mode nor logs keeps SessionInv.
LEMMA DoesSession ==
    ASSUME SessionInv, cur # Idle, NEW op \in Ops, NEW arg \in Urls \cup Nat,
           NEW res \in Seq(Seen), Does(op, arg, res),
           UNCHANGED <<phase, mode, script, done, current>>,
           inLog' \in LogType, outLog' \in LogType, clock' \in Nat
    PROVE  SessionInv'
<1>1. cur' \in Item /\ cur'.desc = cur.desc /\ cur' # Idle /\ taken' \in Nat
  BY DoesFacts
<1> QED BY <1>1 DEF SessionInv

\* A step that changes nothing of the session but the phase, to "exited".
LEMMA ExitSession ==
    ASSUME SessionInv, Exit
    PROVE  SessionInv'
BY DEF SessionInv, Exit, dataVars, Idle

\* An event action begins.
LEMMA BeginSession ==
    ASSUME SessionInv, NEW d \in Descriptor, NEW res \in Seq(Seen), d # None, MayBegin(d), Begin(d, res)
    PROVE  /\ SessionInv'
           /\ cur' # Idle /\ cur'.desc = d
           /\ Compared => cur'.steps = <<Step("begin", 0, res)>>
<1>1. cur' = [desc |-> d, steps |-> IF Compared THEN <<Step("begin", 0, res)>> ELSE <<>>]
  BY DEF Begin
<1>2. (IF Compared THEN <<Step("begin", 0, res)>> ELSE <<>>) \in Seq(StepType)
  <2>1. Step("begin", 0, res) \in StepType
    BY DEF Step, StepType, Ops
  <2> QED BY <2>1
<1>3. cur' \in Item /\ cur'.desc = d /\ (Compared => cur'.steps = <<Step("begin", 0, res)>>)
  BY <1>1, <1>2 DEF Item
<1>4. cur' # Idle
  BY <1>3 DEF Idle
<1>5. /\ current' = IF mode = "STOP" THEN None ELSE d
      /\ UNCHANGED <<inLog, outLog, clock, phase, mode, script, done, taken>>
  BY DEF Begin
<1>6. SessionInv'
  BY <1>3, <1>4, <1>5 DEF SessionInv
<1> QED BY <1>3, <1>4, <1>6

\* A mode change forgets what was compared.
LEMMA ForgetSession ==
    ASSUME SessionInv, cur = Idle, Forget, mode' \in {"STOP", "BEST_EFFORT"}, phase # "record",
           UNCHANGED <<dataVars, phase, cur>>
    PROVE  SessionInv'
<1>1. /\ script' = <<>> /\ done' = [i \in DOMAIN done |-> [done[i] EXCEPT !.steps = <<>>]]
      /\ taken' \in Nat
  BY DEF Forget, SessionInv
<1>2. done \in Seq(Item) /\ Len(done) \in Nat /\ DOMAIN done = 1..Len(done)
  BY DEF SessionInv
<1>3. ASSUME NEW i \in DOMAIN done PROVE [done[i] EXCEPT !.steps = <<>>] \in Item
  <2>1. done[i] \in Item /\ <<>> \in Seq(StepType)
    BY <1>2
  <2> QED BY <2>1 DEF Item
<1>4. done' \in [1..Len(done) -> Item]
  BY <1>1, <1>2, <1>3
<1>5. done' \in Seq(Item) /\ script' \in Seq(Item)
  BY <1>1, <1>2, <1>4
<1> QED BY <1>1, <1>5 DEF SessionInv, dataVars

\* The time is read.
LEMMA TimeSession ==
    ASSUME SessionInv, cur # Idle, NEW v \in 0..clock, Does("time", 0, <<v>>),
           UNCHANGED <<phase, mode, script, done>>,
           \/ mode = "STOP" /\ currentTimeLive(cur.desc, None, v)
           \/ mode # "STOP" /\ currentTimeLogged(cur.desc, None, v)
           \/ mode = "BEST_EFFORT" /\ currentTimeNew(cur.desc, None, v)
    PROVE  /\ SessionInv' /\ UNCHANGED current
           /\ outLog' = Extended(outLog, cur.desc, v)
           /\ mode = "STRICT" => /\ Logged(inLog, cur.desc) # <<>> /\ v = Head(inLog[cur.desc])
                                 /\ inLog' = [inLog EXCEPT ![cur.desc] = Tail(@)]
<1>1. /\ clock \in Nat /\ v \in Nat /\ inLog \in LogType /\ outLog \in LogType
      /\ cur.desc # None /\ cur.desc \in Descriptor /\ <<v>> \in Seq(Seen)
      /\ mode # "STOP" => current = cur.desc
  BY ResultTypes DEF SessionInv, Item
<1>2. /\ clock' = clock + 1 /\ UNCHANGED current /\ outLog' = Extended(outLog, cur.desc, v)
  BY <1>1 DEF currentTimeLive, currentTimeLogged, currentTimeNew, logTimeAccess
<1>3. CASE mode # "STOP" /\ currentTimeLogged(cur.desc, None, v)
  <2>1. /\ Logged(inLog, cur.desc) # <<>> /\ v = Head(inLog[cur.desc])
        /\ inLog' = [inLog EXCEPT ![cur.desc] = Tail(@)]
    BY <1>1, <1>3 DEF currentTimeLogged
  <2>2. inLog' \in LogType
    BY <2>1, <1>1, TakenFrom
  <2>3. outLog' \in LogType
    BY <1>1, <1>2, LogTypes
  <2>4. clock' \in Nat
    BY <1>1, <1>2
  <2>5. SessionInv'
    BY <2>2, <2>3, <2>4, <1>1, <1>2, DoesSession DEF Ops
  <2> QED BY <2>1, <2>5, <1>2
<1>4. CASE mode # "STRICT" /\ UNCHANGED inLog
  <2>3. outLog' \in LogType
    BY <1>1, <1>2, LogTypes
  <2>4. clock' \in Nat /\ inLog' \in LogType
    BY <1>1, <1>2, <1>4
  <2>5. SessionInv'
    BY <2>3, <2>4, <1>1, <1>2, DoesSession DEF Ops
  <2> QED BY <2>5, <1>2, <1>4
<1>5. \/ mode # "STOP" /\ currentTimeLogged(cur.desc, None, v)
      \/ mode # "STRICT" /\ UNCHANGED inLog
  BY DEF currentTimeLive, currentTimeNew
<1> QED BY <1>3, <1>4, <1>5

\* What a reply is waiting for is a descriptor, and its first signal a snapshot.
LEMMA WaitingTypes ==
    ASSUME NetInv, NEW r \in DOMAIN replies, replies[r].waiting # None
    PROVE  /\ replies[r].waiting \in Descriptor
           /\ Head(replies[r].queue) \in Snapshot
           /\ replies[r].waiting.type = "Network"
<1>1. replies[r] \in Reply
  BY SameBases
<1>2. replies[r].waiting \in Descriptor /\ replies[r].queue \in Seq(Snapshot)
  BY <1>1 DEF Reply
<1>3. replies[r].queue # <<>>
  BY WaitingReply
<1>4. Head(replies[r].queue) \in Snapshot
  BY <1>2, <1>3, HeadIsFirst
<1>5. replies[r].waiting.type = "Network"
  <2> DEFINE e == bases[replies[r].base].entries
             n == Released(replies[r], e)
  <2>1. replies[r].waiting = Signal(replies[r].url, replies[r].num, e, n + 1)
    BY WaitingReply
  <2> HIDE DEF e, n
  <2> QED BY <2>1 DEF Signal, Network
<1> QED BY <1>2, <1>4, <1>5

\* Every step keeps SessionInv.
LEMMA SessionStep ==
    ASSUME NetInv, SessionInv, [Next]_vars
    PROVE  SessionInv'
<1>0. NetInv'
  BY NetStep
<1>1. ASSUME NEW u \in Urls, Request(u) PROVE SessionInv'
  <2>1. CASE Exit
    BY <2>1, ExitSession
  <2>2. CASE Does("request", u, <<>>) /\ UNCHANGED <<dataVars, phase, mode, script, done>>
    <3>1. cur # Idle /\ <<>> \in Seq(Seen)
      BY <1>1, ResultTypes DEF Request, MayDo
    <3>2. inLog' \in LogType /\ outLog' \in LogType /\ clock' \in Nat /\ UNCHANGED current
      BY <2>2 DEF SessionInv, dataVars
    <3> QED BY <2>2, <3>1, <3>2, DoesSession DEF Ops
  <2> QED BY <1>1, <2>1, <2>2 DEF Request
<1>2. ASSUME NEW r \in DOMAIN replies, Read(r) PROVE SessionInv'
  <2> DEFINE base == bases[replies[r].base]
             res == <<base.url, base.num, base.pos, replies[r].size>>
  <2>1. base \in Base /\ replies[r] \in Reply /\ r \in Nat
    BY SameBases DEF NetInv, NetType
  <2>2. res \in Seq(Seen)
    <3>1. base.url \in Urls /\ base.num \in Nat /\ base.pos \in Nat /\ replies[r].size \in Nat
      BY <2>1 DEF Base, Reply
    <3> QED BY <3>1, ResultTypes
  <2>3. cur # Idle /\ Does("read", r, res) /\ UNCHANGED <<dataVars, phase, mode, script, done>>
    BY <1>2 DEF Read, MayDo
  <2>4. inLog' \in LogType /\ outLog' \in LogType /\ clock' \in Nat /\ UNCHANGED current
    BY <2>3 DEF SessionInv, dataVars
  <2> HIDE DEF res
  <2> QED BY <2>1, <2>2, <2>3, <2>4, DoesSession DEF Ops
<1>3. ASSUME NEW r \in DOMAIN replies, Abort(r) PROVE SessionInv'
  <2>1. r \in Nat /\ <<>> \in Seq(Seen)
    BY ResultTypes DEF NetInv, NetType
  <2>3. cur # Idle /\ Does("abort", r, <<>>) /\ UNCHANGED <<dataVars, phase, mode, script, done>>
    BY <1>3 DEF Abort, MayDo
  <2>4. inLog' \in LogType /\ outLog' \in LogType /\ clock' \in Nat /\ UNCHANGED current
    BY <2>3 DEF SessionInv, dataVars
  <2> QED BY <2>1, <2>3, <2>4, DoesSession DEF Ops
<1>4. ASSUME NEW r \in DOMAIN replies, BeginNetwork(r) PROVE SessionInv'
  <2>1. replies[r].waiting # None
    BY <1>4 DEF BeginNetwork, updateSnapshot
  <2>2. replies[r].waiting \in Descriptor /\ Head(replies[r].queue) \in Snapshot
    BY <2>1, WaitingTypes
  <2>3. jar' \in SUBSET Nat
    BY <1>0 DEF NetInv, NetType
  <2>4. <<Head(replies[r].queue), jar'>> \in Seq(Seen)
    BY <2>2, <2>3, ResultTypes
  <2> QED BY <1>4, <2>1, <2>2, <2>4, BeginSession DEF BeginNetwork
<1>5. ASSUME NEW r \in DOMAIN replies, LiveSignal(r) PROVE SessionInv'
  BY <1>5 DEF LiveSignal, dataVars, sessionVars, SessionInv, Idle
<1>6. CASE Time
  <2>1. CASE Exit
    BY <2>1, ExitSession
  <2>2. ASSUME NEW v \in 0..clock,
               /\ \/ mode = "STOP" /\ currentTimeLive(cur.desc, None, v)
                  \/ mode # "STOP" /\ currentTimeLogged(cur.desc, None, v)
                  \/ mode = "BEST_EFFORT" /\ currentTimeNew(cur.desc, None, v)
               /\ Does("time", 0, <<v>>)
               /\ UNCHANGED <<networkVars, phase, mode, script, done>>
        PROVE  SessionInv'
    <3>1. cur # Idle
      BY <1>6 DEF Time, MayDo
    <3> QED BY <2>2, <3>1, TimeSession
  <2> QED BY <1>6, <2>1, <2>2 DEF Time
<1>7. CASE TimeOutside
  BY <1>7, ExitSession DEF TimeOutside
<1>8. CASE BeginPage
  <2> DEFINE pages == {i \in DOMAIN done : done[i].desc.type = "Page"}
             d == Page(Cardinality(pages))
  <2>1. Cardinality(pages) \in Nat
    <3>1. done \in Seq(Item)
      BY DEF SessionInv
    <3>2. Len(done) \in Nat /\ DOMAIN done = 1..Len(done)
      BY <3>1
    <3>3. IsFiniteSet(1..Len(done))
      BY <3>2, FS_Interval
    <3>4. IsFiniteSet(pages)
      BY <3>2, <3>3, FS_Subset
    <3> QED BY <3>4, FS_CardinalityType
  <2> HIDE DEF pages
  <2>2. d \in Descriptor /\ d # None
    BY <2>1 DEF Page, Descriptor, None
  <2>3. <<"page", jar>> \in Seq(Seen)
    BY ResultTypes DEF NetInv, NetType
  <2>4. MayBegin(d) /\ Begin(d, <<"page", jar>>)
    BY <1>8 DEF BeginPage, pages
  <2> QED BY <2>2, <2>3, <2>4, BeginSession
<1>9. CASE End
  <2>1. /\ done' = Append(done, cur) /\ cur' = Idle /\ current' = None
        /\ UNCHANGED <<inLog, outLog, clock, phase, mode, script, taken>>
    BY <1>9 DEF End
  <2>2. Idle \in Item
    <3>1. <<>> \in Seq(StepType) /\ None \in Descriptor
      BY NoneType
    <3> QED BY <3>1 DEF Idle, Item
  <2>3. done' \in Seq(Item)
    BY <2>1 DEF SessionInv
  <2> QED BY <2>1, <2>2, <2>3 DEF SessionInv
<1>10. CASE Restart
  <2>1. /\ phase' = "replay" /\ mode' = "STRICT" /\ cur' = Idle
        /\ script' = Trace /\ done' = <<>> /\ taken' = 0 /\ Trace \in Seq(Item)
        /\ inLog' = outLog /\ outLog' = EmptyLog /\ current' = None /\ UNCHANGED clock
    BY <1>10, TraceFacts DEF Restart, DataRestart
  <2>2. EmptyLog \in LogType
    BY LogTypes, NoneType DEF SessionInv
  <2>3. <<>> \in Seq(Item) /\ Idle \in Item
    <3>1. <<>> \in Seq(StepType) /\ None \in Descriptor
      BY NoneType
    <3> QED BY <3>1 DEF Idle, Item
  <2> QED BY <2>1, <2>2, <2>3 DEF SessionInv
<1>11. CASE Relax
  BY <1>11, ForgetSession DEF Relax, Strict
<1>12. CASE Stop
  BY <1>12, ForgetSession DEF Stop
<1>13. CASE UNCHANGED vars
  BY <1>13 DEF vars, dataVars, sessionVars, SessionInv, Idle
<1> QED BY <1>1, <1>2, <1>3, <1>4, <1>5, <1>6, <1>7, <1>8, <1>9, <1>10, <1>11, <1>12, <1>13 DEF Next

\* A function on 1..n is a sequence.
LEMMA FunctionIsSeq ==
    ASSUME NEW S, NEW n \in Nat, NEW f \in [1..n -> S]
    PROVE  f \in Seq(S) /\ Len(f) = n /\ DOMAIN f = 1..n
OBVIOUS

\* The end of a sequence is a suffix of it.
LEMMA EndIsSuffix ==
    ASSUME NEW S, NEW q \in Seq(S), NEW e \in Seq(S), NEW n \in Nat, n + Len(q) = Len(e),
           \A k \in 1..Len(q) : q[k] = e[n + k]
    PROVE  IsSuffix(q, e)
<1> DEFINE a == Reverse(q)
           b == Reverse(e)
<1>1. Len(q) \in Nat /\ Len(e) \in Nat /\ Len(q) <= Len(e)
  OBVIOUS
<1>2. /\ a = [i \in 1..Len(q) |-> q[(Len(q) - i) + 1]]
      /\ b = [i \in 1..Len(e) |-> e[(Len(e) - i) + 1]]
  BY DEF Reverse
<1>3. a \in [1..Len(q) -> S] /\ b \in [1..Len(e) -> S]
  <2>1. \A i \in 1..Len(q) : (Len(q) - i) + 1 \in 1..Len(q)
    BY <1>1
  <2>2. \A i \in 1..Len(e) : (Len(e) - i) + 1 \in 1..Len(e)
    BY <1>1
  <2> HIDE DEF a, b
  <2> QED BY <2>1, <2>2, <1>2
<1>4. ASSUME NEW i \in 1..Len(q) PROVE a[i] = b[i]
  <2>1. (Len(q) - i) + 1 \in 1..Len(q) /\ i \in 1..Len(e)
    BY <1>1
  <2>2. n + ((Len(q) - i) + 1) = (Len(e) - i) + 1
    BY <1>1
  <2>3. a[i] = q[(Len(q) - i) + 1] /\ b[i] = e[(Len(e) - i) + 1]
    BY <2>1, <1>2
  <2> QED BY <2>1, <2>2, <2>3
<1> HIDE DEF a, b
<1>5. a \in Seq(S) /\ b \in Seq(S) /\ Len(a) = Len(q) /\ Len(b) = Len(e)
  BY <1>1, <1>3, FunctionIsSeq
<1>6. SubSeq(a, 1, Len(a)) = SubSeq(b, 1, Len(a))
  <2>1. /\ SubSeq(a, 1, Len(a)) = [i \in 1..Len(q) |-> a[i]]
        /\ SubSeq(b, 1, Len(a)) = [i \in 1..Len(q) |-> b[i]]
    BY <1>1, <1>5
  <2> QED BY <2>1, <1>4
<1> QED BY <1>1, <1>5, <1>6 DEF IsSuffix, IsPrefix, a, b

\* The initial state.
LEMMA InitNetInv == Init => NetInv /\ SessionInv
<1> SUFFICES ASSUME Init PROVE NetInv /\ SessionInv
  OBVIOUS
<1>1. /\ bases = <<>> /\ replies = <<>> /\ store = [u \in Urls |-> {}]
      /\ nextNum = [u \in Urls |-> 0] /\ jar = {} /\ chain = {}
  BY DEF Init, NetworkInit
<1>2. /\ inLog = EmptyLog /\ outLog = EmptyLog /\ current = None /\ clock = 0
      /\ phase = "record" /\ mode = "STOP"
      /\ script = <<>> /\ done = <<>> /\ cur = Idle /\ taken = 0
  BY DEF Init, DataInit
<1>3. NetType
  BY <1>1 DEF NetType
<1>4. NetInv
  BY <1>1, <1>3 DEF NetInv
<1>5. EmptyLog \in LogType
  <2>1. EmptyLog \in [{} -> Seq(Nat)]
    BY DEF EmptyLog
  <2>2. {} \in SUBSET Descriptor
    OBVIOUS
  <2> QED BY <2>1, <2>2 DEF LogType
<1>6. Idle \in Item
  <2>1. <<>> \in Seq(StepType) /\ None \in Descriptor
    BY NoneType
  <2> QED BY <2>1 DEF Idle, Item
<1>7. SessionInv
  BY <1>2, <1>5, <1>6 DEF SessionInv
<1> QED BY <1>4, <1>7

\* NetInv and SessionInv hold in every state.
LEMMA NetAlways == Spec => [](NetInv /\ SessionInv)
<1>1. NetInv /\ SessionInv /\ [Next]_vars => (NetInv /\ SessionInv)'
  BY NetStep, SessionStep
<1> QED BY <1>1, InitNetInv, PTL DEF Spec

\* A recorded reply answers at most one request, whatever fuzzy matches are made; its
\* stream is not read past the snapshot that was released, and a reply with signals left
\* waits for the scheduler (network.cpp, QNetworkReplyControllable).
THEOREM OneReader == Spec => []OneReaderPerReply
<1>1. NetInv => OneReaderPerReply
  <2> SUFFICES ASSUME NetInv PROVE OneReaderPerReply
    OBVIOUS
  <2>1. \A r, s \in DOMAIN replies : replies[r].base = replies[s].base => r = s
    BY DEF NetInv
  <2>2. ASSUME NEW r \in DOMAIN replies
        PROVE  LET reply == replies[r]
                   base == bases[reply.base]
               IN  /\ reply.open => IsSuffix(reply.queue, base.entries)
                   /\ base.pos <= reply.size
                   /\ reply.queue # <<>> <=> reply.waiting # None
    <3> DEFINE reply == replies[r]
               base == bases[reply.base]
               e == base.entries
    <3>1. reply \in Reply /\ base \in Base /\ ReplyOK(reply, base)
      BY SameBases
    <3>2. reply.queue \in Seq(Snapshot) /\ e \in Seq(Snapshot)
      BY <3>1 DEF Reply, Base
    <3> HIDE DEF reply, e
    <3>3. ASSUME reply.open PROVE IsSuffix(reply.queue, e)
      <4>1. QueueOK(reply, e)
        BY <3>1, <3>3 DEF ReplyOK, e
      <4>2. /\ Released(reply, e) \in Nat /\ Released(reply, e) + Len(reply.queue) = Len(e)
            /\ \A k \in 1..Len(reply.queue) : reply.queue[k] = e[Released(reply, e) + k]
        BY <4>1, <3>1, <3>2, ReleasedCount DEF QueueOK
      <4> QED BY <4>2, <3>2, EndIsSuffix
    <3>4. reply.queue # <<>> <=> reply.waiting # None
      <4>1. CASE ~reply.open
        BY <4>1, <3>1 DEF ReplyOK
      <4>2. CASE reply.open
        BY <4>2, <3>1, SignalNotNone DEF ReplyOK, NumberOK, Signal
      <4> QED BY <4>1, <4>2
    <3>5. base.pos <= reply.size
      BY <3>1 DEF ReplyOK
    <3> QED BY <3>3, <3>4, <3>5 DEF reply, e
  <2> QED BY <2>1, <2>2 DEF OneReaderPerReply
<1> QED BY <1>1, NetAlways, PTL

-----------------------------------------------------------------------------
(* What tells replies apart, and the chain of the event actions of a reply. *)

\* In a recording and in its strict replay the URL and the number tell replies apart.
IdentInv ==
    /\ Compared =>
         /\ \A b, c \in DOMAIN bases :
              (bases[b].url = bases[c].url /\ bases[b].num = bases[c].num) => b = c
         /\ \A r \in DOMAIN replies :
              /\ replies[r].url = bases[replies[r].base].url
              /\ replies[r].num = bases[replies[r].base].num
    /\ phase = "record" => \A b \in DOMAIN bases : bases[b].num < nextNum[bases[b].url]

\* Nothing but the recording and a strict replay of it is compared.
LEMMA ComparedFacts ==
    ASSUME NetInv, SessionInv, [Next]_vars, Compared'
    PROVE  Compared /\ (phase' = "record" => phase = "record")
<1>1. CASE Restart
  BY <1>1 DEF Restart, Compared
<1>2. CASE Exit
  BY <1>2 DEF Exit, Compared, SessionInv
<1>3. CASE Relax \/ Stop
  BY <1>3 DEF Relax, Stop, Compared, Strict, SessionInv
<1>4. CASE UNCHANGED <<phase, mode>>
  BY <1>4 DEF Compared
<1>5. \/ Restart \/ Exit \/ Relax \/ Stop \/ UNCHANGED <<phase, mode>>
  BY DEF Next, vars, sessionVars, Request, Read, Abort, BeginNetwork, Begin, LiveSignal, Time,
         TimeOutside, BeginPage, End
<1> QED BY <1>1, <1>2, <1>3, <1>4, <1>5

\* A step that keeps URLs and numbers keeps IdentInv.
LEMMA IdentSame ==
    ASSUME IdentInv, Compared' => Compared, phase' = "record" => phase = "record",
           DOMAIN bases' = DOMAIN bases, DOMAIN replies' = DOMAIN replies,
           \A b \in DOMAIN bases : bases'[b].url = bases[b].url /\ bases'[b].num = bases[b].num,
           \A r \in DOMAIN replies : /\ replies'[r].url = replies[r].url
                                     /\ replies'[r].num = replies[r].num
                                     /\ replies'[r].base = replies[r].base
                                     /\ replies[r].base \in DOMAIN bases,
           UNCHANGED nextNum
    PROVE  IdentInv'
BY DEF IdentInv

\* A step keeps what identifies the bases and replies that are there already.
KeepsOld ==
    /\ DOMAIN bases \subseteq DOMAIN bases' /\ DOMAIN replies \subseteq DOMAIN replies'
    /\ \A b \in DOMAIN bases : bases'[b].url = bases[b].url /\ bases'[b].num = bases[b].num
    /\ \A r \in DOMAIN replies : /\ replies'[r].url = replies[r].url
                                 /\ replies'[r].num = replies[r].num
                                 /\ replies'[r].base = replies[r].base
                                 /\ replies'[r].creator = replies[r].creator
                                 /\ ~BeginNetwork(r) => replies'[r].last = replies[r].last
    /\ chain \subseteq chain'

\* A step makes no reply.
MakesNone == DOMAIN bases' = DOMAIN bases /\ DOMAIN replies' = DOMAIN replies /\ nextNum' = nextNum

\* Only a restart forgets replies, and only a request makes one.
LEMMA OldReplies ==
    ASSUME NetInv, SessionInv, [Next]_vars, ~Restart
    PROVE  KeepsOld /\ ((\A u \in Urls : ~Request(u)) => MakesNone)
<1>0. /\ bases \in Seq(Base) /\ replies \in Seq(Reply) /\ Len(bases) \in Nat /\ Len(replies) \in Nat
      /\ DOMAIN bases = 1..Len(bases) /\ DOMAIN replies = 1..Len(replies)
  BY DEF NetInv, NetType
<1>1. ASSUME UNCHANGED networkVars PROVE KeepsOld /\ MakesNone
  BY <1>1 DEF networkVars, KeepsOld, MakesNone
<1>2. ASSUME NEW u \in Urls, Request(u) PROVE KeepsOld
  <2>1. CASE Live(u, Id)
    <3>1. /\ \E x : bases' = Append(bases, x)
          /\ \E x : replies' = Append(replies, x)
          /\ chain' = chain
      BY <2>1 DEF Live
    <3>2. /\ DOMAIN bases \subseteq DOMAIN bases' /\ DOMAIN replies \subseteq DOMAIN replies'
          /\ \A b \in DOMAIN bases : bases'[b] = bases[b]
          /\ \A r \in DOMAIN replies : replies'[r] = replies[r]
      BY <3>1, <1>0
    <3> QED BY <3>1, <3>2 DEF KeepsOld
  <2>2. ASSUME NEW b, Replayed(u, Id, b) PROVE KeepsOld
    <3>1. /\ \E x : replies' = Append(replies, x)
          /\ chain' = chain /\ bases' = bases
      BY <2>2 DEF Replayed
    <3>2. /\ DOMAIN replies \subseteq DOMAIN replies'
          /\ \A r \in DOMAIN replies : replies'[r] = replies[r]
      BY <3>1, <1>0
    <3> QED BY <3>1, <3>2 DEF KeepsOld
  <2>3. CASE Exit
    BY <2>3, <1>1 DEF Exit
  <2>4. Live(u, Id) \/ (\E b : Replayed(u, Id, b)) \/ Exit
    BY <1>2 DEF Request, ConstructExact, ConstructFuzzy, ConstructUnmatched
  <2> QED BY <2>1, <2>2, <2>3, <2>4
<1>3. ASSUME NEW r \in DOMAIN replies, Read(r) PROVE KeepsOld /\ MakesNone
  <2>1. /\ replies[r].base \in DOMAIN bases /\ bases[replies[r].base] \in Base
        /\ UNCHANGED <<replies, store, nextNum, jar, chain>>
        /\ bases' = [bases EXCEPT ![replies[r].base] =
                       [bases[replies[r].base] EXCEPT !.pos = replies[r].size]]
    BY <1>3, SameBases, ReadInv DEF Read, read, NetInv
  <2>2. DOMAIN bases' = DOMAIN bases
    BY <2>1
  <2>3. ASSUME NEW b \in DOMAIN bases PROVE bases'[b].url = bases[b].url /\ bases'[b].num = bases[b].num
    BY <2>1 DEF Base
  <2> QED BY <2>1, <2>2, <2>3 DEF KeepsOld, MakesNone
<1>4. ASSUME NEW r \in DOMAIN replies, Abort(r) PROVE KeepsOld /\ MakesNone
  <2>1. /\ replies[r] \in Reply /\ replies' = [replies EXCEPT ![r] = release(@)]
        /\ UNCHANGED <<bases, store, nextNum, jar, chain>>
    BY <1>4, SameBases DEF Abort, Release
  <2>2. /\ release(replies[r]).url = replies[r].url /\ release(replies[r]).num = replies[r].num
        /\ release(replies[r]).base = replies[r].base
        /\ release(replies[r]).creator = replies[r].creator
        /\ release(replies[r]).last = replies[r].last
    BY <2>1 DEF release, Reply
  <2>3. /\ DOMAIN replies' = DOMAIN replies /\ replies'[r] = release(replies[r])
        /\ \A s \in DOMAIN replies : s # r => replies'[s] = replies[s]
    BY <2>1
  <2> QED BY <2>1, <2>2, <2>3 DEF KeepsOld, MakesNone
<1>5. ASSUME NEW r \in DOMAIN replies, BeginNetwork(r) PROVE KeepsOld /\ MakesNone
  <2>1. updateSnapshot(r, Len(done) + 1) /\ Len(done) + 1 \in Nat
    BY <1>5, TraceFacts DEF BeginNetwork
  <2>2. chain \subseteq chain'
    BY <2>1 DEF updateSnapshot
  <2>3. /\ bases' = bases /\ nextNum' = nextNum
        /\ \E new \in Reply :
              /\ replies' = [replies EXCEPT ![r] = new]
              /\ new.url = replies[r].url /\ new.num = replies[r].num /\ new.base = replies[r].base
              /\ new.creator = replies[r].creator
    BY <2>1, UpdateInv
  <2>4. PICK new \in Reply :
              /\ replies' = [replies EXCEPT ![r] = new]
              /\ new.url = replies[r].url /\ new.num = replies[r].num /\ new.base = replies[r].base
              /\ new.creator = replies[r].creator
    BY <2>3
  <2>5. /\ DOMAIN replies' = DOMAIN replies /\ replies'[r] = new
        /\ \A s \in DOMAIN replies : s # r => replies'[s] = replies[s]
    BY <2>4
  <2> QED BY <2>2, <2>3, <2>4, <2>5, <1>5 DEF KeepsOld, MakesNone
<1>6. ASSUME NEW r \in DOMAIN replies, LiveSignal(r) PROVE KeepsOld /\ MakesNone
  <2>1. /\ UNCHANGED <<store, nextNum, jar, chain>>
        /\ \E new \in Reply, snap \in Snapshot : Delivers(r, new, snap)
    BY <1>6, LiveFacts
  <2>2. PICK new \in Reply, snap \in Snapshot :
              /\ bases' = [bases EXCEPT ![replies[r].base] =
                   [bases[replies[r].base] EXCEPT
                      !.entries = Append(bases[replies[r].base].entries, snap)]]
              /\ replies' = [replies EXCEPT ![r] = new]
              /\ new.url = replies[r].url /\ new.num = replies[r].num /\ new.base = replies[r].base
              /\ new.creator = replies[r].creator /\ new.last = replies[r].last
    BY <2>1 DEF Delivers
  <2>3. /\ DOMAIN replies' = DOMAIN replies /\ replies'[r] = new
        /\ \A s \in DOMAIN replies : s # r => replies'[s] = replies[s]
    BY <2>2
  <2>4. DOMAIN bases' = DOMAIN bases /\ bases[replies[r].base] \in Base
    BY <2>2, SameBases
  <2>5. ASSUME NEW b \in DOMAIN bases PROVE bases'[b].url = bases[b].url /\ bases'[b].num = bases[b].num
    BY <2>2, <2>4 DEF Base
  <2> QED BY <2>1, <2>2, <2>3, <2>4, <2>5 DEF KeepsOld, MakesNone
<1>7. CASE Time
  BY <1>7, <1>1 DEF Time, Exit
<1>8. CASE TimeOutside \/ BeginPage \/ End \/ Relax \/ Stop \/ UNCHANGED vars
  BY <1>8, <1>1 DEF TimeOutside, BeginPage, End, Relax, Stop, vars, Exit
<1>9. KeepsOld
  BY <1>2, <1>3, <1>4, <1>5, <1>6, <1>7, <1>8 DEF Next
<1>10. ASSUME \A u \in Urls : ~Request(u) PROVE MakesNone
  BY <1>3, <1>4, <1>5, <1>6, <1>7, <1>8, <1>10 DEF Next
<1> QED BY <1>9, <1>10

\* What a request makes, in a recording and in a strict replay.
MakesLive(u, new) ==
    /\ phase = "record"
    /\ new.base = Len(bases) + 1 /\ new.num = nextNum[u] /\ new.queue = <<>> /\ new.live
    /\ bases' = Append(bases, [url |-> u, num |-> nextNum[u], pos |-> 0, entries |-> <<>>])
    /\ nextNum' = [nextNum EXCEPT ![u] = @ + 1]
    /\ store' = store

MakesReplayed(u, new) ==
    /\ mode = "STRICT" /\ store[u] # {}
    /\ new.base = Min(store[u]) /\ new.base \in store[u] /\ new.num = bases[new.base].num
    /\ new.queue = bases[new.base].entries /\ ~new.live
    /\ bases' = bases /\ nextNum' = nextNum
    /\ store' = [store EXCEPT ![u] = @ \ {Min(@)}]

Makes(u, new) ==
    /\ replies' = Append(replies, new)
    /\ new.url = u /\ new.creator = Id /\ new.last = 0 /\ new.open
    /\ UNCHANGED <<jar, chain>>
    /\ MakesLive(u, new) \/ MakesReplayed(u, new)

\* A request of a process that is compared.
LEMMA RequestFacts ==
    ASSUME NetInv, SessionInv, Compared, NEW u \in Urls, Request(u)
    PROVE  \/ Exit /\ mode = "STRICT" /\ ~Hit(u)
           \/ /\ Does("request", u, <<>>)
              /\ UNCHANGED <<dataVars, phase, mode, script, done>>
              /\ \E new \in Reply : Makes(u, new)
<1>0. Id \in Nat /\ NetType /\ Len(bases) \in Nat
  BY TraceFacts DEF NetInv, NetType
<1>1. mode = "BEST_EFFORT" => FALSE
  BY DEF Compared, SessionInv
<1>2. CASE mode = "STOP" /\ Live(u, Id)
  <2>1. phase = "record"
    BY <1>2 DEF Compared
  <2> DEFINE c == Controllable(u, Len(bases) + 1, nextNum[u], 0, Id)
             new == [c EXCEPT !.live = TRUE]
  <2>2. /\ bases' = Append(bases, [url |-> u, num |-> nextNum[u], pos |-> 0, entries |-> <<>>])
        /\ nextNum' = [nextNum EXCEPT ![u] = @ + 1]
        /\ replies' = Append(replies, new)
        /\ UNCHANGED <<store, jar, chain>>
    BY <1>2 DEF Live
  <2>3. nextNum[u] \in Nat /\ Len(bases) + 1 \in Nat
    BY <1>0 DEF NetType
  <2>4. /\ c \in Reply /\ c.url = u /\ c.base = Len(bases) + 1 /\ c.num = nextNum[u]
        /\ c.queue = <<>> /\ c.open /\ c.last = 0 /\ c.creator = Id
    BY <2>3, <1>0, ControllableType, SMTT(60)
  <2> HIDE DEF c
  <2>5. /\ new \in Reply /\ new.url = u /\ new.base = Len(bases) + 1 /\ new.num = nextNum[u]
        /\ new.queue = <<>> /\ new.open /\ new.last = 0 /\ new.creator = Id /\ new.live
    BY <2>4 DEF Reply
  <2> HIDE DEF new
  <2>6. MakesLive(u, new)
    BY <2>1, <2>2, <2>5 DEF MakesLive
  <2>7. Makes(u, new)
    BY <2>2, <2>5, <2>6 DEF Makes
  <2> QED BY <1>1, <1>2, <2>5, <2>7 DEF Request, Exit, Live
<1>3. CASE mode = "STRICT" /\ ConstructExact(u, Id)
  <2> DEFINE b == Min(store[u])
             new == enqueueAll(Controllable(u, b, bases[b].num, 0, Id), bases[b].entries)
  <2>1. /\ store[u] # {} /\ replies' = Append(replies, new)
        /\ bases' = bases /\ nextNum' = nextNum /\ UNCHANGED <<jar, chain>>
        /\ store' = [store EXCEPT ![u] = @ \ {Min(@)}]
    BY <1>3 DEF ConstructExact, Hit, Replayed
  <2>2. b \in store[u] /\ b \in Nat
    BY <1>0, <2>1, MinOfStore DEF NetType
  <2>3. bases[b] \in Base /\ EntriesOK(bases[b].entries)
    BY <2>2, <1>0 DEF NetInv, NetType
  <2>4. bases[b].num \in Nat /\ bases[b].entries \in Seq(Snapshot)
    BY <2>3 DEF Base
  <2>b. b = Min(store[u])
    OBVIOUS
  <2> HIDE DEF b
  <2>5. /\ new \in Reply /\ new.url = u /\ new.base = b /\ new.num = bases[b].num
        /\ new.queue = bases[b].entries /\ new.open /\ ~new.live /\ new.last = 0
        /\ new.creator = Id
    <3>1. PICK id \in Nat : id = Id
      BY <1>0
    <3>2. PICK num \in Nat : num = bases[b].num
      BY <2>4
    <3>3. PICK e \in Seq(Snapshot) : e = bases[b].entries
      BY <2>4
    <3>4. b \in Nat /\ EntriesOK(e)
      BY <3>3, <2>2, <2>3
    <3>5. PICK s : s = enqueueAll(Controllable(u, b, num, 0, id), e)
      OBVIOUS
    <3>6. /\ s \in Reply /\ s.url = u /\ s.base = b /\ s.num = num
          /\ s.queue = e /\ s.open /\ ~s.live /\ s.last = 0 /\ s.creator = id
      BY <3>4, <3>5, EnqueueAllOK
    <3> QED BY <3>1, <3>2, <3>3, <3>5, <3>6
  <2> HIDE DEF new
  <2>6. MakesReplayed(u, new)
    BY <1>3, <2>1, <2>2, <2>5, <2>b DEF MakesReplayed
  <2>7. Makes(u, new)
    BY <2>1, <2>5, <2>6 DEF Makes
  <2>8. ~(mode = "STRICT" /\ ~Hit(u) /\ Exit)
    BY <1>3 DEF ConstructExact
  <2> QED BY <1>1, <1>3, <2>5, <2>7, <2>8 DEF Request
<1>4. CASE mode = "STRICT" /\ ~Hit(u) /\ Exit
  BY <1>4
<1>5. CASE phase = "record" /\ mode # "STOP"
  BY <1>5 DEF SessionInv
<1>6. \/ mode = "STOP" /\ Live(u, Id)
      \/ mode = "STRICT" /\ ConstructExact(u, Id)
      \/ mode = "STRICT" /\ ~Hit(u) /\ Exit
  BY <1>1 DEF Request, SessionInv
<1> QED BY <1>2, <1>3, <1>4, <1>6

\* URLs and numbers tell replies apart in the next state too.
LEMMA IdentStep ==
    ASSUME NetInv, SessionInv, IdentInv, [Next]_vars
    PROVE  IdentInv'
<1>0. NetInv' /\ SessionInv'
  BY NetStep, SessionStep
<1>c. Compared' => Compared /\ (phase' = "record" => phase = "record")
  BY ComparedFacts
<1>d. phase' = "record" => phase = "record" /\ Compared' /\ Compared
  BY <1>c DEF Compared
<1>1. CASE ~Compared'
  BY <1>1, <1>d DEF IdentInv
<1>2. CASE Compared' /\ Restart
  <2>1. /\ bases' = [b \in DOMAIN bases |-> [bases[b] EXCEPT !.pos = 0]]
        /\ replies' = <<>> /\ phase' = "replay"
    BY <1>2 DEF Restart, NetworkRestart
  <2>2. ASSUME NEW b \in DOMAIN bases PROVE bases'[b].url = bases[b].url /\ bases'[b].num = bases[b].num
    <3>1. bases[b] \in Base
      BY DEF NetInv, NetType
    <3> QED BY <3>1, <2>1 DEF Base
  <2>3. DOMAIN bases' = DOMAIN bases /\ DOMAIN replies' = {}
    BY <2>1
  <2>4. Compared
    BY <1>2, <1>c
  <2> QED BY <2>1, <2>2, <2>3, <2>4 DEF IdentInv
<1>3. ASSUME Compared', NEW u \in Urls, Request(u), ~Exit PROVE IdentInv'
  <2>1. PICK new \in Reply : Makes(u, new)
    BY <1>3, <1>c, RequestFacts
  <2>t. /\ bases \in Seq(Base) /\ replies \in Seq(Reply) /\ Len(bases) \in Nat /\ Len(replies) \in Nat
        /\ DOMAIN bases = 1..Len(bases) /\ DOMAIN replies = 1..Len(replies)
        /\ nextNum \in [Urls -> Nat]
    BY DEF NetInv, NetType
  <2>2. /\ DOMAIN replies' = 1..Len(replies) + 1 /\ replies'[Len(replies) + 1] = new
        /\ \A r \in 1..Len(replies) : replies'[r] = replies[r]
    BY <2>1, <2>t DEF Makes
  <2>i. /\ \A b, c \in DOMAIN bases :
             (bases[b].url = bases[c].url /\ bases[b].num = bases[c].num) => b = c
        /\ \A r \in DOMAIN replies : /\ replies[r].url = bases[replies[r].base].url
                                     /\ replies[r].num = bases[replies[r].base].num
                                     /\ replies[r].base \in DOMAIN bases
    BY <1>3, <1>c DEF IdentInv, NetInv
  <2>3. CASE MakesReplayed(u, new)
    <3>1. bases' = bases /\ bases[new.base].url = u /\ new.num = bases[new.base].num /\ new.url = u
      BY <2>1, <2>3 DEF MakesReplayed, Makes, NetInv
    <3>2. phase' # "record"
      BY <2>3, <1>d DEF MakesReplayed, SessionInv
    <3> QED BY <2>2, <2>t, <2>i, <3>1, <3>2 DEF IdentInv
  <2>4. CASE MakesLive(u, new)
    <3> DEFINE x == [url |-> u, num |-> nextNum[u], pos |-> 0, entries |-> <<>>]
    <3>1. /\ bases' = Append(bases, x) /\ new.base = Len(bases) + 1 /\ new.num = nextNum[u]
          /\ nextNum' = [nextNum EXCEPT ![u] = @ + 1] /\ phase = "record" /\ new.url = u
      BY <2>1, <2>4 DEF MakesLive, Makes
    <3>2. x.url = u /\ x.num = nextNum[u]
      OBVIOUS
    <3>3. /\ DOMAIN bases' = 1..Len(bases) + 1 /\ bases'[Len(bases) + 1] = x
          /\ \A b \in 1..Len(bases) : bases'[b] = bases[b]
      <4> HIDE DEF x
      <4> QED BY <3>1, <2>t
    <3> HIDE DEF x
    <3>4. \A b \in 1..Len(bases) : bases[b].num < nextNum[bases[b].url] /\ bases[b].url \in Urls
                                   /\ bases[b].num \in Nat
      <4>1. \A b \in 1..Len(bases) : bases[b] \in Base
        BY <2>t
      <4>2. \A b \in 1..Len(bases) : bases[b].url \in Urls /\ bases[b].num \in Nat
        BY <4>1 DEF Base
      <4>3. \A b \in 1..Len(bases) : bases[b].num < nextNum[bases[b].url]
        BY <3>1, <2>t DEF IdentInv
      <4> QED BY <4>2, <4>3
    <3>5. \A b \in 1..Len(bases) : bases[b].url = u => bases[b].num < nextNum[u]
      BY <3>4
    <3>6. \A b, c \in DOMAIN bases' :
             (bases'[b].url = bases'[c].url /\ bases'[b].num = bases'[c].num) => b = c
      <4> SUFFICES ASSUME NEW b \in DOMAIN bases', NEW c \in DOMAIN bases',
                          bases'[b].url = bases'[c].url, bases'[b].num = bases'[c].num
                   PROVE  b = c
        OBVIOUS
      <4>1. CASE b \in 1..Len(bases) /\ c \in 1..Len(bases)
        BY <4>1, <3>3, <2>i, <2>t
      <4>2. CASE b = Len(bases) + 1 /\ c \in 1..Len(bases)
        BY <4>2, <3>2, <3>3, <3>4, <3>5, <2>t
      <4>3. CASE b \in 1..Len(bases) /\ c = Len(bases) + 1
        BY <4>3, <3>2, <3>3, <3>4, <3>5, <2>t
      <4> QED BY <4>1, <4>2, <4>3, <3>3, <2>t
    <3>7. ASSUME NEW r \in DOMAIN replies'
          PROVE  /\ replies'[r].url = bases'[replies'[r].base].url
                 /\ replies'[r].num = bases'[replies'[r].base].num
      <4>1. CASE r \in 1..Len(replies)
        BY <4>1, <2>2, <2>i, <2>t, <3>3
      <4>2. CASE r = Len(replies) + 1
        BY <4>2, <2>2, <3>1, <3>2, <3>3
      <4> QED BY <4>1, <4>2, <2>2, <2>t
    <3>8. ASSUME NEW b \in DOMAIN bases' PROVE bases'[b].num < nextNum'[bases'[b].url]
      <4>1. CASE b \in 1..Len(bases) /\ bases[b].url = u
        <5>1. nextNum'[u] = nextNum[u] + 1 /\ nextNum[u] \in Nat
          BY <3>1, <2>t
        <5>2. bases'[b] = bases[b] /\ bases[b].num < nextNum[u] /\ bases[b].num \in Nat
          BY <4>1, <3>3, <3>4
        <5> QED BY <4>1, <5>1, <5>2
      <4>2. CASE b \in 1..Len(bases) /\ bases[b].url # u
        <5>1. nextNum'[bases[b].url] = nextNum[bases[b].url]
          BY <4>2, <3>1, <3>4, <2>t
        <5> QED BY <4>2, <5>1, <3>3, <3>4
      <4>3. CASE b = Len(bases) + 1
        <5>1. nextNum'[u] = nextNum[u] + 1 /\ nextNum[u] \in Nat
          BY <3>1, <2>t
        <5> QED BY <4>3, <5>1, <3>2, <3>3
      <4> QED BY <4>1, <4>2, <4>3, <3>3, <2>t
    <3> QED BY <3>6, <3>7, <3>8 DEF IdentInv
  <2> QED BY <2>1, <2>3, <2>4 DEF Makes
<1>4. CASE Compared' /\ ~Restart /\ (\A u \in Urls : ~Request(u) \/ Exit)
  <2>1. KeepsOld /\ MakesNone
    <3>1. CASE \A u \in Urls : ~Request(u)
      BY <1>4, <3>1, OldReplies
    <3>2. CASE Exit
      BY <3>2 DEF Exit, KeepsOld, MakesNone, networkVars
    <3> QED BY <1>4, <3>1, <3>2
  <2>2. \A r \in DOMAIN replies : replies[r].base \in DOMAIN bases
    BY DEF NetInv
  <2>3. /\ DOMAIN bases' = DOMAIN bases /\ DOMAIN replies' = DOMAIN replies
        /\ \A b \in DOMAIN bases : bases'[b].url = bases[b].url /\ bases'[b].num = bases[b].num
        /\ \A r \in DOMAIN replies : /\ replies'[r].url = replies[r].url
                                     /\ replies'[r].num = replies[r].num
                                     /\ replies'[r].base = replies[r].base
        /\ UNCHANGED nextNum
    BY <2>1 DEF KeepsOld, MakesNone
  <2> QED BY <2>2, <2>3, <1>c, <1>4, IdentSame
<1> QED BY <1>1, <1>2, <1>3, <1>4

-----------------------------------------------------------------------------
(* The event actions of a reply are chained. *)

\* A step keeps the event actions of the process.
SameTrace ==
    /\ Len(Trace') = Len(Trace)
    /\ \A i \in 1..Len(Trace) : Trace'[i].desc = Trace[i].desc

\* A step begins the event action d.
GrownTrace(d) ==
    /\ Len(Trace') = Len(Trace) + 1 /\ Trace'[Len(Trace) + 1].desc = d
    /\ \A i \in 1..Len(Trace) : Trace'[i].desc = Trace[i].desc

\* What the page does leaves its event action where it is.
LEMMA DoesTrace ==
    ASSUME SessionInv, SessionInv', cur # Idle, NEW op, NEW arg, NEW res, Does(op, arg, res),
           UNCHANGED done
    PROVE  SameTrace
<1>1. cur' # Idle /\ cur'.desc = cur.desc
  <2>1. cur \in Item /\ cur.desc # None
    BY DEF SessionInv
  <2>2. cur' = [cur EXCEPT !.steps = Append(@, Step(op, arg, res))] \/ cur' = cur
    BY DEF Does
  <2>3. cur'.desc = cur.desc
    BY <2>1, <2>2 DEF Item
  <2> QED BY <2>1, <2>3 DEF Idle
<1>2. /\ Len(done) \in Nat
      /\ Len(Trace) = Len(done) + 1 /\ Trace[Len(done) + 1] = cur
      /\ \A i \in 1..Len(done) : Trace[i] = done[i]
  BY TraceFacts
<1>3. /\ Len(Trace') = Len(done) + 1 /\ Trace'[Len(done) + 1] = cur'
      /\ \A i \in 1..Len(done) : Trace'[i] = done[i]
  <2>1. done' \in Seq(Item) /\ Trace' = Append(done', cur')
    BY <1>1 DEF SessionInv, Trace
  <2> QED BY <2>1
<1>4. \A i \in 1..Len(done) + 1 : i = Len(done) + 1 \/ i \in 1..Len(done)
  BY <1>2
<1> QED BY <1>1, <1>2, <1>3, <1>4 DEF SameTrace

\* An event action is added at the end.
LEMMA BeginTrace ==
    ASSUME SessionInv, SessionInv', cur = Idle, cur' # Idle, UNCHANGED done
    PROVE  GrownTrace(cur'.desc) /\ Len(Trace) = Len(done)
<1>1. done \in Seq(Item) /\ Trace = done /\ Trace' = Append(done, cur')
  BY DEF SessionInv, Trace
<1>2. \A i \in 1..Len(done) : Trace'[i] = done[i]
  BY <1>1
<1>3. Len(Trace') = Len(done) + 1 /\ Trace'[Len(done) + 1] = cur'
  BY <1>1
<1> QED BY <1>1, <1>2, <1>3 DEF GrownTrace

\* What a step of a compared process does to its event actions.
LEMMA TraceStep ==
    ASSUME NetInv, SessionInv, [Next]_vars, Compared', ~Restart
    PROVE  \/ SameTrace /\ \A r \in DOMAIN replies : ~BeginNetwork(r)
           \/ \E n \in Nat : GrownTrace(Page(n)) /\ UNCHANGED networkVars
           \/ \E r \in DOMAIN replies : /\ BeginNetwork(r) /\ GrownTrace(replies[r].waiting)
                                        /\ Len(Trace) = Len(done) /\ replies[r].waiting # None
<1>s. SessionInv'
  BY SessionStep
<1>t. Len(Trace) \in Nat
  BY TraceFacts DEF Id
<1>b. ASSUME NEW r \in DOMAIN replies, BeginNetwork(r)
      PROVE  GrownTrace(replies[r].waiting) /\ Len(Trace) = Len(done) /\ replies[r].waiting # None
  <2>1. /\ cur = Idle /\ UNCHANGED done /\ replies[r].waiting # None
        /\ cur' = [desc |-> replies[r].waiting,
                   steps |-> IF Compared THEN <<Step("begin", 0, <<Head(replies[r].queue), jar'>>)>>
                             ELSE <<>>]
    BY <1>b DEF BeginNetwork, MayBegin, updateSnapshot, Begin
  <2>2. cur'.desc = replies[r].waiting /\ cur' # Idle
    BY <2>1 DEF Idle
  <2> QED BY <2>1, <2>2, <1>s, BeginTrace
<1>n. ASSUME SameTrace PROVE \A r \in DOMAIN replies : ~BeginNetwork(r)
  BY <1>n, <1>b, <1>t DEF SameTrace, GrownTrace
<1>u. ASSUME UNCHANGED <<done, cur>> PROVE SameTrace
  BY <1>u DEF SameTrace, Trace, Idle
<1>1. ASSUME NEW u \in Urls, Request(u) PROVE SameTrace
  BY <1>1, <1>u, <1>s, DoesTrace DEF Request, MayDo, Exit
<1>2. ASSUME NEW r \in DOMAIN replies, Read(r) \/ Abort(r) PROVE SameTrace
  BY <1>2, <1>s, DoesTrace DEF Read, Abort, MayDo
<1>3. ASSUME Time PROVE SameTrace
  BY <1>3, <1>u, <1>s, DoesTrace DEF Time, MayDo, Exit
<1>4. ASSUME TimeOutside \/ UNCHANGED vars \/ \E r \in DOMAIN replies : LiveSignal(r)
      PROVE  SameTrace
  BY <1>4, <1>u DEF TimeOutside, Exit, vars, sessionVars, LiveSignal
<1>5. CASE Relax \/ Stop
  BY <1>5 DEF Relax, Stop, Compared, Strict, SessionInv
<1>6. CASE End
  <2>1. Trace' = Trace
    BY <1>6 DEF End, Trace
  <2> QED BY <2>1, <1>n DEF SameTrace
<1>7. CASE BeginPage
  <2> DEFINE pages == {i \in DOMAIN done : done[i].desc.type = "Page"}
             d == Page(Cardinality(pages))
  <2>1. /\ cur = Idle /\ UNCHANGED done /\ UNCHANGED networkVars
        /\ cur' = [desc |-> d,
                   steps |-> IF Compared THEN <<Step("begin", 0, <<"page", jar>>)>> ELSE <<>>]
    BY <1>7 DEF BeginPage, MayBegin, Begin
  <2>2. Cardinality(pages) \in Nat
    <3>1. done \in Seq(Item)
      BY DEF SessionInv
    <3>2. Len(done) \in Nat /\ DOMAIN done = 1..Len(done)
      BY <3>1
    <3>3. IsFiniteSet(1..Len(done))
      BY <3>2, FS_Interval
    <3>4. IsFiniteSet(pages)
      BY <3>2, <3>3, FS_Subset
    <3> QED BY <3>4, FS_CardinalityType
  <2> HIDE DEF pages
  <2>3. cur'.desc = d /\ cur' # Idle
    BY <2>1 DEF Idle, Page, None
  <2> QED BY <2>1, <2>2, <2>3, <1>s, BeginTrace
<1> QED BY <1>1, <1>2, <1>3, <1>4, <1>5, <1>6, <1>7, <1>b, <1>n DEF Next

\* The event actions of a reply.
Own(tr, reply) ==
    {i \in DOMAIN tr : \E n \in 0..FinalNumber : tr[i].desc = Network(reply.url, reply.num, n)}

\* The event actions of a reply are a chain from the request to the last one.
Chained(tr, reply, ch) ==
    LET own == Own(tr, reply)
    IN  /\ reply.creator \in 1..Len(tr)
        /\ \A i \in own : reply.creator < i
        /\ reply.last = 0 => own = {}
        /\ reply.last # 0 => reply.last \in own /\ \A i \in own : i <= reply.last
        /\ \A i \in own : \E j \in own \cup {reply.creator} :
             j < i /\ <<j, i>> \in ch /\ \A k \in own : k < i => k <= j

OrderInv ==
    Compared =>
        /\ \A i \in 1..Len(Trace) : Trace[i].desc.type = "Network" =>
             \E r \in DOMAIN replies : /\ Trace[i].desc.url = replies[r].url
                                       /\ Trace[i].desc.num = replies[r].num
        /\ \A r \in DOMAIN replies : Chained(Trace, replies[r], chain)

\* A step of another reply or of the page.
LEMMA ChainedKept ==
    ASSUME NEW tr \in Seq(Item), NEW tr2 \in Seq(Item), NEW reply, NEW new, NEW ch, NEW ch2,
           Chained(tr, reply, ch), Len(tr) <= Len(tr2), ch \subseteq ch2,
           \A i \in 1..Len(tr) : tr2[i].desc = tr[i].desc,
           \A i \in 1..Len(tr2) : i > Len(tr) =>
              \A n \in 0..FinalNumber : tr2[i].desc # Network(reply.url, reply.num, n),
           new.url = reply.url, new.num = reply.num, new.creator = reply.creator,
           new.last = reply.last
    PROVE  Chained(tr2, new, ch2)
<1>1. DOMAIN tr = 1..Len(tr) /\ DOMAIN tr2 = 1..Len(tr2) /\ Len(tr) \in Nat /\ Len(tr2) \in Nat
  OBVIOUS
<1>2. Own(tr2, new) = Own(tr, reply)
  <2>1. \A i \in DOMAIN tr : i \in DOMAIN tr2 /\ tr2[i].desc = tr[i].desc
    BY <1>1
  <2>2. \A i \in DOMAIN tr2 : i \in DOMAIN tr \/
            \A n \in 0..FinalNumber : tr2[i].desc # Network(reply.url, reply.num, n)
    BY <1>1
  <2> QED BY <2>1, <2>2 DEF Own
<1>3. reply.creator \in 1..Len(tr2)
  BY <1>1 DEF Chained
<1> QED BY <1>2, <1>3 DEF Chained

\* A signal of the reply.
LEMMA ChainedGrows ==
    ASSUME NEW tr \in Seq(Item), NEW tr2 \in Seq(Item), NEW reply \in Reply, NEW new \in Reply,
           NEW ch, NEW ch2, Chained(tr, reply, ch), Len(tr2) = Len(tr) + 1,
           \A i \in 1..Len(tr) : tr2[i].desc = tr[i].desc,
           NEW n \in 0..FinalNumber, tr2[Len(tr) + 1].desc = Network(reply.url, reply.num, n),
           new.url = reply.url, new.num = reply.num, new.creator = reply.creator,
           new.last = Len(tr) + 1,
           ch2 = ch \cup {<<IF reply.last # 0 THEN reply.last ELSE reply.creator, Len(tr) + 1>>}
    PROVE  Chained(tr2, new, ch2)
<1> DEFINE own == Own(tr, reply)
           m == Len(tr) + 1
           prev == IF reply.last # 0 THEN reply.last ELSE reply.creator
<1>1. DOMAIN tr = 1..Len(tr) /\ DOMAIN tr2 = 1..m /\ Len(tr) \in Nat /\ m \in Nat
  OBVIOUS
<1>2. Own(tr2, new) = own \cup {m}
  <2>1. \A i \in DOMAIN tr : i \in DOMAIN tr2 /\ tr2[i].desc = tr[i].desc
    BY <1>1
  <2>2. \A i \in DOMAIN tr2 : i \in DOMAIN tr \/ i = m
    BY <1>1
  <2>3. m \in DOMAIN tr2 /\ tr2[m].desc = Network(new.url, new.num, n)
    BY <1>1
  <2> QED BY <2>1, <2>2, <2>3 DEF Own
<1>3. own \subseteq 1..Len(tr)
  BY <1>1 DEF Own
<1>4. /\ reply.creator \in 1..Len(tr)
      /\ \A i \in own : reply.creator < i
      /\ reply.last = 0 => own = {}
      /\ reply.last # 0 => reply.last \in own /\ \A i \in own : i <= reply.last
      /\ \A i \in own : \E j \in own \cup {reply.creator} :
             j < i /\ <<j, i>> \in ch /\ \A k \in own : k < i => k <= j
  BY DEF Chained
<1> HIDE DEF own
<1>5. /\ prev \in own \cup {reply.creator} /\ prev < m /\ <<prev, m>> \in ch2
      /\ \A k \in own : k <= prev
  <2>1. <<prev, m>> \in ch2
    OBVIOUS
  <2>2. CASE reply.last # 0
    <3>1. prev = reply.last
      BY <2>2
    <3>2. reply.last \in own /\ \A k \in own : k <= reply.last
      BY <2>2, <1>4
    <3>3. reply.last < m
      <4>1. reply.last \in 1..Len(tr)
        BY <3>2, <1>3
      <4> QED BY <4>1, <1>1
    <3> HIDE DEF prev
    <3> QED BY <2>1, <3>1, <3>2, <3>3
  <2>3. CASE reply.last = 0
    <3>1. prev = reply.creator
      BY <2>3
    <3> HIDE DEF prev
    <3> QED BY <2>1, <2>3, <3>1, <1>1, <1>4
  <2> QED BY <2>2, <2>3
<1>6. \A i \in own : i < m
  BY <1>1, <1>3
<1>7. ch \subseteq ch2
  OBVIOUS
<1> HIDE DEF prev
<1>8. ASSUME NEW i \in own \cup {m}
      PROVE  \E j \in (own \cup {m}) \cup {reply.creator} :
                j < i /\ <<j, i>> \in ch2 /\ \A k \in own \cup {m} : k < i => k <= j
  <2>1. CASE i = m
    <3>1. ASSUME NEW k \in own \cup {m}, k < i PROVE k <= prev
      BY <3>1, <2>1, <1>1, <1>5
    <3> QED BY <2>1, <3>1, <1>5
  <2>2. CASE i \in own
    <3>1. PICK j \in own \cup {reply.creator} :
             j < i /\ <<j, i>> \in ch /\ \A k \in own : k < i => k <= j
      BY <2>2, <1>4
    <3>2. ~(m < i) /\ i \in Nat
      BY <2>2, <1>1, <1>3
    <3> QED BY <3>1, <3>2, <1>7
  <2> QED BY <2>1, <2>2
<1>9. \A i \in own \cup {m} : i <= m /\ reply.creator < i
  BY <1>1, <1>3, <1>4, <1>6
<1>10. reply.creator \in 1..Len(tr2) /\ new.last # 0
  BY <1>1, <1>4
<1> QED BY <1>2, <1>8, <1>9, <1>10 DEF Chained

\* URL and number are those of one reply only.
LEMMA ReplyByNumber ==
    ASSUME NetInv, IdentInv, Compared, NEW r \in DOMAIN replies, NEW s \in DOMAIN replies,
           replies[r].url = replies[s].url, replies[r].num = replies[s].num
    PROVE  r = s
<1>1. replies[r].base \in DOMAIN bases /\ replies[s].base \in DOMAIN bases
  BY DEF NetInv
<1>2. replies[r].base = replies[s].base
  BY <1>1 DEF IdentInv
<1> QED BY <1>2 DEF NetInv

\* The number of a signal that waits.
LEMMA WaitingNumber ==
    ASSUME NetInv, NEW r \in DOMAIN replies, replies[r].waiting # None
    PROVE  \E n \in 0..FinalNumber : replies[r].waiting = Network(replies[r].url, replies[r].num, n)
<1> DEFINE e == bases[replies[r].base].entries
           k == Released(replies[r], e) + 1
<1>1. /\ replies[r].waiting = Signal(replies[r].url, replies[r].num, e, k)
      /\ k \in 1..Len(e) /\ e \in Seq(Snapshot)
  BY WaitingReply
<1>2. Len(e) <= FinalNumber /\ Len(e) \in Nat
  BY <1>1, SameBases DEF EntriesOK
<1> HIDE DEF e, k
<1>3. (IF e[k].signal = "FINISHED" THEN FinalNumber ELSE k - 1) \in 0..FinalNumber
  BY <1>1, <1>2, FinalType
<1> QED BY <1>1, <1>3 DEF Signal

\* An event action begins that is not one of the reply's, or none begins.
LEMMA OrderKept ==
    ASSUME NetInv, SessionInv, SessionInv', OrderInv, Compared, NEW s \in DOMAIN replies, NEW new,
           new.url = replies[s].url, new.num = replies[s].num, new.creator = replies[s].creator,
           new.last = replies[s].last, chain \subseteq chain',
           \/ SameTrace
           \/ \E d : /\ GrownTrace(d)
                     /\ \A n \in 0..FinalNumber : d # Network(replies[s].url, replies[s].num, n)
    PROVE  Chained(Trace', new, chain')
<1>1. Trace \in Seq(Item) /\ Len(Trace) \in Nat
  BY TraceFacts
<1>2. Trace' \in Seq(Item)
  BY DEF SessionInv, Trace
<1>3. Chained(Trace, replies[s], chain)
  BY DEF OrderInv
<1>4. CASE SameTrace
  BY <1>1, <1>2, <1>3, <1>4, ChainedKept DEF SameTrace
<1>5. ASSUME NEW d, GrownTrace(d),
             \A n \in 0..FinalNumber : d # Network(replies[s].url, replies[s].num, n)
      PROVE  Chained(Trace', new, chain')
  <2>1. /\ Len(Trace') = Len(Trace) + 1 /\ Trace'[Len(Trace) + 1].desc = d
        /\ \A i \in 1..Len(Trace) : Trace'[i].desc = Trace[i].desc
    BY <1>5 DEF GrownTrace
  <2>2. \A i \in 1..Len(Trace') : i > Len(Trace) => i = Len(Trace) + 1
    BY <2>1, <1>1
  <2>3. \A i \in 1..Len(Trace') : i > Len(Trace) =>
           \A n \in 0..FinalNumber : Trace'[i].desc # Network(replies[s].url, replies[s].num, n)
    BY <2>1, <2>2, <1>5
  <2>4. Len(Trace) <= Len(Trace')
    BY <2>1, <1>1
  <2> QED BY <1>1, <1>2, <1>3, <2>1, <2>3, <2>4, ChainedKept
<1> QED BY <1>4, <1>5

\* Every step of a compared process keeps the chains.
LEMMA OrderStep ==
    ASSUME NetInv, SessionInv, IdentInv, OrderInv, [Next]_vars
    PROVE  OrderInv'
<1>0. NetInv' /\ SessionInv' /\ IdentInv'
  BY NetStep, SessionStep, IdentStep
<1>1. CASE ~Compared'
  BY <1>1 DEF OrderInv
<1>2. CASE Restart
  <2>1. replies' = <<>> /\ done' = <<>> /\ cur' = Idle
    BY <1>2 DEF Restart, NetworkRestart
  <2>2. Trace' = <<>> /\ DOMAIN replies' = {}
    BY <2>1 DEF Trace
  <2> QED BY <2>2 DEF OrderInv
<1>3. CASE Compared' /\ ~Restart
  <2>1. Compared
    BY <1>3, ComparedFacts
  <2>2. /\ DOMAIN replies \subseteq DOMAIN replies' /\ chain \subseteq chain'
        /\ \A r \in DOMAIN replies : /\ replies'[r].url = replies[r].url
                                     /\ replies'[r].num = replies[r].num
                                     /\ replies'[r].creator = replies[r].creator
                                     /\ ~BeginNetwork(r) => replies'[r].last = replies[r].last
    BY <1>3, OldReplies DEF KeepsOld
  <2>t. /\ Trace \in Seq(Item) /\ Len(Trace) \in Nat /\ Trace' \in Seq(Item)
        /\ DOMAIN Trace = 1..Len(Trace) /\ DOMAIN Trace' = 1..Len(Trace')
    <3>1. Trace \in Seq(Item)
      BY TraceFacts
    <3>2. Trace' \in Seq(Item)
      BY <1>0 DEF SessionInv, Trace
    <3> QED BY <3>1, <3>2
  <2>o. /\ \A i \in 1..Len(Trace) : Trace[i].desc.type = "Network" =>
             \E r \in DOMAIN replies : /\ Trace[i].desc.url = replies[r].url
                                       /\ Trace[i].desc.num = replies[r].num
        /\ \A r \in DOMAIN replies : Chained(Trace, replies[r], chain)
    BY <2>1 DEF OrderInv
  <2>3. CASE SameTrace /\ \A r \in DOMAIN replies : ~BeginNetwork(r)
    <3>1. ASSUME NEW i \in 1..Len(Trace'), Trace'[i].desc.type = "Network"
          PROVE  \E r \in DOMAIN replies : /\ Trace'[i].desc.url = replies'[r].url
                                           /\ Trace'[i].desc.num = replies'[r].num
                                           /\ r \in DOMAIN replies'
      BY <3>1, <2>3, <2>o, <2>2 DEF SameTrace
    <3>2. ASSUME NEW s \in DOMAIN replies PROVE Chained(Trace', replies'[s], chain')
      BY <2>1, <2>2, <2>3, <1>0, OrderKept
    <3>3. ASSUME NEW s \in DOMAIN replies', s \notin DOMAIN replies
          PROVE  Chained(Trace', replies'[s], chain')
      <4>1. PICK u \in Urls : Request(u)
        BY <3>3, <1>3, OldReplies DEF MakesNone
      <4>2. ~Exit
        BY <3>3 DEF Exit, networkVars
      <4>3. PICK new \in Reply : Makes(u, new)
        BY <4>1, <4>2, <2>1, RequestFacts
      <4>4. cur # Idle
        BY <4>1 DEF Request, MayDo
      <4>5. replies' = Append(replies, new) /\ new.creator = Id /\ new.last = 0
        BY <4>3 DEF Makes
      <4>6. replies \in Seq(Reply)
        BY DEF NetInv, NetType
      <4>7. replies'[s] = new
        BY <4>5, <4>6, <3>3
      <4>8. Id \in 1..Len(Trace')
        BY <4>4, <2>3, TraceFacts DEF SameTrace, Id
      <4>9. Own(Trace', new) = {}
        <5> SUFFICES ASSUME NEW i \in DOMAIN Trace', NEW n \in 0..FinalNumber,
                            Trace'[i].desc = Network(new.url, new.num, n)
                     PROVE  FALSE
          BY DEF Own
        <5>1. Trace'[i].desc.type = "Network" /\ Trace'[i].desc.url = new.url
              /\ Trace'[i].desc.num = new.num
          BY DEF Network
        <5>2. PICK r \in DOMAIN replies : /\ new.url = replies'[r].url
                                          /\ new.num = replies'[r].num
                                          /\ r \in DOMAIN replies'
          BY <5>1, <3>1, <2>t
        <5>3. r = s
          <6>1. replies'[r].base \in DOMAIN bases' /\ replies'[s].base \in DOMAIN bases'
            BY <5>2, <1>0 DEF NetInv
          <6>2. replies'[r].base = replies'[s].base
            BY <6>1, <5>2, <4>7, <1>0, <1>3 DEF IdentInv
          <6> QED BY <6>2, <5>2, <1>0 DEF NetInv
        <5> QED BY <5>3, <3>3
      <4> QED BY <4>5, <4>7, <4>8, <4>9 DEF Chained
    <3> QED BY <3>1, <3>2, <3>3 DEF OrderInv
  <2>4. ASSUME NEW m \in Nat, GrownTrace(Page(m)), UNCHANGED networkVars PROVE OrderInv'
    <3>0. replies' = replies /\ chain' = chain
      BY <2>4 DEF networkVars
    <3>1. ASSUME NEW i \in 1..Len(Trace'), Trace'[i].desc.type = "Network"
          PROVE  \E r \in DOMAIN replies : /\ Trace'[i].desc.url = replies[r].url
                                           /\ Trace'[i].desc.num = replies[r].num
      <4>1. CASE i \in 1..Len(Trace)
        BY <3>1, <4>1, <2>4, <2>o DEF GrownTrace
      <4>2. CASE i = Len(Trace) + 1
        BY <3>1, <4>2, <2>4 DEF GrownTrace, Page
      <4> QED BY <4>1, <4>2, <2>4, <2>t DEF GrownTrace
    <3>2. ASSUME NEW s \in DOMAIN replies PROVE Chained(Trace', replies[s], chain')
      <4>1. \A n \in 0..FinalNumber : Page(m) # Network(replies[s].url, replies[s].num, n)
        BY DEF Page, Network
      <4> QED BY <4>1, <2>1, <2>4, <3>0, <1>0, OrderKept
    <3> QED BY <3>0, <3>1, <3>2 DEF OrderInv
  <2>5. ASSUME NEW r \in DOMAIN replies, BeginNetwork(r), GrownTrace(replies[r].waiting),
               Len(Trace) = Len(done), replies[r].waiting # None
        PROVE  OrderInv'
    <3>1. updateSnapshot(r, Len(Trace) + 1) /\ Len(Trace) + 1 \in Nat
      BY <2>5, <2>t DEF BeginNetwork
    <3>2. PICK n \in 0..FinalNumber : replies[r].waiting = Network(replies[r].url, replies[r].num, n)
      BY <2>5, WaitingNumber
    <3>3. PICK new \in Reply :
              /\ replies' = [replies EXCEPT ![r] = new]
              /\ new.url = replies[r].url /\ new.num = replies[r].num
              /\ new.creator = replies[r].creator /\ new.last = Len(Trace) + 1
      BY <3>1, UpdateInv
    <3>4. /\ DOMAIN replies' = DOMAIN replies /\ replies'[r] = new
          /\ \A s \in DOMAIN replies : s # r => replies'[s] = replies[s]
      BY <3>3
    <3>5. chain' = chain \cup {<<IF replies[r].last # 0 THEN replies[r].last ELSE replies[r].creator,
                                 Len(Trace) + 1>>}
      BY <3>1 DEF updateSnapshot
    <3>g. /\ Len(Trace') = Len(Trace) + 1
          /\ Trace'[Len(Trace) + 1].desc = Network(replies[r].url, replies[r].num, n)
          /\ \A i \in 1..Len(Trace) : Trace'[i].desc = Trace[i].desc
      BY <2>5, <3>2 DEF GrownTrace
    <3>6. ASSUME NEW i \in 1..Len(Trace'), Trace'[i].desc.type = "Network"
          PROVE  \E s \in DOMAIN replies : /\ Trace'[i].desc.url = replies'[s].url
                                           /\ Trace'[i].desc.num = replies'[s].num
      <4>1. CASE i \in 1..Len(Trace)
        BY <3>6, <4>1, <3>g, <2>o, <2>2
      <4>2. CASE i = Len(Trace) + 1
        BY <4>2, <3>g, <2>2 DEF Network
      <4> QED BY <4>1, <4>2, <3>g, <2>t
    <3>7. ASSUME NEW s \in DOMAIN replies, s # r PROVE Chained(Trace', replies'[s], chain')
      <4>1. \A k \in 0..FinalNumber :
              replies[r].waiting # Network(replies[s].url, replies[s].num, k)
        <5> SUFFICES ASSUME NEW k \in 0..FinalNumber,
                            replies[r].waiting = Network(replies[s].url, replies[s].num, k)
                     PROVE  FALSE
          OBVIOUS
        <5>1. replies[r].url = replies[s].url /\ replies[r].num = replies[s].num
          BY <3>2 DEF Network
        <5> QED BY <5>1, <3>7, <2>1, ReplyByNumber
      <4> QED BY <4>1, <3>4, <3>7, <2>1, <2>2, <2>5, <1>0, OrderKept
    <3>8. Chained(Trace', replies'[r], chain')
      <4>1. replies[r] \in Reply /\ Chained(Trace, replies[r], chain)
        BY <2>o, SameBases
      <4> QED BY <4>1, <3>3, <3>4, <3>5, <3>g, <2>t, ChainedGrows
    <3> QED BY <3>4, <3>6, <3>7, <3>8 DEF OrderInv
  <2> QED BY <1>3, <2>3, <2>4, <2>5, TraceStep
<1> QED BY <1>1, <1>2, <1>3

\* The event actions of a reply are ordered by the happens-before relation, one after the
\* other and all after the request, for any page and any order of the signals of different
\* replies (QNetworkReplyControllable::updateSnapshot, m_lastNetworkEventAction).
THEOREM RepliesChained == Spec => []RepliesAreOrdered
<1>1. Init => NetInv /\ SessionInv /\ IdentInv /\ OrderInv
  <2> SUFFICES ASSUME Init PROVE IdentInv /\ OrderInv
    BY InitNetInv
  <2>1. bases = <<>> /\ replies = <<>> /\ done = <<>> /\ cur = Idle
    BY DEF Init, NetworkInit
  <2>2. DOMAIN bases = {} /\ DOMAIN replies = {} /\ Trace = <<>>
    BY <2>1 DEF Trace
  <2> QED BY <2>2 DEF IdentInv, OrderInv
<1>2. NetInv /\ SessionInv /\ IdentInv /\ OrderInv /\ [Next]_vars
      => (NetInv /\ SessionInv /\ IdentInv /\ OrderInv)'
  BY NetStep, SessionStep, IdentStep, OrderStep
<1>3. OrderInv => RepliesAreOrdered
  BY DEF OrderInv, RepliesAreOrdered, Chained, Own
<1> QED BY <1>1, <1>2, <1>3, PTL DEF Spec

-----------------------------------------------------------------------------
(* What FlattenSeq computes is found by induction: the least number for which a claim *)
(* about its function fails is neither 1 nor the successor of another.               *)

\* f is the function FlattenSeq defines, up to n.
IsFlat(f, s, n) == f = [i \in 1..n |-> IF i = 1 THEN s[i] ELSE f[i - 1] \o s[i]]

\* Every set of numbers has a least one.
LEMMA LeastOf ==
    ASSUME NEW T, T \subseteq Nat, T # {}
    PROVE  \E x \in T : \A y \in T : ~(y < x)
<1>1. IsWellFoundedOn(OpToRel(<, Nat), Nat)
  BY NatLessThanWellFounded
<1>2. PICK x \in T : \A y \in T : ~(<<y, x>> \in OpToRel(<, Nat))
  BY <1>1, WFMin
<1>3. \A y \in T : ~(y < x)
  BY <1>2 DEF OpToRel
<1> QED BY <1>3

\* There is such a function.
LEMMA FlatExists ==
    ASSUME NEW s, NEW n \in Nat
    PROVE  \E f : IsFlat(f, s, n)
<1> DEFINE T == {k \in Nat : ~\E f : IsFlat(f, s, k)}
<1>1. ASSUME T # {} PROVE FALSE
  <2>1. PICK k \in T : \A j \in T : ~(j < k)
    <3>1. T \subseteq Nat
      OBVIOUS
    <3> HIDE DEF T
    <3> QED BY <1>1, <3>1, LeastOf
  <2>2. CASE k = 0
    <3> DEFINE f == [i \in 1..0 |-> s[i]]
    <3>1. f = [i \in 1..0 |-> IF i = 1 THEN s[i] ELSE f[i - 1] \o s[i]]
      OBVIOUS
    <3>2. IsFlat(f, s, 0)
      BY <3>1 DEF IsFlat
    <3> QED BY <2>2, <3>2
  <2>3. CASE k # 0
    <3>1. k - 1 \in Nat /\ k - 1 \notin T
      BY <2>1, <2>3
    <3>2. PICK g : IsFlat(g, s, k - 1)
      BY <3>1
    <3> DEFINE f == [i \in 1..k |-> IF i = 1 THEN s[i] ELSE g[i - 1] \o s[i]]
    <3>3. ASSUME NEW i \in 1..(k - 1) PROVE f[i] = g[i]
      <4>1. i \in 1..k
        BY <3>1
      <4>2. g = [j \in 1..(k - 1) |-> IF j = 1 THEN s[j] ELSE g[j - 1] \o s[j]]
        BY <3>2 DEF IsFlat
      <4>3. g[i] = IF i = 1 THEN s[i] ELSE g[i - 1] \o s[i]
        BY <4>2
      <4> QED BY <4>1, <4>3
    <3>4. \A i \in 1..k : i # 1 => i - 1 \in 1..(k - 1)
      BY <3>1
    <3>5. f = [i \in 1..k |-> IF i = 1 THEN s[i] ELSE f[i - 1] \o s[i]]
      <4>1. \A i \in 1..k : i # 1 => f[i - 1] = g[i - 1]
        BY <3>3, <3>4
      <4> QED BY <4>1
    <3>6. IsFlat(f, s, k)
      BY <3>5 DEF IsFlat
    <3> QED BY <3>6
  <2> QED BY <2>2, <2>3
<1> QED BY <1>1

\* FlattenSeq is its last value.
LEMMA FlattenValue ==
    ASSUME NEW s, Len(s) \in Nat, Len(s) # 0
    PROVE  \E f : IsFlat(f, s, Len(s)) /\ FlattenSeq(s) = f[Len(s)]
<1> DEFINE flatten == CHOOSE f : f = [i \in 1..Len(s) |-> IF i = 1 THEN s[i] ELSE f[i - 1] \o s[i]]
<1>1. \E f : f = [i \in 1..Len(s) |-> IF i = 1 THEN s[i] ELSE f[i - 1] \o s[i]]
  BY FlatExists, ZenonT(60) DEF IsFlat
<1>2. flatten = [i \in 1..Len(s) |-> IF i = 1 THEN s[i] ELSE flatten[i - 1] \o s[i]]
  BY <1>1
<1>3. IsFlat(flatten, s, Len(s))
  BY <1>2 DEF IsFlat
<1>4. FlattenSeq(s) = flatten[Len(s)]
  BY DEF FlattenSeq
<1> QED BY <1>3, <1>4, ZenonT(60)

\* A sequence of one sequence.
LEMMA FlattenOne ==
    ASSUME NEW s, Len(s) = 1
    PROVE  FlattenSeq(s) = s[1]
<1>0. Len(s) \in Nat /\ Len(s) # 0
  OBVIOUS
<1>1. PICK f : IsFlat(f, s, Len(s)) /\ FlattenSeq(s) = f[Len(s)]
  BY <1>0, FlattenValue
<1>2. f = [i \in 1..1 |-> IF i = 1 THEN s[i] ELSE f[i - 1] \o s[i]]
  BY <1>1 DEF IsFlat
<1>3. f[1] = s[1]
  BY <1>2
<1> QED BY <1>1, <1>3

\* A sequence at the end.
LEMMA FlattenAppend ==
    ASSUME NEW S, NEW s \in Seq(S), s # <<>>, NEW x \in S
    PROVE  FlattenSeq(Append(s, x)) = FlattenSeq(s) \o x
<1> DEFINE t == Append(s, x)
           n == Len(s)
<1>1. /\ n \in Nat /\ n # 0 /\ n + 1 \in Nat /\ Len(t) = n + 1 /\ t[n + 1] = x
      /\ \A i \in 1..n : t[i] = s[i]
  OBVIOUS
<1> HIDE DEF t, n
<1>2. PICK f : IsFlat(f, s, n) /\ FlattenSeq(s) = f[n]
  BY <1>1, FlattenValue DEF n
<1>3. PICK g : IsFlat(g, t, n + 1) /\ FlattenSeq(t) = g[n + 1]
  BY <1>1, FlattenValue
<1>4. \A i \in 1..n : f[i] = IF i = 1 THEN s[i] ELSE f[i - 1] \o s[i]
  <2>1. f = [i \in 1..n |-> IF i = 1 THEN s[i] ELSE f[i - 1] \o s[i]]
    BY <1>2 DEF IsFlat
  <2> QED BY <2>1
<1>5. \A i \in 1..n + 1 : g[i] = IF i = 1 THEN t[i] ELSE g[i - 1] \o t[i]
  <2>1. g = [i \in 1..n + 1 |-> IF i = 1 THEN t[i] ELSE g[i - 1] \o t[i]]
    BY <1>3 DEF IsFlat
  <2> QED BY <2>1
<1> DEFINE T == {k \in Nat : k \in 1..n /\ f[k] # g[k]}
<1>6. ASSUME T # {} PROVE FALSE
  <2>1. PICK k \in T : \A j \in T : ~(j < k)
    <3>1. T \subseteq Nat
      OBVIOUS
    <3> HIDE DEF T
    <3> QED BY <1>6, <3>1, LeastOf
  <2>2. k \in 1..n /\ k \in 1..n + 1 /\ f[k] # g[k]
    BY <1>1
  <2>3. CASE k = 1
    BY <2>2, <2>3, <1>1, <1>4, <1>5
  <2>4. CASE k # 1
    <3>1. k - 1 \in 1..n /\ k - 1 \in Nat /\ k - 1 < k
      BY <2>2, <2>4, <1>1
    <3>2. f[k - 1] = g[k - 1]
      BY <3>1, <2>1
    <3> QED BY <3>2, <2>2, <2>4, <1>1, <1>4, <1>5
  <2> QED BY <2>3, <2>4
<1>7. f[n] = g[n]
  BY <1>6, <1>1
<1>8. g[n + 1] = g[n] \o x
  <2>1. n + 1 \in 1..n + 1 /\ n + 1 # 1 /\ (n + 1) - 1 = n
    BY <1>1
  <2> QED BY <2>1, <1>5, <1>1
<1> QED BY <1>2, <1>3, <1>7, <1>8 DEF t

-----------------------------------------------------------------------------
(* What the page has seen after each of its steps.  A view keeps, of every reply, how many  *)
(* signals were released, how far its stream was read and whether it is open, the cookies,  *)
(* and the times of the event action.  The numbers of bytes and signals that wait are not   *)
(* part of it: they depend on the network in a recording and not on it in a replay.         *)

Look == [rel : Nat, pos : Nat, open : BOOLEAN]

View == [rs : Seq(Look), jar : SUBSET Nat, times : Seq(Nat)]

FirstView == [rs |-> <<>>, jar |-> {}, times |-> <<>>]

\* The view v, but for reply r.
Sees(v, r, x) == [v EXCEPT !.rs = [v.rs EXCEPT ![r] = x]]

\* The step s of a page with the view v, which has the view w afterwards.
AfterRequest(bs, v, s, w) ==
    /\ s.op = "request" /\ s.res = <<>>
    /\ Len(v.rs) + 1 <= Len(bs) /\ bs[Len(v.rs) + 1].url = s.arg
    /\ w = [v EXCEPT !.rs = Append(@, [rel |-> 0, pos |-> 0, open |-> TRUE])]

AfterRead(bs, v, s, w) ==
    LET r == s.arg
        size == SizeAt(bs[r].entries, v.rs[r].rel)
    IN  /\ s.op = "read"
        /\ r \in 1..Len(v.rs) /\ r <= Len(bs) /\ v.rs[r].open
        /\ v.rs[r].rel <= Len(bs[r].entries)
        /\ s.res = <<bs[r].url, bs[r].num, v.rs[r].pos, size>>
        /\ w = Sees(v, r, [v.rs[r] EXCEPT !.pos = size])

AfterAbort(v, s, w) ==
    /\ s.op = "abort" /\ s.res = <<>>
    /\ s.arg \in 1..Len(v.rs) /\ v.rs[s.arg].open
    /\ w = Sees(v, s.arg, [v.rs[s.arg] EXCEPT !.open = FALSE])

AfterTime(v, s, w) ==
    /\ s.op = "time" /\ s.arg = 0
    /\ \E t \in Nat : s.res = <<t>> /\ w = [v EXCEPT !.times = Append(@, t)]

Doing(bs, v, s, w) ==
    AfterRequest(bs, v, s, w) \/ AfterRead(bs, v, s, w) \/ AfterAbort(v, s, w) \/ AfterTime(v, s, w)

\* The event action d begins with the step s.
AfterPage(d, v, s, w) ==
    /\ d.type = "Page"
    /\ s = Step("begin", 0, <<"page", v.jar>>)
    /\ w = [v EXCEPT !.times = <<>>]

AfterSignal(bs, d, v, s, w, r) ==
    LET k == v.rs[r].rel + 1
    IN  /\ r \in 1..Len(v.rs) /\ r <= Len(bs) /\ v.rs[r].open /\ k <= Len(bs[r].entries)
        /\ d = Signal(bs[r].url, bs[r].num, bs[r].entries, k)
        /\ s = Step("begin", 0, <<bs[r].entries[k], v.jar \cup {r}>>)
        /\ w = [rs |-> [v.rs EXCEPT ![r] = [v.rs[r] EXCEPT !.rel = k]], jar |-> v.jar \cup {r},
                times |-> <<>>]

Beginning(bs, d, v, s, w) == AfterPage(d, v, s, w) \/ \E r \in Nat : AfterSignal(bs, d, v, s, w, r)

\* The views after and before the event action i.
AtEnd(W, tr, i) == W[<<i, Len(tr[i].steps)>>]

Start(W, tr, i) == IF i = 1 THEN FirstView ELSE AtEnd(W, tr, i - 1)

\* The view after all event actions.
Now(W, tr) == Start(W, tr, Len(tr) + 1)

\* One sequence begins another.
Begins(a, b) == Len(a) <= Len(b) /\ \A k \in 1..Len(a) : a[k] = b[k]

TimesOf(steps) == [j \in DOMAIN steps |-> IF steps[j].op = "time" THEN steps[j].res ELSE <<>>]

\* W[<<i, j>>] is the view after the step j of the event action i.
GoodAt(bs, tr, W, i) ==
    LET steps == tr[i].steps
        n == Len(steps)
    IN  /\ n >= 1
        /\ Beginning(bs, tr[i].desc, Start(W, tr, i), steps[1], W[<<i, 1>>])
        /\ \A j \in 1..n - 1 : Doing(bs, W[<<i, j>>], steps[j + 1], W[<<i, j + 1>>])
        /\ \A j \in 1..n : Begins(W[<<i, j>>].times, W[<<i, n>>].times)
        /\ W[<<i, n>>].times = FlattenSeq(TimesOf(steps))

Good(bs, tr, W) == \A i \in 1..Len(tr) : GoodAt(bs, tr, W, i)

Views == [Nat \X Nat -> View]

\* Replies come and grow, and are otherwise kept.
Stable(bs, bs2) ==
    /\ Len(bs) <= Len(bs2)
    /\ \A b \in 1..Len(bs) :
         /\ bs2[b].url = bs[b].url /\ bs2[b].num = bs[b].num
         /\ Len(bs[b].entries) <= Len(bs2[b].entries)
         /\ \A k \in 1..Len(bs[b].entries) : bs2[b].entries[k] = bs[b].entries[k]

\* The parts of a recorded reply.
LEMMA BaseParts ==
    ASSUME NEW bs \in Seq(Base), NEW b \in 1..Len(bs)
    PROVE  /\ bs[b] \in Base /\ bs[b].url \in Urls /\ bs[b].num \in Nat /\ bs[b].pos \in Nat
           /\ bs[b].entries \in Seq(Snapshot) /\ Len(bs[b].entries) \in Nat
<1>1. bs[b] \in Base
  OBVIOUS
<1>2. bs[b].url \in Urls /\ bs[b].num \in Nat /\ bs[b].pos \in Nat /\ bs[b].entries \in Seq(Snapshot)
  BY <1>1 DEF Base
<1> QED BY <1>1, <1>2

\* The parts of a view.
LEMMA ViewParts ==
    ASSUME NEW v \in View
    PROVE  /\ v.rs \in Seq(Look) /\ Len(v.rs) \in Nat /\ v.jar \in SUBSET Nat /\ v.times \in Seq(Nat)
           /\ \A r \in 1..Len(v.rs) : /\ v.rs[r] \in Look /\ v.rs[r].rel \in Nat
                                      /\ v.rs[r].pos \in Nat /\ v.rs[r].open \in BOOLEAN
<1>1. v.rs \in Seq(Look) /\ v.jar \in SUBSET Nat /\ v.times \in Seq(Nat)
  BY DEF View
<1>2. Len(v.rs) \in Nat /\ \A r \in 1..Len(v.rs) : v.rs[r] \in Look
  BY <1>1
<1>3. \A x \in Look : x.rel \in Nat /\ x.pos \in Nat /\ x.open \in BOOLEAN
  BY DEF Look
<1> QED BY <1>1, <1>2, <1>3

\* What the page saw does not depend on what has come since.
LEMMA DoingStable ==
    ASSUME NEW bs \in Seq(Base), NEW bs2 \in Seq(Base), Stable(bs, bs2),
           NEW v \in View, NEW s, NEW w, Doing(bs, v, s, w)
    PROVE  Doing(bs2, v, s, w)
<1>0. Len(bs) \in Nat /\ Len(bs2) \in Nat /\ Len(bs) <= Len(bs2) /\ v.rs \in Seq(Look) /\ Len(v.rs) \in Nat
  BY DEF Stable, View
<1>1. CASE AfterRequest(bs, v, s, w)
  <2>1. Len(v.rs) + 1 \in 1..Len(bs)
    BY <1>0, <1>1 DEF AfterRequest
  <2>2. bs2[Len(v.rs) + 1].url = bs[Len(v.rs) + 1].url /\ Len(v.rs) + 1 <= Len(bs2)
    BY <2>1, <1>0 DEF Stable
  <2> QED BY <1>1, <2>2 DEF AfterRequest, Doing
<1>2. CASE AfterRead(bs, v, s, w)
  <2> DEFINE r == s.arg
             n == v.rs[r].rel
  <2>1. r \in 1..Len(v.rs) /\ r \in 1..Len(bs) /\ r <= Len(bs2) /\ n <= Len(bs[r].entries)
    BY <1>0, <1>2 DEF AfterRead
  <2>2. n \in Nat /\ Len(bs[r].entries) \in Nat /\ r \in 1..Len(bs2) /\ Len(bs2[r].entries) \in Nat
    <3>1. r \in 1..Len(bs2)
      BY <2>1, <1>0
    <3> QED BY <3>1, <2>1, ViewParts, BaseParts
  <2>3. /\ bs2[r].url = bs[r].url /\ bs2[r].num = bs[r].num
        /\ Len(bs[r].entries) <= Len(bs2[r].entries)
        /\ \A k \in 1..Len(bs[r].entries) : bs2[r].entries[k] = bs[r].entries[k]
    BY <2>1 DEF Stable
  <2>4. SizeAt(bs2[r].entries, n) = SizeAt(bs[r].entries, n) /\ n <= Len(bs2[r].entries)
    <3> HIDE DEF r, n
    <3> QED BY <2>1, <2>2, <2>3 DEF SizeAt
  <2>5. AfterRead(bs2, v, s, w)
    BY <1>2, <2>1, <2>3, <2>4 DEF AfterRead
  <2> QED BY <2>5 DEF Doing
<1>3. CASE AfterAbort(v, s, w) \/ AfterTime(v, s, w)
  BY <1>3 DEF Doing
<1> QED BY <1>1, <1>2, <1>3 DEF Doing

\* The same of an event action that begins.
LEMMA BeginningStable ==
    ASSUME NEW bs \in Seq(Base), NEW bs2 \in Seq(Base), Stable(bs, bs2),
           NEW v \in View, NEW d, NEW s, NEW w, Beginning(bs, d, v, s, w)
    PROVE  Beginning(bs2, d, v, s, w)
<1>0. Len(bs) \in Nat /\ Len(bs2) \in Nat /\ Len(bs) <= Len(bs2) /\ v.rs \in Seq(Look)
  BY DEF Stable, View
<1>1. CASE AfterPage(d, v, s, w)
  BY <1>1, SMTT(60) DEF Beginning
<1>2. ASSUME NEW r \in Nat, AfterSignal(bs, d, v, s, w, r)
      PROVE  AfterSignal(bs2, d, v, s, w, r)
  <2> DEFINE k == v.rs[r].rel + 1
  <2>1. r \in 1..Len(v.rs) /\ r \in 1..Len(bs) /\ r <= Len(bs2) /\ k <= Len(bs[r].entries)
    BY <1>0, <1>2 DEF AfterSignal
  <2>2. /\ k \in Nat /\ k >= 1 /\ Len(bs[r].entries) \in Nat /\ r \in 1..Len(bs2)
        /\ Len(bs2[r].entries) \in Nat
    <3>1. r \in 1..Len(bs2)
      BY <2>1, <1>0
    <3>2. v.rs[r].rel \in Nat /\ Len(bs[r].entries) \in Nat /\ Len(bs2[r].entries) \in Nat
      BY <3>1, <2>1, ViewParts, BaseParts
    <3> QED BY <3>1, <3>2
  <2>3. /\ bs2[r].url = bs[r].url /\ bs2[r].num = bs[r].num
        /\ Len(bs[r].entries) <= Len(bs2[r].entries)
        /\ \A i \in 1..Len(bs[r].entries) : bs2[r].entries[i] = bs[r].entries[i]
    BY <2>1 DEF Stable
  <2>4. k <= Len(bs2[r].entries) /\ bs2[r].entries[k] = bs[r].entries[k]
    <3> HIDE DEF k
    <3> QED BY <2>1, <2>2, <2>3
  <2> QED BY <1>2, <2>1, <2>3, <2>4 DEF AfterSignal, Signal
<1> QED BY <1>1, <1>2 DEF Beginning

\* The size of a snapshot.
LEMMA SizeType ==
    ASSUME NEW e \in Seq(Snapshot), NEW n \in Nat, n <= Len(e)
    PROVE  SizeAt(e, n) \in Nat
<1>1. CASE n = 0
  BY <1>1 DEF SizeAt
<1>2. CASE n # 0
  <2>1. e[n] \in Snapshot
    BY <1>2
  <2>2. e[n].size \in Nat
    BY <2>1 DEF Snapshot
  <2> QED BY <1>2, <2>2 DEF SizeAt
<1> QED BY <1>1, <1>2

\* A view of which one reply is changed.
LEMMA LookChanged ==
    ASSUME NEW v \in View, NEW r, r \in 1..Len(v.rs), NEW x, x \in Look, NEW w, w = Sees(v, r, x)
    PROVE  /\ w \in View /\ w.jar = v.jar /\ w.times = v.times
           /\ Len(w.rs) = Len(v.rs) /\ w.rs[r] = x
           /\ \A q \in 1..Len(v.rs) : q # r => w.rs[q] = v.rs[q]
<1> DEFINE rs == [v.rs EXCEPT ![r] = x]
<1>1. v.rs \in Seq(Look)
  BY DEF View
<1>2. rs \in Seq(Look) /\ Len(rs) = Len(v.rs) /\ rs[r] = x /\ \A q \in 1..Len(v.rs) : q # r => rs[q] = v.rs[q]
  BY <1>1
<1>3. w = [v EXCEPT !.rs = rs]
  BY DEF Sees
<1> HIDE DEF rs
<1>4. w \in View /\ w.jar = v.jar /\ w.times = v.times /\ w.rs = rs
  BY <1>2, <1>3 DEF View
<1> QED BY <1>2, <1>4 DEF rs

\* The step s reads the clock.
ReadsClock(v, s, w) == \E t \in Nat : s.res = <<t>> /\ w.times = Append(v.times, t)

\* What the page does changes times by a reading of the clock only, and no count of signals.
LEMMA DoingFacts ==
    ASSUME NEW bs \in Seq(Base), NEW v \in View, NEW s, NEW w, Doing(bs, v, s, w)
    PROVE  /\ w \in View
           /\ s.op = "time" => ReadsClock(v, s, w)
           /\ s.op # "time" => w.times = v.times
           /\ w.jar = v.jar
           /\ Len(v.rs) <= Len(w.rs)
           /\ \A r \in 1..Len(v.rs) : w.rs[r].rel = v.rs[r].rel
<1>0. /\ v.rs \in Seq(Look) /\ Len(v.rs) \in Nat /\ v.jar \in SUBSET Nat /\ v.times \in Seq(Nat)
      /\ \A r \in 1..Len(v.rs) : /\ v.rs[r] \in Look /\ v.rs[r].rel \in Nat
                                 /\ v.rs[r].pos \in Nat /\ v.rs[r].open \in BOOLEAN
  BY ViewParts
<1>1. CASE AfterRequest(bs, v, s, w)
  <2> DEFINE x == [rel |-> 0, pos |-> 0, open |-> TRUE]
             rs == Append(v.rs, x)
  <2>1. x \in Look
    BY DEF Look
  <2> HIDE DEF x
  <2>2. rs \in Seq(Look) /\ Len(rs) = Len(v.rs) + 1 /\ \A r \in 1..Len(v.rs) : rs[r] = v.rs[r]
    BY <2>1, <1>0
  <2>3. w = [v EXCEPT !.rs = rs] /\ s.op = "request"
    BY <1>1 DEF AfterRequest, x
  <2> HIDE DEF rs
  <2>4. w \in View /\ w.rs = rs /\ w.jar = v.jar /\ w.times = v.times
    BY <2>2, <2>3 DEF View
  <2> QED BY <2>2, <2>3, <2>4, <1>0
<1>2. CASE AfterRead(bs, v, s, w)
  <2> DEFINE r == s.arg
             size == SizeAt(bs[r].entries, v.rs[r].rel)
             x == [v.rs[r] EXCEPT !.pos = size]
  <2>1. /\ r \in 1..Len(v.rs) /\ r <= Len(bs) /\ v.rs[r].rel <= Len(bs[r].entries) /\ s.op = "read"
        /\ w = Sees(v, r, x)
    BY <1>2 DEF AfterRead
  <2>2. size \in Nat
    <3>1. r \in 1..Len(bs)
      BY <2>1, <1>0
    <3> QED BY <3>1, <2>1, <1>0, BaseParts, SizeType
  <2> HIDE DEF size
  <2>3. x \in Look /\ x.rel = v.rs[r].rel
    BY <2>1, <2>2, <1>0 DEF Look
  <2> HIDE DEF x, r
  <2>4. /\ w \in View /\ w.jar = v.jar /\ w.times = v.times
        /\ Len(w.rs) = Len(v.rs) /\ w.rs[r] = x
        /\ \A q \in 1..Len(v.rs) : q # r => w.rs[q] = v.rs[q]
    BY <2>1, <2>3, LookChanged, SMTT(60)
  <2>5. \A q \in 1..Len(v.rs) : w.rs[q].rel = v.rs[q].rel
    BY <2>3, <2>4
  <2> QED BY <2>1, <2>4, <2>5, <1>0, SMTT(60)
<1>3. CASE AfterAbort(v, s, w)
  <2> DEFINE r == s.arg
             x == [v.rs[r] EXCEPT !.open = FALSE]
  <2>1. r \in 1..Len(v.rs) /\ s.op = "abort" /\ w = Sees(v, r, x)
    BY <1>3 DEF AfterAbort
  <2>3. x \in Look /\ x.rel = v.rs[r].rel
    BY <2>1, <1>0 DEF Look
  <2> HIDE DEF x, r
  <2>4. /\ w \in View /\ w.jar = v.jar /\ w.times = v.times
        /\ Len(w.rs) = Len(v.rs) /\ w.rs[r] = x
        /\ \A q \in 1..Len(v.rs) : q # r => w.rs[q] = v.rs[q]
    BY <2>1, <2>3, LookChanged
  <2>5. \A q \in 1..Len(v.rs) : w.rs[q].rel = v.rs[q].rel
    BY <2>3, <2>4
  <2> QED BY <2>1, <2>4, <2>5, <1>0
<1>4. CASE AfterTime(v, s, w)
  <2>1. PICK t \in Nat : s.res = <<t>> /\ w = [v EXCEPT !.times = Append(@, t)]
    BY <1>4 DEF AfterTime
  <2>2. Append(v.times, t) \in Seq(Nat)
    BY <1>0
  <2>3. w \in View /\ w.times = Append(v.times, t) /\ w.rs = v.rs /\ w.jar = v.jar /\ s.op = "time"
    BY <2>1, <2>2, <1>4 DEF View, AfterTime
  <2>4. ReadsClock(v, s, w)
    BY <2>1, <2>3 DEF ReadsClock
  <2> QED BY <2>3, <2>4, <1>0
<1> QED BY <1>1, <1>2, <1>3, <1>4 DEF Doing

\* An event action begins without times and counts its own signal.
LEMMA BeginningFacts ==
    ASSUME NEW bs \in Seq(Base), NEW v \in View, NEW d, NEW s, NEW w, Beginning(bs, d, v, s, w)
    PROVE  /\ w \in View /\ w.times = <<>> /\ s.op = "begin"
           /\ Len(v.rs) = Len(w.rs)
           /\ \A r \in 1..Len(v.rs) : w.rs[r].rel >= v.rs[r].rel
<1>0. /\ v.rs \in Seq(Look) /\ Len(v.rs) \in Nat /\ v.jar \in SUBSET Nat /\ v.times \in Seq(Nat)
      /\ \A r \in 1..Len(v.rs) : /\ v.rs[r] \in Look /\ v.rs[r].rel \in Nat
                                 /\ v.rs[r].pos \in Nat /\ v.rs[r].open \in BOOLEAN
  BY ViewParts
<1>1. CASE AfterPage(d, v, s, w)
  <2>1. w = [v EXCEPT !.times = <<>>] /\ <<>> \in Seq(Nat) /\ s.op = "begin"
    BY <1>1 DEF AfterPage, Step
  <2>2. w \in View /\ w.times = <<>> /\ w.rs = v.rs
    BY <2>1 DEF View
  <2> QED BY <2>1, <2>2, <1>0
<1>2. ASSUME NEW r \in Nat, AfterSignal(bs, d, v, s, w, r)
      PROVE  /\ w \in View /\ w.times = <<>> /\ s.op = "begin"
             /\ Len(v.rs) = Len(w.rs)
             /\ \A q \in 1..Len(v.rs) : w.rs[q].rel >= v.rs[q].rel
  <2> DEFINE k == v.rs[r].rel + 1
             x == [v.rs[r] EXCEPT !.rel = k]
             rs == [v.rs EXCEPT ![r] = x]
  <2>1. /\ r \in 1..Len(v.rs) /\ s.op = "begin"
        /\ w = [rs |-> rs, jar |-> v.jar \cup {r}, times |-> <<>>]
    BY <1>2 DEF AfterSignal, Step
  <2>2. k \in Nat /\ k >= v.rs[r].rel
    BY <2>1, <1>0
  <2>3. x \in Look /\ x.rel = k
    BY <2>1, <2>2, <1>0 DEF Look
  <2> HIDE DEF x
  <2>4. rs \in Seq(Look) /\ Len(rs) = Len(v.rs) /\ rs[r] = x /\ \A q \in 1..Len(v.rs) : q # r => rs[q] = v.rs[q]
    BY <2>1, <2>3, <1>0
  <2> HIDE DEF rs
  <2>5. /\ w \in View /\ w.rs = rs /\ w.times = <<>>
    BY <2>1, <2>4, <1>0 DEF View
  <2>6. ASSUME NEW q \in 1..Len(v.rs) PROVE w.rs[q].rel >= v.rs[q].rel
    <3>1. CASE q = r
      BY <3>1, <2>2, <2>3, <2>4, <2>5
    <3>2. CASE q # r
      BY <3>2, <2>4, <2>5, <1>0
    <3> QED BY <3>1, <3>2
  <2> QED BY <2>1, <2>4, <2>5, <2>6
<1> QED BY <1>1, <1>2 DEF Beginning

\* The parts of an event action.
LEMMA ItemParts ==
    ASSUME NEW tr \in Seq(Item), NEW i \in 1..Len(tr)
    PROVE  tr[i] \in Item /\ tr[i].steps \in Seq(StepType) /\ Len(tr[i].steps) \in Nat
<1>1. tr[i] \in Item
  OBVIOUS
<1>2. tr[i].steps \in Seq(StepType)
  BY <1>1 DEF Item
<1> QED BY <1>1, <1>2

\* Views are views.
LEMMA StartType ==
    ASSUME NEW tr \in Seq(Item), NEW W \in Views, NEW i \in 1..Len(tr) + 1
    PROVE  Start(W, tr, i) \in View /\ Now(W, tr) \in View
<1>0. Len(tr) \in Nat /\ FirstView \in View
  <2>1. <<>> \in Seq(Look) /\ <<>> \in Seq(Nat) /\ {} \in SUBSET Nat
    OBVIOUS
  <2> QED BY <2>1 DEF FirstView, View
<1>1. ASSUME NEW j \in 1..Len(tr) + 1 PROVE Start(W, tr, j) \in View
  <2>1. CASE j = 1
    BY <2>1, <1>0 DEF Start
  <2>2. CASE j # 1
    <3>1. j - 1 \in 1..Len(tr) /\ j - 1 \in Nat
      BY <2>2, <1>0
    <3>2. Len(tr[j - 1].steps) \in Nat
      BY <3>1, ItemParts
    <3> QED BY <2>2, <3>1, <3>2 DEF Start, AtEnd, Views
  <2> QED BY <2>1, <2>2
<1>2. Len(tr) + 1 \in 1..Len(tr) + 1
  BY <1>0
<1> QED BY <1>1, <1>2 DEF Now

\* What the page saw stays what it saw.
LEMMA GoodStable ==
    ASSUME NEW bs \in Seq(Base), NEW bs2 \in Seq(Base), Stable(bs, bs2),
           NEW tr \in Seq(Item), NEW W \in Views, Good(bs, tr, W)
    PROVE  Good(bs2, tr, W)
<1> SUFFICES ASSUME NEW i \in 1..Len(tr) PROVE GoodAt(bs2, tr, W, i)
  BY DEF Good
<1>0. Len(tr) \in Nat /\ i \in Nat /\ GoodAt(bs, tr, W, i)
  BY DEF Good
<1>1. i \in 1..Len(tr) + 1
  BY <1>0
<1>2. Start(W, tr, i) \in View
  BY <1>1, StartType
<1>3. Len(tr[i].steps) \in Nat
  BY ItemParts
<1>4. Beginning(bs2, tr[i].desc, Start(W, tr, i), tr[i].steps[1], W[<<i, 1>>])
  BY <1>0, <1>2, BeginningStable DEF GoodAt
<1>5. ASSUME NEW j \in 1..Len(tr[i].steps) - 1
      PROVE  Doing(bs2, W[<<i, j>>], tr[i].steps[j + 1], W[<<i, j + 1>>])
  <2>1. j \in Nat
    OBVIOUS
  <2>2. W[<<i, j>>] \in View
    BY <1>0, <2>1 DEF Views
  <2>3. Doing(bs, W[<<i, j>>], tr[i].steps[j + 1], W[<<i, j + 1>>])
    BY <1>0 DEF GoodAt
  <2> QED BY <2>2, <2>3, DoingStable
<1> QED BY <1>0, <1>4, <1>5 DEF GoodAt

\* Sequences are equal when their elements are.
LEMMA SeqsEqual ==
    ASSUME NEW S, NEW a \in Seq(S), NEW b \in Seq(S), Len(a) = Len(b),
           \A j \in 1..Len(a) : a[j] = b[j]
    PROVE  a = b
OBVIOUS

\* The times of an event action after one more step.
LEMMA TimesAppend ==
    ASSUME NEW steps \in Seq(StepType), steps # <<>>, NEW s \in StepType
    PROVE  FlattenSeq(TimesOf(Append(steps, s))) =
             FlattenSeq(TimesOf(steps)) \o (IF s.op = "time" THEN s.res ELSE <<>>)
<1> DEFINE T(x) == IF x.op = "time" THEN x.res ELSE <<>>
           n == Len(steps)
<1>1. \A x \in StepType : T(x) \in Seq(Seen)
  <2>1. \A x \in StepType : x.res \in Seq(Seen)
    BY DEF StepType
  <2>2. <<>> \in Seq(Seen)
    OBVIOUS
  <2> QED BY <2>1, <2>2
<1>2. n \in Nat /\ n # 0 /\ DOMAIN steps = 1..n /\ \A j \in 1..n : steps[j] \in StepType
  OBVIOUS
<1>3. /\ DOMAIN Append(steps, s) = 1..n + 1 /\ Append(steps, s)[n + 1] = s
      /\ \A j \in 1..n : Append(steps, s)[j] = steps[j]
  BY <1>2
<1>4. TimesOf(steps) = [j \in 1..n |-> T(steps[j])]
  BY <1>2 DEF TimesOf
<1>5. TimesOf(Append(steps, s)) = [j \in 1..n + 1 |-> T(Append(steps, s)[j])]
  BY <1>3 DEF TimesOf
<1> HIDE DEF T, n
<1>6. TimesOf(steps) \in Seq(Seq(Seen)) /\ Len(TimesOf(steps)) = n
  <2>1. TimesOf(steps) \in [1..n -> Seq(Seen)]
    BY <1>1, <1>2, <1>4
  <2> QED BY <2>1, <1>2, FunctionIsSeq
<1>7. TimesOf(Append(steps, s)) = Append(TimesOf(steps), T(s))
  <2> DEFINE a == TimesOf(Append(steps, s))
             b == Append(TimesOf(steps), T(s))
  <2>1. T(s) \in Seq(Seen) /\ Len(TimesOf(steps)) \in Nat
    BY <1>1, <1>2, <1>6
  <2>2. /\ b \in Seq(Seq(Seen)) /\ Len(b) = n + 1 /\ b[n + 1] = T(s)
        /\ \A j \in 1..n : b[j] = TimesOf(steps)[j]
    BY <2>1, <1>6
  <2>3. \A j \in 1..n + 1 : Append(steps, s)[j] \in StepType
    BY <1>2, <1>3
  <2>4. a \in Seq(Seq(Seen)) /\ Len(a) = n + 1
    <3>1. a \in [1..n + 1 -> Seq(Seen)]
      BY <1>1, <1>5, <2>3
    <3> QED BY <3>1, <1>2, FunctionIsSeq
  <2>5. ASSUME NEW j \in 1..n + 1 PROVE a[j] = b[j]
    <3>1. CASE j = n + 1
      BY <3>1, <2>2, <1>3, <1>5
    <3>2. CASE j # n + 1
      <4>1. j \in 1..n
        BY <3>2, <1>2
      <4>2. a[j] = T(steps[j])
        BY <4>1, <1>3, <1>5
      <4> QED BY <4>1, <4>2, <2>2, <1>4
    <3> QED BY <3>1, <3>2
  <2> HIDE DEF a, b
  <2>6. a = b
    BY <2>2, <2>4, <2>5, SeqsEqual
  <2> QED BY <2>6 DEF a, b
<1>8. TimesOf(steps) # <<>>
  BY <1>2, <1>6
<1>9. FlattenSeq(Append(TimesOf(steps), T(s))) = FlattenSeq(TimesOf(steps)) \o T(s)
  BY <1>1, <1>6, <1>8, FlattenAppend
<1> QED BY <1>7, <1>9 DEF T

\* The times of an event action that begins.
LEMMA TimesFirst ==
    ASSUME NEW s, s.op = "begin"
    PROVE  FlattenSeq(TimesOf(<<s>>)) = <<>>
<1>1. TimesOf(<<s>>) = << <<>> >>
  BY DEF TimesOf
<1>2. Len(TimesOf(<<s>>)) = 1 /\ TimesOf(<<s>>)[1] = <<>>
  BY <1>1
<1> QED BY <1>2, FlattenOne

\* One view more.
LEMMA ViewAdded ==
    ASSUME NEW W \in Views, NEW n \in Nat, NEW m \in Nat, NEW w \in View
    PROVE  \E W2 \in Views :
              /\ W2[<<n, m>>] = w
              /\ \A i, j \in Nat : (i # n \/ j # m) => W2[<<i, j>>] = W[<<i, j>>]
<1> DEFINE W2 == [W EXCEPT ![<<n, m>>] = w]
<1>1. W2 \in Views /\ W2[<<n, m>>] = w
  BY DEF Views
<1>2. ASSUME NEW i \in Nat, NEW j \in Nat, i # n \/ j # m PROVE W2[<<i, j>>] = W[<<i, j>>]
  <2>1. <<i, j>> # <<n, m>> /\ <<i, j>> \in Nat \X Nat
    BY <1>2
  <2> QED BY <2>1 DEF Views
<1> HIDE DEF W2
<1> QED BY <1>1, <1>2

\* A sequence begins itself.
LEMMA BeginsSelf ==
    ASSUME NEW S, NEW a \in Seq(S)
    PROVE  Begins(a, a)
BY DEF Begins

\* A sequence begins a longer one.
LEMMA BeginsAppend ==
    ASSUME NEW S, NEW a \in Seq(S), NEW x \in S
    PROVE  Begins(a, Append(a, x))
<1>1. Len(Append(a, x)) = Len(a) + 1 /\ \A k \in 1..Len(a) : Append(a, x)[k] = a[k]
  OBVIOUS
<1> QED BY <1>1 DEF Begins

\* Beginnings of beginnings.
LEMMA BeginsTrans ==
    ASSUME NEW S, NEW a \in Seq(S), NEW b \in Seq(S), NEW c \in Seq(S), Begins(a, b), Begins(b, c)
    PROVE  Begins(a, c)
<1>1. Len(a) \in Nat /\ Len(b) \in Nat /\ Len(c) \in Nat
  OBVIOUS
<1> QED BY <1>1 DEF Begins

\* tr2 is tr with the step s at its end.
OneStepMore(tr, tr2, s) ==
    LET n == Len(tr)
    IN  /\ n >= 1 /\ Len(tr2) = n
        /\ \A i \in 1..n : i # n => tr2[i] = tr[i]
        /\ tr2[n].desc = tr[n].desc /\ tr2[n].steps = Append(tr[n].steps, s)

\* tr2 is tr with the event action d at its end, which begins with the step s.
OneActionMore(tr, tr2, d, s) ==
    LET n == Len(tr)
    IN  /\ Len(tr2) = n + 1 /\ \A i \in 1..n : tr2[i] = tr[i]
        /\ tr2[n + 1].desc = d /\ tr2[n + 1].steps = <<s>>

\* The same views after the event actions of S.
EndsAgree(W, tr, W2, tr2, S) == \A i \in S : AtEnd(W2, tr2, i) = AtEnd(W, tr, i)

\* The page does something: the views go on.
LEMMA GoodDoes ==
    ASSUME NEW bs \in Seq(Base), NEW tr \in Seq(Item), NEW tr2 \in Seq(Item), NEW W \in Views,
           Good(bs, tr, W), NEW s \in StepType, OneStepMore(tr, tr2, s),
           NEW w, Doing(bs, Now(W, tr), s, w)
    PROVE  \E W2 \in Views :
              Good(bs, tr2, W2) /\ Now(W2, tr2) = w /\ EndsAgree(W, tr, W2, tr2, 1..Len(tr) - 1)
<1> SUFFICES ASSUME NEW n \in Nat, n = Len(tr), n >= 1, Len(tr2) = n,
                    \A i \in 1..n : i # n => tr2[i] = tr[i],
                    tr2[n].desc = tr[n].desc, tr2[n].steps = Append(tr[n].steps, s)
             PROVE  \E W2 \in Views :
                       Good(bs, tr2, W2) /\ Now(W2, tr2) = w /\ EndsAgree(W, tr, W2, tr2, 1..n - 1)
  BY DEF OneStepMore
<1> DEFINE m == Len(tr[n].steps)
           v == Now(W, tr)
           st == tr[n].steps
           st2 == tr2[n].steps
<1>1. n \in 1..n /\ GoodAt(bs, tr, W, n) /\ m \in Nat /\ m >= 1 /\ st \in Seq(StepType) /\ n + 1 # 1 /\ (n + 1) - 1 = n
  BY ItemParts, SMTT(60) DEF Good, GoodAt
<1>2. v = W[<<n, m>>] /\ v \in View
  BY <1>1 DEF Now, Start, AtEnd, Views
<1>3. w \in View
  BY <1>2, DoingFacts
<1>4. PICK W2 \in Views :
              /\ W2[<<n, m + 1>>] = w
              /\ \A i, j \in Nat : (i # n \/ j # m + 1) => W2[<<i, j>>] = W[<<i, j>>]
  BY <1>1, <1>3, ViewAdded
<1>5. /\ Len(st2) = m + 1 /\ st2[m + 1] = s /\ \A j \in 1..m : st2[j] = st[j]
  BY <1>1
<1>6. ASSUME NEW i \in 1..n, i # n PROVE AtEnd(W2, tr2, i) = AtEnd(W, tr, i)
  <2>1. i \in Nat /\ Len(tr[i].steps) \in Nat /\ tr2[i] = tr[i]
    BY <1>6, ItemParts
  <2> QED BY <2>1, <1>4, <1>6 DEF AtEnd
<1>7. ASSUME NEW i \in 1..n PROVE Start(W2, tr2, i) = Start(W, tr, i)
  <2>1. CASE i = 1
    BY <2>1 DEF Start
  <2>2. CASE i # 1
    <3>1. i - 1 \in 1..n /\ i - 1 # n
      BY <2>2
    <3> QED BY <2>2, <3>1, <1>6 DEF Start
  <2> QED BY <2>1, <2>2
<1>8. ASSUME NEW i \in 1..n, i # n PROVE GoodAt(bs, tr2, W2, i)
  <2>1. GoodAt(bs, tr, W, i) /\ tr2[i] = tr[i] /\ i \in Nat /\ Len(tr[i].steps) \in Nat
    BY <1>8, ItemParts DEF Good
  <2>2. \A j \in Nat : W2[<<i, j>>] = W[<<i, j>>]
    BY <2>1, <1>4, <1>8
  <2>3. Start(W2, tr2, i) = Start(W, tr, i)
    BY <1>7
  <2>4. \A j \in 1..Len(tr[i].steps) : j \in Nat /\ j + 1 \in Nat
    OBVIOUS
  <2>5. \A j \in 1..Len(tr[i].steps) - 1 : j \in Nat /\ j + 1 \in Nat
    OBVIOUS
  <2> QED BY <2>1, <2>2, <2>3, <2>4, <2>5 DEF GoodAt
<1>9. GoodAt(bs, tr2, W2, n)
  <2>1. \A j \in 1..m : W2[<<n, j>>] = W[<<n, j>>] /\ j \in Nat
    BY <1>1, <1>4
  <2>2. Beginning(bs, tr2[n].desc, Start(W2, tr2, n), st2[1], W2[<<n, 1>>])
    <3>1. 1 \in 1..m
      BY <1>1
    <3>2. st2[1] = st[1] /\ W2[<<n, 1>>] = W[<<n, 1>>] /\ Start(W2, tr2, n) = Start(W, tr, n)
      BY <3>1, <2>1, <1>5, <1>7, <1>1
    <3>3. Beginning(bs, tr[n].desc, Start(W, tr, n), st[1], W[<<n, 1>>])
      BY <1>1 DEF GoodAt
    <3> QED BY <3>2, <3>3
  <2>3. ASSUME NEW j \in 1..(m + 1) - 1 PROVE Doing(bs, W2[<<n, j>>], st2[j + 1], W2[<<n, j + 1>>])
    <3>1. CASE j = m
      <4>1. W2[<<n, j>>] = v /\ st2[j + 1] = s /\ W2[<<n, j + 1>>] = w
        BY <3>1, <1>1, <1>2, <1>4, <1>5, <2>1
      <4> QED BY <4>1
    <3>2. CASE j # m
      <4>1. j \in 1..m /\ j + 1 \in 1..m /\ j \in 1..m - 1
        BY <3>2, <1>1
      <4>2. W2[<<n, j>>] = W[<<n, j>>] /\ W2[<<n, j + 1>>] = W[<<n, j + 1>>] /\ st2[j + 1] = st[j + 1]
        BY <4>1, <2>1, <1>5
      <4>3. Doing(bs, W[<<n, j>>], st[j + 1], W[<<n, j + 1>>])
        BY <4>1, <1>1 DEF GoodAt
      <4> QED BY <4>2, <4>3
    <3> QED BY <3>1, <3>2
  <2>4. /\ v.times \in Seq(Nat) /\ w.times \in Seq(Nat)
        /\ s.op = "time" => \E t \in Nat : s.res = <<t>> /\ w.times = Append(v.times, t)
        /\ s.op # "time" => w.times = v.times
    <3>1. v.times \in Seq(Nat) /\ w.times \in Seq(Nat)
      BY <1>2, <1>3, ViewParts
    <3>2. Doing(bs, v, s, w)
      OBVIOUS
    <3> HIDE DEF v
    <3>3. s.op = "time" => ReadsClock(v, s, w)
      BY <3>2, <1>2, DoingFacts
    <3>4. s.op # "time" => w.times = v.times
      BY <3>2, <1>2, DoingFacts
    <3> QED BY <3>1, <3>3, <3>4 DEF ReadsClock
  <2>5. Begins(v.times, w.times) /\ Begins(w.times, w.times)
    <3> HIDE DEF v
    <3>1. s.op = "time" => Begins(v.times, w.times)
      BY <2>4, BeginsAppend
    <3>2. s.op # "time" => Begins(v.times, w.times)
      BY <2>4, BeginsSelf
    <3>3. Begins(w.times, w.times)
      BY <2>4, BeginsSelf
    <3> QED BY <3>1, <3>2, <3>3
  <2>6. ASSUME NEW j \in 1..m + 1 PROVE Begins(W2[<<n, j>>].times, W2[<<n, m + 1>>].times)
    <3>1. CASE j = m + 1
      BY <3>1, <2>5, <1>4
    <3>2. CASE j # m + 1
      <4>1. j \in 1..m
        BY <3>2, <1>1
      <4>2. Begins(W[<<n, j>>].times, v.times)
        BY <4>1, <1>1, <1>2 DEF GoodAt
      <4>3. W[<<n, j>>].times \in Seq(Nat)
        <5>1. W[<<n, j>>] \in View
          BY <4>1, <2>1 DEF Views
        <5> QED BY <5>1, ViewParts
      <4>4. Begins(W[<<n, j>>].times, w.times)
        <5> HIDE DEF v
        <5> QED BY <4>2, <4>3, <2>4, <2>5, BeginsTrans
      <4> QED BY <4>1, <4>4, <2>1, <1>4
    <3> QED BY <3>1, <3>2
  <2>7. w.times = FlattenSeq(TimesOf(st2))
    <3>1. v.times = FlattenSeq(TimesOf(st))
      BY <1>1, <1>2 DEF GoodAt
    <3>2. st # <<>> /\ st2 = Append(st, s)
      BY <1>1
    <3>3. FlattenSeq(TimesOf(st2)) = v.times \o (IF s.op = "time" THEN s.res ELSE <<>>)
      BY <3>1, <3>2, <1>1, TimesAppend
    <3>4. CASE s.op = "time"
      <4>1. PICK t \in Nat : s.res = <<t>> /\ w.times = Append(v.times, t)
        BY <3>4, <2>4
      <4>2. v.times \o <<t>> = Append(v.times, t)
        BY <2>4, SMTT(60)
      <4> QED BY <3>3, <3>4, <4>1, <4>2
    <3>5. CASE s.op # "time"
      <4>1. v.times \o <<>> = v.times
        BY <2>4
      <4> QED BY <3>3, <3>5, <4>1, <2>4
    <3> QED BY <3>4, <3>5
  <2>8. Len(tr2[n].steps) = m + 1 /\ m + 1 >= 1
    BY <1>1, <1>5
  <2> HIDE DEF m, v, st2
  <2> QED BY <2>2, <2>3, <2>6, <2>7, <2>8, <1>4 DEF GoodAt, st2
<1>10. Now(W2, tr2) = w
  BY <1>1, <1>4, <1>5 DEF Now, Start, AtEnd
<1>11. EndsAgree(W, tr, W2, tr2, 1..n - 1)
  <2>1. \A i \in 1..n - 1 : i \in 1..n /\ i # n
    OBVIOUS
  <2> QED BY <2>1, <1>6 DEF EndsAgree
<1>12. Good(bs, tr2, W2)
  BY <1>8, <1>9 DEF Good
<1> QED BY <1>10, <1>11, <1>12

\* An event action begins: the views go on.
LEMMA GoodBegins ==
    ASSUME NEW bs \in Seq(Base), NEW tr \in Seq(Item), NEW tr2 \in Seq(Item), NEW W \in Views,
           Good(bs, tr, W), NEW d, NEW s, OneActionMore(tr, tr2, d, s),
           NEW w, Beginning(bs, d, Now(W, tr), s, w)
    PROVE  \E W2 \in Views :
              Good(bs, tr2, W2) /\ Now(W2, tr2) = w /\ EndsAgree(W, tr, W2, tr2, 1..Len(tr))
<1> SUFFICES ASSUME NEW n \in Nat, n = Len(tr), Len(tr2) = n + 1, \A i \in 1..n : tr2[i] = tr[i],
                    tr2[n + 1].desc = d, tr2[n + 1].steps = <<s>>
             PROVE  \E W2 \in Views :
                       Good(bs, tr2, W2) /\ Now(W2, tr2) = w /\ EndsAgree(W, tr, W2, tr2, 1..n)
  BY DEF OneActionMore
<1> DEFINE v == Now(W, tr)
<1>1. n + 1 \in 1..n + 1 /\ Len(tr) + 1 = n + 1
  OBVIOUS
<1>2. v \in View
  BY <1>1, StartType
<1>3. w \in View /\ w.times = <<>> /\ s.op = "begin"
  BY <1>2, BeginningFacts
<1>4. PICK W2 \in Views :
              /\ W2[<<n + 1, 1>>] = w
              /\ \A i, j \in Nat : (i # n + 1 \/ j # 1) => W2[<<i, j>>] = W[<<i, j>>]
  BY <1>3, ViewAdded
<1>5. ASSUME NEW i \in 1..n PROVE AtEnd(W2, tr2, i) = AtEnd(W, tr, i)
  <2>1. i \in Nat /\ Len(tr[i].steps) \in Nat /\ tr2[i] = tr[i] /\ i # n + 1
    BY ItemParts
  <2> QED BY <2>1, <1>4 DEF AtEnd
<1>6. ASSUME NEW i \in 1..n + 1 PROVE Start(W2, tr2, i) = Start(W, tr, i)
  <2>1. CASE i = 1
    BY <2>1 DEF Start
  <2>2. CASE i # 1
    <3>1. i - 1 \in 1..n
      BY <2>2
    <3> QED BY <2>2, <3>1, <1>5 DEF Start
  <2> QED BY <2>1, <2>2
<1>7. ASSUME NEW i \in 1..n PROVE GoodAt(bs, tr2, W2, i)
  <2>1. GoodAt(bs, tr, W, i) /\ tr2[i] = tr[i] /\ i \in Nat /\ Len(tr[i].steps) \in Nat /\ i # n + 1
    BY ItemParts DEF Good
  <2>2. \A j \in Nat : W2[<<i, j>>] = W[<<i, j>>]
    BY <2>1, <1>4
  <2>3. Start(W2, tr2, i) = Start(W, tr, i)
    BY <1>6
  <2>4. \A j \in 1..Len(tr[i].steps) : j \in Nat /\ j + 1 \in Nat
    OBVIOUS
  <2>5. \A j \in 1..Len(tr[i].steps) - 1 : j \in Nat /\ j + 1 \in Nat
    OBVIOUS
  <2> QED BY <2>1, <2>2, <2>3, <2>4, <2>5 DEF GoodAt
<1>8. Start(W2, tr2, n + 1) = v
  BY <1>1, <1>6 DEF Now
<1>9. GoodAt(bs, tr2, W2, n + 1)
  <2>1. Len(tr2[n + 1].steps) = 1 /\ tr2[n + 1].steps[1] = s
    OBVIOUS
  <2>2. \A j \in 1..1 : j = 1
    OBVIOUS
  <2>3. Begins(w.times, w.times)
    <3>1. w.times \in Seq(Nat)
      BY <1>3, ViewParts
    <3> QED BY <3>1, BeginsSelf
  <2>4. FlattenSeq(TimesOf(tr2[n + 1].steps)) = w.times
    BY <1>3, TimesFirst
  <2>5. \A j \in 1..1 - 1 : FALSE
    OBVIOUS
  <2>6. Beginning(bs, tr2[n + 1].desc, Start(W2, tr2, n + 1), tr2[n + 1].steps[1], W2[<<n + 1, 1>>])
    BY <2>1, <1>4, <1>8
  <2>7. \A j \in 1..1 : Begins(W2[<<n + 1, j>>].times, W2[<<n + 1, 1>>].times)
    BY <2>2, <2>3, <1>4
  <2>8. W2[<<n + 1, 1>>].times = FlattenSeq(TimesOf(tr2[n + 1].steps))
    BY <2>4, <1>4
  <2>9. 1 >= 1
    OBVIOUS
  <2> QED BY <2>1, <2>5, <2>6, <2>7, <2>8, <2>9 DEF GoodAt
<1>10. Now(W2, tr2) = w
  <2>1. Len(tr2) + 1 # 1 /\ (Len(tr2) + 1) - 1 = n + 1 /\ Len(tr2[n + 1].steps) = 1
    OBVIOUS
  <2> QED BY <2>1, <1>4 DEF Now, Start, AtEnd
<1>11. \A i \in 1..n + 1 : i = n + 1 \/ i \in 1..n
  OBVIOUS
<1>12. Good(bs, tr2, W2)
  BY <1>7, <1>9, <1>11 DEF Good
<1>13. EndsAgree(W, tr, W2, tr2, 1..n)
  BY <1>5 DEF EndsAgree
<1> QED BY <1>10, <1>12, <1>13

-----------------------------------------------------------------------------
(* The state of the process as a view of the page. *)

\* The reply r is as the page has seen it, with the cookies j.
Alike(reply, base, j, r, x) ==
    /\ reply.base = r
    /\ reply.open <=> x.open
    /\ base.pos = x.pos
    /\ reply.open => Released(reply, base.entries) = x.rel
    /\ reply.last # 0 => r \in j

Matches(bs, rp, j, v) ==
    /\ Len(rp) = Len(v.rs) /\ j = v.jar
    /\ \A r \in 1..Len(rp) : Alike(rp[r], bs[r], j, r, v.rs[r])

\* Types of the network, and the bases that are matched.
LEMMA MatchTypes ==
    ASSUME NetInv, NEW v \in View, Matches(bases, replies, jar, v)
    PROVE  /\ bases \in Seq(Base) /\ replies \in Seq(Reply) /\ Len(bases) \in Nat /\ Len(replies) \in Nat
           /\ DOMAIN replies = 1..Len(replies) /\ DOMAIN bases = 1..Len(bases)
           /\ \A r \in 1..Len(replies) : /\ r \in 1..Len(v.rs) /\ r \in 1..Len(bases) /\ r <= Len(bases)
                                         /\ replies[r].base = r /\ replies[r] \in Reply
                                         /\ v.rs[r] \in Look /\ Alike(replies[r], bases[r], jar, r, v.rs[r])
           /\ jar \in SUBSET Nat /\ v.jar = jar /\ Len(v.rs) = Len(replies)
<1>1. bases \in Seq(Base) /\ replies \in Seq(Reply) /\ jar \in SUBSET Nat
  BY DEF NetInv, NetType
<1>2. \A r \in 1..Len(replies) : replies[r].base = r /\ replies[r].base \in DOMAIN bases
  BY <1>1 DEF Matches, Alike, NetInv
<1>3. \A r \in 1..Len(replies) : r \in 1..Len(bases) /\ r \in 1..Len(v.rs)
  BY <1>1, <1>2 DEF Matches
<1>4. \A r \in 1..Len(replies) : v.rs[r] \in Look
  BY <1>3, ViewParts
<1> QED BY <1>1, <1>2, <1>3, <1>4 DEF Matches

\* A step of one reply.
LEMMA MatchOne ==
    ASSUME NEW bs, NEW bs2, NEW rp, NEW rp2, NEW j, NEW j2, NEW v, NEW w, Matches(bs, rp, j, v),
           NEW r \in 1..Len(rp), Len(rp2) = Len(rp), Len(w.rs) = Len(v.rs),
           \A q \in 1..Len(rp) : q # r => rp2[q] = rp[q] /\ bs2[q] = bs[q] /\ w.rs[q] = v.rs[q],
           j \subseteq j2, w.jar = j2, Alike(rp2[r], bs2[r], j2, r, w.rs[r])
    PROVE  Matches(bs2, rp2, j2, w)
<1>1. ASSUME NEW q \in 1..Len(rp), q # r PROVE Alike(rp2[q], bs2[q], j2, q, w.rs[q])
  BY <1>1 DEF Matches, Alike
<1> QED BY <1>1 DEF Matches

\* A reply is made.
LEMMA MatchMore ==
    ASSUME NEW bs, NEW bs2, NEW rp, NEW rp2, NEW j, NEW v, NEW w, Matches(bs, rp, j, v),
           NEW n \in Nat, n = Len(rp), Len(rp2) = n + 1, Len(w.rs) = n + 1,
           \A q \in 1..n : rp2[q] = rp[q] /\ bs2[q] = bs[q] /\ w.rs[q] = v.rs[q],
           w.jar = v.jar, Alike(rp2[n + 1], bs2[n + 1], j, n + 1, w.rs[n + 1])
    PROVE  Matches(bs2, rp2, j, w)
<1>1. ASSUME NEW q \in 1..n PROVE Alike(rp2[q], bs2[q], j, q, w.rs[q])
  BY DEF Matches, Alike
<1>2. \A q \in 1..n + 1 : q = n + 1 \/ q \in 1..n
  OBVIOUS
<1> QED BY <1>1, <1>2 DEF Matches

\* The page gives a reply up.
LEMMA MatchAbort ==
    ASSUME NetInv, NEW v \in View, Matches(bases, replies, jar, v), NEW r \in DOMAIN replies, Release(r),
           NEW s, s.op = "abort", s.arg = r, s.res = <<>>
    PROVE  \E w \in View : Doing(bases, v, s, w) /\ Matches(bases', replies', jar', w)
<1> DEFINE x == [v.rs[r] EXCEPT !.open = FALSE]
<1>0. /\ r \in 1..Len(replies) /\ r \in 1..Len(v.rs) /\ replies[r].base = r /\ replies[r] \in Reply
      /\ v.rs[r] \in Look /\ Alike(replies[r], bases[r], jar, r, v.rs[r]) /\ jar = v.jar
      /\ Len(v.rs) = Len(replies) /\ replies \in Seq(Reply)
  BY MatchTypes
<1>1. /\ replies[r].open /\ replies' = [replies EXCEPT ![r] = release(replies[r])]
      /\ bases' = bases /\ jar' = jar
  BY DEF Release
<1>2. x \in Look /\ x.open = FALSE /\ x.pos = v.rs[r].pos
  BY <1>0 DEF Look
<1>3. PICK new : new = release(replies[r])
  OBVIOUS
<1>4. new.base = r /\ ~new.open /\ new.last = replies[r].last
  BY <1>0, <1>3 DEF release, Reply
<1>5. /\ Len(replies') = Len(replies) /\ replies'[r] = new
      /\ \A q \in 1..Len(replies) : q # r => replies'[q] = replies[q]
  BY <1>0, <1>1, <1>3
<1>6. PICK w : w = Sees(v, r, x)
  OBVIOUS
<1>7. Doing(bases, v, s, w)
  BY <1>0, <1>1, <1>6 DEF Doing, AfterAbort, Alike
<1> HIDE DEF x
<1>8. /\ w \in View /\ w.jar = v.jar /\ Len(w.rs) = Len(v.rs) /\ w.rs[r] = x
      /\ \A q \in 1..Len(v.rs) : q # r => w.rs[q] = v.rs[q]
  BY <1>0, <1>2, <1>6, LookChanged
<1>9. Alike(replies'[r], bases'[r], jar', r, w.rs[r])
  BY <1>0, <1>1, <1>2, <1>4, <1>5, <1>8 DEF Alike
<1>10. \A q \in 1..Len(replies) : q # r => replies'[q] = replies[q] /\ bases'[q] = bases[q] /\ w.rs[q] = v.rs[q]
  BY <1>0, <1>1, <1>5, <1>8
<1>11. jar \subseteq jar' /\ w.jar = jar' /\ r \in 1..Len(replies) /\ Len(replies') = Len(replies) /\ Len(w.rs) = Len(v.rs)
  BY <1>0, <1>1, <1>5, <1>8
<1>12. Matches(bases', replies', jar', w)
  BY <1>9, <1>10, <1>11, MatchOne, SMTT(60)
<1> QED BY <1>7, <1>8, <1>12

\* The page reads a reply.
LEMMA MatchRead ==
    ASSUME NetInv, NEW v \in View, Matches(bases, replies, jar, v), NEW r \in DOMAIN replies, read(r),
           NEW s, s.op = "read", s.arg = r,
           s.res = <<bases[r].url, bases[r].num, bases[r].pos, replies[r].size>>
    PROVE  \E w \in View : Doing(bases, v, s, w) /\ Matches(bases', replies', jar', w)
<1> DEFINE e == bases[r].entries
           n == v.rs[r].rel
           size == SizeAt(e, n)
           x == [v.rs[r] EXCEPT !.pos = size]
<1>0. /\ r \in 1..Len(replies) /\ r \in 1..Len(v.rs) /\ r \in 1..Len(bases) /\ r <= Len(bases)
      /\ replies[r].base = r /\ replies[r] \in Reply /\ Len(v.rs) = Len(replies)
      /\ v.rs[r] \in Look /\ Alike(replies[r], bases[r], jar, r, v.rs[r]) /\ jar = v.jar
      /\ bases \in Seq(Base)
      /\ \A q \in 1..Len(replies) : q \in 1..Len(bases)
  BY MatchTypes
<1>1. /\ replies[r].open /\ bases' = [bases EXCEPT ![r] = [bases[r] EXCEPT !.pos = replies[r].size]]
      /\ replies' = replies /\ jar' = jar
  BY <1>0, ReadInv DEF read
<1>2. bases[r] \in Base /\ ReplyOK(replies[r], bases[r]) /\ e \in Seq(Snapshot) /\ bases[r].num \in Nat
  BY <1>0, SameBases, BaseParts
<1>3. /\ QueueOK(replies[r], e) /\ Released(replies[r], e) = n /\ replies[r].size = size
      /\ n \in Nat /\ n <= Len(e) /\ replies[r].size \in Nat
  <2>1. QueueOK(replies[r], e) /\ Released(replies[r], e) = n /\ replies[r].size \in Nat
    BY <1>0, <1>1, <1>2 DEF ReplyOK, Alike, Reply
  <2>2. replies[r].size = size /\ Len(replies[r].queue) <= Len(e)
    BY <2>1 DEF QueueOK
  <2>3. n \in Nat /\ n + Len(replies[r].queue) = Len(e) /\ Len(replies[r].queue) \in Nat
    BY <2>1, <2>2, <1>0, <1>2, ReleasedCount, ZenonT(60)
  <2> QED BY <2>1, <2>2, <2>3
<1>4. PICK base : base = [bases[r] EXCEPT !.pos = replies[r].size]
  OBVIOUS
<1>5. base.pos = size /\ base.entries = e
  BY <1>2, <1>3, <1>4 DEF Base
<1>6. bases'[r] = base /\ \A q \in 1..Len(replies) : q # r => bases'[q] = bases[q]
  <2>1. bases' = [bases EXCEPT ![r] = base] /\ DOMAIN bases = 1..Len(bases)
    BY <1>0, <1>1, <1>4
  <2> QED BY <2>1, <1>0
<1>7. size \in Nat
  BY <1>2, <1>3, SizeType
<1> HIDE DEF size
<1>8. x \in Look /\ x.open = v.rs[r].open /\ x.pos = size /\ x.rel = n
  BY <1>0, <1>7 DEF Look
<1>9. PICK w : w = Sees(v, r, x)
  OBVIOUS
<1>10. Doing(bases, v, s, w)
  <2>1. v.rs[r].open /\ v.rs[r].pos = bases[r].pos
    BY <1>0, <1>1 DEF Alike
  <2> QED BY <2>1, <1>0, <1>3, <1>9 DEF Doing, AfterRead, size
<1> HIDE DEF x
<1>11. /\ w \in View /\ w.jar = v.jar /\ Len(w.rs) = Len(v.rs) /\ w.rs[r] = x
       /\ \A q \in 1..Len(v.rs) : q # r => w.rs[q] = v.rs[q]
  BY <1>0, <1>8, <1>9, LookChanged
<1>12. Alike(replies'[r], bases'[r], jar', r, w.rs[r])
  BY <1>0, <1>1, <1>3, <1>5, <1>6, <1>8, <1>11 DEF Alike
<1>13. \A q \in 1..Len(replies) : q # r => replies'[q] = replies[q] /\ bases'[q] = bases[q] /\ w.rs[q] = v.rs[q]
  BY <1>0, <1>1, <1>6, <1>11
<1>14. jar \subseteq jar' /\ w.jar = jar' /\ r \in 1..Len(replies) /\ Len(replies') = Len(replies) /\ Len(w.rs) = Len(v.rs)
  BY <1>0, <1>1, <1>11
<1>15. Matches(bases', replies', jar', w)
  BY <1>12, <1>13, <1>14, MatchOne
<1> QED BY <1>10, <1>11, <1>15

\* The page makes a request.
LEMMA MatchRequest ==
    ASSUME NetInv, NEW v \in View, Matches(bases, replies, jar, v), NEW u \in Urls,
           NEW new \in Reply, Makes(u, new), new.base = Len(replies) + 1,
           NetInv', Len(bases) <= Len(bases'), \A b \in 1..Len(bases) : bases'[b] = bases[b],
           bases'[new.base].url = u, bases'[new.base].pos = 0,
           Released(new, bases'[new.base].entries) = 0,
           NEW s, s.op = "request", s.arg = u, s.res = <<>>
    PROVE  \E w \in View : Doing(bases', v, s, w) /\ Matches(bases', replies', jar', w)
<1> DEFINE n == Len(replies)
           x == [rel |-> 0, pos |-> 0, open |-> TRUE]
<1>0. /\ replies \in Seq(Reply) /\ n \in Nat /\ n = Len(v.rs) /\ v.rs \in Seq(Look) /\ jar = v.jar
      /\ \A q \in 1..n : q \in 1..Len(bases)
  BY MatchTypes, ViewParts
<1>1. replies' = Append(replies, new) /\ jar' = jar /\ new.open /\ new.last = 0
  BY DEF Makes
<1>2. /\ Len(replies') = n + 1 /\ replies'[n + 1] = new
      /\ \A q \in 1..n : replies'[q] = replies[q]
  BY <1>0, <1>1
<1>3. n + 1 <= Len(bases')
  <2>1. bases' \in Seq(Base) /\ replies' \in Seq(Reply) /\ \A r \in DOMAIN replies' : replies'[r].base \in DOMAIN bases'
    BY DEF NetInv, NetType
  <2>2. n + 1 \in DOMAIN replies'
    BY <1>0, <1>2, <2>1
  <2>3. n + 1 \in DOMAIN bases'
    BY <2>1, <2>2, <1>2
  <2>4. n + 1 \in 1..Len(bases') /\ Len(bases') \in Nat
    BY <2>1, <2>3
  <2> QED BY <2>4, <1>0
<1>4. PICK w : w = [v EXCEPT !.rs = Append(v.rs, x)]
  OBVIOUS
<1>5. x \in Look /\ x.rel = 0 /\ x.pos = 0 /\ x.open
  BY DEF Look
<1>6. Doing(bases', v, s, w)
  <2>1. w = [v EXCEPT !.rs = Append(@, x)]
    BY <1>4
  <2> QED BY <2>1, <1>0, <1>3 DEF Doing, AfterRequest
<1> HIDE DEF x
<1>7. /\ w \in View /\ w.jar = v.jar /\ Len(w.rs) = n + 1 /\ w.rs[n + 1] = x
      /\ \A q \in 1..n : w.rs[q] = v.rs[q]
  <2>1. PICK rs : rs = Append(v.rs, x)
    OBVIOUS
  <2>2. rs \in Seq(Look) /\ Len(rs) = n + 1 /\ rs[n + 1] = x /\ \A q \in 1..n : rs[q] = v.rs[q]
    BY <2>1, <1>0, <1>5
  <2>3. w \in View /\ w.jar = v.jar /\ w.rs = rs
    BY <2>1, <2>2, <1>4 DEF View
  <2> QED BY <2>2, <2>3
<1>8. \A q \in 1..n : replies'[q] = replies[q] /\ bases'[q] = bases[q] /\ w.rs[q] = v.rs[q]
  BY <1>0, <1>2, <1>7
<1>9. Alike(replies'[n + 1], bases'[n + 1], jar, n + 1, w.rs[n + 1])
  BY <1>1, <1>2, <1>5, <1>7 DEF Alike
<1>10. Matches(bases', replies', jar, w)
  BY <1>0, <1>2, <1>7, <1>8, <1>9, MatchMore, SMTT(60)
<1> QED BY <1>1, <1>6, <1>7, <1>10

\* An event action releases a signal of a reply.
LEMMA MatchSignal ==
    ASSUME NetInv, IdentInv, Compared, NEW v \in View, Matches(bases, replies, jar, v),
           NEW r \in DOMAIN replies, NEW id \in Nat, id # 0, updateSnapshot(r, id),
           NEW s, s = Step("begin", 0, <<Head(replies[r].queue), jar'>>)
    PROVE  \E w \in View : /\ AfterSignal(bases, replies[r].waiting, v, s, w, r)
                           /\ Matches(bases', replies', jar', w)
<1> DEFINE e == bases[r].entries
           k == v.rs[r].rel + 1
           x == [v.rs[r] EXCEPT !.rel = k]
<1>0. /\ r \in 1..Len(replies) /\ r \in 1..Len(v.rs) /\ r \in 1..Len(bases) /\ r <= Len(bases)
      /\ replies[r].base = r /\ replies[r] \in Reply /\ Len(v.rs) = Len(replies)
      /\ v.rs[r] \in Look /\ Alike(replies[r], bases[r], jar, r, v.rs[r]) /\ jar = v.jar
      /\ replies \in Seq(Reply) /\ v.rs \in Seq(Look) /\ jar \in SUBSET Nat
  BY MatchTypes, ViewParts
<1>1. replies[r].waiting # None /\ jar' = IF replies[r].last = 0 THEN jar \cup {r} ELSE jar
  BY <1>0 DEF updateSnapshot
<1>2. /\ replies[r].open /\ Released(replies[r], e) \in Nat /\ Released(replies[r], e) + 1 \in 1..Len(e)
      /\ replies[r].waiting = Signal(replies[r].url, replies[r].num, e, Released(replies[r], e) + 1)
      /\ Head(replies[r].queue) = e[Released(replies[r], e) + 1]
  BY <1>0, <1>1, WaitingReply
<1>3. PICK new \in Reply :
        /\ replies' = [replies EXCEPT ![r] = new] /\ new.base = r /\ new.open
        /\ new.last = id /\ Released(new, e) = Released(replies[r], e) + 1
  BY <1>0, UpdateInv
<1>4. bases' = bases
  BY UpdateInv
<1>5. /\ Len(replies') = Len(replies) /\ replies'[r] = new
      /\ \A q \in 1..Len(replies) : q # r => replies'[q] = replies[q]
  BY <1>0, <1>3
<1>6. Released(replies[r], e) = v.rs[r].rel /\ v.rs[r].open /\ bases[r].pos = v.rs[r].pos
  BY <1>0, <1>2 DEF Alike
<1>7. jar' = v.jar \cup {r} /\ jar' \in SUBSET Nat
  <2>1. replies[r].last # 0 => r \in jar
    BY <1>0 DEF Alike
  <2> QED BY <2>1, <1>0, <1>1
<1>8. k \in Nat /\ k \in 1..Len(e) /\ x \in Look /\ x.rel = k /\ x.open = v.rs[r].open /\ x.pos = v.rs[r].pos
  <2>1. k \in Nat /\ k \in 1..Len(e)
    BY <1>2, <1>6
  <2> HIDE DEF k
  <2> QED BY <2>1, <1>0 DEF Look
<1>9. replies[r].url = bases[r].url /\ replies[r].num = bases[r].num
  BY <1>0 DEF IdentInv
<1>10. PICK w : w = [rs |-> [v.rs EXCEPT ![r] = x], jar |-> v.jar \cup {r}, times |-> <<>>]
  OBVIOUS
<1>11. AfterSignal(bases, replies[r].waiting, v, s, w, r)
  <2>1. replies[r].waiting = Signal(bases[r].url, bases[r].num, e, k)
    BY <1>2, <1>6, <1>9
  <2>2. s = Step("begin", 0, <<e[k], v.jar \cup {r}>>)
    BY <1>2, <1>6, <1>7
  <2>3. k <= Len(e)
    BY <1>8
  <2> QED BY <2>1, <2>2, <2>3, <1>0, <1>6, <1>10 DEF AfterSignal
<1> HIDE DEF x, k
<1>12. /\ w \in View /\ w.jar = jar' /\ Len(w.rs) = Len(v.rs) /\ w.rs[r] = x
       /\ \A q \in 1..Len(v.rs) : q # r => w.rs[q] = v.rs[q]
  <2>1. PICK rs : rs = [v.rs EXCEPT ![r] = x]
    OBVIOUS
  <2>2. rs \in Seq(Look) /\ Len(rs) = Len(v.rs) /\ rs[r] = x /\ \A q \in 1..Len(v.rs) : q # r => rs[q] = v.rs[q]
    BY <2>1, <1>0, <1>8
  <2>3. w = [rs |-> rs, jar |-> jar', times |-> <<>>] /\ <<>> \in Seq(Nat)
    BY <2>1, <1>7, <1>10
  <2>4. w \in View /\ w.jar = jar' /\ w.rs = rs
    BY <2>2, <2>3, <1>7 DEF View
  <2> QED BY <2>2, <2>4
<1>13. Alike(replies'[r], bases'[r], jar', r, w.rs[r])
  <2>1. Released(new, bases'[r].entries) = x.rel
    BY <1>3, <1>4, <1>6, <1>8 DEF k
  <2> QED BY <2>1, <1>3, <1>4, <1>5, <1>6, <1>7, <1>8, <1>12 DEF Alike
<1>14. \A q \in 1..Len(replies) : q # r => replies'[q] = replies[q] /\ bases'[q] = bases[q] /\ w.rs[q] = v.rs[q]
  BY <1>0, <1>4, <1>5, <1>12
<1>15. jar \subseteq jar' /\ w.jar = jar' /\ r \in 1..Len(replies) /\ Len(replies') = Len(replies) /\ Len(w.rs) = Len(v.rs)
  BY <1>0, <1>5, <1>7, <1>12
<1>16. Matches(bases', replies', jar', w)
  BY <1>13, <1>14, <1>15, MatchOne
<1> QED BY <1>11, <1>12, <1>16

\* A view that differs in times only.
LEMMA MatchTimes ==
    ASSUME NEW bs, NEW rp, NEW j, NEW v, Matches(bs, rp, j, v), NEW w, w.rs = v.rs, w.jar = v.jar
    PROVE  Matches(bs, rp, j, w)
BY DEF Matches

\* The network delivers a signal: the page does not see it yet.
LEMMA MatchLive ==
    ASSUME NetInv, NetInv', NEW v \in View, Matches(bases, replies, jar, v), NEW r \in DOMAIN replies,
           NEW new \in Reply, NEW snap \in Snapshot, Delivers(r, new, snap), jar' = jar, replies[r].open
    PROVE  /\ Matches(bases', replies', jar', v) /\ Stable(bases, bases')
           /\ Len(bases') = Len(bases) /\ Len(replies') = Len(replies)
<1>0. /\ r \in 1..Len(replies) /\ r \in 1..Len(v.rs) /\ r \in 1..Len(bases)
      /\ replies[r].base = r /\ replies[r] \in Reply /\ Len(v.rs) = Len(replies)
      /\ Alike(replies[r], bases[r], jar, r, v.rs[r]) /\ jar = v.jar
      /\ bases \in Seq(Base) /\ replies \in Seq(Reply)
      /\ \A q \in 1..Len(replies) : q \in 1..Len(bases)
  BY MatchTypes
<1>1. PICK f : f = Append(bases[r].entries, snap)
  OBVIOUS
<1>2. PICK base : base = [bases[r] EXCEPT !.entries = f]
  OBVIOUS
<1>3. /\ bases' = [bases EXCEPT ![r] = base] /\ replies' = [replies EXCEPT ![r] = new]
      /\ new.base = r /\ new.open /\ new.last = replies[r].last
      /\ Released(new, f) = Released(replies[r], bases[r].entries)
  BY <1>0, <1>1, <1>2 DEF Delivers
<1>4. /\ bases[r] \in Base /\ bases[r].entries \in Seq(Snapshot)
  BY <1>0, BaseParts
<1>5. /\ Len(bases[r].entries) <= Len(f) /\ \A k \in 1..Len(bases[r].entries) : f[k] = bases[r].entries[k]
  BY <1>1, <1>4
<1>6. base.entries = f /\ base.url = bases[r].url /\ base.num = bases[r].num /\ base.pos = bases[r].pos
  BY <1>2, <1>4 DEF Base
<1>7. /\ Len(replies') = Len(replies) /\ replies'[r] = new
      /\ \A q \in 1..Len(replies) : q # r => replies'[q] = replies[q]
  BY <1>0, <1>3
<1>8. /\ Len(bases') = Len(bases) /\ bases'[r] = base
      /\ \A q \in 1..Len(bases) : q # r => bases'[q] = bases[q]
  BY <1>0, <1>3
<1>10. Alike(replies'[r], bases'[r], jar', r, v.rs[r])
  BY <1>0, <1>3, <1>6, <1>7, <1>8 DEF Alike
<1>11. \A q \in 1..Len(replies) : q # r => replies'[q] = replies[q] /\ bases'[q] = bases[q] /\ v.rs[q] = v.rs[q]
  BY <1>0, <1>7, <1>8
<1>12. jar \subseteq jar' /\ v.jar = jar' /\ r \in 1..Len(replies) /\ Len(replies') = Len(replies)
  BY <1>0, <1>7
<1>13. Matches(bases', replies', jar', v)
  BY <1>10, <1>11, <1>12, MatchOne
<1>14. \A b \in 1..Len(bases) : Len(bases[b].entries) \in Nat
  BY <1>0, BaseParts
<1>15. Stable(bases, bases')
  <2>1. ASSUME NEW b \in 1..Len(bases)
        PROVE  /\ bases'[b].url = bases[b].url /\ bases'[b].num = bases[b].num
               /\ Len(bases[b].entries) <= Len(bases'[b].entries)
               /\ \A k \in 1..Len(bases[b].entries) : bases'[b].entries[k] = bases[b].entries[k]
    <3>1. CASE b = r
      BY <3>1, <1>5, <1>6, <1>8
    <3>2. CASE b # r
      BY <3>2, <1>8, <1>14
    <3> QED BY <3>1, <3>2
  <2>2. Len(bases) <= Len(bases')
    BY <1>0, <1>8
  <2> QED BY <2>1, <2>2 DEF Stable
<1> QED BY <1>7, <1>8, <1>13, <1>15

-----------------------------------------------------------------------------
(* What a view and a script determine. *)

\* The page is deterministic but for the clock: what it does determines what it sees.
LEMMA DoingDetermined ==
    ASSUME NEW bs, NEW v, NEW s \in StepType, NEW s0 \in StepType, NEW w, NEW w0,
           Doing(bs, v, s, w), Doing(bs, v, s0, w0), s.op = s0.op, s.arg = s0.arg, s.op # "time"
    PROVE  s = s0 /\ w = w0
<1>1. s.res = s0.res /\ w = w0
  <2>1. CASE AfterRequest(bs, v, s, w)
    BY <2>1 DEF Doing, AfterRequest, AfterRead, AfterAbort, AfterTime
  <2>2. CASE AfterRead(bs, v, s, w)
    BY <2>2 DEF Doing, AfterRequest, AfterRead, AfterAbort, AfterTime
  <2>3. CASE AfterAbort(v, s, w)
    BY <2>3 DEF Doing, AfterRequest, AfterRead, AfterAbort, AfterTime
  <2>4. CASE AfterTime(v, s, w)
    BY <2>4 DEF AfterTime
  <2> QED BY <2>1, <2>2, <2>3, <2>4 DEF Doing
<1> QED BY <1>1 DEF StepType

\* A descriptor of a signal tells its place in the recorded reply.
LEMMA SignalPlace ==
    ASSUME NEW e \in Seq(Snapshot), EntriesOK(e), NEW k \in 1..Len(e), NEW l \in 1..Len(e),
           NEW u, NEW n, Signal(u, n, e, k) = Signal(u, n, e, l)
    PROVE  k = l
<1>1. (IF e[k].signal = "FINISHED" THEN FinalNumber ELSE k - 1) =
      (IF e[l].signal = "FINISHED" THEN FinalNumber ELSE l - 1)
  BY DEF Signal, Network
<1>2. /\ Len(e) \in Nat /\ FinalNumber \in Nat /\ Len(e) <= FinalNumber /\ k - 1 < FinalNumber /\ l - 1 < FinalNumber
  BY FinalType DEF EntriesOK
<1>3. \A i \in 1..Len(e) : e[i].signal = "FINISHED" => i = Len(e)
  <2>1. \A i \in 1..Len(e) : i < Len(e) => e[i].signal # "FINISHED"
    BY DEF EntriesOK
  <2> QED BY <2>1, <1>2
<1>4. CASE e[k].signal = "FINISHED" /\ e[l].signal = "FINISHED"
  BY <1>3, <1>4
<1>5. CASE e[k].signal # "FINISHED" /\ e[l].signal # "FINISHED"
  BY <1>1, <1>2, <1>5
<1>6. CASE e[k].signal = "FINISHED" /\ e[l].signal # "FINISHED"
  BY <1>1, <1>2, <1>6
<1>7. CASE e[k].signal # "FINISHED" /\ e[l].signal = "FINISHED"
  BY <1>1, <1>2, <1>7
<1> QED BY <1>4, <1>5, <1>6, <1>7

\* The URL and the number in the descriptor of a signal.
LEMMA SignalParts ==
    ASSUME NEW u, NEW n, NEW e, NEW k
    PROVE  Signal(u, n, e, k).url = u /\ Signal(u, n, e, k).num = n /\ Signal(u, n, e, k).type = "Network"
BY DEF Signal, Network

-----------------------------------------------------------------------------
(* The recording. *)

Distinct(tr) == \A i, k \in 1..Len(tr) : tr[i].desc = tr[k].desc => i = k

PagesBefore(tr, i) == {k \in 1..i - 1 : tr[k].desc.type = "Page"}

\* Event actions of the page are counted.
PagesNumbered(tr) ==
    \A i \in 1..Len(tr) : tr[i].desc.type = "Page" => tr[i].desc = Page(Cardinality(PagesBefore(tr, i)))

\* The signal d of the reply r was released.
Came(bs, v, d, r, k) ==
    /\ r \in 1..Len(v.rs) /\ r \in 1..Len(bs) /\ k \in 1..Len(bs[r].entries) /\ k <= v.rs[r].rel
    /\ d = Signal(bs[r].url, bs[r].num, bs[r].entries, k)

\* The event actions that are not the page's are the signals that were released.
Heard(bs, tr, v) ==
    \A i \in 1..Len(tr) : tr[i].desc.type = "Page" \/ \E r, k \in Nat : Came(bs, v, tr[i].desc, r, k)

\* The log has the times of every event action, and nothing else.
LogFits(log, tr, W) == \A i \in 1..Len(tr) : Logged(log, tr[i].desc) = AtEnd(W, tr, i).times

LogOnly(log, tr) == \A d \in DOMAIN log : \E i \in 1..Len(tr) : tr[i].desc = d

RecordOK(bs, rp, j, log, tr, W) ==
    /\ Good(bs, tr, W) /\ Matches(bs, rp, j, Now(W, tr)) /\ Len(bs) = Len(rp)
    /\ Distinct(tr) /\ PagesNumbered(tr) /\ Heard(bs, tr, Now(W, tr))
    /\ LogFits(log, tr, W) /\ LogOnly(log, tr)

\* The same event actions, perhaps with more steps.
SameNames(tr, tr2) == Len(tr2) = Len(tr) /\ \A i \in 1..Len(tr) : tr2[i].desc = tr[i].desc

\* The names of event actions do not depend on what the page does in them.
LEMMA NamesKept ==
    ASSUME NEW tr, NEW tr2, SameNames(tr, tr2), Len(tr) \in Nat, Distinct(tr), PagesNumbered(tr)
    PROVE  Distinct(tr2) /\ PagesNumbered(tr2)
<1>1. Distinct(tr2)
  BY DEF SameNames, Distinct
<1>2. ASSUME NEW i \in 1..Len(tr) PROVE PagesBefore(tr2, i) = PagesBefore(tr, i)
  <2>1. \A k \in 1..i - 1 : k \in 1..Len(tr)
    OBVIOUS
  <2> QED BY <2>1 DEF SameNames, PagesBefore
<1> QED BY <1>1, <1>2 DEF SameNames, PagesNumbered

\* Signals that were released stay released.
LEMMA HeardKept ==
    ASSUME NEW bs \in Seq(Base), NEW bs2 \in Seq(Base), Stable(bs, bs2), NEW tr, NEW tr2, SameNames(tr, tr2),
           NEW v \in View, NEW w \in View, Len(v.rs) <= Len(w.rs),
           \A r \in 1..Len(v.rs) : w.rs[r].rel >= v.rs[r].rel, Heard(bs, tr, v)
    PROVE  Heard(bs2, tr2, w)
<1>1. ASSUME NEW d, NEW r \in Nat, NEW k \in Nat, Came(bs, v, d, r, k) PROVE Came(bs2, w, d, r, k)
  <2>1. /\ r \in 1..Len(v.rs) /\ r \in 1..Len(bs) /\ k \in 1..Len(bs[r].entries) /\ k <= v.rs[r].rel
        /\ d = Signal(bs[r].url, bs[r].num, bs[r].entries, k)
    BY <1>1 DEF Came
  <2>2. r \in 1..Len(w.rs) /\ r \in 1..Len(bs2)
    BY <2>1, ViewParts DEF Stable
  <2>3. /\ bs2[r].url = bs[r].url /\ bs2[r].num = bs[r].num /\ Len(bs[r].entries) <= Len(bs2[r].entries)
        /\ bs2[r].entries[k] = bs[r].entries[k]
    BY <2>1 DEF Stable
  <2>4. k \in 1..Len(bs2[r].entries)
    <3>1. Len(bs[r].entries) \in Nat /\ Len(bs2[r].entries) \in Nat
      BY <2>1, <2>2, BaseParts
    <3> QED BY <3>1, <2>1, <2>3
  <2>5. k <= w.rs[r].rel
    <3>1. w.rs[r].rel \in Nat /\ v.rs[r].rel \in Nat /\ w.rs[r].rel >= v.rs[r].rel
      BY <2>1, <2>2, ViewParts
    <3> QED BY <3>1, <2>1, SMTT(60)
  <2>6. d = Signal(bs2[r].url, bs2[r].num, bs2[r].entries, k)
    BY <2>1, <2>3 DEF Signal
  <2> QED BY <2>2, <2>4, <2>5, <2>6 DEF Came
<1> QED BY <1>1 DEF Heard, SameNames

\* The log gets the time that the step s has read in the event action d, if it has.
LogsStep(s, d, log, log2) ==
    IF s.op = "time" THEN \E t \in Nat : s.res = <<t>> /\ log2 = Extended(log, d, t) ELSE log2 = log

\* A step adds to the log of its event action what it adds to the view.
LEMMA LogsStepFacts ==
    ASSUME NEW bs \in Seq(Base), NEW v \in View, NEW s, NEW w, Doing(bs, v, s, w),
           NEW log \in LogType, NEW log2, NEW d \in Descriptor, LogsStep(s, d, log, log2)
    PROVE  /\ Logged(log, d) = v.times => Logged(log2, d) = w.times
           /\ \A c : c # d => Logged(log2, c) = Logged(log, c)
           /\ DOMAIN log2 \subseteq DOMAIN log \cup {d}
<1>1. CASE s.op = "time"
  <2>1. PICK t \in Nat : s.res = <<t>> /\ log2 = Extended(log, d, t)
    BY <1>1 DEF LogsStep
  <2>2. PICK t2 \in Nat : s.res = <<t2>> /\ w.times = Append(v.times, t2)
    BY <1>1, DoingFacts DEF ReadsClock
  <2>3. t2 = t
    <3>1. s.res[1] = t /\ s.res[1] = t2
      BY <2>1, <2>2
    <3> QED BY <3>1
  <2>4. /\ Logged(Extended(log, d, t), d) = Append(Logged(log, d), t)
        /\ DOMAIN Extended(log, d, t) = DOMAIN log \cup {d}
        /\ \A c : c # d => Logged(Extended(log, d, t), c) = Logged(log, c)
    BY LogTypes
  <2> QED BY <2>1, <2>2, <2>3, <2>4
<1>2. CASE s.op # "time"
  BY <1>2, DoingFacts DEF LogsStep
<1> QED BY <1>1, <1>2

\* The same event actions.
LEMMA StepNames ==
    ASSUME NEW tr \in Seq(Item), NEW tr2, NEW s, OneStepMore(tr, tr2, s)
    PROVE  SameNames(tr, tr2)
BY DEF OneStepMore, SameNames

\* The view after the last event action.
LEMMA NowIsEnd ==
    ASSUME NEW tr, Len(tr) \in Nat, Len(tr) >= 1, NEW W
    PROVE  Now(W, tr) = AtEnd(W, tr, Len(tr))
<1>1. Len(tr) + 1 # 1 /\ (Len(tr) + 1) - 1 = Len(tr)
  OBVIOUS
<1> QED BY <1>1 DEF Now, Start

\* A step of the page in a recording.
LEMMA RecordDoes ==
    ASSUME NEW bs \in Seq(Base), NEW bs2 \in Seq(Base), Stable(bs, bs2), NEW rp, NEW rp2, NEW j, NEW j2,
           NEW log \in LogType, NEW log2, NEW tr \in Seq(Item), NEW tr2 \in Seq(Item), NEW W \in Views,
           RecordOK(bs, rp, j, log, tr, W), Len(bs2) = Len(rp2),
           NEW s \in StepType, OneStepMore(tr, tr2, s), NEW w,
           Doing(bs2, Now(W, tr), s, w), Matches(bs2, rp2, j2, w),
           LogsStep(s, tr[Len(tr)].desc, log, log2)
    PROVE  \E W2 \in Views : RecordOK(bs2, rp2, j2, log2, tr2, W2)
<1> DEFINE v == Now(W, tr)
<1>1. PICK n \in Nat : n = Len(tr)
  OBVIOUS
<1>2. /\ n >= 1 /\ Len(tr2) = n /\ \A i \in 1..n : i # n => tr2[i] = tr[i]
      /\ tr2[n].desc = tr[n].desc /\ tr2[n].steps = Append(tr[n].steps, s)
  BY <1>1 DEF OneStepMore
<1>3. Good(bs2, tr, W)
  BY GoodStable DEF RecordOK
<1>4. PICK W2 \in Views :
              Good(bs2, tr2, W2) /\ Now(W2, tr2) = w /\ EndsAgree(W, tr, W2, tr2, 1..n - 1)
  BY <1>1, <1>3, GoodDoes
<1>5. v \in View
  <2>1. n + 1 \in 1..Len(tr) + 1
    BY <1>1
  <2> QED BY <2>1, StartType
<1>6. /\ w \in View /\ Len(v.rs) <= Len(w.rs) /\ \A r \in 1..Len(v.rs) : w.rs[r].rel = v.rs[r].rel
  <2> HIDE DEF v
  <2>1. Doing(bs2, v, s, w)
    BY DEF v
  <2> QED BY <2>1, <1>5, DoingFacts
<1>7. SameNames(tr, tr2)
  BY StepNames
<1>8. Distinct(tr2) /\ PagesNumbered(tr2)
  BY <1>1, <1>7, NamesKept DEF RecordOK
<1>9. Heard(bs2, tr2, w)
  <2>1. Heard(bs, tr, v)
    BY DEF RecordOK
  <2>2. \A r \in 1..Len(v.rs) : w.rs[r].rel >= v.rs[r].rel
    <3>1. \A r \in 1..Len(v.rs) : v.rs[r].rel \in Nat
      BY <1>5, ViewParts
    <3> QED BY <3>1, <1>6
  <2> HIDE DEF v
  <2> QED BY <2>1, <2>2, <1>5, <1>6, <1>7, HeardKept
<1>10. AtEnd(W, tr, n) = v /\ AtEnd(W2, tr2, n) = w
  BY <1>1, <1>2, <1>4, NowIsEnd
<1>11. LogFits(log2, tr2, W2) /\ LogOnly(log2, tr2)
  <2>1. Doing(bs2, v, s, w) /\ LogFits(log, tr, W) /\ LogOnly(log, tr) /\ Distinct(tr)
    BY DEF RecordOK
  <2> HIDE DEF v
  <2>2. n \in 1..n /\ tr[n].desc \in Descriptor
    <3>1. n \in 1..n /\ tr[n] \in Item
      BY <1>1, <1>2
    <3> QED BY <3>1 DEF Item
  <2>3. PICK d \in Descriptor : d = tr[n].desc
    BY <2>2
  <2>4. LogsStep(s, d, log, log2)
    BY <1>1, <2>3
  <2>5. /\ Logged(log, d) = v.times => Logged(log2, d) = w.times
        /\ \A c : c # d => Logged(log2, c) = Logged(log, c)
        /\ DOMAIN log2 \subseteq DOMAIN log \cup {d}
    BY <2>1, <2>4, <1>5, LogsStepFacts
  <2>6. Logged(log, d) = v.times
    BY <2>1, <2>2, <2>3, <1>1, <1>10 DEF LogFits
  <2>7. Logged(log2, tr2[n].desc) = AtEnd(W2, tr2, n).times
    BY <2>3, <2>5, <2>6, <1>2, <1>10
  <2>8. ASSUME NEW i \in 1..n, i # n PROVE Logged(log2, tr2[i].desc) = AtEnd(W2, tr2, i).times
    <3>1. i \in 1..n - 1
      BY <2>8
    <3>2. AtEnd(W2, tr2, i) = AtEnd(W, tr, i)
      BY <3>1, <1>4 DEF EndsAgree
    <3>3. tr2[i].desc = tr[i].desc /\ tr[i].desc # d
      BY <2>1, <2>2, <2>3, <2>8, <1>1, <1>2 DEF Distinct
    <3>4. Logged(log, tr[i].desc) = AtEnd(W, tr, i).times
      BY <2>1, <2>8, <1>1 DEF LogFits
    <3> QED BY <3>2, <3>3, <3>4, <2>5
  <2>9. LogFits(log2, tr2, W2)
    BY <2>7, <2>8, <1>2 DEF LogFits
  <2>10. ASSUME NEW c \in DOMAIN log2 PROVE \E i \in 1..Len(tr2) : tr2[i].desc = c
    <3>1. CASE c = d
      BY <3>1, <2>2, <2>3, <1>2
    <3>2. CASE c \in DOMAIN log
      BY <3>2, <2>1, <1>1, <1>2, <1>7 DEF LogOnly, SameNames
    <3> QED BY <3>1, <3>2, <2>5
  <2> QED BY <2>9, <2>10 DEF LogOnly
<1> QED BY <1>4, <1>8, <1>9, <1>11 DEF RecordOK

\* No event action is called d yet.
Fresh(tr, d) == \A i \in 1..Len(tr) : tr[i].desc # d

\* The next event action of the page has a new number.
LEMMA FreshPage ==
    ASSUME NEW tr, Len(tr) \in Nat, PagesNumbered(tr)
    PROVE  Fresh(tr, Page(Cardinality(PagesBefore(tr, Len(tr) + 1))))
<1> DEFINE B == PagesBefore(tr, Len(tr) + 1)
<1> SUFFICES ASSUME NEW i \in 1..Len(tr), tr[i].desc = Page(Cardinality(B)) PROVE FALSE
  BY DEF Fresh
<1> DEFINE A == PagesBefore(tr, i)
<1>1. tr[i].desc.type = "Page" /\ tr[i].desc = Page(Cardinality(A))
  BY DEF PagesNumbered, Page
<1>2. Cardinality(A) = Cardinality(B)
  BY <1>1 DEF Page
<1>3. IsFiniteSet(B)
  <2>1. IsFiniteSet(1..Len(tr)) /\ B \subseteq 1..Len(tr)
    BY FS_Interval DEF PagesBefore
  <2> QED BY <2>1, FS_Subset
<1>4. A \subseteq B /\ i \in B /\ i \notin A
  BY <1>1 DEF PagesBefore
<1>5. A \subseteq B \ {i} /\ IsFiniteSet(B \ {i}) /\ Cardinality(B \ {i}) = Cardinality(B) - 1
  BY <1>3, <1>4, FS_RemoveElement
<1>6. Cardinality(A) <= Cardinality(B \ {i})
  BY <1>5, FS_Subset
<1>7. Cardinality(B) \in Nat
  BY <1>3, FS_CardinalityType
<1> QED BY <1>2, <1>5, <1>6, <1>7

\* URL and number tell the recorded replies apart.
ToldApart(bs) ==
    \A b, c \in 1..Len(bs) : (bs[b].url = bs[c].url /\ bs[b].num = bs[c].num) => b = c

\* A signal is released once.
LEMMA FreshSignal ==
    ASSUME NEW bs \in Seq(Base), ToldApart(bs), \A b \in 1..Len(bs) : EntriesOK(bs[b].entries),
           NEW tr, NEW v \in View, Heard(bs, tr, v), NEW d, NEW s, NEW w, NEW r \in Nat,
           AfterSignal(bs, d, v, s, w, r)
    PROVE  Fresh(tr, d) /\ d.type = "Network" /\ \E k \in Nat : Came(bs, w, d, r, k)
<1> DEFINE k == v.rs[r].rel + 1
           e == bs[r].entries
<1>1. /\ r \in 1..Len(v.rs) /\ r <= Len(bs) /\ v.rs[r].open /\ k <= Len(e)
      /\ d = Signal(bs[r].url, bs[r].num, e, k)
      /\ w = [rs |-> [v.rs EXCEPT ![r] = [v.rs[r] EXCEPT !.rel = k]], jar |-> v.jar \cup {r}, times |-> <<>>]
  BY DEF AfterSignal
<1>2. r \in 1..Len(bs) /\ v.rs \in Seq(Look) /\ v.rs[r] \in Look /\ v.rs[r].rel \in Nat
  <2>1. Len(bs) \in Nat /\ Len(v.rs) \in Nat
    BY ViewParts
  <2> QED BY <2>1, <1>1, ViewParts
<1>3. k \in Nat /\ k \in 1..Len(e) /\ e \in Seq(Snapshot) /\ EntriesOK(e) /\ k > v.rs[r].rel
  <2>1. e \in Seq(Snapshot) /\ Len(e) \in Nat
    BY <1>2, BaseParts
  <2> QED BY <2>1, <1>1, <1>2
<1>4. d.type = "Network" /\ d.url = bs[r].url /\ d.num = bs[r].num
  BY <1>1, SignalParts
<1>5. Came(bs, w, d, r, k)
  <2>1. w.rs[r].rel = k /\ Len(w.rs) = Len(v.rs)
    <3>1. PICK x : x = [v.rs[r] EXCEPT !.rel = k]
      OBVIOUS
    <3>2. x.rel = k
      BY <3>1, <1>2 DEF Look
    <3>3. PICK rs : rs = [v.rs EXCEPT ![r] = x]
      OBVIOUS
    <3>4. rs[r] = x /\ Len(rs) = Len(v.rs)
      BY <3>3, <1>1, <1>2
    <3>5. w.rs = rs
      BY <3>1, <3>3, <1>1
    <3> QED BY <3>2, <3>4, <3>5
  <2>2. k <= k
    BY <1>3
  <2> HIDE DEF k
  <2> QED BY <2>1, <2>2, <1>1, <1>2, <1>3 DEF Came
<1>6. ASSUME NEW i \in 1..Len(tr), tr[i].desc = d PROVE FALSE
  <2>1. PICK q \in Nat, l \in Nat : Came(bs, v, d, q, l)
    BY <1>4, <1>6 DEF Heard
  <2>2. /\ q \in 1..Len(bs) /\ l \in 1..Len(bs[q].entries) /\ l <= v.rs[q].rel
        /\ d = Signal(bs[q].url, bs[q].num, bs[q].entries, l)
    BY <2>1 DEF Came
  <2>3. d.url = bs[q].url /\ d.num = bs[q].num
    BY <2>2, SignalParts
  <2>4. q = r
    BY <2>2, <2>3, <1>2, <1>4 DEF ToldApart
  <2>5. Signal(bs[r].url, bs[r].num, e, k) = Signal(bs[r].url, bs[r].num, e, l) /\ l \in 1..Len(e)
    BY <2>2, <2>4, <1>1
  <2>6. l = k
    <3> HIDE DEF k, e
    <3> QED BY <2>5, <1>3, SignalPlace
  <2> QED BY <2>2, <2>4, <2>6, <1>2, <1>3
<1> HIDE DEF k
<1> QED BY <1>3, <1>4, <1>5, <1>6 DEF Fresh

\* Nothing is as stable as what does not change.
LEMMA StableSelf ==
    ASSUME NEW bs \in Seq(Base)
    PROVE  Stable(bs, bs)
<1>1. \A b \in 1..Len(bs) : Len(bs[b].entries) \in Nat
  BY BaseParts
<1> QED BY <1>1 DEF Stable

\* The names of event actions after one more.
LEMMA NamesGrow ==
    ASSUME NEW tr, NEW tr2, Len(tr) \in Nat, NEW d, NEW s, OneActionMore(tr, tr2, d, s), Fresh(tr, d),
           Distinct(tr), PagesNumbered(tr),
           d.type = "Page" => d = Page(Cardinality(PagesBefore(tr, Len(tr) + 1)))
    PROVE  Distinct(tr2) /\ PagesNumbered(tr2)
<1>1. PICK n \in Nat : n = Len(tr)
  OBVIOUS
<1>2. Len(tr2) = n + 1 /\ tr2[n + 1].desc = d /\ \A i \in 1..n : tr2[i].desc = tr[i].desc /\ tr2[i].desc # d
  BY <1>1 DEF OneActionMore, Fresh
<1>3. \A i \in 1..n + 1 : i \in 1..n \/ i = n + 1
  OBVIOUS
<1>4. Distinct(tr2)
  BY <1>1, <1>2, <1>3 DEF Distinct
<1>5. ASSUME NEW i \in 1..n + 1 PROVE PagesBefore(tr2, i) = PagesBefore(tr, i)
  <2>1. \A k \in 1..i - 1 : k \in 1..n
    OBVIOUS
  <2> QED BY <2>1, <1>2 DEF PagesBefore
<1>6. PagesNumbered(tr2)
  <2>1. ASSUME NEW i \in 1..n, tr2[i].desc.type = "Page"
        PROVE  tr2[i].desc = Page(Cardinality(PagesBefore(tr2, i)))
    <3>1. PagesBefore(tr2, i) = PagesBefore(tr, i)
      BY <1>3, <1>5
    <3> QED BY <3>1, <2>1, <1>1, <1>2 DEF PagesNumbered
  <2>2. n + 1 \in 1..n + 1
    OBVIOUS
  <2>3. PagesBefore(tr2, n + 1) = PagesBefore(tr, n + 1)
    BY <2>2, <1>5
  <2>4. tr2[n + 1].desc.type = "Page" => tr2[n + 1].desc = Page(Cardinality(PagesBefore(tr2, n + 1)))
    BY <2>3, <1>1, <1>2
  <2> QED BY <2>1, <2>4, <1>2, <1>3 DEF PagesNumbered
<1> QED BY <1>4, <1>6

\* An event action begins in a recording.
LEMMA RecordBegins ==
    ASSUME NEW bs \in Seq(Base), NEW rp, NEW rp2, NEW j, NEW j2, NEW log \in LogType,
           NEW tr \in Seq(Item), NEW tr2 \in Seq(Item), NEW W \in Views,
           RecordOK(bs, rp, j, log, tr, W), Len(rp2) = Len(rp),
           NEW d, NEW s, OneActionMore(tr, tr2, d, s), NEW w,
           Beginning(bs, d, Now(W, tr), s, w), Matches(bs, rp2, j2, w), Fresh(tr, d),
           d.type = "Page" => d = Page(Cardinality(PagesBefore(tr, Len(tr) + 1))),
           d.type = "Page" \/ \E r, k \in Nat : Came(bs, w, d, r, k)
    PROVE  \E W2 \in Views : RecordOK(bs, rp2, j2, log, tr2, W2)
<1> DEFINE v == Now(W, tr)
<1>1. PICK n \in Nat : n = Len(tr)
  OBVIOUS
<1>2. Len(tr2) = n + 1 /\ tr2[n + 1].desc = d /\ \A i \in 1..n : tr2[i].desc = tr[i].desc /\ tr2[i].desc # d
  BY <1>1 DEF OneActionMore, Fresh
<1>3. PICK W2 \in Views : Good(bs, tr2, W2) /\ Now(W2, tr2) = w /\ EndsAgree(W, tr, W2, tr2, 1..n)
  BY <1>1, GoodBegins DEF RecordOK
<1>4. v \in View
  <2>1. n + 1 \in 1..Len(tr) + 1
    BY <1>1
  <2> QED BY <2>1, StartType
<1>5. /\ w \in View /\ w.times = <<>> /\ Len(v.rs) = Len(w.rs) /\ \A r \in 1..Len(v.rs) : w.rs[r].rel >= v.rs[r].rel
  <2> HIDE DEF v
  <2>1. Beginning(bs, d, v, s, w)
    BY DEF v
  <2> QED BY <2>1, <1>4, BeginningFacts
<1>6. Distinct(tr2) /\ PagesNumbered(tr2)
  BY <1>1, NamesGrow DEF RecordOK
<1>7. \A i \in 1..n + 1 : i \in 1..n \/ i = n + 1
  OBVIOUS
<1>8. Heard(bs, tr2, w)
  <2>1. Heard(bs, tr, v) /\ SameNames(tr, tr) /\ Stable(bs, bs)
    BY StableSelf DEF RecordOK, SameNames
  <2>2. Len(v.rs) <= Len(w.rs)
    BY <1>4, <1>5, ViewParts
  <2> HIDE DEF v
  <2>3. Heard(bs, tr, w)
    BY <2>1, <2>2, <1>4, <1>5, HeardKept
  <2> QED BY <2>3, <1>1, <1>2, <1>7 DEF Heard
<1>9. LogFits(log, tr2, W2)
  <2>1. ASSUME NEW i \in 1..n PROVE Logged(log, tr2[i].desc) = AtEnd(W2, tr2, i).times
    BY <1>1, <1>2, <1>3 DEF EndsAgree, LogFits, RecordOK
  <2>2. Logged(log, d) = <<>>
    BY <1>1, <1>2 DEF RecordOK, LogOnly, Logged
  <2>3. AtEnd(W2, tr2, n + 1) = w
    BY <1>2, <1>3, NowIsEnd
  <2> QED BY <2>1, <2>2, <2>3, <1>2, <1>5, <1>7 DEF LogFits
<1>10. LogOnly(log, tr2)
  <2>1. \A i \in 1..n : i \in 1..n + 1
    OBVIOUS
  <2> QED BY <2>1, <1>1, <1>2 DEF LogOnly, RecordOK
<1> QED BY <1>3, <1>6, <1>8, <1>9, <1>10 DEF RecordOK

-----------------------------------------------------------------------------
(* The steps of a process that is compared, as steps of a view. *)

\* A step of the page is the last of the running event action.
LEMMA DoesMore ==
    ASSUME SessionInv, Compared, ~Beyond, cur # Idle, NEW op \in Ops, NEW arg \in Urls \cup Nat,
           NEW res \in Seq(Seen), Does(op, arg, res), UNCHANGED done
    PROVE  /\ OneStepMore(Trace, Trace', Step(op, arg, res)) /\ Trace' \in Seq(Item)
           /\ Len(Trace) \in Nat /\ Trace[Len(Trace)] = cur /\ Step(op, arg, res) \in StepType
           /\ cur' # Idle /\ cur' \in Item
<1>1. /\ cur' \in Item /\ cur'.desc = cur.desc /\ cur' # Idle /\ Step(op, arg, res) \in StepType
      /\ cur'.steps = Append(cur.steps, Step(op, arg, res))
  BY DoesFacts
<1>2. /\ Len(done) \in Nat /\ done \in Seq(Item)
      /\ Len(Trace) = Len(done) + 1 /\ Trace[Len(done) + 1] = cur
      /\ \A i \in 1..Len(done) : Trace[i] = done[i]
  BY TraceFacts DEF SessionInv
<1>3. /\ Len(Trace') = Len(done) + 1 /\ Trace'[Len(done) + 1] = cur' /\ Trace' \in Seq(Item)
      /\ \A i \in 1..Len(done) : Trace'[i] = done[i]
  <2>1. Trace' = Append(done, cur')
    BY <1>1 DEF Trace
  <2> QED BY <2>1, <1>1, <1>2
<1>4. \A i \in 1..Len(done) + 1 : i = Len(done) + 1 \/ i \in 1..Len(done)
  BY <1>2
<1>5. OneStepMore(Trace, Trace', Step(op, arg, res))
  BY <1>1, <1>2, <1>3, <1>4 DEF OneStepMore
<1> QED BY <1>1, <1>2, <1>3, <1>5

\* An event action that begins is the last.
LEMMA BeginMore ==
    ASSUME SessionInv, Compared, NEW d \in Descriptor, NEW res \in Seq(Seen), d # None,
           MayBegin(d), Begin(d, res)
    PROVE  /\ OneActionMore(Trace, Trace', d, Step("begin", 0, res)) /\ Trace' \in Seq(Item)
           /\ Trace = done /\ Len(Trace) \in Nat
           /\ UNCHANGED <<inLog, outLog, phase, mode, script, done>>
           /\ cur' # Idle /\ cur'.desc = d /\ cur'.steps = <<Step("begin", 0, res)>>
<1>1. cur' # Idle /\ cur'.desc = d /\ cur'.steps = <<Step("begin", 0, res)>> /\ SessionInv'
  BY BeginSession
<1>2. cur = Idle /\ UNCHANGED <<inLog, outLog, phase, mode, script, done>>
  BY DEF MayBegin, Begin
<1>3. done \in Seq(Item) /\ cur' \in Item
  BY <1>1 DEF SessionInv
<1>4. Trace = done /\ Trace' = Append(done, cur')
  BY <1>1, <1>2 DEF Trace
<1>5. OneActionMore(Trace, Trace', d, Step("begin", 0, res)) /\ Trace' \in Seq(Item)
  BY <1>1, <1>3, <1>4 DEF OneActionMore
<1> QED BY <1>1, <1>2, <1>3, <1>4, <1>5

\* The page has done s with the view v and has the view w now.
Acted(v, s, w) ==
    /\ s \in StepType /\ w \in View
    /\ OneStepMore(Trace, Trace', s) /\ Trace' \in Seq(Item)
    /\ Trace[Len(Trace)] = cur /\ cur # Idle /\ cur' # Idle /\ cur' \in Item
    /\ Doing(bases', v, s, w) /\ Matches(bases', replies', jar', w)
    /\ bases' \in Seq(Base) /\ Stable(bases, bases')
    /\ UNCHANGED <<phase, mode, script, done>>
    /\ LogsStep(s, cur.desc, outLog, outLog')

\* Reading.
LEMMA ReadActs ==
    ASSUME NetInv, SessionInv, Compared, ~Beyond, NEW v \in View, Matches(bases, replies, jar, v),
           NEW r \in DOMAIN replies, Read(r)
    PROVE  \E s, w : /\ Acted(v, s, w) /\ s.op = "read" /\ s.arg = r
                     /\ Len(bases') = Len(bases) /\ Len(replies') = Len(replies)
                     /\ UNCHANGED <<inLog, outLog, store>>
<1>0. replies[r].base = r /\ r \in Nat /\ r \in 1..Len(bases) /\ bases \in Seq(Base) /\ replies[r] \in Reply
  BY MatchTypes
<1>1. PICK res : res = <<bases[r].url, bases[r].num, bases[r].pos, replies[r].size>>
  OBVIOUS
<1>2. res \in Seq(Seen)
  <2>1. bases[r].url \in Urls /\ bases[r].num \in Nat /\ bases[r].pos \in Nat /\ replies[r].size \in Nat
    BY <1>0, BaseParts DEF Reply
  <2> QED BY <2>1, <1>1, ResultTypes
<1>3. /\ cur # Idle /\ read(r) /\ Does("read", r, res)
      /\ UNCHANGED <<dataVars, phase, mode, script, done>>
  BY <1>0, <1>1 DEF Read, MayDo
<1>4. PICK s : s = Step("read", r, res)
  OBVIOUS
<1>5. s.op = "read" /\ s.arg = r /\ s.res = res
  BY <1>4 DEF Step
<1>6. PICK w \in View : Doing(bases, v, s, w) /\ Matches(bases', replies', jar', w)
  BY <1>1, <1>3, <1>5, MatchRead
<1>7. /\ OneStepMore(Trace, Trace', s) /\ Trace' \in Seq(Item) /\ s \in StepType
      /\ Trace[Len(Trace)] = cur /\ cur' # Idle /\ cur' \in Item
  BY <1>0, <1>2, <1>3, <1>4, DoesMore DEF Ops
<1>8. /\ bases' \in Seq(Base) /\ Len(bases') = Len(bases) /\ replies' = replies /\ UNCHANGED store
      /\ Stable(bases, bases')
  <2>1. NetInv' /\ bases' = [bases EXCEPT ![r] = [bases[r] EXCEPT !.pos = replies[r].size]]
    BY <1>0, <1>3, ReadInv
  <2>2. bases' \in Seq(Base) /\ Len(bases') = Len(bases)
    BY <2>1, <1>0 DEF NetInv, NetType
  <2>3. bases[r] \in Base
    BY <1>0
  <2>4. ASSUME NEW b \in 1..Len(bases)
        PROVE  /\ bases'[b].url = bases[b].url /\ bases'[b].num = bases[b].num /\ bases'[b].entries = bases[b].entries
               /\ Len(bases[b].entries) \in Nat
    <3>1. Len(bases[b].entries) \in Nat
      BY <1>0, BaseParts
    <3>2. CASE b = r
      BY <3>1, <3>2, <2>1, <2>3, <1>0 DEF Base
    <3>3. CASE b # r
      BY <3>1, <3>3, <2>1, <1>0
    <3> QED BY <3>2, <3>3
  <2>5. Stable(bases, bases')
    BY <2>2, <2>4, <1>0 DEF Stable
  <2> QED BY <2>2, <2>5, <1>3 DEF read
<1>9. Doing(bases', v, s, w)
  BY <1>0, <1>6, <1>8, DoingStable
<1>10. LogsStep(s, cur.desc, outLog, outLog') /\ UNCHANGED <<inLog, outLog>>
  BY <1>3, <1>5 DEF LogsStep, dataVars
<1>11. Acted(v, s, w)
  BY <1>3, <1>6, <1>7, <1>8, <1>9, <1>10 DEF Acted
<1> QED BY <1>5, <1>8, <1>10, <1>11

\* Giving up.
LEMMA AbortActs ==
    ASSUME NetInv, SessionInv, Compared, ~Beyond, NEW v \in View, Matches(bases, replies, jar, v),
           NEW r \in DOMAIN replies, Abort(r)
    PROVE  \E s, w : /\ Acted(v, s, w) /\ s.op = "abort" /\ s.arg = r
                     /\ Len(bases') = Len(bases) /\ Len(replies') = Len(replies)
                     /\ UNCHANGED <<inLog, outLog, store>>
<1>0. r \in Nat /\ bases \in Seq(Base) /\ replies \in Seq(Reply)
  BY MatchTypes
<1>1. <<>> \in Seq(Seen)
  OBVIOUS
<1>2. /\ cur # Idle /\ Release(r) /\ Does("abort", r, <<>>)
      /\ UNCHANGED <<dataVars, phase, mode, script, done>>
  BY DEF Abort, MayDo
<1>3. PICK s : s = Step("abort", r, <<>>)
  OBVIOUS
<1>4. s.op = "abort" /\ s.arg = r /\ s.res = <<>>
  BY <1>3 DEF Step
<1>5. PICK w \in View : Doing(bases, v, s, w) /\ Matches(bases', replies', jar', w)
  BY <1>2, <1>4, MatchAbort
<1>6. /\ OneStepMore(Trace, Trace', s) /\ Trace' \in Seq(Item) /\ s \in StepType
      /\ Trace[Len(Trace)] = cur /\ cur' # Idle /\ cur' \in Item
  BY <1>0, <1>1, <1>2, <1>3, DoesMore DEF Ops
<1>7. bases' = bases /\ UNCHANGED store /\ Len(replies') = Len(replies)
  BY <1>0, <1>2 DEF Release
<1>8. bases' \in Seq(Base) /\ Stable(bases, bases') /\ Len(bases') = Len(bases)
  BY <1>0, <1>7, StableSelf
<1>9. LogsStep(s, cur.desc, outLog, outLog') /\ UNCHANGED <<inLog, outLog>>
  BY <1>2, <1>4 DEF LogsStep, dataVars
<1>10. Acted(v, s, w)
  BY <1>2, <1>5, <1>6, <1>7, <1>8, <1>9 DEF Acted
<1> QED BY <1>4, <1>7, <1>8, <1>9, <1>10

\* What a reply that is made starts with.
LEMMA MadeFacts ==
    ASSUME NetInv, NEW u \in Urls, NEW new \in Reply, Makes(u, new), NetInv'
    PROVE  /\ Len(bases) <= Len(bases') /\ \A b \in 1..Len(bases) : bases'[b] = bases[b]
           /\ bases'[new.base].url = u /\ bases'[new.base].pos = 0
           /\ Released(new, bases'[new.base].entries) = 0
           /\ bases' \in Seq(Base) /\ Stable(bases, bases')
<1>0. bases \in Seq(Base) /\ bases' \in Seq(Base) /\ Len(bases) \in Nat
  BY DEF NetInv, NetType
<1>1. /\ Len(bases) <= Len(bases') /\ \A b \in 1..Len(bases) : bases'[b] = bases[b]
      /\ bases'[new.base].url = u /\ bases'[new.base].pos = 0
      /\ Released(new, bases'[new.base].entries) = 0
  <2>1. CASE MakesLive(u, new)
    <3>1. PICK base : base = [url |-> u, num |-> nextNum[u], pos |-> 0, entries |-> <<>>]
      OBVIOUS
    <3>2. bases' = Append(bases, base) /\ new.base = Len(bases) + 1 /\ new.queue = <<>>
      BY <2>1, <3>1 DEF MakesLive
    <3>3. base.url = u /\ base.pos = 0 /\ base.entries = <<>>
      BY <3>1
    <3>4. /\ Len(bases') = Len(bases) + 1 /\ bases'[Len(bases) + 1] = base
          /\ \A b \in 1..Len(bases) : bases'[b] = bases[b]
      BY <3>2, <1>0
    <3> QED BY <3>2, <3>3, <3>4, <1>0 DEF Released
  <2>2. CASE MakesReplayed(u, new)
    <3>1. new.base \in store[u] /\ new.queue = bases[new.base].entries /\ bases' = bases
      BY <2>2 DEF MakesReplayed
    <3>2. new.base \in DOMAIN bases /\ bases[new.base].url = u /\ bases[new.base].pos = 0
      BY <3>1 DEF NetInv
    <3>3. bases[new.base].entries \in Seq(Snapshot)
      BY <3>2, <1>0, BaseParts
    <3> QED BY <3>1, <3>2, <3>3, <1>0 DEF Released
  <2> QED BY <2>1, <2>2 DEF Makes
<1>2. Stable(bases, bases')
  <2>1. \A b \in 1..Len(bases) : Len(bases[b].entries) \in Nat
    BY <1>0, BaseParts
  <2> QED BY <2>1, <1>1 DEF Stable
<1> QED BY <1>0, <1>1, <1>2

\* Requesting.
LEMMA RequestActs ==
    ASSUME NetInv, NetInv', SessionInv, Compared, ~Beyond, NEW v \in View, Matches(bases, replies, jar, v),
           NEW u \in Urls, cur # Idle, Does("request", u, <<>>),
           UNCHANGED <<dataVars, phase, mode, script, done>>,
           NEW new \in Reply, Makes(u, new), new.base = Len(replies) + 1
    PROVE  \E s, w : /\ Acted(v, s, w) /\ s.op = "request" /\ s.arg = u
                     /\ UNCHANGED <<inLog, outLog>>
<1>1. /\ Len(bases) <= Len(bases') /\ \A b \in 1..Len(bases) : bases'[b] = bases[b]
      /\ bases'[new.base].url = u /\ bases'[new.base].pos = 0
      /\ Released(new, bases'[new.base].entries) = 0
      /\ bases' \in Seq(Base) /\ Stable(bases, bases')
  BY MadeFacts
<1>2. <<>> \in Seq(Seen) /\ u \in Urls \cup Nat
  OBVIOUS
<1>3. PICK s : s = Step("request", u, <<>>)
  OBVIOUS
<1>4. s.op = "request" /\ s.arg = u /\ s.res = <<>>
  BY <1>3 DEF Step
<1>5. PICK w \in View : Doing(bases', v, s, w) /\ Matches(bases', replies', jar', w)
  BY <1>1, <1>4, MatchRequest
<1>6. /\ OneStepMore(Trace, Trace', s) /\ Trace' \in Seq(Item) /\ s \in StepType
      /\ Trace[Len(Trace)] = cur /\ cur' # Idle /\ cur' \in Item
  BY <1>2, <1>3, DoesMore DEF Ops
<1>7. LogsStep(s, cur.desc, outLog, outLog') /\ UNCHANGED <<inLog, outLog>>
  BY <1>4 DEF LogsStep, dataVars
<1>8. Acted(v, s, w)
  BY <1>1, <1>5, <1>6, <1>7 DEF Acted
<1> QED BY <1>4, <1>7, <1>8

\* Asking for the time.
LEMMA TimeActs ==
    ASSUME NetInv, SessionInv, Compared, ~Beyond, NEW v \in View, Matches(bases, replies, jar, v), cur # Idle,
           NEW t \in 0..clock, Does("time", 0, <<t>>), outLog' = Extended(outLog, cur.desc, t),
           UNCHANGED <<networkVars, phase, mode, script, done>>
    PROVE  \E s, w : /\ Acted(v, s, w) /\ s.op = "time" /\ s.arg = 0 /\ s.res = <<t>>
                     /\ w.times = Append(v.times, t)
                     /\ w.rs = v.rs /\ w.jar = v.jar
                     /\ UNCHANGED networkVars
<1>0. bases \in Seq(Base) /\ t \in Nat /\ v.times \in Seq(Nat) /\ UNCHANGED <<bases, replies, jar>>
  BY MatchTypes, ViewParts DEF SessionInv, networkVars
<1>1. PICK res : res = <<t>>
  OBVIOUS
<1>2. res \in Seq(Seen)
  BY <1>0, <1>1, ResultTypes
<1>3. PICK s : s = Step("time", 0, res)
  OBVIOUS
<1>4. s.op = "time" /\ s.arg = 0 /\ s.res = <<t>>
  BY <1>1, <1>3 DEF Step
<1>5. PICK w : w = [v EXCEPT !.times = Append(v.times, t)]
  OBVIOUS
<1>6. Doing(bases', v, s, w)
  BY <1>0, <1>4, <1>5 DEF Doing, AfterTime
<1>7. w \in View /\ w.times = Append(v.times, t) /\ w.rs = v.rs /\ w.jar = v.jar
  <2>1. Append(v.times, t) \in Seq(Nat)
    BY <1>0
  <2> QED BY <2>1, <1>5 DEF View
<1>8. Matches(bases', replies', jar', w)
  <2>1. Matches(bases, replies, jar, w)
    BY <1>7, MatchTimes
  <2> QED BY <2>1, <1>0
<1>9. /\ OneStepMore(Trace, Trace', s) /\ Trace' \in Seq(Item) /\ s \in StepType
      /\ Trace[Len(Trace)] = cur /\ cur' # Idle /\ cur' \in Item
  BY <1>1, <1>2, <1>3, DoesMore DEF Ops
<1>10. bases' \in Seq(Base) /\ Stable(bases, bases')
  BY <1>0, StableSelf
<1>11. LogsStep(s, cur.desc, outLog, outLog')
  BY <1>0, <1>4 DEF LogsStep
<1>12. Acted(v, s, w)
  BY <1>6, <1>7, <1>8, <1>9, <1>10, <1>11 DEF Acted
<1> QED BY <1>4, <1>7, <1>12

\* The event action d has begun with the step s, the view was v and is w.
Begun(v, d, s, w) ==
    /\ w \in View /\ s \in StepType
    /\ OneActionMore(Trace, Trace', d, s) /\ Trace' \in Seq(Item) /\ Trace = done
    /\ Beginning(bases, d, v, s, w) /\ Matches(bases, replies', jar', w)
    /\ UNCHANGED <<bases, store, inLog, outLog, phase, mode, script, done>> /\ Len(replies') = Len(replies)
    /\ cur' # Idle /\ cur'.desc = d /\ cur'.steps = <<s>>

\* The first step of an event action is a step.
LEMMA BeginStepType ==
    ASSUME NEW res \in Seq(Seen)
    PROVE  Step("begin", 0, res) \in StepType
BY DEF Step, StepType, Ops

\* The event action of a signal.
LEMMA SignalBegins ==
    ASSUME NetInv, SessionInv, IdentInv, Compared, NEW v \in View, Matches(bases, replies, jar, v),
           NEW r \in DOMAIN replies, BeginNetwork(r)
    PROVE  \E s, w : /\ Begun(v, replies[r].waiting, s, w) /\ r \in Nat
                     /\ AfterSignal(bases, replies[r].waiting, v, s, w, r)
<1>0. r \in Nat /\ bases \in Seq(Base) /\ replies \in Seq(Reply)
  BY MatchTypes
<1>1. /\ replies[r].waiting # None /\ MayBegin(replies[r].waiting) /\ updateSnapshot(r, Len(done) + 1)
      /\ Begin(replies[r].waiting, <<Head(replies[r].queue), jar'>>)
  BY DEF BeginNetwork, updateSnapshot
<1>2. replies[r].waiting \in Descriptor /\ Head(replies[r].queue) \in Snapshot
  BY <1>1, WaitingTypes
<1>3. Len(done) + 1 \in Nat /\ Len(done) + 1 # 0
  BY TraceFacts
<1>4. /\ NetInv' /\ bases' = bases /\ store' = store
  BY <1>1, <1>3, UpdateInv
<1>5. Len(replies') = Len(replies)
  BY <1>0, <1>1 DEF updateSnapshot
<1>6. PICK res : res = <<Head(replies[r].queue), jar'>>
  OBVIOUS
<1>7. res \in Seq(Seen)
  <2>1. jar' \in SUBSET Nat
    BY <1>4 DEF NetInv, NetType
  <2> QED BY <2>1, <1>2, <1>6, ResultTypes
<1>8. PICK s : s = Step("begin", 0, res)
  OBVIOUS
<1>9. PICK w \in View : /\ AfterSignal(bases, replies[r].waiting, v, s, w, r)
                        /\ Matches(bases', replies', jar', w)
  BY <1>1, <1>3, <1>6, <1>8, MatchSignal
<1>10. /\ OneActionMore(Trace, Trace', replies[r].waiting, s) /\ Trace' \in Seq(Item)
       /\ Trace = done /\ UNCHANGED <<inLog, outLog, phase, mode, script, done>>
       /\ cur' # Idle /\ cur'.desc = replies[r].waiting /\ cur'.steps = <<s>>
  BY <1>1, <1>2, <1>6, <1>7, <1>8, BeginMore
<1>11. Beginning(bases, replies[r].waiting, v, s, w)
  BY <1>0, <1>9 DEF Beginning
<1>12. s \in StepType
  BY <1>7, <1>8, BeginStepType
<1>13. Begun(v, replies[r].waiting, s, w)
  BY <1>4, <1>5, <1>9, <1>10, <1>11, <1>12 DEF Begun
<1> QED BY <1>0, <1>9, <1>13

\* An event action of the page.
LEMMA PageBegins ==
    ASSUME NetInv, SessionInv, Compared, NEW v \in View, Matches(bases, replies, jar, v), BeginPage
    PROVE  \E s, w, d : /\ Begun(v, d, s, w) /\ AfterPage(d, v, s, w) /\ MayBegin(d)
                        /\ d = Page(Cardinality(PagesBefore(Trace, Len(Trace) + 1)))
<1>0. bases \in Seq(Base) /\ jar \in SUBSET Nat /\ jar = v.jar
  BY MatchTypes
<1>1. PICK d : d = Page(Cardinality({i \in DOMAIN done : done[i].desc.type = "Page"}))
  OBVIOUS
<1>2. MayBegin(d) /\ Begin(d, <<"page", jar>>) /\ UNCHANGED networkVars
  BY <1>1 DEF BeginPage
<1>3. done \in Seq(Item) /\ Trace = done /\ Len(done) \in Nat
  BY <1>2, TraceFacts DEF MayBegin, SessionInv
<1>4. {i \in DOMAIN done : done[i].desc.type = "Page"} = PagesBefore(Trace, Len(Trace) + 1)
  <2>1. DOMAIN done = 1..Len(done) /\ (Len(done) + 1) - 1 = Len(done)
    BY <1>3
  <2> QED BY <2>1, <1>3 DEF PagesBefore
<1>5. d \in Descriptor /\ d.type = "Page" /\ d # None
  <2>1. PICK n : n = Cardinality({i \in DOMAIN done : done[i].desc.type = "Page"})
    OBVIOUS
  <2>2. n \in Nat
    <3>1. IsFiniteSet(1..Len(done)) /\ DOMAIN done = 1..Len(done)
      BY <1>3, FS_Interval
    <3>2. IsFiniteSet({i \in DOMAIN done : done[i].desc.type = "Page"})
      BY <3>1, FS_Subset
    <3> QED BY <3>2, <2>1, FS_CardinalityType
  <2>3. d = [type |-> "Page", url |-> "none", num |-> n, seq |-> 0]
    BY <2>1, <1>1 DEF Page
  <2> QED BY <2>2, <2>3 DEF Descriptor, None
<1>6. PICK res : res = <<"page", jar>>
  OBVIOUS
<1>7. res \in Seq(Seen)
  BY <1>0, <1>6, ResultTypes
<1>8. PICK s : s = Step("begin", 0, res)
  OBVIOUS
<1>9. PICK w : w = [v EXCEPT !.times = <<>>]
  OBVIOUS
<1>10. AfterPage(d, v, s, w)
  BY <1>0, <1>5, <1>6, <1>8, <1>9 DEF AfterPage
<1>11. w \in View /\ w.rs = v.rs /\ w.jar = v.jar
  <2>1. <<>> \in Seq(Nat)
    OBVIOUS
  <2> QED BY <2>1, <1>9 DEF View
<1>12. UNCHANGED <<bases, replies, store, jar>>
  BY <1>2 DEF networkVars
<1>13. Matches(bases, replies', jar', w)
  <2>1. Matches(bases, replies, jar, w)
    BY <1>11, MatchTimes
  <2> QED BY <2>1, <1>12
<1>14. /\ OneActionMore(Trace, Trace', d, s) /\ Trace' \in Seq(Item)
       /\ UNCHANGED <<inLog, outLog, phase, mode, script, done>>
       /\ cur' # Idle /\ cur'.desc = d /\ cur'.steps = <<s>>
  BY <1>2, <1>5, <1>6, <1>7, <1>8, BeginMore
<1>15. Beginning(bases, d, v, s, w) /\ s \in StepType
  BY <1>7, <1>8, <1>10, BeginStepType DEF Beginning
<1>16. Begun(v, d, s, w)
  BY <1>3, <1>11, <1>12, <1>13, <1>14, <1>15 DEF Begun
<1> QED BY <1>1, <1>2, <1>4, <1>10, <1>16

-----------------------------------------------------------------------------
(* A step of the recording. *)

RecordsWith(W) == RecordOK(bases, replies, jar, outLog, Trace, W)

\* The page acts in a recording.
LEMMA RecordActs ==
    ASSUME NetInv, SessionInv, NEW W \in Views, RecordsWith(W), NEW s, NEW w, Acted(Now(W, Trace), s, w),
           Len(bases') = Len(replies')
    PROVE  \E W2 \in Views : RecordsWith(W2)'
<1>1. /\ s \in StepType /\ OneStepMore(Trace, Trace', s) /\ Trace' \in Seq(Item) /\ Trace[Len(Trace)] = cur
      /\ Doing(bases', Now(W, Trace), s, w) /\ Matches(bases', replies', jar', w)
      /\ bases' \in Seq(Base) /\ Stable(bases, bases') /\ LogsStep(s, cur.desc, outLog, outLog')
  BY DEF Acted
<1>2. bases \in Seq(Base) /\ Trace \in Seq(Item) /\ outLog \in LogType
  BY TraceFacts DEF NetInv, NetType, SessionInv
<1>3. RecordOK(bases, replies, jar, outLog, Trace, W)
  BY DEF RecordsWith
<1>4. LogsStep(s, Trace[Len(Trace)].desc, outLog, outLog')
  BY <1>1
<1>5. PICK W2 \in Views : RecordOK(bases', replies', jar', outLog', Trace', W2)
  BY <1>1, <1>2, <1>3, <1>4, RecordDoes
<1> QED BY <1>5 DEF RecordsWith

\* An event action begins in a recording.
LEMMA RecordBegun ==
    ASSUME NetInv, SessionInv, NEW W \in Views, RecordsWith(W), NEW d, NEW s, NEW w,
           Begun(Now(W, Trace), d, s, w), Fresh(Trace, d),
           d.type = "Page" => d = Page(Cardinality(PagesBefore(Trace, Len(Trace) + 1))),
           d.type = "Page" \/ \E r, k \in Nat : Came(bases, w, d, r, k)
    PROVE  \E W2 \in Views : RecordsWith(W2)'
<1>1. /\ OneActionMore(Trace, Trace', d, s) /\ Trace' \in Seq(Item)
      /\ Beginning(bases, d, Now(W, Trace), s, w) /\ Matches(bases, replies', jar', w)
      /\ bases' = bases /\ outLog' = outLog /\ Len(replies') = Len(replies)
  BY DEF Begun
<1>2. bases \in Seq(Base) /\ Trace \in Seq(Item) /\ outLog \in LogType
  BY TraceFacts DEF NetInv, NetType, SessionInv
<1>3. RecordOK(bases, replies, jar, outLog, Trace, W)
  BY DEF RecordsWith
<1>4. PICK W2 \in Views : RecordOK(bases, replies', jar', outLog, Trace', W2)
  BY <1>1, <1>2, <1>3, RecordBegins
<1> QED BY <1>1, <1>4 DEF RecordsWith

\* A signal arrives in a recording.
LEMMA RecordLive ==
    ASSUME NetInv, SessionInv, NEW W \in Views, RecordsWith(W), NEW r \in DOMAIN replies, LiveSignal(r)
    PROVE  RecordsWith(W)'
<1>1. PICK new \in Reply, snap \in Snapshot : Delivers(r, new, snap)
  BY LiveFacts
<1>2. NetInv' /\ jar' = jar /\ UNCHANGED <<outLog, done, cur>> /\ replies[r].open
  BY LiveFacts DEF LiveSignal, dataVars, sessionVars, slReadyRead, slFinished, Connected
<1>3. Trace' = Trace
  BY <1>2 DEF Trace, Idle
<1>4. bases \in Seq(Base) /\ bases' \in Seq(Base) /\ Trace \in Seq(Item) /\ Len(Trace) \in Nat
  BY <1>2, TraceFacts DEF NetInv, NetType
<1>5. PICK v \in View : v = Now(W, Trace)
  <2>1. Len(Trace) + 1 \in 1..Len(Trace) + 1
    BY <1>4
  <2>2. Now(W, Trace) \in View
    BY <2>1, <1>4, StartType
  <2> QED BY <2>2
<1>6. Matches(bases, replies, jar, v) /\ Good(bases, Trace, W) /\ Heard(bases, Trace, v)
  BY <1>5 DEF RecordsWith, RecordOK
<1>7. /\ Matches(bases', replies', jar', v) /\ Stable(bases, bases')
      /\ Len(bases') = Len(bases) /\ Len(replies') = Len(replies)
  BY <1>1, <1>2, <1>6, MatchLive
<1>8. Good(bases', Trace, W)
  BY <1>4, <1>6, <1>7, GoodStable
<1>9. Heard(bases', Trace, v)
  <2>1. SameNames(Trace, Trace) /\ Len(v.rs) <= Len(v.rs) /\ \A q \in 1..Len(v.rs) : v.rs[q].rel >= v.rs[q].rel
    BY ViewParts DEF SameNames
  <2> QED BY <2>1, <1>4, <1>6, <1>7, HeardKept
<1>10. RecordOK(bases', replies', jar', outLog, Trace, W)
  BY <1>5, <1>7, <1>8, <1>9 DEF RecordsWith, RecordOK
<1> QED BY <1>2, <1>3, <1>10 DEF RecordsWith

\* Every step of a recording.
LEMMA RecordStep ==
    ASSUME NetInv, SessionInv, IdentInv, NEW W \in Views, RecordsWith(W),
           phase = "record", phase' = "record", [Next]_vars
    PROVE  \E W2 \in Views : RecordsWith(W2)'
<1>0. /\ Compared /\ mode = "STOP" /\ NetInv' /\ SessionInv' /\ ~Beyond
      /\ bases \in Seq(Base) /\ Trace \in Seq(Item) /\ Len(Trace) \in Nat /\ Len(bases) \in Nat
  <2>1. NetInv' /\ SessionInv'
    BY NetStep, SessionStep
  <2>2. Compared /\ mode = "STOP" /\ ~Beyond
    BY DEF Compared, SessionInv, Beyond, Strict
  <2>3. bases \in Seq(Base) /\ Len(bases) \in Nat
    BY DEF NetInv, NetType
  <2>4. Trace \in Seq(Item) /\ Len(Trace) \in Nat
    BY TraceFacts
  <2> QED BY <2>1, <2>2, <2>3, <2>4
<1>1. PICK v \in View : v = Now(W, Trace)
  <2>1. Len(Trace) + 1 \in 1..Len(Trace) + 1
    BY <1>0
  <2>2. Now(W, Trace) \in View
    BY <2>1, <1>0, StartType
  <2> QED BY <2>2
<1>2. /\ Matches(bases, replies, jar, v) /\ Len(bases) = Len(replies) /\ Heard(bases, Trace, v)
      /\ PagesNumbered(Trace)
  BY <1>1 DEF RecordsWith, RecordOK
<1>x. ~Exit
  BY DEF Exit
<1>3. ASSUME NEW u \in Urls, Request(u) PROVE \E W2 \in Views : RecordsWith(W2)'
  <2>1. /\ Does("request", u, <<>>) /\ UNCHANGED <<dataVars, phase, mode, script, done>>
        /\ \E new \in Reply : Makes(u, new)
    BY <1>0, <1>3, <1>x, RequestFacts
  <2>2. PICK new \in Reply : Makes(u, new)
    BY <2>1
  <2>3. MakesLive(u, new)
    BY <2>2, <1>0 DEF Makes, MakesReplayed
  <2>4. new.base = Len(replies) + 1 /\ cur # Idle
    BY <2>3, <1>2, <1>3 DEF MakesLive, Request, MayDo
  <2>5. PICK s, w : Acted(v, s, w)
    BY <2>1, <2>2, <2>4, <1>0, <1>2, RequestActs
  <2>6. Len(bases') = Len(replies')
    <3>1. Len(bases') = Len(bases) + 1
      <4>1. PICK base : base = [url |-> u, num |-> nextNum[u], pos |-> 0, entries |-> <<>>]
        OBVIOUS
      <4>2. bases' = Append(bases, base)
        BY <4>1, <2>3 DEF MakesLive
      <4> QED BY <4>2, <1>0
    <3>2. replies' = Append(replies, new) /\ replies \in Seq(Reply)
      BY <2>2 DEF Makes, NetInv, NetType
    <3>3. Len(replies') = Len(replies) + 1
      BY <3>2
    <3> QED BY <3>1, <3>3, <1>2
  <2> QED BY <2>5, <2>6, <1>1, RecordActs
<1>4. ASSUME NEW r \in DOMAIN replies, Read(r) PROVE \E W2 \in Views : RecordsWith(W2)'
  <2>1. PICK s, w : Acted(v, s, w) /\ Len(bases') = Len(bases) /\ Len(replies') = Len(replies)
    BY <1>0, <1>2, <1>4, ReadActs
  <2> QED BY <2>1, <1>1, <1>2, RecordActs
<1>5. ASSUME NEW r \in DOMAIN replies, Abort(r) PROVE \E W2 \in Views : RecordsWith(W2)'
  <2>1. PICK s, w : Acted(v, s, w) /\ Len(bases') = Len(bases) /\ Len(replies') = Len(replies)
    BY <1>0, <1>2, <1>5, AbortActs
  <2> QED BY <2>1, <1>1, <1>2, RecordActs
<1>6. CASE Time
  <2>1. PICK t \in 0..clock :
            /\ \/ mode = "STOP" /\ currentTimeLive(cur.desc, None, t)
               \/ mode # "STOP" /\ currentTimeLogged(cur.desc, None, t)
               \/ mode = "BEST_EFFORT" /\ currentTimeNew(cur.desc, None, t)
            /\ Does("time", 0, <<t>>)
            /\ UNCHANGED <<networkVars, phase, mode, script, done>>
    BY <1>6, <1>x DEF Time
  <2>2. cur # Idle
    BY <1>6 DEF Time, MayDo
  <2>3. outLog' = Extended(outLog, cur.desc, t)
    BY <2>1, <2>2, TimeSession
  <2>4. PICK s, w : Acted(v, s, w) /\ UNCHANGED networkVars
    BY <2>1, <2>2, <2>3, <1>0, <1>2, TimeActs
  <2>5. bases' = bases /\ replies' = replies
    BY <2>4 DEF networkVars
  <2> QED BY <2>4, <2>5, <1>1, <1>2, RecordActs
<1>7. ASSUME NEW r \in DOMAIN replies, BeginNetwork(r) PROVE \E W2 \in Views : RecordsWith(W2)'
  <2> DEFINE d == replies[r].waiting
  <2>1. PICK s, w : Begun(v, d, s, w) /\ r \in Nat /\ AfterSignal(bases, d, v, s, w, r)
    BY <1>0, <1>2, <1>7, SignalBegins
  <2>2. ToldApart(bases) /\ \A b \in 1..Len(bases) : EntriesOK(bases[b].entries)
    <3>1. DOMAIN bases = 1..Len(bases)
      BY <1>0
    <3> QED BY <3>1, <1>0 DEF ToldApart, IdentInv, NetInv
  <2> HIDE DEF d
  <2>3. Fresh(Trace, d) /\ d.type = "Network" /\ \E k \in Nat : Came(bases, w, d, r, k)
    BY <2>1, <2>2, <1>0, <1>2, FreshSignal
  <2>4. d.type # "Page"
    BY <2>3
  <2> QED BY <2>1, <2>3, <2>4, <1>1, RecordBegun
<1>8. CASE BeginPage
  <2>1. PICK s, w, d : /\ Begun(v, d, s, w) /\ AfterPage(d, v, s, w)
                       /\ d = Page(Cardinality(PagesBefore(Trace, Len(Trace) + 1)))
    BY <1>0, <1>2, <1>8, PageBegins
  <2>2. Fresh(Trace, d) /\ d.type = "Page"
    BY <2>1, <1>0, <1>2, FreshPage DEF AfterPage
  <2> QED BY <2>1, <2>2, <1>1, RecordBegun
<1>9. ASSUME NEW r \in DOMAIN replies, LiveSignal(r) PROVE \E W2 \in Views : RecordsWith(W2)'
  BY <1>9, RecordLive
<1>10. CASE End \/ UNCHANGED vars
  <2>1. Trace' = Trace /\ UNCHANGED <<bases, replies, jar, outLog>>
    BY <1>10 DEF End, Trace, vars, networkVars, dataVars, sessionVars, Idle
  <2> QED BY <2>1 DEF RecordsWith
<1>11. ~TimeOutside /\ ~Restart /\ ~Relax /\ ~Stop
  BY DEF TimeOutside, Restart, Relax, Stop, Strict
<1> QED BY <1>3, <1>4, <1>5, <1>6, <1>7, <1>8, <1>9, <1>10, <1>11 DEF Next

-----------------------------------------------------------------------------
(* The replay.  It is in the state the recording was in at the same place of its script. *)

\* tr follows the script sc, up to a place of its last event action.
Along(tr, sc) ==
    /\ Len(tr) <= Len(sc)
    /\ \A i \in 1..Len(tr) : /\ tr[i].desc = sc[i].desc /\ Len(tr[i].steps) >= 1
                             /\ Begins(tr[i].steps, sc[i].steps)
                             /\ i < Len(tr) => tr[i] = sc[i]

Ended(dn, sc) == \A i \in 1..Len(dn) : dn[i] = sc[i]

\* The recorded replies that were not matched are those that come after those that were.
StoreLeft(bs, rp, st) == \A u \in Urls : st[u] = {b \in 1..Len(bs) : bs[b].url = u /\ b > Len(rp)}

\* a followed by b is c.
Splits(c, a, b) == Len(c) = Len(a) + Len(b) /\ \A k \in 1..Len(b) : b[k] = c[Len(a) + k]

\* What was logged and what is left of the log, for the event action i of the script.
LogAt(in, out, sc, tr, W, i) ==
    /\ Logged(out, sc[i].desc) = IF i <= Len(tr) THEN AtEnd(W, tr, i).times ELSE <<>>
    /\ Splits(AtEnd(W, sc, i).times, Logged(out, sc[i].desc), Logged(in, sc[i].desc))

LogsAlong(in, out, sc, tr, W) == LogOnly(in, sc) /\ \A i \in 1..Len(sc) : LogAt(in, out, sc, tr, W, i)

ReplayOK(bs, rp, j, st, in, out, sc, tr, W) ==
    /\ Good(bs, sc, W) /\ Distinct(sc) /\ Along(tr, sc)
    /\ Matches(bs, rp, j, Now(W, tr)) /\ StoreLeft(bs, rp, st) /\ LogsAlong(in, out, sc, tr, W)

\* The step s of the script comes next, after m steps of its event action n.
NextIs(sc, tr, n, m, s) ==
    /\ n = Len(tr) /\ n >= 1 /\ m = Len(tr[n].steps) /\ m < Len(sc[n].steps) /\ s = sc[n].steps[m + 1]

\* The next step of the script.
LEMMA NextRecorded ==
    ASSUME NEW bs \in Seq(Base), NEW sc \in Seq(Item), NEW tr \in Seq(Item), NEW W \in Views,
           Good(bs, sc, W), Along(tr, sc), NEW n \in Nat, NEW m \in Nat, NEW s, NextIs(sc, tr, n, m, s)
    PROVE  /\ Now(W, tr) = W[<<n, m>>] /\ m >= 1 /\ n \in 1..Len(sc)
           /\ Doing(bs, Now(W, tr), s, W[<<n, m + 1>>])
           /\ s \in StepType /\ W[<<n, m + 1>>] \in View
           /\ Begins(W[<<n, m + 1>>].times, AtEnd(W, sc, n).times)
<1>0. n = Len(tr) /\ n >= 1 /\ m = Len(tr[n].steps) /\ m < Len(sc[n].steps) /\ s = sc[n].steps[m + 1]
  BY DEF NextIs
<1>1. Now(W, tr) = W[<<n, m>>]
  BY <1>0, NowIsEnd DEF AtEnd
<1>2. n \in 1..Len(sc) /\ m >= 1
  BY <1>0 DEF Along
<1>3. sc[n].steps \in Seq(StepType) /\ Len(sc[n].steps) \in Nat
  BY <1>2, ItemParts
<1>4. GoodAt(bs, sc, W, n)
  BY <1>2 DEF Good
<1>5. m \in 1..Len(sc[n].steps) - 1 /\ m + 1 \in 1..Len(sc[n].steps)
  BY <1>0, <1>2, <1>3
<1>6. /\ Doing(bs, W[<<n, m>>], sc[n].steps[m + 1], W[<<n, m + 1>>])
      /\ Begins(W[<<n, m + 1>>].times, W[<<n, Len(sc[n].steps)>>].times)
  BY <1>4, <1>5 DEF GoodAt
<1>7. sc[n].steps[m + 1] \in StepType
  BY <1>3, <1>5
<1>8. W[<<n, m + 1>>] \in View
  <2>1. <<n, m + 1>> \in Nat \X Nat
    OBVIOUS
  <2> QED BY <2>1 DEF Views
<1> QED BY <1>0, <1>1, <1>2, <1>6, <1>7, <1>8 DEF AtEnd

\* A step of the script is repeated.
LEMMA AlongDoes ==
    ASSUME NEW sc \in Seq(Item), NEW tr \in Seq(Item), NEW tr2 \in Seq(Item), NEW W \in Views,
           Along(tr, sc), NEW n \in Nat, NEW m \in Nat, NEW s \in StepType, NextIs(sc, tr, n, m, s),
           OneStepMore(tr, tr2, s), NEW w, w = W[<<n, m + 1>>]
    PROVE  Along(tr2, sc) /\ Now(W, tr2) = w /\ AtEnd(W, tr2, n) = w
<1>1. /\ n >= 1 /\ Len(tr2) = n /\ \A i \in 1..n : i # n => tr2[i] = tr[i]
      /\ tr2[n].desc = tr[n].desc /\ tr2[n].steps = Append(tr[n].steps, s)
  BY DEF OneStepMore, NextIs
<1>0. n = Len(tr) /\ m = Len(tr[n].steps) /\ m < Len(sc[n].steps) /\ s = sc[n].steps[m + 1]
  BY DEF NextIs
<1>2. n \in 1..n /\ tr[n].steps \in Seq(StepType) /\ n \in 1..Len(sc) /\ Begins(tr[n].steps, sc[n].steps)
  <2>1. n \in 1..n
    BY <1>1
  <2> QED BY <2>1, <1>0, ItemParts DEF Along
<1>3. /\ Len(tr2[n].steps) = m + 1 /\ tr2[n].steps[m + 1] = s
      /\ \A k \in 1..m : tr2[n].steps[k] = tr[n].steps[k]
  <2>1. PICK a \in Seq(StepType) : a = tr[n].steps
    BY <1>2
  <2>2. PICK b : b = Append(a, s)
    OBVIOUS
  <2>3. Len(a) = m /\ tr2[n].steps = b
    BY <2>1, <2>2, <1>0, <1>1
  <2>4. Len(b) = m + 1 /\ b[m + 1] = s /\ \A k \in 1..m : b[k] = a[k]
    BY <2>2, <2>3
  <2> QED BY <2>1, <2>3, <2>4
<1>4. Len(sc[n].steps) \in Nat
  BY <1>2, ItemParts
<1>5. Begins(tr2[n].steps, sc[n].steps)
  <2>1. \A k \in 1..m + 1 : k \in 1..m \/ k = m + 1
    OBVIOUS
  <2>2. \A k \in 1..m : tr[n].steps[k] = sc[n].steps[k]
    BY <1>0, <1>2, SMTT(60) DEF Begins
  <2>3. \A k \in 1..m + 1 : tr2[n].steps[k] = sc[n].steps[k]
    BY <2>1, <2>2, <1>0, <1>3, ZenonT(60)
  <2>4. m + 1 <= Len(sc[n].steps)
    BY <1>0, <1>4
  <2> QED BY <2>3, <2>4, <1>3 DEF Begins
<1>6. ASSUME NEW i \in 1..n
      PROVE  /\ tr2[i].desc = sc[i].desc /\ Len(tr2[i].steps) >= 1 /\ Begins(tr2[i].steps, sc[i].steps)
             /\ i < n => tr2[i] = sc[i]
  <2>1. CASE i = n
    <3>1. tr2[n].desc = sc[n].desc
      BY <1>0, <1>1, <1>2 DEF Along
    <3>2. Len(tr2[n].steps) >= 1
      BY <1>3, SMTT(60)
    <3> QED BY <3>1, <3>2, <2>1, <1>5, SMTT(60)
  <2>2. CASE i # n
    BY <2>2, <1>0, <1>1 DEF Along
  <2> QED BY <2>1, <2>2
<1>7. Along(tr2, sc)
  BY <1>1, <1>2, <1>6 DEF Along
<1>8. Now(W, tr2) = W[<<n, m + 1>>] /\ AtEnd(W, tr2, n) = W[<<n, m + 1>>]
  BY <1>1, <1>3, NowIsEnd DEF AtEnd
<1> QED BY <1>7, <1>8

\* The logs of other event actions than d are the same.
LogsKept(in, out, in2, out2, d) ==
    \A c : c # d => Logged(out2, c) = Logged(out, c) /\ Logged(in2, c) = Logged(in, c)

\* The logs after a step of the event action n, the times of which are those of w then.
LEMMA LogsAlongDoes ==
    ASSUME NEW sc \in Seq(Item), NEW tr \in Seq(Item), NEW tr2 \in Seq(Item), NEW W, Distinct(sc),
           NEW in, NEW in2, NEW out, NEW out2, LogsAlong(in, out, sc, tr, W),
           NEW n \in Nat, n \in 1..Len(sc), Len(tr) <= n, n = Len(tr2), n <= Len(tr) + 1,
           \A i \in 1..n : i # n => tr2[i] = tr[i],
           Logged(out2, sc[n].desc) = AtEnd(W, tr2, n).times,
           Splits(AtEnd(W, sc, n).times, Logged(out2, sc[n].desc), Logged(in2, sc[n].desc)),
           LogsKept(in, out, in2, out2, sc[n].desc),
           DOMAIN in2 \subseteq DOMAIN in
    PROVE  LogsAlong(in2, out2, sc, tr2, W)
<1>1. LogOnly(in2, sc)
  BY DEF LogsAlong, LogOnly
<1>2. LogAt(in2, out2, sc, tr2, W, n)
  BY DEF LogAt
<1>3. ASSUME NEW i \in 1..Len(sc), i # n PROVE LogAt(in2, out2, sc, tr2, W, i)
  <2>1. sc[i].desc # sc[n].desc
    BY <1>3 DEF Distinct
  <2>2. LogAt(in, out, sc, tr, W, i)
    BY DEF LogsAlong
  <2>3. i <= Len(tr2) => i <= Len(tr) /\ AtEnd(W, tr2, i) = AtEnd(W, tr, i)
    <3>1. i \in Nat /\ Len(tr) \in Nat /\ i >= 1
      OBVIOUS
    <3>2. i <= n => i \in 1..n /\ i <= Len(tr)
      BY <3>1, <1>3
    <3>3. i <= n => tr2[i] = tr[i]
      BY <3>2, <1>3
    <3> QED BY <3>2, <3>3 DEF AtEnd
  <2>4. ~(i <= Len(tr2)) => ~(i <= Len(tr))
    BY <1>3
  <2> QED BY <2>1, <2>2, <2>3, <2>4 DEF LogAt, LogsKept
<1> QED BY <1>1, <1>2, <1>3 DEF LogsAlong

ReplaysWith(W) ==
    ReplayOK(bases, replies, jar, store, inLog, outLog, script, Trace, W) /\ Ended(done, script)

\* What holds of a replay also when the page has gone on where the recording was cut.
Follow(W) ==
    /\ Good(bases, script, W) /\ Along(Trace, script) /\ Ended(done, script)
    /\ StoreLeft(bases, replies, store) /\ LogsAlong(inLog, outLog, script, Trace, W)
    /\ \A r \in DOMAIN replies : replies[r].base = r

\* The script is used up, and all replies are taken.
Over(W) ==
    /\ Follow(W)
    /\ Len(Trace) = Len(script) /\ Len(replies) = Len(bases)
    /\ cur # Idle => AtCut

\* The script has a request for every recorded reply.
Whole(W) == Len(Now(W, script).rs) = Len(bases)

\* The beginning of a sequence, as a prefix.
LEMMA BeginsIsPrefix ==
    ASSUME NEW S, NEW a \in Seq(S), NEW b \in Seq(S), Begins(a, b)
    PROVE  IsPrefix(a, b)
<1>1. Len(a) \in Nat /\ Len(b) \in Nat /\ Len(a) <= Len(b) /\ \A k \in 1..Len(a) : a[k] = b[k]
  BY DEF Begins
<1>2. SubSeq(a, 1, Len(a)) = SubSeq(b, 1, Len(a))
  BY <1>1
<1> QED BY <1>1, <1>2 DEF IsPrefix

\* A replay that is where the recording was repeats it.
LEMMA RepeatsNow ==
    ASSUME SessionInv, NEW W, ReplaysWith(W) \/ Follow(W)
    PROVE  Repeats
<1>1. Along(Trace, script) /\ Ended(done, script)
  BY DEF ReplaysWith, ReplayOK, Follow
<1>2. script \in Seq(Item) /\ cur \in Item /\ Len(done) \in Nat
  BY TraceFacts DEF SessionInv
<1>3. Len(Trace) <= Len(script) /\ \A i \in 1..Len(done) : done[i] = script[i]
  BY <1>1 DEF Along, Ended
<1>4. ASSUME cur # Idle
      PROVE  cur.desc = script[Len(Trace)].desc /\ IsPrefix(cur.steps, script[Len(Trace)].steps)
  <2>1. Len(Trace) = Len(done) + 1 /\ Trace[Len(done) + 1] = cur
    BY <1>4, TraceFacts
  <2>2. Len(Trace) \in 1..Len(Trace) /\ Trace[Len(Trace)] = cur /\ Len(Trace) \in 1..Len(script)
    BY <2>1, <1>2, <1>3
  <2>3. cur.desc = script[Len(Trace)].desc /\ Begins(cur.steps, script[Len(Trace)].steps)
    BY <2>2, <1>1 DEF Along
  <2>4. cur.steps \in Seq(StepType) /\ script[Len(Trace)].steps \in Seq(StepType)
    BY <2>2, <1>2, ItemParts DEF Item
  <2> QED BY <2>3, <2>4, BeginsIsPrefix
<1> QED BY <1>3, <1>4 DEF Repeats

\* The first of what is left is the next.
LEMMA SplitsMove ==
    ASSUME NEW S, NEW a \in Seq(S), NEW b \in Seq(S), NEW c \in Seq(S), Splits(c, a, b), Len(c) >= Len(a) + 1
    PROVE  b # <<>> /\ Head(b) = c[Len(a) + 1] /\ Splits(c, Append(a, Head(b)), Tail(b))
<1>1. Len(a) \in Nat /\ Len(b) \in Nat /\ Len(c) \in Nat /\ Len(c) = Len(a) + Len(b)
      /\ \A k \in 1..Len(b) : b[k] = c[Len(a) + k]
  BY DEF Splits
<1>2. Len(b) >= 1 /\ b # <<>>
  BY <1>1
<1>3. /\ Len(b) \in Nat /\ Len(b) > 0 /\ Head(b) = b[1] /\ Head(b) \in S
      /\ Tail(b) \in Seq(S) /\ Len(Tail(b)) = Len(b) - 1
      /\ \A k \in 1..Len(b) - 1 : Tail(b)[k] = b[k + 1]
  BY <1>2, HeadIsFirst
<1>4. 1 \in 1..Len(b)
  BY <1>3
<1>5. Head(b) = c[Len(a) + 1]
  BY <1>1, <1>3, <1>4
<1>6. PICK a2 : a2 = Append(a, Head(b))
  OBVIOUS
<1>7. Len(a2) = Len(a) + 1
  BY <1>3, <1>6
<1>8. PICK b2 : b2 = Tail(b)
  OBVIOUS
<1>9. ASSUME NEW k \in 1..Len(b) - 1 PROVE b2[k] = c[Len(a2) + k]
  <2>1. k + 1 \in 1..Len(b) /\ Len(a) + (k + 1) = Len(a2) + k
    BY <1>1, <1>7
  <2>2. b[k + 1] = c[Len(a) + (k + 1)]
    BY <2>1, <1>1
  <2> QED BY <2>1, <2>2, <1>3, <1>8
<1>10. Len(c) = Len(a2) + Len(b2)
  BY <1>1, <1>3, <1>7, <1>8
<1>11. Splits(c, a2, b2)
  BY <1>3, <1>8, <1>9, <1>10 DEF Splits
<1> QED BY <1>2, <1>5, <1>6, <1>8, <1>11

\* The time that is recorded next is the first that is left of the log.
LEMMA ClockNext ==
    ASSUME NEW bs \in Seq(Base), NEW v \in View, NEW s, NEW w \in View, Doing(bs, v, s, w), s.op = "time",
           NEW all \in Seq(Nat), Begins(w.times, all), NEW left \in Seq(Nat), Splits(all, v.times, left)
    PROVE  /\ left # <<>> /\ s.res = <<Head(left)>> /\ w.times = Append(v.times, Head(left))
           /\ Head(left) \in Nat /\ Splits(all, w.times, Tail(left))
<1>1. PICK t \in Nat : s.res = <<t>> /\ w.times = Append(v.times, t)
  BY DoingFacts DEF ReadsClock
<1>2. v.times \in Seq(Nat)
  BY ViewParts
<1>3. Len(w.times) = Len(v.times) + 1 /\ w.times[Len(v.times) + 1] = t /\ Len(v.times) \in Nat
  BY <1>1, <1>2
<1>4. Len(all) >= Len(v.times) + 1 /\ all[Len(v.times) + 1] = t
  <2>1. Len(v.times) + 1 \in 1..Len(w.times)
    BY <1>3
  <2>2. Len(w.times) <= Len(all) /\ w.times[Len(v.times) + 1] = all[Len(v.times) + 1]
    BY <2>1 DEF Begins
  <2> QED BY <2>2, <1>3
<1>5. left # <<>> /\ Head(left) = t /\ Splits(all, Append(v.times, Head(left)), Tail(left))
  BY <1>2, <1>4, SplitsMove
<1> QED BY <1>1, <1>5

\* Sequences of one element.
LEMMA SameElement ==
    ASSUME NEW a, NEW b, <<a>> = <<b>>
    PROVE  a = b
<1>1. <<a>>[1] = a /\ <<b>>[1] = b
  OBVIOUS
<1> QED BY <1>1

\* The same reading of the clock gives the same view.
LEMMA TimeDetermined ==
    ASSUME NEW bs, NEW v, NEW s \in StepType, NEW s0 \in StepType, NEW w, NEW w0,
           Doing(bs, v, s, w), Doing(bs, v, s0, w0), s.op = "time", s0.op = "time", s.res = s0.res
    PROVE  s = s0 /\ w = w0
<1>1. AfterTime(v, s, w) /\ AfterTime(v, s0, w0)
  BY DEF Doing, AfterRequest, AfterRead, AfterAbort
<1>2. PICK t \in Nat : s.res = <<t>> /\ w = [v EXCEPT !.times = Append(@, t)]
  BY <1>1 DEF AfterTime
<1>3. PICK t0 \in Nat : s0.res = <<t0>> /\ w0 = [v EXCEPT !.times = Append(@, t0)]
  BY <1>1 DEF AfterTime
<1>4. t = t0
  <2>1. <<t>> = <<t0>>
    BY <1>2, <1>3
  <2> QED BY <2>1, SameElement
<1>5. s.arg = s0.arg
  BY <1>1 DEF AfterTime
<1> QED BY <1>2, <1>3, <1>4, <1>5 DEF StepType

\* The replay is at the step s of its script, after which the page has the view w.
Placed(W, n, m, s, w) ==
    /\ n = Len(Trace) /\ Trace[n] = cur /\ cur # Idle /\ n \in 1..Len(script) /\ script[n].desc = cur.desc
    /\ NextIs(script, Trace, n, m, s) /\ w = W[<<n, m + 1>>]
    /\ Doing(bases, Now(W, Trace), s, w) /\ s \in StepType /\ w \in View
    /\ Begins(w.times, AtEnd(W, script, n).times)
    /\ Logged(outLog, script[n].desc) = Now(W, Trace).times
    /\ Splits(AtEnd(W, script, n).times, Logged(outLog, script[n].desc), Logged(inLog, script[n].desc))

\* Where the replay is in its script.
LEMMA PlaceOf ==
    ASSUME NetInv, SessionInv, Strict, ~Beyond, NEW W \in Views, ReplaysWith(W), NEW op, NEW arg, MayDo(op, arg)
    PROVE  \E n, m \in Nat : \E s, w : Placed(W, n, m, s, w) /\ s.op = op /\ s.arg = arg
<1>1. Repeats
  BY RepeatsNow
<1>2. cur # Idle /\ Recorded(op, arg)
  BY <1>1 DEF MayDo, Follows
<1>3. /\ Len(Trace) = Len(done) + 1 /\ Trace[Len(done) + 1] = cur /\ Len(done) \in Nat /\ Trace \in Seq(Item)
      /\ cur \in Item /\ script \in Seq(Item) /\ bases \in Seq(Base)
  BY <1>2, TraceFacts DEF SessionInv, NetInv, NetType
<1>4. PICK n \in Nat : n = Len(Trace)
  BY <1>3
<1>5. PICK m \in Nat : m = Len(cur.steps)
  <2>1. cur.steps \in Seq(StepType)
    BY <1>3 DEF Item
  <2> QED BY <2>1
<1>6. n >= 1 /\ Trace[n] = cur
  BY <1>3, <1>4
<1>7. /\ m + 1 <= Len(script[n].steps)
      /\ script[n].steps[m + 1].op = op /\ script[n].steps[m + 1].arg = arg
  BY <1>2, <1>4, <1>5 DEF Recorded
<1>8. Good(bases, script, W) /\ Along(Trace, script) /\ LogsAlong(inLog, outLog, script, Trace, W)
  BY DEF ReplaysWith, ReplayOK
<1>9. n \in 1..Len(script) /\ script[n].desc = cur.desc
  BY <1>3, <1>4, <1>6, <1>8 DEF Along
<1>10. m < Len(script[n].steps)
  <2>1. Len(script[n].steps) \in Nat
    BY <1>3, <1>9, ItemParts
  <2> QED BY <2>1, <1>7
<1>11. PICK s : s = script[n].steps[m + 1]
  OBVIOUS
<1>12. PICK w : w = W[<<n, m + 1>>]
  OBVIOUS
<1>13. NextIs(script, Trace, n, m, s)
  BY <1>4, <1>5, <1>6, <1>10, <1>11 DEF NextIs
<1>14. /\ Doing(bases, Now(W, Trace), s, w) /\ s \in StepType /\ w \in View
       /\ Begins(w.times, AtEnd(W, script, n).times)
  BY <1>3, <1>8, <1>12, <1>13, NextRecorded
<1>15. /\ Logged(outLog, script[n].desc) = Now(W, Trace).times
       /\ Splits(AtEnd(W, script, n).times, Logged(outLog, script[n].desc), Logged(inLog, script[n].desc))
  <2>1. LogAt(inLog, outLog, script, Trace, W, n) /\ n <= Len(Trace)
    BY <1>4, <1>8, <1>9 DEF LogsAlong
  <2>2. AtEnd(W, Trace, n) = Now(W, Trace)
    BY <1>4, <1>6, NowIsEnd
  <2> QED BY <2>1, <2>2 DEF LogAt
<1>16. Placed(W, n, m, s, w)
  BY <1>2, <1>4, <1>6, <1>9, <1>12, <1>13, <1>14, <1>15 DEF Placed
<1> QED BY <1>7, <1>11, <1>16

\* What the page does in a strict replay.
LEMMA ReplayActs ==
    ASSUME NetInv, SessionInv, NEW W \in Views, ReplaysWith(W), NEW v \in View, v = Now(W, Trace),
           NEW s, NEW w, Acted(v, s, w), NEW n \in Nat, NEW m \in Nat, Placed(W, n, m, s, w),
           StoreLeft(bases', replies', store'),
           Logged(outLog', cur.desc) = w.times,
           Splits(AtEnd(W, script, n).times, Logged(outLog', cur.desc), Logged(inLog', cur.desc)),
           LogsKept(inLog, outLog, inLog', outLog', cur.desc), DOMAIN inLog' \subseteq DOMAIN inLog
    PROVE  ReplaysWith(W)'
<1>0. bases \in Seq(Base) /\ Trace \in Seq(Item) /\ script \in Seq(Item)
  BY TraceFacts DEF NetInv, NetType, SessionInv
<1>1. /\ NextIs(script, Trace, n, m, s) /\ w = W[<<n, m + 1>>] /\ script[n].desc = cur.desc
  BY DEF Placed
<1>2. /\ s \in StepType /\ OneStepMore(Trace, Trace', s) /\ Trace' \in Seq(Item)
      /\ Matches(bases', replies', jar', w)
      /\ bases' \in Seq(Base) /\ Stable(bases, bases') /\ script' = script /\ done' = done
  BY DEF Acted
<1>3. /\ Logged(outLog', script[n].desc) = w.times
      /\ Splits(AtEnd(W, script, n).times, Logged(outLog', script[n].desc), Logged(inLog', script[n].desc))
      /\ LogsKept(inLog, outLog, inLog', outLog', script[n].desc)
  BY <1>1
<1>4. ReplayOK(bases, replies, jar, store, inLog, outLog, script, Trace, W) /\ Ended(done, script)
  BY DEF ReplaysWith
<1>5. Good(bases, script, W) /\ Distinct(script) /\ Along(Trace, script) /\ LogsAlong(inLog, outLog, script, Trace, W)
  BY <1>4 DEF ReplayOK
<1>6. Good(bases', script, W)
  BY <1>0, <1>2, <1>5, GoodStable
<1>7. PICK tr2 \in Seq(Item) : tr2 = Trace'
  BY <1>2
<1>8. OneStepMore(Trace, tr2, s)
  BY <1>2, <1>7
<1>9. Along(tr2, script) /\ Now(W, tr2) = w /\ AtEnd(W, tr2, n) = w
  <2>1. Along(Trace, script)
    BY <1>5
  <2>2. NextIs(script, Trace, n, m, s) /\ w = W[<<n, m + 1>>] /\ s \in StepType
    BY <1>1, <1>2, SMTT(60)
  <2> QED BY <2>1, <2>2, <1>0, <1>8, AlongDoes
<1>10. n = Len(Trace) /\ n >= 1 /\ Len(tr2) = n /\ \A i \in 1..n : i # n => tr2[i] = Trace[i]
  BY <1>1, <1>8 DEF OneStepMore, NextIs
<1>11. n \in 1..Len(script) /\ Len(Trace) <= n /\ n <= Len(Trace) + 1
  BY <1>0, <1>5, <1>10 DEF Along
<1>12. PICK in2, out2 : in2 = inLog' /\ out2 = outLog'
  OBVIOUS
<1>13. /\ Logged(out2, script[n].desc) = AtEnd(W, tr2, n).times
       /\ Splits(AtEnd(W, script, n).times, Logged(out2, script[n].desc), Logged(in2, script[n].desc))
       /\ LogsKept(inLog, outLog, in2, out2, script[n].desc) /\ DOMAIN in2 \subseteq DOMAIN inLog
  BY <1>3, <1>9, <1>12
<1>14. LogsAlong(in2, out2, script, tr2, W)
  BY <1>0, <1>5, <1>10, <1>11, <1>13, LogsAlongDoes
<1>15. ReplayOK(bases', replies', jar', store', inLog', outLog', script, Trace', W)
  BY <1>2, <1>5, <1>6, <1>7, <1>9, <1>12, <1>14 DEF ReplayOK
<1> QED BY <1>2, <1>4, <1>15 DEF ReplaysWith

\* What the page does in a strict replay but for reading the clock.
LEMMA ReplayActsQuietly ==
    ASSUME NetInv, SessionInv, Strict, ~Beyond, NEW W \in Views, ReplaysWith(W), NEW v \in View, v = Now(W, Trace),
           NEW s, NEW w, Acted(v, s, w), s.op # "time", MayDo(s.op, s.arg),
           StoreLeft(bases', replies', store'), UNCHANGED <<inLog, outLog>>
    PROVE  ReplaysWith(W)'
<1>0. bases \in Seq(Base)
  BY DEF NetInv, NetType
<1>1. PICK n \in Nat, m \in Nat : \E s1, w1 : Placed(W, n, m, s1, w1) /\ s1.op = s.op /\ s1.arg = s.arg
  BY PlaceOf
<1>2. PICK s1, w1 : Placed(W, n, m, s1, w1) /\ s1.op = s.op /\ s1.arg = s.arg
  BY <1>1
<1>3. /\ s \in StepType /\ w \in View /\ Doing(bases', v, s, w)
      /\ bases' \in Seq(Base) /\ Stable(bases, bases')
  BY DEF Acted
<1>4. Doing(bases, v, s1, w1) /\ s1 \in StepType
  BY <1>2 DEF Placed
<1>5. Doing(bases', v, s1, w1)
  BY <1>0, <1>3, <1>4, DoingStable
<1>6. s = s1 /\ w = w1
  BY <1>2, <1>3, <1>4, <1>5, DoingDetermined
<1>7. w.times = v.times
  BY <1>3, DoingFacts
<1>8. /\ Logged(outLog, cur.desc) = v.times
      /\ Splits(AtEnd(W, script, n).times, Logged(outLog, cur.desc), Logged(inLog, cur.desc))
  BY <1>2 DEF Placed
<1>9. /\ Logged(outLog', cur.desc) = w.times
      /\ Splits(AtEnd(W, script, n).times, Logged(outLog', cur.desc), Logged(inLog', cur.desc))
      /\ LogsKept(inLog, outLog, inLog', outLog', cur.desc) /\ DOMAIN inLog' \subseteq DOMAIN inLog
  BY <1>7, <1>8 DEF LogsKept
<1>10. Placed(W, n, m, s, w)
  BY <1>2, <1>6
<1> QED BY <1>9, <1>10, ReplayActs

\* No reply is made.
LEMMA StoreKept ==
    ASSUME NEW bs \in Seq(Base), NEW bs2 \in Seq(Base), Stable(bs, bs2), Len(bs2) = Len(bs),
           NEW rp, NEW rp2, Len(rp2) = Len(rp), NEW st, StoreLeft(bs, rp, st)
    PROVE  StoreLeft(bs2, rp2, st)
BY DEF StoreLeft, Stable

\* The view of a replay.
LEMMA ReplayView ==
    ASSUME NetInv, SessionInv, NEW W \in Views, ReplaysWith(W)
    PROVE  /\ Now(W, Trace) \in View /\ Matches(bases, replies, jar, Now(W, Trace))
           /\ StoreLeft(bases, replies, store) /\ Trace \in Seq(Item) /\ Len(Trace) \in Nat
           /\ bases \in Seq(Base) /\ replies \in Seq(Reply)
<1>1. Trace \in Seq(Item) /\ bases \in Seq(Base) /\ replies \in Seq(Reply)
  BY TraceFacts DEF NetInv, NetType
<1>2. Len(Trace) + 1 \in 1..Len(Trace) + 1
  BY <1>1
<1>3. Now(W, Trace) \in View
  BY <1>1, <1>2, StartType
<1> QED BY <1>1, <1>3 DEF ReplaysWith, ReplayOK

\* Reading and giving up in a strict replay.
LEMMA ReplayReads ==
    ASSUME NetInv, SessionInv, Strict, ~Beyond, NEW W \in Views, ReplaysWith(W), NEW r \in DOMAIN replies,
           Read(r) \/ Abort(r)
    PROVE  ReplaysWith(W)'
<1>0. Compared
  BY DEF Strict, Compared
<1>1. PICK v \in View : v = Now(W, Trace)
  BY ReplayView
<1>2. Matches(bases, replies, jar, v) /\ StoreLeft(bases, replies, store) /\ bases \in Seq(Base)
  BY <1>1, ReplayView
<1>3. PICK s, w : /\ Acted(v, s, w) /\ s.op # "time" /\ MayDo(s.op, s.arg)
                  /\ Len(bases') = Len(bases) /\ Len(replies') = Len(replies)
                  /\ UNCHANGED <<inLog, outLog, store>>
  <2>1. CASE Read(r)
    <3>1. PICK s, w : /\ Acted(v, s, w) /\ s.op = "read" /\ s.arg = r
                      /\ Len(bases') = Len(bases) /\ Len(replies') = Len(replies)
                      /\ UNCHANGED <<inLog, outLog, store>>
      BY <2>1, <1>0, <1>2, ReadActs
    <3>2. MayDo("read", r)
      BY <2>1 DEF Read
    <3>3. s.op # "time" /\ MayDo(s.op, s.arg)
      BY <3>1, <3>2
    <3> QED BY <3>1, <3>3
  <2>2. CASE Abort(r)
    <3>1. PICK s, w : /\ Acted(v, s, w) /\ s.op = "abort" /\ s.arg = r
                      /\ Len(bases') = Len(bases) /\ Len(replies') = Len(replies)
                      /\ UNCHANGED <<inLog, outLog, store>>
      BY <2>2, <1>0, <1>2, AbortActs
    <3>2. MayDo("abort", r)
      BY <2>2 DEF Abort
    <3>3. s.op # "time" /\ MayDo(s.op, s.arg)
      BY <3>1, <3>2
    <3> QED BY <3>1, <3>3
  <2> QED BY <2>1, <2>2
<1>4. bases' \in Seq(Base) /\ Stable(bases, bases')
  BY <1>3 DEF Acted
<1>5. StoreLeft(bases', replies', store')
  <2>1. StoreLeft(bases', replies', store)
    BY <1>2, <1>3, <1>4, StoreKept
  <2> QED BY <2>1, <1>3
<1> QED BY <1>1, <1>3, <1>5, ReplayActsQuietly

\* The recorded reply of the request is the first in the list of its URL.
LEMMA RequestHits ==
    ASSUME NetInv, SessionInv, Strict, ~Beyond, NEW W \in Views, ReplaysWith(W), NEW u \in Urls, MayDo("request", u)
    PROVE  store[u] # {} /\ Min(store[u]) = Len(replies) + 1
<1>1. PICK n \in Nat, m \in Nat : \E s, w : Placed(W, n, m, s, w) /\ s.op = "request" /\ s.arg = u
  BY PlaceOf
<1>2. PICK s, w : Placed(W, n, m, s, w) /\ s.op = "request" /\ s.arg = u
  BY <1>1
<1>3. Doing(bases, Now(W, Trace), s, w)
  BY <1>2 DEF Placed
<1>4. AfterRequest(bases, Now(W, Trace), s, w)
  BY <1>2, <1>3 DEF Doing, AfterRead, AfterAbort, AfterTime
<1>5. Len(Now(W, Trace).rs) = Len(replies) /\ StoreLeft(bases, replies, store) /\ Len(replies) \in Nat /\ Len(bases) \in Nat
  BY ReplayView DEF Matches
<1>6. Len(replies) + 1 <= Len(bases) /\ bases[Len(replies) + 1].url = u
  BY <1>2, <1>4, <1>5 DEF AfterRequest
<1>7. store[u] = {b \in 1..Len(bases) : bases[b].url = u /\ b > Len(replies)}
  BY <1>5 DEF StoreLeft
<1>8. Len(replies) + 1 \in store[u] /\ \A b \in store[u] : b >= Len(replies) + 1 /\ b \in Nat
  BY <1>5, <1>6, <1>7
<1>9. Min(store[u]) \in store[u] /\ \A x \in store[u] : Min(store[u]) <= x
  <2>1. store[u] \in SUBSET Nat /\ store[u] # {}
    BY <1>8
  <2> QED BY <2>1, MinOfStore
<1>10. PICK k : k = Min(store[u])
  OBVIOUS
<1>11. k \in Nat /\ k >= Len(replies) + 1 /\ k <= Len(replies) + 1
  BY <1>8, <1>9, <1>10
<1>12. k = Len(replies) + 1
  BY <1>5, <1>11
<1> QED BY <1>8, <1>10, <1>12

\* The list after a recorded reply was taken.
LEMMA StoreTaken ==
    ASSUME NEW bs \in Seq(Base), NEW rp, NEW rp2, Len(rp) \in Nat, Len(rp2) = Len(rp) + 1,
           NEW st \in [Urls -> SUBSET Nat], NEW st2, NEW u \in Urls, NEW k, k = Len(rp) + 1, k \in st[u],
           StoreLeft(bs, rp, st), st2 = [st EXCEPT ![u] = st[u] \ {k}]
    PROVE  StoreLeft(bs, rp2, st2)
<1>1. k \in 1..Len(bs) /\ bs[k].url = u
  BY DEF StoreLeft
<1>2. st2[u] = st[u] \ {k} /\ \A x \in Urls : x # u => st2[x] = st[x]
  OBVIOUS
<1>3. \A b \in 1..Len(bs) : b > Len(rp2) <=> b > Len(rp) /\ b # k
  OBVIOUS
<1>4. ASSUME NEW x \in Urls PROVE st2[x] = {b \in 1..Len(bs) : bs[b].url = x /\ b > Len(rp2)}
  <2>1. st[x] = {b \in 1..Len(bs) : bs[b].url = x /\ b > Len(rp)}
    BY DEF StoreLeft
  <2>2. CASE x = u
    BY <2>1, <2>2, <1>2, <1>3
  <2>3. CASE x # u
    BY <2>1, <2>3, <1>1, <1>2, <1>3
  <2> QED BY <2>2, <2>3
<1> QED BY <1>4 DEF StoreLeft

\* A request of a strict replay.
LEMMA ReplayRequests ==
    ASSUME NetInv, NetInv', SessionInv, Strict, ~Beyond, NEW W \in Views, ReplaysWith(W), NEW u \in Urls, Request(u)
    PROVE  ReplaysWith(W)' /\ phase' = phase
<1>0. Compared /\ phase = "replay" /\ MayDo("request", u)
  BY DEF Strict, Compared, Request
<1>1. PICK v \in View : v = Now(W, Trace)
  BY ReplayView
<1>2. Matches(bases, replies, jar, v) /\ StoreLeft(bases, replies, store) /\ bases \in Seq(Base) /\ replies \in Seq(Reply)
  BY <1>1, ReplayView
<1>3. store[u] # {} /\ Min(store[u]) = Len(replies) + 1
  BY <1>0, RequestHits
<1>4. /\ Does("request", u, <<>>) /\ UNCHANGED <<dataVars, phase, mode, script, done>>
      /\ \E new \in Reply : Makes(u, new)
  BY <1>0, <1>3, RequestFacts DEF Hit
<1>5. PICK new \in Reply : Makes(u, new)
  BY <1>4
<1>6. MakesReplayed(u, new)
  BY <1>0, <1>5 DEF Makes, MakesLive
<1>7. new.base = Len(replies) + 1 /\ bases' = bases /\ new.base \in store[u]
  BY <1>3, <1>6 DEF MakesReplayed
<1>8. PICK s, w : Acted(v, s, w) /\ s.op = "request" /\ s.arg = u /\ UNCHANGED <<inLog, outLog>>
  BY <1>0, <1>2, <1>4, <1>5, <1>7, RequestActs DEF MayDo
<1>9. StoreLeft(bases', replies', store')
  <2>1. store \in [Urls -> SUBSET Nat]
    BY DEF NetInv, NetType
  <2>2. Len(replies') = Len(replies) + 1 /\ Len(replies) \in Nat
    BY <1>2, <1>5 DEF Makes
  <2>3. store' = [store EXCEPT ![u] = store[u] \ {new.base}]
    BY <1>6, <2>1 DEF MakesReplayed
  <2>4. StoreLeft(bases, replies', store')
    BY <2>1, <2>2, <2>3, <1>2, <1>7, StoreTaken, ZenonT(60)
  <2> QED BY <2>4, <1>7
<1>10. s.op # "time" /\ MayDo(s.op, s.arg)
  BY <1>0, <1>8
<1>11. ReplaysWith(W)'
  BY <1>1, <1>8, <1>9, <1>10, ReplayActsQuietly
<1> QED BY <1>4, <1>11

\* The first value of the event action d is taken from the log.
TakesFirst(in, d, in2) == in2 = [in EXCEPT ![d] = Tail(@)]

\* A value is taken from one log and put into another.
LEMMA ValueMoves ==
    ASSUME NEW in \in LogType, NEW out \in LogType, NEW d \in Descriptor, NEW t \in Nat,
           Logged(in, d) # <<>>, NEW in2, TakesFirst(in, d, in2), NEW out2, out2 = Extended(out, d, t)
    PROVE  /\ in[d] = Logged(in, d) /\ Logged(in2, d) = Tail(Logged(in, d)) /\ DOMAIN in2 \subseteq DOMAIN in
           /\ Logged(out2, d) = Append(Logged(out, d), t)
           /\ LogsKept(in, out, in2, out2, d)
<1>1. d \in DOMAIN in /\ in[d] = Logged(in, d)
  BY DEF Logged
<1>2. /\ DOMAIN in2 = DOMAIN in /\ in2[d] = Tail(in[d])
      /\ \A c \in DOMAIN in : c # d => in2[c] = in[c]
  BY <1>1 DEF TakesFirst
<1>3. Logged(in2, d) = Tail(in[d])
  BY <1>1, <1>2 DEF Logged
<1>4. ASSUME NEW c, c # d PROVE Logged(in2, c) = Logged(in, c)
  BY <1>2, <1>4 DEF Logged
<1>5. /\ Logged(Extended(out, d, t), d) = Append(Logged(out, d), t)
      /\ \A c : c # d => Logged(Extended(out, d, t), c) = Logged(out, c)
  BY LogTypes
<1>6. LogsKept(in, out, in2, out2, d)
  BY <1>4, <1>5 DEF LogsKept
<1>7. Logged(out2, d) = Append(Logged(out, d), t)
  BY <1>5
<1> QED BY <1>1, <1>2, <1>3, <1>6, <1>7

\* The time of a strict replay is the recorded one.
LEMMA ReplayTimes ==
    ASSUME NetInv, SessionInv, Strict, ~Beyond, NEW W \in Views, ReplaysWith(W), Time
    PROVE  ReplaysWith(W)' /\ phase' = phase
<1>0. Compared /\ mode = "STRICT" /\ MayDo("time", 0)
  BY DEF Strict, Compared, Time
<1>1. PICK v \in View : v = Now(W, Trace)
  BY ReplayView
<1>2. Matches(bases, replies, jar, v) /\ StoreLeft(bases, replies, store) /\ bases \in Seq(Base)
  BY <1>1, ReplayView
<1>3. PICK n \in Nat, m \in Nat : \E s1, w1 : Placed(W, n, m, s1, w1) /\ s1.op = "time" /\ s1.arg = 0
  BY <1>0, PlaceOf
<1>4. PICK s1, w1 : Placed(W, n, m, s1, w1) /\ s1.op = "time" /\ s1.arg = 0
  BY <1>3
<1>5. PICK d : d = cur.desc
  OBVIOUS
<1>6. PICK all : all = AtEnd(W, script, n).times
  OBVIOUS
<1>7. /\ Doing(bases, v, s1, w1) /\ s1 \in StepType /\ w1 \in View /\ Begins(w1.times, all)
      /\ Logged(outLog, d) = v.times /\ Splits(all, v.times, Logged(inLog, d)) /\ n \in 1..Len(script)
      /\ cur # Idle
  BY <1>1, <1>4, <1>5, <1>6 DEF Placed
<1>8. d \in Descriptor /\ d # None /\ current = d /\ inLog \in LogType /\ outLog \in LogType
  BY <1>0, <1>5, <1>7 DEF SessionInv, Item
<1>9. PICK left \in Seq(Nat) : left = Logged(inLog, d)
  BY <1>8, LogTypes
<1>10. all \in Seq(Nat)
  <2>1. script \in Seq(Item)
    BY DEF SessionInv
  <2>2. <<n, Len(script[n].steps)>> \in Nat \X Nat
    BY <2>1, <1>7, ItemParts
  <2>3. AtEnd(W, script, n) \in View
    BY <2>2 DEF AtEnd, Views
  <2> QED BY <2>3, <1>6, ViewParts
<1>11. /\ left # <<>> /\ s1.res = <<Head(left)>> /\ w1.times = Append(v.times, Head(left))
       /\ Head(left) \in Nat /\ Splits(all, w1.times, Tail(left))
  BY <1>2, <1>4, <1>7, <1>9, <1>10, ClockNext
<1>12. ~currentTimeExits(mode = "STRICT", None)
  BY <1>8, <1>9, <1>11 DEF currentTimeExits
<1>13. PICK t \in 0..clock :
            /\ \/ mode = "STOP" /\ currentTimeLive(cur.desc, None, t)
               \/ mode # "STOP" /\ currentTimeLogged(cur.desc, None, t)
               \/ mode = "BEST_EFFORT" /\ currentTimeNew(cur.desc, None, t)
            /\ Does("time", 0, <<t>>)
            /\ UNCHANGED <<networkVars, phase, mode, script, done>>
  BY <1>12 DEF Time
<1>14. /\ outLog' = Extended(outLog, d, t) /\ t = Head(inLog[d]) /\ Logged(inLog, d) # <<>>
       /\ inLog' = [inLog EXCEPT ![d] = Tail(@)]
  <2>1. /\ outLog' = Extended(outLog, cur.desc, t)
        /\ Logged(inLog, cur.desc) # <<>> /\ t = Head(inLog[cur.desc])
        /\ inLog' = [inLog EXCEPT ![cur.desc] = Tail(@)]
    BY <1>0, <1>7, <1>13, TimeSession
  <2> QED BY <2>1, <1>5
<1>15. t \in Nat
  BY DEF SessionInv
<1>16. PICK in2, out2 : in2 = inLog' /\ out2 = outLog'
  OBVIOUS
<1>17. /\ inLog[d] = left /\ Logged(in2, d) = Tail(left) /\ DOMAIN in2 \subseteq DOMAIN inLog
       /\ Logged(out2, d) = Append(v.times, t) /\ LogsKept(inLog, outLog, in2, out2, d)
  <2>1. TakesFirst(inLog, d, in2) /\ out2 = Extended(outLog, d, t)
    BY <1>14, <1>16 DEF TakesFirst
  <2>2. inLog \in LogType /\ outLog \in LogType /\ d \in Descriptor /\ Logged(inLog, d) # <<>>
    BY <1>8, <1>14
  <2>3. /\ inLog[d] = Logged(inLog, d) /\ Logged(in2, d) = Tail(Logged(inLog, d)) /\ DOMAIN in2 \subseteq DOMAIN inLog
        /\ Logged(out2, d) = Append(Logged(outLog, d), t) /\ LogsKept(inLog, outLog, in2, out2, d)
    BY <2>1, <2>2, <1>15, ValueMoves
  <2> QED BY <2>3, <1>7, <1>9
<1>18. PICK s, w : /\ Acted(v, s, w) /\ s.op = "time" /\ s.arg = 0 /\ s.res = <<t>>
                   /\ UNCHANGED networkVars
  BY <1>0, <1>2, <1>5, <1>7, <1>13, <1>14, TimeActs
<1>19. s = s1 /\ w = w1
  <2>1. s \in StepType /\ Doing(bases', v, s, w) /\ bases' = bases
    BY <1>18 DEF Acted, networkVars
  <2>2. s.res = s1.res
    BY <1>11, <1>14, <1>17, <1>18
  <2> QED BY <2>1, <2>2, <1>4, <1>7, <1>18, TimeDetermined
<1>20. StoreLeft(bases', replies', store')
  BY <1>2, <1>18 DEF networkVars
<1>21. /\ Logged(outLog', cur.desc) = w.times
       /\ Splits(AtEnd(W, script, n).times, Logged(outLog', cur.desc), Logged(inLog', cur.desc))
  <2>1. Logged(outLog', d) = w1.times
    BY <1>11, <1>14, <1>16, <1>17
  <2>2. Splits(all, Logged(outLog', d), Logged(inLog', d))
    BY <2>1, <1>11, <1>16, <1>17
  <2> QED BY <2>1, <2>2, <1>5, <1>6, <1>19
<1>22. LogsKept(inLog, outLog, inLog', outLog', cur.desc) /\ DOMAIN inLog' \subseteq DOMAIN inLog
  BY <1>5, <1>16, <1>17
<1>23. Placed(W, n, m, s, w)
  BY <1>4, <1>19
<1>24. ReplaysWith(W)'
  BY <1>1, <1>18, <1>20, <1>21, <1>22, <1>23, ReplayActs
<1> QED BY <1>13, <1>24

\* A descriptor determines how its event action begins.
LEMMA BeginDetermined ==
    ASSUME NEW bs \in Seq(Base), ToldApart(bs), NEW v \in View, NEW d, NEW s, NEW w, NEW s0, NEW w0,
           Beginning(bs, d, v, s, w), Beginning(bs, d, v, s0, w0)
    PROVE  s = s0 /\ w = w0
<1>1. CASE d.type = "Page"
  <2>1. \A r : ~AfterSignal(bs, d, v, s, w, r) /\ ~AfterSignal(bs, d, v, s0, w0, r)
    BY <1>1, SignalParts DEF AfterSignal
  <2>2. AfterPage(d, v, s, w) /\ AfterPage(d, v, s0, w0)
    BY <2>1, SMTT(60) DEF Beginning
  <2> QED BY <2>2 DEF AfterPage
<1>2. CASE d.type # "Page"
  <2>1. PICK r \in Nat : AfterSignal(bs, d, v, s, w, r)
    BY <1>2 DEF Beginning, AfterPage
  <2>2. PICK q \in Nat : AfterSignal(bs, d, v, s0, w0, q)
    BY <1>2 DEF Beginning, AfterPage
  <2>3. /\ r \in 1..Len(v.rs) /\ r <= Len(bs)
        /\ d = Signal(bs[r].url, bs[r].num, bs[r].entries, v.rs[r].rel + 1)
    BY <2>1 DEF AfterSignal
  <2>4. /\ q \in 1..Len(v.rs) /\ q <= Len(bs)
        /\ d = Signal(bs[q].url, bs[q].num, bs[q].entries, v.rs[q].rel + 1)
    BY <2>2 DEF AfterSignal
  <2>5. r \in 1..Len(bs) /\ q \in 1..Len(bs)
    BY <2>3, <2>4, ViewParts
  <2>6. d.url = bs[r].url /\ d.num = bs[r].num
    BY <2>3, SignalParts
  <2>7. d.url = bs[q].url /\ d.num = bs[q].num
    BY <2>4, SignalParts
  <2>8. q = r
    BY <2>5, <2>6, <2>7 DEF ToldApart
  <2> QED BY <2>1, <2>2, <2>8 DEF AfterSignal
<1> QED BY <1>1, <1>2

\* The next event action of the script.
NextAction(sc, tr, n, d, s) == n = Len(tr) + 1 /\ n \in 1..Len(sc) /\ d = sc[n].desc /\ s = sc[n].steps[1]

\* An event action of the script begins.
LEMMA AlongBegins ==
    ASSUME NEW sc \in Seq(Item), NEW tr \in Seq(Item), NEW tr2 \in Seq(Item), NEW W \in Views,
           Ended(tr, sc), \A i \in 1..Len(sc) : Len(sc[i].steps) >= 1,
           NEW n \in Nat, NEW d, NEW s, NextAction(sc, tr, n, d, s), OneActionMore(tr, tr2, d, s),
           NEW w, w = W[<<n, 1>>]
    PROVE  Along(tr2, sc) /\ Now(W, tr2) = w /\ AtEnd(W, tr2, n) = w
<1>1. n = Len(tr) + 1 /\ n \in 1..Len(sc) /\ d = sc[n].desc /\ s = sc[n].steps[1] /\ Len(tr) \in Nat
  BY DEF NextAction
<1>2. Len(tr2) = n /\ tr2[n].desc = d /\ tr2[n].steps = <<s>> /\ \A i \in 1..n : i # n => tr2[i] = sc[i]
  <2>1. /\ Len(tr2) = Len(tr) + 1 /\ \A i \in 1..Len(tr) : tr2[i] = tr[i]
        /\ tr2[Len(tr) + 1].desc = d /\ tr2[Len(tr) + 1].steps = <<s>>
    BY DEF OneActionMore
  <2>2. \A i \in 1..n : i # n => i \in 1..Len(tr)
    BY <1>1
  <2> QED BY <2>1, <2>2, <1>1 DEF Ended
<1>3. Len(tr2[n].steps) = 1 /\ tr2[n].steps[1] = s
  BY <1>2
<1>4. \A i \in 1..n : i \in 1..Len(sc) /\ Len(sc[i].steps) \in Nat
  BY <1>1, ItemParts
<1>5. Begins(tr2[n].steps, sc[n].steps)
  <2>1. \A k \in 1..1 : k = 1
    OBVIOUS
  <2> QED BY <2>1, <1>1, <1>3 DEF Begins
<1>6. ASSUME NEW i \in 1..n
      PROVE  /\ tr2[i].desc = sc[i].desc /\ Len(tr2[i].steps) >= 1 /\ Begins(tr2[i].steps, sc[i].steps)
             /\ i < n => tr2[i] = sc[i]
  <2>1. CASE i = n
    BY <2>1, <1>1, <1>2, <1>3, <1>5
  <2>2. CASE i # n
    BY <2>2, <1>2, <1>4 DEF Begins
  <2> QED BY <2>1, <2>2
<1>7. n <= Len(sc)
  BY <1>1
<1>8. Along(tr2, sc)
  BY <1>2, <1>6, <1>7 DEF Along
<1>9. AtEnd(W, tr2, n) = w
  BY <1>3 DEF AtEnd
<1>10. Now(W, tr2) = AtEnd(W, tr2, n)
  BY <1>1, <1>2, NowIsEnd
<1> QED BY <1>8, <1>9, <1>10

\* The view between two event actions.
LEMMA StartSame ==
    ASSUME NEW tr, NEW sc, Ended(tr, sc), Len(tr) \in Nat, NEW W
    PROVE  Start(W, sc, Len(tr) + 1) = Now(W, tr)
<1>1. CASE Len(tr) = 0
  BY <1>1 DEF Now, Start
<1>2. CASE Len(tr) # 0
  <2>1. Len(tr) \in 1..Len(tr) /\ Len(tr) + 1 # 1 /\ (Len(tr) + 1) - 1 = Len(tr)
    BY <1>2
  <2>2. tr[Len(tr)] = sc[Len(tr)]
    BY <2>1 DEF Ended
  <2> QED BY <2>1, <2>2 DEF Now, Start, AtEnd
<1> QED BY <1>1, <1>2

\* An event action begins in a strict replay.
LEMMA ReplayBegun ==
    ASSUME NetInv, SessionInv, IdentInv, Strict, NEW W \in Views, ReplaysWith(W), NEW v \in View,
           v = Now(W, Trace), NEW d, NEW s, NEW w, Begun(v, d, s, w), MayBegin(d)
    PROVE  ReplaysWith(W)'
<1>0. bases \in Seq(Base) /\ Trace \in Seq(Item) /\ script \in Seq(Item) /\ Len(Trace) \in Nat
  BY TraceFacts DEF NetInv, NetType, SessionInv
<1>1. /\ OneActionMore(Trace, Trace', d, s) /\ Trace' \in Seq(Item) /\ Trace = done
      /\ Beginning(bases, d, v, s, w) /\ Matches(bases, replies', jar', w) /\ w \in View
      /\ UNCHANGED <<bases, store, inLog, outLog, script, done>> /\ Len(replies') = Len(replies)
  BY DEF Begun
<1>2. PICK n \in Nat : n = Len(Trace) + 1
  BY <1>0
<1>3. n \in 1..Len(script) /\ d = script[n].desc
  BY <1>0, <1>1, <1>2 DEF MayBegin
<1>4. Good(bases, script, W) /\ Distinct(script) /\ Ended(Trace, script) /\ StoreLeft(bases, replies, store)
      /\ LogsAlong(inLog, outLog, script, Trace, W)
  BY <1>1 DEF ReplaysWith, ReplayOK
<1>5. \A i \in 1..Len(script) : Len(script[i].steps) >= 1
  BY <1>4 DEF Good, GoodAt
<1>6. PICK s1, w1 : s1 = script[n].steps[1] /\ w1 = W[<<n, 1>>]
  OBVIOUS
<1>7. Beginning(bases, d, v, s1, w1)
  <2>1. Start(W, script, n) = v
    BY <1>0, <1>2, <1>4, StartSame
  <2>2. GoodAt(bases, script, W, n)
    BY <1>3, <1>4 DEF Good
  <2> QED BY <2>1, <2>2, <1>3, <1>6 DEF GoodAt
<1>8. ToldApart(bases)
  <2>1. DOMAIN bases = 1..Len(bases) /\ Compared
    BY <1>0 DEF Strict, Compared
  <2> QED BY <2>1 DEF ToldApart, IdentInv
<1>9. s = s1 /\ w = w1
  BY <1>0, <1>1, <1>7, <1>8, BeginDetermined
<1>10. NextAction(script, Trace, n, d, s) /\ w = W[<<n, 1>>]
  BY <1>2, <1>3, <1>6, <1>9 DEF NextAction
<1>11. PICK tr2 \in Seq(Item) : tr2 = Trace'
  BY <1>1
<1>12. OneActionMore(Trace, tr2, d, s)
  BY <1>1, <1>11
<1>13. Along(tr2, script) /\ Now(W, tr2) = w /\ AtEnd(W, tr2, n) = w
  BY <1>0, <1>4, <1>5, <1>10, <1>12, AlongBegins
<1>14. n = Len(tr2) /\ Len(Trace) <= n /\ n <= Len(Trace) + 1 /\ \A i \in 1..n : i # n => tr2[i] = Trace[i]
  BY <1>0, <1>2, <1>12 DEF OneActionMore
<1>15. w.times = <<>>
  BY <1>0, <1>1, BeginningFacts
<1>16. /\ Logged(outLog, script[n].desc) = <<>>
       /\ Splits(AtEnd(W, script, n).times, Logged(outLog, script[n].desc), Logged(inLog, script[n].desc))
  <2>1. LogAt(inLog, outLog, script, Trace, W, n) /\ ~(n <= Len(Trace))
    BY <1>0, <1>2, <1>3, <1>4 DEF LogsAlong
  <2> QED BY <2>1 DEF LogAt
<1>17. Logged(outLog, script[n].desc) = AtEnd(W, tr2, n).times
  BY <1>13, <1>15, <1>16
<1>18. LogsKept(inLog, outLog, inLog, outLog, script[n].desc)
  BY DEF LogsKept
<1>19. LogsAlong(inLog, outLog, script, tr2, W)
  BY <1>0, <1>3, <1>4, <1>14, <1>16, <1>17, <1>18, LogsAlongDoes
<1>20. StoreLeft(bases, replies', store)
  BY <1>1, <1>4 DEF StoreLeft
<1>21. ReplayOK(bases, replies', jar', store, inLog, outLog, script, tr2, W)
  BY <1>1, <1>4, <1>13, <1>19, <1>20 DEF ReplayOK
<1>22. Ended(done, script)
  BY <1>1, <1>4
<1> QED BY <1>1, <1>11, <1>21, <1>22 DEF ReplaysWith

\* An event action ends in a strict replay.
LEMMA ReplayEnds ==
    ASSUME NetInv, SessionInv, Strict, NEW W \in Views, ReplaysWith(W), End
    PROVE  ReplaysWith(W)'
<1>1. Repeats
  BY RepeatsNow
<1>2. /\ cur # Idle /\ cur.steps = script[Len(Trace)].steps /\ done' = Append(done, cur) /\ cur' = Idle
      /\ UNCHANGED <<networkVars, inLog, outLog, script>>
  BY <1>1 DEF End, Follows
<1>3. /\ Len(Trace) = Len(done) + 1 /\ Trace[Len(done) + 1] = cur /\ Len(done) \in Nat
      /\ cur \in Item /\ script \in Seq(Item) /\ done \in Seq(Item)
  BY <1>2, TraceFacts DEF SessionInv
<1>4. Trace' = Trace
  BY <1>2 DEF Trace
<1>5. Along(Trace, script) /\ Ended(done, script)
  BY DEF ReplaysWith, ReplayOK
<1>6. PICK n \in Nat : n = Len(done) + 1
  BY <1>3
<1>7. n \in 1..Len(script) /\ cur.desc = script[n].desc
  BY <1>3, <1>5, <1>6 DEF Along
<1>8. cur = script[n]
  <2>1. script[n] \in Item /\ cur \in Item /\ cur.steps = script[n].steps
    BY <1>2, <1>3, <1>6, <1>7
  <2> QED BY <2>1, <1>7 DEF Item
<1>9. Ended(done', script)
  <2>1. Len(done') = n /\ done'[n] = cur /\ \A i \in 1..n : i # n => done'[i] = done[i] /\ i \in 1..Len(done)
    BY <1>2, <1>3, <1>6
  <2> QED BY <2>1, <1>5, <1>8 DEF Ended
<1> QED BY <1>2, <1>4, <1>9 DEF ReplaysWith, networkVars

\* A signal arrives, if there were a live reply.
LEMMA ReplayLive ==
    ASSUME NetInv, SessionInv, NEW W \in Views, ReplaysWith(W), NEW r \in DOMAIN replies, LiveSignal(r)
    PROVE  ReplaysWith(W)'
<1>1. PICK new \in Reply, snap \in Snapshot : Delivers(r, new, snap)
  BY LiveFacts
<1>2. NetInv' /\ jar' = jar /\ UNCHANGED <<inLog, outLog, done, cur, script>> /\ replies[r].open
  BY LiveFacts DEF LiveSignal, dataVars, sessionVars, slReadyRead, slFinished, Connected
<1>3. Trace' = Trace /\ store' = store
  BY <1>2 DEF Trace, Idle, LiveSignal, slReadyRead, slFinished, takeSnapshot
<1>4. PICK v \in View : v = Now(W, Trace)
  BY ReplayView
<1>5. /\ Matches(bases, replies, jar, v) /\ StoreLeft(bases, replies, store) /\ bases \in Seq(Base)
      /\ bases' \in Seq(Base) /\ Trace \in Seq(Item) /\ script \in Seq(Item)
  BY <1>2, <1>4, ReplayView DEF NetInv, NetType, SessionInv
<1>6. /\ Matches(bases', replies', jar', v) /\ Stable(bases, bases')
      /\ Len(bases') = Len(bases) /\ Len(replies') = Len(replies)
  BY <1>1, <1>2, <1>5, MatchLive
<1>7. Good(bases', script, W)
  <2>1. Good(bases, script, W)
    BY DEF ReplaysWith, ReplayOK
  <2> QED BY <2>1, <1>5, <1>6, GoodStable
<1>8. StoreLeft(bases', replies', store)
  BY <1>5, <1>6, StoreKept
<1>9. ReplayOK(bases', replies', jar', store, inLog, outLog, script, Trace, W)
  BY <1>4, <1>6, <1>7, <1>8 DEF ReplaysWith, ReplayOK
<1> QED BY <1>2, <1>3, <1>9 DEF ReplaysWith

\* The process that replays starts with what was recorded.
LEMMA ReplayStarts ==
    ASSUME NetInv, NetInv', SessionInv, NEW W \in Views, RecordsWith(W), Restart
    PROVE  ReplaysWith(W)' /\ Whole(W)'
<1>t. PICK tr : tr = Trace
  OBVIOUS
<1>0. bases \in Seq(Base) /\ bases' \in Seq(Base) /\ Len(bases) \in Nat /\ DOMAIN bases = 1..Len(bases)
      /\ tr \in Seq(Item) /\ outLog \in LogType
  BY <1>t, TraceFacts DEF NetInv, NetType, SessionInv
<1>1. /\ cur' = Idle /\ script' = tr /\ done' = <<>> /\ inLog' = outLog /\ outLog' = EmptyLog
      /\ replies' = <<>> /\ jar' = {} /\ Trace' = <<>>
      /\ store' = [u \in Urls |-> {b \in DOMAIN bases : bases[b].url = u}]
      /\ bases' = [b \in DOMAIN bases |-> [bases[b] EXCEPT !.pos = 0]]
  BY <1>t DEF Restart, NetworkRestart, DataRestart, Trace
<1>2. /\ Good(bases, tr, W) /\ Distinct(tr) /\ LogFits(outLog, tr, W) /\ LogOnly(outLog, tr)
      /\ Matches(bases, replies, jar, Now(W, tr)) /\ Len(bases) = Len(replies)
  BY <1>t DEF RecordsWith, RecordOK
<1>3. /\ Len(bases') = Len(bases)
      /\ \A b \in 1..Len(bases) : /\ bases'[b].url = bases[b].url /\ bases'[b].num = bases[b].num
                                  /\ bases'[b].entries = bases[b].entries /\ Len(bases[b].entries) \in Nat
  <2>1. DOMAIN bases' = 1..Len(bases)
    BY <1>0, <1>1
  <2>2. Len(bases') = Len(bases)
    BY <2>1, <1>0
  <2>3. ASSUME NEW b \in 1..Len(bases)
        PROVE  /\ bases'[b].url = bases[b].url /\ bases'[b].num = bases[b].num
               /\ bases'[b].entries = bases[b].entries /\ Len(bases[b].entries) \in Nat
    <3>1. bases[b] \in Base /\ Len(bases[b].entries) \in Nat
      BY <1>0, BaseParts
    <3>2. bases'[b] = [bases[b] EXCEPT !.pos = 0]
      BY <1>0, <1>1
    <3> QED BY <3>1, <3>2 DEF Base
  <2> QED BY <2>2, <2>3
<1>4. Stable(bases, bases')
  BY <1>0, <1>3 DEF Stable
<1>5. Good(bases', tr, W)
  BY <1>0, <1>2, <1>4, GoodStable
<1>6. Along(<<>>, tr) /\ Ended(<<>>, tr)
  BY <1>0 DEF Along, Ended
<1>7. Matches(bases', <<>>, {}, Now(W, <<>>))
  <2>1. Now(W, <<>>) = FirstView
    BY DEF Now, Start
  <2> QED BY <2>1 DEF Matches, FirstView
<1>8. StoreLeft(bases', <<>>, store')
  <2>1. ASSUME NEW u \in Urls
        PROVE  store'[u] = {b \in 1..Len(bases') : bases'[b].url = u /\ b > Len(<<>>)}
    BY <1>0, <1>1, <1>3
  <2> QED BY <2>1 DEF StoreLeft
<1>9. LogsAlong(outLog, EmptyLog, tr, <<>>, W)
  <2>1. ASSUME NEW i \in 1..Len(tr) PROVE LogAt(outLog, EmptyLog, tr, <<>>, W, i)
    <3>1. Logged(EmptyLog, tr[i].desc) = <<>> /\ ~(i <= Len(<<>>))
      BY DEF EmptyLog, Logged
    <3>2. Logged(outLog, tr[i].desc) = AtEnd(W, tr, i).times
      BY <1>2 DEF LogFits
    <3>3. AtEnd(W, tr, i).times \in Seq(Nat)
      <4>1. <<i, Len(tr[i].steps)>> \in Nat \X Nat
        BY <1>0, ItemParts
      <4>2. AtEnd(W, tr, i) \in View
        BY <4>1 DEF AtEnd, Views
      <4> QED BY <4>2, ViewParts
    <3>4. PICK c \in Seq(Nat) : c = AtEnd(W, tr, i).times
      BY <3>3
    <3>5. Splits(c, <<>>, c)
      BY DEF Splits
    <3> QED BY <3>1, <3>2, <3>4, <3>5 DEF LogAt
  <2> QED BY <2>1, <1>2 DEF LogsAlong
<1>10. ReplayOK(bases', <<>>, {}, store', outLog, EmptyLog, tr, <<>>, W)
  BY <1>2, <1>5, <1>6, <1>7, <1>8, <1>9 DEF ReplayOK
<1>11. Len(Now(W, tr).rs) = Len(bases')
  BY <1>2, <1>3 DEF Matches
<1> QED BY <1>1, <1>6, <1>10, <1>11 DEF ReplaysWith, Whole

-----------------------------------------------------------------------------
(* The replay repeats the recording. *)

\* Every step of a strict replay but for the page that goes on where the recording was cut,
\* and for a time that is asked for outside of event actions: it does not exit.
LEMMA ReplayStep ==
    ASSUME NetInv, SessionInv, IdentInv, Strict, ~Beyond, NEW W \in Views, ReplaysWith(W), mode' = "STRICT",
           ~TimeOutside, [Next]_vars
    PROVE  ReplaysWith(W)' /\ phase' = phase
<1>0. NetInv' /\ Compared /\ phase = "replay" /\ mode = "STRICT"
  BY NetStep DEF Strict, Compared
<1>1. PICK v \in View : v = Now(W, Trace)
  BY ReplayView
<1>2. Matches(bases, replies, jar, v)
  BY <1>1, ReplayView
<1>3. ASSUME NEW u \in Urls, Request(u) PROVE ReplaysWith(W)' /\ phase' = phase
  BY <1>0, <1>3, ReplayRequests
<1>4. ASSUME NEW r \in DOMAIN replies, Read(r) \/ Abort(r) PROVE ReplaysWith(W)' /\ phase' = phase
  BY <1>4, ReplayReads DEF Read, Abort
<1>5. CASE Time
  BY <1>5, ReplayTimes
<1>6. ASSUME NEW r \in DOMAIN replies, BeginNetwork(r) PROVE ReplaysWith(W)' /\ phase' = phase
  <2>1. PICK d : d = replies[r].waiting
    OBVIOUS
  <2>2. PICK s, w : Begun(v, d, s, w)
    BY <2>1, <1>0, <1>2, <1>6, SignalBegins
  <2>3. MayBegin(d)
    BY <2>1, <1>6 DEF BeginNetwork
  <2>4. ReplaysWith(W)'
    BY <2>2, <2>3, <1>1, ReplayBegun
  <2> QED BY <2>2, <2>4 DEF Begun
<1>7. CASE BeginPage
  <2>1. PICK s, w, d : Begun(v, d, s, w) /\ MayBegin(d)
    BY <1>0, <1>2, <1>7, PageBegins
  <2>2. ReplaysWith(W)'
    BY <2>1, <1>1, ReplayBegun
  <2> QED BY <2>1, <2>2 DEF Begun
<1>8. CASE End
  BY <1>8, ReplayEnds DEF End
<1>9. ASSUME NEW r \in DOMAIN replies, LiveSignal(r) PROVE ReplaysWith(W)' /\ phase' = phase
  BY <1>9, ReplayLive DEF LiveSignal, sessionVars
<1>10. CASE UNCHANGED vars
  <2>1. Trace' = Trace /\ UNCHANGED <<bases, replies, jar, store, inLog, outLog, script, done, phase>>
    BY <1>10 DEF Trace, vars, networkVars, dataVars, sessionVars, Idle
  <2> QED BY <2>1 DEF ReplaysWith
<1>11. ~Restart /\ ~Relax /\ ~Stop
  BY <1>0 DEF Restart, Relax, Stop
<1> QED BY <1>3, <1>4, <1>5, <1>6, <1>7, <1>8, <1>9, <1>10, <1>11 DEF Next

\* A replay that repeats the recording.
LEMMA ReplayFollows ==
    ASSUME NetInv, SessionInv, NEW W \in Views, ReplaysWith(W)
    PROVE  Follow(W)
<1>1. PICK v \in View : v = Now(W, Trace)
  BY ReplayView
<1>2. Matches(bases, replies, jar, v)
  BY <1>1, ReplayView
<1>3. \A r \in DOMAIN replies : replies[r].base = r
  BY <1>2, MatchTypes
<1> QED BY <1>3 DEF Follow, ReplaysWith, ReplayOK

\* Where the recording was cut, the script is used up.
LEMMA ReplayIsOver ==
    ASSUME NetInv, SessionInv, NEW W \in Views, ReplaysWith(W), Whole(W), Beyond
    PROVE  Over(W)
<1>1. Follow(W)
  BY ReplayFollows
<1>2. cut /\ cur # Idle /\ Len(Trace) = Len(script) /\ cur.steps = script[Len(Trace)].steps /\ AtCut
  BY DEF Beyond, AtCut
<1>3. Trace[Len(Trace)] = cur /\ Len(Trace) \in Nat /\ Len(Trace) >= 1 /\ Trace \in Seq(Item) /\ script \in Seq(Item)
  BY <1>2, TraceFacts DEF SessionInv
<1>4. Now(W, Trace) = AtEnd(W, Trace, Len(Trace)) /\ Now(W, script) = AtEnd(W, script, Len(script))
  BY <1>2, <1>3, NowIsEnd
<1>5. Now(W, Trace) = Now(W, script)
  BY <1>2, <1>3, <1>4 DEF AtEnd
<1>6. Len(replies) = Len(bases)
  BY <1>5, ReplayView DEF Matches, Whole
<1> QED BY <1>1, <1>2, <1>6 DEF Over

\* The bases are kept, but for how far they were read.
LEMMA ReadStable ==
    ASSUME NetInv, NEW r \in DOMAIN replies, read(r)
    PROVE  /\ bases' \in Seq(Base) /\ Len(bases') = Len(bases) /\ Stable(bases, bases')
           /\ UNCHANGED <<replies, store>>
<1>0. PICK q : q = replies[r].base
  OBVIOUS
<1>1. bases \in Seq(Base) /\ q \in 1..Len(bases) /\ bases[q] \in Base
  BY <1>0, SameBases DEF NetInv, NetType
<1>2. NetInv' /\ bases' = [bases EXCEPT ![q] = [bases[q] EXCEPT !.pos = replies[r].size]]
  BY <1>0, ReadInv
<1>3. bases' \in Seq(Base) /\ Len(bases') = Len(bases)
  BY <1>1, <1>2 DEF NetInv, NetType
<1>4. ASSUME NEW b \in 1..Len(bases)
      PROVE  /\ bases'[b].url = bases[b].url /\ bases'[b].num = bases[b].num /\ bases'[b].entries = bases[b].entries
             /\ Len(bases[b].entries) \in Nat
  <2>1. Len(bases[b].entries) \in Nat
    BY <1>1, BaseParts
  <2>2. CASE b = q
    BY <2>1, <2>2, <1>1, <1>2 DEF Base
  <2>3. CASE b # q
    BY <2>1, <2>3, <1>1, <1>2
  <2> QED BY <2>2, <2>3
<1>5. Stable(bases, bases')
  BY <1>1, <1>3, <1>4 DEF Stable
<1> QED BY <1>3, <1>5 DEF read

\* The same when a signal arrives.
LEMMA LiveStable ==
    ASSUME NetInv, SessionInv, NEW r \in DOMAIN replies, LiveSignal(r)
    PROVE  /\ bases' \in Seq(Base) /\ Len(bases') = Len(bases) /\ Stable(bases, bases')
           /\ Len(replies') = Len(replies) /\ UNCHANGED store
<1>0. PICK q : q = replies[r].base
  OBVIOUS
<1>1. /\ bases \in Seq(Base) /\ replies \in Seq(Reply) /\ q \in 1..Len(bases) /\ bases[q] \in Base
      /\ bases[q].entries \in Seq(Snapshot)
  BY <1>0, SameBases, BaseParts DEF NetInv, NetType
<1>2. NetInv' /\ UNCHANGED store /\ \E new \in Reply, snap \in Snapshot : Delivers(r, new, snap)
  BY LiveFacts
<1>3. PICK new \in Reply, snap \in Snapshot : Delivers(r, new, snap)
  BY <1>2
<1>4. PICK f : f = Append(bases[q].entries, snap)
  OBVIOUS
<1>5. PICK base : base = [bases[q] EXCEPT !.entries = f]
  OBVIOUS
<1>6. bases' = [bases EXCEPT ![q] = base] /\ replies' = [replies EXCEPT ![r] = new]
  BY <1>0, <1>3, <1>4, <1>5 DEF Delivers
<1>7. base.entries = f /\ base.url = bases[q].url /\ base.num = bases[q].num
  BY <1>1, <1>5 DEF Base
<1>8. /\ Len(bases[q].entries) <= Len(f) /\ \A k \in 1..Len(bases[q].entries) : f[k] = bases[q].entries[k]
  BY <1>1, <1>4
<1>9. bases' \in Seq(Base) /\ Len(bases') = Len(bases) /\ Len(replies') = Len(replies)
  BY <1>1, <1>2, <1>6 DEF NetInv, NetType
<1>10. ASSUME NEW b \in 1..Len(bases)
       PROVE  /\ bases'[b].url = bases[b].url /\ bases'[b].num = bases[b].num
              /\ Len(bases[b].entries) <= Len(bases'[b].entries)
              /\ \A k \in 1..Len(bases[b].entries) : bases'[b].entries[k] = bases[b].entries[k]
  <2>1. CASE b = q
    BY <2>1, <1>1, <1>6, <1>7, <1>8
  <2>2. CASE b # q
    <3>1. bases'[b] = bases[b] /\ Len(bases[b].entries) \in Nat
      BY <2>2, <1>1, <1>6, BaseParts
    <3> QED BY <3>1
  <2> QED BY <2>1, <2>2
<1>11. Stable(bases, bases')
  BY <1>1, <1>9, <1>10 DEF Stable
<1> QED BY <1>2, <1>9, <1>11

\* A step that leaves the session and the logs alone.
LEMMA OverKept ==
    ASSUME NetInv, SessionInv, NEW W \in Views, Over(W), bases' \in Seq(Base), Len(bases') = Len(bases),
           Stable(bases, bases'), Len(replies') = Len(replies), replies' \in Seq(Reply), UNCHANGED store,
           \A r \in DOMAIN replies : replies'[r].base = replies[r].base,
           UNCHANGED <<inLog, outLog, script, done, cur, cut>>
    PROVE  Over(W)'
<1>1. /\ bases \in Seq(Base) /\ replies \in Seq(Reply) /\ script \in Seq(Item)
      /\ DOMAIN replies' = DOMAIN replies
  BY DEF NetInv, NetType, SessionInv
<1>2. Trace' = Trace /\ (AtCut => AtCut')
  BY DEF Trace, AtCut, Idle
<1>3. Good(bases', script, W)
  BY <1>1, GoodStable DEF Over, Follow
<1>4. StoreLeft(bases', replies', store)
  BY <1>1, StoreKept DEF Over, Follow
<1>5. Follow(W)'
  BY <1>1, <1>2, <1>3, <1>4 DEF Over, Follow
<1> QED BY <1>2, <1>5 DEF Over

\* Where the script is used up nothing is left in the stores: the page that goes on exits as
\* soon as it asks for more.
LEMMA NothingLeft ==
    ASSUME NetInv, SessionInv, Strict, NEW W \in Views, Over(W), cur # Idle
    PROVE  (\A u \in Urls : ~Hit(u)) /\ Logged(inLog, cur.desc) = <<>> /\ current = cur.desc /\ cur.desc # None
<1>1. /\ AtCut /\ StoreLeft(bases, replies, store) /\ LogsAlong(inLog, outLog, script, Trace, W)
      /\ Along(Trace, script) /\ Len(replies) = Len(bases) /\ Len(Trace) = Len(script)
  BY DEF Over, Follow
<1>2. Len(bases) \in Nat
  BY DEF NetInv, NetType
<1>3. ASSUME NEW u \in Urls PROVE ~Hit(u)
  BY <1>1, <1>2 DEF StoreLeft, Hit
<1>4. PICK n \in Nat : n = Len(Trace)
  BY TraceFacts
<1>5. /\ Trace[n] = cur /\ n \in 1..Len(script) /\ n <= Len(Trace) /\ cur.desc = script[n].desc
      /\ cur.steps = script[n].steps /\ script \in Seq(Item)
  BY <1>1, <1>4, TraceFacts DEF AtCut, Along, SessionInv
<1>6. PICK all : all = AtEnd(W, script, n).times
  OBVIOUS
<1>7. AtEnd(W, Trace, n) = AtEnd(W, script, n)
  BY <1>5 DEF AtEnd
<1>8. LogAt(inLog, outLog, script, Trace, W, n)
  BY <1>1, <1>5 DEF LogsAlong
<1>9. PICK d \in Descriptor : d = cur.desc
  BY DEF SessionInv, Item
<1>10. PICK left \in Seq(Nat) : left = Logged(inLog, d)
  <2>1. inLog \in LogType /\ 0 \in Nat
    BY DEF SessionInv
  <2> QED BY <2>1, LogTypes
<1>11. PICK out \in Seq(Nat) : out = Logged(outLog, d)
  <2>1. outLog \in LogType /\ 0 \in Nat
    BY DEF SessionInv
  <2> QED BY <2>1, LogTypes
<1>12. out = all /\ Splits(all, out, left)
  BY <1>5, <1>6, <1>7, <1>8, <1>9, <1>10, <1>11 DEF LogAt
<1>13. Len(left) = 0
  BY <1>10, <1>11, <1>12 DEF Splits
<1>14. left = <<>>
  BY <1>13
<1>15. current = cur.desc /\ cur.desc # None
  BY DEF SessionInv, Strict
<1> QED BY <1>3, <1>9, <1>10, <1>14, <1>15

\* Every step of a strict replay whose script is used up.
LEMMA OverStep ==
    ASSUME NetInv, SessionInv, IdentInv, Strict, NEW W \in Views, Over(W), mode' = "STRICT",
           ~TimeOutside, [Next]_vars
    PROVE  (Over(W)' /\ phase' = phase) \/ (Exit /\ AtCut)
<1>0. /\ phase = "replay" /\ mode = "STRICT" /\ NetInv' /\ Follow(W) /\ Len(Trace) = Len(script)
      /\ Len(done) \in Nat /\ script \in Seq(Item) /\ replies' \in Seq(Reply) /\ replies \in Seq(Reply)
  <2>1. NetInv' /\ Len(done) \in Nat
    BY NetStep, TraceFacts
  <2>2. replies' \in Seq(Reply) /\ replies \in Seq(Reply)
    BY <2>1 DEF NetInv, NetType
  <2> QED BY <2>1, <2>2 DEF Strict, Over, SessionInv
<1>r. ~Restart /\ ~Relax /\ ~Stop
  BY <1>0 DEF Restart, Relax, Stop
<1>k. KeepsOld
  BY <1>r, OldReplies
<1>c. cur # Idle => AtCut /\ Beyond
  BY DEF Over, Beyond
<1>u. ASSUME UNCHANGED <<bases, replies, store, inLog, outLog, script, done, cur, cut>> PROVE Over(W)'
  <2>1. Trace' = Trace /\ (AtCut => AtCut')
    BY <1>u DEF Trace, AtCut, Idle
  <2> QED BY <2>1, <1>u DEF Over, Follow
<1>1. ASSUME NEW u \in Urls, Request(u) PROVE Exit /\ AtCut
  <2>1. cur # Idle
    BY <1>1 DEF Request, MayDo
  <2>2. ~Hit(u)
    BY <2>1, NothingLeft
  <2> QED BY <2>1, <2>2, <1>0, <1>1, <1>c DEF Request, ConstructExact
<1>2. ASSUME NEW r \in DOMAIN replies, Read(r) PROVE Over(W)' /\ phase' = phase
  <2>1. /\ cur # Idle /\ read(r) /\ UNCHANGED <<phase, script, done, inLog, outLog, cut>>
    BY <1>2 DEF Read, MayDo, dataVars, Does
  <2>2. UNCHANGED cur
    BY <1>2, <2>1, <1>c DEF Read, Does
  <2>3. /\ bases' \in Seq(Base) /\ Len(bases') = Len(bases) /\ Stable(bases, bases')
        /\ UNCHANGED <<replies, store>>
    BY <2>1, ReadStable
  <2> QED BY <2>1, <2>2, <2>3, <1>0, OverKept
<1>3. ASSUME NEW r \in DOMAIN replies, Abort(r) PROVE Over(W)' /\ phase' = phase
  <2>1. /\ cur # Idle /\ Release(r) /\ UNCHANGED <<phase, script, done, inLog, outLog, cut>>
    BY <1>3 DEF Abort, MayDo, dataVars, Does
  <2>2. UNCHANGED cur
    BY <1>3, <2>1, <1>c DEF Abort, Does
  <2>3. UNCHANGED <<bases, store>> /\ Len(replies') = Len(replies)
    BY <2>1, <1>0 DEF Release
  <2>4. bases' \in Seq(Base) /\ Stable(bases, bases') /\ Len(bases') = Len(bases)
    BY <2>3, StableSelf DEF NetInv, NetType
  <2>5. \A q \in DOMAIN replies : replies'[q].base = replies[q].base
    BY <1>k DEF KeepsOld
  <2> QED BY <2>1, <2>2, <2>3, <2>4, <2>5, <1>0, OverKept
<1>4. CASE Time
  <2>1. cur # Idle
    BY <1>4 DEF Time, MayDo
  <2>2. Logged(inLog, current) = <<>>
    BY <2>1, NothingLeft
  <2> QED BY <2>1, <2>2, <1>0, <1>4, <1>c DEF Time, currentTimeLogged
<1>5. ASSUME NEW d, MayBegin(d) PROVE FALSE
  BY <1>0, <1>5, TraceFacts DEF MayBegin
<1>6. CASE End
  <2>1. /\ cur # Idle /\ done' = Append(done, cur) /\ cur' = Idle
        /\ UNCHANGED <<bases, replies, store, inLog, outLog, script, phase>>
    BY <1>6 DEF End, networkVars
  <2>2. Trace' = Trace
    BY <2>1 DEF Trace
  <2>3. /\ cur.steps = script[Len(Trace)].steps /\ Along(Trace, script) /\ Ended(done, script)
    BY <2>1, <1>0, <1>c DEF AtCut, Follow
  <2>4. /\ Len(Trace) = Len(done) + 1 /\ Trace[Len(done) + 1] = cur /\ cur \in Item /\ done \in Seq(Item)
    BY <2>1, TraceFacts DEF SessionInv
  <2>5. PICK n \in Nat : n = Len(done) + 1
    BY <1>0
  <2>6. n \in 1..Len(script) /\ cur.desc = script[n].desc
    BY <2>3, <2>4, <2>5, <1>0 DEF Along
  <2>7. cur = script[n]
    <3>1. script[n] \in Item /\ cur \in Item /\ cur.steps = script[n].steps
      BY <2>3, <2>4, <2>5, <2>6, <1>0
    <3> QED BY <3>1, <2>6 DEF Item
  <2>8. Ended(done', script)
    <3>1. Len(done') = n /\ done'[n] = cur /\ \A i \in 1..n : i # n => done'[i] = done[i] /\ i \in 1..Len(done)
      BY <2>1, <2>4, <2>5, <1>0
    <3> QED BY <3>1, <2>3, <2>7 DEF Ended
  <2> QED BY <2>1, <2>2, <2>8 DEF Over, Follow
<1>7. ASSUME NEW r \in DOMAIN replies, LiveSignal(r) PROVE Over(W)' /\ phase' = phase
  <2>1. /\ bases' \in Seq(Base) /\ Len(bases') = Len(bases) /\ Stable(bases, bases')
        /\ Len(replies') = Len(replies) /\ UNCHANGED store
    BY <1>7, LiveStable
  <2>2. UNCHANGED <<inLog, outLog, script, done, cur, cut, phase>>
    BY <1>7 DEF LiveSignal, dataVars, sessionVars
  <2>3. \A q \in DOMAIN replies : replies'[q].base = replies[q].base
    BY <1>k DEF KeepsOld
  <2> QED BY <2>1, <2>2, <2>3, <1>0, OverKept
<1>8. CASE UNCHANGED vars
  BY <1>8, <1>u DEF vars, networkVars, dataVars, sessionVars
<1>9. ~BeginPage /\ \A r \in DOMAIN replies : ~BeginNetwork(r)
  BY <1>5 DEF BeginPage, BeginNetwork
<1> QED BY <1>1, <1>2, <1>3, <1>4, <1>6, <1>7, <1>8, <1>9, <1>r DEF Next

\* A strict replay makes no bases.
LEMMA WholeKept ==
    ASSUME NetInv, SessionInv, Strict, mode' = "STRICT", [Next]_vars, NEW W, Whole(W)
    PROVE  Whole(W)'
<1>0. phase = "replay" /\ mode = "STRICT" /\ Compared
  BY DEF Strict, Compared
<1>1. ~Restart /\ ~Relax /\ ~Stop
  BY <1>0 DEF Restart, Relax, Stop
<1>2. script' = script
  BY <1>1 DEF Next, Request, Read, Abort, Time, TimeOutside, BeginNetwork, BeginPage, Begin, End,
              LiveSignal, Exit, vars, sessionVars
<1>3. Len(bases') = Len(bases)
  <2>1. ASSUME NEW u \in Urls, Request(u) PROVE bases' = bases
    <3>1. Exit \/ \E new \in Reply : Makes(u, new)
      BY <1>0, <2>1, RequestFacts
    <3> QED BY <3>1, <1>0 DEF Exit, networkVars, Makes, MakesLive, MakesReplayed
  <2>2. CASE \A u \in Urls : ~Request(u)
    <3>1. DOMAIN bases' = DOMAIN bases
      BY <2>2, <1>1, OldReplies DEF MakesNone
    <3>2. NetInv'
      BY NetStep
    <3>3. bases \in Seq(Base) /\ bases' \in Seq(Base)
      BY <3>2 DEF NetInv, NetType
    <3> QED BY <3>1, <3>3
  <2> QED BY <2>1, <2>2
<1> QED BY <1>2, <1>3 DEF Whole

\* There are views of what this process has seen, or of what it repeats; and the strict
\* replay exits only outside of event actions or where the recording was cut.
PlaysWith(W) ==
    /\ phase = "record" => RecordsWith(W)
    /\ Strict => Whole(W) /\ (ReplaysWith(W) \/ Over(W))

PlayInv ==
    /\ mode = "STRICT" => phase = "replay" \/ (phase = "exited" /\ (cur = Idle \/ AtCut))
    /\ \E W \in Views : PlaysWith(W)

\* The views of a process that has done nothing.
LEMMA RecordNothing ==
    ASSUME NEW W
    PROVE  RecordOK(<<>>, <<>>, {}, EmptyLog, <<>>, W)
<1>1. Now(W, <<>>) = FirstView
  BY DEF Now, Start
<1>2. Good(<<>>, <<>>, W) /\ Distinct(<<>>) /\ PagesNumbered(<<>>) /\ Heard(<<>>, <<>>, FirstView)
  BY DEF Good, Distinct, PagesNumbered, Heard
<1>3. Matches(<<>>, <<>>, {}, FirstView)
  BY DEF Matches, FirstView
<1>4. LogFits(EmptyLog, <<>>, W) /\ LogOnly(EmptyLog, <<>>)
  BY DEF LogFits, LogOnly, EmptyLog
<1> QED BY <1>1, <1>2, <1>3, <1>4 DEF RecordOK

\* PlayInv holds at first.
LEMMA InitPlay == Init => PlayInv
<1> SUFFICES ASSUME Init PROVE PlayInv
  OBVIOUS
<1>1. PICK W : W = [x \in Nat \X Nat |-> FirstView]
  OBVIOUS
<1>2. FirstView \in View
  BY DEF FirstView, View
<1>3. W \in Views
  BY <1>1, <1>2 DEF Views
<1>4. /\ bases = <<>> /\ replies = <<>> /\ jar = {} /\ outLog = EmptyLog /\ Trace = <<>>
      /\ phase = "record" /\ mode = "STOP"
  BY DEF Init, NetworkInit, DataInit, Trace
<1>5. RecordsWith(W)
  BY <1>4, RecordNothing DEF RecordsWith
<1> QED BY <1>3, <1>4, <1>5 DEF PlayInv, PlaysWith, Strict

\* Every step keeps PlayInv.
LEMMA PlayStep ==
    ASSUME NetInv, SessionInv, IdentInv, PlayInv, [Next]_vars
    PROVE  PlayInv'
<1>0. NetInv' /\ SessionInv'
  BY NetStep, SessionStep
<1>0w. PICK W \in Views : PlaysWith(W)
  BY DEF PlayInv
<1>1. /\ phase = "record" => RecordsWith(W)
      /\ Strict => Whole(W) /\ (ReplaysWith(W) \/ Over(W))
  BY <1>0w DEF PlaysWith
<1>2. CASE Restart
  <2>1. phase = "record" /\ phase' = "replay" /\ mode' = "STRICT"
    BY <1>2 DEF Restart
  <2>2. ReplaysWith(W)' /\ Whole(W)'
    BY <2>1, <1>0, <1>1, <1>2, ReplayStarts
  <2> QED BY <2>1, <2>2 DEF PlayInv, PlaysWith
<1>3. CASE ~Restart /\ phase' = "record"
  <2>1. phase = "record"
    BY <1>3 DEF Next, Request, Read, Abort, Time, TimeOutside, BeginNetwork, BeginPage, Begin, End,
                LiveSignal, Relax, Stop, Exit, vars, sessionVars
  <2>2. \E W2 \in Views : RecordsWith(W2)'
    BY <2>1, <1>1, <1>3, RecordStep
  <2>3. mode' = "STOP"
    BY <1>0, <1>3 DEF SessionInv
  <2> QED BY <2>2, <2>3, <1>3 DEF PlayInv, PlaysWith, Strict
<1>4. CASE ~Restart /\ phase' # "record" /\ mode' = "STRICT"
  <2>1. mode = "STRICT"
    BY <1>4 DEF Next, Request, Read, Abort, Time, TimeOutside, BeginNetwork, BeginPage, Begin, End,
                LiveSignal, Relax, Stop, Exit, vars, sessionVars
  <2>2. CASE phase # "replay"
    <3>1. phase = "exited" /\ (cur = Idle \/ AtCut)
      BY <2>1, <2>2 DEF PlayInv
    <3>2. UNCHANGED <<phase, mode, cur, cut, script, done>>
      BY <3>1 DEF Next, Request, Read, Abort, MayDo, Time, TimeOutside, BeginNetwork, BeginPage, MayBegin,
                  End, LiveSignal, Restart, Relax, Stop, Strict, vars, sessionVars
    <3>3. AtCut => AtCut'
      BY <3>2 DEF AtCut, Trace, Idle
    <3> QED BY <3>1, <3>2, <3>3, <1>1 DEF PlayInv, PlaysWith, Strict
  <2>3. CASE phase = "replay"
    <3>1. Strict /\ Whole(W)'
      BY <2>1, <2>3, <1>1, <1>4, WholeKept DEF Strict
    <3>2. CASE TimeOutside
      BY <3>2, <1>1, <1>4 DEF TimeOutside, Exit, PlayInv, PlaysWith, Strict
    <3>3. CASE ~TimeOutside /\ ReplaysWith(W) /\ ~Beyond
      <4>1. ReplaysWith(W)' /\ phase' = phase
        BY <3>1, <3>3, <1>4, ReplayStep
      <4> QED BY <4>1, <3>1, <2>3 DEF PlayInv, PlaysWith
    <3>4. CASE ~TimeOutside /\ Over(W)
      <4>1. (Over(W)' /\ phase' = phase) \/ (Exit /\ AtCut)
        BY <3>1, <3>4, <1>4, OverStep
      <4>2. CASE Over(W)' /\ phase' = phase
        BY <4>2, <3>1, <2>3 DEF PlayInv, PlaysWith
      <4>3. CASE Exit /\ AtCut
        <5>1. phase' = "exited" /\ AtCut'
          BY <4>3 DEF Exit, AtCut, Trace, Idle
        <5> QED BY <5>1, <1>1 DEF PlayInv, PlaysWith, Strict
      <4> QED BY <4>1, <4>2, <4>3
    <3>5. Beyond /\ ReplaysWith(W) => Over(W)
      BY <3>1, <1>1, ReplayIsOver
    <3> QED BY <3>1, <3>2, <3>3, <3>4, <3>5, <1>1
  <2> QED BY <2>2, <2>3
<1>5. CASE phase' # "record" /\ mode' # "STRICT"
  BY <1>1, <1>5 DEF PlayInv, PlaysWith, Strict
<1> QED BY <1>2, <1>3, <1>4, <1>5

\* PlayInv holds in every state.
LEMMA PlayAlways == Spec => [](NetInv /\ SessionInv /\ IdentInv /\ PlayInv)
<1>1. Init => NetInv /\ SessionInv /\ IdentInv /\ PlayInv
  <2>1. Init => IdentInv
    BY DEF Init, NetworkInit, IdentInv
  <2> QED BY <2>1, InitNetInv, InitPlay
<1>2. NetInv /\ SessionInv /\ IdentInv /\ PlayInv /\ [Next]_vars => (NetInv /\ SessionInv /\ IdentInv /\ PlayInv)'
  BY NetStep, SessionStep, IdentStep, PlayStep
<1> QED BY <1>1, <1>2, PTL DEF Spec

\* A strict replay repeats the recording, for every page, every order of signals and every
\* number of replies and event actions: it releases the same signals, and the page reads the
\* same bytes, cookies and times (network.cpp, QNetworkReplyControllableFactoryReplay::construct;
\* datalog.cpp, TimeProviderReplay::currentTime).
THEOREM ReplayRepeats == Spec => []StrictReplayRepeats
<1>1. SessionInv /\ PlayInv => StrictReplayRepeats
  <2> SUFFICES ASSUME SessionInv, PlayInv, Strict PROVE Repeats
    BY DEF StrictReplayRepeats
  <2>1. PICK W \in Views : PlaysWith(W)
    BY DEF PlayInv
  <2>2. ReplaysWith(W) \/ Follow(W)
    BY <2>1 DEF PlaysWith, Over
  <2> QED BY <2>2, RepeatsNow
<1> QED BY <1>1, PlayAlways, PTL

\* The next event action of the script waits for its turn.
LEMMA NextWaits ==
    ASSUME NetInv, SessionInv, IdentInv, Strict, NEW W \in Views, ReplaysWith(W), cur = Idle,
           NEW d, Len(done) < Len(script), d = script[Len(done) + 1].desc
    PROVE  d.type = "Page" \/ d \in Waiting
<1>0. PICK v \in View : v = Now(W, Trace)
  BY ReplayView
<1>1. /\ Matches(bases, replies, jar, v) /\ Good(bases, script, W) /\ Ended(done, script)
      /\ Trace = done /\ Len(done) \in Nat /\ script \in Seq(Item) /\ Compared
  BY <1>0, TraceFacts DEF ReplaysWith, ReplayOK, SessionInv, Strict, Compared
<1>2. PICK n \in Nat : n = Len(done) + 1
  BY <1>1
<1>3. n \in 1..Len(script)
  BY <1>1, <1>2
<1>4. Beginning(bases, d, v, script[n].steps[1], W[<<n, 1>>])
  <2>1. GoodAt(bases, script, W, n)
    BY <1>1, <1>3 DEF Good
  <2>2. Start(W, script, n) = v
    BY <1>0, <1>1, <1>2, StartSame
  <2> QED BY <2>1, <2>2, <1>2 DEF GoodAt
<1>5. CASE AfterPage(d, v, script[n].steps[1], W[<<n, 1>>])
  BY <1>5 DEF AfterPage
<1>6. CASE \E r \in Nat : AfterSignal(bases, d, v, script[n].steps[1], W[<<n, 1>>], r)
  <2>1. PICK r \in Nat : AfterSignal(bases, d, v, script[n].steps[1], W[<<n, 1>>], r)
    BY <1>6
  <2>2. PICK e : e = bases[r].entries
    OBVIOUS
  <2>3. /\ r \in 1..Len(v.rs) /\ v.rs[r].open /\ v.rs[r].rel + 1 <= Len(e)
        /\ d = Signal(bases[r].url, bases[r].num, e, v.rs[r].rel + 1)
    BY <2>1, <2>2 DEF AfterSignal
  <2>4. /\ r \in 1..Len(replies) /\ r \in DOMAIN replies /\ r \in 1..Len(bases) /\ replies[r].base = r
        /\ replies[r] \in Reply /\ Alike(replies[r], bases[r], jar, r, v.rs[r]) /\ v.rs[r] \in Look
        /\ bases \in Seq(Base)
    BY <2>3, <1>1, MatchTypes
  <2>5. e \in Seq(Snapshot) /\ Len(e) \in Nat
    BY <2>2, <2>4, BaseParts
  <2>6. replies[r].open /\ Released(replies[r], e) = v.rs[r].rel
    BY <2>2, <2>3, <2>4 DEF Alike
  <2>7. QueueOK(replies[r], e) /\ NumberOK(replies[r], e)
    <3>1. ReplyOK(replies[r], bases[r])
      BY <2>4, SameBases
    <3> QED BY <3>1, <2>2, <2>6 DEF ReplyOK
  <2>8. replies[r].queue # <<>>
    <3>1. Len(replies[r].queue) <= Len(e)
      BY <2>7 DEF QueueOK
    <3>2. Released(replies[r], e) \in Nat /\ Released(replies[r], e) + Len(replies[r].queue) = Len(e)
          /\ Len(replies[r].queue) \in Nat
      BY <3>1, <2>4, <2>5, ReleasedCount
    <3>3. Len(replies[r].queue) # 0
      BY <3>2, <2>3, <2>5, <2>6, SMTT(60)
    <3> QED BY <3>3
  <2>9. replies[r].waiting = Signal(replies[r].url, replies[r].num, e, v.rs[r].rel + 1)
    BY <2>6, <2>7, <2>8 DEF NumberOK
  <2>10. replies[r].url = bases[r].url /\ replies[r].num = bases[r].num
    BY <2>4, <1>1 DEF IdentInv
  <2>11. replies[r].waiting = d /\ d # None
    <3>1. replies[r].waiting = d
      BY <2>3, <2>9, <2>10
    <3>2. d.type = "Network"
      BY <2>3, SignalParts
    <3> QED BY <3>1, <3>2 DEF None
  <2> QED BY <2>4, <2>11 DEF Waiting
<1> QED BY <1>4, <1>5, <1>6 DEF Beginning

\* The next event action of a strict replay is one of the page or waits already, and all that
\* the page repeats is found: every recorded reply is in the store and every time in the log.
\* The replay ends early only by a time that is asked for outside of event actions, or after
\* all that was recorded of an event action the recording was saved in (datalog.cpp,
\* TimeProviderReplay::currentTime; network.cpp, construct; Record/main.cpp, snapshotState).
THEOREM ReplayGoesOn == Spec => []StrictReplayGoesOn
<1>1. NetInv /\ SessionInv /\ IdentInv /\ PlayInv => StrictReplayGoesOn
  <2> SUFFICES ASSUME NetInv, SessionInv, IdentInv, PlayInv PROVE StrictReplayGoesOn
    OBVIOUS
  <2>1. mode = "STRICT" /\ phase = "exited" => cur = Idle \/ AtCut
    BY DEF PlayInv
  <2>2. ASSUME Strict, cur = Idle, Len(done) < Len(script), NEW d, d = script[Len(done) + 1].desc
        PROVE  d.type = "Page" \/ d \in Waiting
    <3>w. PICK W \in Views : PlaysWith(W)
      BY DEF PlayInv
    <3>1. ReplaysWith(W) \/ Over(W)
      BY <2>2, <3>w DEF PlaysWith
    <3>2. Len(Trace) = Len(done) /\ Len(done) \in Nat /\ Len(script) \in Nat
      BY <2>2, TraceFacts DEF SessionInv
    <3>3. ReplaysWith(W)
      BY <3>1, <3>2, <2>2 DEF Over
    <3> QED BY <3>3, <2>2, NextWaits
  <2> QED BY <2>1, <2>2 DEF StrictReplayGoesOn
<1> QED BY <1>1, PlayAlways, PTL

\* The log of an event action that was replayed.
LEMMA LoggedAgain ==
    ASSUME SessionInv, NEW W \in Views, Follow(W), NEW i \in 1..Len(done)
    PROVE  /\ i \in 1..Len(script) /\ done[i] = script[i]
           /\ Logged(outLog, script[i].desc) = AtEnd(W, script, i).times
           /\ AtEnd(W, script, i).times = FlattenSeq(TimesOf(script[i].steps))
           /\ Splits(AtEnd(W, script, i).times, Logged(outLog, script[i].desc), Logged(inLog, script[i].desc))
<1>1. /\ Along(Trace, script) /\ Ended(done, script) /\ Good(bases, script, W)
      /\ LogsAlong(inLog, outLog, script, Trace, W)
  BY DEF Follow
<1>2. Len(done) \in Nat /\ Len(Trace) \in Nat /\ Len(script) \in Nat /\ Trace[i] = done[i] /\ i <= Len(Trace)
  <2>1. script \in Seq(Item) /\ Trace \in Seq(Item) /\ Len(done) \in Nat
    BY TraceFacts DEF SessionInv
  <2>2. CASE cur = Idle
    BY <2>1, <2>2, TraceFacts
  <2>3. CASE cur # Idle
    BY <2>1, <2>3, TraceFacts
  <2> QED BY <2>1, <2>2, <2>3
<1>3. i \in 1..Len(script) /\ done[i] = script[i]
  BY <1>1, <1>2 DEF Along, Ended
<1>4. LogAt(inLog, outLog, script, Trace, W, i) /\ GoodAt(bases, script, W, i)
  BY <1>1, <1>3 DEF LogsAlong, Good
<1>5. AtEnd(W, Trace, i) = AtEnd(W, script, i)
  BY <1>2, <1>3 DEF AtEnd
<1>6. /\ Logged(outLog, script[i].desc) = AtEnd(W, script, i).times
      /\ Splits(AtEnd(W, script, i).times, Logged(outLog, script[i].desc), Logged(inLog, script[i].desc))
  BY <1>2, <1>4, <1>5 DEF LogAt
<1>7. AtEnd(W, script, i).times = FlattenSeq(TimesOf(script[i].steps))
  BY <1>4 DEF GoodAt, AtEnd
<1> QED BY <1>3, <1>6, <1>7

\* A strict replay writes what it read: replies are matched in the order of the recording,
\* and the times of every event action that was replayed are logged again, in their order.
THEOREM ReplayReplayed == Spec => []ReplayCanBeReplayed
<1>1. NetInv /\ SessionInv /\ PlayInv => ReplayCanBeReplayed
  <2> SUFFICES ASSUME NetInv, SessionInv, PlayInv, Strict
               PROVE  /\ \A r \in DOMAIN replies : replies[r].base = r
                      /\ Len(done) = Len(script) => \A d \in DOMAIN inLog : inLog[d] = <<>>
                      /\ \A i \in 1..Len(done) :
                           Logged(outLog, done[i].desc) =
                               FlattenSeq([j \in DOMAIN script[i].steps |->
                                   IF script[i].steps[j].op = "time" THEN script[i].steps[j].res ELSE <<>>])
    BY DEF ReplayCanBeReplayed
  <2>w. PICK W \in Views : PlaysWith(W)
    BY DEF PlayInv
  <2>1. Follow(W)
    BY <2>w, ReplayFollows DEF PlaysWith, Over
  <2>2. \A r \in DOMAIN replies : replies[r].base = r
    BY <2>1 DEF Follow
  <2>3. ASSUME Len(done) = Len(script), NEW d \in DOMAIN inLog PROVE inLog[d] = <<>>
    <3>1. PICK i \in 1..Len(script) : script[i].desc = d
      BY <2>1 DEF Follow, LogsAlong, LogOnly
    <3>2. /\ Logged(outLog, d) = AtEnd(W, script, i).times
          /\ Splits(AtEnd(W, script, i).times, Logged(outLog, d), Logged(inLog, d))
      BY <3>1, <2>1, <2>3, LoggedAgain
    <3>3. PICK left : left = Logged(inLog, d)
      OBVIOUS
    <3>4. left = inLog[d] /\ left \in Seq(Nat) /\ Logged(outLog, d) \in Seq(Nat)
      <4>1. d \in Descriptor
        <5>1. script \in Seq(Item)
          BY DEF SessionInv
        <5>2. script[i] \in Item
          BY <5>1, ItemParts
        <5> QED BY <5>2, <3>1 DEF Item
      <4>2. Logged(inLog, d) \in Seq(Nat) /\ Logged(outLog, d) \in Seq(Nat)
        <5>1. inLog \in LogType /\ outLog \in LogType /\ 0 \in Nat
          BY DEF SessionInv
        <5> QED BY <5>1, <4>1, LogTypes
      <4> QED BY <4>2, <3>3, <2>3 DEF Logged
    <3>5. PICK out \in Seq(Nat) : out = Logged(outLog, d)
      BY <3>4
    <3>6. Splits(out, out, left)
      BY <3>2, <3>3, <3>5
    <3>7. Len(left) = 0
      BY <3>4, <3>6 DEF Splits
    <3> QED BY <3>4, <3>7
  <2>4. ASSUME NEW i \in 1..Len(done)
        PROVE  Logged(outLog, done[i].desc) =
                   FlattenSeq([j \in DOMAIN script[i].steps |->
                       IF script[i].steps[j].op = "time" THEN script[i].steps[j].res ELSE <<>>])
    <3>1. Logged(outLog, done[i].desc) = FlattenSeq(TimesOf(script[i].steps))
      BY <2>1, LoggedAgain
    <3> QED BY <3>1 DEF TimesOf
  <2> QED BY <2>2, <2>3, <2>4
<1> QED BY <1>1, PlayAlways, PTL

=============================================================================
