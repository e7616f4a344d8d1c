--------------------------- MODULE NetworkReplies ---------------------------
(***************************************************************************)
(* The replies to network requests of one browser process, recorded or     *)
(* replayed (QNetworkReplyHandler.cpp, Replay/network.cpp).                *)
(*                                                                         *)
(* A QNetworkReplyControllable keeps the signals of a reply in a queue, as *)
(* snapshots of the state of the reply when the signal came, and releases  *)
(* them one by one: each is an event action of its own.  A live reply      *)
(* fills the queue from the network, a replayed one from the snapshots of  *)
(* a recorded reply.  Bytes are counted, headers and cookies are those of  *)
(* the recorded reply they belong to.                                      *)
(***************************************************************************)
EXTENDS Integers, Sequences, FiniteSets, SequencesExt

CONSTANTS
    Urls,           \* the URLs the page can request
    Score(_, _),    \* FuzzyUrlMatcher::score of two different URLs
    MaxReplies,     \* bound: requests of one process
    MaxSignals      \* bound: signals of one live reply

ASSUME NetworkAssumption ==
    /\ MaxReplies \in Nat
    /\ MaxSignals \in Nat
    /\ \A u, v \in Urls : Score(u, v) \in Nat

VARIABLES
    bases,      \* QNetworkReplyInitialSnapshot objects, live ones in order of construction
    replies,    \* QNetworkReplyControllable objects in order of construction
    store,      \* QNetworkReplyControllableFactoryReplay::m_snapshots: indices of bases by URL.
                \* A list is filled in the order of the file, so that its first is the smallest.
    nextNum,    \* QNetworkReplyInitialSnapshot::m_nextSameUrlSequenceNumber
    jar,        \* the cookie jar: bases whose cookies were written
    chain       \* happens-before arcs added by replies

networkVars == <<bases, replies, store, nextNum, jar, chain>>

None == [type |-> "none", url |-> "none", num |-> 0, seq |-> 0]

\* ULONG_MAX, "the last network event in this sequence"
FinalNumber == MaxSignals + 1

Network(u, n, s) == [type |-> "Network", url |-> u, num |-> n, seq |-> s]

NetworkInit ==
    /\ bases = <<>>
    /\ replies = <<>>
    /\ store = [u \in Urls |-> {}]
    /\ nextNum = [u \in Urls |-> 0]
    /\ jar = {}
    /\ chain = {}

(* The process that replays what this process recorded: serialize and       *)
(* deserialize keep the snapshots, but not how far the stream was read.     *)
(* Its cookie jar is empty: cookies of the option -cookie of the recorder,  *)
(* which no reply wrote, are in neither jar.                                *)
NetworkRestart ==
    /\ bases' = [b \in DOMAIN bases |-> [bases[b] EXCEPT !.pos = 0]]
    /\ replies' = <<>>
    /\ store' = [u \in Urls |-> {b \in DOMAIN bases : bases[b].url = u}]
    /\ nextNum' = [u \in Urls |-> 0]
    /\ jar' = {}
    /\ chain' = {}

-----------------------------------------------------------------------------
(* The queue of a reply. *)

scheduleNextSnapshotUpdate(r) ==
    IF r.waiting # None \/ r.queue = <<>>
    THEN r
    ELSE LET last == Head(r.queue).signal = "FINISHED"
         IN  [r EXCEPT !.waiting = Network(r.url, r.num, IF last THEN FinalNumber ELSE r.seq),
                       !.seq = IF last THEN @ ELSE @ + 1]

enqueueSnapshot(r, snapshot) ==
    scheduleNextSnapshotUpdate([r EXCEPT !.queue = Append(@, snapshot)])

\* detachFromReply: the timer is stopped and the queue is cleared; a live reply is
\* disconnected from the network.
release(r) == [r EXCEPT !.waiting = None, !.queue = <<>>, !.open = FALSE]

\* The constructor, with the first snapshot of the base as the current one.
Controllable(u, b, num, size, creator) ==
    [url |-> u, base |-> b, num |-> num, queue |-> <<>>, seq |-> 0, waiting |-> None,
     size |-> size, open |-> TRUE, live |-> FALSE, last |-> 0, creator |-> creator]

-----------------------------------------------------------------------------
(* Construction.  `id' is the event action that makes the request. *)

Live(u, id) ==
    LET base == [url |-> u, num |-> nextNum[u], pos |-> 0, entries |-> <<>>]
    IN  /\ bases' = Append(bases, base)
        /\ nextNum' = [nextNum EXCEPT ![u] = @ + 1]
        /\ replies' = Append(replies,
               [Controllable(u, Len(bases) + 1, base.num, 0, id) EXCEPT !.live = TRUE])
        /\ UNCHANGED <<store, jar, chain>>

\* The first of the signals is scheduled, the others wait behind it.
enqueueAll(r, snapshots) == scheduleNextSnapshotUpdate([r EXCEPT !.queue = snapshots])

\* Mutant: a replayed reply gets a number of its own.
ReplayedRenumbered(u, id, b) ==
    /\ replies' = Append(replies, enqueueAll(Controllable(u, b, 0, 0, id), bases[b].entries))
    /\ UNCHANGED <<bases, nextNum, jar, chain>>

\* A reply that is replayed has all its signals in the queue from the start, and the
\* number of the recorded reply, but the URL of the request.
Replayed(u, id, b) ==
    /\ replies' = Append(replies,
           enqueueAll(Controllable(u, b, bases[b].num, 0, id), bases[b].entries))
    /\ UNCHANGED <<bases, nextNum, jar, chain>>

\* The URLs with the best score.  The first of them in the hash map is taken, which is any.
\* A score of 0 is no match.
FuzzyMatches(u) ==
    LET candidates == {v \in Urls : store[v] # {} /\ Score(u, v) > 0}
    IN  {v \in candidates : \A w \in candidates : Score(u, w) <= Score(u, v)}

Hit(u) == store[u] # {}

\* Mutant: the list is used from its end.
ConstructExactLast(u, id) ==
    /\ Hit(u)
    /\ Replayed(u, id, Max(store[u]))
    /\ store' = [store EXCEPT ![u] = @ \ {Max(@)}]

ConstructExact(u, id) ==
    /\ Hit(u)
    /\ Replayed(u, id, Min(store[u]))
    /\ store' = [store EXCEPT ![u] = @ \ {Min(@)}]

\* Mutant: the snapshot that was found stays in its list.
ConstructFuzzyKeeping(u, id) ==
    /\ ~Hit(u)
    /\ \E v \in FuzzyMatches(u) : Replayed(u, id, Min(store[v]))
    /\ UNCHANGED store

ConstructFuzzy(u, id) ==
    /\ ~Hit(u)
    /\ \E v \in FuzzyMatches(u) :
         /\ Replayed(u, id, Min(store[v]))
         /\ store' = [store EXCEPT ![v] = @ \ {Min(@)}]

ConstructUnmatched(u, id) ==
    /\ ~Hit(u)
    /\ FuzzyMatches(u) = {}
    /\ Live(u, id)

-----------------------------------------------------------------------------
(* The network delivers a signal of a live reply.  The snapshot is taken now, *)
(* whenever it is released.  Qt announces bytes by readyRead.                 *)

takeSnapshot(r, signal, n) ==
    LET b == replies[r].base
        entries == bases[b].entries
        size == (IF entries = <<>> THEN 0 ELSE entries[Len(entries)].size) + n
        snapshot == [signal |-> signal, size |-> size]
    IN  /\ bases' = [bases EXCEPT ![b].entries = Append(@, snapshot)]
        /\ replies' = [replies EXCEPT ![r] = enqueueSnapshot(@, snapshot)]
        /\ UNCHANGED <<store, nextNum, jar, chain>>

Connected(r) ==
    LET entries == bases[replies[r].base].entries
    IN  /\ replies[r].live /\ replies[r].open
        /\ \A i \in DOMAIN entries : entries[i].signal # "FINISHED"

slReadyRead(r) ==
    /\ Connected(r)
    /\ Len(bases[replies[r].base].entries) + 1 < MaxSignals
    /\ takeSnapshot(r, "READY_READ", 1)

slFinished(r) ==
    /\ Connected(r)
    /\ takeSnapshot(r, "FINISHED", 0)

-----------------------------------------------------------------------------
(* The event action `id' releases the first signal of reply r. *)

\* Mutant: m_lastNetworkEventAction is not set.
updateSnapshotUnchained(r, id) ==
    LET reply == replies[r]
        taken == [reply EXCEPT !.size = Head(reply.queue).size, !.queue = Tail(@), !.waiting = None]
    IN  /\ reply.waiting # None
        /\ jar' = jar \cup {reply.base}
        /\ chain' = chain \cup {<<reply.creator, id>>}
        /\ replies' = [replies EXCEPT ![r] = scheduleNextSnapshotUpdate(taken)]
        /\ UNCHANGED <<bases, store, nextNum>>

updateSnapshot(r, id) ==
    LET reply == replies[r]
        taken == [reply EXCEPT !.last = id, !.size = Head(reply.queue).size,
                               !.queue = Tail(@), !.waiting = None]
    IN  /\ reply.waiting # None
        /\ jar' = IF reply.last = 0 THEN jar \cup {reply.base} ELSE jar
        /\ chain' = chain \cup {<<IF reply.last # 0 THEN reply.last ELSE reply.creator, id>>}
        /\ replies' = [replies EXCEPT ![r] = scheduleNextSnapshotUpdate(taken)]
        /\ UNCHANGED <<bases, store, nextNum>>

bytesAvailable(r) == replies[r].size - bases[replies[r].base].pos

\* The handler reads what the current snapshot says is available.
read(r) ==
    /\ replies[r].open
    /\ bases' = [bases EXCEPT ![replies[r].base].pos = @ + bytesAvailable(r)]
    /\ UNCHANGED <<replies, store, nextNum, jar, chain>>

\* The handler gives the reply up, at its end or earlier.
Release(r) ==
    /\ replies[r].open
    /\ replies' = [replies EXCEPT ![r] = release(@)]
    /\ UNCHANGED <<bases, store, nextNum, jar, chain>>

Waiting == {replies[r].waiting : r \in DOMAIN replies} \ {None}

=============================================================================
