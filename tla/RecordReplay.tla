---------------------------- MODULE RecordReplay ----------------------------
(***************************************************************************)
(* A recording and the replay of its inputs: a page runs in event actions, *)
(* makes requests, reads replies and the clock; the process ends and       *)
(* writes its logs; a second process replays them.  Whatever the page does *)
(* in the recording it does again in the replay, as long as it sees the    *)
(* same inputs.  After the schedule relaxed the replay it does anything.   *)
(***************************************************************************)
EXTENDS NetworkReplies, DataLog

CONSTANTS
    MaxActions,     \* bound: event actions of one process
    MaxSteps,       \* bound: what the page does in a recording
    MaxFree,        \* bound: what the page does in a replay that was relaxed
    MaxStrict       \* bound: event actions before the replay is relaxed

ASSUME RecordReplayAssumption == {MaxActions, MaxSteps, MaxFree, MaxStrict} \subseteq Nat

VARIABLES
    phase,      \* "record", "replay", "exited": std::exit(1) in the replay
    mode,       \* the ReplayMode of the providers; the two best effort modes are one here
    script,     \* the recorded event actions and what the page did and saw in them
    done,       \* the same of this process
    cur,        \* the running event action, or Idle
    taken,      \* what the page has done in this process
    cut         \* the recording was saved in the middle of its last event action

sessionVars == <<phase, mode, script, done, cur, taken, cut>>
vars == <<networkVars, dataVars, sessionVars>>

Page(n) == [type |-> "Page", url |-> "none", num |-> n, seq |-> 0]

Idle == [desc |-> None, steps |-> <<>>]

Step(op, arg, res) == [op |-> op, arg |-> arg, res |-> res]

Init ==
    /\ NetworkInit
    /\ DataInit(None)
    /\ phase = "record" /\ mode = "STOP"
    /\ script = <<>> /\ done = <<>> /\ cur = Idle /\ taken = 0 /\ cut = FALSE

-----------------------------------------------------------------------------
(* What the page does. *)

\* The event actions of this process, the running one included
Trace == IF cur = Idle THEN done ELSE Append(done, cur)

\* So far this process has repeated the recorded one.
Repeats ==
    /\ Len(Trace) <= Len(script)
    /\ \A i \in 1..Len(done) : done[i] = script[i]
    /\ cur # Idle => /\ cur.desc = script[Len(Trace)].desc
                     /\ IsPrefix(cur.steps, script[Len(Trace)].steps)

Strict == phase = "replay" /\ mode = "STRICT"

Follows == Strict /\ Repeats

Recorded(op, arg) ==
    LET steps == script[Len(Trace)].steps
        i == Len(cur.steps) + 1
    IN  i <= Len(steps) /\ steps[i].op = op /\ steps[i].arg = arg

\* The page has repeated all of a last event action that was cut.
AtCut == cut /\ cur # Idle /\ Len(Trace) = Len(script) /\ cur.steps = script[Len(Trace)].steps

\* Where the recording was cut the page goes on with anything.
Beyond == Strict /\ AtCut

MayDo(op, arg) ==
    /\ phase # "exited" /\ cur # Idle
    /\ IF Follows
       THEN Beyond \/ Recorded(op, arg)
       ELSE taken < IF phase = "record" THEN MaxSteps ELSE MaxFree

\* What the page does and sees is kept as long as it can be compared with the recording.
Compared == phase = "record" \/ mode = "STRICT"

Does(op, arg, res) ==
    /\ taken' = IF Beyond THEN taken ELSE taken + 1
    /\ cur' = IF Compared /\ ~Beyond THEN [cur EXCEPT !.steps = Append(@, Step(op, arg, res))] ELSE cur
    /\ UNCHANGED cut

Exit == phase' = "exited" /\ UNCHANGED <<networkVars, dataVars, mode, script, done, cur, taken, cut>>

Id == Len(Trace)

Request(u) ==
    /\ MayDo("request", u)
    /\ Len(replies) < MaxReplies
    /\ \/ /\ \/ mode = "STOP" /\ Live(u, Id)
             \/ mode # "STOP" /\ ConstructExact(u, Id)
             \/ mode = "BEST_EFFORT" /\ (ConstructFuzzy(u, Id) \/ ConstructUnmatched(u, Id))
          /\ Does("request", u, <<>>)
          /\ UNCHANGED <<dataVars, phase, mode, script, done>>
       \/ mode = "STRICT" /\ ~Hit(u) /\ Exit

Read(r) ==
    LET base == bases[replies[r].base]
    IN  /\ MayDo("read", r)
        /\ read(r)
        /\ Does("read", r, <<base.url, base.num, base.pos, replies[r].size>>)
        /\ UNCHANGED <<dataVars, phase, mode, script, done>>

Abort(r) ==
    /\ MayDo("abort", r)
    /\ Release(r)
    /\ Does("abort", r, <<>>)
    /\ UNCHANGED <<dataVars, phase, mode, script, done>>

Time ==
    /\ MayDo("time", 0)
    /\ \/ \E v \in 0..clock :
            /\ \/ mode = "STOP" /\ currentTimeLive(cur.desc, None, v)
               \/ mode # "STOP" /\ currentTimeLogged(cur.desc, None, v)
               \/ mode = "BEST_EFFORT" /\ currentTimeNew(cur.desc, None, v)
            /\ Does("time", 0, <<v>>)
            /\ UNCHANGED <<networkVars, phase, mode, script, done>>
       \/ mode # "STOP" /\ currentTimeExits(mode = "STRICT", None) /\ Exit

\* A script the browser runs outside of event actions asks for the time: nothing is logged.
\* In a recording and in a stopped replay nothing happens, otherwise the replay ends.
TimeOutside ==
    /\ phase = "replay" /\ mode # "STOP" /\ cur = Idle
    /\ currentTimeExits(mode = "STRICT", None)
    /\ Exit

-----------------------------------------------------------------------------
(* Event actions.  The scheduler tells the data logs which one runs. *)

\* In a strict replay the next line of the schedule; otherwise whatever the scheduler picks.
MayBegin(d) ==
    /\ phase # "exited" /\ cur = Idle
    /\ Len(done) < MaxActions
    /\ Strict => Len(done) < Len(script) /\ d = script[Len(done) + 1].desc

Begin(d, res) ==
    /\ cur' = [desc |-> d, steps |-> IF Compared THEN <<Step("begin", 0, res)>> ELSE <<>>]
    /\ current' = IF mode = "STOP" THEN None ELSE d
    /\ UNCHANGED <<inLog, outLog, clock, phase, mode, script, done, taken, cut>>

BeginNetwork(r) ==
    /\ MayBegin(replies[r].waiting)
    /\ updateSnapshot(r, Len(done) + 1)
    /\ Begin(replies[r].waiting, <<Head(replies[r].queue), jar'>>)

\* An event action of the page that is not about the network: a user event, a timer, ...
BeginPage ==
    LET pages == {i \in DOMAIN done : done[i].desc.type = "Page"}
        d == Page(Cardinality(pages))
    IN  /\ MayBegin(d)
        /\ Begin(d, <<"page", jar>>)
        /\ UNCHANGED networkVars

End ==
    /\ cur # Idle /\ phase # "exited"
    /\ Follows => cur.steps = script[Len(Trace)].steps
    /\ done' = Append(done, cur)
    /\ cur' = Idle
    /\ current' = None
    /\ UNCHANGED <<networkVars, inLog, outLog, clock, phase, mode, script, taken, cut>>

-----------------------------------------------------------------------------
(* The network, the two processes and the mode. *)

LiveSignal(r) ==
    /\ phase # "exited" /\ cur = Idle
    /\ slReadyRead(r) \/ slFinished(r)
    /\ UNCHANGED <<dataVars, sessionVars>>

\* The recording is saved and replayed.  A line of the schedule is appended before its handler
\* runs, and a new URL of the page ends the recording inside of the handler (urlChanged,
\* differentUrl, done, snapshotState): the last event action may be cut.
Restart ==
    /\ phase = "record" /\ Trace # <<>>
    /\ NetworkRestart
    /\ DataRestart(None)
    /\ phase' = "replay" /\ mode' = "STRICT"
    /\ script' = Trace /\ done' = <<>> /\ taken' = 0
    /\ cut' = (cur # Idle) /\ cur' = Idle

\* From here on the replay is not compared with the recording.
Forget ==
    /\ script' = <<>>
    /\ done' = [i \in DOMAIN done |-> [done[i] EXCEPT !.steps = <<>>]]
    /\ taken' = IF Strict THEN 0 ELSE taken

\* A relax token of the schedule.
Relax ==
    /\ Strict /\ cur = Idle
    /\ Len(done) <= MaxStrict
    /\ mode' = "BEST_EFFORT"
    /\ Forget
    /\ UNCHANGED <<networkVars, dataVars, phase, cur, cut>>

\* The schedule is used up, or the scheduler is stopped.
Stop ==
    /\ phase = "replay" /\ mode # "STOP" /\ cur = Idle
    /\ mode = "STRICT" => Len(done) = Len(script)
    /\ mode' = "STOP"
    /\ Forget
    /\ UNCHANGED <<networkVars, dataVars, phase, cur, cut>>

Next ==
    \/ \E u \in Urls : Request(u)
    \/ \E r \in DOMAIN replies : Read(r) \/ Abort(r) \/ BeginNetwork(r) \/ LiveSignal(r)
    \/ Time
    \/ TimeOutside
    \/ BeginPage
    \/ End
    \/ Restart
    \/ Relax
    \/ Stop

Spec == Init /\ [][Next]_vars

-----------------------------------------------------------------------------
(* A strict replay of a page repeats the recording: every event action finds the same
   signal, the same bytes of the same reply, the same cookies of replies and the same times.  It
   depends on the numbers of requests of the same URL, on replies being matched in the
   order of the requests, on the numbers of signals, and on the log being kept by event
   action. *)
StrictReplayRepeats == Strict => Repeats

(* No strict replay gets stuck: the next event action of the recording is always waiting
   when its turn comes.  And it exits only when a script asks for the time outside of
   event actions, or in an event action the recording was saved in, after all that was
   recorded of it. *)
StrictReplayGoesOn ==
    /\ mode = "STRICT" /\ phase = "exited" => cur = Idle \/ AtCut
    /\ Strict /\ cur = Idle /\ Len(done) < Len(script) =>
         LET d == script[Len(done) + 1].desc IN d.type = "Page" \/ d \in Waiting

(* What a strict replay writes is what it read: the logs of a completed replay are those
   of the recording and its requests were answered in the recorded order, so that the
   replay can be replayed again. *)
ReplayCanBeReplayed ==
    Strict =>
        /\ \A r \in DOMAIN replies : replies[r].base = r
        /\ Len(done) = Len(script) => \A d \in DOMAIN inLog : inLog[d] = <<>>
        /\ \A i \in 1..Len(done) :
             Logged(outLog, done[i].desc) =
                 FlattenSeq([j \in DOMAIN script[i].steps |->
                     IF script[i].steps[j].op = "time" THEN script[i].steps[j].res ELSE <<>>])

(* However the replies of a replay were matched, a recorded reply answers at most one
   request, so that its stream has one reader; the stream is never read past the current
   snapshot, and a reply waits for the scheduler as long as recorded signals are left. *)
OneReaderPerReply ==
    /\ \A r, s \in DOMAIN replies : replies[r].base = replies[s].base => r = s
    /\ \A r \in DOMAIN replies :
         LET reply == replies[r]
             base == bases[reply.base]
         IN  /\ reply.open => IsSuffix(reply.queue, base.entries)
             /\ base.pos <= reply.size
             /\ reply.queue # <<>> <=> reply.waiting # None

(* The event actions of a reply form a chain of the happens-before relation, which starts
   at the event action that made the request. *)
RepliesAreOrdered ==
    Compared =>
        \A r \in DOMAIN replies :
            LET reply == replies[r]
                own == {i \in DOMAIN Trace :
                          \E n \in 0..FinalNumber : Trace[i].desc = Network(reply.url, reply.num, n)}
            IN  \A i \in own : \E j \in own \cup {reply.creator} :
                    j < i /\ <<j, i>> \in chain /\ \A k \in own : k < i => k <= j

=============================================================================
