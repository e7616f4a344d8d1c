---------------------------- MODULE ReplayPromise ----------------------------
(***************************************************************************)
(* What a replay promises of the order of event actions, whatever the page *)
(* registers and however the timeouts fall.                                *)
(*                                                                         *)
(* A replay starts the event actions of the schedule one by one.  Until    *)
(* the second relax token it starts exactly the next one or gives up;      *)
(* afterwards it may put an event action aside and start it later.  It     *)
(* ends with one verdict, which stands.                                    *)
(***************************************************************************)
EXTENDS Naturals, Sequences, SequencesExt

CONSTANT Orders   \* the id sequences a replay may be asked for

VARIABLES
    todo,       \* ids of the event actions still to start; 0 is a relax token
    late,       \* ids put aside
    started,    \* ids in the order they were started
    tokens,     \* relax tokens passed: 0, 1, or 2 for two and more
    verdict     \* "RUNNING" until the replay ends

promiseVars == <<todo, late, started, tokens, verdict>>

PromiseInit ==
    /\ todo \in Orders
    /\ late = <<>>
    /\ started = <<>>
    /\ tokens = 0
    /\ verdict = "RUNNING"

Undecided == verdict = "RUNNING"

StartNext ==
    /\ Undecided
    /\ todo # <<>> /\ Head(todo) # 0
    /\ started' = Append(started, Head(todo))
    /\ todo' = Tail(todo)
    /\ UNCHANGED <<late, tokens, verdict>>

Relax ==
    /\ Undecided
    /\ todo # <<>> /\ Head(todo) = 0
    /\ todo' = Tail(todo)
    /\ tokens' = IF tokens = 0 THEN 1 ELSE 2
    /\ UNCHANGED <<late, started, verdict>>

PutAside ==
    /\ Undecided
    /\ tokens = 2
    /\ todo # <<>> /\ Head(todo) # 0
    /\ late' = Append(late, Head(todo))
    /\ todo' = Tail(todo)
    /\ UNCHANGED <<started, tokens, verdict>>

StartLate ==
    /\ Undecided
    /\ tokens = 2
    /\ \E i \in 1..Len(late) :
         /\ started' = Append(started, late[i])
         /\ late' = RemoveAt(late, i)
    /\ UNCHANGED <<todo, tokens, verdict>>

\* FINISHED only when nothing is left to start, EXIT only before the first
\* token, ERROR only between the first and the second.
Decide(v) ==
    /\ Undecided
    /\ v = "FINISHED" => todo = <<>>
    /\ v = "EXIT" => tokens = 0
    /\ v = "ERROR" => tokens = 1
    /\ verdict' = v
    /\ UNCHANGED <<todo, late, started, tokens>>

PromiseNext ==
    \/ StartNext
    \/ Relax
    \/ PutAside
    \/ StartLate
    \/ \E v \in {"FINISHED", "TIMEOUT", "ERROR", "EXIT"} : Decide(v)

PromiseSpec == PromiseInit /\ [][PromiseNext]_promiseVars
=============================================================================
