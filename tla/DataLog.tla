------------------------------ MODULE DataLog ------------------------------
(***************************************************************************)
(* The log of the values a page read from the clock                        *)
(* (BaseClient/basedatalog.cpp, Record/datalog.cpp, Replay/datalog.cpp).   *)
(* The two logs of random numbers work the same way and are not repeated.  *)
(***************************************************************************)
EXTENDS Naturals, Sequences

VARIABLES
    inLog,      \* TimeProviderReplay::m_in_log: values by event action
    outLog,     \* TimeProviderBase::m_log
    current,    \* m_currentDescriptorString, None outside of a scheduled event action
    clock       \* the time; every reading advances it, so that no two readings agree

dataVars == <<inLog, outLog, current, clock>>

EmptyLog == [d \in {} |-> <<>>]

Logged(log, d) == IF d \in DOMAIN log THEN log[d] ELSE <<>>

Extended(log, d, v) ==
    [e \in DOMAIN log \cup {d} |-> IF e = d THEN Append(Logged(log, d), v) ELSE log[e]]

DataInit(none) == inLog = EmptyLog /\ outLog = EmptyLog /\ current = none /\ clock = 0

\* writeLogFile, and deserialize in the process that replays
DataRestart(none) ==
    /\ inLog' = outLog
    /\ outLog' = EmptyLog
    /\ current' = none
    /\ UNCHANGED clock

\* logTimeAccess, `dispatching' being the event action the register runs
logTimeAccess(dispatching, none, v) ==
    outLog' = IF dispatching = none THEN outLog ELSE Extended(outLog, dispatching, v)

\* TimeProviderRecord::currentTime, and TimeProviderReplay::currentTime when stopped
currentTimeLive(dispatching, none, v) ==
    /\ v = clock
    /\ clock' = clock + 1
    /\ logTimeAccess(dispatching, none, v)
    /\ UNCHANGED <<inLog, current>>

\* Mutant: a value from the log is not logged again.
currentTimeLoggedSilently(dispatching, none, v) ==
    /\ current # none
    /\ Logged(inLog, current) # <<>>
    /\ v = Head(inLog[current])
    /\ inLog' = [inLog EXCEPT ![current] = Tail(@)]
    /\ clock' = clock + 1
    /\ UNCHANGED <<outLog, current>>

\* TimeProviderReplay::currentTime, the value is in the log
currentTimeLogged(dispatching, none, v) ==
    /\ current # none
    /\ Logged(inLog, current) # <<>>
    /\ v = Head(inLog[current])
    /\ inLog' = [inLog EXCEPT ![current] = Tail(@)]
    /\ logTimeAccess(dispatching, none, v)
    /\ clock' = clock + 1
    /\ UNCHANGED current

\* ... the value is not in the log, in one of the best effort modes
currentTimeNew(dispatching, none, v) ==
    /\ current # none
    /\ Logged(inLog, current) = <<>>
    /\ currentTimeLive(dispatching, none, v)

\* ... std::exit(1)
currentTimeExits(strict, none) ==
    \/ current = none
    \/ strict /\ Logged(inLog, current) = <<>>

=============================================================================
