-------------------------- MODULE MCReplayScheduler --------------------------
(* Instances of ReplayScheduler for model checking. *)
EXTENDS ReplayScheduler

Descriptor(t, u, p) == [type |-> t, url |-> u, seq |-> 1, parent |-> p]
Item(i, d) == [id |-> i, name |-> d]

Relax == Item(0, NullDescriptor)
Net == Item(2, Descriptor("Network", "a", 0))
Timer == Item(3, Descriptor("DOMTimer", "t", 2))
NetB == Item(4, Descriptor("Network", "b", 0))
User == Item(5, Descriptor("UserEvent", "u", 0))

\* The URLs of network requests resemble each other, those of timers do too.
SmallScore(u, v) == IF u = v THEN 9 ELSE IF {u, v} \subseteq {"a", "b", "c"} THEN 1 ELSE 0

MCNames ==
    {Descriptor("Network", u, 0) : u \in {"a", "b"}}
    \cup {Descriptor("DOMTimer", "t", p) : p \in {2, 3, 4}}
    \cup {User.name}

MCSchedules ==
    { <<User, Net, Timer, NetB>>,
      <<Net, Relax, Timer, User, Relax, NetB>>,
      <<Relax, Relax, Net, Timer, User, NetB>>,
      <<User, Relax, Net, Relax, Timer, NetB>> }
=============================================================================
