---------------------------- MODULE StreamPromise ----------------------------
(***************************************************************************)
(* What the event stream promises each of its clients (the docstrings of   *)
(* event_stream in api/websocket.py and of history_after in                *)
(* runtime/event_bus.py): from the first event it has seen on, a client    *)
(* sees every event it asked for, in the order of their publication and    *)
(* none of them twice, however often its connection breaks.                *)
(*                                                                         *)
(* The promise has two limits, and this module states how far they reach:  *)
(* an event can be lost to a client only when the client is more than      *)
(* Capacity events behind, or when the process goes down before the client *)
(* has it.                                                                 *)
(***************************************************************************)
EXTENDS Integers, Sequences

CONSTANTS
    Clients,
    Wants(_, _),    \* does a client want the events of a task?
    Capacity        \* how far behind a client may be

VARIABLES
    log,    \* the tasks of all events ever published, in order
    pos,    \* the last event each client has seen, by its place in the log; 0 before the first
    lost    \* the events each client can no longer get

promise == <<log, pos, lost>>

Init ==
    /\ log = <<>>
    /\ pos = [c \in Clients |-> 0]
    /\ lost = [c \in Clients |-> {}]

Behind(c) == (pos[c] + 1)..Len(log)

\* What a client loses is part of what it has yet to see.
Losing(c) ==
    /\ lost[c] \subseteq lost'[c]
    /\ lost'[c] \ lost[c] \subseteq Behind(c)

Publish ==
    /\ Len(log') = Len(log) + 1
    /\ SubSeq(log', 1, Len(log)) = log
    /\ \A c \in Clients : lost'[c] # lost[c] => Losing(c) /\ Len(log') - pos[c] > Capacity
    /\ UNCHANGED pos

FallBehind(c) ==
    /\ Len(log) - pos[c] > Capacity
    /\ Losing(c)
    /\ \A d \in Clients \ {c} : lost'[d] = lost[d]
    /\ UNCHANGED <<log, pos>>

ProcessDown ==
    /\ \A c \in Clients : Losing(c)
    /\ UNCHANGED <<log, pos>>

\* The client sees the next event it wants; only what is lost is passed over.
See(c) ==
    /\ pos'[c] \in Behind(c)
    /\ Wants(c, log[pos'[c]])
    /\ pos[c] # 0 => \A i \in (pos[c] + 1)..(pos'[c] - 1) : Wants(c, log[i]) => i \in lost[c]
    /\ \A d \in Clients \ {c} : pos'[d] = pos[d]
    /\ UNCHANGED <<log, lost>>

Next ==
    \/ Publish
    \/ ProcessDown
    \/ \E c \in Clients : FallBehind(c) \/ See(c)

Spec == Init /\ [][Next]_promise

\* A client that has seen an event has, again and again, seen all it wants and can get.
UpToDate(c) == \A i \in Behind(c) : Wants(c, log[i]) => i \in lost[c]
Reaches == \A c \in Clients : []<>(pos[c] # 0 => UpToDate(c))
==============================================================================
