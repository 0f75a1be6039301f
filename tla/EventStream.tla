----------------------------- MODULE EventStream -----------------------------
(***************************************************************************)
(* The event stream of the Brain: EventBus of runtime/event_bus.py, the    *)
(* websocket handler of api/websocket.py with the client of                *)
(* src/brain/brain-client.ts that reconnects with a cursor, and the two    *)
(* loops that carry events into tables: RemoteDeliveryBridge of            *)
(* remote/delivery.py and SyncEventBridge of sync/bridge.py.               *)
(*                                                                         *)
(* publish runs without an await, and so does what a connection does       *)
(* between registering its queue and taking its snapshot of the history;   *)
(* sending, receiving and the loops' statements interleave with all else.  *)
(***************************************************************************)
EXTENDS Integers, FiniteSets, Sequences

CONSTANTS
    Tasks,
    Steps,          \* the tasks that publish other events than their end
    Remote,         \* the tasks whose source is "remote:" and a node
    Clients,
    Filtering,      \* the clients that ask for the events of one task
    FilterTask,     \* ... of this one
    QueueSize,      \* of a subscriber's queue (200)
    HistorySize,    \* of the history (500)
    TerminalSize,   \* how many tasks' terminal events are remembered (512)
    WireSize,       \* bound: events sent and not yet received
    MaxEvents,      \* bound on the events published
    MaxBreaks       \* bound on broken connections, restarts and statements that raise

ASSUME StreamAssumption ==
    /\ Steps \subseteq Tasks
    /\ Remote \subseteq Tasks
    /\ Filtering \subseteq Clients
    /\ FilterTask \in Tasks
    /\ {QueueSize, HistorySize, TerminalSize, WireSize} \subseteq Nat \ {0}
    /\ {MaxEvents, MaxBreaks} \subseteq Nat

VARIABLES
    log,        \* history: the events ever published; an event is named by its place
    history,    \* EventBus.history
    terminals,  \* EventBus._terminalized
    conn,       \* the connection of each client
    cursor,     \* the client's lastEventId, 0 before the first
    loop,       \* the two bridges
    table,      \* what each bridge has written, by the event: deliveries and journal
    breaks,     \* how often something broke
    boots,      \* history: how many events were published when the process came back
    lost,       \* history: events each client can no longer get
    missed      \* history: events each bridge let go

vars == <<log, history, terminals, conn, cursor, loop, table, breaks, boots, lost, missed>>

Event == [task : Tasks, terminal : {TRUE}] \cup [task : Steps, terminal : {FALSE}]
Loops == {"delivery", "sync"}
Ids == 1..MaxEvents
IdSeq == Seq(Ids)

Connection == [open : BOOLEAN, replay : IdSeq, replayed : SUBSET Ids, queue : IdSeq, wire : IdSeq]
Closed == [open |-> FALSE, replay |-> <<>>, replayed |-> {}, queue |-> <<>>, wire |-> <<>>]
Loop == [alive : BOOLEAN, queue : IdSeq, event : Ids \cup {0}]
Fresh == [alive |-> TRUE, queue |-> <<>>, event |-> 0]

TypeOK ==
    /\ log \in Seq(Event)
    /\ history \in IdSeq /\ Len(history) <= HistorySize
    /\ terminals \in Seq(Tasks) /\ Len(terminals) <= TerminalSize
    /\ conn \in [Clients -> Connection]
    /\ \A c \in Clients : Len(conn[c].queue) <= QueueSize /\ Len(conn[c].wire) <= WireSize
    /\ cursor \in [Clients -> 0..Len(log)]
    /\ loop \in [Loops -> Loop]
    /\ \A l \in Loops : Len(loop[l].queue) <= QueueSize
    /\ table \in [Loops -> IdSeq]
    /\ breaks \in 0..MaxBreaks
    /\ boots \subseteq 0..Len(log)
    /\ lost \in [Clients -> SUBSET Ids]
    /\ missed \in [Loops -> SUBSET Ids]

Init ==
    /\ log = <<>>
    /\ history = <<>>
    /\ terminals = <<>>
    /\ conn = [c \in Clients |-> Closed]
    /\ cursor = [c \in Clients |-> 0]
    /\ loop = [l \in Loops |-> Fresh]
    /\ table = [l \in Loops |-> <<>>]
    /\ breaks = 0
    /\ boots = {}
    /\ lost = [c \in Clients |-> {}]
    /\ missed = [l \in Loops |-> {}]

Elements(s) == {s[i] : i \in DOMAIN s}

\* The part of a sequence that is in a set.
Only(s, ids) ==
    LET only[n \in 0..Len(s)] ==
            IF n = 0 THEN <<>> ELSE IF s[n] \in ids THEN Append(only[n - 1], s[n]) ELSE only[n - 1]
    IN only[Len(s)]

LastOf(s, n) == IF Len(s) <= n THEN s ELSE SubSeq(s, Len(s) - n + 1, Len(s))
Wants(c, task) == c \in Filtering => task = FilterTask
Unseen(c) == (cursor[c] + 1)..Len(log)

------------------------------------------------------------------------------
(* EventBus.publish.                                                        *)

\* Mutant: one less is remembered.
RememberFewer(e) == IF e.terminal THEN LastOf(Append(terminals, e.task), TerminalSize - 1) ELSE terminals

\* _is_duplicate_terminal, with its memory bounded.
Duplicate(e) == e.terminal /\ e.task \in Elements(terminals)
Remember(e) == IF e.terminal THEN LastOf(Append(terminals, e.task), TerminalSize) ELSE terminals

\* Mutant: a full queue refuses the new event.
PutIfRoom(q, id) == IF Len(q) = QueueSize THEN q ELSE Append(q, id)

\* A full queue drops its oldest event.
Put(q, id) == LastOf(Append(q, id), QueueSize)
Dropped(q) == IF Len(q) = QueueSize THEN {Head(q)} ELSE {}

Publish(e) ==
    LET id == Len(log) + 1 IN
    /\ Len(log) < MaxEvents
    /\ ~Duplicate(e)
    /\ log' = Append(log, e)
    /\ terminals' = Remember(e)
    /\ history' = LastOf(Append(history, id), HistorySize)
    /\ conn' = [c \in Clients |-> IF conn[c].open THEN [conn[c] EXCEPT !.queue = Put(@, id)] ELSE conn[c]]
    /\ lost' = [c \in Clients |-> IF conn[c].open THEN lost[c] \cup Dropped(conn[c].queue) ELSE lost[c]]
    /\ loop' = [l \in Loops |-> IF loop[l].alive THEN [loop[l] EXCEPT !.queue = Put(@, id)] ELSE loop[l]]
    /\ missed' = [l \in Loops |-> IF loop[l].alive THEN missed[l] \cup Dropped(loop[l].queue)
                                  ELSE missed[l] \cup {id}]
    /\ UNCHANGED <<cursor, table, breaks, boots>>

------------------------------------------------------------------------------
(* A client and its connection.                                             *)

\* Mutant: nothing is replayed for an unknown cursor.
KnownHistory(id) == IF id \in Elements(history) THEN Only(history, (id + 1)..Len(log)) ELSE <<>>

\* history_after: nothing without a cursor, all of the history for one it does not hold.
HistoryAfter(id) ==
    IF id = 0 THEN <<>>
    ELSE IF id \in Elements(history) THEN Only(history, (id + 1)..Len(log))
    ELSE history

\* The handler registers its queue and takes its snapshot.  The client's cursor is the last
\* event it has received.
Connect(c) ==
    LET replay == Only(HistoryAfter(cursor[c]), {i \in DOMAIN log : Wants(c, log[i].task)}) IN
    /\ ~conn[c].open
    /\ conn' = [conn EXCEPT ![c] = [Closed EXCEPT !.open = TRUE, !.replay = replay]]
    /\ lost' = [lost EXCEPT ![c] = @ \cup (Unseen(c) \ Elements(history))]
    /\ UNCHANGED <<log, history, terminals, cursor, loop, table, breaks, boots, missed>>

SendReplay(c) ==
    LET k == conn[c] IN
    /\ k.replay # <<>>
    /\ Len(k.wire) < WireSize
    /\ conn' = [conn EXCEPT ![c].replay = Tail(@), ![c].replayed = @ \cup {Head(k.replay)},
                            ![c].wire = Append(@, Head(k.replay))]
    /\ UNCHANGED <<log, history, terminals, cursor, loop, table, breaks, boots, lost, missed>>

\* The live queue, once the replay is done; what was replayed or is not wanted is skipped.
SendLive(c) ==
    LET k == conn[c]
        id == Head(k.queue)
        skip == id \in k.replayed \/ ~Wants(c, log[id].task)
    IN
    /\ k.replay = <<>>
    /\ k.queue # <<>>
    /\ Len(k.wire) < WireSize
    /\ conn' = [conn EXCEPT ![c].queue = Tail(@), ![c].wire = IF skip THEN @ ELSE Append(@, id)]
    /\ UNCHANGED <<log, history, terminals, cursor, loop, table, breaks, boots, lost, missed>>

\* socket.onmessage.
Receive(c) ==
    /\ conn[c].wire # <<>>
    /\ cursor' = [cursor EXCEPT ![c] = Head(conn[c].wire)]
    /\ conn' = [conn EXCEPT ![c].wire = Tail(@)]
    /\ UNCHANGED <<log, history, terminals, loop, table, breaks, boots, lost, missed>>

\* The connection breaks: what was on the wire is gone, and the handler unregisters.
Break(c) ==
    /\ breaks < MaxBreaks
    /\ conn[c].open
    /\ breaks' = breaks + 1
    /\ conn' = [conn EXCEPT ![c] = Closed]
    /\ UNCHANGED <<log, history, terminals, cursor, loop, table, boots, lost, missed>>

------------------------------------------------------------------------------
(* The bridges.  Each takes an event, waits for its statements, takes the   *)
(* next.                                                                    *)

\* A delivery is for the end of a remote task; the journal takes every event of the model.
Writes(l, id) == l = "delivery" => log[id].terminal /\ log[id].task \in Remote

Take(l) ==
    /\ loop[l].alive
    /\ loop[l].event = 0
    /\ loop[l].queue # <<>>
    /\ LET id == Head(loop[l].queue) IN
        loop' = [loop EXCEPT ![l].queue = Tail(@), ![l].event = IF Writes(l, id) THEN id ELSE 0]
    /\ UNCHANGED <<log, history, terminals, conn, cursor, table, breaks, boots, lost, missed>>

Write(l) ==
    /\ loop[l].event # 0
    /\ table' = [table EXCEPT ![l] = Append(@, loop[l].event)]
    /\ loop' = [loop EXCEPT ![l].event = 0]
    /\ UNCHANGED <<log, history, terminals, conn, cursor, breaks, boots, lost, missed>>

\* A statement raises: the delivery is given up and the loop goes on; the journal's loop
\* ends for good, without a sign.
Raise(l) ==
    /\ breaks < MaxBreaks
    /\ loop[l].event # 0
    /\ breaks' = breaks + 1
    /\ missed' = [missed EXCEPT ![l] = @ \cup {loop[l].event}
                        \cup (IF l = "sync" THEN Elements(loop[l].queue) ELSE {})]
    /\ loop' = [loop EXCEPT ![l] = IF l = "sync" THEN [Fresh EXCEPT !.alive = FALSE]
                                   ELSE [@ EXCEPT !.event = 0]]
    /\ UNCHANGED <<log, history, terminals, conn, cursor, table, boots, lost>>

------------------------------------------------------------------------------
\* The process goes down and comes back: only the tables and the clients' cursors remain.
Restart ==
    /\ breaks < MaxBreaks
    /\ breaks' = breaks + 1
    /\ boots' = boots \cup {Len(log)}
    /\ history' = <<>>
    /\ terminals' = <<>>
    /\ conn' = [c \in Clients |-> Closed]
    /\ loop' = [l \in Loops |-> Fresh]
    /\ lost' = [c \in Clients |-> lost[c] \cup Unseen(c)]
    /\ missed' = [l \in Loops |-> missed[l] \cup Elements(loop[l].queue) \cup ({loop[l].event} \ {0})]
    /\ UNCHANGED <<log, cursor, table>>

Serve(c) == SendReplay(c) \/ SendLive(c)

Next ==
    \/ \E e \in Event : Publish(e)
    \/ \E c \in Clients : Connect(c) \/ Serve(c) \/ Receive(c) \/ Break(c)
    \/ \E l \in Loops : Take(l) \/ Write(l) \/ Raise(l)
    \/ Restart

Spec == Init /\ [][Next]_vars

\* The client's timer reconnects after every close, the handler sends as long as its
\* connection lives, the client handles every message, and the loops take every event.
Fairness ==
    /\ \A c \in Clients : WF_vars(Connect(c)) /\ WF_vars(Serve(c)) /\ WF_vars(Receive(c))
    /\ \A l \in Loops : WF_vars(Take(l) \/ Write(l))

FairSpec == Spec /\ Fairness

------------------------------------------------------------------------------
(* What the stream promises.                                                *)

Smaller(m, n) == IF m < n THEN m ELSE n

Promise == INSTANCE StreamPromise WITH
    log <- [i \in DOMAIN log |-> log[i].task],
    pos <- cursor,
    Capacity <- Smaller(QueueSize, HistorySize)

\* The stream implements its promise: in order, nothing twice, and nothing lost to a client
\* that is no more than the smaller of queue and history behind, whatever breaks
\* (event_stream, history_after).
KeepsPromise == Promise!Spec

\* A client that has a cursor catches up, again and again, whatever breaks (event_stream:
\* "everything published after that cursor is replayed").
CatchesUp == Promise!Reaches

\* The process came back between two events.
Restarted(i, j) == \E r \in boots : i <= r /\ r < j

\* A task has a second terminal event only if the process came back between the two, or
\* TerminalSize other tasks have ended between them ("one task, one terminal event"): a
\* broken connection, a bridge that raises, an earlier restart or the rest of the traffic
\* never lets one through (EventBus._is_duplicate_terminal).
OneTerminal ==
    \A i, j \in DOMAIN log :
        i < j /\ log[i].terminal /\ log[j] = log[i]
        => \/ Restarted(i, j)
           \/ Cardinality({log[k].task : k \in {k \in (i + 1)..(j - 1) : log[k].terminal}}) >= TerminalSize

\* Again and again, every end of a remote task is written as a delivery and every event to
\* the journal, but those the bridge let go: its queue overflowed, its statement raised, or
\* the process went down (RemoteDeliveryBridge, SyncEventBridge).
Arrived(l) == \A id \in DOMAIN log : Writes(l, id) => id \in Elements(table[l]) \cup missed[l]
Arrives == []<>(\A l \in Loops : Arrived(l))
==============================================================================
