---------------------------- MODULE KanbanProofs ----------------------------
(***************************************************************************)
(* What TLAPS proves of Kanban, for any board, any number of worker        *)
(* processes and any capacity: two workers are never on one card unless a  *)
(* Brain went down between spawning one and writing its pid, a card is     *)
(* completed only for a task that was, and a settled card nobody holds     *)
(* stays settled.                                                          *)
(***************************************************************************)
EXTENDS Kanban, TLAPS

\* A worker the board can know of: its Brain is still up, or its pid was written.
Counted(p) == Live(p) /\ (worker[p].orphan => worker[p].known)

\* The dispatcher has spawned p and not yet written its pid.
BeingRecorded(p) == tick.at = "record" /\ tick.pid = p

\* The card of a worker that counts names that worker, or is about to, and is not up for a
\* claim.
Named ==
    \A p \in Pids : Counted(p) =>
        /\ card[worker[p].card].status \notin {"none", "pending"}
        /\ \/ card[worker[p].card].pid = p
           \/ BeingRecorded(p)

\* The card the dispatcher has claimed is not up for another claim.
InHand ==
    tick.at \in {"spawn", "refuse", "record", "mark"} =>
        card[tick.card].status \notin {"none", "pending"}

\* Until its worker is spawned it has none that counts; from then on it has only that one.
HandsFree ==
    \A p \in Pids : Counted(p) /\ worker[p].card = tick.card =>
        /\ tick.at # "spawn"
        /\ tick.at = "record" => p = tick.pid

\* While the pid is being written, its process, if it still lives, is that worker.
JustSpawned ==
    tick.at = "record" /\ Live(tick.pid) =>
        worker[tick.pid].card = tick.card /\ ~worker[tick.pid].known

\* Between the SELECT of reclaim_stale and the verdict on one of its rows, nothing writes the
\* pid of that row's card.
RowsHold == tick.at = "judge" => \A row \in tick.rows : card[row[1]].pid = row[2]

OneEach == Named /\ InHand /\ HandsFree /\ JustSpawned /\ RowsHold
Apart == TypeOK /\ OneEach

\* A worker takes its task for completed only if it was.
Ran == \A p \in Pids : worker[p].stage \in {"ran", "complete"} => worker[p].card \in earned

Earning == TypeOK /\ Ran /\ CompletionIsEarned

------------------------------------------------------------------------------
(* What a statement on one row, one process or the loop changes.            *)

PidOrNone == Pids \cup {NoPid}

LEMMA StatusWritten ==
    ASSUME TypeOK, NEW c \in Cards, NEW s \in Statuses, card' = [card EXCEPT ![c].status = s]
    PROVE  /\ card' \in [Cards -> Row]
           /\ card'[c].status = s
           /\ \A d \in Cards : card'[d].pid = card[d].pid
           /\ \A d \in Cards : d # c => card'[d] = card[d]
  <1>1. card \in [Cards -> Row] /\ card[c] \in Row
    BY DEF TypeOK
  <1>2. [card[c] EXCEPT !.status = s] \in Row
    BY <1>1, Zenon DEF Row
  <1>3. card' = [card EXCEPT ![c] = [card[c] EXCEPT !.status = s]]
    BY Zenon
  <1>4. /\ [card[c] EXCEPT !.status = s].status = s
        /\ [card[c] EXCEPT !.status = s].pid = card[c].pid
    BY <1>1, Zenon DEF Row
  <1> QED BY <1>1, <1>2, <1>3, <1>4

LEMMA PidWritten ==
    ASSUME TypeOK, NEW c \in Cards, NEW p \in PidOrNone, card' = [card EXCEPT ![c].pid = p]
    PROVE  /\ card' \in [Cards -> Row]
           /\ card'[c].pid = p
           /\ \A d \in Cards : card'[d].status = card[d].status
           /\ \A d \in Cards : d # c => card'[d] = card[d]
  <1>1. card \in [Cards -> Row] /\ card[c] \in Row
    BY DEF TypeOK
  <1>2. [card[c] EXCEPT !.pid = p] \in Row
    BY <1>1, Zenon DEF Row, PidOrNone
  <1>3. card' = [card EXCEPT ![c] = [card[c] EXCEPT !.pid = p]]
    BY Zenon
  <1>4. /\ [card[c] EXCEPT !.pid = p].pid = p
        /\ [card[c] EXCEPT !.pid = p].status = card[c].status
    BY <1>1, Zenon DEF Row
  <1> QED BY <1>1, <1>2, <1>3, <1>4

LEMMA RowWritten ==
    ASSUME TypeOK, NEW c \in Cards, NEW s \in Statuses,
           card' = [card EXCEPT ![c] = [status |-> s, pid |-> NoPid]]
    PROVE  /\ card' \in [Cards -> Row]
           /\ card'[c].status = s /\ card'[c].pid = NoPid
           /\ \A d \in Cards : d # c => card'[d] = card[d]
  <1>1. card \in [Cards -> Row]
    BY DEF TypeOK
  <1>2. [status |-> s, pid |-> NoPid] \in Row
    BY DEF Row
  <1> QED BY <1>1, <1>2

LEMMA WorkerMoved ==
    ASSUME TypeOK, NEW p \in Pids, NEW from, NEW to \in Stages \ {"gone"}, from # "gone",
           Moves(p, from, to)
    PROVE  /\ worker' \in [Pids -> Worker]
           /\ Live(p) /\ worker[p].stage = from /\ worker'[p].stage = to
           /\ \A q \in Pids : Live(q)' <=> Live(q)
           /\ \A q \in Pids : /\ worker'[q].card = worker[q].card
                              /\ worker'[q].orphan = worker[q].orphan
                              /\ worker'[q].known = worker[q].known
           /\ \A q \in Pids : q # p => worker'[q] = worker[q]
  <1>1. worker \in [Pids -> Worker] /\ worker[p] \in Worker /\ worker[p].stage = from
    BY DEF TypeOK, Moves
  <1> DEFINE w == [worker[p] EXCEPT !.stage = to]
  <1>2. /\ w \in Worker /\ w.stage = to /\ w.card = worker[p].card
        /\ w.orphan = worker[p].orphan /\ w.known = worker[p].known
    BY <1>1, Zenon DEF Worker
  <1>3. worker' = [worker EXCEPT ![p] = w]
    BY Zenon DEF Moves
  <1> HIDE DEF w
  <1>4. /\ worker' \in [Pids -> Worker] /\ worker'[p] = w
        /\ \A q \in Pids : q # p => worker'[q] = worker[q]
    BY <1>1, <1>2, <1>3
  <1> QED BY <1>1, <1>2, <1>4 DEF Live

\* Every step of a worker but its end.
LEMMA WorkerMoves ==
    ASSUME TypeOK, NEW p \in Pids, WorkerStep(p), ~Exit(p)
    PROVE  \E from, to \in Stages \ {"gone"} : Moves(p, from, to)
  BY DEF WorkerStep, Submit, SubmitFails, TaskCompletes, PollCompleted, GiveUp, ReportCompleted,
         ReportFailed, Report, Stages

LEMMA WorkerGone ==
    ASSUME TypeOK, NEW p \in Pids, Exit(p)
    PROVE  /\ worker' \in [Pids -> Worker]
           /\ worker'[p] = Gone /\ ~Live(p)'
           /\ \A q \in Pids : q # p => worker'[q] = worker[q]
  <1>1. Gone \in Worker /\ Gone.stage = "gone"
    BY DEF Gone, Worker, Stages
  <1>2. worker \in [Pids -> Worker] /\ worker' = [worker EXCEPT ![p] = Gone]
    BY DEF TypeOK, Exit
  <1> QED BY <1>1, <1>2 DEF Live

LEMMA LoopBegins ==
    ASSUME NEW at \in Points
    PROVE  Loop(at) \in Tick /\ Loop(at).at = at /\ Loop(at).rows = {} /\ Loop(at).card = NoCard
  BY DEF Loop, Tick

\* A turn of the loop that goes on to its next point keeps what it read, but for the rows.
LEMMA LoopGoesOn ==
    ASSUME NEW t \in Tick, NEW at \in Points
    PROVE  /\ [t EXCEPT !.at = at] \in Tick
           /\ [t EXCEPT !.at = at].at = at
           /\ [t EXCEPT !.at = at].rows = t.rows
           /\ [t EXCEPT !.at = at].card = t.card
           /\ [t EXCEPT !.at = at].pid = t.pid
  BY Zenon DEF Tick

LEMMA LoopReads ==
    ASSUME NEW t \in Tick, NEW rows \in SUBSET (Cards \X PidOrNone)
    PROVE  /\ [t EXCEPT !.at = "judge", !.rows = rows] \in Tick
           /\ [t EXCEPT !.at = "judge", !.rows = rows].at = "judge"
           /\ [t EXCEPT !.at = "judge", !.rows = rows].rows = rows
           /\ [t EXCEPT !.at = "judge", !.rows = rows].card = t.card
  <1>1. "judge" \in Points
    BY DEF Points
  <1> QED BY <1>1, Zenon DEF Tick, PidOrNone

LEMMA LoopJudges ==
    ASSUME NEW t \in Tick, NEW row
    PROVE  /\ [t EXCEPT !.rows = @ \ {row}] \in Tick
           /\ [t EXCEPT !.rows = @ \ {row}].at = t.at
           /\ [t EXCEPT !.rows = @ \ {row}].rows = t.rows \ {row}
           /\ [t EXCEPT !.rows = @ \ {row}].card = t.card
  <1>1. t.rows \ {row} \in SUBSET (Cards \X PidOrNone)
    BY DEF Tick, PidOrNone
  <1> QED BY <1>1, Zenon DEF Tick, PidOrNone

LEMMA LoopTakes ==
    ASSUME NEW t \in Tick, NEW c \in Cards
    PROVE  /\ [t EXCEPT !.at = "claim", !.card = c] \in Tick
           /\ [t EXCEPT !.at = "claim", !.card = c].at = "claim"
           /\ [t EXCEPT !.at = "claim", !.card = c].card = c
           /\ [t EXCEPT !.at = "claim", !.card = c].rows = t.rows
  <1>1. "claim" \in Points
    BY DEF Points
  <1> QED BY <1>1, Zenon DEF Tick

LEMMA LoopSpawns ==
    ASSUME NEW t \in Tick, NEW p \in Pids
    PROVE  /\ [t EXCEPT !.at = "record", !.pid = p] \in Tick
           /\ [t EXCEPT !.at = "record", !.pid = p].at = "record"
           /\ [t EXCEPT !.at = "record", !.pid = p].pid = p
           /\ [t EXCEPT !.at = "record", !.pid = p].card = t.card
           /\ [t EXCEPT !.at = "record", !.pid = p].rows = t.rows
  <1>1. "record" \in Points
    BY DEF Points
  <1> QED BY <1>1, Zenon DEF Tick

\* The process that is spawned.
Spawned(c) == [Gone EXCEPT !.stage = "submit", !.card = c]

LEMMA SpawnedIs ==
    ASSUME NEW c \in Cards
    PROVE  /\ Spawned(c) \in Worker
           /\ Spawned(c).stage = "submit" /\ Spawned(c).card = c
           /\ ~Spawned(c).orphan /\ ~Spawned(c).known
  BY DEF Spawned, Gone, Worker, Stages

LEMMA WorkerSpawned ==
    ASSUME TypeOK, NEW p \in Pids, tick.card \in Cards, ~Live(p),
           worker' = [worker EXCEPT ![p] = Spawned(tick.card)]
    PROVE  /\ worker' \in [Pids -> Worker]
           /\ worker'[p] = Spawned(tick.card) /\ Live(p)'
           /\ \A q \in Pids : q # p => worker'[q] = worker[q]
  <1>1. Spawned(tick.card) \in Worker /\ Spawned(tick.card).stage # "gone"
    BY SpawnedIs
  <1>2. worker \in [Pids -> Worker]
    BY DEF TypeOK
  <1> QED BY <1>1, <1>2 DEF Live

\* Writing the pid of a process to its card makes that process known, if it still lives.
LEMMA PidKnown ==
    ASSUME TypeOK, NEW p \in Pids, worker' = [worker EXCEPT ![p].known = Live(p)]
    PROVE  /\ worker' \in [Pids -> Worker]
           /\ \A q \in Pids : /\ worker'[q].stage = worker[q].stage
                              /\ worker'[q].card = worker[q].card
                              /\ worker'[q].orphan = worker[q].orphan
                              /\ Live(q)' <=> Live(q)
           /\ \A q \in Pids : q # p => worker'[q] = worker[q]
  <1>1. worker \in [Pids -> Worker] /\ worker[p] \in Worker /\ Live(p) \in BOOLEAN
    BY DEF TypeOK, Live
  <1> DEFINE w == [worker[p] EXCEPT !.known = Live(p)]
  <1>2. /\ w \in Worker /\ w.stage = worker[p].stage /\ w.card = worker[p].card
        /\ w.orphan = worker[p].orphan
    BY <1>1, Zenon DEF Worker
  <1>3. worker' = [worker EXCEPT ![p] = w]
    BY Zenon
  <1> HIDE DEF w
  <1>4. /\ worker' \in [Pids -> Worker] /\ worker'[p] = w
        /\ \A q \in Pids : q # p => worker'[q] = worker[q]
    BY <1>1, <1>2, <1>3
  <1> QED BY <1>1, <1>2, <1>4 DEF Live

\* The Brain goes down: its workers are orphans and nothing else changes of them.
LEMMA WorkersOrphaned ==
    ASSUME TypeOK, Crash
    PROVE  /\ worker' \in [Pids -> Worker]
           /\ \A q \in Pids : /\ worker'[q].stage = worker[q].stage
                              /\ worker'[q].card = worker[q].card
                              /\ worker'[q].known = worker[q].known
                              /\ Live(q)' <=> Live(q)
                              /\ Live(q) => worker'[q].orphan
  <1>1. worker \in [Pids -> Worker]
    BY DEF TypeOK
  <1>2. ASSUME NEW q \in Pids
        PROVE  LET w == [worker[q] EXCEPT !.orphan = TRUE]
               IN  w \in Worker /\ w.stage = worker[q].stage /\ w.card = worker[q].card
                   /\ w.known = worker[q].known /\ w.orphan
    <2>1. worker[q] \in Worker
      BY <1>1
    <2> QED BY <2>1, Zenon DEF Worker
  <1>3. \A q \in Pids : worker'[q] = IF Live(q) THEN [worker[q] EXCEPT !.orphan = TRUE] ELSE worker[q]
    BY DEF Crash
  <1>4. worker' = [q \in Pids |-> IF Live(q) THEN [worker[q] EXCEPT !.orphan = TRUE] ELSE worker[q]]
    BY DEF Crash
  <1>5. worker' \in [Pids -> Worker]
    BY <1>1, <1>2, <1>4
  <1> QED BY <1>1, <1>2, <1>3, <1>5 DEF Live

------------------------------------------------------------------------------
(* Types.                                                                   *)

LEMMA Initially == Init => TypeOK
  <1> SUFFICES ASSUME Init PROVE TypeOK
    OBVIOUS
  <1>1. Loop("reap") \in Tick /\ Loop("reap").at = "reap"
    BY LoopBegins DEF Points
  <1>2. Gone \in Worker /\ Gone.stage = "gone"
    BY DEF Gone, Worker, Stages
  <1> QED BY <1>1, <1>2 DEF Init, TypeOK, Row, Statuses

LEMMA CreateTyped == ASSUME TypeOK, NEW c \in Cards, Create(c) PROVE TypeOK'
  <1>1. card' \in [Cards -> Row]
    BY StatusWritten DEF Create, Statuses
  <1> QED BY <1>1 DEF TypeOK, Create

LEMMA ReclaimTyped == ASSUME TypeOK, Reap \/ List \/ Judge \/ JudgeDone PROVE TypeOK'
  <1>1. tick \in Tick /\ processes \in [Cards -> PidOrNone]
    BY DEF TypeOK, PidOrNone
  <1>2. CASE Reap
    <2>1. processes' \in [Cards -> PidOrNone]
      BY <1>1, <1>2 DEF Reap, PidOrNone
    <2>2. tick' \in Tick /\ tick'.at = "list"
      BY <1>1, <1>2, LoopGoesOn DEF Reap, Points
    <2> QED BY <1>2, <2>1, <2>2 DEF TypeOK, Reap, PidOrNone
  <1>3. CASE List
    <2>1. {<<c, card[c].pid>> : c \in Reclaimable} \in SUBSET (Cards \X PidOrNone)
      BY DEF TypeOK, Reclaimable, Row, PidOrNone
    <2>2. tick' \in Tick /\ tick'.at = "judge"
      BY <1>1, <1>3, <2>1, LoopReads DEF List
    <2> QED BY <1>3, <2>2 DEF TypeOK, List
  <1>4. CASE Judge
    <2>1. PICK row \in tick.rows :
            /\ IF Alive(row[2]) THEN UNCHANGED card ELSE Release(row)
            /\ tick' = [tick EXCEPT !.rows = @ \ {row}]
      BY <1>4 DEF Judge
    <2>2. tick' \in Tick /\ tick'.at = "judge"
      BY <1>1, <1>4, <2>1, LoopJudges DEF Judge
    <2>3. row[1] \in Cards
      BY <1>1, <2>1 DEF Tick
    <2>4. card' \in [Cards -> Row]
      BY <2>1, <2>3, RowWritten DEF Release, TypeOK, Statuses
    <2> QED BY <1>4, <2>2, <2>4 DEF TypeOK, Judge
  <1>5. CASE JudgeDone
    <2>1. tick' \in Tick /\ tick'.at = "select"
      BY <1>1, <1>5, LoopGoesOn DEF JudgeDone, Points
    <2> QED BY <1>5, <2>1 DEF TypeOK, JudgeDone
  <1> QED BY <1>2, <1>3, <1>4, <1>5

LEMMA DispatchTyped ==
    ASSUME TypeOK, Select \/ Rest \/ Claim \/ Spawn \/ SpawnRaises \/ Refuse \/ Record \/ Mark
    PROVE  TypeOK'
  <1>1. /\ tick \in Tick
        /\ tick.at \in {"claim", "spawn", "refuse", "record", "mark"} => tick.card \in Cards
        /\ tick.at \in {"record", "mark"} => tick.pid \in Pids
    BY DEF TypeOK
  <1>2. Loop("reap") \in Tick /\ Loop("reap").at = "reap"
    BY LoopBegins DEF Points
  <1>3. CASE Select
    <2>1. PICK c \in Cards : tick' = [tick EXCEPT !.at = "claim", !.card = c]
      BY <1>3 DEF Select
    <2>2. tick' \in Tick /\ tick'.at = "claim" /\ tick'.card \in Cards
      BY <1>1, <2>1, LoopTakes
    <2> QED BY <1>3, <2>2 DEF TypeOK, Select
  <1>4. CASE Rest
    BY <1>2, <1>4 DEF TypeOK, Rest
  <1>5. CASE Claim
    <2>1. tick.card \in Cards
      BY <1>1, <1>5 DEF Claim
    <2>2. CASE Claimable(tick.card)
      <3>1. card' \in [Cards -> Row]
        BY <1>5, <2>1, <2>2, RowWritten DEF Claim, Statuses
      <3>2. tick' = [tick EXCEPT !.at = "spawn"]
        BY <1>5, <2>2 DEF Claim
      <3>3. tick' \in Tick /\ tick'.at = "spawn" /\ tick'.card = tick.card
        BY <1>1, <3>2, LoopGoesOn DEF Points
      <3> QED BY <1>5, <2>1, <3>1, <3>3 DEF TypeOK, Claim
    <2>3. CASE ~Claimable(tick.card)
      BY <1>2, <1>5, <2>3 DEF TypeOK, Claim
    <2> QED BY <2>2, <2>3
  <1>6. CASE Spawn
    <2>1. tick.card \in Cards
      BY <1>1, <1>6 DEF Spawn
    <2>2. PICK p \in Pids :
            /\ Unused(p)
            /\ worker' = [worker EXCEPT ![p] = Spawned(tick.card)]
            /\ processes' = [processes EXCEPT ![tick.card] = p]
            /\ tick' = [tick EXCEPT !.at = "record", !.pid = p]
      BY <1>6 DEF Spawn, Spawned
    <2>3. /\ worker' \in [Pids -> Worker] /\ worker'[p].card \in Cards
          /\ \A q \in Pids : q # p => worker'[q] = worker[q]
      BY <2>1, <2>2, WorkerSpawned, SpawnedIs DEF Unused
    <2>4. tick' \in Tick /\ tick'.at = "record" /\ tick'.pid = p /\ tick'.card = tick.card
      BY <1>1, <2>2, LoopSpawns
    <2>5. processes' \in [Cards -> PidOrNone]
      BY <2>1, <2>2 DEF TypeOK, PidOrNone
    <2> QED BY <1>6, <2>1, <2>3, <2>4, <2>5 DEF TypeOK, Spawn, PidOrNone
  <1>7. CASE SpawnRaises
    <2>1. tick' \in Tick /\ tick'.at = "refuse" /\ tick'.card = tick.card
      BY <1>1, <1>7, LoopGoesOn DEF SpawnRaises, Points
    <2> QED BY <1>1, <1>7, <2>1 DEF TypeOK, SpawnRaises
  <1>8. CASE Refuse
    <2>1. card' \in [Cards -> Row]
      BY <1>1, <1>8, StatusWritten DEF Refuse, Statuses
    <2> QED BY <1>2, <1>8, <2>1 DEF TypeOK, Refuse
  <1>9. CASE Record
    <2>1. tick.card \in Cards /\ tick.pid \in Pids
      BY <1>1, <1>9 DEF Record
    <2>2. card' \in [Cards -> Row]
      BY <1>9, <2>1, PidWritten DEF Record, PidOrNone
    <2>3. tick' \in Tick /\ tick'.at = "mark" /\ tick'.card = tick.card /\ tick'.pid = tick.pid
      BY <1>1, <1>9, LoopGoesOn DEF Record, Points
    <2>4. /\ worker' \in [Pids -> Worker]
          /\ \A q \in Pids : worker'[q].stage = worker[q].stage /\ worker'[q].card = worker[q].card
      BY <1>9, <2>1, PidKnown DEF Record
    <2> QED BY <1>9, <2>1, <2>2, <2>3, <2>4 DEF TypeOK, Record
  <1>10. CASE Mark
    <2>1. card' \in [Cards -> Row]
      BY <1>1, <1>10, StatusWritten DEF Mark, Statuses
    <2> QED BY <1>2, <1>10, <2>1 DEF TypeOK, Mark
  <1> QED BY <1>3, <1>4, <1>5, <1>6, <1>7, <1>8, <1>9, <1>10

LEMMA WorkerTyped == ASSUME TypeOK, NEW p \in Pids, WorkerStep(p) PROVE TypeOK'
  <1>1. worker \in [Pids -> Worker] /\ (Live(p) => worker[p].card \in Cards)
    BY DEF TypeOK, Live
  <1>2. UNCHANGED <<processes, tick>>
    BY DEF WorkerStep, Submit, SubmitFails, TaskCompletes, PollCompleted, GiveUp, ReportCompleted,
           ReportFailed, Report, Exit
  <1>3. CASE Exit(p)
    <2>1. /\ worker' \in [Pids -> Worker] /\ worker'[p].stage = "gone"
          /\ \A q \in Pids : q # p => worker'[q] = worker[q]
      BY <1>3, WorkerGone DEF Gone
    <2> QED BY <1>3, <2>1 DEF TypeOK, Exit
  <1>4. CASE ~Exit(p)
    <2>1. /\ worker' \in [Pids -> Worker] /\ Live(p)
          /\ \A q \in Pids : (Live(q)' <=> Live(q)) /\ worker'[q].card = worker[q].card
      BY <1>4, WorkerMoves, WorkerMoved
    <2>2. worker[p].card \in Cards
      BY <1>1, <2>1
    <2>3. card' \in [Cards -> Row] /\ earned' \subseteq Cards
      BY <1>4, <2>2, StatusWritten
      DEF TypeOK, WorkerStep, Submit, SubmitFails, TaskCompletes, PollCompleted, GiveUp,
          ReportCompleted, ReportFailed, Report, Statuses
    <2> QED BY <1>2, <2>1, <2>3 DEF TypeOK, Live
  <1> QED BY <1>3, <1>4

LEMMA BrainTyped == ASSUME TypeOK, Crash \/ Boot PROVE TypeOK'
  <1>1. \A at \in {"down", "reap"} : Loop(at) \in Tick /\ Loop(at).at = at
    BY LoopBegins DEF Points
  <1>2. CASE Crash
    <2>1. /\ worker' \in [Pids -> Worker]
          /\ \A q \in Pids : worker'[q].stage = worker[q].stage /\ worker'[q].card = worker[q].card
      BY <1>2, WorkersOrphaned
    <2> QED BY <1>1, <1>2, <2>1 DEF TypeOK, Crash
  <1>3. CASE Boot
    BY <1>1, <1>3 DEF TypeOK, Boot
  <1> QED BY <1>2, <1>3

LEMMA StepTyped == TypeOK /\ [Next]_vars => TypeOK'
  <1> SUFFICES ASSUME TypeOK, [Next]_vars PROVE TypeOK'
    OBVIOUS
  <1>1. CASE UNCHANGED vars
    BY <1>1 DEF vars, TypeOK
  <1> QED BY <1>1, CreateTyped, ReclaimTyped, DispatchTyped, WorkerTyped, BrainTyped DEF Next, Turn

\* The board, the loop and the workers are of the kind the code means them to be.
THEOREM TypeCorrect == Spec => []TypeOK
  BY Initially, StepTyped, PTL DEF Spec

------------------------------------------------------------------------------
(* One worker on a card.                                                    *)

LEMMA InitApart == Init => Apart
  <1> SUFFICES ASSUME Init PROVE Apart
    OBVIOUS
  <1>1. TypeOK
    BY Initially
  <1>2. tick.at = "reap" /\ \A p \in Pids : ~Live(p)
    BY DEF Init, Loop, Gone, Live
  <1> QED BY <1>1, <1>2 DEF Apart, OneEach, Named, InHand, HandsFree, JustSpawned, RowsHold, Counted

\* A card that counts a worker, or is in hand, has been created.
LEMMA CreateApart == ASSUME Apart, NEW c \in Cards, Create(c) PROVE OneEach'
  <1>1. /\ card[c].status = "none"
        /\ \A d \in Cards : card'[d].pid = card[d].pid
        /\ \A d \in Cards : d # c => card'[d] = card[d]
        /\ UNCHANGED <<tick, worker>>
    BY StatusWritten DEF Apart, Create, Statuses
  <1>2. \A p \in Pids : (Counted(p)' <=> Counted(p)) /\ (Counted(p) => worker[p].card \in Cards)
    BY <1>1 DEF Counted, Live, Apart, TypeOK
  <1>3. tick.at \in {"spawn", "refuse", "record", "mark"} => tick.card \in Cards \ {c}
    BY <1>1 DEF Apart, OneEach, InHand, TypeOK
  <1>4. \A p \in Pids : Counted(p) => worker[p].card # c
    BY <1>1 DEF Apart, OneEach, Named
  <1>5. \A row \in tick.rows : row[1] \in Cards
    BY DEF Apart, TypeOK, Tick
  <1>6. Named'
    BY <1>1, <1>2, <1>4 DEF Apart, OneEach, Named, BeingRecorded
  <1>7. InHand'
    BY <1>1, <1>3 DEF Apart, OneEach, InHand
  <1>8. RowsHold'
    BY <1>1, <1>5 DEF Apart, OneEach, RowsHold
  <1>9. HandsFree' /\ JustSpawned'
    BY <1>1, <1>2 DEF Apart, OneEach, HandsFree, JustSpawned, Live
  <1> QED BY <1>6, <1>7, <1>8, <1>9 DEF OneEach

\* The reclaiming half of a turn starts no worker and has no card in hand.
LEMMA ReclaimApart == ASSUME Apart, Reap \/ List \/ Judge \/ JudgeDone PROVE OneEach'
  <1>1. /\ tick \in Tick /\ UNCHANGED worker
        /\ tick.at \in {"reap", "list", "judge"}
    BY DEF Apart, TypeOK, Reap, List, Judge, JudgeDone
  <1>2. \A p \in Pids : (Counted(p)' <=> Counted(p)) /\ (Counted(p) => worker[p].card \in Cards)
    BY <1>1 DEF Counted, Live, Apart, TypeOK
  <1>3. \A p \in Pids : Counted(p) =>
            /\ card[worker[p].card].status \notin {"none", "pending"}
            /\ card[worker[p].card].pid = p
    BY <1>1 DEF Apart, OneEach, Named, BeingRecorded
  <1>4. CASE Reap
    <2>1. tick'.at = "list" /\ UNCHANGED card
      BY <1>1, <1>4, LoopGoesOn DEF Reap, Points
    <2> QED BY <1>1, <1>2, <1>3, <2>1 DEF OneEach, Named, InHand, HandsFree, JustSpawned, RowsHold
  <1>5. CASE List
    <2> DEFINE R == {<<c, card[c].pid>> : c \in Reclaimable}
    <2>1. R \in SUBSET (Cards \X PidOrNone)
      BY DEF Apart, TypeOK, Reclaimable, Row, PidOrNone
    <2>2. tick'.at = "judge" /\ tick'.rows = R /\ UNCHANGED card
      BY <1>1, <1>5, <2>1, LoopReads DEF List
    <2>3. \A row \in R : card[row[1]].pid = row[2]
      OBVIOUS
    <2> QED BY <1>1, <1>2, <1>3, <2>2, <2>3
            DEF OneEach, Named, InHand, HandsFree, JustSpawned, RowsHold
  <1>6. CASE Judge
    <2>1. PICK row \in tick.rows :
            /\ IF Alive(row[2]) THEN UNCHANGED card ELSE Release(row)
            /\ tick' = [tick EXCEPT !.rows = @ \ {row}]
      BY <1>6 DEF Judge
    <2>2. tick'.at = "judge" /\ tick'.rows = tick.rows \ {row}
      BY <1>1, <1>6, <2>1, LoopJudges DEF Judge
    <2>3. /\ row \in Cards \X PidOrNone /\ row[1] \in Cards
          /\ \A other \in tick.rows : other \in Cards \X PidOrNone
          /\ \A other \in tick.rows : card[other[1]].pid = other[2]
      BY <1>1, <1>6, <2>1 DEF Apart, OneEach, RowsHold, Tick, PidOrNone, Judge
    <2>4. CASE Alive(row[2])
      BY <1>1, <1>2, <1>3, <2>1, <2>2, <2>3, <2>4
      DEF OneEach, Named, InHand, HandsFree, JustSpawned, RowsHold
    <2>5. CASE ~Alive(row[2])
      <3>1. \A d \in Cards : d # row[1] => card'[d] = card[d]
        BY <2>1, <2>3, <2>5, RowWritten DEF Release, Apart, Statuses
      <3>2. \A p \in Pids : Counted(p) => worker[p].card # row[1]
        <4> SUFFICES ASSUME NEW p \in Pids, Counted(p), worker[p].card = row[1] PROVE FALSE
          OBVIOUS
        <4>1. row[2] = p
          BY <1>3, <2>1, <2>3
        <4> QED BY <2>5, <4>1, KanbanAssumption DEF Alive, Counted
      <3>3. \A other \in tick'.rows : other[1] # row[1]
        <4> SUFFICES ASSUME NEW other \in tick.rows, other # row, other[1] = row[1] PROVE FALSE
          BY <2>2
        <4>1. other[2] = row[2]
          BY <2>1, <2>3
        <4>2. other = <<other[1], other[2]>> /\ row = <<row[1], row[2]>>
          BY <2>3
        <4> QED BY <4>1, <4>2
      <3>4. Named'
        BY <1>1, <1>2, <1>3, <3>1, <3>2 DEF Named
      <3>5. RowsHold'
        BY <2>2, <2>3, <3>1, <3>3 DEF RowsHold
      <3>6. InHand' /\ HandsFree' /\ JustSpawned'
        BY <2>2 DEF InHand, HandsFree, JustSpawned
      <3> QED BY <3>4, <3>5, <3>6 DEF OneEach
    <2> QED BY <2>4, <2>5
  <1>7. CASE JudgeDone
    <2>1. tick'.at = "select" /\ UNCHANGED card
      BY <1>1, <1>7, LoopGoesOn DEF JudgeDone, Points
    <2> QED BY <1>1, <1>2, <1>3, <2>1 DEF OneEach, Named, InHand, HandsFree, JustSpawned, RowsHold
  <1> QED BY <1>4, <1>5, <1>6, <1>7

\* A claim is taken on a pending card, which counts no worker.
LEMMA ClaimApart == ASSUME Apart, Select \/ Rest \/ Claim \/ SpawnRaises PROVE OneEach'
  <1>1. /\ tick \in Tick /\ UNCHANGED worker
        /\ tick.at \in {"select", "claim", "spawn"}
    BY DEF Apart, TypeOK, Select, Rest, Claim, SpawnRaises
  <1>2. \A p \in Pids : (Counted(p)' <=> Counted(p)) /\ (Counted(p) => worker[p].card \in Cards)
    BY <1>1 DEF Counted, Live, Apart, TypeOK
  <1>3. \A p \in Pids : Counted(p) =>
            /\ card[worker[p].card].status \notin {"none", "pending"}
            /\ card[worker[p].card].pid = p
    BY <1>1 DEF Apart, OneEach, Named, BeingRecorded
  <1>4. CASE tick' = Loop("reap") /\ UNCHANGED card
    <2>1. tick'.at = "reap"
      BY <1>4, LoopBegins DEF Points
    <2> QED BY <1>1, <1>2, <1>3, <1>4, <2>1
            DEF OneEach, Named, InHand, HandsFree, JustSpawned, RowsHold
  <1>5. CASE Select
    <2>1. PICK c \in Cards : tick' = [tick EXCEPT !.at = "claim", !.card = c]
      BY <1>5 DEF Select
    <2>2. tick'.at = "claim" /\ UNCHANGED card
      BY <1>1, <1>5, <2>1, LoopTakes DEF Select
    <2> QED BY <1>1, <1>2, <1>3, <2>2 DEF OneEach, Named, InHand, HandsFree, JustSpawned, RowsHold
  <1>6. CASE Claim /\ Claimable(tick.card)
    <2>1. tick.card \in Cards /\ tick' = [tick EXCEPT !.at = "spawn"]
      BY <1>6 DEF Claim, Apart, TypeOK
    <2>2. tick'.at = "spawn" /\ tick'.card = tick.card
      BY <1>1, <2>1, LoopGoesOn DEF Points
    <2>3. /\ card'[tick.card].status = "claimed"
          /\ \A d \in Cards : d # tick.card => card'[d] = card[d]
      BY <1>6, <2>1, RowWritten DEF Claim, Statuses, Apart
    <2>4. \A p \in Pids : Counted(p) => worker[p].card # tick.card
      BY <1>3, <1>6 DEF Claimable
    <2> QED BY <1>1, <1>2, <1>3, <2>1, <2>2, <2>3, <2>4
            DEF OneEach, Named, InHand, HandsFree, JustSpawned, RowsHold
  <1>7. CASE SpawnRaises
    <2>1. tick'.at = "refuse" /\ tick'.card = tick.card /\ UNCHANGED card
      BY <1>1, <1>7, LoopGoesOn DEF SpawnRaises, Points
    <2>2. card[tick.card].status \notin {"none", "pending"}
      BY <1>7 DEF SpawnRaises, Apart, OneEach, InHand
    <2> QED BY <1>1, <1>2, <1>3, <2>1, <2>2
            DEF OneEach, Named, InHand, HandsFree, JustSpawned, RowsHold
  <1> QED BY <1>4, <1>5, <1>6, <1>7 DEF Rest, Claim

\* A worker is spawned for a card that counts none, and is the one whose pid is written.
LEMMA SpawnApart == ASSUME Apart, Spawn PROVE OneEach'
  <1>1. /\ tick \in Tick /\ tick.at = "spawn" /\ tick.card \in Cards
        /\ UNCHANGED card
        /\ card[tick.card].status \notin {"none", "pending"}
    BY DEF Apart, TypeOK, OneEach, InHand, Spawn
  <1>2. PICK p \in Pids :
            /\ ~Live(p)
            /\ worker' = [worker EXCEPT ![p] = Spawned(tick.card)]
            /\ tick' = [tick EXCEPT !.at = "record", !.pid = p]
    BY DEF Spawn, Unused, Spawned
  <1>3. tick'.at = "record" /\ tick'.pid = p /\ tick'.card = tick.card
    BY <1>1, <1>2, LoopSpawns
  <1>4. /\ worker'[p].card = tick.card /\ ~worker'[p].known
        /\ \A q \in Pids : q # p => worker'[q] = worker[q]
    BY <1>1, <1>2, WorkerSpawned, SpawnedIs DEF Apart
  <1>5. \A q \in Pids : q # p /\ Counted(q)' =>
            /\ Counted(q)
            /\ worker[q].card # tick.card
            /\ card[worker[q].card].status \notin {"none", "pending"}
            /\ card[worker[q].card].pid = q
    BY <1>1, <1>4 DEF Counted, Live, Apart, OneEach, Named, HandsFree, BeingRecorded
  <1>6. Named'
    BY <1>1, <1>3, <1>4, <1>5 DEF Named, BeingRecorded
  <1>7. HandsFree'
    BY <1>3, <1>4, <1>5 DEF HandsFree
  <1> QED BY <1>1, <1>3, <1>4, <1>6, <1>7 DEF OneEach, InHand, JustSpawned, RowsHold

\* The last statements of a turn, on the card in hand.
LEMMA HandedApart == ASSUME Apart, Refuse \/ Record \/ Mark PROVE OneEach'
  <1>1. /\ tick \in Tick /\ tick.card \in Cards
        /\ tick.at = "record" => tick.pid \in Pids
        /\ card[tick.card].status \notin {"none", "pending"}
    BY DEF Apart, TypeOK, OneEach, InHand, Refuse, Record, Mark
  <1>2. CASE Refuse \/ Mark
    <2>1. PICK s \in {"failed", "in_progress"} :
            card' = [card EXCEPT ![tick.card].status = s]
      BY <1>2 DEF Refuse, Mark
    <2>2. /\ card'[tick.card].status = s
          /\ \A d \in Cards : card'[d].pid = card[d].pid
          /\ \A d \in Cards : d # tick.card => card'[d] = card[d]
      BY <1>1, <2>1, StatusWritten DEF Statuses, Apart
    <2>3. tick'.at = "reap" /\ tick.at # "record" /\ UNCHANGED worker
      BY <1>2, LoopBegins DEF Refuse, Mark, Points
    <2>4. \A p \in Pids : Counted(p)' =>
            /\ worker[p].card \in Cards
            /\ card[worker[p].card].status \notin {"none", "pending"}
            /\ card[worker[p].card].pid = p
      BY <2>3 DEF Counted, Live, Apart, TypeOK, OneEach, Named, BeingRecorded
    <2> QED BY <2>2, <2>3, <2>4 DEF OneEach, Named, InHand, HandsFree, JustSpawned, RowsHold
  <1>3. CASE Record
    <2>1. /\ card'[tick.card].pid = tick.pid
          /\ \A d \in Cards : card'[d].status = card[d].status
          /\ \A d \in Cards : d # tick.card => card'[d] = card[d]
      BY <1>1, <1>3, PidWritten DEF Record, PidOrNone, Apart
    <2>2. tick'.at = "mark" /\ tick'.card = tick.card
      BY <1>1, <1>3, LoopGoesOn DEF Record, Points
    <2>3. /\ \A q \in Pids : /\ worker'[q].card = worker[q].card
                             /\ worker'[q].orphan = worker[q].orphan
                             /\ Live(q)' <=> Live(q)
          /\ \A q \in Pids : q # tick.pid => worker'[q] = worker[q]
      BY <1>1, <1>3, PidKnown DEF Record, Apart
    <2>4. \A q \in Pids : q # tick.pid /\ Counted(q)' =>
            /\ Counted(q)
            /\ worker[q].card \in Cards /\ worker[q].card # tick.card
            /\ card[worker[q].card].status \notin {"none", "pending"}
            /\ card[worker[q].card].pid = q
      BY <1>3, <2>3
      DEF Counted, Live, Apart, TypeOK, OneEach, Named, HandsFree, BeingRecorded, Record
    <2>5. Live(tick.pid) => worker[tick.pid].card = tick.card
      BY <1>3 DEF Record, Apart, OneEach, JustSpawned
    <2>6. Named'
      <3> SUFFICES ASSUME NEW q \in Pids, Counted(q)'
                   PROVE  /\ card'[worker'[q].card].status \notin {"none", "pending"}
                          /\ card'[worker'[q].card].pid = q
        BY DEF Named
      <3>1. CASE q = tick.pid
        <4>1. Live(q)'
          BY Zenon DEF Counted
        <4>2. Live(q)
          BY <2>3, <4>1, Zenon
        <4>3. worker'[q].card = tick.card
          BY <2>3, <2>5, <3>1, <4>2
        <4> QED BY <1>1, <2>1, <3>1, <4>3
      <3>2. CASE q # tick.pid
        BY <2>1, <2>3, <2>4, <3>2
      <3> QED BY <3>1, <3>2
    <2> QED BY <1>1, <2>1, <2>2, <2>6 DEF OneEach, InHand, HandsFree, JustSpawned, RowsHold
  <1> QED BY <1>2, <1>3

\* A worker moves on, reports or ends: it never writes a pid and never makes a card pending.
LEMMA WorkerApart == ASSUME Apart, NEW p \in Pids, WorkerStep(p) PROVE OneEach'
  <1>1. UNCHANGED tick
    BY DEF WorkerStep, Submit, SubmitFails, TaskCompletes, PollCompleted, GiveUp, ReportCompleted,
           ReportFailed, Report, Exit
  <1>2. \A q \in Pids : Live(q)' =>
            /\ Live(q) /\ worker[q].card \in Cards /\ worker'[q].card = worker[q].card
            /\ worker'[q].known = worker[q].known
            /\ Counted(q)' <=> Counted(q)
    <2>1. CASE Exit(p)
      BY <2>1, WorkerGone DEF Apart, TypeOK, Live, Counted
    <2>2. CASE ~Exit(p)
      <3>1. \A q \in Pids : /\ Live(q)' <=> Live(q)
                            /\ worker'[q].card = worker[q].card
                            /\ worker'[q].orphan = worker[q].orphan
                            /\ worker'[q].known = worker[q].known
        BY <2>2, WorkerMoves, WorkerMoved DEF Apart
      <3> QED BY <3>1 DEF Apart, TypeOK, Live, Counted
    <2> QED BY <2>1, <2>2
  <1>3. \A d \in Cards :
            /\ card'[d].pid = card[d].pid
            /\ card'[d].status = card[d].status \/ card'[d].status \in Settled
    <2>1. CASE UNCHANGED card
      BY <2>1
    <2>2. CASE ReportCompleted(p) \/ ReportFailed(p)
      <3>1. PICK s \in Settled : card' = [card EXCEPT ![worker[p].card].status = s]
        BY <2>2 DEF ReportCompleted, ReportFailed, Report, Settled
      <3>2. worker[p].card \in Cards
        BY <2>2 DEF ReportCompleted, ReportFailed, Report, Moves, Apart, TypeOK
      <3> QED BY <3>1, <3>2, StatusWritten DEF Settled, Statuses, Apart
    <2> QED BY <2>1, <2>2 DEF WorkerStep, Submit, SubmitFails, TaskCompletes, PollCompleted, GiveUp, Exit
  <1>4. \A d \in Cards : card[d].status \notin {"none", "pending"}
                            => card'[d].status \notin {"none", "pending"}
    BY <1>3 DEF Settled
  <1>5. \A q \in Pids : Counted(q)' => Counted(q) /\ Live(q)'
    BY <1>2 DEF Counted
  <1>6. Named'
    BY <1>1, <1>2, <1>3, <1>4, <1>5 DEF Apart, OneEach, Named, BeingRecorded
  <1>7. InHand'
    BY <1>1, <1>4 DEF Apart, OneEach, TypeOK, InHand
  <1>8. HandsFree'
    BY <1>1, <1>2, <1>5 DEF Apart, OneEach, HandsFree
  <1>9. JustSpawned'
    BY <1>1, <1>2 DEF Apart, OneEach, TypeOK, JustSpawned
  <1>10. RowsHold'
    BY <1>1, <1>3 DEF Apart, OneEach, TypeOK, Tick, RowsHold
  <1> QED BY <1>6, <1>7, <1>8, <1>9, <1>10 DEF OneEach

\* The Brain goes down or comes back: a worker whose pid was not written counts no longer.
LEMMA BrainApart == ASSUME Apart, Crash \/ Boot PROVE OneEach'
  <1>1. tick'.at \in {"down", "reap"} /\ UNCHANGED card
    BY LoopBegins DEF Crash, Boot, Points
  <1>2. \A p \in Pids : Counted(p)' =>
            /\ Counted(p) /\ worker[p].card \in Cards
            /\ worker'[p].card = worker[p].card
            /\ BeingRecorded(p) => tick.pid = p /\ Live(p) /\ worker[p].known /\ tick.at = "record"
    <2>1. CASE Crash
      BY <2>1, WorkersOrphaned DEF Counted, Apart, TypeOK, Live, BeingRecorded
    <2>2. CASE Boot
      BY <2>2 DEF Boot, Counted, Apart, TypeOK, Live, BeingRecorded, Up
    <2> QED BY <2>1, <2>2
  <1>3. \A p \in Pids : Counted(p)' =>
            /\ card[worker[p].card].status \notin {"none", "pending"}
            /\ card[worker[p].card].pid = p
    BY <1>2 DEF Apart, OneEach, Named, JustSpawned
  <1> QED BY <1>1, <1>2, <1>3 DEF OneEach, Named, InHand, HandsFree, JustSpawned, RowsHold

LEMMA StepApart == Apart /\ [Next]_vars => Apart'
  <1> SUFFICES ASSUME Apart, [Next]_vars PROVE Apart'
    OBVIOUS
  <1>1. TypeOK'
    BY StepTyped DEF Apart
  <1>2. CASE UNCHANGED vars
    BY <1>2 DEF vars, Apart, TypeOK, OneEach, Named, InHand, HandsFree, JustSpawned, RowsHold,
                Counted, BeingRecorded, Live
  <1>3. CASE Next
    <2>1. OneEach'
      BY <1>3, CreateApart, ReclaimApart, ClaimApart, SpawnApart, HandedApart, WorkerApart, BrainApart
      DEF Next, Turn
    <2> QED BY <1>1, <2>1 DEF Apart
  <1> QED BY <1>2, <1>3

\* No two processes work on one card, however the loop, the workers' reports and the
\* restarts of the Brain interleave, but for one left over by a Brain that went down between
\* spawning it and writing its pid (claim_next, reclaim_stale, _record_worker_pid).
THEOREM WorkersApart == Spec => []OneWorker
  <1>1. Apart => OneWorker
    <2> SUFFICES ASSUME Apart, NEW p \in Pids, NEW q \in Pids, p # q, Live(p), Live(q),
                        worker[p].card = worker[q].card, Counted(p), Counted(q)
                 PROVE  FALSE
      BY DEF OneWorker, Counted, Apart, TypeOK, Worker
    <2>1. BeingRecorded(p) \/ BeingRecorded(q)
      BY DEF Apart, OneEach, Named
    <2> QED BY <2>1 DEF Apart, OneEach, HandsFree, JustSpawned, BeingRecorded
  <1> QED BY <1>1, InitApart, StepApart, PTL DEF Spec

------------------------------------------------------------------------------
(* A completed card is earned.                                              *)

LEMMA StepEarning == Earning /\ [Next]_vars => Earning'
  <1> SUFFICES ASSUME Earning, [Next]_vars PROVE Ran' /\ CompletionIsEarned'
    BY StepTyped DEF Earning
  <1>1. CASE UNCHANGED vars
    BY <1>1 DEF vars, Earning, Ran, CompletionIsEarned
  <1>2. ASSUME NEW c \in Cards, Create(c)
        PROVE  Ran' /\ CompletionIsEarned'
    BY <1>2, StatusWritten DEF Create, Earning, Ran, CompletionIsEarned, Statuses
  <1>3. CASE Judge
    <2>1. UNCHANGED <<worker, earned>>
      BY <1>3 DEF Judge
    <2>2. ASSUME NEW row \in tick.rows, Release(row)
          PROVE  \A d \in Cards : card'[d] = card[d] \/ card'[d].status = "pending"
      BY <2>2, RowWritten DEF Release, Earning, TypeOK, Tick, Statuses
    <2> QED BY <1>3, <2>1, <2>2 DEF Judge, Earning, Ran, CompletionIsEarned
  <1>4. CASE Reap \/ List \/ JudgeDone \/ Select \/ Rest \/ SpawnRaises \/ Boot
    BY <1>4 DEF Reap, List, JudgeDone, Select, Rest, SpawnRaises, Boot, Earning, Ran, CompletionIsEarned
  <1>5. CASE Claim
    <2>1. UNCHANGED <<worker, earned>> /\ tick.card \in Cards
      BY <1>5 DEF Claim, Earning, TypeOK
    <2>2. \A d \in Cards : card'[d] = card[d] \/ card'[d].status = "claimed"
      BY <1>5, <2>1, RowWritten DEF Claim, Earning, Statuses
    <2> QED BY <2>1, <2>2 DEF Earning, Ran, CompletionIsEarned
  <1>6. CASE Spawn
    <2>1. UNCHANGED <<card, earned>> /\ tick.card \in Cards
      BY <1>6 DEF Spawn, Earning, TypeOK
    <2>2. PICK p \in Pids : ~Live(p) /\ worker' = [worker EXCEPT ![p] = Spawned(tick.card)]
      BY <1>6 DEF Spawn, Unused, Spawned
    <2>3. /\ worker'[p].stage = "submit"
          /\ \A q \in Pids : q # p => worker'[q] = worker[q]
      BY <2>1, <2>2, WorkerSpawned, SpawnedIs DEF Earning
    <2> QED BY <2>1, <2>3 DEF Earning, Ran, CompletionIsEarned
  <1>7. CASE Refuse \/ Mark
    <2>1. UNCHANGED <<worker, earned>> /\ tick.card \in Cards
      BY <1>7 DEF Refuse, Mark, Earning, TypeOK
    <2>2. \A d \in Cards : card'[d] = card[d] \/ card'[d].status # "completed"
      BY <1>7, <2>1, StatusWritten DEF Refuse, Mark, Earning, Statuses
    <2> QED BY <2>1, <2>2 DEF Earning, Ran, CompletionIsEarned
  <1>8. CASE Record
    <2>1. UNCHANGED earned /\ tick.card \in Cards /\ tick.pid \in Pids
      BY <1>8 DEF Record, Earning, TypeOK
    <2>2. \A d \in Cards : card'[d].status = card[d].status
      BY <1>8, <2>1, PidWritten DEF Record, PidOrNone, Earning
    <2>3. \A q \in Pids : worker'[q].stage = worker[q].stage /\ worker'[q].card = worker[q].card
      BY <1>8, <2>1, PidKnown DEF Record, Earning
    <2> QED BY <2>1, <2>2, <2>3 DEF Earning, Ran, CompletionIsEarned
  <1>9. CASE Crash
    <2>1. \A q \in Pids : worker'[q].stage = worker[q].stage /\ worker'[q].card = worker[q].card
      BY <1>9, WorkersOrphaned DEF Earning
    <2> QED BY <1>9, <2>1 DEF Crash, Earning, Ran, CompletionIsEarned
  <1>10. ASSUME NEW p \in Pids, Exit(p)
         PROVE  Ran' /\ CompletionIsEarned'
    BY <1>10, WorkerGone DEF Exit, Gone, Earning, Ran, CompletionIsEarned
  <1>11. ASSUME NEW p \in Pids, WorkerStep(p), ~Exit(p)
         PROVE  Ran' /\ CompletionIsEarned'
    <2>1. PICK from \in Stages \ {"gone"}, to \in Stages \ {"gone"} : Moves(p, from, to)
      BY <1>11, WorkerMoves DEF Earning
    <2>2. /\ Live(p) /\ worker[p].stage = from /\ worker'[p].stage = to
          /\ \A q \in Pids : worker'[q].card = worker[q].card
          /\ \A q \in Pids : q # p => worker'[q].stage = worker[q].stage
      BY <2>1, WorkerMoved DEF Earning
    <2>3. worker[p].card \in Cards /\ earned \subseteq earned'
      BY <1>11, <2>2
      DEF Earning, TypeOK, Live, WorkerStep, Submit, SubmitFails, TaskCompletes, PollCompleted,
          GiveUp, ReportCompleted, ReportFailed, Report
    <2>4. worker'[p].stage \in {"ran", "complete"} => worker[p].card \in earned'
      <3>1. CASE TaskCompletes(p)
        BY <3>1 DEF TaskCompletes
      <3>2. CASE PollCompleted(p)
        BY <3>2 DEF PollCompleted, Moves, Earning, Ran
      <3>3. CASE Submit(p) \/ SubmitFails(p) \/ GiveUp(p) \/ ReportCompleted(p) \/ ReportFailed(p)
        <4>1. \E stage \in {"poll", "fail", "exit"} : worker' = [worker EXCEPT ![p].stage = stage]
          BY <3>3 DEF Submit, SubmitFails, GiveUp, ReportCompleted, ReportFailed, Report, Moves
        <4>2. worker \in [Pids -> Worker]
          BY DEF Earning, TypeOK
        <4>3. worker'[p].stage \in {"poll", "fail", "exit"}
          BY <4>1, <4>2 DEF Worker
        <4> QED BY <4>3
      <3> QED BY <1>11, <3>1, <3>2, <3>3 DEF WorkerStep
    <2>5. CompletionIsEarned'
      <3>1. CASE ReportCompleted(p)
        <4>1. worker[p].card \in earned
          BY <3>1 DEF ReportCompleted, Report, Moves, Earning, Ran
        <4>2. \A d \in Cards : d # worker[p].card => card'[d] = card[d]
          BY <2>3, <3>1, StatusWritten DEF ReportCompleted, Report, Earning, Statuses
        <4> QED BY <2>3, <4>1, <4>2 DEF Earning, CompletionIsEarned
      <3>2. CASE ReportFailed(p)
        <4>1. \A d \in Cards : card'[d] = card[d] \/ card'[d].status = "failed"
          BY <2>3, <3>2, StatusWritten DEF ReportFailed, Report, Earning, Statuses
        <4> QED BY <2>3, <4>1 DEF Earning, CompletionIsEarned
      <3>3. CASE Submit(p) \/ SubmitFails(p) \/ TaskCompletes(p) \/ PollCompleted(p) \/ GiveUp(p)
        <4>1. UNCHANGED card
          BY <3>3 DEF Submit, SubmitFails, TaskCompletes, PollCompleted, GiveUp
        <4> QED BY <2>3, <4>1 DEF Earning, CompletionIsEarned
      <3> QED BY <1>11, <3>1, <3>2, <3>3 DEF WorkerStep
    <2>6. Ran'
      BY <2>2, <2>3, <2>4 DEF Earning, Ran
    <2> QED BY <2>5, <2>6
  <1> QED BY <1>1, <1>2, <1>3, <1>4, <1>5, <1>6, <1>7, <1>8, <1>9, <1>10, <1>11
          DEF Next, Turn

\* A card says completed only if a task for it was, whichever worker reports, however late
\* and to whichever Brain (complete_card, run_worker).
THEOREM CompletionsEarned == Spec => []CompletionIsEarned
  <1>1. Init => Earning
    BY Initially DEF Init, Earning, Ran, CompletionIsEarned, Gone
  <1>2. Earning => CompletionIsEarned
    BY DEF Earning
  <1> QED BY <1>1, <1>2, StepEarning, PTL DEF Spec

------------------------------------------------------------------------------
(* A settled card is at rest.                                               *)

RestsAtStep == \A c \in Cards : AtRest(c) => AtRest(c)' /\ UNCHANGED card[c]

\* The processes of other cards.
Elsewhere(c) == \A p \in Pids : Live(p) => worker[p].card # c

LEMMA LoopRests ==
    ASSUME TypeOK, Turn, NEW c \in Cards, AtRest(c)
    PROVE  UNCHANGED card[c] /\ tick'.card # c /\ \A row \in tick'.rows : row[1] # c
  <1>1. /\ tick \in Tick /\ card[c].status \in Settled /\ tick.card # c /\ c # NoCard
        /\ \A row \in tick.rows : row \in Cards \X PidOrNone /\ row[1] # c
        /\ tick.at \in {"claim", "spawn", "refuse", "record", "mark"} => tick.card \in Cards
        /\ tick.at \in {"record", "mark"} => tick.pid \in Pids
    BY KanbanAssumption DEF TypeOK, AtRest, Tick, NoCard, PidOrNone
  <1>2. Loop("reap").rows = {} /\ Loop("reap").card = NoCard
    BY LoopBegins DEF Points
  <1>3. CASE tick' = Loop("reap") /\ UNCHANGED card
    BY <1>1, <1>2, <1>3
  <1>4. CASE Reap \/ JudgeDone \/ SpawnRaises
    <2>1. PICK at \in Points : tick' = [tick EXCEPT !.at = at]
      BY <1>4 DEF Reap, JudgeDone, SpawnRaises, Points
    <2>2. tick'.rows = tick.rows /\ tick'.card = tick.card
      BY <1>1, <2>1, LoopGoesOn
    <2>3. UNCHANGED card
      BY <1>4 DEF Reap, JudgeDone, SpawnRaises
    <2> QED BY <1>1, <2>2, <2>3
  <1>5. CASE List
    <2> DEFINE R == {<<d, card[d].pid>> : d \in Reclaimable}
    <2>1. R \in SUBSET (Cards \X PidOrNone)
      BY DEF TypeOK, Reclaimable, Row, PidOrNone
    <2>2. tick'.rows = R /\ tick'.card = tick.card /\ UNCHANGED card
      BY <1>1, <1>5, <2>1, LoopReads DEF List
    <2>3. c \notin Reclaimable
      BY <1>1 DEF Reclaimable, Settled, Active
    <2>4. \A row \in R : row[1] # c
      BY <2>3
    <2> QED BY <1>1, <2>2, <2>4
  <1>6. CASE Judge
    <2>1. PICK row \in tick.rows :
            /\ IF Alive(row[2]) THEN UNCHANGED card ELSE Release(row)
            /\ tick' = [tick EXCEPT !.rows = @ \ {row}]
      BY <1>6 DEF Judge
    <2>2. tick'.rows = tick.rows \ {row} /\ tick'.card = tick.card
      BY <1>1, <2>1, LoopJudges
    <2>3. row[1] \in Cards /\ row[1] # c
      BY <1>1, <2>1
    <2>4. card'[c] = card[c]
      BY <2>1, <2>3, RowWritten DEF Release, Statuses
    <2> QED BY <1>1, <2>2, <2>4
  <1>7. CASE Select
    <2>1. PICK d \in Cards : Oldest(d) /\ tick' = [tick EXCEPT !.at = "claim", !.card = d]
      BY <1>7 DEF Select
    <2>2. tick'.rows = tick.rows /\ tick'.card = d
      BY <1>1, <2>1, LoopTakes
    <2>3. card[d].status = "pending" /\ UNCHANGED card
      BY <1>7, <2>1 DEF Oldest, Pending, Select
    <2> QED BY <1>1, <2>2, <2>3 DEF Settled
  <1>8. CASE Claim /\ Claimable(tick.card)
    <2>1. tick.card \in Cards /\ tick' = [tick EXCEPT !.at = "spawn"]
      BY <1>1, <1>8 DEF Claim
    <2>2. tick'.rows = tick.rows /\ tick'.card = tick.card
      BY <1>1, <2>1, LoopGoesOn DEF Points
    <2>3. card'[c] = card[c]
      BY <1>1, <1>8, <2>1, RowWritten DEF Claim, Statuses
    <2> QED BY <1>1, <2>2, <2>3
  <1>9. CASE Spawn
    <2>1. PICK p \in Pids : tick' = [tick EXCEPT !.at = "record", !.pid = p]
      BY <1>9 DEF Spawn
    <2>2. tick'.rows = tick.rows /\ tick'.card = tick.card /\ UNCHANGED card
      BY <1>1, <1>9, <2>1, LoopSpawns DEF Spawn
    <2> QED BY <1>1, <2>2
  <1>10. CASE Refuse \/ Mark
    <2>1. /\ tick.card \in Cards /\ tick' = Loop("reap")
          /\ \E s \in {"failed", "in_progress"} : card' = [card EXCEPT ![tick.card].status = s]
      BY <1>1, <1>10 DEF Refuse, Mark
    <2>2. card'[c] = card[c]
      BY <1>1, <2>1, StatusWritten DEF Statuses
    <2> QED BY <1>1, <1>2, <2>1, <2>2
  <1>11. CASE Record
    <2>1. tick.card \in Cards /\ tick.pid \in Pids /\ tick' = [tick EXCEPT !.at = "mark"]
      BY <1>1, <1>11 DEF Record
    <2>2. tick'.rows = tick.rows /\ tick'.card = tick.card
      BY <1>1, <2>1, LoopGoesOn DEF Points
    <2>3. card'[c] = card[c]
      BY <1>1, <1>11, <2>1, PidWritten DEF Record, PidOrNone
    <2> QED BY <1>1, <2>2, <2>3
  <1> QED BY <1>3, <1>4, <1>5, <1>6, <1>7, <1>8, <1>9, <1>10, <1>11 DEF Turn, Rest, Claim

LEMMA NobodyComes ==
    ASSUME TypeOK, Turn, NEW c \in Cards, AtRest(c)
    PROVE  Elsewhere(c)'
  <1>1. Elsewhere(c) /\ tick.card # c
    BY DEF AtRest, Elsewhere
  <1>2. CASE UNCHANGED worker
    BY <1>1, <1>2 DEF Elsewhere, Live
  <1>3. CASE Spawn
    <2>1. tick.card \in Cards
      BY <1>3 DEF Spawn, TypeOK
    <2>2. PICK p \in Pids : ~Live(p) /\ worker' = [worker EXCEPT ![p] = Spawned(tick.card)]
      BY <1>3 DEF Spawn, Unused, Spawned
    <2>3. worker'[p].card = tick.card /\ \A q \in Pids : q # p => worker'[q] = worker[q]
      BY <2>1, <2>2, WorkerSpawned, SpawnedIs
    <2> QED BY <1>1, <2>3 DEF Elsewhere, Live
  <1>4. CASE Record
    <2>1. \A q \in Pids : worker'[q].card = worker[q].card /\ (Live(q)' <=> Live(q))
      BY <1>4, PidKnown DEF Record, TypeOK
    <2> QED BY <1>1, <2>1 DEF Elsewhere
  <1> QED BY <1>2, <1>3, <1>4
          DEF Turn, Reap, List, Judge, JudgeDone, Select, Rest, Claim, SpawnRaises, Refuse, Mark

LEMMA StepRests == TypeOK /\ [Next]_vars => RestsAtStep
  <1> SUFFICES ASSUME TypeOK, [Next]_vars, NEW c \in Cards, AtRest(c)
               PROVE  AtRest(c)' /\ UNCHANGED card[c]
    BY DEF RestsAtStep
  <1>1. /\ card[c].status \in Settled /\ tick.card # c /\ Elsewhere(c) /\ c # NoCard
        /\ \A row \in tick.rows : row[1] # c
    BY KanbanAssumption DEF AtRest, Elsewhere, NoCard
  <1>2. SUFFICES /\ UNCHANGED card[c] /\ Elsewhere(c)'
                 /\ tick'.card # c /\ \A row \in tick'.rows : row[1] # c
    BY <1>1 DEF AtRest, Elsewhere
  <1>3. CASE UNCHANGED vars
    BY <1>1, <1>3 DEF vars, Elsewhere, Live
  <1>4. CASE Turn
    BY <1>4, LoopRests, NobodyComes
  <1>5. ASSUME NEW d \in Cards, Create(d)
        PROVE  UNCHANGED <<card[c], tick, worker>>
    BY <1>1, <1>5, StatusWritten DEF Create, Settled, Statuses
  <1>6. ASSUME NEW p \in Pids, WorkerStep(p)
        PROVE  UNCHANGED <<card[c], tick>> /\ Elsewhere(c)'
    <2>1. UNCHANGED tick /\ Live(p) /\ worker[p].card \in Cards
      BY <1>6
      DEF WorkerStep, Submit, SubmitFails, TaskCompletes, PollCompleted, GiveUp, ReportCompleted,
          ReportFailed, Report, Exit, Moves, TypeOK, Live
    <2>2. worker[p].card # c
      BY <1>1, <2>1 DEF Elsewhere
    <2>3. card'[c] = card[c]
      <3>1. CASE ReportCompleted(p) \/ ReportFailed(p)
        BY <2>1, <2>2, <3>1, StatusWritten DEF ReportCompleted, ReportFailed, Report, Statuses
      <3> QED BY <1>6, <3>1 DEF WorkerStep, Submit, SubmitFails, TaskCompletes, PollCompleted, GiveUp, Exit
    <2>4. Elsewhere(c)'
      <3>1. CASE Exit(p)
        BY <1>1, <3>1, WorkerGone DEF Elsewhere, Live
      <3>2. CASE ~Exit(p)
        <4>1. \A q \in Pids : worker'[q].card = worker[q].card /\ (Live(q)' <=> Live(q))
          BY <1>6, <3>2, WorkerMoves, WorkerMoved
        <4> QED BY <1>1, <4>1 DEF Elsewhere
      <3> QED BY <3>1, <3>2
    <2> QED BY <2>1, <2>3, <2>4
  <1>7. CASE Crash \/ Boot
    <2>1. tick'.rows = {} /\ tick'.card = NoCard /\ UNCHANGED card
      BY <1>7, LoopBegins DEF Crash, Boot, Points
    <2>2. \A q \in Pids : worker'[q].card = worker[q].card /\ (Live(q)' <=> Live(q))
      BY <1>7, WorkersOrphaned DEF Boot, Live
    <2> QED BY <1>1, <2>1, <2>2 DEF Elsewhere
  <1> QED BY <1>1, <1>3, <1>4, <1>5, <1>6, <1>7 DEF Next, Elsewhere, Live

\* Once a card is settled, its processes are gone and the loop holds nothing it read of it,
\* no loop, no worker of another card and no restart touches it again (reclaim_stale,
\* claim_next).
THEOREM SettledStays == Spec => SettledRests
  <1>1. Spec => []TypeOK
    BY TypeCorrect
  <1> QED BY <1>1, StepRests, PTL DEF Spec, SettledRests, RestsAtStep
==============================================================================
