---------------------------- MODULE HandsetOutbox ----------------------------
(***************************************************************************)
(* The driver's phone at a drop without signal: the durable queue of       *)
(* Arrived taps, delivery photos and Delivered taps, and the flush that    *)
(* replays it (mobile/src/lib/podOutboxCore.ts, lib/podOutbox.ts,          *)
(* hooks/usePodOutbox.ts, the handlers of screens/driver/ActiveTripScreen  *)
(* and the logout of context/AuthContext).                                 *)
(*                                                                         *)
(* Two asynchronous threads share the stored queue: the screen, one tap at *)
(* a time, and the flush, one at a time.  Both read it, work, and write it *)
(* back, so each is a read step and a write step, with the erase guard's   *)
(* look at the storage in between when the queue is to become empty; any   *)
(* storage operation may fail, any request may be lost on its way or on    *)
(* its way back, and the app may be killed between two steps.  The server  *)
(* is its answers to the three requests for one trip of this driver.       *)
(*                                                                         *)
(* The queue is at most one item per stop (its natural key): a function    *)
(* from stops, whose order is the items' turn.  A photo is a shot number,  *)
(* counted from 1 as they are taken; 0 is none.  queuedAt, turn and shots  *)
(* are instants of the phone's clock: 1 to begin with, then one per tap.   *)
(* The K2 tick is left out: no control of the screen calls toggleDoc.      *)
(***************************************************************************)
EXTENDS Naturals, FiniteSets

CONSTANTS
    Stops,              \* the stops of the driver's active trip
    MaxApiFailures,     \* MAX_API_FAILURES
    MaxOutbox,          \* MAX_OUTBOX
    NoItem,             \* the stop has nothing queued
    Idle,               \* no tap is being stored, no flush is running
    MaxTaps             \* bound on clock, so on the driver's taps

ASSUME BudgetAssumption ==
    /\ MaxApiFailures \in Nat \ {0}
    /\ MaxOutbox \in Nat \ {0}
    /\ MaxTaps \in Nat \ {0}

VARIABLES
    queue,      \* the stored outbox
    parked,     \* the intents in the evidence quarantine
    screen,     \* the tap being stored or tidied up after
    flush,      \* the flush in progress
    clock,      \* instants so far: the initial one, and one per tap
    trip,       \* the server's trip: "out", "locked", or "away" from this driver
    blocked,    \* Trip.open_exception_id is set
    stop,       \* TripStop.status
    pod,        \* the shot in TripStop.pod_photo
    saved,      \* ghost: the intents the driver was told are saved, and not
                \* given up since
    missed      \* ghost: of those, what the flush under way may not know of:
                \* stored after its checkpoint re-read the queue, or into an item
                \* it had in hand

phoneVars  == <<queue, parked, screen, flush, clock>>
serverVars == <<trip, blocked, stop, pod>>
ghosts == <<saved, missed>>
vars == <<phoneVars, serverVars, ghosts>>

Taps == {"arrived", "photo", "delivered"}
Instant == 0 .. MaxTaps

Intent == [stop : Stops, tap : Taps, shot : Instant]

Item == [markArrived : BOOLEAN, arrivedMarked : BOOLEAN,
         photo : Instant, photoUploaded : BOOLEAN, confirmDelivered : BOOLEAN,
         queuedAt : Instant, turn : Instant, apiFailures : 0 .. MaxApiFailures]

Queue == [Stops -> Item \cup {NoItem}]

ASSUME NoItemAssumption == NoItem \notin Item

Outcomes == {"none", "kept", "synced", "dropped", "orphaned"}

Screen == [pc : {"read", "write", "erase"}, op : {"enqueue", "noteUpload", "remove"},
           intent : Intent, seen : Queue]

Flush == [pc : {"send", "reread", "write", "erase"}, work : Queue,
          outcome : [Stops -> Outcomes], seen : Queue, consume : BOOLEAN]

ASSUME IdleAssumption == Idle \notin Screen \cup Flush

-----------------------------------------------------------------------------
(* Queue operations.                                                       *)

Empty == [s \in Stops |-> NoItem]
Queued(q) == {s \in Stops : q[s] # NoItem}
Dequeue(q, S) == [s \in Stops |-> IF s \in S THEN NoItem ELSE q[s]]

Fresh(now) ==
    [markArrived |-> FALSE, arrivedMarked |-> FALSE, photo |-> 0,
     photoUploaded |-> FALSE, confirmDelivered |-> FALSE,
     queuedAt |-> now, turn |-> now, apiFailures |-> 0]

\* What an item becomes when a tap is merged into it: an intent is never
\* unset, a new photo is to be uploaded again, the retry budget starts over.
Merged(item, i, now) ==
    [item EXCEPT !.markArrived = @ \/ i.tap = "arrived",
                 !.photo = IF i.tap = "photo" THEN i.shot ELSE @,
                 !.photoUploaded = @ /\ i.tap # "photo",
                 !.confirmDelivered = @ \/ i.tap = "delivered",
                 !.turn = now,
                 !.apiFailures = 0]

\* The items a queue grown past MaxOutbox loses: the oldest.
Evicted(q) ==
    {s \in Queued(q) :
        Cardinality({u \in Queued(q) : q[u].turn > q[s].turn}) >= MaxOutbox}

\* mergeOutboxItem before its trim: upsert by stop, at the end of the queue.
Upsert(q, i, now) ==
    [q EXCEPT ![i.stop] = Merged(IF @ = NoItem THEN Fresh(now) ELSE @, i, now)]

MergeOutboxItem(q, i, now) ==
    Dequeue(Upsert(q, i, now), Evicted(Upsert(q, i, now)))

\* reconcileOutboxAfterFlush: an item the flush worked on, told by its stop
\* and queuedAt, is replaced by its kept copy, in place, or removed.
SameItem(a, b) == a # NoItem /\ b # NoItem /\ a.queuedAt = b.queuedAt

Reconcile(stored, work, outcome) ==
    [s \in Stops |->
        IF ~SameItem(stored[s], work[s]) \/ outcome[s] = "none" THEN stored[s]
        ELSE IF outcome[s] = "kept" THEN [work[s] EXCEPT !.turn = stored[s].turn]
        ELSE NoItem]

\* assertEraseIsAccountedFor: the queue may become empty only by a writer
\* that can name every item stored at that moment.
MayErase(named) == \A s \in Queued(queue) : SameItem(queue[s], named[s])

\* A write that empties the queue comes after the guard's look, any other one at once.
WritesAt(next) == IF next = Empty THEN "erase" ELSE "write"

\* The intents an item stands for.
IntentsOf(s, item) ==
    IF item = NoItem THEN {}
    ELSE {i \in Intent :
            /\ i.stop = s
            /\ \/ i.tap = "arrived" /\ item.markArrived
               \/ i.tap = "photo" /\ i.shot # 0 /\ i.shot <= item.photo
               \/ i.tap = "delivered" /\ item.confirmDelivered}

-----------------------------------------------------------------------------
(* The server's answers (PATCH /trips/:id/status, POST .../pod).           *)

ArrivedCode(s) ==
    IF trip = "away" THEN "FORBIDDEN"
    ELSE IF blocked THEN "EXCEPTION_OPEN"
    ELSE IF stop[s] # "pending" THEN "INVALID_STATUS"
    ELSE IF trip # "out" THEN "TRIP_NOT_STARTED"
    ELSE "OK"

PodCode(s) ==
    IF trip = "away" THEN "FORBIDDEN"
    ELSE IF trip = "locked" THEN "POD_LOCKED"
    ELSE "OK"

DeliveredCode(s) ==
    IF trip = "away" THEN "FORBIDDEN"
    ELSE IF blocked THEN "EXCEPTION_OPEN"
    ELSE IF trip # "out" THEN "TRIP_NOT_ACTIVE"
    ELSE IF stop[s] = "delivered" THEN "STOP_ALREADY_DELIVERED"
    ELSE IF pod[s] = 0 THEN "DOCUMENTATION_INCOMPLETE"
    ELSE "OK"

Code(tap, s) ==
    CASE tap = "arrived" -> ArrivedCode(s)
      [] tap = "photo"   -> PodCode(s)
      [] OTHER           -> DeliveredCode(s)

\* Mistake: a refusal because of an open report passes for "already done".
AlreadyCodes_SwallowsBlocker(tap) ==
    CASE tap = "arrived" -> {"INVALID_STATUS", "EXCEPTION_OPEN"}
      [] tap = "photo"   -> {"POD_LOCKED"}
      [] OTHER           -> {"STOP_ALREADY_DELIVERED", "TRIP_NOT_ACTIVE", "EXCEPTION_OPEN"}

\* ARRIVED_, PHOTO_ and DELIVERED_STEP_ALREADY_CODES, and OUTBOX_STALE_CODES.
AlreadyCodes(tap) ==
    CASE tap = "arrived" -> {"INVALID_STATUS"}
      [] tap = "photo"   -> {"POD_LOCKED"}
      [] OTHER           -> {"STOP_ALREADY_DELIVERED", "TRIP_NOT_ACTIVE"}

StaleCodes == {"FORBIDDEN"}

\* A request that reaches the server: nothing happens unless it answers OK,
\* and the last delivery of a trip finalizes it.
Serve(i) ==
    IF Code(i.tap, i.stop) # "OK" THEN UNCHANGED serverVars
    ELSE /\ stop' = CASE i.tap = "arrived"   -> [stop EXCEPT ![i.stop] = "arrived"]
                      [] i.tap = "delivered" -> [stop EXCEPT ![i.stop] = "delivered"]
                      [] OTHER               -> stop
         /\ pod' = IF i.tap = "photo" THEN [pod EXCEPT ![i.stop] = i.shot] ELSE pod
         /\ trip' = IF \A s \in Stops : stop'[s] = "delivered" THEN "locked" ELSE trip
         /\ UNCHANGED blocked

-----------------------------------------------------------------------------
\* The trip is out: one stop may have been reached, and shot, online.
Init ==
    /\ queue = Empty
    /\ parked = {}
    /\ screen = Idle
    /\ flush = Idle
    /\ clock = 1
    /\ trip = "out"
    /\ blocked = FALSE
    /\ \E reached \in Stops :
          /\ \/ stop = [s \in Stops |-> "pending"]
             \/ stop = [s \in Stops |-> IF s = reached THEN "arrived" ELSE "pending"]
          /\ \/ pod = [s \in Stops |-> 0]
             \/ stop[reached] = "arrived" /\ pod = [s \in Stops |-> IF s = reached THEN 1 ELSE 0]
    /\ saved = {}
    /\ missed = {}

-----------------------------------------------------------------------------
(* The screen (ActiveTripScreen onArrived, confirmPod, onDelivered).       *)

Has(s, field) == queue[s] # NoItem /\ queue[s][field]

SeemsArrived(s) == stop[s] # "pending" \/ Has(s, "markArrived")

PodDone(s) ==
    \/ pod[s] # 0
    \/ queue[s] # NoItem /\ (queue[s].photo # 0 \/ queue[s].photoUploaded)

\* footerStage, and the retake pill: what the screen offers for a stop, read
\* from the queue and from a server view that may be older than the server.
Offers(i) ==
    /\ stop[i.stop] # "delivered"
    /\ CASE i.tap = "arrived" -> ~Has(i.stop, "markArrived") /\ i.shot = 0
         [] i.tap = "photo"   -> SeemsArrived(i.stop) /\ i.shot = clock + 1
         [] OTHER             -> /\ SeemsArrived(i.stop) /\ PodDone(i.stop)
                                 /\ ~Has(i.stop, "confirmDelivered") /\ i.shot = 0

Tap(i) ==
    /\ screen = Idle
    /\ Offers(i)
    /\ clock < MaxTaps
    /\ clock' = clock + 1

Begin(operation, i) ==
    screen' = [pc |-> "read", op |-> operation, intent |-> i, seen |-> Empty]

\* The request is answered: a photo or a delivery the server has is tidied
\* out of the queue, any other answer is shown to the driver.
TapAnswered(i) ==
    /\ Tap(i)
    /\ Serve(i)
    /\ CASE i.tap = "photo" /\ PodCode(i.stop) = "OK" -> Begin("noteUpload", i)
         [] i.tap = "delivered"
              /\ DeliveredCode(i.stop) \in {"OK"} \cup AlreadyCodes("delivered") ->
                Begin("remove", i)
         [] OTHER -> UNCHANGED screen
    /\ UNCHANGED <<queue, parked, flush, ghosts>>

\* No answer: the request did or did not reach the server, and the tap is
\* to be stored.
TapUnanswered(i) ==
    /\ Tap(i)
    /\ Serve(i) \/ UNCHANGED serverVars
    /\ Begin("enqueue", i)
    /\ UNCHANGED <<queue, parked, flush, ghosts>>

ScreenStep == UNCHANGED <<parked, flush, clock, serverVars>>

\* The read of every outbox operation; nothing to tidy up ends it.
ScreenRead ==
    /\ screen # Idle /\ screen.pc = "read"
    /\ screen' = IF screen.op # "enqueue" /\ queue[screen.intent.stop] = NoItem
                 THEN Idle
                 ELSE [screen EXCEPT !.pc = "write", !.seen = queue]
    /\ ScreenStep
    /\ UNCHANGED <<queue, ghosts>>

\* enqueuePodItem's write: now the driver is told the tap is saved.
ScreenEnqueue ==
    /\ screen # Idle /\ screen.pc = "write" /\ screen.op = "enqueue"
    /\ LET i == screen.intent
           merged == Upsert(screen.seen, i, clock)
           overlooked ==
              /\ flush # Idle
              /\ flush.pc \in {"write", "erase"} \/ SameItem(merged[i.stop], flush.work[i.stop])
       IN /\ queue' = MergeOutboxItem(screen.seen, i, clock)
          /\ saved' = (saved \cup {i})
                         \ UNION {IntentsOf(s, merged[s]) : s \in Evicted(merged)}
          /\ missed' = IF overlooked THEN missed \cup {i} ELSE missed
    /\ screen' = Idle
    /\ ScreenStep

\* Mistake: a direct upload only clears the queued photo, an item with nothing
\* else to send included.
Tidied_KeepsItem(i) ==
    IF screen.op = "noteUpload"
    THEN [screen.seen EXCEPT ![i.stop].photo = 0, ![i.stop].photoUploaded = TRUE]
    ELSE Dequeue(screen.seen, {i.stop})

\* What is left after noteDirectPodUpload, or removePodItem.
Tidied(i) ==
    IF screen.op = "noteUpload" /\ screen.seen[i.stop].confirmDelivered
    THEN [screen.seen EXCEPT ![i.stop].photo = 0, ![i.stop].photoUploaded = TRUE]
    ELSE Dequeue(screen.seen, {i.stop})

\* What the tidying gives up: photos a newer one or the delivery supersedes,
\* and an Arrived tap the removed item had not sent yet.
GivenUpByTidying(i) ==
    {j \in IntentsOf(i.stop, screen.seen[i.stop]) :
        \/ j.tap = "photo"
        \/ j.tap = "arrived" /\ Tidied(i)[i.stop] = NoItem}

\* What the tidying up can name to the erase guard: the item it takes out.
Tidying == screen # Idle /\ screen.op # "enqueue" /\ screen.pc # "read"
MayTidy(i) == MayErase([Empty EXCEPT ![i.stop] = screen.seen[i.stop]])

\* The guard lets the last item be taken out.
ScreenErases ==
    /\ Tidying /\ screen.pc = "write"
    /\ Tidied(screen.intent) = Empty /\ MayTidy(screen.intent)
    /\ screen' = [screen EXCEPT !.pc = "erase"]
    /\ ScreenStep
    /\ UNCHANGED <<queue, ghosts>>

\* noteDirectPodUpload and removePodItem write what they leave of the queue.
ScreenTidy ==
    /\ Tidying
    /\ LET i == screen.intent
       IN /\ screen.pc = WritesAt(Tidied(i))
          /\ queue' = Tidied(i)
          /\ saved' = saved \ GivenUpByTidying(i)
    /\ screen' = Idle
    /\ ScreenStep
    /\ UNCHANGED missed

\* A storage operation fails, or the erase guard refuses, which is swallowed:
\* nothing is read or written, and the driver is not told the tap was saved.
ScreenFails ==
    /\ screen # Idle
    /\ screen' = Idle
    /\ ScreenStep
    /\ UNCHANGED <<queue, ghosts>>

-----------------------------------------------------------------------------
(* The flush (flushPodOutbox, flushOutboxItems, flushOneItem).             *)

\* The step of an item a flush takes next: arrived, photo, then delivered.
NextTap(item) ==
    IF item.markArrived /\ ~item.arrivedMarked THEN "arrived"
    ELSE IF item.photo # 0 /\ ~item.photoUploaded THEN "photo"
    ELSE IF item.confirmDelivered THEN "delivered"
    ELSE "none"

Progressed(item, tap) ==
    CASE tap = "arrived" -> [item EXCEPT !.arrivedMarked = TRUE]
      [] tap = "photo"   -> [item EXCEPT !.photoUploaded = TRUE, !.photo = 0]
      [] OTHER           -> item

Unsettled == {s \in Queued(flush.work) : flush.outcome[s] = "none"}

Current(s) ==
    /\ s \in Unsettled
    /\ \A u \in Unsettled : flush.work[s].turn <= flush.work[u].turn

FlushStep == UNCHANGED <<screen, clock>>

\* Every trigger of usePodOutboxFlush, and the logout's that spares the
\* retry budget.
FlushStart(consumeBudget) ==
    /\ flush = Idle
    /\ queue # Empty
    /\ flush' = [pc |-> "send", work |-> queue, outcome |-> [s \in Stops |-> "none"],
                 seen |-> Empty, consume |-> consumeBudget]
    /\ FlushStep
    /\ UNCHANGED <<queue, parked, serverVars, ghosts>>

Settle(s, result) == [flush EXCEPT !.outcome[s] = result, !.pc = "reread"]

Request(s) ==
    LET tap == NextTap(flush.work[s])
    IN [stop |-> s, tap |-> tap, shot |-> IF tap = "photo" THEN flush.work[s].photo ELSE 0]

FlushSend(s) ==
    /\ flush # Idle /\ flush.pc = "send"
    /\ Current(s)
    /\ FlushStep
    /\ UNCHANGED <<queue, parked, ghosts>>

\* No answer: whatever the server did, the item is kept with its progress.
FlushUnanswered(s) ==
    /\ FlushSend(s)
    /\ Serve(Request(s)) \/ UNCHANGED serverVars
    /\ flush' = Settle(s, "kept")

\* The step committed, or the server already has it: go on to the next one.
FlushCommitted(s) ==
    LET r == Request(s)
        item == Progressed(flush.work[s], r.tap)
        done == r.tap = "delivered" \/ NextTap(item) = "none"
    IN /\ FlushSend(s)
       /\ Code(r.tap, s) \in {"OK"} \cup AlreadyCodes(r.tap)
       /\ Serve(r)
       /\ flush' = [flush EXCEPT !.work[s] = item,
                                 !.outcome[s] = IF done THEN "synced" ELSE @,
                                 !.pc = IF done THEN "reread" ELSE @]

FlushOrphaned(s) ==
    /\ FlushSend(s)
    /\ Code(Request(s).tap, s) \in StaleCodes
    /\ flush' = Settle(s, "orphaned")
    /\ UNCHANGED serverVars

\* Mistake: the item is given up one failure too late.
FlushRefused_OneMore(s) ==
    LET tap == Request(s).tap
        failures == flush.work[s].apiFailures + 1
    IN /\ FlushSend(s)
       /\ Code(tap, s) \notin {"OK"} \cup AlreadyCodes(tap) \cup StaleCodes
       /\ flush' = IF ~flush.consume THEN Settle(s, "kept")
                   ELSE [Settle(s, IF failures > MaxApiFailures THEN "dropped" ELSE "kept")
                            EXCEPT !.work[s].apiFailures = failures]
       /\ UNCHANGED serverVars

\* Mistake: no flush charges the retry budget.
FlushRefused_Uncounted(s) ==
    LET tap == Request(s).tap
    IN /\ FlushSend(s)
       /\ Code(tap, s) \notin {"OK"} \cup AlreadyCodes(tap) \cup StaleCodes
       /\ flush' = Settle(s, "kept")
       /\ UNCHANGED serverVars

\* Any other answer is a failure of the item, charged unless at logout.
FlushRefused(s) ==
    LET tap == Request(s).tap
        failures == flush.work[s].apiFailures + 1
    IN /\ FlushSend(s)
       /\ Code(tap, s) \notin {"OK"} \cup AlreadyCodes(tap) \cup StaleCodes
       /\ flush' = IF ~flush.consume THEN Settle(s, "kept")
                   ELSE [Settle(s, IF failures >= MaxApiFailures THEN "dropped" ELSE "kept")
                            EXCEPT !.work[s].apiFailures = failures]
       /\ UNCHANGED serverVars

\* After the checkpoint of an item: the next one, or the end.
NextItem == IF Unsettled = {} THEN Idle ELSE [flush EXCEPT !.pc = "send", !.seen = Empty]

\* A flush that has ended can overwrite nothing any more.
StillMissed(taps) == IF flush' = Idle THEN {} ELSE taps

Settled(results) == {s \in Stops : flush.outcome[s] \in results}

\* Mistake: the checkpoint does not re-read the queue but reconciles what the
\* flush set out with.
CheckpointRead_NoReread ==
    /\ flush # Idle /\ flush.pc = "reread"
    /\ LET orphans == UNION {IntentsOf(s, flush.work[s]) : s \in Settled({"orphaned"})}
       IN \/ parked' = parked \cup orphans /\ UNCHANGED saved
          \/ orphans # {} /\ saved' = saved \ orphans /\ UNCHANGED parked
    /\ flush' = [flush EXCEPT !.pc = "write", !.seen = flush.work]
    /\ FlushStep
    /\ UNCHANGED <<queue, missed, serverVars>>

\* The checkpoint re-reads the queue and writes the orphaned items to the
\* quarantine, which storage may refuse.
CheckpointRead ==
    /\ flush # Idle /\ flush.pc = "reread"
    /\ LET orphans == UNION {IntentsOf(s, flush.work[s]) : s \in Settled({"orphaned"})}
       IN \/ parked' = parked \cup orphans /\ UNCHANGED saved
          \/ orphans # {} /\ saved' = saved \ orphans /\ UNCHANGED parked
    /\ flush' = [flush EXCEPT !.pc = "write", !.seen = queue]
    /\ FlushStep
    /\ UNCHANGED <<queue, missed, serverVars>>

\* The re-read failed: the checkpoint is skipped.
CheckpointSkipped ==
    /\ flush # Idle /\ flush.pc = "reread"
    /\ flush' = NextItem
    /\ missed' = StillMissed(missed)
    /\ FlushStep
    /\ UNCHANGED <<queue, parked, serverVars, saved>>

\* What the checkpoint writes, and what it can name to the erase guard.
Checkpoint == Reconcile(flush.seen, flush.work, flush.outcome)
MayCheckpoint == MayErase(Dequeue(flush.work, Settled({"none", "kept"})))

\* The erase guard lets the flush empty the queue.
CheckpointErases ==
    /\ flush # Idle /\ flush.pc = "write"
    /\ Checkpoint = Empty /\ MayCheckpoint
    /\ flush' = [flush EXCEPT !.pc = "erase"]
    /\ FlushStep
    /\ UNCHANGED <<queue, parked, serverVars, ghosts>>

\* Settled items leave the queue, kept ones keep their progress; what the flush
\* missed is gone unless it is written again.
CheckpointWrite ==
    LET dropped == UNION {IntentsOf(s, flush.seen[s]) :
                            s \in {u \in Settled({"dropped"}) :
                                     SameItem(flush.seen[u], flush.work[u])}}
        overwritten == {i \in missed : i \notin IntentsOf(i.stop, Checkpoint[i.stop])}
    IN /\ flush # Idle /\ flush.pc = WritesAt(Checkpoint)
       /\ queue' = Checkpoint
       /\ saved' = saved \ (dropped \cup overwritten)
       /\ flush' = NextItem
       /\ missed' = StillMissed(missed \ overwritten)
       /\ FlushStep
       /\ UNCHANGED <<parked, serverVars>>

\* The erase guard refuses the write: the flush ends, its lock released.
CheckpointRefused ==
    /\ flush # Idle /\ flush.pc = "write"
    /\ Checkpoint = Empty /\ ~MayCheckpoint
    /\ flush' = Idle
    /\ missed' = {}
    /\ FlushStep
    /\ UNCHANGED <<queue, parked, serverVars, saved>>

\* The storage refuses it, or the guard's look at it.
CheckpointFails ==
    /\ flush # Idle /\ flush.pc \in {"write", "erase"}
    /\ flush' = Idle
    /\ missed' = {}
    /\ FlushStep
    /\ UNCHANGED <<queue, parked, serverVars, saved>>

-----------------------------------------------------------------------------
(* The surroundings.                                                       *)

\* The app is killed: the storage survives, everything else is forgotten.
AppKilled ==
    /\ screen # Idle \/ flush # Idle
    /\ screen' = Idle
    /\ flush' = Idle
    /\ missed' = {}
    /\ UNCHANGED <<queue, parked, clock, serverVars, saved>>

OfficeStep == UNCHANGED <<phoneVars, stop, pod, ghosts>>

\* A report filed on the trip blocks Arrived and Delivered until the driver
\* continues or the office resolves it.
ReportOpens ==
    /\ trip = "out" /\ ~blocked
    /\ blocked' = TRUE
    /\ OfficeStep /\ UNCHANGED trip

ReportUnblocks ==
    /\ blocked
    /\ blocked' = FALSE
    /\ OfficeStep /\ UNCHANGED trip

\* The office aborts or cancels the trip: it owes the delivered stops and is
\* locked, or goes back to dispatch, away from this driver.
TripEnds ==
    /\ trip = "out" /\ ~blocked
    /\ trip' \in {"locked", "away"}
    /\ OfficeStep /\ UNCHANGED blocked

FlushAnswered == \E s \in Stops : FlushCommitted(s) \/ FlushOrphaned(s) \/ FlushRefused(s)
FlushGoesOn == \/ FlushAnswered \/ \E s \in Stops : FlushUnanswered(s)
               \/ CheckpointRead \/ CheckpointErases \/ CheckpointWrite \/ CheckpointRefused

BudgetedAnswer == flush # Idle /\ flush.consume /\ FlushAnswered

\* What ends a checkpoint through no fault of the program.
PhoneFails == CheckpointSkipped \/ CheckpointFails \/ AppKilled

Next ==
    \/ \E i \in Intent : TapAnswered(i) \/ TapUnanswered(i)
    \/ ScreenRead \/ ScreenEnqueue \/ ScreenErases \/ ScreenTidy \/ ScreenFails
    \/ \E consumeBudget \in BOOLEAN : FlushStart(consumeBudget)
    \/ FlushGoesOn
    \/ PhoneFails
    \/ ReportOpens \/ ReportUnblocks \/ TripEnds

\* The mount, reconnect, foreground and 45-second triggers keep starting
\* flushes and a flush runs on; the signal comes back for one of them again and
\* again; some day the phone stops failing (a failed write of an unchanged
\* queue looks like the write).  The driver and the office owe nothing.
Fairness ==
    /\ SF_vars(FlushStart(TRUE))
    /\ SF_vars(BudgetedAnswer)
    /\ WF_vars(FlushGoesOn)
    /\ <>[][PhoneFails => FlushGoesOn]_vars

Spec == Init /\ [][Next]_vars /\ Fairness

-----------------------------------------------------------------------------
\* The queue, the two threads and the server hold what the code can put there:
\* a kept item has fewer failures than the budget.
TypeOK ==
    /\ queue \in Queue
    /\ parked \subseteq Intent
    /\ screen \in Screen \cup {Idle}
    /\ flush \in Flush \cup {Idle}
    /\ clock \in Instant
    /\ trip \in {"out", "locked", "away"}
    /\ blocked \in BOOLEAN
    /\ stop \in [Stops -> {"pending", "arrived", "delivered"}]
    /\ pod \in [Stops -> Instant]
    /\ saved \subseteq Intent
    /\ missed \subseteq Intent

Stored(i) == i \in IntentsOf(i.stop, queue[i.stop])

Recorded(i) ==
    CASE i.tap = "arrived" -> stop[i.stop] # "pending"
      [] i.tap = "photo"   -> pod[i.stop] >= i.shot
      [] OTHER             -> stop[i.stop] = "delivered"

Accounted(i) ==
    Stored(i) \/ Recorded(i) \/ i \in parked \/ trip = "locked"

\* Whatever requests, answers, storage operations and kills come between, an
\* Arrived or Delivered tap the driver was told is saved is still stored, or
\* recorded by the server, or in the evidence quarantine, or its trip is over;
\* unless the trim, the spent budget, a refused quarantine or a tidied-up item
\* gave it up (podOutbox.ts, podOutboxCore.ts), or a checkpoint wrote a queue
\* without it over it that could not have it: the checkpoint had re-read the queue
\* before it was stored, or it was stored into an item the flush had in hand
\* (MidFlushTapSurvives).
NoTapVanishes == \A i \in saved : i.tap # "photo" => Accounted(i)

\* The same, with the same exceptions, for a delivery photo: the server's photo is
\* that shot or a newer one.
NoPhotoVanishes == \A i \in saved : i.tap = "photo" => Accounted(i)

\* "Re-read so a concurrently queued item is not clobbered" (flushPodOutbox) and
\* "an item the driver re-queued mid-flush is a DIFFERENT intent and must survive
\* untouched" (reconcileOutboxAfterFlush): a checkpoint takes from the queue only
\* intents its flush had in hand, or the server has.
MidFlushTapSurvives ==
    [][\A i \in Intent :
          CheckpointWrite /\ Stored(i) /\ ~Stored(i)' =>
              i \in IntentsOf(i.stop, flush.work[i.stop]) \/ Recorded(i) \/ trip = "locked"]_vars

\* A stored item always has something left to send: no combination of taps,
\* direct uploads and interrupted flushes leaves a stop "waiting for signal"
\* with nothing to wait for.
EveryItemHasWork == \A s \in Queued(queue) : NextTap(queue[s]) # "none"

\* Once the driver is done tapping and the phone works, every queued item
\* leaves the phone, even against a server that refuses it for ever.
QueueDrains == queue # Empty ~> queue = Empty

=============================================================================
