------------------------ MODULE HandsetOutbox_proofs ------------------------
(***************************************************************************)
(* For any stops, taps and budgets: the phone's queue keeps its shape, a   *)
(* stored item has something left to send, and no tap or photo the driver  *)
(* was told is saved is lost between the screen and the flush that share   *)
(* it, nor a photo put below an older one; and the trim takes the oldest   *)
(* items, of a queue that never outgrows MAX_OUTBOX.                       *)
(***************************************************************************)
EXTENDS HandsetOutbox, FiniteSetTheorems, WellFoundedInduction, TLAPS

-----------------------------------------------------------------------------
(* Items and queues.                                                        *)

\* What the queue may hold: something left to send, some budget left.
Worth(item) == NextTap(item) # "none" /\ item.apiFailures < MaxApiFailures

WorthIts(q) == \A s \in Stops : q[s] # NoItem => Worth(q[s])

\* The item a first tap creates is well-formed.
LEMMA FreshItem ==
    ASSUME NEW now \in Instant
    PROVE  Fresh(now) \in Item
  BY BudgetAssumption DEF Fresh, Item, Instant

\* Merging a tap sets its intent, unsets none, and keeps who the item is.
LEMMA MergedItem ==
    ASSUME NEW item \in Item, NEW i \in Intent, NEW now \in Instant
    PROVE  /\ Merged(item, i, now) \in Item
           /\ Merged(item, i, now).queuedAt = item.queuedAt
           /\ Merged(item, i, now).apiFailures = 0
           /\ Merged(item, i, now).markArrived = (item.markArrived \/ i.tap = "arrived")
           /\ Merged(item, i, now).arrivedMarked = item.arrivedMarked
           /\ Merged(item, i, now).confirmDelivered = (item.confirmDelivered \/ i.tap = "delivered")
           /\ Merged(item, i, now).photo = IF i.tap = "photo" THEN i.shot ELSE item.photo
           /\ Merged(item, i, now).photoUploaded = (item.photoUploaded /\ i.tap # "photo")
  <1> DEFINE markArrived == item.markArrived \/ i.tap = "arrived"
             confirmDelivered == item.confirmDelivered \/ i.tap = "delivered"
             photo == IF i.tap = "photo" THEN i.shot ELSE item.photo
             photoUploaded == item.photoUploaded /\ i.tap # "photo"
  <1>1. /\ markArrived \in BOOLEAN /\ confirmDelivered \in BOOLEAN /\ photoUploaded \in BOOLEAN
        /\ photo \in Instant /\ 0 \in 0 .. MaxApiFailures
    BY BudgetAssumption DEF Item, Intent
  <1>2. Merged(item, i, now) = [item EXCEPT !.markArrived = markArrived, !.photo = photo,
                                            !.photoUploaded = photoUploaded,
                                            !.confirmDelivered = confirmDelivered,
                                            !.turn = now, !.apiFailures = 0]
    BY DEF Merged, Item
  <1> HIDE DEF markArrived, confirmDelivered, photo, photoUploaded
  <1>3. /\ Merged(item, i, now) \in Item
        /\ Merged(item, i, now).queuedAt = item.queuedAt
        /\ Merged(item, i, now).apiFailures = 0
        /\ Merged(item, i, now).markArrived = markArrived
        /\ Merged(item, i, now).arrivedMarked = item.arrivedMarked
        /\ Merged(item, i, now).confirmDelivered = confirmDelivered
        /\ Merged(item, i, now).photo = photo
        /\ Merged(item, i, now).photoUploaded = photoUploaded
    BY <1>1, <1>2 DEF Item
  <1> QED BY <1>3 DEF markArrived, confirmDelivered, photo, photoUploaded

\* A merged item has work: what the tap added, or what the item had.
LEMMA MergedWorth ==
    ASSUME NEW item \in Item, NEW i \in Intent, NEW now \in Instant,
           i.tap = "photo" => i.shot # 0,
           item = Fresh(now) \/ Worth(item)
    PROVE  Worth(Merged(item, i, now))
  <1>1. i.tap \in {"arrived", "photo", "delivered"}
    BY DEF Intent, Taps
  <1>2. CASE item = Fresh(now)
    <2> DEFINE new == Merged(item, i, now)
    <2>1. /\ item.markArrived = FALSE /\ item.arrivedMarked = FALSE
          /\ item.photoUploaded = FALSE /\ item.confirmDelivered = FALSE
      BY <1>2 DEF Fresh
    <2>2. /\ new \in Item /\ new.apiFailures = 0
          /\ new.markArrived = (i.tap = "arrived") /\ new.arrivedMarked = FALSE
          /\ new.confirmDelivered = (i.tap = "delivered")
          /\ new.photo = IF i.tap = "photo" THEN i.shot ELSE item.photo
          /\ new.photoUploaded = FALSE
      BY <2>1, MergedItem
    <2> HIDE DEF new
    <2>3. Worth(new)
      BY <1>1, <2>2, BudgetAssumption DEF Worth, NextTap, Item
    <2> QED BY <2>3 DEF new
  <1>3. CASE Worth(item)
    BY <1>1, <1>3, MergedItem, BudgetAssumption DEF Worth, NextTap, Item
  <1> QED BY <1>2, <1>3

\* What a direct upload leaves of an item that has a delivery to send.
Uploaded(item) == [item EXCEPT !.photo = 0, !.photoUploaded = TRUE]

\* An item whose photo went up directly keeps its taps and who it is.
LEMMA UploadedItem ==
    ASSUME NEW item \in Item
    PROVE  /\ Uploaded(item) \in Item
           /\ Uploaded(item).apiFailures = item.apiFailures
           /\ Uploaded(item).queuedAt = item.queuedAt
           /\ Uploaded(item).markArrived = item.markArrived
           /\ Uploaded(item).arrivedMarked = item.arrivedMarked
           /\ Uploaded(item).confirmDelivered = item.confirmDelivered
  <1>1. 0 \in Instant
    BY BudgetAssumption DEF Instant
  <1> QED BY <1>1 DEF Uploaded, Item

\* An upsert changes the item of the tapped stop only.
LEMMA UpsertQueue ==
    ASSUME NEW q \in Queue, NEW i \in Intent, NEW now \in Instant
    PROVE  /\ Upsert(q, i, now) \in Queue
           /\ \A s \in Stops \ {i.stop} : Upsert(q, i, now)[s] = q[s]
           /\ Upsert(q, i, now)[i.stop] =
                  Merged(IF q[i.stop] = NoItem THEN Fresh(now) ELSE q[i.stop], i, now)
           /\ Upsert(q, i, now)[i.stop] \in Item
  <1> DEFINE old == IF q[i.stop] = NoItem THEN Fresh(now) ELSE q[i.stop]
  <1>1. i.stop \in Stops
    BY DEF Intent
  <1>2. old \in Item
    BY <1>1, FreshItem DEF Queue
  <1>3. Merged(old, i, now) \in Item
    BY <1>2, MergedItem
  <1>4. Upsert(q, i, now) = [q EXCEPT ![i.stop] = Merged(old, i, now)]
    BY DEF Upsert
  <1> HIDE DEF old
  <1>5. /\ Upsert(q, i, now) \in Queue
        /\ \A s \in Stops \ {i.stop} : Upsert(q, i, now)[s] = q[s]
        /\ Upsert(q, i, now)[i.stop] = Merged(old, i, now)
    BY <1>1, <1>3, <1>4 DEF Queue
  <1> QED BY <1>3, <1>5 DEF old

\* Removal leaves the other items as they are.
LEMMA DequeueQueue ==
    ASSUME NEW q \in Queue, NEW S
    PROVE  /\ Dequeue(q, S) \in Queue
           /\ \A s \in Stops : Dequeue(q, S)[s] = IF s \in S THEN NoItem ELSE q[s]
  BY DEF Dequeue, Queue

\* A queue whose items are worth keeping is one after a tap is merged in.
LEMMA UpsertWorth ==
    ASSUME NEW q \in Queue, NEW i \in Intent, NEW now \in Instant,
           WorthIts(q), i.tap = "photo" => i.shot # 0
    PROVE  MergeOutboxItem(q, i, now) \in Queue /\ WorthIts(MergeOutboxItem(q, i, now))
  <1> DEFINE up == Upsert(q, i, now)
             old == IF q[i.stop] = NoItem THEN Fresh(now) ELSE q[i.stop]
  <1>1. i.stop \in Stops
    BY DEF Intent
  <1>2. old \in Item /\ (old = Fresh(now) \/ Worth(old))
    BY <1>1, FreshItem DEF Queue, WorthIts
  <1>3. Worth(Merged(old, i, now))
    BY <1>2, MergedWorth
  <1>4. up \in Queue /\ WorthIts(up)
    BY <1>1, <1>3, UpsertQueue DEF WorthIts
  <1> HIDE DEF up
  <1>5. MergeOutboxItem(q, i, now) = Dequeue(up, Evicted(up))
    BY DEF MergeOutboxItem, up
  <1> QED BY <1>4, <1>5, DequeueQueue DEF WorthIts

\* A step that is done keeps the taps of the item and who it is.
LEMMA ProgressedItem ==
    ASSUME NEW item \in Item, NEW tap
    PROVE  /\ Progressed(item, tap) \in Item
           /\ Progressed(item, tap).apiFailures = item.apiFailures
           /\ Progressed(item, tap).queuedAt = item.queuedAt
           /\ Progressed(item, tap).markArrived = item.markArrived
           /\ Progressed(item, tap).confirmDelivered = item.confirmDelivered
           /\ Progressed(item, tap).arrivedMarked = (item.arrivedMarked \/ tap = "arrived")
  <1>1. CASE tap = "arrived"
    <2>1. Progressed(item, tap) = [item EXCEPT !.arrivedMarked = TRUE]
      BY <1>1 DEF Progressed
    <2> QED BY <1>1, <2>1 DEF Item
  <1>2. CASE tap = "photo"
    <2>1. Progressed(item, tap) = [item EXCEPT !.photoUploaded = TRUE, !.photo = 0]
      BY <1>2 DEF Progressed
    <2>2. 0 \in Instant
      BY BudgetAssumption DEF Instant
    <2> QED BY <1>2, <2>1, <2>2 DEF Item
  <1>3. CASE tap \notin {"arrived", "photo"}
    <2>1. Progressed(item, tap) = item
      BY <1>3 DEF Progressed
    <2> QED BY <1>3, <2>1 DEF Item
  <1> QED BY <1>1, <1>2, <1>3

\* A kept item goes back in place, with its progress.
InTurn(item, turn) == [item EXCEPT !.turn = turn]

\* An item put back in its turn is the same but for the turn.
LEMMA InTurnItem ==
    ASSUME NEW item \in Item, NEW turn \in Instant
    PROVE  /\ InTurn(item, turn) \in Item
           /\ InTurn(item, turn).queuedAt = item.queuedAt
           /\ InTurn(item, turn).markArrived = item.markArrived
           /\ InTurn(item, turn).confirmDelivered = item.confirmDelivered
           /\ InTurn(item, turn).arrivedMarked = item.arrivedMarked
           /\ Worth(item) => Worth(InTurn(item, turn))
  <1>1. /\ InTurn(item, turn) \in Item
        /\ InTurn(item, turn).queuedAt = item.queuedAt
        /\ InTurn(item, turn).markArrived = item.markArrived
        /\ InTurn(item, turn).confirmDelivered = item.confirmDelivered
        /\ InTurn(item, turn).arrivedMarked = item.arrivedMarked
        /\ InTurn(item, turn).photo = item.photo
        /\ InTurn(item, turn).photoUploaded = item.photoUploaded
        /\ InTurn(item, turn).apiFailures = item.apiFailures
    BY DEF InTurn, Item
  <1>2. Worth(item) => Worth(InTurn(item, turn))
    BY <1>1 DEF Worth, NextTap
  <1> QED BY <1>1, <1>2

\* A checkpoint leaves an item, puts back its kept copy, or removes it.
LEMMA ReconciledQueue ==
    ASSUME NEW q \in Queue, NEW work \in Queue, NEW outcome \in [Stops -> Outcomes]
    PROVE  /\ Reconcile(q, work, outcome) \in Queue
           /\ \A s \in Stops :
                 \/ /\ Reconcile(q, work, outcome)[s] = q[s]
                    /\ ~ SameItem(q[s], work[s]) \/ outcome[s] = "none"
                 \/ /\ Reconcile(q, work, outcome)[s] = InTurn(work[s], q[s].turn)
                    /\ SameItem(q[s], work[s]) /\ outcome[s] = "kept"
                    /\ q[s] \in Item /\ work[s] \in Item
                 \/ /\ Reconcile(q, work, outcome)[s] = NoItem
                    /\ SameItem(q[s], work[s]) /\ outcome[s] \in {"synced", "dropped", "orphaned"}
  <1>1. ASSUME NEW s \in Stops
        PROVE  /\ Reconcile(q, work, outcome)[s] \in Item \cup {NoItem}
               /\ \/ /\ Reconcile(q, work, outcome)[s] = q[s]
                     /\ ~ SameItem(q[s], work[s]) \/ outcome[s] = "none"
                  \/ /\ Reconcile(q, work, outcome)[s] = InTurn(work[s], q[s].turn)
                     /\ SameItem(q[s], work[s]) /\ outcome[s] = "kept"
                     /\ q[s] \in Item /\ work[s] \in Item
                  \/ /\ Reconcile(q, work, outcome)[s] = NoItem
                     /\ SameItem(q[s], work[s]) /\ outcome[s] \in {"synced", "dropped", "orphaned"}
    <2>1. outcome[s] \in {"none", "kept", "synced", "dropped", "orphaned"}
      BY DEF Outcomes
    <2>2. q[s] \in Item \cup {NoItem} /\ work[s] \in Item \cup {NoItem}
      BY DEF Queue
    <2>3. CASE ~ SameItem(q[s], work[s]) \/ outcome[s] = "none"
      BY <2>2, <2>3 DEF Reconcile
    <2>4. CASE SameItem(q[s], work[s]) /\ outcome[s] = "kept"
      <3>1. q[s] \in Item /\ work[s] \in Item /\ q[s].turn \in Instant
        BY <2>2, <2>4 DEF SameItem, Item
      <3>2. Reconcile(q, work, outcome)[s] = InTurn(work[s], q[s].turn)
        BY <2>4 DEF Reconcile, InTurn
      <3> QED BY <2>4, <3>1, <3>2, InTurnItem
    <2>5. CASE SameItem(q[s], work[s]) /\ outcome[s] \in {"synced", "dropped", "orphaned"}
      BY <2>5 DEF Reconcile
    <2> QED BY <2>1, <2>3, <2>4, <2>5
  <1>2. Reconcile(q, work, outcome) \in Queue
    BY <1>1 DEF Reconcile, Queue
  <1> QED BY <1>1, <1>2

-----------------------------------------------------------------------------
(* Types, and the worth of what is queued.                                  *)

ScreenHolds == screen # Idle =>
    /\ screen.op = "enqueue" /\ screen.intent.tap = "photo" => screen.intent.shot # 0
    /\ screen.op # "enqueue" /\ screen.pc \in {"write", "erase"} => screen.seen[screen.intent.stop] # NoItem
    /\ WorthIts(screen.seen)

FlushHolds == flush # Idle =>
    /\ \A s \in Stops : flush.work[s] # NoItem /\ flush.outcome[s] \in {"none", "kept"}
                            => Worth(flush.work[s])
    /\ WorthIts(flush.seen)

QueueInv == TypeOK /\ WorthIts(queue) /\ ScreenHolds /\ FlushHolds

\* What the server has recorded stays recorded.
ServerGrows ==
    /\ \A s \in Stops : stop[s] # "pending" => stop'[s] # "pending"
    /\ \A s \in Stops : stop[s] = "delivered" => stop'[s] = "delivered"
    /\ trip = "locked" => trip' = "locked"

ServerTypes ==
    /\ trip' \in {"out", "locked", "away"}
    /\ blocked' \in BOOLEAN
    /\ stop' \in [Stops -> {"pending", "arrived", "delivered"}]
    /\ pod' \in [Stops -> Instant]

\* The empty queue is a queue, with nothing in it to be worthless.
LEMMA EmptyQueue == Empty \in Queue /\ WorthIts(Empty) /\ \A s \in Stops : Empty[s] = NoItem
  BY DEF Empty, Queue, WorthIts

\* An idle thread is not one at work.
LEMMA IdleIsNone == Idle \notin Screen /\ Idle \notin Flush
  BY IdleAssumption

\* A request leaves the server well-formed, and nothing recorded is undone.
LEMMA ServeTypes ==
    ASSUME TypeOK, NEW i, i.stop \in Stops, i.tap = "photo" => i.shot \in Instant,
           Serve(i) \/ UNCHANGED serverVars
    PROVE  ServerTypes /\ ServerGrows
  <1>1. CASE UNCHANGED serverVars
    BY <1>1 DEF TypeOK, serverVars, ServerTypes, ServerGrows
  <1>2. CASE Serve(i) /\ Code(i.tap, i.stop) = "OK"
    <2>1. CASE i.tap = "arrived"
      <3>1. stop[i.stop] = "pending"
        BY <1>2, <2>1 DEF Code, ArrivedCode
      <3>2. stop' = [stop EXCEPT ![i.stop] = "arrived"] /\ pod' = pod /\ trip' \in {"locked", trip} /\ blocked' = blocked
        BY <1>2, <2>1 DEF Serve
      <3> QED BY <3>1, <3>2 DEF TypeOK, ServerTypes, ServerGrows
    <2>2. CASE i.tap = "delivered"
      <3>1. stop' = [stop EXCEPT ![i.stop] = "delivered"] /\ pod' = pod /\ trip' \in {"locked", trip} /\ blocked' = blocked
        BY <1>2, <2>2 DEF Serve
      <3> QED BY <3>1 DEF TypeOK, ServerTypes, ServerGrows
    <2>3. CASE i.tap \notin {"arrived", "delivered"}
      <3>1. stop' = stop /\ trip' \in {"locked", trip} /\ blocked' = blocked
        BY <1>2, <2>3 DEF Serve
      <3>2. pod' \in [Stops -> Instant]
        BY <1>2, <2>3 DEF Serve, TypeOK
      <3> QED BY <3>1, <3>2 DEF TypeOK, ServerTypes, ServerGrows
    <2> QED BY <2>1, <2>2, <2>3
  <1>3. CASE Serve(i) /\ Code(i.tap, i.stop) # "OK"
    BY <1>3 DEF Serve, TypeOK, serverVars, ServerTypes, ServerGrows
  <1> QED BY <1>1, <1>2, <1>3

\* The queue starts empty, the threads idle.
LEMMA InitQueue == Init => QueueInv
  <1> SUFFICES ASSUME Init PROVE QueueInv
    OBVIOUS
  <1>1. /\ queue = Empty /\ parked = {} /\ screen = Idle /\ flush = Idle /\ clock = 1
        /\ trip = "out" /\ blocked = FALSE /\ saved = {} /\ missed = {}
    BY DEF Init
  <1>2. 0 \in Instant /\ 1 \in Instant
    BY BudgetAssumption DEF Instant
  <1>3. stop \in [Stops -> {"pending", "arrived", "delivered"}] /\ pod \in [Stops -> Instant]
    BY <1>2 DEF Init
  <1> QED BY <1>1, <1>2, <1>3, EmptyQueue DEF QueueInv, TypeOK, ScreenHolds, FlushHolds

\* A tap of the driver, answered or not.
LEMMA TapKeepsQueue ==
    ASSUME QueueInv, NEW i \in Intent, TapAnswered(i) \/ TapUnanswered(i)
    PROVE  QueueInv' /\ ServerGrows
  <1>1. /\ UNCHANGED <<queue, parked, flush, saved, missed>> /\ clock' \in Instant
    BY BudgetAssumption DEF TapAnswered, TapUnanswered, Tap, ghosts, QueueInv, TypeOK, Instant
  <1>2. ServerTypes /\ ServerGrows
    BY ServeTypes DEF TapAnswered, TapUnanswered, Intent, QueueInv
  <1>3. i.tap = "photo" => i.shot # 0
    BY DEF TapAnswered, TapUnanswered, Tap, Offers, QueueInv, TypeOK, Instant
  <1>4. \/ UNCHANGED screen
        \/ \E operation \in {"enqueue", "noteUpload", "remove"} : Begin(operation, i)
    BY DEF TapAnswered, TapUnanswered
  <1>5. screen' \in Screen \cup {Idle} /\ ScreenHolds'
    <2>1. CASE UNCHANGED screen
      BY <2>1 DEF QueueInv, TypeOK, ScreenHolds, WorthIts, Worth, NextTap
    <2>2. CASE \E operation \in {"enqueue", "noteUpload", "remove"} : Begin(operation, i)
      <3>1. PICK operation \in {"enqueue", "noteUpload", "remove"} : Begin(operation, i)
        BY <2>2
      <3>2. screen' = [pc |-> "read", op |-> operation, intent |-> i, seen |-> Empty]
        BY <3>1 DEF Begin
      <3>3. screen' \in Screen
        BY <3>2, EmptyQueue DEF Screen
      <3> QED BY <1>3, <3>2, <3>3, EmptyQueue DEF ScreenHolds
    <2> QED BY <1>4, <2>1, <2>2
  <1>6. FlushHolds' /\ WorthIts(queue)'
    BY <1>1 DEF QueueInv, FlushHolds, WorthIts, Worth, NextTap
  <1> QED BY <1>1, <1>2, <1>5, <1>6 DEF QueueInv, TypeOK, ServerTypes

\* The read, the guard's look and the write of an outbox operation.
LEMMA ScreenKeepsQueue ==
    ASSUME QueueInv, ScreenRead \/ ScreenEnqueue \/ ScreenErases \/ ScreenTidy \/ ScreenFails
    PROVE  QueueInv'
  <1>1. screen \in Screen /\ screen # Idle
    BY DEF ScreenRead, ScreenEnqueue, ScreenErases, ScreenTidy, Tidying, ScreenFails, QueueInv, TypeOK
  <1>2. UNCHANGED <<parked, flush, clock, trip, blocked, stop, pod>>
    BY DEF ScreenRead, ScreenEnqueue, ScreenErases, ScreenTidy, Tidying, ScreenFails, ScreenStep, serverVars
  <1>3. FlushHolds'
    BY <1>2 DEF QueueInv, FlushHolds, WorthIts, Worth, NextTap
  <1>4. screen' \in Screen \cup {Idle} /\ ScreenHolds'
    <2>1. CASE screen' = Idle
      BY <2>1 DEF ScreenHolds
    <2>2. CASE screen' = [screen EXCEPT !.pc = "write", !.seen = queue]
      <3>1. screen' \in Screen
        BY <1>1, <2>2 DEF Screen, QueueInv, TypeOK
      <3>2. /\ screen'.op = screen.op /\ screen'.intent = screen.intent /\ screen'.seen = queue
            /\ ~ ScreenErases
        BY <1>1, <2>2 DEF Screen, ScreenErases
      <3>3. screen.op # "enqueue" => queue[screen.intent.stop] # NoItem
        BY <1>1, <3>1, <3>2, IdleIsNone DEF ScreenRead, ScreenEnqueue, ScreenErases, ScreenTidy, Tidying, ScreenFails
      <3> QED BY <1>1, <3>1, <3>2, <3>3 DEF QueueInv, ScreenHolds
    <2>3. CASE ScreenErases
      <3>1. screen' = [screen EXCEPT !.pc = "erase"] /\ screen.pc = "write"
        BY <2>3 DEF ScreenErases
      <3>2. /\ screen' \in Screen /\ screen'.op = screen.op
            /\ screen'.intent = screen.intent /\ screen'.seen = screen.seen
        BY <1>1, <3>1 DEF Screen
      <3> QED BY <1>1, <3>1, <3>2 DEF QueueInv, ScreenHolds
    <2> QED BY <2>1, <2>2, <2>3 DEF ScreenRead, ScreenEnqueue, ScreenTidy, ScreenFails
  <1>5. queue' \in Queue /\ WorthIts(queue') /\ saved' \subseteq Intent /\ missed' \subseteq Intent
    <2>1. CASE UNCHANGED <<queue, saved, missed>>
      BY <2>1 DEF QueueInv, TypeOK
    <2>2. CASE ScreenEnqueue
      <3>1. queue' = MergeOutboxItem(screen.seen, screen.intent, clock)
        BY <2>2 DEF ScreenEnqueue
      <3>2. /\ screen.seen \in Queue /\ screen.intent \in Intent /\ clock \in Instant
            /\ WorthIts(screen.seen) /\ (screen.intent.tap = "photo" => screen.intent.shot # 0)
        BY <1>1, <2>2 DEF Screen, QueueInv, TypeOK, ScreenHolds, ScreenEnqueue
      <3>3. saved' \subseteq saved \cup {screen.intent} /\ missed' \subseteq missed \cup {screen.intent}
        BY <2>2 DEF ScreenEnqueue
      <3> QED BY <3>1, <3>2, <3>3, UpsertWorth DEF QueueInv, TypeOK
    <2>3. CASE ScreenTidy
      <3> DEFINE i == screen.intent
                 kept == [screen.seen EXCEPT ![i.stop].photo = 0, ![i.stop].photoUploaded = TRUE]
      <3>1. queue' = Tidied(i) /\ saved' \subseteq saved /\ missed' = missed
        BY <2>3 DEF ScreenTidy
      <3>2. screen.seen \in Queue /\ i \in Intent /\ WorthIts(screen.seen) /\ i.stop \in Stops
        BY <1>1 DEF Screen, QueueInv, TypeOK, ScreenHolds, Intent
      <3>3. CASE Tidied(i) = Dequeue(screen.seen, {i.stop})
        BY <3>1, <3>2, <3>3, DequeueQueue DEF QueueInv, TypeOK, WorthIts
      <3>4. CASE screen.seen[i.stop].confirmDelivered /\ Tidied(i) = kept
        <4> DEFINE item == screen.seen[i.stop]
                   rest == Uploaded(item)
        <4>1. item \in Item /\ Worth(item)
          <5>1. screen.op # "enqueue" /\ screen.pc \in {"write", "erase"}
            BY <1>1, <2>3 DEF ScreenTidy, Tidying, Screen
          <5>2. item # NoItem
            BY <1>1, <5>1 DEF QueueInv, ScreenHolds
          <5> QED BY <3>2, <5>2 DEF Queue, WorthIts
        <4>2. rest \in Item /\ rest.confirmDelivered = item.confirmDelivered
              /\ rest.apiFailures = item.apiFailures
          BY <4>1, UploadedItem
        <4>3. Worth(rest)
          <5> HIDE DEF rest
          <5> QED BY <3>4, <4>1, <4>2 DEF Worth, NextTap, Item
        <4>4. kept = [screen.seen EXCEPT ![i.stop] = rest]
          BY <3>2, <4>1 DEF Queue, Item, Uploaded
        <4> HIDE DEF rest, kept
        <4>5. kept \in Queue /\ WorthIts(kept)
          BY <3>2, <4>2, <4>3, <4>4 DEF Queue, WorthIts
        <4> QED BY <3>1, <3>4, <4>5 DEF QueueInv, TypeOK
      <3> QED BY <3>3, <3>4 DEF Tidied
    <2> QED BY <2>1, <2>2, <2>3 DEF ScreenRead, ScreenErases, ScreenFails, ghosts
  <1> QED BY <1>2, <1>3, <1>4, <1>5 DEF QueueInv, TypeOK

\* What a flush has in hand.
LEMMA FlushFields ==
    ASSUME QueueInv, flush # Idle
    PROVE  /\ flush \in Flush /\ flush.work \in Queue /\ flush.seen \in Queue
           /\ flush.outcome \in [Stops -> Outcomes] /\ flush.consume \in BOOLEAN
           /\ WorthIts(flush.seen)
           /\ \A s \in Unsettled : flush.work[s] \in Item /\ Worth(flush.work[s])
  <1>1. flush \in Flush
    BY DEF QueueInv, TypeOK
  <1>2. /\ flush.work \in Queue /\ flush.seen \in Queue
        /\ flush.outcome \in [Stops -> Outcomes] /\ flush.consume \in BOOLEAN
    BY <1>1 DEF Flush
  <1>3. \A s \in Unsettled : flush.work[s] \in Item /\ Worth(flush.work[s])
    BY <1>2 DEF Unsettled, Queued, QueueInv, FlushHolds, Queue
  <1> QED BY <1>1, <1>2, <1>3 DEF QueueInv, FlushHolds

\* A flush settles the item at hand, unchanged.
LEMMA SettleKeepsQueue ==
    ASSUME QueueInv, flush # Idle, NEW s \in Unsettled, NEW result \in Outcomes
    PROVE  /\ Settle(s, result) \in Flush
           /\ Settle(s, result).work = flush.work /\ Settle(s, result).seen = flush.seen
           /\ Settle(s, result).outcome = [flush.outcome EXCEPT ![s] = result]
           /\ Settle(s, result).pc = "reread" /\ Settle(s, result).consume = flush.consume
  BY FlushFields DEF Settle, Flush

\* A settled item is not one of those still to be worth sending.
LEMMA SettledHolds ==
    ASSUME QueueInv, flush # Idle, NEW s \in Unsettled, NEW result \in Outcomes,
           flush' = Settle(s, result)
    PROVE  flush' \in Flush \cup {Idle} /\ FlushHolds'
  <1>1. /\ flush' \in Flush /\ flush'.work = flush.work /\ flush'.seen = flush.seen
        /\ flush'.outcome = [flush.outcome EXCEPT ![s] = result]
    BY SettleKeepsQueue
  <1>2. \A u \in Stops : flush'.work[u] # NoItem /\ flush'.outcome[u] \in {"none", "kept"}
                            => Worth(flush'.work[u])
    BY <1>1, FlushFields DEF QueueInv, FlushHolds
  <1> QED BY <1>1, <1>2, FlushFields DEF FlushHolds

\* Everything but the flush in progress stays as it is on the phone.
PhoneRests == UNCHANGED <<queue, parked, screen, clock, saved, missed>>

\* With the phone at rest only the flush is to be looked at.
LEMMA PhoneRestsKeeps ==
    ASSUME QueueInv, PhoneRests, ServerTypes, flush' \in Flush \cup {Idle}, FlushHolds'
    PROVE  QueueInv'
  <1>1. ScreenHolds'
    BY DEF PhoneRests, QueueInv, ScreenHolds
  <1> QED BY <1>1 DEF PhoneRests, QueueInv, TypeOK, ServerTypes

\* A server at rest is well-formed and undoes nothing.
LEMMA ServerRests == QueueInv /\ UNCHANGED serverVars => ServerTypes /\ ServerGrows
  BY DEF QueueInv, TypeOK, serverVars, ServerTypes, ServerGrows

\* A request of a flush concerns the item at hand.
LEMMA RequestIsTyped ==
    ASSUME QueueInv, flush # Idle, NEW s \in Unsettled
    PROVE  Request(s).stop \in Stops /\ (Request(s).tap = "photo" => Request(s).shot \in Instant)
           /\ Request(s).tap = NextTap(flush.work[s]) /\ Request(s).stop = s
  BY FlushFields DEF Request, Unsettled, Queued, Item

\* A step of the flush keeps what is left to settle worth sending: a committed
\* step is followed by another or settles the item, a refusal spends the budget.
LEMMA SendKeepsQueue ==
    ASSUME QueueInv, NEW s \in Stops,
           FlushUnanswered(s) \/ FlushCommitted(s) \/ FlushOrphaned(s) \/ FlushRefused(s)
    PROVE  QueueInv' /\ ServerGrows
  <1>1. flush # Idle /\ s \in Unsettled /\ PhoneRests
    BY DEF FlushUnanswered, FlushCommitted, FlushOrphaned, FlushRefused, FlushSend, FlushStep, Current,
           PhoneRests, ghosts
  <1>2. ServerTypes /\ ServerGrows
    <2>1. Serve(Request(s)) \/ UNCHANGED serverVars
      BY DEF FlushUnanswered, FlushCommitted, FlushOrphaned, FlushRefused
    <2> QED BY <1>1, <2>1, ServeTypes, RequestIsTyped DEF QueueInv
  <1>3. CASE FlushUnanswered(s) \/ FlushOrphaned(s)
    <2>1. \E result \in Outcomes : flush' = Settle(s, result)
      BY <1>3 DEF FlushUnanswered, FlushOrphaned, Outcomes
    <2> QED BY <1>1, <1>2, <2>1, SettledHolds, PhoneRestsKeeps
  <1>4. CASE FlushCommitted(s)
    <2> DEFINE tap == Request(s).tap
               item == Progressed(flush.work[s], tap)
               done == tap = "delivered" \/ NextTap(item) = "none"
               outcome == IF done THEN [flush.outcome EXCEPT ![s] = "synced"] ELSE flush.outcome
    <2>1. flush.work[s] \in Item /\ Worth(flush.work[s])
      BY <1>1, FlushFields
    <2>2. item \in Item /\ item.apiFailures = flush.work[s].apiFailures
      BY <2>1, ProgressedItem
    <2>3. ~ done => Worth(item)
      BY <2>1, <2>2 DEF Worth
    <2>4. flush' = [flush EXCEPT !.work[s] = item, !.outcome[s] = IF done THEN "synced" ELSE @,
                                 !.pc = IF done THEN "reread" ELSE @]
      BY <1>4 DEF FlushCommitted
    <2> HIDE DEF item, done
    <2>5. /\ flush' \in Flush /\ flush'.work = [flush.work EXCEPT ![s] = item]
          /\ flush'.outcome = [flush.outcome EXCEPT ![s] = IF done THEN "synced" ELSE @]
          /\ flush'.seen = flush.seen
      BY <1>1, <2>2, <2>4, FlushFields DEF Flush, Queue, Outcomes
    <2>6. \A u \in Stops : flush'.work[u] # NoItem /\ flush'.outcome[u] \in {"none", "kept"}
                              => Worth(flush'.work[u])
      BY <1>1, <2>3, <2>5, FlushFields DEF QueueInv, FlushHolds, Queue
    <2>7. FlushHolds'
      BY <1>1, <2>5, <2>6, FlushFields DEF FlushHolds
    <2> QED BY <1>1, <1>2, <2>5, <2>7, PhoneRestsKeeps
  <1>5. CASE FlushRefused(s)
    <2> DEFINE failures == flush.work[s].apiFailures + 1
               result == IF failures >= MaxApiFailures THEN "dropped" ELSE "kept"
    <2>1. flush' = Settle(s, "kept")
          \/ flush' = [Settle(s, result) EXCEPT !.work[s].apiFailures = failures]
      BY <1>5 DEF FlushRefused
    <2>2. CASE flush' = Settle(s, "kept")
      BY <1>1, <1>2, <2>2, SettledHolds, PhoneRestsKeeps DEF Outcomes
    <2>3. CASE flush' = [Settle(s, result) EXCEPT !.work[s].apiFailures = failures]
      <3> DEFINE item == [flush.work[s] EXCEPT !.apiFailures = failures]
                 settled == Settle(s, result)
      <3>1. flush.work[s] \in Item /\ Worth(flush.work[s]) /\ s \in Stops
        BY <1>1, FlushFields
      <3>2. failures \in 0 .. MaxApiFailures
        BY <3>1, BudgetAssumption DEF Worth, Item
      <3>3. /\ item \in Item /\ item.apiFailures = failures
            /\ result = "kept" => Worth(item)
        <4> DEFINE old == flush.work[s]
        <4>1. old \in Item /\ Worth(old) /\ item = [old EXCEPT !.apiFailures = failures]
          BY <3>1
        <4> HIDE DEF old, failures, item
        <4>2. /\ item \in Item /\ item.apiFailures = failures
              /\ item.markArrived = old.markArrived /\ item.arrivedMarked = old.arrivedMarked
              /\ item.photo = old.photo /\ item.photoUploaded = old.photoUploaded
              /\ item.confirmDelivered = old.confirmDelivered
          BY <3>2, <4>1 DEF Item
        <4>3. failures < MaxApiFailures => Worth(item)
          BY <4>1, <4>2 DEF Worth, NextTap
        <4> QED BY <3>2, <4>2, <4>3, BudgetAssumption
      <3>4. /\ settled \in Flush /\ settled.work = flush.work /\ settled.seen = flush.seen
            /\ settled.outcome = [flush.outcome EXCEPT ![s] = result]
        BY <1>1, SettleKeepsQueue DEF Outcomes
      <3>5. flush' = [settled EXCEPT !.work = [flush.work EXCEPT ![s] = item]]
        BY <2>3, <3>1, <3>4, <1>1, FlushFields DEF Flush, Queue
      <3> HIDE DEF settled, result, item
      <3>6. /\ flush' \in Flush /\ flush'.work = [flush.work EXCEPT ![s] = item]
            /\ flush'.outcome = [flush.outcome EXCEPT ![s] = result] /\ flush'.seen = flush.seen
        BY <1>1, <3>1, <3>3, <3>4, <3>5, FlushFields DEF Flush, Queue
      <3>7. \A u \in Stops : flush'.work[u] # NoItem /\ flush'.outcome[u] \in {"none", "kept"}
                                => Worth(flush'.work[u])
        <4>1. result # "none"
          BY DEF result
        <4> QED BY <1>1, <3>1, <3>3, <3>6, <4>1, FlushFields DEF QueueInv, FlushHolds, Queue
      <3>8. FlushHolds'
        BY <1>1, <3>6, <3>7, FlushFields DEF FlushHolds
      <3> QED BY <1>1, <1>2, <3>6, <3>8, PhoneRestsKeeps
    <2> QED BY <2>1, <2>2, <2>3
  <1> QED BY <1>3, <1>4, <1>5

\* A flush sets out with what is stored.
LEMMA StartKeepsQueue ==
    ASSUME QueueInv, NEW consumeBudget \in BOOLEAN, FlushStart(consumeBudget)
    PROVE  QueueInv' /\ ServerGrows
  <1>1. /\ flush' = [pc |-> "send", work |-> queue, outcome |-> [s \in Stops |-> "none"],
                     seen |-> Empty, consume |-> consumeBudget]
        /\ PhoneRests /\ UNCHANGED serverVars
    BY DEF FlushStart, FlushStep, PhoneRests, ghosts
  <1>2. flush' \in Flush
    BY <1>1, EmptyQueue DEF Flush, Outcomes, QueueInv, TypeOK
  <1>3. flush'.work = queue /\ flush'.seen = Empty
    BY <1>1
  <1>4. FlushHolds'
    BY <1>3, EmptyQueue DEF FlushHolds, QueueInv, WorthIts
  <1> QED BY <1>1, <1>2, <1>4, ServerRests, PhoneRestsKeeps

\* The intents of an item are intents.
LEMMA IntentsAreIntents == \A s, item : IntentsOf(s, item) \subseteq Intent
  BY DEF IntentsOf

\* The end of a checkpoint.
LEMMA NextItemHolds ==
    ASSUME QueueInv, flush # Idle, flush' = NextItem \/ flush' = Idle
    PROVE  flush' \in Flush \cup {Idle} /\ FlushHolds'
  <1>1. CASE flush' = Idle
    BY <1>1 DEF FlushHolds
  <1>2. CASE flush' # Idle
    <2>1. flush' = [flush EXCEPT !.pc = "send", !.seen = Empty]
      BY <1>2 DEF NextItem
    <2>2. /\ flush' \in Flush /\ flush'.work = flush.work /\ flush'.outcome = flush.outcome
          /\ flush'.seen = Empty
      BY <2>1, FlushFields, EmptyQueue DEF Flush
    <2> QED BY <2>2, EmptyQueue DEF QueueInv, FlushHolds
  <1> QED BY <1>1, <1>2

\* A checkpoint writes back items of one of two worthy copies.
LEMMA CheckpointKeepsQueue ==
    ASSUME QueueInv,
           \/ CheckpointRead \/ CheckpointSkipped \/ CheckpointErases
           \/ CheckpointWrite \/ CheckpointRefused \/ CheckpointFails
    PROVE  QueueInv' /\ ServerGrows
  <1>1. flush # Idle /\ UNCHANGED serverVars /\ UNCHANGED <<screen, clock>>
    BY DEF CheckpointRead, CheckpointSkipped, CheckpointErases, CheckpointWrite,
           CheckpointRefused, CheckpointFails, FlushStep
  <1>2. ScreenHolds'
    BY <1>1 DEF QueueInv, ScreenHolds
  <1>3. flush' \in Flush \cup {Idle} /\ FlushHolds'
    <2>1. CASE CheckpointRead
      <3>1. flush' = [flush EXCEPT !.pc = "write", !.seen = queue]
        BY <2>1 DEF CheckpointRead
      <3>2. /\ flush' \in Flush /\ flush'.work = flush.work /\ flush'.outcome = flush.outcome
            /\ flush'.seen = queue
        BY <1>1, <3>1, FlushFields DEF Flush, QueueInv, TypeOK
      <3> QED BY <1>1, <3>2 DEF QueueInv, FlushHolds
    <2>2. CASE CheckpointErases
      <3>1. flush' = [flush EXCEPT !.pc = "erase"]
        BY <2>2 DEF CheckpointErases
      <3>2. /\ flush' \in Flush /\ flush'.work = flush.work /\ flush'.outcome = flush.outcome
            /\ flush'.seen = flush.seen
        BY <1>1, <3>1, FlushFields DEF Flush
      <3> QED BY <1>1, <3>2 DEF QueueInv, FlushHolds
    <2>3. CASE ~ CheckpointRead /\ ~ CheckpointErases
      <3>1. flush' = NextItem \/ flush' = Idle
        BY <2>3 DEF CheckpointSkipped, CheckpointWrite, CheckpointRefused, CheckpointFails
      <3> QED BY <1>1, <3>1, NextItemHolds
    <2> QED BY <2>1, <2>2, <2>3
  <1>4. queue' \in Queue /\ WorthIts(queue)'
    <2>1. CASE CheckpointWrite
      <3> DEFINE next == Reconcile(flush.seen, flush.work, flush.outcome)
      <3>1. queue' = next
        BY <2>1 DEF CheckpointWrite, Checkpoint
      <3>2. next \in Queue
        BY <1>1, FlushFields, ReconciledQueue
      <3>3. ASSUME NEW s \in Stops, next[s] # NoItem
            PROVE  Worth(next[s])
        <4> DEFINE item == flush.work[s]
                   turn == flush.seen[s].turn
        <4>1. \/ next[s] = flush.seen[s]
              \/ /\ next[s] = InTurn(item, turn) /\ flush.outcome[s] = "kept"
                 /\ item \in Item /\ flush.seen[s] \in Item
          <5>1. /\ flush.seen \in Queue /\ flush.work \in Queue
                /\ flush.outcome \in [Stops -> Outcomes]
            BY <1>1, FlushFields
          <5>2. \/ next[s] = flush.seen[s]
                \/ /\ next[s] = InTurn(item, turn)
                   /\ SameItem(flush.seen[s], item) /\ flush.outcome[s] = "kept"
                   /\ flush.seen[s] \in Item /\ item \in Item
                \/ next[s] = NoItem
            <6> DEFINE q == flush.seen
                       work == flush.work
                       outcome == flush.outcome
            <6>1. q \in Queue /\ work \in Queue /\ outcome \in [Stops -> Outcomes]
              BY <5>1
            <6> HIDE DEF q, work, outcome
            <6>2. \/ Reconcile(q, work, outcome)[s] = q[s]
                  \/ /\ Reconcile(q, work, outcome)[s] = InTurn(work[s], q[s].turn)
                     /\ SameItem(q[s], work[s]) /\ outcome[s] = "kept"
                     /\ q[s] \in Item /\ work[s] \in Item
                  \/ Reconcile(q, work, outcome)[s] = NoItem
              BY <6>1, ReconciledQueue
            <6> QED BY <6>2 DEF q, work, outcome
          <5> HIDE DEF next, item, turn
          <5> QED BY <3>3, <5>2
        <4>2. CASE next[s] = flush.seen[s]
          BY <1>1, <3>3, <4>2, FlushFields DEF WorthIts
        <4>3. CASE next[s] = InTurn(item, turn) /\ flush.outcome[s] = "kept"
                   /\ item \in Item /\ flush.seen[s] \in Item
          <5>1. Worth(item)
            BY <1>1, <4>3, NoItemAssumption DEF QueueInv, FlushHolds
          <5>2. turn \in Instant
            BY <4>3 DEF Item
          <5> QED BY <4>3, <5>1, <5>2, InTurnItem
        <4> QED BY <4>1, <4>2, <4>3
      <3> QED BY <3>1, <3>2, <3>3 DEF WorthIts
    <2>2. CASE UNCHANGED queue
      BY <2>2 DEF QueueInv, TypeOK, WorthIts
    <2> QED BY <2>1, <2>2 DEF CheckpointRead, CheckpointSkipped, CheckpointErases, CheckpointRefused, CheckpointFails
  <1>5. parked' \subseteq Intent /\ saved' \subseteq Intent /\ missed' \subseteq Intent
    <2>1. CASE CheckpointRead
      <3>1. UNION {IntentsOf(s, flush.work[s]) : s \in Settled({"orphaned"})} \subseteq Intent
        BY IntentsAreIntents
      <3> QED BY <2>1, <3>1 DEF CheckpointRead, QueueInv, TypeOK
    <2>2. CASE CheckpointWrite
      BY <2>2 DEF CheckpointWrite, StillMissed, QueueInv, TypeOK
    <2>3. CASE UNCHANGED <<parked, saved>> /\ missed' \subseteq missed
      BY <2>3 DEF QueueInv, TypeOK
    <2> QED BY <2>1, <2>2, <2>3 DEF CheckpointSkipped, CheckpointErases, CheckpointRefused,
                                    CheckpointFails, StillMissed, ghosts
  <1> QED BY <1>1, <1>2, <1>3, <1>4, <1>5, ServerRests DEF QueueInv, TypeOK, ServerTypes

\* A kill forgets the threads; the office does not touch the phone.
LEMMA SurroundingsKeepQueue ==
    ASSUME QueueInv, AppKilled \/ ReportOpens \/ ReportUnblocks \/ TripEnds \/ UNCHANGED vars
    PROVE  QueueInv' /\ ServerGrows
  <1>1. UNCHANGED <<queue, parked, clock, saved, stop, pod>> /\ missed' \subseteq missed
    BY DEF AppKilled, ReportOpens, ReportUnblocks, TripEnds, OfficeStep, phoneVars, serverVars,
           ghosts, vars
  <1>2. \/ screen' = Idle /\ flush' = Idle
        \/ UNCHANGED <<screen, flush>>
    BY DEF AppKilled, ReportOpens, ReportUnblocks, TripEnds, OfficeStep, phoneVars, vars
  <1>3. trip' \in {"out", "locked", "away"} /\ blocked' \in BOOLEAN /\ (trip = "locked" => trip' = "locked")
    BY DEF QueueInv, TypeOK, AppKilled, ReportOpens, ReportUnblocks, TripEnds, serverVars, vars
  <1>4. screen' \in Screen \cup {Idle} /\ flush' \in Flush \cup {Idle} /\ ScreenHolds' /\ FlushHolds'
    <2>1. CASE screen' = Idle /\ flush' = Idle
      BY <2>1 DEF ScreenHolds, FlushHolds
    <2>2. CASE UNCHANGED <<screen, flush>>
      BY <2>2 DEF QueueInv, TypeOK, ScreenHolds, FlushHolds
    <2> QED BY <1>2, <2>1, <2>2
  <1> QED BY <1>1, <1>3, <1>4 DEF QueueInv, TypeOK, WorthIts, ServerGrows

\* Every step keeps the queue in order, and the server undoes nothing.
LEMMA StepKeepsQueue ==
    ASSUME QueueInv, [Next]_vars
    PROVE  QueueInv' /\ ServerGrows
  <1>1. CASE \E i \in Intent : TapAnswered(i) \/ TapUnanswered(i)
    BY <1>1, TapKeepsQueue
  <1>2. CASE ScreenRead \/ ScreenEnqueue \/ ScreenErases \/ ScreenTidy \/ ScreenFails
    <2>1. UNCHANGED serverVars
      BY <1>2 DEF ScreenRead, ScreenEnqueue, ScreenErases, ScreenTidy, ScreenFails, ScreenStep
    <2> QED BY <1>2, <2>1, ScreenKeepsQueue, ServerRests
  <1>3. CASE \E consumeBudget \in BOOLEAN : FlushStart(consumeBudget)
    BY <1>3, StartKeepsQueue
  <1>4. CASE \E s \in Stops : FlushUnanswered(s) \/ FlushCommitted(s) \/ FlushOrphaned(s) \/ FlushRefused(s)
    BY <1>4, SendKeepsQueue
  <1>5. CASE \/ CheckpointRead \/ CheckpointSkipped \/ CheckpointErases
             \/ CheckpointWrite \/ CheckpointRefused \/ CheckpointFails
    BY <1>5, CheckpointKeepsQueue
  <1>6. CASE AppKilled \/ ReportOpens \/ ReportUnblocks \/ TripEnds \/ UNCHANGED vars
    BY <1>6, SurroundingsKeepQueue
  <1> QED BY <1>1, <1>2, <1>3, <1>4, <1>5, <1>6 DEF Next, FlushGoesOn, FlushAnswered, PhoneFails

\* The queue is always in order.
LEMMA QueueInvariant == Spec => []QueueInv
  <1>1. QueueInv /\ [Next]_vars => QueueInv'
    BY StepKeepsQueue
  <1> QED BY <1>1, InitQueue, PTL DEF Spec

\* For any stops, taps and budgets, the queue and the two threads that share it
\* hold what the code can put there (podOutboxCore.ts, podOutbox.ts).
THEOREM TypeCorrect == Spec => []TypeOK
  <1>1. QueueInv => TypeOK
    BY DEF QueueInv
  <1> QED BY <1>1, QueueInvariant, PTL

\* No merge, tidied upload or interrupted flush leaves a stop "waiting for
\* signal" with nothing to wait for (mergeOutboxItem, noteDirectPodUpload,
\* reconcileOutboxAfterFlush): every stored item has a step left to send.
THEOREM QueuedMeansPending == Spec => []EveryItemHasWork
  <1>1. QueueInv => EveryItemHasWork
    BY DEF QueueInv, EveryItemHasWork, Queued, WorthIts, Worth
  <1> QED BY <1>1, QueueInvariant, PTL

-----------------------------------------------------------------------------
(* The taps the driver was told are saved.                                  *)

Holds(item, tap) ==
    /\ item # NoItem
    /\ \/ tap = "arrived" /\ item.markArrived
       \/ tap = "delivered" /\ item.confirmDelivered

\* What somebody still has to bring to the server, or to the quarantine.
Owed(i) == i.tap # "photo" /\ ~ Recorded(i) /\ i \notin parked /\ trip # "locked"

\* The taps a flush under way can know of.
Known == saved \ missed

\* Of any copy of the queue: it holds the owed taps, ...
InQueue(q) == \A i \in saved : Owed(i) => Holds(q[i.stop], i.tap)

\* ... or, read by a flush, those it can know of; what the flush works on holds
\* those of the items the copy shares with it, ...
InView(q) == \A i \in Known : Owed(i) => Holds(q[i.stop], i.tap)
InHand(q, work) == \A i \in Known :
    Owed(i) /\ SameItem(q[i.stop], work[i.stop]) => Holds(work[i.stop], i.tap)

\* ... and a step it says is done is done.
MarksTrue(q) == \A s \in Stops :
    q[s] # NoItem => (q[s].arrivedMarked => stop[s] # "pending")

ScreenKeeps == screen # Idle =>
    /\ screen.pc \in {"write", "erase"} => InQueue(screen.seen)
    /\ screen.op = "remove" => stop[screen.intent.stop] = "delivered" \/ trip = "locked"
    /\ MarksTrue(screen.seen)

\* A synced item is recorded, an orphaned one is in the quarantine before the
\* checkpoint takes it out.
OutcomesTrue(work, outcome) == \A s \in Stops : outcome[s] = "synced" =>
    /\ Holds(work[s], "arrived") => stop[s] # "pending" \/ trip = "locked"
    /\ Holds(work[s], "delivered") => stop[s] = "delivered" \/ trip = "locked"

Quarantined(work, outcome) == \A i \in Known :
    outcome[i.stop] = "orphaned" /\ Owed(i) => ~ Holds(work[i.stop], i.tap)

FlushKeeps == flush # Idle =>
    /\ InHand(queue, flush.work)
    /\ screen # Idle /\ screen.pc \in {"write", "erase"} => InHand(screen.seen, flush.work)
    /\ flush.pc \in {"write", "erase"} =>
          /\ InView(flush.seen)
          /\ InHand(flush.seen, flush.work)
          /\ Quarantined(flush.work, flush.outcome)
    /\ OutcomesTrue(flush.work, flush.outcome)
    /\ MarksTrue(flush.work) /\ MarksTrue(flush.seen)

TapInv == InQueue(queue) /\ MarksTrue(queue) /\ ScreenKeeps /\ FlushKeeps

\* The same facts of the next state about a given copy.
InQueueNext(q) == \A i \in saved' : Owed(i)' => Holds(q[i.stop], i.tap)
InViewNext(q) == \A i \in Known' : Owed(i)' => Holds(q[i.stop], i.tap)
InHandNext(q, work) == \A i \in Known' :
    Owed(i)' /\ SameItem(q[i.stop], work[i.stop]) => Holds(work[i.stop], i.tap)
MarksNext(q) == \A s \in Stops :
    q[s] # NoItem => (q[s].arrivedMarked => stop'[s] # "pending")
OutcomesNext(work, outcome) == \A s \in Stops : outcome[s] = "synced" =>
    /\ Holds(work[s], "arrived") => stop'[s] # "pending" \/ trip' = "locked"
    /\ Holds(work[s], "delivered") => stop'[s] = "delivered" \/ trip' = "locked"
QuarantinedNext(work, outcome) == \A i \in Known' :
    outcome[i.stop] = "orphaned" /\ Owed(i)' => ~ Holds(work[i.stop], i.tap)

\* An item stands for a tap exactly if its field is set.
LEMMA IntentIsHeld ==
    ASSUME NEW i \in Intent, i.tap # "photo", NEW item \in Item \cup {NoItem}
    PROVE  i \in IntentsOf(i.stop, item) <=> Holds(item, i.tap)
  BY DEF IntentsOf, Holds, Intent, Taps

\* No tap becomes owed again.
LEMMA OwedShrinks ==
    ASSUME ServerGrows, parked \subseteq parked', NEW i \in Intent
    PROVE  Owed(i)' => Owed(i)
  BY DEF Owed, Recorded, ServerGrows, Intent, Taps

\* While nothing new is promised, a copy that held what is owed still does.
LEMMA CopiesKeep ==
    ASSUME QueueInv, ServerGrows, parked \subseteq parked', saved' \subseteq saved, NEW q
    PROVE  InQueue(q) => InQueueNext(q)
  <1>1. \A i \in saved' : i \in saved /\ (Owed(i)' => Owed(i))
    BY OwedShrinks DEF QueueInv, TypeOK
  <1> QED BY <1>1 DEF InQueue, InQueueNext

\* Likewise of the taps a flush can know of, whatever else is stored.
LEMMA KnownKeep ==
    ASSUME QueueInv, ServerGrows, parked \subseteq parked', Known' \subseteq Known,
           NEW q, NEW work, NEW outcome
    PROVE  /\ InView(q) => InViewNext(q)
           /\ InHand(q, work) => InHandNext(q, work)
           /\ Quarantined(work, outcome) => QuarantinedNext(work, outcome)
  <1>1. \A i \in Known' : i \in Known /\ (Owed(i)' => Owed(i))
    BY OwedShrinks DEF QueueInv, TypeOK, Known
  <1> HIDE DEF Known
  <1> QED BY <1>1 DEF InView, InViewNext, InHand, InHandNext, Quarantined, QuarantinedNext

\* What was marked as done, and was, is.
LEMMA MarksKeep ==
    ASSUME ServerGrows, NEW q, NEW work, NEW outcome
    PROVE  /\ MarksTrue(q) => MarksNext(q)
           /\ OutcomesTrue(work, outcome) => OutcomesNext(work, outcome)
  BY DEF ServerGrows, MarksTrue, MarksNext, OutcomesTrue, OutcomesNext

\* Reading the facts of the next state off the queue, the screen and the flush.
LEMMA NextQueue ==
    ASSUME NEW q, queue' = q, InQueueNext(q), MarksNext(q)
    PROVE  InQueue(queue)' /\ MarksTrue(queue)'
  BY DEF InQueue, InQueueNext, MarksTrue, MarksNext

\* ... off the screen ...
LEMMA NextScreen ==
    ASSUME screen' # Idle =>
             /\ screen'.pc \in {"write", "erase"} => InQueueNext(screen'.seen)
             /\ screen'.op = "remove" => stop'[screen'.intent.stop] = "delivered" \/ trip' = "locked"
             /\ MarksNext(screen'.seen)
    PROVE  ScreenKeeps'
  BY DEF ScreenKeeps, InQueue, InQueueNext, MarksTrue, MarksNext

\* ... and off the flush.
LEMMA NextFlush ==
    ASSUME flush' # Idle =>
             /\ InHandNext(queue', flush'.work)
             /\ screen' # Idle /\ screen'.pc \in {"write", "erase"} => InHandNext(screen'.seen, flush'.work)
             /\ flush'.pc \in {"write", "erase"} =>
                   /\ InViewNext(flush'.seen)
                   /\ InHandNext(flush'.seen, flush'.work)
                   /\ QuarantinedNext(flush'.work, flush'.outcome)
             /\ OutcomesNext(flush'.work, flush'.outcome)
             /\ MarksNext(flush'.work) /\ MarksNext(flush'.seen)
    PROVE  FlushKeeps'
  BY DEF FlushKeeps, InView, InViewNext, InHand, InHandNext, MarksTrue, MarksNext, Known,
         OutcomesTrue, OutcomesNext, Quarantined, QuarantinedNext

\* What stays put keeps its facts.
LEMMA RestingParts ==
    ASSUME QueueInv, TapInv, ServerGrows, parked \subseteq parked', saved' \subseteq saved
    PROVE  /\ queue' = queue => InQueue(queue)' /\ MarksTrue(queue)'
           /\ screen' = screen => ScreenKeeps'
           /\ queue' = queue /\ flush' = flush /\ Known' \subseteq Known
                /\ (screen' = screen \/ screen' = Idle \/ screen'.pc \notin {"write", "erase"}) => FlushKeeps'
  <1>1. InQueueNext(queue) /\ MarksNext(queue)
    BY CopiesKeep, MarksKeep DEF TapInv
  <1>2. screen' = screen => ScreenKeeps'
    <2> SUFFICES ASSUME screen' = screen, screen # Idle PROVE
             /\ screen.pc \in {"write", "erase"} => InQueueNext(screen.seen)
             /\ screen.op = "remove" => stop'[screen.intent.stop] = "delivered" \/ trip' = "locked"
             /\ MarksNext(screen.seen)
      BY NextScreen
    <2>1. screen.intent.stop \in Stops
      BY DEF QueueInv, TypeOK, Screen, Intent
    <2>2. screen.pc \in {"write", "erase"} => InQueueNext(screen.seen)
      BY CopiesKeep DEF TapInv, ScreenKeeps
    <2>3. MarksNext(screen.seen)
      BY MarksKeep DEF TapInv, ScreenKeeps
    <2> QED BY <2>1, <2>2, <2>3 DEF TapInv, ScreenKeeps, ServerGrows
  <1>3. ASSUME queue' = queue, flush' = flush, Known' \subseteq Known,
               screen' = screen \/ screen' = Idle \/ screen'.pc \notin {"write", "erase"}, flush # Idle
        PROVE  /\ InHandNext(queue', flush'.work)
               /\ screen' # Idle /\ screen'.pc \in {"write", "erase"} => InHandNext(screen'.seen, flush'.work)
               /\ flush'.pc \in {"write", "erase"} =>
                     /\ InViewNext(flush'.seen)
                     /\ InHandNext(flush'.seen, flush'.work)
                     /\ QuarantinedNext(flush'.work, flush'.outcome)
               /\ OutcomesNext(flush'.work, flush'.outcome)
               /\ MarksNext(flush'.work) /\ MarksNext(flush'.seen)
    <2>1. /\ InHand(queue, flush.work)
          /\ screen # Idle /\ screen.pc \in {"write", "erase"} => InHand(screen.seen, flush.work)
          /\ flush.pc \in {"write", "erase"} => InView(flush.seen) /\ InHand(flush.seen, flush.work)
                                   /\ Quarantined(flush.work, flush.outcome)
          /\ OutcomesTrue(flush.work, flush.outcome)
          /\ MarksTrue(flush.work) /\ MarksTrue(flush.seen)
      BY <1>3 DEF TapInv, FlushKeeps
    <2>2. /\ InHandNext(queue, flush.work)
          /\ screen # Idle /\ screen.pc \in {"write", "erase"} => InHandNext(screen.seen, flush.work)
          /\ flush.pc \in {"write", "erase"} => InViewNext(flush.seen) /\ InHandNext(flush.seen, flush.work)
                                   /\ QuarantinedNext(flush.work, flush.outcome)
      BY <1>3, <2>1, KnownKeep
    <2>3. /\ OutcomesNext(flush.work, flush.outcome)
          /\ MarksNext(flush.work) /\ MarksNext(flush.seen)
      BY <2>1, MarksKeep
    <2> QED BY <1>3, <2>2, <2>3
  <1>4. queue' = queue /\ flush' = flush /\ Known' \subseteq Known
          /\ (screen' = screen \/ screen' = Idle \/ screen'.pc \notin {"write", "erase"}) => FlushKeeps'
    BY <1>3, NextFlush
  <1> QED BY <1>1, <1>2, <1>4, NextQueue

\* What a request that was answered "done" leaves on the server.
LEMMA CommitRecords ==
    ASSUME QueueInv, NEW s \in Stops, NEW i, i.stop = s, i.tap \in Taps,
           Code(i.tap, s) \in {"OK"} \cup AlreadyCodes(i.tap), Serve(i)
    PROVE  /\ i.tap = "arrived" => stop'[s] # "pending"
           /\ i.tap = "delivered" => stop'[s] = "delivered" \/ trip' = "locked"
  <1>1. CASE Code(i.tap, s) = "OK"
    <2>1. /\ i.tap = "arrived" => stop' = [stop EXCEPT ![s] = "arrived"]
          /\ i.tap = "delivered" => stop' = [stop EXCEPT ![s] = "delivered"]
      BY <1>1 DEF Serve
    <2> QED BY <2>1 DEF QueueInv, TypeOK
  <1>2. CASE Code(i.tap, s) # "OK"
    <2>1. stop' = stop /\ trip' = trip
      BY <1>2 DEF Serve, serverVars
    <2>2. ASSUME i.tap = "arrived" PROVE stop[s] # "pending"
      BY <1>2, <2>2 DEF Code, ArrivedCode, AlreadyCodes
    <2>3. ASSUME i.tap = "delivered" PROVE stop[s] = "delivered" \/ trip = "locked"
      <3>1. DeliveredCode(s) \in {"STOP_ALREADY_DELIVERED", "TRIP_NOT_ACTIVE"}
        BY <1>2, <2>3 DEF Code, AlreadyCodes
      <3> QED BY <3>1 DEF DeliveredCode, QueueInv, TypeOK
    <2> QED BY <2>1, <2>2, <2>3
  <1> QED BY <1>1, <1>2

\* Nothing is saved, so nothing owed, to begin with.
LEMMA InitKeepsTaps == Init => TapInv
  <1> SUFFICES ASSUME Init PROVE TapInv
    OBVIOUS
  <1>1. queue = Empty /\ screen = Idle /\ flush = Idle /\ saved = {}
    BY DEF Init
  <1> QED BY <1>1, EmptyQueue DEF TapInv, InQueue, MarksTrue, ScreenKeeps, FlushKeeps

\* An answered delivery is recorded before it is tidied out of the queue.
LEMMA TapKeepsTaps ==
    ASSUME QueueInv, TapInv, ServerGrows, NEW i \in Intent, TapAnswered(i) \/ TapUnanswered(i)
    PROVE  TapInv'
  <1>1. UNCHANGED <<queue, parked, flush, saved>> /\ Known' = Known
    BY DEF TapAnswered, TapUnanswered, ghosts, Known
  <1>2. i.stop \in Stops /\ i.tap \in Taps
    BY DEF Intent
  <1>3. ScreenKeeps'
    <2>1. CASE UNCHANGED screen
      BY <1>1, <2>1, RestingParts
    <2>2. CASE ~ UNCHANGED screen
      <3>1. PICK operation : screen' = [pc |-> "read", op |-> operation, intent |-> i, seen |-> Empty]
        BY <2>2 DEF TapAnswered, TapUnanswered, Begin
      <3>2. ASSUME screen'.op = "remove"
            PROVE  /\ i.tap = "delivered" /\ Serve(i)
                   /\ Code(i.tap, i.stop) \in {"OK"} \cup AlreadyCodes(i.tap)
        <4>1. TapAnswered(i)
          BY <3>2 DEF TapUnanswered, Begin
        <4>2. i.tap = "delivered" /\ DeliveredCode(i.stop) \in {"OK"} \cup AlreadyCodes("delivered")
          BY <2>2, <3>2, <4>1 DEF TapAnswered, Begin
        <4> QED BY <4>1, <4>2 DEF TapAnswered, Code
      <3>3. screen'.op = "remove" => stop'[i.stop] = "delivered" \/ trip' = "locked"
        BY <1>2, <3>2, CommitRecords
      <3>4. MarksNext(Empty)
        BY EmptyQueue DEF MarksNext
      <3> QED BY <3>1, <3>3, <3>4, NextScreen
    <2> QED BY <2>1, <2>2
  <1>4. screen' = screen \/ screen'.pc \notin {"write", "erase"}
    BY DEF TapAnswered, TapUnanswered, Begin
  <1> QED BY <1>1, <1>3, <1>4, RestingParts DEF TapInv

\* The screen reads a queue that holds what is owed; the guard only looks.
LEMMA ScreenReadKeepsTaps ==
    ASSUME QueueInv, TapInv, ServerGrows, ScreenRead \/ ScreenErases \/ ScreenFails
    PROVE  TapInv'
  <1>1. /\ UNCHANGED <<queue, parked, flush, saved>> /\ Known' = Known
        /\ screen \in Screen /\ screen # Idle
    BY DEF ScreenRead, ScreenErases, Tidying, ScreenFails, ScreenStep, ghosts, Known, QueueInv, TypeOK
  <1>2. CASE screen' = Idle
    <2>1. ScreenKeeps'
      BY <1>2 DEF ScreenKeeps
    <2> QED BY <1>1, <1>2, <2>1, RestingParts DEF TapInv
  <1>3. CASE screen' = [screen EXCEPT !.pc = "write", !.seen = queue]
    <2>1. /\ screen'.seen = queue /\ screen'.op = screen.op /\ screen'.intent = screen.intent
          /\ screen.intent.stop \in Stops
      BY <1>1, <1>3 DEF Screen, Intent
    <2>2. InQueueNext(queue) /\ MarksNext(queue)
      BY <1>1, CopiesKeep, MarksKeep DEF TapInv
    <2>3. ScreenKeeps'
      <3>1. screen'.op = "remove" => stop'[screen'.intent.stop] = "delivered" \/ trip' = "locked"
        BY <1>1, <2>1 DEF TapInv, ScreenKeeps, ServerGrows
      <3> QED BY <2>1, <2>2, <3>1, NextScreen
    <2>4. FlushKeeps'
      <3> SUFFICES ASSUME flush # Idle PROVE
              /\ InHandNext(queue, flush.work)
              /\ flush.pc \in {"write", "erase"} => InViewNext(flush.seen) /\ InHandNext(flush.seen, flush.work)
                                       /\ QuarantinedNext(flush.work, flush.outcome)
              /\ OutcomesNext(flush.work, flush.outcome)
              /\ MarksNext(flush.work) /\ MarksNext(flush.seen)
        BY <1>1, <2>1, NextFlush
      <3>1. /\ InHand(queue, flush.work)
            /\ flush.pc \in {"write", "erase"} => InView(flush.seen) /\ InHand(flush.seen, flush.work)
                                     /\ Quarantined(flush.work, flush.outcome)
            /\ OutcomesTrue(flush.work, flush.outcome)
            /\ MarksTrue(flush.work) /\ MarksTrue(flush.seen)
        BY DEF TapInv, FlushKeeps
      <3> QED BY <1>1, <3>1, KnownKeep, MarksKeep
    <2> QED BY <1>1, <2>3, <2>4, RestingParts DEF TapInv
  <1>4. CASE ScreenErases
    <2>1. /\ screen.pc = "write" /\ screen' # Idle /\ screen'.seen = screen.seen
          /\ screen'.op = screen.op /\ screen'.intent = screen.intent
          /\ screen.intent.stop \in Stops
      <3>1. screen' = [screen EXCEPT !.pc = "erase"] /\ screen.pc = "write"
        BY <1>4 DEF ScreenErases
      <3>2. screen' \in Screen
        BY <1>1, <3>1 DEF Screen
      <3> QED BY <1>1, <3>1, <3>2, IdleIsNone DEF Screen, Intent
    <2>2. /\ InQueueNext(screen.seen) /\ MarksNext(screen.seen)
          /\ flush # Idle => InHandNext(screen.seen, flush.work)
      <3>1. /\ InQueue(screen.seen) /\ MarksTrue(screen.seen)
            /\ flush # Idle => InHand(screen.seen, flush.work)
        BY <1>1, <2>1 DEF TapInv, ScreenKeeps, FlushKeeps
      <3> QED BY <1>1, <3>1, CopiesKeep, KnownKeep, MarksKeep
    <2>3. ScreenKeeps'
      <3>1. screen'.op = "remove" => stop'[screen'.intent.stop] = "delivered" \/ trip' = "locked"
        BY <1>1, <2>1 DEF TapInv, ScreenKeeps, ServerGrows
      <3> QED BY <2>1, <2>2, <3>1, NextScreen
    <2>4. FlushKeeps'
      <3> SUFFICES ASSUME flush # Idle PROVE
              /\ InHandNext(queue, flush.work)
              /\ flush.pc \in {"write", "erase"} => InViewNext(flush.seen) /\ InHandNext(flush.seen, flush.work)
                                       /\ QuarantinedNext(flush.work, flush.outcome)
              /\ OutcomesNext(flush.work, flush.outcome)
              /\ MarksNext(flush.work) /\ MarksNext(flush.seen)
        BY <1>1, <2>1, <2>2, NextFlush
      <3>1. /\ InHand(queue, flush.work)
            /\ flush.pc \in {"write", "erase"} => InView(flush.seen) /\ InHand(flush.seen, flush.work)
                                     /\ Quarantined(flush.work, flush.outcome)
            /\ OutcomesTrue(flush.work, flush.outcome)
            /\ MarksTrue(flush.work) /\ MarksTrue(flush.seen)
        BY DEF TapInv, FlushKeeps
      <3> QED BY <1>1, <3>1, KnownKeep, MarksKeep
    <2> QED BY <1>1, <2>3, <2>4, RestingParts DEF TapInv
  <1> QED BY <1>2, <1>3, <1>4 DEF ScreenRead, ScreenFails

\* A write of the screen, of a queue that differs from what it read in nothing
\* that is owed: what the queue holds and shares with the flush follows.
LEMMA WriteKeepsTaps ==
    ASSUME QueueInv, TapInv, ServerGrows,
           UNCHANGED <<parked, flush>>, screen' = Idle,
           flush # Idle /\ flush.pc \in {"write", "erase"} => Known' \subseteq Known,
           InQueueNext(queue'), MarksNext(queue'),
           flush # Idle => InHandNext(queue', flush.work)
    PROVE  TapInv'
  <1>1. ScreenKeeps'
    BY DEF ScreenKeeps
  <1>2. FlushKeeps'
    <2> SUFFICES ASSUME flush # Idle PROVE
            /\ flush.pc \in {"write", "erase"} => InViewNext(flush.seen) /\ InHandNext(flush.seen, flush.work)
                                     /\ QuarantinedNext(flush.work, flush.outcome)
            /\ OutcomesNext(flush.work, flush.outcome)
            /\ MarksNext(flush.work) /\ MarksNext(flush.seen)
      BY NextFlush
    <2>1. /\ flush.pc \in {"write", "erase"} => InView(flush.seen) /\ InHand(flush.seen, flush.work)
                                   /\ Quarantined(flush.work, flush.outcome)
          /\ OutcomesTrue(flush.work, flush.outcome)
          /\ MarksTrue(flush.work) /\ MarksTrue(flush.seen)
      BY DEF TapInv, FlushKeeps
    <2> QED BY <2>1, KnownKeep, MarksKeep
  <1> QED BY <1>1, <1>2, NextQueue DEF TapInv

\* A stored tap is in the queue, and its item in no flush unless the flush
\* misses it; what the trim evicts is given up.
LEMMA EnqueueKeepsTaps ==
    ASSUME QueueInv, TapInv, ServerGrows, ScreenEnqueue
    PROVE  TapInv'
  <1> DEFINE tapped == screen.intent
             seen == screen.seen
             up == Upsert(seen, tapped, clock)
             old == IF seen[tapped.stop] = NoItem THEN Fresh(clock) ELSE seen[tapped.stop]
             overlooked == /\ flush # Idle
                           /\ \/ flush.pc \in {"write", "erase"}
                              \/ SameItem(up[tapped.stop], flush.work[tapped.stop])
             lost == UNION {IntentsOf(s, up[s]) : s \in Evicted(up)}
  <1>1. /\ screen \in Screen /\ screen # Idle /\ screen.pc = "write"
        /\ screen' = Idle /\ UNCHANGED <<parked, flush, serverVars>>
    BY DEF ScreenEnqueue, ScreenStep, QueueInv, TypeOK
  <1>2. queue' = MergeOutboxItem(seen, tapped, clock)
    BY DEF ScreenEnqueue
  <1>3. /\ saved' = (saved \cup {tapped}) \ lost
        /\ missed' = IF overlooked THEN missed \cup {tapped} ELSE missed
    BY DEF ScreenEnqueue
  <1>4. /\ seen \in Queue /\ tapped \in Intent /\ clock \in Instant /\ tapped.stop \in Stops
        /\ saved \subseteq Intent
    BY <1>1 DEF Screen, QueueInv, TypeOK, Intent
  <1>5. /\ InQueue(seen) /\ MarksTrue(seen)
        /\ flush # Idle => InHand(seen, flush.work)
    BY <1>1 DEF TapInv, ScreenKeeps, FlushKeeps
  <1>6. /\ up \in Queue
        /\ \A s \in Stops \ {tapped.stop} : up[s] = seen[s]
        /\ up[tapped.stop] = Merged(old, tapped, clock)
    BY <1>4, UpsertQueue
  <1>7. /\ old \in Item
        /\ seen[tapped.stop] # NoItem => old = seen[tapped.stop]
        /\ old.arrivedMarked => seen[tapped.stop] # NoItem
    <2>1. CASE seen[tapped.stop] = NoItem
      BY <1>4, <2>1, FreshItem DEF Fresh
    <2>2. CASE seen[tapped.stop] # NoItem
      BY <1>4, <2>2 DEF Queue
    <2> QED BY <2>1, <2>2
  <1>8. queue' = Dequeue(up, Evicted(up))
    BY <1>2 DEF MergeOutboxItem
  <1>9. \A s \in Stops : queue'[s] = IF s \in Evicted(up) THEN NoItem ELSE up[s]
    BY <1>6, <1>8, DequeueQueue
  <1>10. /\ up[tapped.stop].queuedAt = old.queuedAt
         /\ up[tapped.stop].markArrived = (old.markArrived \/ tapped.tap = "arrived")
         /\ up[tapped.stop].confirmDelivered = (old.confirmDelivered \/ tapped.tap = "delivered")
         /\ up[tapped.stop].arrivedMarked = old.arrivedMarked
         /\ up[tapped.stop] # NoItem
    BY <1>4, <1>6, <1>7, MergedItem, NoItemAssumption
  <1> HIDE DEF up, old, overlooked, lost, seen, tapped
  <1>11. ASSUME NEW i \in saved', Owed(i)'
         PROVE  /\ i \in Intent /\ i.stop \in Stops /\ i.tap \in {"arrived", "delivered"} /\ Owed(i)
                /\ i \in saved \/ i = tapped
                /\ Holds(up[i.stop], i.tap)
                /\ i.stop \notin Evicted(up)
    <2>1. i \in saved \/ i = tapped
      BY <1>3
    <2>2. i \in Intent /\ i.stop \in Stops /\ i.tap \in {"arrived", "delivered"} /\ Owed(i)
      <3>1. i \in Intent
        BY <1>4, <2>1
      <3>2. i.stop \in Stops /\ Owed(i)
        BY <1>1, <1>11, <3>1, OwedShrinks DEF Intent
      <3> QED BY <3>1, <3>2 DEF Owed, Intent, Taps
    <2>3. Holds(up[i.stop], i.tap)
      <3>1. CASE i = tapped
        BY <1>10, <2>2, <3>1 DEF Holds
      <3>2. CASE i \in saved /\ i.stop # tapped.stop
        BY <1>5, <1>6, <2>2, <3>2 DEF InQueue
      <3>3. CASE i \in saved /\ i.stop = tapped.stop
        <4>1. Holds(seen[tapped.stop], i.tap)
          BY <1>5, <2>2, <3>3 DEF InQueue
        <4> QED BY <1>7, <1>10, <3>3, <4>1 DEF Holds
      <3> QED BY <2>1, <3>1, <3>2, <3>3
    <2>4. i.stop \notin Evicted(up)
      <3>1. up[i.stop] \in Item \cup {NoItem} /\ i.tap # "photo"
        BY <1>6, <2>2 DEF Queue
      <3>2. i \in IntentsOf(i.stop, up[i.stop])
        BY <2>2, <2>3, <3>1, IntentIsHeld
      <3>3. i \notin lost
        BY <1>3
      <3> QED BY <3>2, <3>3 DEF lost
    <2> QED BY <2>1, <2>2, <2>3, <2>4
  <1>12. InQueueNext(queue')
    BY <1>9, <1>11 DEF InQueueNext
  <1>13. MarksNext(queue')
    <2> SUFFICES ASSUME NEW s \in Stops, queue'[s] # NoItem, queue'[s].arrivedMarked
                 PROVE  stop'[s] # "pending"
      BY DEF MarksNext
    <2>1. up[s].arrivedMarked /\ up[s] # NoItem
      BY <1>9
    <2>2. seen[s] # NoItem /\ seen[s].arrivedMarked
      BY <1>6, <1>7, <1>10, <2>1
    <2> QED BY <1>5, <2>2 DEF MarksTrue, ServerGrows
  <1>14. ASSUME flush # Idle PROVE InHandNext(queue', flush.work)
    <2> SUFFICES ASSUME NEW i \in Known', Owed(i)', SameItem(queue'[i.stop], flush.work[i.stop])
                 PROVE  Holds(flush.work[i.stop], i.tap)
      BY DEF InHandNext
    <2> i \in saved' /\ i \notin missed'
      BY DEF Known
    <2>1. SameItem(up[i.stop], flush.work[i.stop])
      BY <1>9, <1>11
    <2>2. i \in saved /\ i \in Known
      BY <1>3, <1>11, <1>14, <2>1 DEF overlooked, Known
    <2>3. SameItem(seen[i.stop], flush.work[i.stop])
      <3>1. seen[i.stop] # NoItem
        BY <1>5, <1>11, <2>2 DEF InQueue, Holds
      <3>2. seen[i.stop].queuedAt = up[i.stop].queuedAt
        BY <1>6, <1>7, <1>10, <1>11, <3>1
      <3> QED BY <2>1, <3>1, <3>2 DEF SameItem
    <2> QED BY <1>5, <1>11, <1>14, <2>2, <2>3 DEF InHand
  <1>15. flush # Idle /\ flush.pc \in {"write", "erase"} => Known' \subseteq Known
    BY <1>3 DEF overlooked, Known
  <1> QED BY <1>1, <1>12, <1>13, <1>14, <1>15, WriteKeepsTaps

\* What is tidied out of the queue is recorded, or given up.
LEMMA TidyKeepsTaps ==
    ASSUME QueueInv, TapInv, ServerGrows, ScreenTidy
    PROVE  TapInv'
  <1> DEFINE tidied == screen.intent
             seen == screen.seen
             old == seen[tidied.stop]
             rest == Uploaded(old)
  <1>0. /\ screen \in Screen /\ screen # Idle /\ screen.pc \in {"write", "erase"} /\ screen.op # "enqueue"
        /\ screen' = Idle /\ UNCHANGED <<parked, flush, serverVars>>
        /\ saved' \subseteq saved /\ Known' \subseteq Known
    BY DEF ScreenTidy, Tidying, Screen, ScreenStep, Known, QueueInv, TypeOK
  <1>1. queue' = Tidied(tidied) /\ saved' = saved \ GivenUpByTidying(tidied)
    BY DEF ScreenTidy
  <1>2. /\ seen \in Queue /\ tidied \in Intent /\ tidied.stop \in Stops /\ saved \subseteq Intent
        /\ old # NoItem /\ old \in Item
    <2>1. old # NoItem
      BY <1>0 DEF QueueInv, ScreenHolds
    <2> QED BY <1>0, <2>1 DEF Screen, QueueInv, TypeOK, Intent, Queue
  <1>3. /\ InQueue(seen) /\ MarksTrue(seen)
        /\ flush # Idle => InHand(seen, flush.work)
        /\ screen.op = "remove" => stop[tidied.stop] = "delivered" \/ trip = "locked"
    BY <1>0 DEF TapInv, ScreenKeeps, FlushKeeps
  <1>4. /\ rest \in Item /\ rest.queuedAt = old.queuedAt /\ rest.markArrived = old.markArrived
        /\ rest.arrivedMarked = old.arrivedMarked /\ rest.confirmDelivered = old.confirmDelivered
        /\ rest # NoItem
    BY <1>2, UploadedItem, NoItemAssumption
  <1>5. \/ queue' = [seen EXCEPT ![tidied.stop] = rest]
        \/ /\ queue' = Dequeue(seen, {tidied.stop})
           /\ screen.op = "noteUpload" => ~ old.confirmDelivered
    <2>1. CASE screen.op = "noteUpload" /\ old.confirmDelivered
      <3>1. Tidied(tidied) = [seen EXCEPT ![tidied.stop].photo = 0, ![tidied.stop].photoUploaded = TRUE]
        BY <2>1 DEF Tidied
      <3>2. Tidied(tidied) = [seen EXCEPT ![tidied.stop] = rest]
        BY <1>2, <3>1 DEF Queue, Item, Uploaded
      <3> QED BY <1>1, <3>2
    <2>2. CASE ~ (screen.op = "noteUpload" /\ old.confirmDelivered)
      BY <1>1, <2>2 DEF Tidied
    <2> QED BY <2>1, <2>2
  <1> HIDE DEF rest
  <1>6. /\ \A s \in Stops \ {tidied.stop} : queue'[s] = seen[s]
        /\ \/ queue'[tidied.stop] = rest
           \/ /\ queue'[tidied.stop] = NoItem
              /\ screen.op = "noteUpload" => ~ old.confirmDelivered
    <2>1. CASE queue' = [seen EXCEPT ![tidied.stop] = rest]
      BY <1>2, <2>1 DEF Queue
    <2>2. CASE /\ queue' = Dequeue(seen, {tidied.stop})
               /\ screen.op = "noteUpload" => ~ old.confirmDelivered
      <3>1. \A s \in Stops : queue'[s] = IF s \in {tidied.stop} THEN NoItem ELSE seen[s]
        BY <1>2, <2>2, DequeueQueue
      <3> QED BY <1>2, <2>2, <3>1
    <2> QED BY <1>5, <2>1, <2>2
  <1>7. ASSUME NEW i \in saved', Owed(i)'
        PROVE  /\ i \in saved /\ i \in Intent /\ i.stop \in Stops /\ Owed(i)
               /\ Holds(seen[i.stop], i.tap) /\ Holds(queue'[i.stop], i.tap)
    <2>1. i \in saved /\ i \in Intent /\ i.stop \in Stops
      BY <1>0, <1>2 DEF Intent
    <2>2. Owed(i) /\ i.tap \in {"arrived", "delivered"}
      <3>1. Owed(i)
        BY <1>0, <1>7, <2>1, OwedShrinks
      <3> QED BY <2>1, <3>1 DEF Owed, Intent, Taps
    <2>3. Holds(seen[i.stop], i.tap)
      BY <1>3, <2>1, <2>2 DEF InQueue
    <2>4. Holds(queue'[i.stop], i.tap)
      <3>1. CASE i.stop # tidied.stop
        BY <1>6, <2>1, <2>3, <3>1
      <3>2. CASE i.stop = tidied.stop /\ queue'[tidied.stop] = rest
        BY <1>4, <2>3, <3>2 DEF Holds
      <3>3. CASE i.stop = tidied.stop /\ queue'[tidied.stop] = NoItem
                   /\ (screen.op = "noteUpload" => ~ old.confirmDelivered)
        <4>1. i \in IntentsOf(tidied.stop, seen[tidied.stop])
          BY <1>2, <2>1, <2>2, <2>3, <3>3, IntentIsHeld
        <4>2. i.tap # "arrived"
          BY <1>1, <3>3, <4>1 DEF GivenUpByTidying
        <4>3. i.tap = "delivered" /\ old.confirmDelivered
          BY <2>2, <2>3, <3>3, <4>2 DEF Holds
        <4>4. screen.op = "remove"
          BY <1>0, <3>3, <4>3 DEF Screen
        <4> QED BY <1>3, <2>2, <3>3, <4>3, <4>4 DEF Owed, Recorded
      <3> QED BY <1>6, <3>1, <3>2, <3>3
    <2> QED BY <2>1, <2>2, <2>3, <2>4
  <1>8. InQueueNext(queue')
    BY <1>7 DEF InQueueNext
  <1>9. MarksNext(queue')
    <2> SUFFICES ASSUME NEW s \in Stops, queue'[s] # NoItem, queue'[s].arrivedMarked
                 PROVE  stop'[s] # "pending"
      BY DEF MarksNext
    <2>1. seen[s] # NoItem /\ seen[s].arrivedMarked
      BY <1>2, <1>4, <1>6
    <2> QED BY <1>3, <2>1 DEF MarksTrue, ServerGrows
  <1>10. ASSUME flush # Idle PROVE InHandNext(queue', flush.work)
    <2> SUFFICES ASSUME NEW i \in Known', Owed(i)', SameItem(queue'[i.stop], flush.work[i.stop])
                 PROVE  Holds(flush.work[i.stop], i.tap)
      BY DEF InHandNext
    <2> i \in saved' /\ i \in Known
      BY <1>0 DEF Known
    <2>1. SameItem(seen[i.stop], flush.work[i.stop])
      <3>1. seen[i.stop] # NoItem /\ queue'[i.stop] # NoItem
        BY <1>7 DEF Holds
      <3>2. seen[i.stop].queuedAt = queue'[i.stop].queuedAt
        BY <1>4, <1>6, <1>7, <3>1
      <3> QED BY <3>1, <3>2 DEF SameItem
    <2> QED BY <1>3, <1>7, <1>10, <2>1 DEF InHand
  <1> QED BY <1>0, <1>8, <1>9, <1>10, WriteKeepsTaps

\* A step of the flush that leaves the queue alone.
LEMMA FlushStepKeepsTaps ==
    ASSUME QueueInv, TapInv, ServerGrows,
           UNCHANGED <<queue, screen>>, parked \subseteq parked', saved' \subseteq saved,
           flush' # Idle => Known' \subseteq Known,
           flush' # Idle =>
             /\ flush # Idle /\ flush'.pc \notin {"write", "erase"} /\ flush'.seen \in {flush.seen, Empty}
             /\ \A s \in Stops : \A tap \in {"arrived", "delivered"} :
                   Holds(flush'.work[s], tap) <=> Holds(flush.work[s], tap)
             /\ \A s \in Stops : \A item \in Item \cup {NoItem} :
                   SameItem(item, flush'.work[s]) => SameItem(item, flush.work[s])
             /\ MarksNext(flush'.work)
             /\ OutcomesNext(flush'.work, flush'.outcome)
    PROVE  TapInv'
  <1>1. ASSUME flush' # Idle, NEW q \in Queue, InHand(q, flush.work)
        PROVE  InHandNext(q, flush'.work)
    <2> SUFFICES ASSUME NEW i \in Known', Owed(i)', SameItem(q[i.stop], flush'.work[i.stop])
                 PROVE  Holds(flush'.work[i.stop], i.tap)
      BY DEF InHandNext
    <2>1. i \in Known /\ i \in Intent /\ i.stop \in Stops
      BY <1>1 DEF QueueInv, TypeOK, Intent, Known
    <2>2. Owed(i) /\ i.tap \in {"arrived", "delivered"}
      <3>1. Owed(i)
        BY <2>1, OwedShrinks
      <3> QED BY <2>1, <3>1 DEF Owed, Intent, Taps
    <2>3. SameItem(q[i.stop], flush.work[i.stop])
      BY <1>1, <2>1 DEF Queue
    <2>4. Holds(flush.work[i.stop], i.tap)
      BY <1>1, <2>1, <2>2, <2>3 DEF InHand
    <2> QED BY <1>1, <2>1, <2>2, <2>4
  <1>2. FlushKeeps'
    <2> SUFFICES ASSUME flush' # Idle PROVE
            /\ InHandNext(queue, flush'.work)
            /\ screen # Idle /\ screen.pc \in {"write", "erase"} => InHandNext(screen.seen, flush'.work)
            /\ MarksNext(flush'.seen)
      BY NextFlush
    <2>1. flush # Idle /\ flush'.seen \in {flush.seen, Empty}
      OBVIOUS
    <2>2. /\ queue \in Queue /\ (screen # Idle => screen.seen \in Queue)
          /\ InHand(queue, flush.work)
          /\ screen # Idle /\ screen.pc \in {"write", "erase"} => InHand(screen.seen, flush.work)
          /\ MarksTrue(flush.seen) /\ MarksTrue(Empty)
      BY <2>1, EmptyQueue DEF TapInv, FlushKeeps, QueueInv, TypeOK, Screen, MarksTrue
    <2> QED BY <1>1, <2>1, <2>2, MarksKeep
  <1> QED BY <1>2, RestingParts DEF TapInv

\* A step of the flush marks as done what the server has.
LEMMA SendKeepsTaps ==
    ASSUME QueueInv, TapInv, ServerGrows, NEW s \in Stops,
           FlushUnanswered(s) \/ FlushCommitted(s) \/ FlushOrphaned(s) \/ FlushRefused(s)
    PROVE  TapInv'
  <1>1. flush # Idle /\ s \in Unsettled /\ UNCHANGED <<queue, parked, screen, saved>> /\ Known' = Known
    BY DEF FlushUnanswered, FlushCommitted, FlushOrphaned, FlushRefused, FlushSend, FlushStep, Current,
           ghosts, Known
  <1>2. /\ flush \in Flush /\ flush.work \in Queue /\ flush.outcome \in [Stops -> Outcomes]
        /\ flush.work[s] \in Item /\ flush.outcome[s] = "none" /\ flush.pc = "send"
    BY <1>1, FlushFields DEF Unsettled, FlushUnanswered, FlushCommitted, FlushOrphaned, FlushRefused, FlushSend
  <1>3. MarksNext(flush.work) /\ OutcomesNext(flush.work, flush.outcome)
    BY <1>1, MarksKeep DEF TapInv, FlushKeeps
  <1> DEFINE old == flush.work[s]
  \* Whatever a step makes of the item in hand, its taps and its identity stay.
  <1>4. ASSUME NEW item \in Item, NEW result \in Outcomes,
               flush' # Idle, flush'.pc \notin {"write", "erase"}, flush'.seen = flush.seen,
               flush'.work = [flush.work EXCEPT ![s] = item],
               flush'.outcome = [flush.outcome EXCEPT ![s] = result],
               item.queuedAt = old.queuedAt, item.markArrived = old.markArrived,
               item.confirmDelivered = old.confirmDelivered,
               item.arrivedMarked => stop'[s] # "pending",
               result = "synced" =>
                   /\ Holds(item, "arrived") => stop'[s] # "pending" \/ trip' = "locked"
                   /\ Holds(item, "delivered") => stop'[s] = "delivered" \/ trip' = "locked"
        PROVE  TapInv'
    <2>1. item # NoItem /\ old # NoItem
      BY <1>2, NoItemAssumption
    <2>2. \A u \in Stops : flush'.work[u] = IF u = s THEN item ELSE flush.work[u]
      BY <1>2, <1>4 DEF Queue
    <2>3. \A u \in Stops : flush'.outcome[u] = IF u = s THEN result ELSE flush.outcome[u]
      BY <1>2, <1>4
    <2>4. \A u \in Stops : \A tap \in {"arrived", "delivered"} :
              Holds(flush'.work[u], tap) <=> Holds(flush.work[u], tap)
      BY <1>4, <2>1, <2>2 DEF Holds
    <2>5. \A u \in Stops : \A other \in Item \cup {NoItem} :
              SameItem(other, flush'.work[u]) => SameItem(other, flush.work[u])
      BY <1>4, <2>1, <2>2 DEF SameItem
    <2>6. MarksNext(flush'.work)
      BY <1>3, <1>4, <2>2 DEF MarksNext
    <2>7. OutcomesNext(flush'.work, flush'.outcome)
      BY <1>3, <1>4, <2>2, <2>3 DEF OutcomesNext
    <2> QED BY <1>1, <1>4, <2>4, <2>5, <2>6, <2>7, FlushStepKeepsTaps
  <1>5. old.arrivedMarked => stop'[s] # "pending"
    BY <1>2, <1>3, NoItemAssumption DEF MarksNext
  <1>6. ASSUME NEW result \in Outcomes, result # "synced", flush' = Settle(s, result)
        PROVE  TapInv'
    <2>1. /\ flush' \in Flush /\ flush'.work = flush.work /\ flush'.seen = flush.seen
          /\ flush'.outcome = [flush.outcome EXCEPT ![s] = result] /\ flush'.pc = "reread"
      BY <1>1, <1>6, SettleKeepsQueue
    <2>2. flush.work = [flush.work EXCEPT ![s] = old]
      BY <1>2 DEF Queue
    <2>3. flush' # Idle
      BY <2>1, IdleIsNone
    <2> HIDE DEF old
    <2> QED BY <1>2, <1>4, <1>5, <1>6, <2>1, <2>2, <2>3 DEF old
  <1>7. CASE FlushUnanswered(s) \/ FlushOrphaned(s)
    <2>1. flush' = Settle(s, "kept") \/ flush' = Settle(s, "orphaned")
      BY <1>7 DEF FlushUnanswered, FlushOrphaned
    <2> QED BY <1>6, <2>1 DEF Outcomes
  <1>8. CASE FlushCommitted(s)
    <2> DEFINE r == Request(s)
               item == Progressed(old, r.tap)
               done == r.tap = "delivered" \/ NextTap(item) = "none"
    <2>1. /\ item \in Item /\ item.queuedAt = old.queuedAt /\ item.markArrived = old.markArrived
          /\ item.confirmDelivered = old.confirmDelivered
          /\ item.arrivedMarked = (old.arrivedMarked \/ r.tap = "arrived")
      BY <1>2, ProgressedItem
    <2>2. r.stop = s /\ r.tap = NextTap(old) /\ r.tap \in Taps
      <3>1. NextTap(old) # "none"
        BY <1>1, FlushFields DEF Worth
      <3> QED BY <1>1, <3>1, RequestIsTyped DEF NextTap, Taps
    <2>3. /\ r.tap = "arrived" => stop'[s] # "pending"
          /\ r.tap = "delivered" => stop'[s] = "delivered" \/ trip' = "locked"
      BY <1>8, <2>2, CommitRecords DEF FlushCommitted
    <2>4. item.arrivedMarked => stop'[s] # "pending"
      BY <1>5, <2>1, <2>3
    <2>5. flush' = [flush EXCEPT !.work[s] = item, !.outcome[s] = IF done THEN "synced" ELSE @,
                                 !.pc = IF done THEN "reread" ELSE @]
      BY <1>8 DEF FlushCommitted
    <2>6. ASSUME done
          PROVE  /\ Holds(item, "arrived") => stop'[s] # "pending" \/ trip' = "locked"
                 /\ Holds(item, "delivered") => stop'[s] = "delivered" \/ trip' = "locked"
      <3>1. CASE r.tap = "delivered"
        BY <2>3, <3>1
      <3>2. CASE NextTap(item) = "none"
        <4> HIDE DEF item
        <4>1. ~ item.confirmDelivered /\ (item.markArrived => item.arrivedMarked)
          BY <3>2 DEF NextTap
        <4> QED BY <2>4, <4>1 DEF Holds
      <3> QED BY <2>6, <3>1, <3>2
    <2> DEFINE result == IF done THEN "synced" ELSE flush.outcome[s]
    <2> HIDE DEF item, done, r
    <2>7. /\ flush' \in Flush /\ flush'.work = [flush.work EXCEPT ![s] = item]
          /\ flush'.outcome = [flush.outcome EXCEPT ![s] = result]
          /\ flush'.seen = flush.seen /\ flush'.pc \notin {"write", "erase"}
      BY <1>2, <2>1, <2>5 DEF Flush, Queue, Outcomes
    <2>8. flush' # Idle /\ result \in Outcomes /\ (result = "synced" => done)
      BY <1>2, <2>7, IdleIsNone DEF Outcomes
    <2> HIDE DEF result, old
    <2> QED BY <1>4, <2>1, <2>4, <2>6, <2>7, <2>8
  <1>9. CASE FlushRefused(s)
    <2> DEFINE failures == old.apiFailures + 1
               result == IF failures >= MaxApiFailures THEN "dropped" ELSE "kept"
               item == [old EXCEPT !.apiFailures = failures]
               settled == Settle(s, result)
    <2>1. flush' = Settle(s, "kept") \/ flush' = [settled EXCEPT !.work[s].apiFailures = failures]
      BY <1>9 DEF FlushRefused
    <2>2. CASE flush' = [settled EXCEPT !.work[s].apiFailures = failures]
      <3>1. failures \in 0 .. MaxApiFailures
        <4>1. Worth(old) /\ old \in Item
          BY <1>1, FlushFields
        <4> HIDE DEF old
        <4> QED BY <4>1, BudgetAssumption DEF Worth, Item
      <3>2. /\ settled \in Flush /\ settled.work = flush.work /\ settled.seen = flush.seen
            /\ settled.outcome = [flush.outcome EXCEPT ![s] = result] /\ settled.pc = "reread"
        BY <1>1, SettleKeepsQueue DEF Outcomes
      <3>3. flush' = [settled EXCEPT !.work = [flush.work EXCEPT ![s] = item]]
        BY <1>2, <2>2, <3>2 DEF Flush, Queue
      <3>4. /\ item \in Item /\ item.queuedAt = old.queuedAt /\ item.markArrived = old.markArrived
            /\ item.confirmDelivered = old.confirmDelivered
            /\ item.arrivedMarked = old.arrivedMarked
        <4>1. old \in Item
          BY <1>2
        <4> HIDE DEF old, failures
        <4> QED BY <3>1, <4>1 DEF Item
      <3>5. result \in Outcomes /\ result # "synced"
        BY DEF Outcomes
      <3> HIDE DEF settled, result, item
      <3>6. /\ flush' \in Flush /\ flush'.work = [flush.work EXCEPT ![s] = item]
            /\ flush'.outcome = [flush.outcome EXCEPT ![s] = result]
            /\ flush'.seen = flush.seen /\ flush'.pc \notin {"write", "erase"}
        BY <1>2, <3>2, <3>3, <3>4 DEF Flush, Queue
      <3>7. flush' # Idle
        BY <3>6, IdleIsNone
      <3> HIDE DEF old
      <3> QED BY <1>4, <1>5, <3>4, <3>5, <3>6, <3>7
    <2> QED BY <1>6, <2>1, <2>2 DEF Outcomes
  <1> QED BY <1>7, <1>8, <1>9

\* A flush sets out with all that is owed.
LEMMA StartKeepsTaps ==
    ASSUME QueueInv, TapInv, ServerGrows, NEW consumeBudget \in BOOLEAN, FlushStart(consumeBudget)
    PROVE  TapInv'
  <1>1. /\ flush' = [pc |-> "send", work |-> queue, outcome |-> [s \in Stops |-> "none"],
                     seen |-> Empty, consume |-> consumeBudget]
        /\ UNCHANGED <<queue, parked, screen, saved>>
    BY DEF FlushStart, FlushStep, ghosts
  <1>2. /\ flush'.work = queue /\ flush'.seen = Empty /\ flush'.pc = "send"
        /\ \A s \in Stops : flush'.outcome[s] = "none"
    BY <1>1
  <1>3. InQueue(queue) /\ MarksTrue(queue) /\ MarksTrue(Empty)
    BY EmptyQueue DEF TapInv, MarksTrue
  <1>4. InQueueNext(queue) /\ MarksNext(queue) /\ MarksNext(Empty)
    BY <1>1, <1>3, CopiesKeep, MarksKeep
  <1>5. InHandNext(queue, queue)
    BY <1>4 DEF InQueueNext, InHandNext, Known
  \* What the screen has read and is about to write holds what is owed, and so
  \* does the queue the flush sets out with.
  <1>6. ASSUME screen # Idle, screen.pc \in {"write", "erase"} PROVE InHandNext(screen.seen, queue)
    BY <1>4 DEF InQueueNext, InHandNext, Known
  <1>7. OutcomesNext(flush'.work, flush'.outcome)
    BY <1>2 DEF OutcomesNext
  <1>8. FlushKeeps'
    BY <1>1, <1>2, <1>4, <1>5, <1>6, <1>7, NextFlush
  <1> QED BY <1>1, <1>8, RestingParts DEF TapInv

\* A checkpoint that ends without a write, or after it.
LEMMA NextItemIs ==
    ASSUME QueueInv, flush # Idle, flush' = NextItem \/ flush' = Idle, flush' # Idle
    PROVE  /\ flush'.pc = "send" /\ flush'.work = flush.work /\ flush'.outcome = flush.outcome
           /\ flush'.seen = Empty
  <1>1. flush' = [flush EXCEPT !.pc = "send", !.seen = Empty] /\ flush \in Flush
    BY FlushFields DEF NextItem
  <1> QED BY <1>1 DEF Flush

\* A checkpoint without a write leaves what is owed in the queue.
LEMMA CheckpointEndKeepsTaps ==
    ASSUME QueueInv, TapInv, ServerGrows, CheckpointSkipped \/ CheckpointRefused \/ CheckpointFails
    PROVE  TapInv'
  <1>1. /\ flush # Idle /\ UNCHANGED <<queue, parked, screen, saved>>
        /\ flush' = NextItem \/ flush' = Idle
        /\ flush' # Idle => Known' \subseteq Known
    BY DEF CheckpointSkipped, CheckpointRefused, CheckpointFails, FlushStep, StillMissed, Known
  <1>2. ASSUME flush' # Idle
        PROVE  /\ flush'.pc \notin {"write", "erase"} /\ flush'.seen = Empty /\ flush'.work = flush.work
               /\ flush'.outcome = flush.outcome
    BY <1>1, <1>2, NextItemIs
  <1>3. MarksNext(flush.work) /\ OutcomesNext(flush.work, flush.outcome)
    BY <1>1, MarksKeep DEF TapInv, FlushKeeps
  <1> QED BY <1>1, <1>2, <1>3, FlushStepKeepsTaps

\* The guard's look leaves the flush with what it has.
LEMMA CheckpointErasesKeepsTaps ==
    ASSUME QueueInv, TapInv, ServerGrows, CheckpointErases
    PROVE  TapInv'
  <1>1. /\ flush # Idle /\ flush.pc = "write" /\ UNCHANGED <<queue, parked, screen, saved>>
        /\ Known' = Known /\ flush' = [flush EXCEPT !.pc = "erase"]
    BY DEF CheckpointErases, FlushStep, ghosts, Known
  <1>2. /\ flush'.work = flush.work /\ flush'.outcome = flush.outcome /\ flush'.seen = flush.seen
    BY <1>1, FlushFields DEF Flush
  <1>3. /\ InHand(queue, flush.work)
        /\ screen # Idle /\ screen.pc \in {"write", "erase"} => InHand(screen.seen, flush.work)
        /\ InView(flush.seen) /\ InHand(flush.seen, flush.work)
        /\ Quarantined(flush.work, flush.outcome)
        /\ OutcomesTrue(flush.work, flush.outcome)
        /\ MarksTrue(flush.work) /\ MarksTrue(flush.seen)
    BY <1>1 DEF TapInv, FlushKeeps
  <1>4. /\ InHandNext(queue, flush.work)
        /\ screen # Idle /\ screen.pc \in {"write", "erase"} => InHandNext(screen.seen, flush.work)
        /\ InViewNext(flush.seen) /\ InHandNext(flush.seen, flush.work)
        /\ QuarantinedNext(flush.work, flush.outcome)
    BY <1>1, <1>3, KnownKeep
  <1>5. /\ OutcomesNext(flush.work, flush.outcome)
        /\ MarksNext(flush.work) /\ MarksNext(flush.seen)
    BY <1>3, MarksKeep
  <1>6. FlushKeeps'
    BY <1>1, <1>2, <1>4, <1>5, NextFlush
  <1> QED BY <1>1, <1>6, RestingParts DEF TapInv

\* The orphaned are in the quarantine, or given up, before the write.
LEMMA CheckpointReadKeepsTaps ==
    ASSUME QueueInv, TapInv, ServerGrows, CheckpointRead
    PROVE  TapInv'
  <1> DEFINE work == flush.work
             outcome == flush.outcome
             orphans == UNION {IntentsOf(s, work[s]) : s \in Settled({"orphaned"})}
  <1>1. /\ flush # Idle /\ flush \in Flush /\ UNCHANGED <<queue, screen>>
        /\ flush' = [flush EXCEPT !.pc = "write", !.seen = queue]
        /\ work \in Queue
    BY FlushFields DEF CheckpointRead, FlushStep
  <1>2. \/ parked' = parked \cup orphans /\ saved' = saved
        \/ saved' = saved \ orphans /\ parked' = parked
    BY DEF CheckpointRead
  <1>3. flush'.work = work /\ flush'.outcome = outcome /\ flush'.seen = queue
    BY <1>1 DEF Flush
  <1>4. parked \subseteq parked' /\ saved' \subseteq saved /\ Known' \subseteq Known
    BY <1>2 DEF CheckpointRead, Known
  <1>5. /\ InQueueNext(queue) /\ InViewNext(queue) /\ MarksNext(queue) /\ InHandNext(queue, work)
        /\ OutcomesNext(work, outcome) /\ MarksNext(work)
        /\ screen # Idle /\ screen.pc \in {"write", "erase"} => InHandNext(screen.seen, work)
    <2>1. /\ InQueue(queue) /\ MarksTrue(queue) /\ InHand(queue, work)
          /\ OutcomesTrue(work, outcome) /\ MarksTrue(work)
          /\ screen # Idle /\ screen.pc \in {"write", "erase"} => InHand(screen.seen, work)
      BY <1>1 DEF TapInv, FlushKeeps
    <2> HIDE DEF work, outcome
    <2>2. InQueueNext(queue) /\ MarksNext(queue)
      BY <1>4, <2>1, CopiesKeep, MarksKeep
    <2>3. InViewNext(queue)
      BY <2>2 DEF InQueueNext, InViewNext, Known
    <2> QED BY <1>4, <2>1, <2>2, <2>3, KnownKeep, MarksKeep
  <1>6. QuarantinedNext(work, outcome)
    <2> SUFFICES ASSUME NEW i \in Known', outcome[i.stop] = "orphaned", Owed(i)',
                        Holds(work[i.stop], i.tap)
                 PROVE  FALSE
      BY DEF QuarantinedNext
    <2>1. i \in Intent /\ i.stop \in Stops /\ i.tap # "photo" /\ i \notin parked'
      BY <1>4 DEF QueueInv, TypeOK, Intent, Owed, Known
    <2>2. i \in IntentsOf(i.stop, work[i.stop])
      BY <1>1, <2>1, IntentIsHeld DEF Queue
    <2>3. i \in orphans
      BY <2>1, <2>2 DEF Settled
    <2> QED BY <1>2, <2>1, <2>3 DEF Known
  <1>7. FlushKeeps'
    <2> HIDE DEF work, outcome
    <2> QED BY <1>1, <1>3, <1>5, <1>6, NextFlush
  <1> QED BY <1>1, <1>4, <1>7, RestingParts DEF TapInv

\* What the write takes from the queue is recorded, parked, missed or given up.
LEMMA CheckpointWriteKeepsTaps ==
    ASSUME QueueInv, TapInv, ServerGrows, CheckpointWrite
    PROVE  TapInv'
  <1> DEFINE seen == flush.seen
             work == flush.work
             outcome == flush.outcome
             lost == UNION {IntentsOf(s, seen[s]) :
                              s \in {u \in Settled({"dropped"}) : SameItem(seen[u], work[u])}}
             overwritten == {i \in missed : i \notin IntentsOf(i.stop, queue'[i.stop])}
  <1>1. /\ flush # Idle /\ flush.pc \in {"write", "erase"} /\ UNCHANGED <<parked, screen, serverVars>>
        /\ flush' = NextItem /\ queue' = Reconcile(seen, work, outcome)
        /\ saved' = saved \ (lost \cup overwritten)
        /\ flush' # Idle => missed' = missed \ overwritten
    BY DEF CheckpointWrite, Checkpoint, WritesAt, StillMissed, FlushStep
  <1>2. seen \in Queue /\ work \in Queue /\ outcome \in [Stops -> Outcomes]
    BY <1>1, FlushFields
  <1>3. /\ InView(seen) /\ InHand(seen, work) /\ Quarantined(work, outcome)
        /\ OutcomesTrue(work, outcome) /\ MarksTrue(work) /\ MarksTrue(seen)
        /\ screen # Idle /\ screen.pc \in {"write", "erase"} => InHand(screen.seen, work)
    BY <1>1 DEF TapInv, FlushKeeps
  <1>4. ASSUME NEW s \in Stops, outcome[s] = "dropped", SameItem(seen[s], work[s])
        PROVE  saved' \cap IntentsOf(s, seen[s]) = {}
    BY <1>1, <1>4 DEF Settled
  <1>5. flush' # Idle => /\ flush'.pc = "send" /\ flush'.work = work /\ flush'.outcome = outcome
                         /\ flush'.seen = Empty
    BY <1>1, NextItemIs
  <1>missing. ASSUME NEW i \in saved', i \in missed
         PROVE  i \in IntentsOf(i.stop, queue'[i.stop])
    BY <1>1, <1>missing
  <1> HIDE DEF seen, work, outcome, overwritten
  <1>6. \A s \in Stops :
           \/ queue'[s] = seen[s]
           \/ /\ queue'[s] = InTurn(work[s], seen[s].turn)
              /\ SameItem(seen[s], work[s])
              /\ seen[s] \in Item /\ work[s] \in Item
           \/ /\ queue'[s] = NoItem
              /\ SameItem(seen[s], work[s]) /\ outcome[s] \in {"synced", "dropped", "orphaned"}
    <2> SUFFICES ASSUME NEW s \in Stops PROVE
           \/ queue'[s] = seen[s]
           \/ /\ queue'[s] = InTurn(work[s], seen[s].turn)
              /\ SameItem(seen[s], work[s])
              /\ seen[s] \in Item /\ work[s] \in Item
           \/ /\ queue'[s] = NoItem
              /\ SameItem(seen[s], work[s]) /\ outcome[s] \in {"synced", "dropped", "orphaned"}
      OBVIOUS
    <2> DEFINE next == Reconcile(seen, work, outcome)
    <2>1. \/ next[s] = seen[s] /\ (~ SameItem(seen[s], work[s]) \/ outcome[s] = "none")
          \/ /\ next[s] = InTurn(work[s], seen[s].turn)
             /\ SameItem(seen[s], work[s]) /\ outcome[s] = "kept"
             /\ seen[s] \in Item /\ work[s] \in Item
          \/ /\ next[s] = NoItem
             /\ SameItem(seen[s], work[s]) /\ outcome[s] \in {"synced", "dropped", "orphaned"}
      BY <1>2, ReconciledQueue
    <2>2. queue' = next
      BY <1>1
    <2> HIDE DEF next
    <2> QED BY <2>1, <2>2
  <1>7. ASSUME NEW s \in Stops, seen[s] \in Item, work[s] \in Item,
               queue'[s] = InTurn(work[s], seen[s].turn)
        PROVE  /\ queue'[s] # NoItem /\ queue'[s].arrivedMarked = work[s].arrivedMarked
               /\ queue'[s].markArrived = work[s].markArrived
               /\ queue'[s].confirmDelivered = work[s].confirmDelivered
    <2>1. seen[s].turn \in Instant
      BY <1>7 DEF Item
    <2> QED BY <1>7, <2>1, InTurnItem, NoItemAssumption
  <1>8. saved' \subseteq saved /\ parked' = parked /\ (flush' # Idle => Known' \subseteq Known)
    BY <1>1 DEF Known
  <1>9. ASSUME NEW i \in saved', Owed(i)'
        PROVE  /\ i \in saved /\ i \in Intent /\ i.stop \in Stops /\ Owed(i)
               /\ i.tap \in {"arrived", "delivered"}
               /\ i \notin missed => i \in Known /\ Holds(seen[i.stop], i.tap)
    <2>1. i \in saved /\ i \in Intent /\ i.stop \in Stops
      BY <1>8 DEF QueueInv, TypeOK, Intent
    <2>2. Owed(i) /\ i.tap \in {"arrived", "delivered"}
      <3>1. Owed(i)
        BY <1>8, <1>9, <2>1, OwedShrinks
      <3> QED BY <2>1, <3>1 DEF Owed, Intent, Taps
    <2> QED BY <1>3, <2>1, <2>2 DEF InView, Known
  <1>10. ASSUME NEW i \in saved', Owed(i)', i \notin missed PROVE Holds(queue'[i.stop], i.tap)
    <2>1. /\ i \in Known /\ i \in Intent /\ i.stop \in Stops /\ Owed(i)
          /\ i.tap \in {"arrived", "delivered"} /\ Holds(seen[i.stop], i.tap)
      BY <1>9, <1>10
    <2>2. CASE queue'[i.stop] = seen[i.stop]
      BY <2>1, <2>2
    <2>3. ASSUME SameItem(seen[i.stop], work[i.stop]) PROVE Holds(work[i.stop], i.tap)
      BY <1>3, <2>1, <2>3 DEF InHand
    <2>4. CASE /\ queue'[i.stop] = InTurn(work[i.stop], seen[i.stop].turn)
               /\ SameItem(seen[i.stop], work[i.stop])
               /\ seen[i.stop] \in Item /\ work[i.stop] \in Item
      BY <1>7, <2>1, <2>3, <2>4 DEF Holds
    \* A removed item's taps are recorded, given up, or in the quarantine.
    <2>5. CASE /\ SameItem(seen[i.stop], work[i.stop])
               /\ outcome[i.stop] \in {"synced", "dropped", "orphaned"}
      <3>1. CASE outcome[i.stop] = "synced"
        BY <1>3, <2>1, <2>3, <2>5, <3>1 DEF OutcomesTrue, Owed, Recorded
      <3>2. CASE outcome[i.stop] = "dropped"
        <4>1. i \in IntentsOf(i.stop, seen[i.stop])
          BY <1>2, <2>1, IntentIsHeld DEF Queue
        <4> QED BY <1>4, <1>10, <2>1, <2>5, <3>2, <4>1
      <3>3. CASE outcome[i.stop] = "orphaned"
        BY <1>3, <2>1, <2>3, <2>5, <3>3 DEF Quarantined
      <3> QED BY <2>5, <3>1, <3>2, <3>3
    <2> QED BY <1>6, <2>1, <2>2, <2>4, <2>5
  <1>late. ASSUME NEW i \in saved', Owed(i)', i \in missed PROVE Holds(queue'[i.stop], i.tap)
    <2>1. i \in Intent /\ i.stop \in Stops /\ i.tap # "photo"
      BY <1>9, <1>late
    <2>2. queue'[i.stop] \in Item \cup {NoItem}
      BY <1>1, <1>2, <2>1, ReconciledQueue DEF Queue
    <2> QED BY <1>missing, <1>late, <2>1, <2>2, IntentIsHeld
  <1>11. InQueueNext(queue')
    BY <1>10, <1>late DEF InQueueNext
  <1>12. MarksNext(queue')
    <2> SUFFICES ASSUME NEW s \in Stops, queue'[s] # NoItem, queue'[s].arrivedMarked
                 PROVE  stop[s] # "pending"
      BY <1>1 DEF MarksNext, serverVars
    <2>1. CASE queue'[s] = seen[s]
      BY <1>3, <2>1 DEF MarksTrue
    <2>2. CASE queue'[s] = InTurn(work[s], seen[s].turn) /\ seen[s] \in Item /\ work[s] \in Item
      BY <1>3, <1>7, <2>2, NoItemAssumption DEF MarksTrue
    <2> QED BY <1>6, <2>1, <2>2
  <1>13. ASSUME flush' # Idle PROVE InHandNext(queue', work)
    <2> SUFFICES ASSUME NEW i \in Known', Owed(i)', SameItem(queue'[i.stop], work[i.stop])
                 PROVE  Holds(work[i.stop], i.tap)
      BY DEF InHandNext
    <2>1. i.stop \in Stops /\ i \in Known /\ Owed(i)
      BY <1>8, <1>9, <1>13 DEF Known
    <2>2. SameItem(seen[i.stop], work[i.stop])
      BY <1>6, <2>1
    <2> QED BY <1>3, <2>1, <2>2 DEF InHand
  <1>14. /\ OutcomesNext(work, outcome) /\ MarksNext(work) /\ MarksNext(Empty)
         /\ screen # Idle /\ screen.pc \in {"write", "erase"} /\ flush' # Idle
                => InHandNext(screen.seen, work)
    <2>1. MarksTrue(Empty)
      BY EmptyQueue DEF MarksTrue
    <2> QED BY <1>3, <1>8, <2>1, KnownKeep, MarksKeep
  <1>15. FlushKeeps'
    BY <1>1, <1>5, <1>13, <1>14, NextFlush
  <1> QED BY <1>1, <1>8, <1>11, <1>12, <1>15, NextQueue, RestingParts DEF TapInv

\* A kill leaves the storage; the office undoes nothing that was recorded.
LEMMA SurroundingsKeepTaps ==
    ASSUME QueueInv, TapInv, ServerGrows,
           AppKilled \/ ReportOpens \/ ReportUnblocks \/ TripEnds \/ UNCHANGED vars
    PROVE  TapInv'
  <1>1. UNCHANGED <<queue, parked, saved>> /\ (AppKilled \/ Known' = Known)
    BY DEF AppKilled, ReportOpens, ReportUnblocks, TripEnds, OfficeStep, phoneVars,
           ghosts, vars, Known
  <1>2. CASE screen' = Idle /\ flush' = Idle
    <2>1. ScreenKeeps' /\ FlushKeeps'
      BY <1>2 DEF ScreenKeeps, FlushKeeps
    <2> QED BY <1>1, <2>1, RestingParts DEF TapInv
  <1>3. CASE ~ AppKilled /\ UNCHANGED <<screen, flush>>
    BY <1>1, <1>3, RestingParts DEF TapInv
  <1> QED BY <1>2, <1>3 DEF AppKilled, ReportOpens, ReportUnblocks, TripEnds, OfficeStep, phoneVars, vars

\* Every step keeps what is owed in every copy of the queue.
LEMMA StepKeepsTaps ==
    ASSUME QueueInv, TapInv, [Next]_vars
    PROVE  TapInv'
  <1>1. ServerGrows
    BY StepKeepsQueue
  <1>2. CASE \E i \in Intent : TapAnswered(i) \/ TapUnanswered(i)
    BY <1>1, <1>2, TapKeepsTaps
  <1>3. CASE ScreenRead \/ ScreenEnqueue \/ ScreenErases \/ ScreenTidy \/ ScreenFails
    BY <1>1, <1>3, ScreenReadKeepsTaps, EnqueueKeepsTaps, TidyKeepsTaps
  <1>4. CASE \E consumeBudget \in BOOLEAN : FlushStart(consumeBudget)
    BY <1>1, <1>4, StartKeepsTaps
  <1>5. CASE \E s \in Stops : FlushUnanswered(s) \/ FlushCommitted(s) \/ FlushOrphaned(s) \/ FlushRefused(s)
    BY <1>1, <1>5, SendKeepsTaps
  <1>6. CASE CheckpointRead
    BY <1>1, <1>6, CheckpointReadKeepsTaps
  <1>7. CASE CheckpointWrite
    BY <1>1, <1>7, CheckpointWriteKeepsTaps
  <1>8. CASE CheckpointSkipped \/ CheckpointRefused \/ CheckpointFails
    BY <1>1, <1>8, CheckpointEndKeepsTaps
  <1>9. CASE CheckpointErases
    BY <1>1, <1>9, CheckpointErasesKeepsTaps
  <1>10. CASE AppKilled \/ ReportOpens \/ ReportUnblocks \/ TripEnds \/ UNCHANGED vars
    BY <1>1, <1>10, SurroundingsKeepTaps
  <1> QED BY <1>2, <1>3, <1>4, <1>5, <1>6, <1>7, <1>8, <1>9, <1>10
         DEF Next, FlushGoesOn, FlushAnswered, PhoneFails

\* For any stops, taps, budgets and faults of phone and network, an Arrived or
\* Delivered tap the driver was told is saved is lost between the screen and the
\* flush that share the queue (enqueuePodItem, flushPodOutbox) in one way only: a
\* checkpoint writes over it that had re-read the queue before it was stored, or
\* had its item in hand by then.  The trim, the spent budget, a refused quarantine
\* and a tidied-up item give taps up and lose none.
THEOREM TapsSurvive == Spec => []NoTapVanishes
  <1>1. QueueInv /\ TapInv /\ [Next]_vars => TapInv'
    BY StepKeepsTaps
  <1>2. QueueInv /\ TapInv => NoTapVanishes
    <2> SUFFICES ASSUME QueueInv, TapInv, NEW i \in saved, i.tap # "photo"
                 PROVE  Accounted(i)
      BY DEF NoTapVanishes
    <2>1. i \in Intent /\ i.stop \in Stops /\ queue[i.stop] \in Item \cup {NoItem}
      BY DEF QueueInv, TypeOK, Intent, Queue
    <2>2. Owed(i) => Stored(i)
      BY <2>1, IntentIsHeld DEF TapInv, InQueue, Stored
    <2> QED BY <2>2 DEF Owed, Accounted
  <1> QED BY <1>1, <1>2, InitKeepsTaps, QueueInvariant, PTL DEF Spec

-----------------------------------------------------------------------------
(* The photos the driver was told are saved.  A photo may be overwritten on  *)
(* the server by an older one only by the flush that has the older one in    *)
(* hand: until that flush ends, the newer one is owed even if it is there.   *)

\* The photos that count: not in the quarantine, nor of a finished trip.
OpenShots == {i \in saved : i.tap = "photo" /\ i \notin parked /\ trip # "locked"}

\* The shot a copy of the queue holds for a stop, or none.
ShotOf(q, s) == IF q[s] = NoItem THEN 0 ELSE q[s].photo

\* The flush has an older photo of the stop in hand.
Threatened(i) == flush # Idle /\ 0 < ShotOf(flush.work, i.stop) /\ ShotOf(flush.work, i.stop) < i.shot

\* Those somebody still has to bring to the server, or to bring there again.
OwedShots == {i \in OpenShots : pod[i.stop] < i.shot \/ Threatened(i)}

\* Of both, what a flush under way can know of.
OpenKnown == OpenShots \ missed
OwedKnown == OwedShots \ missed

\* Of any copy of the queue: it holds the owed photos, or newer ones, ...
Carries(owed, q) == \A i \in owed : i.shot <= ShotOf(q, i.stop)

\* ... a photo it holds is no older than one that counts, ...
Newest(open, q) == \A i \in open : ShotOf(q, i.stop) # 0 => i.shot <= ShotOf(q, i.stop)

\* ... and a photo it says is uploaded is no longer in it.
Spent(q) == \A s \in Stops : q[s] # NoItem /\ q[s].photoUploaded => q[s].photo = 0

Copy(open, owed, q) == Carries(owed, q) /\ Newest(open, q) /\ Spent(q)

\* What a flush works on holds the owed photos of the items a copy shares with it.
Shares(owed, q, work) ==
    \A i \in owed : SameItem(q[i.stop], work[i.stop]) => i.shot <= ShotOf(work, i.stop)

\* An orphaned item's photos are in the quarantine before the checkpoint takes it out.
Cleared(owed, work, outcome) ==
    \A i \in owed : outcome[i.stop] = "orphaned" => ShotOf(work, i.stop) < i.shot

\* A synced item has no photo left.
SyncedSent(work, outcome) == \A s \in Stops : outcome[s] = "synced" => ShotOf(work, s) = 0

FlushShots(open, owed, q, f) ==
    /\ Shares(owed, q, f.work)
    /\ f.pc \in {"write", "erase"} => /\ Copy(open, owed, f.seen)
                                      /\ Shares(owed, f.seen, f.work)
                                      /\ Cleared(owed, f.work, f.outcome)
    /\ Spent(f.work)
    /\ SyncedSent(f.work, f.outcome)

Writing == screen # Idle /\ screen.pc # "read"

ShotsTaken == \A i \in saved : i.tap = "photo" => 0 < i.shot /\ i.shot <= clock

NewestTap ==
    screen # Idle /\ screen.op = "enqueue" /\ screen.intent.tap = "photo" => screen.intent.shot = clock

PhotoInv ==
    /\ ShotsTaken
    /\ NewestTap
    /\ Copy(OpenShots, OwedShots, queue)
    /\ Writing => Copy(OpenShots, OwedShots, screen.seen)
    /\ flush # Idle => FlushShots(OpenKnown, OwedKnown, queue, flush)
    /\ Writing /\ flush # Idle => Shares(OwedKnown, screen.seen, flush.work)

\* Reading the invariant of the next state off its queue, screen and flush.
LEMMA NextPhotos ==
    ASSUME ShotsTaken', NewestTap',
           Copy(OpenShots', OwedShots', queue'),
           screen' # Idle /\ screen'.pc # "read" => Copy(OpenShots', OwedShots', screen'.seen),
           flush' # Idle => FlushShots(OpenKnown', OwedKnown', queue', flush'),
           screen' # Idle /\ screen'.pc # "read" /\ flush' # Idle =>
               Shares(OwedKnown', screen'.seen, flush'.work)
    PROVE  PhotoInv'
  BY DEF PhotoInv, Writing, Copy, Carries, Newest, Spent, Shares, Cleared, SyncedSent, FlushShots, ShotOf, SameItem

\* A copy holds a shot, and an item or none.
LEMMA ShotOfTyped ==
    ASSUME NEW q \in Queue, NEW s \in Stops
    PROVE  ShotOf(q, s) \in Nat /\ (q[s] = NoItem \/ q[s] \in Item)
  <1>1. 0 \in Instant /\ Instant \subseteq Nat
    BY BudgetAssumption DEF Instant
  <1> QED BY <1>1 DEF ShotOf, Queue, Item

\* The photos of an item are those up to the one it holds.
LEMMA ShotIsHeld ==
    ASSUME NEW i \in Intent, i.tap = "photo", 0 < i.shot, NEW q \in Queue, i.shot <= ShotOf(q, i.stop)
    PROVE  i \in IntentsOf(i.stop, q[i.stop])
  <1>1. i.shot \in Nat /\ i.stop \in Stops
    BY BudgetAssumption DEF Intent, Instant
  <1>2. q[i.stop] # NoItem
    BY <1>1 DEF ShotOf
  <1>3. i.shot <= q[i.stop].photo /\ i.shot # 0
    BY <1>1, <1>2 DEF ShotOf
  <1> QED BY <1>1, <1>2, <1>3 DEF IntentsOf

\* Fewer photos that count, fewer owed: whatever held goes on holding.
LEMMA FewerShots ==
    ASSUME NEW open, NEW owed, NEW open2, NEW owed2, open2 \subseteq open, owed2 \subseteq owed,
           NEW q, NEW work, NEW outcome
    PROVE  /\ Copy(open, owed, q) => Copy(open2, owed2, q)
           /\ Shares(owed, q, work) => Shares(owed2, q, work)
           /\ Cleared(owed, work, outcome) => Cleared(owed2, work, outcome)
  BY DEF Copy, Carries, Newest, Shares, Cleared

\* The same of all that a flush is asked for.
LEMMA FewerFlushShots ==
    ASSUME NEW open, NEW owed, NEW open2, NEW owed2, open2 \subseteq open, owed2 \subseteq owed,
           NEW q, NEW f, FlushShots(open, owed, q, f)
    PROVE  FlushShots(open2, owed2, q, f)
  BY FewerShots DEF FlushShots

\* A photo that counts is one of the shots taken so far.
LEMMA ShotFacts ==
    ASSUME QueueInv, PhotoInv, NEW i \in OpenShots
    PROVE  /\ i \in saved /\ i \in Intent /\ i.tap = "photo" /\ i.stop \in Stops
           /\ i.shot \in Nat /\ 0 < i.shot /\ i.shot <= clock /\ clock \in Nat
           /\ pod[i.stop] \in Nat
  <1>1. i \in saved /\ i \in Intent /\ i.tap = "photo" /\ clock \in Instant /\ pod \in [Stops -> Instant]
    BY DEF OpenShots, QueueInv, TypeOK
  <1>2. Instant \subseteq Nat
    BY BudgetAssumption DEF Instant
  <1>3. 0 < i.shot /\ i.shot <= clock
    BY <1>1 DEF PhotoInv, ShotsTaken
  <1> QED BY <1>1, <1>2, <1>3 DEF Intent

\* What may make a photo owed is a pod that drops below it, or a flush that
\* sets out with an older one.
LEMMA ShotsShrink ==
    ASSUME QueueInv, ServerGrows, parked \subseteq parked', saved' \subseteq saved,
           \A i \in OpenShots : pod'[i.stop] < i.shot => i \in OwedShots,
           \A i \in OpenShots : flush' # Idle /\ 0 < ShotOf(flush'.work, i.stop)
                                    /\ ShotOf(flush'.work, i.stop) < i.shot => i \in OwedShots
    PROVE  OpenShots' \subseteq OpenShots /\ OwedShots' \subseteq OwedShots
  <1>1. OpenShots' \subseteq OpenShots
    BY DEF OpenShots, ServerGrows
  <1>2. ASSUME NEW i \in OwedShots' PROVE i \in OwedShots
    <2>1. i \in OpenShots' /\ (pod'[i.stop] < i.shot \/ Threatened(i)')
      BY DEF OwedShots
    <2>2. i \in OpenShots
      BY <1>1, <2>1
    <2>3. CASE pod'[i.stop] < i.shot
      BY <2>2, <2>3
    <2>4. CASE Threatened(i)'
      BY <2>2, <2>4 DEF Threatened, ShotOf
    <2> QED BY <2>1, <2>3, <2>4
  <1> QED BY <1>1, <1>2

\* With the server, the quarantine and the flush at rest nothing becomes owed.
LEMMA ShotsRest ==
    ASSUME QueueInv, UNCHANGED <<parked, trip, pod>>, saved' \subseteq saved,
           flush' = flush \/ flush' = Idle \/ (flush'.work = flush.work /\ flush # Idle)
    PROVE  OpenShots' \subseteq OpenShots /\ OwedShots' \subseteq OwedShots
  <1>1. OpenShots' \subseteq OpenShots
    BY DEF OpenShots
  <1>2. ASSUME NEW i \in OwedShots' PROVE i \in OwedShots
    <2>1. i \in OpenShots' /\ (pod'[i.stop] < i.shot \/ Threatened(i)')
      BY DEF OwedShots
    <2>2. Threatened(i)' => Threatened(i)
      BY DEF Threatened, ShotOf
    <2> QED BY <1>1, <2>1, <2>2 DEF OwedShots
  <1> QED BY <1>1, <1>2

\* Nor does a flush come to know of any, when it comes to know of nothing.
LEMMA KnownShots ==
    ASSUME Known' \subseteq Known, OpenShots' \subseteq OpenShots, OwedShots' \subseteq OwedShots
    PROVE  OpenKnown' \subseteq OpenKnown /\ OwedKnown' \subseteq OwedKnown
  <1>1. \A i \in OpenShots' : i \in saved' /\ (i \in OwedShots' => i \in OpenShots')
    BY DEF OpenShots
  <1>2. OwedShots' \subseteq OpenShots'
    BY DEF OwedShots
  <1>3. \A i \in saved' : i \notin missed' => i \notin missed
    BY DEF Known
  <1> QED BY <1>1, <1>2, <1>3 DEF OpenKnown, OwedKnown

\* What stays put keeps its facts.
LEMMA RestingPhotos ==
    ASSUME QueueInv, PhotoInv, OpenShots' \subseteq OpenShots, OwedShots' \subseteq OwedShots,
           saved' \subseteq saved, clock' = clock
    PROVE  /\ ShotsTaken'
           /\ Copy(OpenShots', OwedShots', queue)
           /\ Writing => Copy(OpenShots', OwedShots', screen.seen)
           /\ Known' \subseteq Known /\ flush # Idle => FlushShots(OpenKnown', OwedKnown', queue, flush)
           /\ Known' \subseteq Known /\ Writing /\ flush # Idle => Shares(OwedKnown', screen.seen, flush.work)
           /\ screen' = screen \/ screen' = Idle => NewestTap'
  <1>1. ShotsTaken' /\ (screen' = screen \/ screen' = Idle => NewestTap')
    BY DEF PhotoInv, ShotsTaken, NewestTap
  <1>2. Copy(OpenShots', OwedShots', queue)
    BY FewerShots DEF PhotoInv
  <1>3. Writing => Copy(OpenShots', OwedShots', screen.seen)
    BY FewerShots DEF PhotoInv
  <1>4. Known' \subseteq Known => OpenKnown' \subseteq OpenKnown /\ OwedKnown' \subseteq OwedKnown
    BY KnownShots
  <1>5. Known' \subseteq Known /\ flush # Idle => FlushShots(OpenKnown', OwedKnown', queue, flush)
    BY <1>4, FewerFlushShots DEF PhotoInv
  <1>6. Known' \subseteq Known /\ Writing /\ flush # Idle => Shares(OwedKnown', screen.seen, flush.work)
    BY <1>4, FewerShots DEF PhotoInv
  <1> QED BY <1>1, <1>2, <1>3, <1>5, <1>6

\* No photo is saved to begin with.
LEMMA InitKeepsPhotos == Init => PhotoInv
  <1> SUFFICES ASSUME Init PROVE PhotoInv
    OBVIOUS
  <1>1. queue = Empty /\ screen = Idle /\ flush = Idle /\ saved = {}
    BY DEF Init
  <1>2. OpenShots = {} /\ OwedShots = {}
    BY <1>1 DEF OpenShots, OwedShots
  <1> QED BY <1>1, <1>2, EmptyQueue
          DEF PhotoInv, ShotsTaken, NewestTap, Copy, Carries, Newest, Spent, Writing

\* A photo uploaded directly is the newest there is.
LEMMA TapKeepsPhotos ==
    ASSUME QueueInv, PhotoInv, ServerGrows, NEW i \in Intent, TapAnswered(i) \/ TapUnanswered(i)
    PROVE  PhotoInv'
  <1>1. /\ UNCHANGED <<queue, parked, flush, saved>> /\ Known' = Known
        /\ screen = Idle /\ clock' = clock + 1 /\ Offers(i)
        /\ Serve(i) \/ UNCHANGED serverVars
    BY DEF TapAnswered, TapUnanswered, Tap, ghosts, Known
  <1>2. clock \in Nat /\ pod \in [Stops -> Instant] /\ i.stop \in Stops /\ i.tap \in Taps
    BY BudgetAssumption DEF QueueInv, TypeOK, Instant, Intent
  <1>3. i.tap = "photo" => i.shot = clock + 1
    BY <1>1 DEF Offers
  <1>4. ASSUME NEW j \in OpenShots, pod'[j.stop] < j.shot PROVE j \in OwedShots
    <2>1. j.shot \in Nat /\ j.shot <= clock /\ j.stop \in Stops
      BY ShotFacts
    <2>2. pod' = pod \/ (i.tap = "photo" /\ pod' = [pod EXCEPT ![i.stop] = i.shot])
      BY <1>1 DEF Serve, serverVars
    <2>3. pod[j.stop] < j.shot
      <3>1. CASE pod' = pod
        BY <1>4, <3>1
      <3>2. CASE i.tap = "photo" /\ pod' = [pod EXCEPT ![i.stop] = i.shot]
        <4>1. pod'[j.stop] = pod[j.stop] \/ pod'[j.stop] = clock + 1
          BY <1>2, <1>3, <2>1, <3>2
        <4> QED BY <1>2, <1>4, <2>1, <4>1
      <3> QED BY <2>2, <3>1, <3>2
    <2> QED BY <2>3 DEF OwedShots
  <1>5. \A j \in OpenShots : flush' # Idle /\ 0 < ShotOf(flush'.work, j.stop)
                                 /\ ShotOf(flush'.work, j.stop) < j.shot => j \in OwedShots
    BY <1>1 DEF OwedShots, Threatened
  <1>6. OpenShots' \subseteq OpenShots /\ OwedShots' \subseteq OwedShots
    BY <1>1, <1>4, <1>5, ShotsShrink
  <1>7. ShotsTaken'
    <2> SUFFICES ASSUME NEW j \in saved, j.tap = "photo" PROVE 0 < j.shot /\ j.shot <= clock'
      BY <1>1 DEF ShotsTaken
    <2>1. 0 < j.shot /\ j.shot <= clock /\ j.shot \in Nat
      BY BudgetAssumption DEF PhotoInv, ShotsTaken, QueueInv, TypeOK, Intent, Instant
    <2> QED BY <1>1, <1>2, <2>1
  <1>8. NewestTap' /\ (screen' = Idle \/ screen'.pc = "read")
    BY <1>1, <1>3 DEF TapAnswered, TapUnanswered, Begin, NewestTap
  <1>9. Copy(OpenShots', OwedShots', queue)
    BY <1>6, FewerShots DEF PhotoInv
  <1>10. flush # Idle => FlushShots(OpenKnown', OwedKnown', queue, flush)
    BY <1>1, <1>6, KnownShots, FewerFlushShots DEF PhotoInv
  <1> QED BY <1>1, <1>7, <1>8, <1>9, <1>10, NextPhotos

\* The screen reads a queue with the newest photos; the guard only looks.
LEMMA ScreenReadKeepsPhotos ==
    ASSUME QueueInv, PhotoInv, ScreenRead \/ ScreenErases \/ ScreenFails
    PROVE  PhotoInv'
  <1>1. /\ UNCHANGED <<queue, parked, flush, saved, clock, trip, pod>> /\ Known' = Known
        /\ screen \in Screen /\ screen # Idle
    BY DEF ScreenRead, ScreenErases, Tidying, ScreenFails, ScreenStep, serverVars, ghosts, Known,
           QueueInv, TypeOK
  <1>2. OpenShots' \subseteq OpenShots /\ OwedShots' \subseteq OwedShots
    BY <1>1, ShotsRest
  <1>3. /\ ShotsTaken'
        /\ Copy(OpenShots', OwedShots', queue)
        /\ flush # Idle => FlushShots(OpenKnown', OwedKnown', queue, flush)
        /\ Writing => Copy(OpenShots', OwedShots', screen.seen)
        /\ Writing /\ flush # Idle => Shares(OwedKnown', screen.seen, flush.work)
        /\ screen' = Idle => NewestTap'
    BY <1>1, <1>2, RestingPhotos
  <1>4. CASE screen' = Idle
    BY <1>1, <1>3, <1>4, NextPhotos
  <1>5. CASE screen' = [screen EXCEPT !.pc = "write", !.seen = queue]
    <2>1. screen'.seen = queue /\ screen'.op = screen.op /\ screen'.intent = screen.intent
      BY <1>1, <1>5 DEF Screen
    <2>2. NewestTap'
      BY <1>1, <2>1 DEF PhotoInv, NewestTap
    <2>3. flush # Idle => Shares(OwedKnown', queue, flush.work)
      BY <1>3 DEF FlushShots
    <2> QED BY <1>1, <1>3, <2>1, <2>2, <2>3, NextPhotos
  <1>6. CASE ScreenErases
    <2>1. /\ screen'.seen = screen.seen /\ screen'.op = screen.op /\ screen'.intent = screen.intent
          /\ Writing
      BY <1>1, <1>6 DEF Screen, ScreenErases, Writing
    <2>2. NewestTap'
      BY <1>1, <2>1 DEF PhotoInv, NewestTap
    <2> QED BY <1>1, <1>3, <2>1, <2>2, NextPhotos
  <1> QED BY <1>4, <1>5, <1>6 DEF ScreenRead, ScreenFails

\* What merging a tap makes of the photo an item holds.
LEMMA MergedShot ==
    ASSUME NEW old \in Item, NEW i \in Intent, NEW now \in Instant
    PROVE  /\ Merged(old, i, now).photo = IF i.tap = "photo" THEN i.shot ELSE old.photo
           /\ Merged(old, i, now).photoUploaded => old.photoUploaded /\ i.tap # "photo"
           /\ Merged(old, i, now).queuedAt = old.queuedAt
           /\ Merged(old, i, now) # NoItem
  <1>1. Merged(old, i, now) \in Item
    BY MergedItem
  <1>2. /\ Merged(old, i, now).photo = IF i.tap = "photo" THEN i.shot ELSE old.photo
        /\ Merged(old, i, now).photoUploaded => old.photoUploaded /\ i.tap # "photo"
        /\ Merged(old, i, now).queuedAt = old.queuedAt
    BY DEF Merged, Item
  <1> QED BY <1>1, <1>2, NoItemAssumption

\* The copy a tap is merged into, before the trim: the tapped stop's photo is
\* the new one, if the tap is a photo; every other is as it was.
LEMMA UpsertShots ==
    ASSUME NEW q \in Queue, NEW i \in Intent, NEW now \in Instant, Spent(q)
    PROVE  /\ Upsert(q, i, now) \in Queue
           /\ \A s \in Stops : ShotOf(Upsert(q, i, now), s) =
                  IF s = i.stop /\ i.tap = "photo" THEN i.shot ELSE ShotOf(q, s)
           /\ Spent(Upsert(q, i, now))
           /\ \A s \in Stops : \A item \in Item \cup {NoItem} :
                  q[s] # NoItem /\ SameItem(Upsert(q, i, now)[s], item) => SameItem(q[s], item)
  <1> DEFINE up == Upsert(q, i, now)
             old == IF q[i.stop] = NoItem THEN Fresh(now) ELSE q[i.stop]
             new == Merged(old, i, now)
  <1>1. i.stop \in Stops
    BY DEF Intent
  <1>2. /\ up \in Queue
        /\ \A s \in Stops \ {i.stop} : up[s] = q[s]
        /\ up[i.stop] = new
    BY UpsertQueue
  <1>3. old \in Item /\ old.photo = ShotOf(q, i.stop) /\ (old.photoUploaded => q[i.stop] # NoItem)
        /\ (q[i.stop] # NoItem => old = q[i.stop])
    <2>1. CASE q[i.stop] = NoItem
      BY <1>1, <2>1, FreshItem DEF Fresh, ShotOf
    <2>2. CASE q[i.stop] # NoItem
      BY <1>1, <2>2 DEF Queue, ShotOf
    <2> QED BY <2>1, <2>2
  <1> HIDE DEF up, old
  <1>4. /\ new.photo = IF i.tap = "photo" THEN i.shot ELSE old.photo
        /\ new.photoUploaded => old.photoUploaded /\ i.tap # "photo"
        /\ new.queuedAt = old.queuedAt
        /\ new # NoItem
    BY <1>3, MergedShot
  <1> HIDE DEF new
  <1>5. ASSUME NEW s \in Stops
        PROVE  ShotOf(up, s) = IF s = i.stop /\ i.tap = "photo" THEN i.shot ELSE ShotOf(q, s)
    BY <1>2, <1>3, <1>4 DEF ShotOf
  <1>6. ASSUME NEW s \in Stops, up[s] # NoItem, up[s].photoUploaded
        PROVE  up[s].photo = 0
    <2>1. CASE s # i.stop
      BY <1>2, <1>6, <2>1 DEF Spent
    <2>2. CASE s = i.stop
      <3>1. old.photoUploaded /\ i.tap # "photo" /\ new.photo = old.photo
        BY <1>2, <1>4, <1>6, <2>2
      <3>2. q[i.stop] # NoItem /\ q[i.stop].photoUploaded /\ old.photo = q[i.stop].photo
        BY <1>3, <3>1
      <3> QED BY <1>1, <1>2, <2>2, <3>1, <3>2 DEF Spent
    <2> QED BY <2>1, <2>2
  <1>7. ASSUME NEW s \in Stops, NEW item \in Item \cup {NoItem}, q[s] # NoItem, SameItem(up[s], item)
        PROVE  SameItem(q[s], item)
    BY <1>2, <1>3, <1>4, <1>7 DEF SameItem
  <1>8. Spent(up)
    BY <1>6 DEF Spent
  <1> QED BY <1>2, <1>5, <1>7, <1>8 DEF up

\* The trim takes no owed photo, or it was given up.
LEMMA TrimmedShots ==
    ASSUME NEW q \in Queue, NEW S, NEW open, NEW owed, Newest(open, q), Spent(q), Carries(owed, q),
           \A i \in open \cup owed : i.stop \in Stops, \A i \in owed : i.stop \notin S
    PROVE  Copy(open, owed, Dequeue(q, S))
  <1>1. \A s \in Stops : Dequeue(q, S)[s] = IF s \in S THEN NoItem ELSE q[s]
    BY DequeueQueue
  <1>2. Carries(owed, Dequeue(q, S))
    BY <1>1 DEF Carries, ShotOf
  <1>3. Newest(open, Dequeue(q, S))
    BY <1>1 DEF Newest, ShotOf
  <1>4. Spent(Dequeue(q, S))
    BY <1>1 DEF Spent
  <1> QED BY <1>2, <1>3, <1>4 DEF Copy

\* A photo merged into the queue is the driver's latest, and its item in no flush
\* unless the flush misses it; what the trim evicts is given up.
LEMMA EnqueueKeepsPhotos ==
    ASSUME QueueInv, PhotoInv, ScreenEnqueue
    PROVE  PhotoInv'
  <1> DEFINE tapped == screen.intent
             seen == screen.seen
             up == Upsert(seen, tapped, clock)
             overlooked == /\ flush # Idle
                           /\ \/ flush.pc \in {"write", "erase"}
                              \/ SameItem(up[tapped.stop], flush.work[tapped.stop])
             lost == UNION {IntentsOf(s, up[s]) : s \in Evicted(up)}
  <1>1. /\ screen \in Screen /\ screen # Idle /\ screen.pc = "write" /\ screen.op = "enqueue"
        /\ screen' = Idle /\ UNCHANGED <<parked, flush, clock, trip, pod>>
    BY DEF ScreenEnqueue, ScreenStep, serverVars, QueueInv, TypeOK
  <1>2. queue' = Dequeue(up, Evicted(up))
    BY DEF ScreenEnqueue, MergeOutboxItem
  <1>3. /\ saved' = (saved \cup {tapped}) \ lost
        /\ missed' = IF overlooked THEN missed \cup {tapped} ELSE missed
    BY DEF ScreenEnqueue
  <1>4. /\ tapped.tap = "photo" => tapped.shot = clock /\ 0 < clock
        /\ clock \in Nat /\ seen \in Queue /\ tapped \in Intent /\ clock \in Instant
        /\ tapped.stop \in Stops /\ saved \subseteq Intent
    BY <1>1, BudgetAssumption DEF Screen, QueueInv, TypeOK, Intent, Instant, ScreenHolds, PhotoInv, NewestTap
  <1>5. Copy(OpenShots, OwedShots, seen) /\ (flush # Idle => Shares(OwedKnown, seen, flush.work))
    BY <1>1 DEF PhotoInv, Writing
  <1> HIDE DEF seen, tapped
  <1>6. /\ up \in Queue
        /\ \A s \in Stops : ShotOf(up, s) =
               IF s = tapped.stop /\ tapped.tap = "photo" THEN tapped.shot ELSE ShotOf(seen, s)
        /\ Spent(up)
        /\ \A s \in Stops : \A item \in Item \cup {NoItem} :
               seen[s] # NoItem /\ SameItem(up[s], item) => SameItem(seen[s], item)
    BY <1>4, <1>5, UpsertShots DEF Copy
  <1> HIDE DEF up, overlooked, lost
  <1>7. ASSUME NEW i \in OpenShots'
        PROVE  /\ i \in OpenShots \/ i = tapped
               /\ i \in Intent /\ i.stop \in Stops /\ i.tap = "photo" /\ i \notin lost
               /\ i.shot \in Nat /\ 0 < i.shot /\ i.shot <= clock
    <2>1. /\ i \in saved' /\ i.tap = "photo" /\ i \notin parked /\ trip # "locked"
      BY <1>1, <1>7 DEF OpenShots
    <2>2. (i \in saved \/ i = tapped) /\ i \notin lost
      BY <1>3, <2>1
    <2>3. CASE i \in saved
      <3>1. i \in OpenShots
        BY <2>1, <2>3 DEF OpenShots
      <3> QED BY <2>2, <3>1, ShotFacts
    <2>4. CASE i = tapped
      BY <1>4, <2>1, <2>2, <2>4
    <2> QED BY <2>2, <2>3, <2>4
  <1>8. ASSUME NEW i \in OwedShots', i \in OpenShots PROVE i \in OwedShots
    <2>1. i \in OpenShots' /\ (pod[i.stop] < i.shot \/ Threatened(i)')
      BY <1>1, <1>8 DEF OwedShots
    <2>2. Threatened(i)' => Threatened(i)
      BY <1>1 DEF Threatened, ShotOf
    <2> QED BY <1>7, <1>8, <2>1, <2>2 DEF OwedShots
  <1>9. OwedShots' \subseteq OpenShots'
    BY DEF OwedShots
  <1>10. ASSUME NEW i \in OpenShots', ShotOf(up, i.stop) # 0 PROVE i.shot <= ShotOf(up, i.stop)
    <2>1. CASE i.stop = tapped.stop /\ tapped.tap = "photo"
      BY <1>4, <1>6, <1>7, <2>1
    <2>2. CASE ~ (i.stop = tapped.stop /\ tapped.tap = "photo")
      <3>1. i \in OpenShots /\ ShotOf(up, i.stop) = ShotOf(seen, i.stop)
        BY <1>6, <1>7, <2>2
      <3> QED BY <1>5, <1>10, <3>1 DEF Copy, Newest
    <2> QED BY <2>1, <2>2
  <1>11. ASSUME NEW i \in OwedShots' PROVE i.shot <= ShotOf(up, i.stop) /\ i.stop \notin Evicted(up)
    <2>1. i \in OpenShots'
      BY <1>9
    <2>2. i.shot <= ShotOf(up, i.stop)
      <3>1. CASE i.stop = tapped.stop /\ tapped.tap = "photo"
        BY <1>4, <1>6, <1>7, <2>1, <3>1
      <3>2. CASE ~ (i.stop = tapped.stop /\ tapped.tap = "photo")
        <4>1. i \in OwedShots /\ ShotOf(up, i.stop) = ShotOf(seen, i.stop)
          BY <1>6, <1>7, <1>8, <2>1, <3>2
        <4> QED BY <1>5, <4>1 DEF Copy, Carries
      <3> QED BY <3>1, <3>2
    <2>3. i \in IntentsOf(i.stop, up[i.stop])
      BY <1>6, <1>7, <2>1, <2>2, ShotIsHeld
    <2> QED BY <1>7, <2>1, <2>2, <2>3 DEF lost
  <1>12. Copy(OpenShots', OwedShots', queue')
    <2>1. Newest(OpenShots', up) /\ Carries(OwedShots', up)
      BY <1>10, <1>11 DEF Newest, Carries
    <2>2. \A i \in OpenShots' \cup OwedShots' : i.stop \in Stops
      BY <1>7, <1>9
    <2>3. \A i \in OwedShots' : i.stop \notin Evicted(up)
      BY <1>11
    <2> QED BY <1>2, <1>6, <2>1, <2>2, <2>3, TrimmedShots
  <1>13. ASSUME flush # Idle PROVE FlushShots(OpenKnown', OwedKnown', queue', flush)
    <2>1. FlushShots(OpenKnown, OwedKnown, queue, flush) /\ flush.work \in Queue
      BY <1>13, FlushFields DEF PhotoInv
    <2>2. Shares(OwedKnown', queue', flush.work)
      <3> SUFFICES ASSUME NEW i \in OwedKnown', SameItem(queue'[i.stop], flush.work[i.stop])
                   PROVE  i.shot <= ShotOf(flush.work, i.stop)
        BY DEF Shares
      <3> i \in OwedShots' /\ i \notin missed'
        BY DEF OwedKnown
      <3>1. i.stop \in Stops /\ i.stop \notin Evicted(up)
        BY <1>7, <1>9, <1>11
      <3>2. SameItem(up[i.stop], flush.work[i.stop])
        BY <1>2, <1>6, <3>1, DequeueQueue
      <3>3. i \in OpenShots /\ i \notin missed
        BY <1>3, <1>7, <1>9, <1>13, <3>2 DEF overlooked
      <3>4. i \in OwedShots /\ i \in OwedKnown
        BY <1>8, <3>3 DEF OwedKnown
      <3>5. seen[i.stop] # NoItem
        <4>1. i.shot <= ShotOf(seen, i.stop) /\ 0 < i.shot /\ i.shot \in Nat
          BY <1>5, <1>7, <1>9, <3>4 DEF Copy, Carries
        <4> QED BY <4>1 DEF ShotOf
      <3>6. SameItem(seen[i.stop], flush.work[i.stop])
        BY <1>6, <2>1, <3>1, <3>2, <3>5 DEF Queue
      <3> QED BY <1>5, <1>13, <3>4, <3>6 DEF Shares
    <2>3. ASSUME flush.pc \in {"write", "erase"}
          PROVE  OpenKnown' \subseteq OpenKnown /\ OwedKnown' \subseteq OwedKnown
      <3>1. missed' = missed \cup {tapped}
        BY <1>3, <1>13, <2>3 DEF overlooked
      <3> QED BY <1>7, <1>8, <1>9, <3>1 DEF OpenKnown, OwedKnown
    <2>4. flush.pc \in {"write", "erase"} => /\ Copy(OpenKnown', OwedKnown', flush.seen)
                                /\ Shares(OwedKnown', flush.seen, flush.work)
                                /\ Cleared(OwedKnown', flush.work, flush.outcome)
      BY <2>1, <2>3, FewerShots DEF FlushShots
    <2> QED BY <2>1, <2>2, <2>4 DEF FlushShots
  <1>14. ShotsTaken'
    <2> SUFFICES ASSUME NEW i \in saved', i.tap = "photo" PROVE 0 < i.shot /\ i.shot <= clock
      BY <1>1 DEF ShotsTaken
    <2> QED BY <1>3, <1>4 DEF PhotoInv, ShotsTaken
  <1>15. NewestTap'
    BY <1>1 DEF NewestTap
  <1> QED BY <1>1, <1>12, <1>13, <1>14, <1>15, NextPhotos

\* Tidying up gives up the photos of the stop, and touches no other.
LEMMA TidiedShots ==
    ASSUME NEW q \in Queue, NEW s \in Stops, q[s] # NoItem, Spent(q),
           NEW next, next = [q EXCEPT ![s] = Uploaded(q[s])] \/ next = Dequeue(q, {s})
    PROVE  /\ \A u \in Stops : u # s => next[u] = q[u]
           /\ ShotOf(next, s) = 0
           /\ Spent(next)
  <1>1. q[s] \in Item /\ Uploaded(q[s]).photo = 0 /\ Uploaded(q[s]) # NoItem
    <2>1. q[s] \in Item
      BY DEF Queue
    <2>2. Uploaded(q[s]) \in Item
      BY <2>1, UploadedItem
    <2> QED BY <2>1, <2>2, NoItemAssumption DEF Uploaded, Item
  <1>2. CASE next = [q EXCEPT ![s] = Uploaded(q[s])]
    <2> DEFINE rest == Uploaded(q[s])
    <2>1. rest.photo = 0 /\ rest # NoItem
      BY <1>1
    <2> HIDE DEF rest
    <2>2. next[s] = rest /\ \A u \in Stops : u # s => next[u] = q[u]
      BY <1>2 DEF Queue, rest
    <2> QED BY <2>1, <2>2 DEF ShotOf, Spent
  <1>3. CASE next = Dequeue(q, {s})
    <2>1. \A u \in Stops : next[u] = IF u \in {s} THEN NoItem ELSE q[u]
      BY <1>3, DequeueQueue
    <2> QED BY <2>1 DEF ShotOf, Spent
  <1> QED BY <1>2, <1>3

\* A photo tidied out of the queue is given up, and no other goes with it.
LEMMA TidyKeepsPhotos ==
    ASSUME QueueInv, PhotoInv, ScreenTidy
    PROVE  PhotoInv'
  <1> DEFINE tidied == screen.intent
             seen == screen.seen
  <1>1. /\ screen \in Screen /\ screen # Idle /\ screen.pc \in {"write", "erase"} /\ screen.op # "enqueue"
        /\ screen' = Idle /\ UNCHANGED <<parked, flush, clock, trip, pod>>
        /\ saved' \subseteq saved /\ Known' \subseteq Known
    BY DEF ScreenTidy, Tidying, Screen, ScreenStep, serverVars, Known, QueueInv, TypeOK
  <1>2. OpenShots' \subseteq OpenShots /\ OwedShots' \subseteq OwedShots
    BY <1>1, ShotsRest
  <1>3. /\ ShotsTaken' /\ NewestTap'
        /\ Copy(OpenShots', OwedShots', queue)
        /\ Copy(OpenShots', OwedShots', seen)
        /\ flush # Idle => FlushShots(OpenKnown', OwedKnown', queue, flush)
        /\ flush # Idle => Shares(OwedKnown', seen, flush.work)
    BY <1>1, <1>2, RestingPhotos DEF Writing
  <1>4. queue' = Tidied(tidied) /\ saved' = saved \ GivenUpByTidying(tidied)
    BY DEF ScreenTidy
  <1>5. /\ seen \in Queue /\ tidied \in Intent /\ tidied.stop \in Stops
        /\ seen[tidied.stop] # NoItem /\ seen[tidied.stop] \in Item
    <2>1. seen[tidied.stop] # NoItem
      BY <1>1 DEF QueueInv, ScreenHolds
    <2> QED BY <1>1, <2>1 DEF Screen, Intent, Queue
  <1>6. queue' = [seen EXCEPT ![tidied.stop] = Uploaded(seen[tidied.stop])]
          \/ queue' = Dequeue(seen, {tidied.stop})
    <2>1. CASE screen.op = "noteUpload" /\ seen[tidied.stop].confirmDelivered
      <3>1. Tidied(tidied) = [seen EXCEPT ![tidied.stop].photo = 0, ![tidied.stop].photoUploaded = TRUE]
        BY <2>1 DEF Tidied
      <3> QED BY <1>4, <1>5, <3>1 DEF Queue, Item, Uploaded
    <2>2. CASE ~ (screen.op = "noteUpload" /\ seen[tidied.stop].confirmDelivered)
      BY <1>4, <2>2 DEF Tidied
    <2> QED BY <2>1, <2>2
  <1>7. \A i \in IntentsOf(tidied.stop, seen[tidied.stop]) : i.tap = "photo" => i \notin saved'
    BY <1>4 DEF GivenUpByTidying
  <1> HIDE DEF seen, tidied
  <1>8. /\ \A u \in Stops : u # tidied.stop => queue'[u] = seen[u]
        /\ ShotOf(queue', tidied.stop) = 0
        /\ Spent(queue')
    BY <1>3, <1>5, <1>6, TidiedShots DEF Copy
  <1>9. ASSUME NEW i \in OpenShots'
        PROVE  i \in Intent /\ i.tap = "photo" /\ i.stop \in Stops /\ i.shot \in Nat /\ 0 < i.shot
               /\ i \in saved'
    BY <1>2, ShotFacts DEF OpenShots
  <1>10. ASSUME NEW i \in OwedShots'
        PROVE  i \in OpenShots' /\ i.stop # tidied.stop /\ i.shot <= ShotOf(seen, i.stop)
    <2>1. i \in OpenShots' /\ i.shot <= ShotOf(seen, i.stop)
      BY <1>3 DEF OwedShots, Copy, Carries
    <2>2. i \in IntentsOf(i.stop, seen[i.stop])
      BY <1>5, <1>9, <2>1, ShotIsHeld
    <2> QED BY <1>7, <1>9, <2>1, <2>2
  <1>11. Carries(OwedShots', queue')
    BY <1>8, <1>9, <1>10 DEF Carries, ShotOf
  <1>12. Newest(OpenShots', queue')
    <2> SUFFICES ASSUME NEW i \in OpenShots', ShotOf(queue', i.stop) # 0
                 PROVE  i.shot <= ShotOf(queue', i.stop)
      BY DEF Newest
    <2>1. i.stop # tidied.stop /\ ShotOf(queue', i.stop) = ShotOf(seen, i.stop)
      BY <1>8, <1>9 DEF ShotOf
    <2> QED BY <1>3, <2>1 DEF Copy, Newest
  <1>13. Copy(OpenShots', OwedShots', queue')
    BY <1>8, <1>11, <1>12 DEF Copy
  <1>14. ASSUME flush # Idle PROVE FlushShots(OpenKnown', OwedKnown', queue', flush)
    <2>1. Shares(OwedKnown', queue', flush.work)
      BY <1>3, <1>8, <1>9, <1>10, <1>14 DEF Shares, OwedKnown
    <2> QED BY <1>3, <1>14, <2>1 DEF FlushShots
  <1> QED BY <1>1, <1>3, <1>13, <1>14, NextPhotos

\* A flush sets out with the newest photos there are.
LEMMA StartKeepsPhotos ==
    ASSUME QueueInv, PhotoInv, NEW consumeBudget \in BOOLEAN, FlushStart(consumeBudget)
    PROVE  PhotoInv'
  <1>1. /\ flush' = [pc |-> "send", work |-> queue, outcome |-> [s \in Stops |-> "none"],
                     seen |-> Empty, consume |-> consumeBudget]
        /\ UNCHANGED <<queue, parked, screen, clock, saved, trip, pod>>
    BY DEF FlushStart, FlushStep, serverVars, ghosts
  <1>2. /\ flush'.work = queue /\ flush'.pc = "send"
        /\ \A s \in Stops : flush'.outcome[s] = "none"
    BY <1>1
  <1>3. Copy(OpenShots, OwedShots, queue) /\ queue \in Queue
    BY DEF PhotoInv, QueueInv, TypeOK
  <1>4. OpenShots' = OpenShots
    BY <1>1 DEF OpenShots
  <1>5. ASSUME NEW i \in OwedShots' PROVE i \in OwedShots
    <2>1. i \in OpenShots /\ (pod[i.stop] < i.shot \/ Threatened(i)')
      BY <1>1, <1>4 DEF OwedShots
    <2>2. ASSUME Threatened(i)' PROVE FALSE
      <3>1. 0 < ShotOf(queue, i.stop) /\ ShotOf(queue, i.stop) < i.shot
        BY <1>2, <2>2 DEF Threatened, ShotOf
      <3>2. i.stop \in Stops /\ i.shot \in Nat
        BY <2>1, ShotFacts
      <3>3. ShotOf(queue, i.stop) \in Nat
        BY <1>3, <3>2, ShotOfTyped
      <3>4. i.shot <= ShotOf(queue, i.stop)
        BY <1>3, <2>1, <3>1, <3>3 DEF Copy, Newest
      <3> QED BY <3>1, <3>2, <3>3, <3>4
    <2> QED BY <2>1, <2>2 DEF OwedShots
  <1>6. OpenShots' \subseteq OpenShots /\ OwedShots' \subseteq OwedShots
    BY <1>4, <1>5
  <1>7. /\ ShotsTaken' /\ NewestTap'
        /\ Copy(OpenShots', OwedShots', queue)
        /\ Writing => Copy(OpenShots', OwedShots', screen.seen)
    BY <1>1, <1>6, RestingPhotos
  \* So it shares whatever is owed with the queue and with the screen's copy.
  <1>8. \A q : Shares(OwedKnown', q, queue)
    BY <1>7 DEF Shares, Copy, Carries, OwedKnown
  <1>9. SyncedSent(queue, flush'.outcome)
    BY <1>2 DEF SyncedSent
  <1>10. FlushShots(OpenKnown', OwedKnown', queue, flush')
    BY <1>2, <1>7, <1>8, <1>9 DEF FlushShots, Copy
  <1> QED BY <1>1, <1>2, <1>7, <1>8, <1>10, NextPhotos DEF Writing

\* A step of the flush that leaves the phone's storage alone.
LEMMA FlushStepKeepsPhotos ==
    ASSUME QueueInv, PhotoInv, UNCHANGED <<queue, screen, clock, saved>>,
           OpenShots' \subseteq OpenShots, OwedShots' \subseteq OwedShots,
           flush' # Idle =>
             /\ Known' \subseteq Known /\ flush # Idle /\ flush'.pc \notin {"write", "erase"}
             /\ \A q \in Queue : Shares(OwedKnown', q, flush.work) => Shares(OwedKnown', q, flush'.work)
             /\ Spent(flush'.work)
             /\ SyncedSent(flush'.work, flush'.outcome)
    PROVE  PhotoInv'
  <1>1. /\ ShotsTaken' /\ NewestTap'
        /\ Copy(OpenShots', OwedShots', queue)
        /\ Writing => Copy(OpenShots', OwedShots', screen.seen)
        /\ Known' \subseteq Known /\ flush # Idle => FlushShots(OpenKnown', OwedKnown', queue, flush)
        /\ Known' \subseteq Known /\ Writing /\ flush # Idle => Shares(OwedKnown', screen.seen, flush.work)
    BY RestingPhotos
  <1>2. queue \in Queue /\ (screen # Idle => screen.seen \in Queue)
    BY DEF QueueInv, TypeOK, Screen
  <1>3. ASSUME flush' # Idle PROVE FlushShots(OpenKnown', OwedKnown', queue, flush')
    BY <1>1, <1>2, <1>3 DEF FlushShots
  <1>4. ASSUME flush' # Idle, Writing PROVE Shares(OwedKnown', screen.seen, flush'.work)
    BY <1>1, <1>2, <1>4 DEF Writing
  <1> QED BY <1>1, <1>3, <1>4, NextPhotos DEF Writing

\* What a request of the flush may do to the server's photos.
LEMMA SentShot ==
    ASSUME QueueInv, flush # Idle, NEW s \in Unsettled, Serve(Request(s)) \/ UNCHANGED serverVars
    PROVE  \/ pod' = pod
           \/ /\ pod' = [pod EXCEPT ![s] = flush.work[s].photo]
              /\ flush.work[s].photo # 0
  <1>1. CASE UNCHANGED serverVars
    BY <1>1 DEF serverVars
  <1>2. CASE Serve(Request(s))
    <2>1. Request(s).stop = s /\ Request(s).tap = NextTap(flush.work[s])
      BY RequestIsTyped
    <2>2. CASE Request(s).tap = "photo"
      <3>1. Request(s).shot = flush.work[s].photo /\ flush.work[s].photo # 0
        BY <2>1, <2>2 DEF Request, NextTap
      <3> QED BY <1>2, <2>1, <3>1 DEF Serve, serverVars
    <2>3. CASE Request(s).tap # "photo"
      BY <1>2, <2>3 DEF Serve, serverVars
    <2> QED BY <2>2, <2>3
  <1> QED BY <1>1, <1>2

\* The flush may put a photo below a newer one, which was owed meanwhile.
LEMMA SendKeepsPhotos ==
    ASSUME QueueInv, PhotoInv, ServerGrows, NEW s \in Stops,
           FlushUnanswered(s) \/ FlushCommitted(s) \/ FlushOrphaned(s) \/ FlushRefused(s)
    PROVE  PhotoInv'
  <1> DEFINE old == flush.work[s]
  <1>1. /\ flush # Idle /\ s \in Unsettled /\ UNCHANGED <<queue, parked, screen, clock, saved>>
        /\ Serve(Request(s)) \/ UNCHANGED serverVars
        /\ Known' = Known
    BY DEF FlushUnanswered, FlushCommitted, FlushOrphaned, FlushRefused, FlushSend, FlushStep, Current,
           ghosts, Known
  <1>2. /\ flush \in Flush /\ flush.work \in Queue /\ flush.outcome \in [Stops -> Outcomes]
        /\ old \in Item /\ flush.outcome[s] = "none" /\ flush.pc = "send" /\ Worth(old)
    BY <1>1, FlushFields DEF Unsettled, FlushUnanswered, FlushCommitted, FlushOrphaned, FlushRefused, FlushSend
  <1>3. /\ Spent(flush.work) /\ SyncedSent(flush.work, flush.outcome)
        /\ old # NoItem /\ old.photo \in Nat /\ old.queuedAt \in Instant
        /\ old.photoUploaded => old.photo = 0
    <2>1. Spent(flush.work) /\ SyncedSent(flush.work, flush.outcome)
      BY <1>1 DEF PhotoInv, FlushShots
    <2>2. old # NoItem /\ old.photo \in Nat /\ old.queuedAt \in Instant
      BY <1>2, NoItemAssumption, BudgetAssumption DEF Item, Instant
    <2> QED BY <2>1, <2>2 DEF Spent
  <1>4. pod' = pod \/ (pod' = [pod EXCEPT ![s] = old.photo] /\ old.photo # 0)
    BY <1>1, SentShot
  <1>5. ASSUME NEW i \in OpenShots, pod'[i.stop] < i.shot PROVE i \in OwedShots
    <2>1. i.stop \in Stops /\ pod \in [Stops -> Instant]
      BY ShotFacts DEF QueueInv, TypeOK
    <2>2. CASE pod'[i.stop] = pod[i.stop]
      BY <1>5, <2>2 DEF OwedShots
    <2>3. CASE i.stop = s /\ pod'[i.stop] = old.photo /\ old.photo # 0
      <3>1. 0 < old.photo /\ old.photo < i.shot /\ ShotOf(flush.work, i.stop) = old.photo
        BY <1>3, <1>5, <2>3 DEF ShotOf
      <3> QED BY <1>1, <3>1 DEF OwedShots, Threatened
    <2> QED BY <1>4, <2>1, <2>2, <2>3
  \* Whatever a step makes of the item in hand, its photo leaves it only when
  \* the server has it.
  <1>6. ASSUME NEW item \in Item, NEW result \in Outcomes,
               flush' # Idle, flush'.pc \notin {"write", "erase"},
               flush'.work = [flush.work EXCEPT ![s] = item],
               flush'.outcome = [flush.outcome EXCEPT ![s] = result],
               item.queuedAt = old.queuedAt,
               item.photo = old.photo \/ (item.photo = 0 /\ (trip' = "locked" \/ pod'[s] = old.photo)),
               item.photoUploaded => item.photo = 0,
               result = "synced" => item.photo = 0
        PROVE  PhotoInv'
    <2>1. item # NoItem
      BY NoItemAssumption
    <2>2. /\ \A u \in Stops : flush'.work[u] = IF u = s THEN item ELSE flush.work[u]
          /\ \A u \in Stops : flush'.outcome[u] = IF u = s THEN result ELSE flush.outcome[u]
      BY <1>2, <1>6 DEF Queue
    <2> HIDE DEF old
    <2>3. \A u \in Stops : ShotOf(flush'.work, u) = IF u = s THEN item.photo ELSE ShotOf(flush.work, u)
      BY <2>1, <2>2 DEF ShotOf
    <2>4. ShotOf(flush.work, s) = old.photo
      BY <1>3 DEF ShotOf, old
    <2>5. ASSUME NEW i \in OpenShots, flush' # Idle, 0 < ShotOf(flush'.work, i.stop),
                 ShotOf(flush'.work, i.stop) < i.shot
          PROVE  i \in OwedShots
      <3>1. i.stop \in Stops
        BY ShotFacts
      <3>2. ShotOf(flush'.work, i.stop) = ShotOf(flush.work, i.stop)
        <4>1. CASE i.stop = s
          <5>1. ShotOf(flush'.work, i.stop) = item.photo
            BY <2>3, <3>1, <4>1
          <5>2. item.photo # 0
            BY <2>5, <5>1
          <5> QED BY <1>6, <2>4, <4>1, <5>1, <5>2
        <4>2. CASE i.stop # s
          BY <2>3, <3>1, <4>2
        <4> QED BY <4>1, <4>2
      <3> QED BY <1>1, <2>5, <3>2 DEF OwedShots, Threatened
    <2>6. OpenShots' \subseteq OpenShots /\ OwedShots' \subseteq OwedShots
      BY <1>1, <1>5, <2>5, ShotsShrink
    <2>7. ASSUME NEW q \in Queue, Shares(OwedKnown', q, flush.work)
          PROVE  Shares(OwedKnown', q, flush'.work)
      <3> SUFFICES ASSUME NEW i \in OwedKnown', SameItem(q[i.stop], flush'.work[i.stop])
                   PROVE  i.shot <= ShotOf(flush'.work, i.stop)
        BY DEF Shares
      <3>1. i \in OpenShots /\ i \in OpenShots' /\ (pod'[i.stop] < i.shot \/ Threatened(i)')
        BY <2>6 DEF OwedShots, OwedKnown
      <3>2. i.stop \in Stops /\ i.shot \in Nat /\ 0 < i.shot /\ trip' # "locked"
        BY <3>1, ShotFacts DEF OpenShots
      <3>3. CASE i.stop # s
        BY <2>2, <2>3, <2>7, <3>2, <3>3 DEF Shares
      <3>4. CASE i.stop = s
        <4>1. SameItem(q[s], flush.work[s])
          BY <1>3, <1>6, <2>2, <3>4 DEF SameItem, old
        <4>2. i.shot <= old.photo
          BY <2>4, <2>7, <3>4, <4>1 DEF Shares
        <4>3. ASSUME item.photo # old.photo PROVE FALSE
          <5>1. item.photo = 0 /\ pod'[s] = old.photo
            BY <1>6, <3>2, <4>3
          <5>2. ~ Threatened(i)'
            <6>1. ShotOf(flush'.work, i.stop) = 0
              BY <2>3, <3>2, <3>4, <5>1
            <6> QED BY <6>1 DEF Threatened, ShotOf
          <5>3. old.photo < i.shot
            BY <3>1, <3>4, <5>1, <5>2
          <5> QED BY <1>3, <3>2, <4>2, <5>3 DEF old
        <4> QED BY <2>3, <3>2, <3>4, <4>2, <4>3
      <3> QED BY <3>3, <3>4
    <2>8. Spent(flush'.work)
      BY <1>3, <1>6, <2>2 DEF Spent
    <2>9. SyncedSent(flush'.work, flush'.outcome)
      BY <1>3, <1>6, <2>2, <2>3 DEF SyncedSent
    <2> QED BY <1>1, <1>6, <2>6, <2>7, <2>8, <2>9, FlushStepKeepsPhotos
  <1>7. ASSUME NEW result \in Outcomes, result # "synced", flush' = Settle(s, result)
        PROVE  PhotoInv'
    <2>1. /\ flush' \in Flush /\ flush'.work = flush.work
          /\ flush'.outcome = [flush.outcome EXCEPT ![s] = result] /\ flush'.pc = "reread"
      BY <1>1, <1>7, SettleKeepsQueue
    <2>2. flush.work = [flush.work EXCEPT ![s] = old]
      BY <1>2 DEF Queue
    <2>3. flush' # Idle
      BY <2>1, IdleIsNone
    <2> HIDE DEF old
    <2> QED BY <1>2, <1>3, <1>6, <1>7, <2>1, <2>2, <2>3
  <1>8. CASE FlushUnanswered(s) \/ FlushOrphaned(s)
    <2>1. flush' = Settle(s, "kept") \/ flush' = Settle(s, "orphaned")
      BY <1>8 DEF FlushUnanswered, FlushOrphaned
    <2> QED BY <1>7, <2>1 DEF Outcomes
  <1>9. CASE FlushCommitted(s)
    <2> DEFINE r == Request(s)
               item == Progressed(old, r.tap)
               done == r.tap = "delivered" \/ NextTap(item) = "none"
               result == IF done THEN "synced" ELSE flush.outcome[s]
    <2>1. /\ item \in Item /\ item.queuedAt = old.queuedAt
          /\ item.photo = IF r.tap = "photo" THEN 0 ELSE old.photo
          /\ item.photoUploaded => item.photo = 0
      <3>1. item \in Item /\ item.queuedAt = old.queuedAt
        BY <1>2, ProgressedItem
      <3>2. /\ item.photo = IF r.tap = "photo" THEN 0 ELSE old.photo
            /\ item.photoUploaded = (old.photoUploaded \/ r.tap = "photo")
        BY <1>2 DEF Progressed, Item
      <3> QED BY <1>3, <3>1, <3>2
    <2>2. r.stop = s /\ r.tap = NextTap(old) /\ r.tap \in Taps
      <3>1. NextTap(old) # "none"
        BY <1>2 DEF Worth
      <3> QED BY <1>1, <3>1, RequestIsTyped DEF NextTap, Taps
    <2>3. r.tap = "photo" => trip' = "locked" \/ pod'[s] = old.photo
      <3> SUFFICES ASSUME r.tap = "photo" PROVE trip' = "locked" \/ pod'[s] = old.photo
        OBVIOUS
      <3>1. Code("photo", s) = PodCode(s) /\ AlreadyCodes("photo") = {"POD_LOCKED"}
        BY DEF Code, AlreadyCodes
      <3>2. PodCode(s) \in {"OK", "POD_LOCKED"} /\ Serve(r)
        BY <1>9, <3>1 DEF FlushCommitted
      <3>3. CASE PodCode(s) = "OK"
        <4>1. r.shot = old.photo
          BY DEF Request
        <4>2. pod' = [pod EXCEPT ![s] = old.photo]
          BY <2>2, <3>1, <3>2, <3>3, <4>1 DEF Serve
        <4> QED BY <4>2 DEF QueueInv, TypeOK
      <3>4. CASE PodCode(s) = "POD_LOCKED"
        <4>1. trip = "locked"
          BY <3>4 DEF PodCode
        <4> QED BY <4>1 DEF ServerGrows
      <3> QED BY <3>2, <3>3, <3>4
    <2>4. done => item.photo = 0
      <3>1. CASE r.tap = "delivered"
        <4>1. old.photo = 0 \/ old.photoUploaded
          BY <2>2, <3>1 DEF NextTap
        <4> QED BY <1>3, <2>1, <3>1, <4>1
      <3>2. CASE NextTap(item) = "none"
        <4> HIDE DEF item
        <4>1. item.photo = 0 \/ item.photoUploaded
          BY <3>2 DEF NextTap
        <4> QED BY <2>1, <4>1
      <3> QED BY <3>1, <3>2
    <2>5. flush' = [flush EXCEPT !.work[s] = item, !.outcome[s] = IF done THEN "synced" ELSE @,
                                 !.pc = IF done THEN "reread" ELSE @]
      BY <1>9 DEF FlushCommitted
    <2> HIDE DEF item, done, r
    <2>6. /\ flush' \in Flush /\ flush'.work = [flush.work EXCEPT ![s] = item]
          /\ flush'.outcome = [flush.outcome EXCEPT ![s] = result]
          /\ flush'.pc \notin {"write", "erase"}
      BY <1>2, <2>1, <2>5 DEF Flush, Queue, Outcomes
    <2>7. flush' # Idle /\ result \in Outcomes /\ (result = "synced" => done)
      BY <1>2, <2>6, IdleIsNone DEF Outcomes
    <2> HIDE DEF result, old
    <2> QED BY <1>6, <2>1, <2>3, <2>4, <2>6, <2>7
  <1>10. CASE FlushRefused(s)
    <2> DEFINE failures == old.apiFailures + 1
               result == IF failures >= MaxApiFailures THEN "dropped" ELSE "kept"
               item == [old EXCEPT !.apiFailures = failures]
               settled == Settle(s, result)
    <2>1. flush' = Settle(s, "kept") \/ flush' = [settled EXCEPT !.work[s].apiFailures = failures]
      BY <1>10 DEF FlushRefused
    <2>2. CASE flush' = [settled EXCEPT !.work[s].apiFailures = failures]
      <3>1. failures \in 0 .. MaxApiFailures
        <4>1. Worth(old) /\ old \in Item
          BY <1>2
        <4> HIDE DEF old
        <4> QED BY <4>1, BudgetAssumption DEF Worth, Item
      <3>2. /\ settled \in Flush /\ settled.work = flush.work
            /\ settled.outcome = [flush.outcome EXCEPT ![s] = result] /\ settled.pc = "reread"
        BY <1>1, SettleKeepsQueue DEF Outcomes
      <3>3. flush' = [settled EXCEPT !.work = [flush.work EXCEPT ![s] = item]]
        BY <1>2, <2>2, <3>2 DEF Flush, Queue
      <3>4. /\ item \in Item /\ item.queuedAt = old.queuedAt /\ item.photo = old.photo
            /\ item.photoUploaded = old.photoUploaded
        <4>1. old \in Item
          BY <1>2
        <4> HIDE DEF old, failures
        <4> QED BY <3>1, <4>1 DEF Item
      <3>5. result \in Outcomes /\ result # "synced"
        BY DEF Outcomes
      <3> HIDE DEF settled, result, item
      <3>6. /\ flush' \in Flush /\ flush'.work = [flush.work EXCEPT ![s] = item]
            /\ flush'.outcome = [flush.outcome EXCEPT ![s] = result]
            /\ flush'.pc \notin {"write", "erase"}
        BY <1>2, <3>2, <3>3, <3>4 DEF Flush, Queue
      <3>7. flush' # Idle
        BY <3>6, IdleIsNone
      <3> HIDE DEF old
      <3> QED BY <1>3, <1>6, <3>4, <3>5, <3>6, <3>7
    <2> QED BY <1>7, <2>1, <2>2 DEF Outcomes
  <1> QED BY <1>8, <1>9, <1>10

\* A checkpoint without a write leaves what is owed in the queue.
LEMMA CheckpointEndKeepsPhotos ==
    ASSUME QueueInv, PhotoInv, CheckpointSkipped \/ CheckpointRefused \/ CheckpointFails
    PROVE  PhotoInv'
  <1>1. /\ flush # Idle /\ UNCHANGED <<queue, parked, screen, clock, saved, trip, pod>>
        /\ flush' = NextItem \/ flush' = Idle
        /\ flush' # Idle => Known' \subseteq Known
    BY DEF CheckpointSkipped, CheckpointRefused, CheckpointFails, FlushStep, StillMissed, Known,
           serverVars
  <1>2. ASSUME flush' # Idle
        PROVE  flush'.pc \notin {"write", "erase"} /\ flush'.work = flush.work /\ flush'.outcome = flush.outcome
    BY <1>1, <1>2, NextItemIs
  <1>3. OpenShots' \subseteq OpenShots /\ OwedShots' \subseteq OwedShots
    <2>1. flush' = Idle \/ (flush'.work = flush.work /\ flush # Idle)
      BY <1>1, <1>2
    <2> QED BY <1>1, <2>1, ShotsRest
  <1>4. Spent(flush.work) /\ SyncedSent(flush.work, flush.outcome)
    BY <1>1 DEF PhotoInv, FlushShots
  <1> QED BY <1>1, <1>2, <1>3, <1>4, FlushStepKeepsPhotos

\* The guard's look leaves the flush with what it has.
LEMMA CheckpointErasesKeepsPhotos ==
    ASSUME QueueInv, PhotoInv, CheckpointErases
    PROVE  PhotoInv'
  <1>1. /\ flush # Idle /\ flush.pc = "write" /\ UNCHANGED <<queue, parked, screen, clock, saved, trip, pod>>
        /\ Known' = Known /\ flush' = [flush EXCEPT !.pc = "erase"]
    BY DEF CheckpointErases, FlushStep, serverVars, ghosts, Known
  <1>2. flush'.work = flush.work /\ flush'.outcome = flush.outcome /\ flush'.seen = flush.seen
    BY <1>1, FlushFields DEF Flush
  <1>3. OpenShots' \subseteq OpenShots /\ OwedShots' \subseteq OwedShots
    BY <1>1, <1>2, ShotsRest
  <1>4. /\ ShotsTaken' /\ NewestTap'
        /\ Copy(OpenShots', OwedShots', queue)
        /\ Writing => Copy(OpenShots', OwedShots', screen.seen)
        /\ FlushShots(OpenKnown', OwedKnown', queue, flush)
        /\ Writing => Shares(OwedKnown', screen.seen, flush.work)
    BY <1>1, <1>3, RestingPhotos
  <1>5. FlushShots(OpenKnown', OwedKnown', queue, flush')
    BY <1>1, <1>2, <1>4 DEF FlushShots
  <1> QED BY <1>1, <1>2, <1>4, <1>5, NextPhotos DEF Writing

\* The orphaned are in the quarantine, or given up, before the write.
LEMMA CheckpointReadKeepsPhotos ==
    ASSUME QueueInv, PhotoInv, CheckpointRead
    PROVE  PhotoInv'
  <1> DEFINE work == flush.work
             outcome == flush.outcome
             orphans == UNION {IntentsOf(s, work[s]) : s \in Settled({"orphaned"})}
  <1>1. /\ flush # Idle /\ flush \in Flush /\ UNCHANGED <<queue, screen, clock, trip, pod>>
        /\ flush' = [flush EXCEPT !.pc = "write", !.seen = queue]
        /\ work \in Queue
    BY FlushFields DEF CheckpointRead, FlushStep, serverVars
  <1>2. \/ parked' = parked \cup orphans /\ saved' = saved
        \/ saved' = saved \ orphans /\ parked' = parked
    BY DEF CheckpointRead
  <1>3. flush'.work = work /\ flush'.outcome = outcome /\ flush'.seen = queue
    BY <1>1 DEF Flush
  <1>4. parked \subseteq parked' /\ saved' \subseteq saved /\ Known' \subseteq Known
    BY <1>2 DEF CheckpointRead, Known
  <1>5. OpenShots' \subseteq OpenShots
    BY <1>1, <1>4 DEF OpenShots
  <1>6. OwedShots' \subseteq OwedShots
    <2> SUFFICES ASSUME NEW i \in OwedShots' PROVE i \in OwedShots
      OBVIOUS
    <2>1. i \in OpenShots' /\ (pod[i.stop] < i.shot \/ Threatened(i)')
      BY <1>1 DEF OwedShots
    <2>2. Threatened(i)' => Threatened(i)
      BY <1>1, <1>3 DEF Threatened, ShotOf
    <2> QED BY <1>5, <2>1, <2>2 DEF OwedShots
  <1>7. /\ ShotsTaken' /\ NewestTap'
        /\ Copy(OpenShots', OwedShots', queue)
        /\ Writing => Copy(OpenShots', OwedShots', screen.seen)
        /\ FlushShots(OpenKnown', OwedKnown', queue, flush)
        /\ Writing => Shares(OwedKnown', screen.seen, work)
    BY <1>1, <1>4, <1>5, <1>6, RestingPhotos
  <1>8. Cleared(OwedKnown', work, outcome)
    <2> SUFFICES ASSUME NEW i \in OwedKnown', outcome[i.stop] = "orphaned"
                 PROVE  ShotOf(work, i.stop) < i.shot
      BY DEF Cleared
    <2>1. /\ i \in Intent /\ i.tap = "photo" /\ i.stop \in Stops /\ i.shot \in Nat /\ 0 < i.shot
          /\ i \in saved' /\ i \notin parked'
      <3>1. i \in OpenShots' /\ i \in OpenShots
        BY <1>5 DEF OwedShots, OwedKnown
      <3> QED BY <3>1, ShotFacts DEF OpenShots
    <2>2. ShotOf(work, i.stop) \in Nat
      BY <1>1, <2>1, ShotOfTyped
    <2>3. ASSUME i.shot <= ShotOf(work, i.stop) PROVE FALSE
      <3>1. i \in IntentsOf(i.stop, work[i.stop])
        BY <1>1, <2>1, <2>3, ShotIsHeld
      <3>2. i \in orphans
        BY <2>1, <3>1 DEF Settled
      <3> QED BY <1>2, <2>1, <3>2
    <2> QED BY <2>1, <2>2, <2>3
  <1>9. FlushShots(OpenKnown', OwedKnown', queue, flush')
    <2> HIDE DEF work, outcome
    <2>1. Shares(OwedKnown', queue, work) /\ Spent(work) /\ SyncedSent(work, outcome)
      BY <1>7 DEF FlushShots, work, outcome
    <2>2. Copy(OpenKnown', OwedKnown', queue)
      BY <1>7 DEF Copy, Carries, Newest, OpenKnown, OwedKnown
    <2> QED BY <1>3, <1>7, <1>8, <2>1, <2>2 DEF FlushShots
  <1> QED BY <1>1, <1>3, <1>7, <1>9, NextPhotos DEF Writing

\* What the write takes from the queue is on the server, parked, missed or given up,
\* and what it puts back is no older than a photo that counts.
LEMMA CheckpointWriteKeepsPhotos ==
    ASSUME QueueInv, PhotoInv, CheckpointWrite
    PROVE  PhotoInv'
  <1> DEFINE seen == flush.seen
             work == flush.work
             outcome == flush.outcome
             lost == UNION {IntentsOf(s, seen[s]) :
                              s \in {u \in Settled({"dropped"}) : SameItem(seen[u], work[u])}}
             overwritten == {i \in missed : i \notin IntentsOf(i.stop, queue'[i.stop])}
  <1>1. /\ flush # Idle /\ flush.pc \in {"write", "erase"} /\ UNCHANGED <<parked, screen, clock, trip, pod>>
        /\ flush' = NextItem /\ queue' = Reconcile(seen, work, outcome)
        /\ saved' = saved \ (lost \cup overwritten)
        /\ flush' # Idle => Known' \subseteq Known
    BY DEF CheckpointWrite, Checkpoint, WritesAt, StillMissed, FlushStep, Known, serverVars
  <1>2. seen \in Queue /\ work \in Queue /\ outcome \in [Stops -> Outcomes]
    BY <1>1, FlushFields
  <1>3. flush' # Idle => /\ flush'.pc = "send" /\ flush'.work = work /\ flush'.outcome = outcome
    BY <1>1, NextItemIs
  <1>4. saved' \subseteq saved
    BY <1>1
  <1>5. OpenShots' \subseteq OpenShots /\ OwedShots' \subseteq OwedShots
    <2>1. flush' = Idle \/ (flush'.work = flush.work /\ flush # Idle)
      BY <1>1, <1>3
    <2> QED BY <1>1, <1>4, <2>1, ShotsRest
  <1>6. /\ ShotsTaken' /\ NewestTap'
        /\ Writing => Copy(OpenShots', OwedShots', screen.seen)
        /\ flush' # Idle => /\ FlushShots(OpenKnown', OwedKnown', queue, flush)
                            /\ Writing => Shares(OwedKnown', screen.seen, work)
    BY <1>1, <1>4, <1>5, RestingPhotos
  <1>7. /\ Copy(OpenKnown, OwedKnown, seen) /\ Shares(OwedKnown, seen, work)
        /\ Cleared(OwedKnown, work, outcome) /\ Spent(work) /\ SyncedSent(work, outcome)
    BY <1>1 DEF PhotoInv, FlushShots
  \* What the flush missed is in the queue it writes, or saved no more.
  <1>late. ASSUME NEW i \in OpenShots', i \in missed
           PROVE  i.shot <= ShotOf(queue', i.stop)
    <2>1. i \in IntentsOf(i.stop, queue'[i.stop]) /\ i.tap = "photo"
      BY <1>1, <1>late DEF OpenShots
    <2> QED BY <2>1 DEF IntentsOf, ShotOf
  <1>8. ASSUME NEW s \in Stops, outcome[s] = "dropped", SameItem(seen[s], work[s])
        PROVE  saved' \cap IntentsOf(s, seen[s]) = {}
    BY <1>1, <1>8 DEF Settled
  \* What the flush had in hand is no older than a photo that counts: it would
  \* be owed, and so in hand.
  <1>9. ASSUME NEW i \in OpenShots', i \notin missed, SameItem(seen[i.stop], work[i.stop]), ShotOf(work, i.stop) # 0
        PROVE  i.shot <= ShotOf(work, i.stop)
    <2>1. i \in OpenShots /\ i.stop \in Stops /\ i.shot \in Nat
      BY <1>5, ShotFacts
    <2>2. ShotOf(work, i.stop) \in Nat
      BY <1>2, <2>1, ShotOfTyped
    <2>3. ASSUME ShotOf(work, i.stop) < i.shot PROVE i \in OwedKnown
      BY <1>1, <1>9, <2>1, <2>2, <2>3 DEF OwedShots, OwedKnown, Threatened
    <2> QED BY <1>7, <1>9, <2>1, <2>2, <2>3 DEF Shares
  <1>10. ASSUME NEW i \in OwedShots', i \notin missed
         PROVE  /\ i \in OwedKnown
                /\ i \in OpenShots' /\ i \in saved' /\ i \in Intent /\ i.tap = "photo" /\ i.stop \in Stops
                /\ i.shot \in Nat /\ 0 < i.shot /\ i.shot <= ShotOf(seen, i.stop)
    <2>1. i \in OpenShots' /\ i \in OpenShots /\ i \in OwedKnown
      BY <1>5, <1>10 DEF OwedShots, OwedKnown
    <2> QED BY <1>7, <2>1, ShotFacts DEF OpenShots, Copy, Carries
  <1> HIDE DEF seen, work, outcome, lost, overwritten
  <1> DEFINE next == Reconcile(seen, work, outcome)
  <1>11. ASSUME NEW s \in Stops
         PROVE \/ queue'[s] = seen[s]
               \/ /\ queue'[s] # NoItem /\ queue'[s].photo = work[s].photo
                  /\ queue'[s].photoUploaded = work[s].photoUploaded
                  /\ SameItem(seen[s], work[s]) /\ work[s] # NoItem
               \/ /\ queue'[s] = NoItem
                  /\ SameItem(seen[s], work[s]) /\ outcome[s] \in {"synced", "dropped", "orphaned"}
    <2>1. \/ next[s] = seen[s] /\ (~ SameItem(seen[s], work[s]) \/ outcome[s] = "none")
          \/ /\ next[s] = InTurn(work[s], seen[s].turn)
             /\ SameItem(seen[s], work[s]) /\ outcome[s] = "kept"
             /\ seen[s] \in Item /\ work[s] \in Item
          \/ /\ next[s] = NoItem
             /\ SameItem(seen[s], work[s]) /\ outcome[s] \in {"synced", "dropped", "orphaned"}
      BY <1>2, ReconciledQueue
    <2>2. queue' = next
      BY <1>1
    <2> HIDE DEF next
    <2>3. CASE /\ next[s] = InTurn(work[s], seen[s].turn) /\ SameItem(seen[s], work[s])
               /\ seen[s] \in Item /\ work[s] \in Item
      <3>1. seen[s].turn \in Instant
        BY <2>3 DEF Item
      <3>2. /\ InTurn(work[s], seen[s].turn) # NoItem
            /\ InTurn(work[s], seen[s].turn).photo = work[s].photo
            /\ InTurn(work[s], seen[s].turn).photoUploaded = work[s].photoUploaded
        <4>1. InTurn(work[s], seen[s].turn) \in Item
          BY <2>3, <3>1, InTurnItem
        <4> QED BY <2>3, <4>1, NoItemAssumption DEF InTurn, Item
      <3> QED BY <2>2, <2>3, <3>2 DEF SameItem
    <2> QED BY <2>1, <2>2, <2>3
  <1>12. ASSUME NEW i \in OwedShots', i \notin missed PROVE i.shot <= ShotOf(queue', i.stop)
    <2>1. /\ i.stop \in Stops /\ i.shot \in Nat /\ 0 < i.shot /\ i.shot <= ShotOf(seen, i.stop)
          /\ i \in saved' /\ i \in Intent /\ i.tap = "photo" /\ i \in OwedKnown
      BY <1>10, <1>12
    <2>2. SameItem(seen[i.stop], work[i.stop]) => i.shot <= ShotOf(work, i.stop)
      BY <1>7, <2>1 DEF Shares
    <2>3. CASE queue'[i.stop] = seen[i.stop]
      BY <2>1, <2>3 DEF ShotOf
    <2>4. CASE /\ queue'[i.stop] # NoItem /\ queue'[i.stop].photo = work[i.stop].photo
               /\ SameItem(seen[i.stop], work[i.stop]) /\ work[i.stop] # NoItem
      BY <2>2, <2>4 DEF ShotOf
    \* A removed item's photos are sent, given up, or in the quarantine.
    <2>5. CASE /\ SameItem(seen[i.stop], work[i.stop])
               /\ outcome[i.stop] \in {"synced", "dropped", "orphaned"}
      <3>1. ShotOf(work, i.stop) \in Nat
        BY <1>2, <2>1, ShotOfTyped
      <3>2. CASE outcome[i.stop] = "synced"
        BY <1>7, <2>1, <2>2, <2>5, <3>2 DEF SyncedSent
      <3>3. CASE outcome[i.stop] = "dropped"
        <4>1. i \in IntentsOf(i.stop, seen[i.stop])
          BY <1>2, <2>1, ShotIsHeld
        <4> QED BY <1>8, <2>1, <2>5, <3>3, <4>1
      <3>4. CASE outcome[i.stop] = "orphaned"
        BY <1>7, <2>1, <2>2, <2>5, <3>1, <3>4 DEF Cleared
      <3> QED BY <2>5, <3>2, <3>3, <3>4
    <2> QED BY <1>11, <2>1, <2>3, <2>4, <2>5
  <1>13. ASSUME NEW i \in OpenShots', i \notin missed, ShotOf(queue', i.stop) # 0
         PROVE  i.shot <= ShotOf(queue', i.stop)
    <2>1. i.stop \in Stops /\ i \in OpenKnown
      BY <1>5, <1>13, ShotFacts DEF OpenKnown
    <2>2. CASE queue'[i.stop] = seen[i.stop]
      BY <1>7, <1>13, <2>1, <2>2 DEF Copy, Newest, ShotOf
    <2>3. CASE /\ queue'[i.stop] # NoItem /\ queue'[i.stop].photo = work[i.stop].photo
               /\ SameItem(seen[i.stop], work[i.stop]) /\ work[i.stop] # NoItem
      <3>1. ShotOf(queue', i.stop) = ShotOf(work, i.stop)
        BY <2>3 DEF ShotOf
      <3> QED BY <1>9, <1>13, <2>3, <3>1
    <2>4. CASE queue'[i.stop] = NoItem
      BY <1>13, <2>4 DEF ShotOf
    <2> QED BY <1>11, <2>1, <2>2, <2>3, <2>4
  <1>14. ASSUME NEW s \in Stops, queue'[s] # NoItem, queue'[s].photoUploaded PROVE queue'[s].photo = 0
    BY <1>7, <1>11, <1>14 DEF Copy, Spent
  <1>15. Copy(OpenShots', OwedShots', queue')
    <2>1. OwedShots' \subseteq OpenShots'
      BY DEF OwedShots
    <2> QED BY <1>late, <1>12, <1>13, <1>14, <2>1 DEF Copy, Carries, Newest, Spent
  <1>16. ASSUME flush' # Idle PROVE Shares(OwedKnown', queue', work)
    <2> SUFFICES ASSUME NEW i \in OwedKnown', SameItem(queue'[i.stop], work[i.stop])
                 PROVE  i.shot <= ShotOf(work, i.stop)
      BY DEF Shares
    <2>1. i \in OwedKnown /\ i.stop \in Stops
      BY <1>1, <1>5, <1>10, <1>16, KnownShots DEF OwedKnown
    <2>2. SameItem(seen[i.stop], work[i.stop])
      BY <1>11, <2>1
    <2> QED BY <1>7, <2>1, <2>2 DEF Shares
  <1>17. ASSUME flush' # Idle PROVE FlushShots(OpenKnown', OwedKnown', queue', flush')
    BY <1>3, <1>7, <1>16, <1>17 DEF FlushShots
  <1> QED BY <1>1, <1>3, <1>6, <1>15, <1>17, NextPhotos DEF Writing

\* A kill leaves the storage; the office touches no photo.
LEMMA SurroundingsKeepPhotos ==
    ASSUME QueueInv, PhotoInv, ServerGrows,
           AppKilled \/ ReportOpens \/ ReportUnblocks \/ TripEnds \/ UNCHANGED vars
    PROVE  PhotoInv'
  <1>1. UNCHANGED <<queue, parked, clock, saved, pod>>
        /\ (screen' = screen \/ screen' = Idle) /\ (flush' = Idle \/ (flush' = flush /\ Known' = Known))
    BY DEF AppKilled, ReportOpens, ReportUnblocks, TripEnds, OfficeStep, phoneVars, serverVars,
           ghosts, vars, Known
  <1>2. OpenShots' \subseteq OpenShots
    BY <1>1 DEF OpenShots, ServerGrows
  <1>3. OwedShots' \subseteq OwedShots
    BY <1>1, <1>2 DEF OwedShots, Threatened
  <1> QED BY <1>1, <1>2, <1>3, RestingPhotos, NextPhotos DEF Writing

\* Every step keeps the owed photos in every copy of the queue.
LEMMA StepKeepsPhotos ==
    ASSUME QueueInv, PhotoInv, [Next]_vars
    PROVE  PhotoInv'
  <1>1. ServerGrows
    BY StepKeepsQueue
  <1>2. CASE \E i \in Intent : TapAnswered(i) \/ TapUnanswered(i)
    BY <1>1, <1>2, TapKeepsPhotos
  <1>3. CASE ScreenRead \/ ScreenEnqueue \/ ScreenErases \/ ScreenTidy \/ ScreenFails
    BY <1>3, ScreenReadKeepsPhotos, EnqueueKeepsPhotos, TidyKeepsPhotos
  <1>4. CASE \E consumeBudget \in BOOLEAN : FlushStart(consumeBudget)
    BY <1>4, StartKeepsPhotos
  <1>5. CASE \E s \in Stops : FlushUnanswered(s) \/ FlushCommitted(s) \/ FlushOrphaned(s) \/ FlushRefused(s)
    BY <1>1, <1>5, SendKeepsPhotos
  <1>6. CASE CheckpointRead
    BY <1>6, CheckpointReadKeepsPhotos
  <1>7. CASE CheckpointWrite
    BY <1>7, CheckpointWriteKeepsPhotos
  <1>8. CASE CheckpointSkipped \/ CheckpointRefused \/ CheckpointFails
    BY <1>8, CheckpointEndKeepsPhotos
  <1>9. CASE CheckpointErases
    BY <1>9, CheckpointErasesKeepsPhotos
  <1>10. CASE AppKilled \/ ReportOpens \/ ReportUnblocks \/ TripEnds \/ UNCHANGED vars
    BY <1>1, <1>10, SurroundingsKeepPhotos
  <1> QED BY <1>2, <1>3, <1>4, <1>5, <1>6, <1>7, <1>8, <1>9, <1>10
         DEF Next, FlushGoesOn, FlushAnswered, PhoneFails

\* For any stops, taps, budgets and faults of phone and network, a delivery photo
\* the driver was told is saved is stored until the server has it or a newer one;
\* and while a flush has an older shot of the stop in hand, which it may yet put
\* over it, the photo stays stored (enqueuePodItem, noteDirectPodUpload,
\* flushPodOutbox).  Lost it is in one way only: a checkpoint writes over it that
\* had re-read the queue before it was stored, or had its item in hand by then.
THEOREM PhotosSurvive == Spec => []NoPhotoVanishes
  <1>1. QueueInv /\ PhotoInv /\ [Next]_vars => PhotoInv'
    BY StepKeepsPhotos
  <1>2. QueueInv /\ PhotoInv => NoPhotoVanishes
    <2> SUFFICES ASSUME QueueInv, PhotoInv, NEW i \in saved, i.tap = "photo",
                        i \notin parked, trip # "locked", ~ Recorded(i)
                 PROVE  Stored(i)
      BY DEF NoPhotoVanishes, Accounted
    <2>1. i \in OpenShots
      BY DEF OpenShots
    <2>2. pod[i.stop] < i.shot
      BY <2>1, ShotFacts DEF Recorded
    <2>3. i.shot <= ShotOf(queue, i.stop) /\ queue \in Queue
      BY <2>1, <2>2 DEF OwedShots, PhotoInv, Copy, Carries, QueueInv, TypeOK
    <2> QED BY <2>1, <2>3, ShotFacts, ShotIsHeld DEF Stored
  <1> QED BY <1>1, <1>2, InitKeepsPhotos, QueueInvariant, PTL DEF Spec

-----------------------------------------------------------------------------
(* The trim.                                                                *)

\* No two items are at the same turn.
InTurns(q) == \A s, u \in Queued(q) : q[s].turn = q[u].turn => s = u

\* A queue as it is before the tap of an instant: in order and no longer than allowed.
Orderly(q, now) ==
    /\ InTurns(q)
    /\ \A s \in Queued(q) : q[s].turn < now
    /\ IsFiniteSet(Queued(q)) /\ Cardinality(Queued(q)) <= MaxOutbox

\* Among some items one was the first to be tapped.
LEMMA OldestOf ==
    ASSUME NEW q \in Queue, NEW S \in SUBSET Queued(q), S # {}
    PROVE  \E s \in S : \A u \in S : q[s].turn <= q[u].turn
  <1> DEFINE turns == {q[s].turn : s \in S}
             R == OpToRel(<, Nat)
  <1>1. \A s \in S : q[s].turn \in Nat
    BY DEF Queued, Queue, Item, Instant
  <1>2. turns \subseteq Nat /\ turns # {}
    BY <1>1
  <1>3. IsWellFoundedOn(R, Nat)
    BY NatLessThanWellFounded
  <1>4. \E n \in turns : \A m \in turns : ~ (<<m, n>> \in R)
    <2> HIDE DEF R, turns
    <2> QED BY <1>2, <1>3, WFMin
  <1>5. PICK s \in S : \A u \in S : ~ (<<q[u].turn, q[s].turn>> \in R)
    BY <1>4
  <1>6. \A u \in S : ~ (q[u].turn < q[s].turn)
    BY <1>1, <1>5 DEF OpToRel
  <1> QED BY <1>1, <1>6

\* Items with turns of their own are finitely many.
LEMMA QueuedIsFinite ==
    ASSUME NEW q \in Queue, InTurns(q)
    PROVE  IsFiniteSet(Queued(q))
  <1> DEFINE turn == [s \in Queued(q) |-> q[s].turn]
  <1>1. IsFiniteSet(Instant)
    BY BudgetAssumption, FS_Interval DEF Instant
  <1>2. turn \in Injection(Queued(q), Instant)
    <2>1. \A s \in Queued(q) : q[s].turn \in Instant
      BY DEF Queued, Queue, Item
    <2> QED BY <2>1 DEF InTurns, Injection, IsInjective
  <1> HIDE DEF turn
  <1> QED BY <1>1, <1>2, FS_Injection

\* The trim goes by age: whatever is older than a trimmed item is trimmed too.
LEMMA OlderIsTrimmed ==
    ASSUME NEW q \in Queue, InTurns(q),
           NEW s \in Evicted(q), NEW u \in Queued(q), q[u].turn <= q[s].turn
    PROVE  u \in Evicted(q)
  <1> DEFINE Newer(v) == {w \in Queued(q) : q[w].turn > q[v].turn}
  <1>1. s \in Queued(q) /\ Cardinality(Newer(s)) >= MaxOutbox
    BY DEF Evicted
  <1>2. \A v \in Queued(q) : q[v].turn \in Nat
    BY DEF Queued, Queue, Item, Instant
  <1>3. Newer(s) \subseteq Newer(u)
    BY <1>1, <1>2
  <1>4. IsFiniteSet(Newer(u))
    BY QueuedIsFinite, FS_Subset
  <1>5. /\ Cardinality(Newer(s)) \in Nat /\ Cardinality(Newer(u)) \in Nat
        /\ Cardinality(Newer(s)) <= Cardinality(Newer(u))
    <2> HIDE DEF Newer
    <2> QED BY <1>3, <1>4, FS_Subset, FS_CardinalityType
  <1>6. Cardinality(Newer(u)) >= MaxOutbox
    BY <1>1, <1>5, BudgetAssumption
  <1> QED BY <1>6 DEF Evicted

\* What is left fits.
LEMMA TrimFits ==
    ASSUME NEW q \in Queue, InTurns(q)
    PROVE  /\ IsFiniteSet(Queued(q) \ Evicted(q))
           /\ Cardinality(Queued(q) \ Evicted(q)) <= MaxOutbox
  <1> DEFINE left == Queued(q) \ Evicted(q)
  <1>1. IsFiniteSet(left)
    BY QueuedIsFinite, FS_Subset
  <1>2. CASE left = {}
    BY <1>1, <1>2, FS_EmptySet, BudgetAssumption
  <1>3. CASE left # {}
    <2>1. PICK s \in left : \A u \in left : q[s].turn <= q[u].turn
      BY <1>3, OldestOf
    <2> DEFINE newer == {u \in Queued(q) : q[u].turn > q[s].turn}
    <2>2. left \ {s} \subseteq newer
      <3>1. \A u \in Queued(q) : q[u].turn \in Nat
        BY DEF Queued, Queue, Item, Instant
      <3> QED BY <2>1, <3>1 DEF InTurns
    <2>3. ~ (Cardinality(newer) >= MaxOutbox)
      BY <2>1 DEF Evicted
    <2>4. IsFiniteSet(newer)
      BY QueuedIsFinite, FS_Subset
    <2> HIDE DEF left, newer
    <2>5. Cardinality(left \ {s}) <= Cardinality(newer) /\ Cardinality(newer) \in Nat
      BY <2>2, <2>4, FS_Subset, FS_CardinalityType
    <2>6. Cardinality(left \ {s}) = Cardinality(left) - 1 /\ Cardinality(left) \in Nat
      BY <1>1, <2>1, FS_RemoveElement, FS_CardinalityType
    <2>7. Cardinality(left) <= MaxOutbox
      BY <2>3, <2>5, <2>6, BudgetAssumption
    <2> QED BY <1>1, <2>7 DEF left
  <1> QED BY <1>2, <1>3

\* A queue no longer than allowed loses nothing.
LEMMA RoomSpares ==
    ASSUME NEW q \in Queue, IsFiniteSet(Queued(q)), Cardinality(Queued(q)) <= MaxOutbox
    PROVE  Evicted(q) = {}
  <1> SUFFICES ASSUME NEW s \in Evicted(q) PROVE FALSE
    OBVIOUS
  <1> DEFINE newer == {u \in Queued(q) : q[u].turn > q[s].turn}
  <1>1. s \in Queued(q) /\ Cardinality(newer) >= MaxOutbox
    BY DEF Evicted
  <1>2. newer \subseteq Queued(q) \ {s}
    <2>1. q[s].turn \in Nat
      BY <1>1 DEF Queued, Queue, Item, Instant
    <2> QED BY <2>1
  <1> HIDE DEF newer
  <1>3. /\ IsFiniteSet(Queued(q) \ {s}) /\ Cardinality(Queued(q) \ {s}) = Cardinality(Queued(q)) - 1
        /\ Cardinality(Queued(q)) \in Nat
    BY <1>1, FS_RemoveElement, FS_CardinalityType
  <1>4. Cardinality(newer) <= Cardinality(Queued(q) \ {s}) /\ Cardinality(newer) \in Nat
    BY <1>2, <1>3, FS_Subset, FS_CardinalityType
  <1> QED BY <1>1, <1>3, <1>4, BudgetAssumption

\* A tap that is merged in goes to the end of an orderly queue, and stays.
LEMMA UpsertInTurns ==
    ASSUME NEW q \in Queue, NEW i \in Intent, NEW now \in Instant, Orderly(q, now)
    PROVE  /\ Upsert(q, i, now) \in Queue /\ InTurns(Upsert(q, i, now))
           /\ Queued(Upsert(q, i, now)) = Queued(q) \cup {i.stop}
           /\ Upsert(q, i, now)[i.stop].turn = now
           /\ \A s \in Queued(q) \ {i.stop} : Upsert(q, i, now)[s] = q[s]
           /\ i.stop \notin Evicted(Upsert(q, i, now))
  <1> DEFINE up == Upsert(q, i, now)
             old == IF q[i.stop] = NoItem THEN Fresh(now) ELSE q[i.stop]
  <1>1. i.stop \in Stops
    BY DEF Intent
  <1>2. /\ up \in Queue /\ up[i.stop] = Merged(old, i, now) /\ up[i.stop] \in Item
        /\ \A s \in Stops \ {i.stop} : up[s] = q[s]
    BY UpsertQueue
  <1>3. Merged(old, i, now).turn = now
    <2>1. old \in Item
      BY <1>1, FreshItem DEF Queue
    <2> HIDE DEF old
    <2> QED BY <2>1 DEF Merged, Item
  <1>4. up[i.stop].turn = now
    BY <1>2, <1>3
  <1> HIDE DEF up, old
  <1>5. Queued(up) = Queued(q) \cup {i.stop} /\ \A s \in Queued(q) \ {i.stop} : up[s] = q[s]
    BY <1>1, <1>2, NoItemAssumption DEF Queued
  <1>6. \A s \in Queued(q) : q[s].turn \in Nat /\ q[s].turn < now /\ now \in Nat
    BY DEF Orderly, Queued, Queue, Item, Instant
  <1>7. InTurns(up)
    BY <1>4, <1>5, <1>6 DEF Orderly, InTurns
  <1>8. i.stop \notin Evicted(up)
    <2> DEFINE newer == {u \in Queued(up) : up[u].turn > up[i.stop].turn}
    <2>1. ASSUME NEW u \in Queued(up) PROVE ~ (up[u].turn > now)
      <3>1. CASE u = i.stop
        BY <1>4, <3>1 DEF Instant
      <3>2. CASE u # i.stop
        BY <1>5, <1>6, <2>1, <3>2
      <3> QED BY <3>1, <3>2
    <2>2. newer = {}
      BY <1>4, <2>1
    <2>3. i.stop \in Evicted(up) => Cardinality(newer) >= MaxOutbox
      BY DEF Evicted
    <2> HIDE DEF newer
    <2> QED BY <2>2, <2>3, FS_EmptySet, BudgetAssumption
  <1> QED BY <1>2, <1>4, <1>5, <1>7, <1>8 DEF up

\* For any stops and any MAX_OUTBOX: a tap merged into an orderly queue stays, the
\* queue is no longer than allowed, what falls out of it is older than all that
\* stays, and nothing falls out of a queue that has room (mergeOutboxItem).
THEOREM TrimDropsTheOldest ==
    ASSUME NEW q \in Queue, NEW i \in Intent, NEW now \in Instant, Orderly(q, now)
    PROVE  LET next == MergeOutboxItem(q, i, now)
           IN /\ next[i.stop] # NoItem
              /\ Cardinality(Queued(next)) <= MaxOutbox
              /\ \A gone \in Queued(q) \ Queued(next) : \A s \in Queued(next) :
                    q[gone].turn < next[s].turn
              /\ Cardinality(Queued(q) \cup {i.stop}) <= MaxOutbox =>
                    Queued(next) = Queued(q) \cup {i.stop}
  <1> DEFINE up == Upsert(q, i, now)
             next == MergeOutboxItem(q, i, now)
  <1>1. /\ up \in Queue /\ InTurns(up) /\ Queued(up) = Queued(q) \cup {i.stop}
        /\ up[i.stop].turn = now /\ i.stop \notin Evicted(up)
        /\ \A s \in Queued(q) \ {i.stop} : up[s] = q[s]
    BY UpsertInTurns
  <1>2. next = Dequeue(up, Evicted(up))
    BY DEF MergeOutboxItem
  <1> HIDE DEF up, next
  <1>3. \A s \in Stops : next[s] = IF s \in Evicted(up) THEN NoItem ELSE up[s]
    BY <1>1, <1>2, DequeueQueue
  <1>4. Queued(next) = Queued(up) \ Evicted(up) /\ \A s \in Queued(next) : next[s] = up[s]
    BY <1>3 DEF Queued
  <1>5. next[i.stop] # NoItem
    BY <1>1, <1>4 DEF Queued
  <1>6. Cardinality(Queued(next)) <= MaxOutbox
    BY <1>1, <1>4, TrimFits
  <1>7. ASSUME NEW gone \in Queued(q) \ Queued(next), NEW s \in Queued(next)
        PROVE  q[gone].turn < next[s].turn
    <2>1. gone \in Evicted(up) /\ gone \in Queued(up) /\ gone # i.stop
      BY <1>1, <1>4, <1>7
    <2>2. s \in Queued(up) /\ s \notin Evicted(up) /\ next[s] = up[s]
      BY <1>4, <1>7
    <2>3. up[gone].turn \in Nat /\ up[s].turn \in Nat
      BY <1>1, <2>1, <2>2 DEF Queued, Queue, Item, Instant
    <2>4. ~ (up[s].turn <= up[gone].turn)
      BY <1>1, <2>1, <2>2, OlderIsTrimmed
    <2>5. up[gone] = q[gone]
      BY <1>1, <1>7, <2>1
    <2> QED BY <2>2, <2>3, <2>4, <2>5
  <1>8. ASSUME Cardinality(Queued(q) \cup {i.stop}) <= MaxOutbox
        PROVE  Queued(next) = Queued(q) \cup {i.stop}
    <2>1. IsFiniteSet(Queued(up))
      BY <1>1, QueuedIsFinite
    <2>2. Evicted(up) = {}
      BY <1>1, <1>8, <2>1, RoomSpares
    <2> QED BY <1>1, <1>4, <2>2
  <1> QED BY <1>5, <1>6, <1>7, <1>8 DEF next

-----------------------------------------------------------------------------
(* No copy of the queue outgrows MAX_OUTBOX.                                *)

\* The first instant whose tap is not in the queue yet.
Upcoming == IF screen = Idle THEN clock + 1 ELSE clock

\* The stored queue, and what the two threads have read of it, are in order.
TrimInv ==
    /\ Orderly(queue, Upcoming)
    /\ Writing => Orderly(screen.seen, Upcoming)
    /\ flush # Idle => Orderly(flush.seen, Upcoming)

\* What loses items and changes none of their turns stays in order.
LEMMA FewerIsOrderly ==
    ASSUME NEW q \in Queue, NEW r \in Queue, NEW now \in Nat, NEW later \in Nat, now <= later,
           Orderly(q, now), \A s \in Queued(r) : s \in Queued(q) /\ r[s].turn = q[s].turn
    PROVE  Orderly(r, later)
  <1>1. Queued(r) \subseteq Queued(q) /\ IsFiniteSet(Queued(q)) /\ Cardinality(Queued(q)) <= MaxOutbox
    BY DEF Orderly
  <1>2. /\ IsFiniteSet(Queued(r)) /\ Cardinality(Queued(r)) <= Cardinality(Queued(q))
        /\ Cardinality(Queued(r)) \in Nat /\ Cardinality(Queued(q)) \in Nat
    BY <1>1, FS_Subset, FS_CardinalityType
  <1>3. Cardinality(Queued(r)) <= MaxOutbox
    BY <1>1, <1>2, BudgetAssumption
  <1>4. InTurns(r)
    BY DEF Orderly, InTurns
  <1>5. ASSUME NEW s \in Queued(r) PROVE r[s].turn < later
    <2>1. r[s].turn = q[s].turn /\ q[s].turn < now /\ q[s].turn \in Nat
      BY DEF Orderly, Queued, Queue, Item, Instant
    <2> QED BY <2>1
  <1> QED BY <1>2, <1>3, <1>4, <1>5 DEF Orderly

\* Nothing is out of order in an empty queue.
LEMMA EmptyIsOrderly == \A now : Orderly(Empty, now)
  <1>1. Queued(Empty) = {}
    BY DEF Queued, Empty
  <1> QED BY <1>1, FS_EmptySet, BudgetAssumption DEF Orderly, InTurns

\* A queue that a tap was merged into and that was trimmed is in order.
LEMMA MergedIsOrderly ==
    ASSUME NEW q \in Queue, NEW i \in Intent, NEW now \in Instant, Orderly(q, now)
    PROVE  Orderly(MergeOutboxItem(q, i, now), now + 1)
  <1> DEFINE up == Upsert(q, i, now)
             next == MergeOutboxItem(q, i, now)
  <1>1. /\ up \in Queue /\ InTurns(up) /\ Queued(up) = Queued(q) \cup {i.stop}
        /\ up[i.stop].turn = now /\ \A s \in Queued(q) \ {i.stop} : up[s] = q[s]
    BY UpsertInTurns
  <1>2. next = Dequeue(up, Evicted(up))
    BY DEF MergeOutboxItem
  <1> HIDE DEF up, next
  <1>3. \A s \in Stops : next[s] = IF s \in Evicted(up) THEN NoItem ELSE up[s]
    BY <1>1, <1>2, DequeueQueue
  <1>4. Queued(next) = Queued(up) \ Evicted(up) /\ \A s \in Queued(next) : next[s] = up[s]
    BY <1>3 DEF Queued
  <1>5. IsFiniteSet(Queued(next)) /\ Cardinality(Queued(next)) <= MaxOutbox
    BY <1>1, <1>4, TrimFits
  <1>6. InTurns(next)
    BY <1>1, <1>4 DEF InTurns
  <1>7. ASSUME NEW s \in Queued(next) PROVE next[s].turn < now + 1
    <2>1. next[s] = up[s] /\ s \in Queued(q) \cup {i.stop} /\ now \in Nat
      BY <1>1, <1>4, <1>7 DEF Instant
    <2>2. CASE s = i.stop
      BY <1>1, <2>1, <2>2
    <2>3. CASE s # i.stop
      <3>1. q[s].turn < now /\ q[s].turn \in Nat /\ up[s] = q[s]
        BY <1>1, <2>1, <2>3 DEF Orderly, Queued, Queue, Item, Instant
      <3> QED BY <2>1, <3>1
    <2> QED BY <2>2, <2>3
  <1> QED BY <1>5, <1>6, <1>7 DEF Orderly, next

\* As taps come, copies that are kept, taken or dropped stay in order; the stored
\* queue is to be looked at if it is written.
LEMMA TrimRests ==
    ASSUME QueueInv, QueueInv', TrimInv, Upcoming <= Upcoming',
           (queue' = queue) \/ Orderly(queue, Upcoming)',
           Writing' => screen'.seen \in {screen.seen, queue} /\ (screen'.seen # queue => Writing),
           flush' # Idle => \/ flush'.seen \in {Empty, queue}
                            \/ flush # Idle /\ flush'.seen = flush.seen
    PROVE  TrimInv'
  <1> DEFINE now == Upcoming
             later == Upcoming'
  <1>1. now \in Nat /\ later \in Nat /\ now <= later
    <2>1. clock \in Nat /\ clock' \in Nat
      BY BudgetAssumption DEF QueueInv, TypeOK, Instant
    <2>2. Upcoming \in {clock, clock + 1}
      BY DEF Upcoming
    <2>3. Upcoming' \in {clock', clock' + 1}
      BY DEF Upcoming
    <2> QED BY <2>1, <2>2, <2>3
  <1>2. /\ queue \in Queue /\ (Writing => screen.seen \in Queue)
        /\ (flush # Idle => flush.seen \in Queue)
    BY FlushFields DEF QueueInv, TypeOK, Writing, Screen
  <1>3. /\ Orderly(queue, now) /\ (Writing => Orderly(screen.seen, now))
        /\ (flush # Idle => Orderly(flush.seen, now))
    BY DEF TrimInv
  <1> HIDE DEF now, later
  <1>4. /\ Orderly(queue, later) /\ (Writing => Orderly(screen.seen, later))
        /\ (flush # Idle => Orderly(flush.seen, later))
    BY <1>1, <1>2, <1>3, FewerIsOrderly
  <1>5. Writing' => Orderly(screen'.seen, later)
    BY <1>4
  <1>6. flush' # Idle => Orderly(flush'.seen, later)
    BY <1>4, EmptyIsOrderly
  <1>7. Orderly(queue, Upcoming)'
    BY <1>4 DEF later
  <1> QED BY <1>5, <1>6, <1>7 DEF TrimInv, later

\* The queue starts empty.
LEMMA InitIsOrderly == Init => TrimInv
  <1> SUFFICES ASSUME Init PROVE TrimInv
    OBVIOUS
  <1>1. queue = Empty /\ screen = Idle /\ flush = Idle
    BY DEF Init
  <1> QED BY <1>1, EmptyIsOrderly DEF TrimInv, Writing

\* What the screen has read, it holds until it writes.
LEMMA WritingScreen ==
    ASSUME QueueInv, TrimInv, Writing
    PROVE  /\ screen.seen \in Queue /\ screen.intent \in Intent
           /\ Orderly(screen.seen, clock) /\ Upcoming = clock /\ clock \in Instant
  BY IdleIsNone DEF QueueInv, TypeOK, Writing, Screen, TrimInv, Upcoming

\* Tidying up takes one item away or leaves it in its turn.
LEMMA TidiedTurns ==
    ASSUME QueueInv, Writing, screen.op # "enqueue", NEW i, i = screen.intent
    PROVE  /\ Tidied(i) \in Queue
           /\ \A s \in Queued(Tidied(i)) :
                 s \in Queued(screen.seen) /\ Tidied(i)[s].turn = screen.seen[s].turn
  <1> DEFINE seen == screen.seen
             item == seen[i.stop]
             rest == Uploaded(item)
  <1>1. seen \in Queue /\ i.stop \in Stops /\ item \in Item
    BY DEF QueueInv, TypeOK, ScreenHolds, Writing, Screen, Intent, Queue
  <1>2. CASE Tidied(i) = Dequeue(seen, {i.stop})
    BY <1>1, <1>2, DequeueQueue DEF Queued
  <1>3. CASE Tidied(i) = [seen EXCEPT ![i.stop].photo = 0, ![i.stop].photoUploaded = TRUE]
    <2>1. rest \in Item /\ rest.turn = item.turn
      BY <1>1, UploadedItem DEF Uploaded, Item
    <2>2. Tidied(i) = [seen EXCEPT ![i.stop] = rest]
      BY <1>1, <1>3 DEF Queue, Item, Uploaded
    <2> HIDE DEF rest
    <2> QED BY <1>1, <2>1, <2>2, NoItemAssumption DEF Queued, Queue
  <1> QED BY <1>2, <1>3 DEF Tidied

\* A tap is later than all that is queued.
LEMMA TapIsOrderly ==
    ASSUME QueueInv, QueueInv', TrimInv, NEW i \in Intent, TapAnswered(i) \/ TapUnanswered(i)
    PROVE  TrimInv'
  <1>1. /\ screen = Idle /\ clock' = clock + 1 /\ clock \in Nat /\ UNCHANGED <<queue, flush>>
        /\ screen' = Idle \/ screen'.pc = "read"
    BY BudgetAssumption DEF TapAnswered, TapUnanswered, Tap, Begin, QueueInv, TypeOK, Instant
  <1>2. Upcoming <= Upcoming' /\ ~ Writing'
    BY <1>1 DEF Upcoming, Writing
  <1> QED BY <1>1, <1>2, TrimRests

\* The screen reads an orderly queue, and writes back one that is as orderly.
LEMMA ScreenIsOrderly ==
    ASSUME QueueInv, QueueInv', TrimInv,
           ScreenRead \/ ScreenEnqueue \/ ScreenErases \/ ScreenTidy \/ ScreenFails
    PROVE  TrimInv'
  <1>1. screen # Idle /\ UNCHANGED <<flush, clock>>
    BY DEF ScreenRead, ScreenEnqueue, ScreenErases, ScreenTidy, Tidying, ScreenFails, ScreenStep
  <1>2. clock \in Nat /\ Upcoming = clock /\ Upcoming <= Upcoming'
    <2>1. clock \in Nat
      BY BudgetAssumption DEF QueueInv, TypeOK, Instant
    <2> QED BY <1>1, <2>1 DEF Upcoming
  <1>3. CASE ScreenRead
    <2>1. UNCHANGED queue /\ (screen' = Idle \/ screen' = [screen EXCEPT !.pc = "write", !.seen = queue])
      BY <1>3 DEF ScreenRead
    <2>2. screen' # Idle => screen'.seen = queue
      BY <1>1, <2>1 DEF QueueInv, TypeOK, Screen
    <2> QED BY <1>1, <1>2, <2>1, <2>2, TrimRests DEF Writing
  <1>4. CASE ScreenEnqueue
    <2>1. /\ Writing /\ screen' = Idle
          /\ queue' = MergeOutboxItem(screen.seen, screen.intent, clock)
      BY <1>4 DEF ScreenEnqueue, Writing
    <2>2. Orderly(MergeOutboxItem(screen.seen, screen.intent, clock), clock + 1)
      BY <2>1, WritingScreen, MergedIsOrderly
    <2>3. Upcoming' = clock + 1
      BY <1>1, <2>1 DEF Upcoming
    <2>4. Orderly(queue, Upcoming)'
      BY <2>1, <2>2, <2>3
    <2> QED BY <1>1, <1>2, <2>1, <2>4, TrimRests DEF Writing
  <1>5. CASE ScreenTidy
    <2>1. /\ Writing /\ screen.op # "enqueue" /\ screen' = Idle
          /\ queue' = Tidied(screen.intent)
      BY <1>5 DEF ScreenTidy, Tidying, Writing
    <2>2. Upcoming' = clock + 1 /\ clock + 1 \in Nat /\ clock <= clock + 1
      BY <1>1, <1>2, <2>1 DEF Upcoming
    <2>3. /\ screen.seen \in Queue /\ Orderly(screen.seen, clock)
          /\ Tidied(screen.intent) \in Queue
          /\ \A s \in Queued(Tidied(screen.intent)) :
                 s \in Queued(screen.seen) /\ Tidied(screen.intent)[s].turn = screen.seen[s].turn
      BY <2>1, WritingScreen, TidiedTurns
    <2>4. Orderly(Tidied(screen.intent), clock + 1)
      BY <1>2, <2>2, <2>3, FewerIsOrderly
    <2>5. Orderly(queue, Upcoming)'
      BY <2>1, <2>2, <2>4
    <2> QED BY <1>1, <1>2, <2>1, <2>5, TrimRests DEF Writing
  <1>6. CASE ScreenFails
    BY <1>1, <1>2, <1>6, TrimRests DEF ScreenFails, Writing
  <1>7. CASE ScreenErases
    <2>1. Writing /\ UNCHANGED queue /\ screen' = [screen EXCEPT !.pc = "erase"]
      BY <1>7 DEF ScreenErases, Tidying, Writing
    <2>2. screen'.seen = screen.seen
      BY <1>1, <2>1 DEF QueueInv, TypeOK, Screen
    <2> QED BY <1>1, <1>2, <2>1, <2>2, TrimRests
  <1> QED BY <1>3, <1>4, <1>5, <1>6, <1>7

\* The flush reads an orderly queue, and writes back one with fewer items, a kept
\* one in the turn that was read.
LEMMA FlushIsOrderly ==
    ASSUME QueueInv, QueueInv', TrimInv, CheckpointRead \/ CheckpointWrite
    PROVE  TrimInv'
  <1>1. flush # Idle /\ UNCHANGED <<screen, clock>>
    BY DEF CheckpointRead, CheckpointWrite, FlushStep
  <1>2. clock \in Nat /\ Upcoming' = Upcoming /\ Upcoming \in Nat
    <2>1. clock \in Nat
      BY BudgetAssumption DEF QueueInv, TypeOK, Instant
    <2> QED BY <1>1, <2>1 DEF Upcoming
  <1>3. CASE CheckpointRead
    <2>1. UNCHANGED queue /\ flush' = [flush EXCEPT !.pc = "write", !.seen = queue]
      BY <1>3 DEF CheckpointRead
    <2>2. flush'.seen = queue
      BY <1>1, <2>1, FlushFields DEF Flush
    <2> QED BY <1>1, <1>2, <2>1, <2>2, TrimRests DEF Writing
  <1>4. CASE CheckpointWrite
    <2> DEFINE q == flush.seen
               work == flush.work
               outcome == flush.outcome
               next == Reconcile(q, work, outcome)
    <2>1. queue' = next /\ (flush' = Idle \/ flush' = [flush EXCEPT !.pc = "send", !.seen = Empty])
      BY <1>4 DEF CheckpointWrite, Checkpoint, NextItem
    <2>2. q \in Queue /\ work \in Queue /\ outcome \in [Stops -> Outcomes] /\ Orderly(q, Upcoming)
      BY <1>1, FlushFields DEF TrimInv
    <2>3. flush' # Idle => flush'.seen = Empty
      BY <1>1, <2>1, FlushFields DEF Flush
    <2> HIDE DEF q, work, outcome
    <2>4. ASSUME NEW s \in Queued(next) PROVE s \in Queued(q) /\ next[s].turn = q[s].turn
      <3>1. s \in Stops /\ next[s] # NoItem
        BY <2>4 DEF Queued
      <3>2. CASE next[s] = q[s]
        BY <3>1, <3>2 DEF Queued
      <3>3. CASE next[s] = InTurn(work[s], q[s].turn) /\ SameItem(q[s], work[s]) /\ work[s] \in Item
        BY <3>1, <3>3 DEF InTurn, Item, Queued, SameItem
      <3>4. CASE next[s] = NoItem
        BY <3>1, <3>4
      <3>5. \/ next[s] = q[s]
            \/ next[s] = InTurn(work[s], q[s].turn) /\ SameItem(q[s], work[s]) /\ work[s] \in Item
            \/ next[s] = NoItem
        BY <2>2, <3>1, ReconciledQueue
      <3> QED BY <3>2, <3>3, <3>4, <3>5
    <2>5. next \in Queue
      BY <2>2, ReconciledQueue
    <2> HIDE DEF next
    <2>6. Orderly(next, Upcoming)
      BY <1>2, <2>2, <2>4, <2>5, FewerIsOrderly
    <2>7. Orderly(queue, Upcoming)'
      BY <1>2, <2>1, <2>6
    <2> QED BY <1>1, <1>2, <2>3, <2>7, TrimRests DEF Writing
  <1> QED BY <1>3, <1>4

\* A request of the flush leaves alone what the flush has read.
LEMMA SendKeepsSeen ==
    ASSUME QueueInv, NEW s \in Stops,
           FlushUnanswered(s) \/ FlushCommitted(s) \/ FlushOrphaned(s) \/ FlushRefused(s)
    PROVE  flush # Idle /\ UNCHANGED <<queue, screen, clock>> /\ flush'.seen = flush.seen
  <1>1. flush # Idle /\ s \in Unsettled /\ UNCHANGED <<queue, screen, clock>>
    BY DEF FlushUnanswered, FlushCommitted, FlushOrphaned, FlushRefused, FlushSend, FlushStep, Current
  <1>2. flush \in Flush
    BY <1>1, FlushFields
  <1>3. CASE FlushUnanswered(s) \/ FlushOrphaned(s)
    <2>1. \E result \in Outcomes : flush' = Settle(s, result)
      BY <1>3 DEF FlushUnanswered, FlushOrphaned, Outcomes
    <2> QED BY <1>1, <2>1, SettleKeepsQueue
  <1>4. CASE FlushCommitted(s)
    <2>1. \E work, outcome, pc : flush' = [flush EXCEPT !.work = work, !.outcome = outcome, !.pc = pc]
      BY <1>2, <1>4 DEF FlushCommitted, Flush
    <2> QED BY <1>1, <1>2, <2>1 DEF Flush
  <1>5. CASE FlushRefused(s)
    <2> DEFINE failures == flush.work[s].apiFailures + 1
               result == IF failures >= MaxApiFailures THEN "dropped" ELSE "kept"
               settled == Settle(s, result)
    <2>1. flush' = Settle(s, "kept") \/ flush' = [settled EXCEPT !.work[s].apiFailures = failures]
      BY <1>5 DEF FlushRefused
    <2>2. settled \in Flush /\ settled.seen = flush.seen /\ Settle(s, "kept").seen = flush.seen
      BY <1>1, SettleKeepsQueue DEF Outcomes
    <2> HIDE DEF settled, failures
    <2> QED BY <1>1, <2>1, <2>2 DEF Flush
  <1> QED BY <1>1, <1>3, <1>4, <1>5

\* A step that neither writes the queue nor lets the screen read it.
LEMMA RestIsOrderly ==
    ASSUME QueueInv, QueueInv', TrimInv, UNCHANGED <<queue, clock>>,
           screen' = screen \/ screen' = Idle,
           flush' # Idle => \/ flush'.seen \in {Empty, queue}
                            \/ flush # Idle /\ flush'.seen = flush.seen
    PROVE  TrimInv'
  <1>1. clock \in Nat
    BY BudgetAssumption DEF QueueInv, TypeOK, Instant
  <1>2. Upcoming <= Upcoming'
    BY <1>1 DEF Upcoming
  <1>3. Writing' => Writing /\ screen'.seen = screen.seen
    BY DEF Writing
  <1> QED BY <1>2, <1>3, TrimRests

\* Every step keeps all copies of the queue in order.
LEMMA StepIsOrderly ==
    ASSUME QueueInv, TrimInv, [Next]_vars
    PROVE  TrimInv'
  <1>1. QueueInv'
    BY StepKeepsQueue
  <1>2. CASE \E i \in Intent : TapAnswered(i) \/ TapUnanswered(i)
    BY <1>1, <1>2, TapIsOrderly
  <1>3. CASE ScreenRead \/ ScreenEnqueue \/ ScreenErases \/ ScreenTidy \/ ScreenFails
    BY <1>1, <1>3, ScreenIsOrderly
  <1>4. CASE CheckpointRead \/ CheckpointWrite
    BY <1>1, <1>4, FlushIsOrderly
  <1>5. CASE \E consumeBudget \in BOOLEAN : FlushStart(consumeBudget)
    <2>1. PICK consumeBudget \in BOOLEAN : FlushStart(consumeBudget)
      BY <1>5
    <2>2. flush'.seen = Empty /\ UNCHANGED <<queue, screen, clock>>
      BY <2>1 DEF FlushStart, FlushStep
    <2> QED BY <1>1, <2>2, RestIsOrderly
  <1>6. CASE \E s \in Stops : FlushUnanswered(s) \/ FlushCommitted(s) \/ FlushOrphaned(s) \/ FlushRefused(s)
    BY <1>1, <1>6, SendKeepsSeen, RestIsOrderly
  <1>7. CASE CheckpointSkipped \/ CheckpointRefused \/ CheckpointFails
    <2>1. /\ flush # Idle /\ UNCHANGED <<queue, screen, clock>>
          /\ flush' = NextItem \/ flush' = Idle
      BY <1>7 DEF CheckpointSkipped, CheckpointRefused, CheckpointFails, FlushStep
    <2>2. flush' # Idle => flush'.seen = Empty
      BY <2>1, NextItemIs
    <2> QED BY <1>1, <2>1, <2>2, RestIsOrderly
  <1>8. CASE AppKilled \/ ReportOpens \/ ReportUnblocks \/ TripEnds \/ UNCHANGED vars
    <2>1. /\ UNCHANGED <<queue, clock>> /\ (screen' = screen \/ screen' = Idle)
          /\ flush' = flush \/ flush' = Idle
      BY <1>8 DEF AppKilled, ReportOpens, ReportUnblocks, TripEnds, OfficeStep, phoneVars, vars
    <2> QED BY <1>1, <2>1, RestIsOrderly
  <1>9. CASE CheckpointErases
    <2>1. UNCHANGED <<queue, screen, clock>> /\ flush # Idle /\ flush' = [flush EXCEPT !.pc = "erase"]
      BY <1>9 DEF CheckpointErases, FlushStep
    <2>2. flush'.seen = flush.seen
      BY <2>1, FlushFields DEF Flush
    <2> QED BY <1>1, <2>1, <2>2, RestIsOrderly
  <1> QED BY <1>2, <1>3, <1>4, <1>5, <1>6, <1>7, <1>8, <1>9 DEF Next, FlushGoesOn, FlushAnswered, PhoneFails

\* For any stops, taps, budgets, faults and interleavings of the screen with the
\* flush, the stored queue is never longer than MAX_OUTBOX and no two of its items
\* came from the same tap, so the trim always knows which is the oldest
\* (mergeOutboxItem, writeOutbox).
THEOREM OutboxIsBounded == Spec => [](Cardinality(Queued(queue)) <= MaxOutbox /\ InTurns(queue))
  <1>1. TrimInv => Cardinality(Queued(queue)) <= MaxOutbox /\ InTurns(queue)
    BY DEF TrimInv, Orderly
  <1>2. QueueInv /\ TrimInv /\ [Next]_vars => TrimInv'
    BY StepIsOrderly
  <1> QED BY <1>1, <1>2, InitIsOrderly, QueueInvariant, PTL DEF Spec

=============================================================================
