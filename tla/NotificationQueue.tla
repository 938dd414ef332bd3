------------------------- MODULE NotificationQueue -------------------------
(* The ordering of LSP messages: the transport reserves a place for every    *)
(* notification and a barrier for every request as it reads them; handler    *)
(* futures claim their place when the executor first polls them, in any      *)
(* order; one worker runs the claimed jobs.  A place that is given up points *)
(* its waiters at the place before it, so a lost handler strands nobody.     *)
EXTENDS Integers, Sequences, FiniteSets

CONSTANTS
    MaxMessages,        \* bound: messages the client sends in a session
    SenderSlots,        \* permits of sender_slots (the code: 1024)
    ChannelCapacity,    \* jobs the worker's channel holds (the code: 1024)
    Overtaking          \* handlers the pump may first poll ahead of an earlier one
                        \* (the code: at most the other 63 of CONCURRENCY_LEVEL)

ASSUME ConstantsAssumption ==
    /\ MaxMessages \in Nat
    /\ SenderSlots \in Nat \ {0}
    /\ ChannelCapacity \in Nat \ {0}
    /\ Overtaking \in Nat

Messages == 1 .. MaxMessages
\* A completion is named by its notification; 0 is the one born complete.
Completions == 0 .. MaxMessages
NoCompletion == -1

VARIABLES
    received,   \* how many messages the transport has read
    kind,       \* message -> "unread", "notification" or "request"
    pc,         \* message -> how far its handler, sender and job got
    tail,       \* the newest completion, or 0
    previous,   \* message -> the completion its place or barrier was taken behind
    done,       \* completion -> NotificationCompletion.done
    skippedTo,  \* completion -> NotificationCompletion.skipped_to
    current,    \* waiting message -> the completion its wait() looks at
    waitPhase,  \* waiting message -> where in the loop of wait() it is
    notified,   \* waiting message -> its Notified future has fired
    permits,    \* free permits of sender_slots
    slotQueue,  \* handlers waiting for a permit (tokio's semaphore is FIFO)
    channel,    \* jobs handed to the worker
    worker,     \* the job the worker awaits, or 0
    serving,    \* Server::serve has not returned
    workerAlive \* the worker task holds the receiver

completionVars == <<tail, previous, done, skippedTo>>
waitVars == <<current, waitPhase, notified>>
slotVars == <<permits, slotQueue>>
workerVars == <<channel, worker, workerAlive>>
vars == <<received, kind, pc, completionVars, waitVars, slotVars, workerVars,
          serving>>

NotificationStates ==
    {"reserved", "unqueued", "claimed", "waiting", "ready", "queued",
     "running", "inline", "finished", "panicked", "dropped"}
RequestStates == {"waiting", "handling", "answered", "failed", "cancelled"}

IsNotification(m) == kind[m] = "notification"
IsRequest(m) == kind[m] = "request"
Settled(m) == pc[m] \in {"finished", "panicked", "dropped"}
RunningJob(m) == IsNotification(m) /\ pc[m] \in {"running", "inline"}
\* Senders and jobs that hold a permit of sender_slots.
HoldsPermit(m) ==
    IsNotification(m) /\ pc[m] \in {"waiting", "ready", "queued", "running", "inline"}

Init ==
    /\ received = 0
    /\ kind = [m \in Messages |-> "unread"]
    /\ pc = [m \in Messages |-> "unread"]
    /\ tail = 0
    /\ previous = [m \in Messages |-> 0]
    /\ done = [c \in Completions |-> c = 0]
    /\ skippedTo = [c \in Completions |-> NoCompletion]
    /\ current = [m \in Messages |-> 0]
    /\ waitPhase = [m \in Messages |-> "none"]
    /\ notified = [m \in Messages |-> FALSE]
    /\ permits = SenderSlots
    /\ slotQueue = <<>>
    /\ channel = <<>>
    /\ worker = 0
    /\ serving = TRUE
    /\ workerAlive = TRUE

-----------------------------------------------------------------------------
(* NotificationCompletion *)

\* notify_waiters wakes the Notified futures registered on the completions cs.
NotifyWaiters(cs) ==
    notified' = [m \in Messages |->
        notified[m] \/ (current[m] \in cs /\ waitPhase[m] \in {"check", "parked"})]

Complete(c) ==
    /\ done' = [done EXCEPT ![c] = TRUE]
    /\ NotifyWaiters(IF done[c] THEN {} ELSE {c})
    /\ UNCHANGED skippedTo

\* Variant: a place given up completes.
SkipCompletes(cs) ==
    /\ done' = [c \in Completions |-> done[c] \/ c \in cs]
    /\ NotifyWaiters({c \in cs : ~done[c]})
    /\ UNCHANGED skippedTo

\* Variant: a place given up points at the newest one, not the one before it.
SkipToTail(cs) ==
    /\ skippedTo' = [c \in Completions |-> IF c \in cs THEN tail ELSE skippedTo[c]]
    /\ NotifyWaiters(cs)
    /\ UNCHANGED done

\* skip_to on every completion of cs: a done or skipped one keeps what it has.
SkipTo(cs) ==
    LET skipping == {c \in cs : ~done[c] /\ skippedTo[c] = NoCompletion} IN
    /\ skippedTo' = [c \in Completions |->
                        IF c \in skipping THEN previous[c] ELSE skippedTo[c]]
    /\ NotifyWaiters(skipping)
    /\ UNCHANGED done

\* wait() begins: the loop's current completion is the one it was called on.
BeginWait(m, c) ==
    /\ current' = [current EXCEPT ![m] = c]
    /\ waitPhase' = [waitPhase EXCEPT ![m] = "register"]

\* The Notified future is created and enabled before the state is read.
WaitRegister(m) ==
    /\ pc[m] = "waiting"
    /\ waitPhase[m] = "register"
    /\ waitPhase' = [waitPhase EXCEPT ![m] = "check"]
    /\ notified' = [notified EXCEPT ![m] = FALSE]
    /\ UNCHANGED <<received, kind, pc, completionVars, current, slotVars,
                   workerVars, serving>>

\* The state is read: done ends the wait, a skip moves it along the chain, and
\* otherwise the waiter parks on its registered future.
WaitDone(m) ==
    /\ pc[m] = "waiting"
    /\ waitPhase[m] = "check"
    /\ done[current[m]]
    /\ waitPhase' = [waitPhase EXCEPT ![m] = "none"]
    /\ pc' = [pc EXCEPT ![m] = IF IsRequest(m) THEN "handling" ELSE "ready"]
    /\ UNCHANGED <<received, kind, completionVars, current, notified, slotVars,
                   workerVars, serving>>

WaitFollow(m) ==
    /\ pc[m] = "waiting"
    /\ waitPhase[m] = "check"
    /\ ~done[current[m]]
    /\ skippedTo[current[m]] # NoCompletion
    /\ BeginWait(m, skippedTo[current[m]])
    /\ UNCHANGED <<received, kind, pc, completionVars, notified, slotVars,
                   workerVars, serving>>

\* Variant: a waiter parks without reading the state after it registered.
ParkUnread(m) ==
    /\ pc[m] = "waiting"
    /\ waitPhase[m] = "check"
    /\ waitPhase' = [waitPhase EXCEPT ![m] = "parked"]
    /\ UNCHANGED <<received, kind, pc, completionVars, current, notified,
                   slotVars, workerVars, serving>>

WaitPark(m) ==
    /\ pc[m] = "waiting"
    /\ waitPhase[m] = "check"
    /\ ~done[current[m]]
    /\ skippedTo[current[m]] = NoCompletion
    /\ waitPhase' = [waitPhase EXCEPT ![m] = "parked"]
    /\ UNCHANGED <<received, kind, pc, completionVars, current, notified,
                   slotVars, workerVars, serving>>

WaitWake(m) ==
    /\ pc[m] = "waiting"
    /\ waitPhase[m] = "parked"
    /\ notified[m]
    /\ waitPhase' = [waitPhase EXCEPT ![m] = "register"]
    /\ UNCHANGED <<received, kind, pc, completionVars, current, notified,
                   slotVars, workerVars, serving>>

WaitStep(m) ==
    \/ WaitRegister(m)
    \/ WaitDone(m)
    \/ WaitFollow(m)
    \/ WaitPark(m)
    \/ WaitWake(m)

-----------------------------------------------------------------------------
(* The transport *)

\* SpawnRequests::call on an ordered notification: reserve() replaces the tail.
ReceiveNotification(m) ==
    /\ serving
    /\ m = received + 1
    /\ received' = m
    /\ kind' = [kind EXCEPT ![m] = "notification"]
    /\ pc' = [pc EXCEPT ![m] = "reserved"]
    /\ previous' = [previous EXCEPT ![m] = tail]
    /\ tail' = m
    /\ UNCHANGED <<done, skippedTo, waitVars, slotVars, workerVars, serving>>

\* SpawnRequests::call on a request: barrier() snapshots the tail, and the
\* handler, on a task of its own, waits for it before anything else.
ReceiveRequest(m) ==
    /\ serving
    /\ m = received + 1
    /\ received' = m
    /\ kind' = [kind EXCEPT ![m] = "request"]
    /\ pc' = [pc EXCEPT ![m] = "waiting"]
    /\ previous' = [previous EXCEPT ![m] = tail]
    /\ BeginWait(m, tail)
    /\ UNCHANGED <<tail, done, skippedTo, notified, slotVars, workerVars, serving>>

\* The request's task ends: with a response, or by a panic that becomes one.
FinishRequest(m) ==
    /\ IsRequest(m)
    /\ pc[m] = "handling"
    /\ \E outcome \in {"answered", "failed"} : pc' = [pc EXCEPT ![m] = outcome]
    /\ UNCHANGED <<received, kind, completionVars, waitVars, slotVars,
                   workerVars, serving>>

\* $/cancelRequest, read outside the order, or the end of serve, drops the
\* handler future: AbortOnDrop aborts the task wherever it is.
CancelRequest(m) ==
    /\ IsRequest(m)
    /\ pc[m] \in {"waiting", "handling"}
    /\ pc' = [pc EXCEPT ![m] = "cancelled"]
    /\ waitPhase' = [waitPhase EXCEPT ![m] = "none"]
    /\ UNCHANGED <<received, kind, completionVars, current, notified, slotVars,
                   workerVars, serving>>

-----------------------------------------------------------------------------
(* The notification's handler future, on the message pump *)

\* The executor of the pump: how many later handlers were polled before m.
OvertakenBy(m) ==
    Cardinality({k \in Messages : k > m /\ IsNotification(k) /\ pc[k] # "reserved"})

MayPoll(m) ==
    /\ serving
    /\ pc[m] = "reserved"
    /\ \A k \in 1 .. (m - 1) : pc[k] = "reserved" => OvertakenBy(k) < Overtaking

\* The first poll of a handler that enqueues its body: it claims the place and
\* asks for a permit (send_background).
Claim(m) ==
    /\ MayPoll(m)
    /\ pc' = [pc EXCEPT ![m] = "claimed"]
    /\ slotQueue' = Append(slotQueue, m)
    /\ UNCHANGED <<received, kind, completionVars, waitVars, permits,
                   workerVars, serving>>

\* The first poll of a handler that runs on the pump itself (initialized, or a
\* method with no handler): the place stays unclaimed.
PollUnqueued(m) ==
    /\ MayPoll(m)
    /\ pc' = [pc EXCEPT ![m] = "unqueued"]
    /\ UNCHANGED <<received, kind, completionVars, waitVars, slotVars,
                   workerVars, serving>>

\* Variant: a dropped reservation skips nothing.
DropSilently(m) ==
    /\ pc[m] = "unqueued" \/ (~serving /\ pc[m] = "reserved")
    /\ pc' = [pc EXCEPT ![m] = "dropped"]
    /\ UNCHANGED <<received, kind, completionVars, waitVars, slotVars, workerVars, serving>>

\* An unclaimed reservation is dropped with its handler's future: when the
\* handler ends, or when serve drops it.
DropReservation(m) ==
    /\ pc[m] = "unqueued" \/ (~serving /\ pc[m] = "reserved")
    /\ pc' = [pc EXCEPT ![m] = "dropped"]
    /\ SkipTo({m})
    /\ UNCHANGED <<received, kind, tail, previous, current, waitPhase, slotVars,
                   workerVars, serving>>

\* Variant: the sender does not wait for the place before it.
AcquireSlotUnordered(m) ==
    /\ permits > 0
    /\ slotQueue # <<>>
    /\ m = Head(slotQueue)
    /\ permits' = permits - 1
    /\ slotQueue' = Tail(slotQueue)
    /\ pc' = [pc EXCEPT ![m] = "ready"]
    /\ UNCHANGED <<received, kind, completionVars, waitVars, workerVars, serving>>

\* The permit is granted and the sender becomes a task of its own, which starts
\* by waiting for the place before it (send_background, send_inner).
AcquireSlot(m) ==
    /\ permits > 0
    /\ slotQueue # <<>>
    /\ m = Head(slotQueue)
    /\ permits' = permits - 1
    /\ slotQueue' = Tail(slotQueue)
    /\ pc' = [pc EXCEPT ![m] = "waiting"]
    /\ BeginWait(m, previous[m])
    /\ UNCHANGED <<received, kind, completionVars, notified, workerVars, serving>>

\* The end of serve drops a handler that still waits for its permit: the armed
\* job reservation skips.
DropClaimed(m) ==
    /\ ~serving
    /\ pc[m] = "claimed"
    /\ pc' = [pc EXCEPT ![m] = "dropped"]
    /\ \E i \in DOMAIN slotQueue :
        /\ slotQueue[i] = m
        /\ slotQueue' = [j \in 1 .. (Len(slotQueue) - 1) |->
                            slotQueue[IF j < i THEN j ELSE j + 1]]
    /\ SkipTo({m})
    /\ UNCHANGED <<received, kind, tail, previous, current, waitPhase, permits,
                   workerVars, serving>>

-----------------------------------------------------------------------------
(* The sender task and the worker *)

Send(m) ==
    /\ pc[m] = "ready"
    /\ workerAlive
    /\ Len(channel) < ChannelCapacity
    /\ channel' = Append(channel, m)
    /\ pc' = [pc EXCEPT ![m] = "queued"]
    /\ UNCHANGED <<received, kind, completionVars, waitVars, slotVars, worker,
                   workerAlive, serving>>

\* The channel is closed: the sender runs the job itself.
RunInline(m) ==
    /\ pc[m] = "ready"
    /\ ~workerAlive
    /\ pc' = [pc EXCEPT ![m] = "inline"]
    /\ UNCHANGED <<received, kind, completionVars, waitVars, slotVars,
                   workerVars, serving>>

\* The worker takes the next job and awaits its task.
TakeJob(m) ==
    /\ workerAlive
    /\ worker = 0
    /\ channel # <<>>
    /\ m = Head(channel)
    /\ channel' = Tail(channel)
    /\ worker' = m
    /\ pc' = [pc EXCEPT ![m] = "running"]
    /\ UNCHANGED <<received, kind, completionVars, waitVars, slotVars,
                   workerAlive, serving>>

\* Variant: a worker at rest names no completion at all.
WorkerForgets(m) == worker' = IF worker = m THEN NoCompletion ELSE worker
\* The worker's await of job m is over, if it was awaiting it.
WorkerRests(m) == worker' = IF worker = m THEN 0 ELSE worker

\* QueuedNotification::poll is ready: the place completes, the permit returns.
FinishJob(m) ==
    /\ RunningJob(m)
    /\ pc' = [pc EXCEPT ![m] = "finished"]
    /\ Complete(m)
    /\ WorkerRests(m)
    /\ permits' = permits + 1
    /\ UNCHANGED <<received, kind, tail, previous, current, waitPhase,
                   slotQueue, channel, workerAlive, serving>>

\* Variant: a panicked job keeps its permit.
PanicKeepsPermit(m) ==
    /\ RunningJob(m)
    /\ pc' = [pc EXCEPT ![m] = "panicked"]
    /\ SkipTo({m})
    /\ WorkerRests(m)
    /\ UNCHANGED <<received, kind, tail, previous, current, waitPhase,
                   slotVars, channel, workerAlive, serving>>

\* The job panics: QueuedNotification is dropped unfinished.
PanicJob(m) ==
    /\ RunningJob(m)
    /\ pc' = [pc EXCEPT ![m] = "panicked"]
    /\ SkipTo({m})
    /\ WorkerRests(m)
    /\ permits' = permits + 1
    /\ UNCHANGED <<received, kind, tail, previous, current, waitPhase,
                   slotQueue, channel, workerAlive, serving>>

-----------------------------------------------------------------------------
(* The end of the session: serve returns and the runtime drops its tasks *)

StopServing ==
    /\ serving
    /\ serving' = FALSE
    /\ UNCHANGED <<received, kind, pc, completionVars, waitVars, slotVars, workerVars>>

\* The worker task is dropped: the channel closes and the jobs in it with it.
StopWorker ==
    LET lost == {channel[i] : i \in DOMAIN channel} IN
    /\ ~serving
    /\ workerAlive
    /\ workerAlive' = FALSE
    /\ worker' = 0
    /\ channel' = <<>>
    /\ pc' = [m \in Messages |-> IF m \in lost THEN "dropped" ELSE pc[m]]
    /\ SkipTo(lost)
    /\ permits' = permits + Len(channel)
    /\ UNCHANGED <<received, kind, tail, previous, current, waitPhase,
                   slotQueue, serving>>

\* A sender task is dropped before it handed over its job: its guard skips.
DropSender(m) ==
    /\ ~serving
    /\ IsNotification(m)
    /\ pc[m] \in {"waiting", "ready"}
    /\ pc' = [pc EXCEPT ![m] = "dropped"]
    /\ waitPhase' = [waitPhase EXCEPT ![m] = "none"]
    /\ SkipTo({m})
    /\ permits' = permits + 1
    /\ UNCHANGED <<received, kind, tail, previous, current, slotQueue,
                   workerVars, serving>>

-----------------------------------------------------------------------------
HandlerStep(m) == Claim(m) \/ PollUnqueued(m)
SenderStep(m) == WaitStep(m) \/ Send(m) \/ RunInline(m)
JobStep(m) == FinishJob(m) \/ PanicJob(m)
ShutdownDrop(m) == ~serving /\ (DropReservation(m) \/ DropClaimed(m) \/ DropSender(m))

Next ==
    \/ \E m \in Messages :
        \/ ReceiveNotification(m)
        \/ ReceiveRequest(m)
        \/ HandlerStep(m)
        \/ DropReservation(m)
        \/ AcquireSlot(m)
        \/ DropClaimed(m)
        \/ SenderStep(m)
        \/ TakeJob(m)
        \/ JobStep(m)
        \/ FinishRequest(m)
        \/ CancelRequest(m)
        \/ DropSender(m)
    \/ StopServing
    \/ StopWorker

\* The executor keeps polling woken tasks, the pump keeps polling its handlers,
\* handlers and jobs end, and a stopping runtime drops its tasks.  Nothing is
\* owed by the client: no fairness on messages, cancellation or the shutdown.
Fairness ==
    /\ \A m \in Messages :
        /\ WF_vars(HandlerStep(m))
        /\ WF_vars(DropReservation(m))
        /\ WF_vars(AcquireSlot(m))
        /\ WF_vars(SenderStep(m))
        /\ WF_vars(TakeJob(m))
        /\ WF_vars(JobStep(m))
        /\ WF_vars(FinishRequest(m))
        /\ WF_vars(ShutdownDrop(m))
    /\ WF_vars(~serving /\ StopWorker)

Spec == Init /\ [][Next]_vars

-----------------------------------------------------------------------------
(* Properties *)

Over(m) ==
    pc[m] \in {"finished", "panicked", "dropped", "answered", "failed", "cancelled"}

EarlierSettled(m) == \A k \in 1 .. (m - 1) : IsNotification(k) => Settled(k)

\* Every variable keeps its type.
TypeOK ==
    /\ received \in 0 .. MaxMessages
    /\ kind \in [Messages -> {"unread", "notification", "request"}]
    /\ pc \in [Messages -> {"unread"} \cup NotificationStates \cup RequestStates]
    /\ tail \in Completions
    /\ previous \in [Messages -> Completions]
    /\ done \in [Completions -> BOOLEAN]
    /\ skippedTo \in [Completions -> Completions \cup {NoCompletion}]
    /\ current \in [Messages -> Completions]
    /\ waitPhase \in [Messages -> {"none", "register", "check", "parked"}]
    /\ notified \in [Messages -> BOOLEAN]
    /\ permits \in Int
    /\ slotQueue \in Seq(Messages)
    /\ channel \in Seq(Messages)
    /\ worker \in Completions
    /\ serving \in BOOLEAN
    /\ workerAlive \in BOOLEAN

\* A document notification's body runs only when every notification the client
\* sent before it is settled, whatever order the handlers were polled in and
\* whichever of them panicked or were dropped (state.rs, NotificationQueue:
\* "without losing their order").
JobsInOrder ==
    \A m \in Messages : RunningJob(m) => EarlierSettled(m)

\* A request's handler works on a state that every notification sent before it
\* has reached (transport.rs, wait_for_notifications).
RequestsSeeEarlier ==
    \A m \in Messages : IsRequest(m) /\ pc[m] = "handling" => EarlierSettled(m)

\* At most one job is handed over or running, so the bounded channel never
\* makes a sender wait behind another one's job.
OneJobAtATime ==
    \A m, k \in Messages :
        /\ IsNotification(m) /\ pc[m] \in {"ready", "queued", "running", "inline"}
        /\ IsNotification(k) /\ pc[k] \in {"ready", "queued", "running", "inline"}
        => m = k

\* No waiter sleeps through its completion: a parked wait() whose completion is
\* done or skipped has been notified (state.rs, "losing the wake-up and
\* stranding the request").
NoLostWakeup ==
    \A m \in Messages :
        /\ pc[m] = "waiting"
        /\ waitPhase[m] = "parked"
        /\ done[current[m]] \/ skippedTo[current[m]] # NoCompletion
        => notified[m]

\* Every permit of sender_slots is free or held by one sender or job; none is
\* lost to a panic, a drop or a closed channel.
PermitsAccounted ==
    /\ permits >= 0
    /\ permits + Cardinality({m \in Messages : HoldsPermit(m)}) = SenderSlots

\* No message is stranded while the runtime polls its tasks and no body hangs:
\* every notification is settled and every request is answered or cancelled,
\* though handlers panic and senders are dropped (NotificationCompletion::wait,
\* QueuedNotification::drop).
NobodyStranded ==
    Fairness => \A m \in Messages : kind[m] # "unread" ~> Over(m)

\* A request waits for nothing sent after it: once the notifications before it
\* are settled it ends, though jobs and pump handlers may hang.
RequestNeedsOnlyEarlier ==
    \A m \in Messages : IsRequest(m) /\ EarlierSettled(m) ~> Over(m)

\* Fairness for RequestNeedsOnlyEarlier: no job and no pump handler need end,
\* and no permit need be granted.
HangingSpec ==
    /\ Spec
    /\ \A m \in Messages : WF_vars(WaitStep(m)) /\ WF_vars(FinishRequest(m))

\* How far the handling of a message is, seen from outside the queue.
Stage(m) ==
    CASE Over(m) -> "settled"
      [] pc[m] \in {"running", "inline", "handling"} -> "running"
      [] OTHER -> "pending"

\* The order the queue promises.
Ordered ==
    INSTANCE OrderedNotifications WITH state <- [m \in Messages |-> Stage(m)]

\* Every behaviour of the queue is one of OrderedNotifications: a body starts
\* when all notifications before its message are settled, and ends once.
ImplementsOrder == Ordered!Spec
=============================================================================
