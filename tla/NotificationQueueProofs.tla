---------------------- MODULE NotificationQueueProofs ----------------------
(* Proofs about NotificationQueue, for every session length, permit count,   *)
(* channel capacity and polling order.                                       *)
EXTENDS NotificationQueue, FiniteSetTheorems, SequenceTheorems, TLAPS

USE DEF Messages, Completions, NoCompletion, NotificationStates, RequestStates

-----------------------------------------------------------------------------
(* The inductive invariant *)

\* The queues hold each waiting handler, and each queued job, once.
QueuesOK ==
    /\ \A i \in 1 .. Len(slotQueue) : pc[slotQueue[i]] = "claimed"
    /\ \A i, j \in 1 .. Len(slotQueue) : slotQueue[i] = slotQueue[j] => i = j
    /\ \A i \in 1 .. Len(channel) : pc[channel[i]] = "queued"
    /\ \A i, j \in 1 .. Len(channel) : channel[i] = channel[j] => i = j

\* The messages up to received are the ones that were read.
ReadOK ==
    \A m \in Messages : kind[m] = "unread" <=> received < m

\* What a message may be doing, by what it is.
KindsOK ==
    \A m \in Messages :
        /\ kind[m] = "unread" => pc[m] = "unread"
        /\ IsNotification(m) => pc[m] \in NotificationStates
        /\ IsRequest(m) => pc[m] \in RequestStates

\* The tail is the newest notification, and every message was ordered behind
\* the newest notification before it.
ChainOK ==
    /\ tail <= received
    /\ \A k \in Messages : tail < k => ~IsNotification(k)
    /\ \A m \in Messages :
        kind[m] # "unread" =>
            /\ previous[m] < m
            /\ \A k \in Messages :
                previous[m] < k /\ k < m => ~IsNotification(k)

\* A completion is done only behind settled notifications, and it was skipped
\* only for a settled one, to the place before it.
CompletionsOK ==
    /\ \A c \in Messages : done[c] =>
        /\ IsNotification(c)
        /\ Settled(c)
        /\ EarlierSettled(c)
    /\ \A c \in Completions : skippedTo[c] # NoCompletion =>
        /\ c \in Messages
        /\ IsNotification(c)
        /\ Settled(c)
        /\ skippedTo[c] = previous[c]

\* Between the completion a waiter looks at and the waiter, all is settled.
WaitersOK ==
    \A m \in Messages : pc[m] = "waiting" =>
        /\ current[m] < m
        /\ \A k \in Messages :
            current[m] < k /\ k < m /\ IsNotification(k) => Settled(k)

\* A message past its wait has only settled notifications before it.
PastWaitOK ==
    \A m \in Messages :
        pc[m] \in {"ready", "queued", "running", "inline", "handling"}
            => EarlierSettled(m)

OrderInv ==
    /\ TypeOK
    /\ QueuesOK
    /\ ReadOK
    /\ KindsOK
    /\ ChainOK
    /\ CompletionsOK
    /\ WaitersOK
    /\ PastWaitOK

-----------------------------------------------------------------------------
(* Types *)

LEMMA TypesStep ==
    ASSUME TypeOK, QueuesOK, [Next]_vars
    PROVE  TypeOK'
<1> USE ConstantsAssumption DEF ConstantsAssumption
<1>1. CASE UNCHANGED vars
  BY <1>1 DEF TypeOK, vars, completionVars, waitVars, slotVars, workerVars
<1>2. ASSUME NEW m \in Messages, ReceiveNotification(m)  PROVE TypeOK'
  BY <1>2 DEF TypeOK, ReceiveNotification, waitVars, slotVars, workerVars
<1>3. ASSUME NEW m \in Messages, ReceiveRequest(m)  PROVE TypeOK'
  BY <1>3 DEF TypeOK, ReceiveRequest, BeginWait, slotVars, workerVars
<1>4. ASSUME NEW m \in Messages, HandlerStep(m)  PROVE TypeOK'
  <2>1. Append(slotQueue, m) \in Seq(Messages)
    BY AppendProperties DEF TypeOK
  <2> QED
    BY <1>4, <2>1 DEF TypeOK, HandlerStep, Claim, PollUnqueued,
                      completionVars, waitVars, slotVars, workerVars
<1>5. ASSUME NEW m \in Messages, DropReservation(m)  PROVE TypeOK'
  BY <1>5 DEF TypeOK, DropReservation, SkipTo, NotifyWaiters, slotVars, workerVars
<1>6. ASSUME NEW m \in Messages, AcquireSlot(m)  PROVE TypeOK'
  <2>1. Tail(slotQueue) \in Seq(Messages)
    BY <1>6, HeadTailProperties DEF TypeOK, AcquireSlot
  <2>2. /\ slotQueue' \in Seq(Messages)
        /\ permits' = permits - 1
        /\ pc' = [pc EXCEPT ![m] = "waiting"]
        /\ BeginWait(m, previous[m])
        /\ UNCHANGED <<received, kind, completionVars, notified, workerVars, serving>>
    BY <1>6, <2>1 DEF AcquireSlot
  <2> QED
    BY <2>2 DEF TypeOK, BeginWait, completionVars, workerVars
<1>7. ASSUME NEW m \in Messages, DropClaimed(m)  PROVE TypeOK'
  <2>1. PICK i \in DOMAIN slotQueue :
            slotQueue' = [j \in 1 .. (Len(slotQueue) - 1) |->
                            slotQueue[IF j < i THEN j ELSE j + 1]]
    BY <1>7 DEF DropClaimed
  <2>2. Len(slotQueue) \in Nat /\ slotQueue \in [1 .. Len(slotQueue) -> Messages]
    BY LenProperties DEF TypeOK
  <2>3. i \in 1 .. Len(slotQueue) /\ Len(slotQueue) - 1 \in Nat
    BY <2>2
  <2>4. slotQueue' \in [1 .. (Len(slotQueue) - 1) -> Messages]
    BY <2>1, <2>2, <2>3
  <2>5. slotQueue' \in Seq(Messages)
    BY <2>3, <2>4, SeqDef
  <2> QED
    BY <1>7, <2>5 DEF TypeOK, DropClaimed, SkipTo, NotifyWaiters, workerVars
<1>8. ASSUME NEW m \in Messages, WaitStep(m)  PROVE TypeOK'
  <2>1. UNCHANGED <<received, kind, tail, previous, done, skippedTo, permits,
                    slotQueue, channel, worker, workerAlive, serving>>
    BY <1>8 DEF WaitStep, WaitRegister, WaitDone, WaitFollow, WaitPark, WaitWake,
                completionVars, slotVars, workerVars
  <2>2. /\ \/ pc' = pc
           \/ \E s \in {"ready", "handling"} : pc' = [pc EXCEPT ![m] = s]
        /\ \E s \in {"none", "register", "check", "parked"} :
              waitPhase' = [waitPhase EXCEPT ![m] = s]
        /\ notified' = notified \/ notified' = [notified EXCEPT ![m] = FALSE]
        /\ \/ current' = current
           \/ /\ skippedTo[current[m]] # NoCompletion
              /\ current' = [current EXCEPT ![m] = skippedTo[current[m]]]
    BY <1>8, Zenon DEF WaitStep, WaitRegister, WaitDone, WaitFollow, WaitPark,
                       WaitWake, BeginWait
  <2>3. pc' \in [Messages -> {"unread"} \cup NotificationStates \cup RequestStates]
    BY <2>2 DEF TypeOK, NotificationStates, RequestStates
  <2>4. waitPhase' \in [Messages -> {"none", "register", "check", "parked"}]
    BY <2>2 DEF TypeOK
  <2>5. notified' \in [Messages -> BOOLEAN]
    BY <2>2 DEF TypeOK
  <2>6. current' \in [Messages -> Completions]
    BY <2>2 DEF TypeOK
  <2> HIDE DEF Messages, Completions, NoCompletion
  <2> QED
    BY ONLY TypeOK, <2>1, <2>3, <2>4, <2>5, <2>6 DEF TypeOK
<1>9. ASSUME NEW m \in Messages, Send(m) \/ RunInline(m)  PROVE TypeOK'
  <2>1. Append(channel, m) \in Seq(Messages)
    BY AppendProperties DEF TypeOK
  <2> QED
    BY <1>9, <2>1 DEF TypeOK, Send, RunInline, completionVars, waitVars, slotVars,
                      workerVars
<1>10. ASSUME NEW m \in Messages, TakeJob(m)  PROVE TypeOK'
  <2>1. Tail(channel) \in Seq(Messages)
    BY <1>10, HeadTailProperties DEF TypeOK, TakeJob
  <2>2. /\ channel' \in Seq(Messages)
        /\ worker' = m
        /\ pc' = [pc EXCEPT ![m] = "running"]
        /\ UNCHANGED <<received, kind, completionVars, waitVars, slotVars,
                       workerAlive, serving>>
    BY <1>10, <2>1 DEF TakeJob
  <2> QED
    BY <2>2 DEF TypeOK, completionVars, waitVars, slotVars
<1>11. ASSUME NEW m \in Messages, FinishJob(m)  PROVE TypeOK'
  BY <1>11 DEF TypeOK, FinishJob, Complete, NotifyWaiters, WorkerRests
<1>12. ASSUME NEW m \in Messages, PanicJob(m)  PROVE TypeOK'
  BY <1>12 DEF TypeOK, PanicJob, SkipTo, NotifyWaiters, WorkerRests
<1>13. ASSUME NEW m \in Messages, FinishRequest(m) \/ CancelRequest(m)  PROVE TypeOK'
  <2>1. UNCHANGED <<received, kind, tail, previous, done, skippedTo, current,
                    notified, permits, slotQueue, channel, worker, workerAlive,
                    serving>>
    BY <1>13 DEF FinishRequest, CancelRequest, completionVars, waitVars, slotVars,
                 workerVars
  <2>2. /\ \E s \in RequestStates : pc' = [pc EXCEPT ![m] = s]
        /\ waitPhase' = waitPhase \/ waitPhase' = [waitPhase EXCEPT ![m] = "none"]
    BY <1>13 DEF FinishRequest, CancelRequest, RequestStates, waitVars
  <2>3. pc' \in [Messages -> {"unread"} \cup NotificationStates \cup RequestStates]
    BY <2>2 DEF TypeOK
  <2>4. waitPhase' \in [Messages -> {"none", "register", "check", "parked"}]
    BY <2>2 DEF TypeOK
  <2> HIDE DEF Messages, Completions, NoCompletion
  <2> QED
    BY ONLY TypeOK, <2>1, <2>3, <2>4 DEF TypeOK
<1>14. ASSUME NEW m \in Messages, DropSender(m)  PROVE TypeOK'
  BY <1>14 DEF TypeOK, DropSender, SkipTo, NotifyWaiters, workerVars
<1>15. CASE StopServing
  BY <1>15 DEF TypeOK, StopServing, completionVars, waitVars, slotVars, workerVars
<1>16. CASE StopWorker
  <2> DEFINE lost == {channel[i] : i \in DOMAIN channel}
  <2>1. /\ <<>> \in Seq(Messages)
        /\ Len(channel) \in Nat
        /\ lost \subseteq Messages
    <3>1. channel \in Seq(Messages)
      BY DEF TypeOK
    <3>2. Len(channel) \in Nat /\ \A i \in DOMAIN channel : channel[i] \in Messages
      BY ONLY <3>1, LenProperties
    <3> QED
      BY ONLY <3>2, EmptySeq
  <2>2. /\ pc' = [m \in Messages |-> IF m \in lost THEN "dropped" ELSE pc[m]]
        /\ SkipTo(lost)
        /\ UNCHANGED <<received, kind, tail, previous, current, waitPhase,
                       slotQueue, serving>>
    BY <1>16 DEF StopWorker
  <2>3. worker' = 0
    BY <1>16 DEF StopWorker
  <2>4. worker' \in Completions
    BY <2>3
  <2>5. workerAlive' \in BOOLEAN
    BY <1>16 DEF StopWorker
  <2>6. channel' \in Seq(Messages)
    BY <1>16, <2>1, Zenon DEF StopWorker
  <2> HIDE DEF lost
  <2>7. permits' \in Int
    <3>1. permits' = permits + Len(channel)
      BY <1>16 DEF StopWorker
    <3> QED
      BY <2>1, <3>1 DEF TypeOK
  <2>8. skippedTo' \in [Completions -> Completions \cup {NoCompletion}]
    BY <2>1, <2>2 DEF TypeOK, SkipTo
  <2>9. notified' \in [Messages -> BOOLEAN]
    BY <2>2 DEF TypeOK, SkipTo, NotifyWaiters
  <2>10. pc' \in [Messages -> {"unread"} \cup NotificationStates \cup RequestStates]
    BY <2>2 DEF TypeOK
  <2>11. done' = done
    BY <2>2 DEF SkipTo
  <2> HIDE DEF Messages, Completions, NoCompletion, NotificationStates, RequestStates
  <2> QED
    BY <2>2, <2>4, <2>5, <2>6, <2>7, <2>8, <2>9, <2>10, <2>11 DEF TypeOK
<1> QED
  BY <1>1, <1>2, <1>3, <1>4, <1>5, <1>6, <1>7, <1>8, <1>9, <1>10, <1>11, <1>12,
     <1>13, <1>14, <1>15, <1>16 DEF Next, SenderStep, JobStep

-----------------------------------------------------------------------------
(* What no step undoes *)

\* Only the transport changes what a message is and what it is ordered behind.
LEMMA OnlyReceiveOrders ==
    ASSUME [Next]_vars,
           ~ \E m \in Messages : ReceiveNotification(m) \/ ReceiveRequest(m)
    PROVE  UNCHANGED <<received, kind, tail, previous>>
BY DEF Next, vars, completionVars, waitVars, slotVars, workerVars, HandlerStep,
       SenderStep, WaitStep, JobStep, Claim, PollUnqueued, DropReservation,
       AcquireSlot, DropClaimed, WaitRegister, WaitDone, WaitFollow, WaitPark,
       WaitWake, Send, RunInline, TakeJob, FinishJob, PanicJob, FinishRequest,
       CancelRequest, DropSender, StopServing, StopWorker

\* A message that was read keeps its kind and its place.
LEMMA ReadIsStable ==
    ASSUME TypeOK, ReadOK, [Next]_vars, NEW k \in Messages, kind[k] # "unread"
    PROVE  kind'[k] = kind[k] /\ previous'[k] = previous[k]
<1> USE ConstantsAssumption DEF ConstantsAssumption
<1>1. ASSUME NEW m \in Messages, ReceiveNotification(m) \/ ReceiveRequest(m)
      PROVE  kind'[k] = kind[k] /\ previous'[k] = previous[k]
  <2>1. k # m
    BY <1>1 DEF TypeOK, ReadOK, ReceiveNotification, ReceiveRequest
  <2> QED
    BY <1>1, <2>1 DEF TypeOK, ReceiveNotification, ReceiveRequest
<1> QED
  BY <1>1, OnlyReceiveOrders

\* The head of a queue is one of its elements.
LEMMA Heads ==
    ASSUME TypeOK, QueuesOK
    PROVE  /\ slotQueue # <<>> => /\ Head(slotQueue) = slotQueue[1]
                                  /\ pc[Head(slotQueue)] = "claimed"
           /\ channel # <<>> => /\ Head(channel) = channel[1]
                                /\ pc[Head(channel)] = "queued"
<1>1. ASSUME NEW s \in Seq(Messages), s # <<>>
      PROVE  Head(s) = s[1] /\ 1 \in 1 .. Len(s)
  BY <1>1, EmptySeq, HeadTailProperties
<1> QED
  BY <1>1 DEF TypeOK, QueuesOK

\* A settled notification stays settled.
LEMMA SettledIsStable ==
    ASSUME TypeOK, QueuesOK, ReadOK, [Next]_vars,
           NEW k \in Messages, IsNotification(k), Settled(k)
    PROVE  IsNotification(k)' /\ Settled(k)'
<1>1. IsNotification(k)'
  BY ReadIsStable DEF IsNotification
<1>2. CASE UNCHANGED vars
  BY <1>1, <1>2 DEF Settled, vars
<1>3. ASSUME NEW m \in Messages, ReceiveNotification(m) \/ ReceiveRequest(m)
      PROVE  Settled(k)'
  <2>1. kind[m] = "unread"
    <3>1. m = received + 1
      BY <1>3 DEF ReceiveNotification, ReceiveRequest
    <3> QED
      BY <3>1 DEF TypeOK, ReadOK
  <2>2. k # m
    BY <2>1 DEF IsNotification
  <2> QED
    BY <1>3, <2>2 DEF TypeOK, Settled, ReceiveNotification, ReceiveRequest
<1>4. ASSUME NEW m \in Messages, AcquireSlot(m) \/ TakeJob(m)  PROVE Settled(k)'
  BY <1>4, Heads DEF TypeOK, Settled, AcquireSlot, TakeJob
<1>5. ASSUME NEW m \in Messages,
             HandlerStep(m) \/ DropReservation(m) \/ DropClaimed(m) \/ DropSender(m)
      PROVE  Settled(k)'
  BY <1>5 DEF TypeOK, Settled, HandlerStep, Claim, PollUnqueued, MayPoll,
              DropReservation, DropClaimed, DropSender
<1>6. ASSUME NEW m \in Messages, SenderStep(m) \/ JobStep(m)  PROVE Settled(k)'
  BY <1>6 DEF TypeOK, Settled, SenderStep, WaitStep, WaitRegister, WaitDone,
              WaitFollow, WaitPark, WaitWake, Send, RunInline, JobStep, FinishJob,
              PanicJob
<1>7. ASSUME NEW m \in Messages, FinishRequest(m) \/ CancelRequest(m)
      PROVE  Settled(k)'
  BY <1>7 DEF TypeOK, Settled, FinishRequest, CancelRequest
<1>8. CASE StopServing \/ StopWorker
  BY <1>1, <1>8 DEF TypeOK, Settled, StopServing, StopWorker
<1> QED
  BY <1>1, <1>2, <1>3, <1>4, <1>5, <1>6, <1>7, <1>8 DEF Next

\* Once everything sent before a message is settled, it stays so.
LEMMA EarlierSettledIsStable ==
    ASSUME TypeOK, QueuesOK, ReadOK, [Next]_vars,
           NEW m \in Messages, kind[m] # "unread", EarlierSettled(m)
    PROVE  EarlierSettled(m)'
<1> SUFFICES ASSUME NEW k \in 1 .. (m - 1), IsNotification(k)'
             PROVE  Settled(k)'
  BY DEF EarlierSettled
<1>1. k \in Messages /\ kind[k] # "unread"
  BY ConstantsAssumption DEF ConstantsAssumption, TypeOK, ReadOK
<1>2. IsNotification(k)
  BY <1>1, ReadIsStable DEF IsNotification
<1> QED
  BY <1>1, <1>2, SettledIsStable DEF EarlierSettled

-----------------------------------------------------------------------------
(* The parts of the invariant, one lemma each *)

LEMMA ReadStep ==
    ASSUME TypeOK, ReadOK, [Next]_vars
    PROVE  ReadOK'
<1> USE ConstantsAssumption DEF ConstantsAssumption
<1>1. ASSUME NEW m \in Messages, ReceiveNotification(m) \/ ReceiveRequest(m)
      PROVE  ReadOK'
  <2>1. /\ m = received + 1 /\ received' = m
        /\ \A k \in Messages : kind'[k] = "unread" <=> k # m /\ kind[k] = "unread"
    BY <1>1 DEF TypeOK, ReceiveNotification, ReceiveRequest
  <2> QED
    BY <2>1 DEF TypeOK, ReadOK
<1> QED
  BY <1>1, OnlyReceiveOrders DEF ReadOK

LEMMA KindsStep ==
    ASSUME TypeOK, QueuesOK, KindsOK, [Next]_vars
    PROVE  KindsOK'
<1> USE DEF KindsOK, IsNotification, IsRequest
<1>1. CASE UNCHANGED vars
  BY <1>1 DEF vars
<1>2. ASSUME NEW m \in Messages, ReceiveNotification(m)  PROVE KindsOK'
  BY <1>2 DEF TypeOK, ReceiveNotification
<1>3. ASSUME NEW m \in Messages, ReceiveRequest(m)  PROVE KindsOK'
  BY <1>3 DEF TypeOK, ReceiveRequest
<1>4. ASSUME NEW m \in Messages, AcquireSlot(m)  PROVE KindsOK'
  <2>1. /\ pc[m] = "claimed"
        /\ pc' = [pc EXCEPT ![m] = "waiting"]
        /\ kind' = kind
    BY <1>4, Heads DEF AcquireSlot
  <2> QED
    BY <2>1 DEF TypeOK
<1>5. ASSUME NEW m \in Messages, TakeJob(m)  PROVE KindsOK'
  <2>1. /\ pc[m] = "queued"
        /\ pc' = [pc EXCEPT ![m] = "running"]
        /\ kind' = kind
    BY <1>5, Heads DEF TakeJob
  <2> QED
    BY <2>1 DEF TypeOK
<1>6. ASSUME NEW m \in Messages, HandlerStep(m)  PROVE KindsOK'
  BY <1>6 DEF TypeOK, HandlerStep, Claim, PollUnqueued, MayPoll
<1>7. ASSUME NEW m \in Messages, DropReservation(m) \/ DropClaimed(m) \/ DropSender(m)
      PROVE  KindsOK'
  BY <1>7 DEF TypeOK, DropReservation, DropClaimed, DropSender
<1>8. ASSUME NEW m \in Messages, WaitDone(m)  PROVE KindsOK'
  <2>1. /\ pc' = [pc EXCEPT ![m] = IF IsRequest(m) THEN "handling" ELSE "ready"]
        /\ pc[m] = "waiting"
        /\ kind' = kind
    BY <1>8 DEF WaitDone
  <2> QED
    BY <2>1 DEF TypeOK
<1>9. ASSUME NEW m \in Messages,
             WaitRegister(m) \/ WaitFollow(m) \/ WaitPark(m) \/ WaitWake(m)
      PROVE  KindsOK'
  BY <1>9 DEF WaitRegister, WaitFollow, WaitPark, WaitWake
<1>10. ASSUME NEW m \in Messages, Send(m) \/ RunInline(m)  PROVE KindsOK'
  BY <1>10 DEF TypeOK, Send, RunInline
<1>11. ASSUME NEW m \in Messages, JobStep(m)  PROVE KindsOK'
  BY <1>11 DEF TypeOK, JobStep, FinishJob, PanicJob, RunningJob
<1>12. ASSUME NEW m \in Messages, FinishRequest(m) \/ CancelRequest(m)
       PROVE  KindsOK'
  BY <1>12 DEF TypeOK, FinishRequest, CancelRequest
<1>13. CASE StopServing
  BY <1>13 DEF StopServing
<1>14. CASE StopWorker
  <2> DEFINE lost == {channel[i] : i \in DOMAIN channel}
  <2>1. \A k \in lost : pc[k] = "queued"
    BY LenProperties DEF TypeOK, QueuesOK
  <2>2. /\ pc' = [k \in Messages |-> IF k \in lost THEN "dropped" ELSE pc[k]]
        /\ kind' = kind
    BY <1>14 DEF StopWorker
  <2> HIDE DEF lost
  <2> QED
    BY <2>1, <2>2 DEF TypeOK
<1> QED
  BY <1>1, <1>2, <1>3, <1>4, <1>5, <1>6, <1>7, <1>8, <1>9, <1>10, <1>11, <1>12,
     <1>13, <1>14 DEF Next, SenderStep, WaitStep

LEMMA ChainStep ==
    ASSUME TypeOK, ReadOK, ChainOK, [Next]_vars
    PROVE  ChainOK'
<1> USE ConstantsAssumption DEF ConstantsAssumption
<1>1. ASSUME NEW m \in Messages, ReceiveNotification(m)  PROVE ChainOK'
  <2>1. /\ m = received + 1 /\ received' = m /\ tail' = m
        /\ kind' = [kind EXCEPT ![m] = "notification"]
        /\ previous' = [previous EXCEPT ![m] = tail]
    BY <1>1 DEF ReceiveNotification
  <2> QED
    BY <2>1 DEF TypeOK, ReadOK, ChainOK, IsNotification
<1>2. ASSUME NEW m \in Messages, ReceiveRequest(m)  PROVE ChainOK'
  <2>1. /\ m = received + 1 /\ received' = m /\ tail' = tail
        /\ kind' = [kind EXCEPT ![m] = "request"]
        /\ previous' = [previous EXCEPT ![m] = tail]
    BY <1>2 DEF ReceiveRequest
  <2> QED
    BY <2>1 DEF TypeOK, ReadOK, ChainOK, IsNotification
<1>3. CASE UNCHANGED <<received, kind, tail, previous>>
  BY <1>3 DEF ChainOK, IsNotification
<1> QED
  BY <1>1, <1>2, <1>3, OnlyReceiveOrders

\* Completions change in three ways: a job's is done, some are skipped, or none.
LEMMA CompletionChanges ==
    ASSUME TypeOK, QueuesOK, [Next]_vars
    PROVE  \/ UNCHANGED <<done, skippedTo>>
           \/ \E m \in Messages : FinishJob(m)
           \/ \E cs \in SUBSET Messages :
                /\ SkipTo(cs)
                /\ UNCHANGED previous
                /\ \A c \in cs :
                    /\ pc'[c] \in {"panicked", "dropped"}
                    /\ pc[c] \in {"unqueued", "reserved", "claimed", "queued"}
                       \/ IsNotification(c)
<1>1. ASSUME NEW m \in Messages,
             DropReservation(m) \/ DropClaimed(m) \/ DropSender(m) \/ PanicJob(m)
      PROVE  /\ SkipTo({m})
             /\ UNCHANGED previous
             /\ pc'[m] \in {"panicked", "dropped"}
             /\ pc[m] \in {"unqueued", "reserved", "claimed", "queued"}
                \/ IsNotification(m)
  BY <1>1 DEF TypeOK, DropReservation, DropClaimed, DropSender, PanicJob, RunningJob
<1>2. CASE StopWorker
  <2> DEFINE lost == {channel[i] : i \in DOMAIN channel}
  <2>1. DOMAIN channel = 1 .. Len(channel) /\ channel \in [DOMAIN channel -> Messages]
    BY LenProperties DEF TypeOK
  <2>2. lost \subseteq Messages
    BY <2>1
  <2>3. \A c \in lost : pc[c] = "queued"
    BY <2>1 DEF QueuesOK
  <2>4. /\ pc' = [k \in Messages |-> IF k \in lost THEN "dropped" ELSE pc[k]]
        /\ SkipTo(lost)
        /\ UNCHANGED previous
    BY <1>2 DEF StopWorker
  <2> HIDE DEF lost
  <2>5. \A c \in lost : pc'[c] = "dropped"
    BY <2>2, <2>4
  <2> QED
    BY <2>2, <2>3, <2>4, <2>5
<1>3. CASE \/ UNCHANGED vars
           \/ StopServing
           \/ \E m \in Messages :
                \/ ReceiveNotification(m) \/ ReceiveRequest(m) \/ HandlerStep(m)
                \/ AcquireSlot(m) \/ SenderStep(m) \/ TakeJob(m)
                \/ FinishRequest(m) \/ CancelRequest(m)
  <2>1. UNCHANGED vars \/ StopServing => UNCHANGED <<done, skippedTo>>
    BY DEF vars, completionVars, StopServing
  <2>2. ASSUME NEW m \in Messages,
               ReceiveNotification(m) \/ ReceiveRequest(m) \/ FinishRequest(m)
                 \/ CancelRequest(m)
        PROVE  UNCHANGED <<done, skippedTo>>
    BY <2>2 DEF ReceiveNotification, ReceiveRequest, FinishRequest, CancelRequest,
                completionVars
  <2>3. ASSUME NEW m \in Messages,
               HandlerStep(m) \/ AcquireSlot(m) \/ Send(m) \/ RunInline(m) \/ TakeJob(m)
        PROVE  UNCHANGED <<done, skippedTo>>
    BY <2>3 DEF HandlerStep, Claim, PollUnqueued, AcquireSlot, Send, RunInline, TakeJob,
                completionVars
  <2>4. ASSUME NEW m \in Messages, WaitStep(m)  PROVE UNCHANGED <<done, skippedTo>>
    BY <2>4 DEF WaitStep, WaitRegister, WaitDone, WaitFollow, WaitPark, WaitWake,
                completionVars
  <2> QED
    BY <1>3, <2>1, <2>2, <2>3, <2>4 DEF SenderStep
<1>4. ASSUME NEW m \in Messages,
             DropReservation(m) \/ DropClaimed(m) \/ DropSender(m) \/ PanicJob(m)
      PROVE  \E cs \in SUBSET Messages :
                /\ SkipTo(cs)
                /\ UNCHANGED previous
                /\ \A c \in cs :
                    /\ pc'[c] \in {"panicked", "dropped"}
                    /\ pc[c] \in {"unqueued", "reserved", "claimed", "queued"}
                       \/ IsNotification(c)
  <2> WITNESS {m} \in SUBSET Messages
  <2> QED
    BY <1>1, <1>4
<1> QED
  BY <1>2, <1>3, <1>4 DEF Next, JobStep

LEMMA CompletionsStep ==
    ASSUME OrderInv, [Next]_vars
    PROVE  CompletionsOK'
<1> USE DEF OrderInv
<1>1. ASSUME NEW c \in Messages, done'[c]
      PROVE  (IsNotification(c) /\ Settled(c) /\ EarlierSettled(c))'
  <2>1. CASE done[c]
    <3>1. IsNotification(c) /\ Settled(c) /\ EarlierSettled(c) /\ kind[c] # "unread"
      BY <2>1 DEF CompletionsOK, IsNotification
    <3> QED
      BY <3>1, SettledIsStable, EarlierSettledIsStable
  <2>2. CASE ~done[c]
    <3>1. PICK m \in Messages : FinishJob(m)
      BY <1>1, <2>2, CompletionChanges DEF SkipTo
    <3>2. c = m
      BY <1>1, <2>2, <3>1 DEF FinishJob, Complete, TypeOK
    <3>3. IsNotification(c) /\ EarlierSettled(c) /\ kind[c] # "unread"
      BY <3>1, <3>2 DEF FinishJob, RunningJob, PastWaitOK, IsNotification
    <3>4. Settled(c)'
      BY <3>1, <3>2 DEF FinishJob, Settled, TypeOK
    <3> QED
      BY <3>3, <3>4, ReadIsStable, EarlierSettledIsStable DEF IsNotification
  <2> QED
    BY <2>1, <2>2
<1>2. ASSUME NEW c \in Completions, skippedTo'[c] # NoCompletion
      PROVE  /\ c \in Messages
             /\ (IsNotification(c) /\ Settled(c) /\ skippedTo[c] = previous[c])'
  <2>1. CASE skippedTo[c] # NoCompletion
    <3>1. /\ c \in Messages /\ IsNotification(c) /\ Settled(c)
          /\ skippedTo[c] = previous[c]
      BY <2>1 DEF CompletionsOK
    <3>2. skippedTo'[c] = skippedTo[c]
      <4>1. ASSUME NEW m \in Messages, FinishJob(m)  PROVE skippedTo' = skippedTo
        BY <4>1 DEF FinishJob, Complete
      <4>2. ASSUME NEW cs \in SUBSET Messages, SkipTo(cs)
            PROVE  skippedTo'[c] = skippedTo[c]
        BY <2>1, <4>2 DEF SkipTo
      <4> QED
        BY <4>1, <4>2, CompletionChanges
    <3>3. previous'[c] = previous[c]
      BY <3>1, ReadIsStable DEF IsNotification
    <3> QED
      BY <3>1, <3>2, <3>3, SettledIsStable
  <2>2. CASE skippedTo[c] = NoCompletion
    <3>1. PICK cs \in SUBSET Messages :
            /\ SkipTo(cs)
            /\ UNCHANGED previous
            /\ \A d \in cs :
                /\ pc'[d] \in {"panicked", "dropped"}
                /\ pc[d] \in {"unqueued", "reserved", "claimed", "queued"}
                   \/ IsNotification(d)
      BY <1>2, <2>2, CompletionChanges DEF FinishJob, Complete
    <3>2. c \in cs /\ skippedTo'[c] = previous[c]
      BY <1>2, <2>2, <3>1 DEF SkipTo
    <3>3. c \in Messages /\ IsNotification(c)
      BY <3>1, <3>2 DEF KindsOK, TypeOK, IsNotification, IsRequest
    <3>4. Settled(c)'
      BY <3>1, <3>2 DEF Settled
    <3>5. IsNotification(c)'
      BY <3>3, ReadIsStable DEF IsNotification
    <3> QED
      BY <3>1, <3>2, <3>3, <3>4, <3>5
  <2> QED
    BY <2>1, <2>2
<1> QED
  BY <1>1, <1>2 DEF CompletionsOK

\* How a message comes to wait, and how it gets past its wait.
LEMMA HowPcMoves ==
    ASSUME TypeOK, QueuesOK, [Next]_vars, NEW m \in Messages
    PROVE  /\ pc'[m] = "waiting" =>
                \/ pc[m] = "waiting" /\ current'[m] = current[m]
                \/ WaitFollow(m)
                \/ AcquireSlot(m)
                \/ ReceiveRequest(m)
           /\ pc'[m] \in {"ready", "queued", "running", "inline", "handling"} =>
                \/ pc[m] \in {"ready", "queued", "running", "inline", "handling"}
                \/ WaitDone(m)
<1> DEFINE Goal ==
      /\ pc'[m] = "waiting" =>
            \/ pc[m] = "waiting" /\ current'[m] = current[m]
            \/ WaitFollow(m)
            \/ AcquireSlot(m)
            \/ ReceiveRequest(m)
      /\ pc'[m] \in {"ready", "queued", "running", "inline", "handling"} =>
            \/ pc[m] \in {"ready", "queued", "running", "inline", "handling"}
            \/ WaitDone(m)
<1>1. CASE UNCHANGED vars
  BY <1>1 DEF vars, waitVars
<1>2. ASSUME NEW k \in Messages, ReceiveNotification(k)  PROVE Goal
  BY <1>2 DEF TypeOK, ReceiveNotification, waitVars
<1>3. ASSUME NEW k \in Messages, ReceiveRequest(k)  PROVE Goal
  <2>1. CASE k = m
    BY <1>3, <2>1 DEF TypeOK, ReceiveRequest
  <2>2. CASE k # m
    BY <1>3, <2>2 DEF TypeOK, ReceiveRequest, BeginWait
  <2> QED
    BY <2>1, <2>2
<1>4. ASSUME NEW k \in Messages, AcquireSlot(k)  PROVE Goal
  <2>1. /\ pc' = [pc EXCEPT ![k] = "waiting"]
        /\ current' = [current EXCEPT ![k] = previous[k]]
    BY <1>4 DEF AcquireSlot, BeginWait
  <2>2. CASE k = m
    BY <1>4, <2>1, <2>2 DEF TypeOK
  <2>3. CASE k # m
    BY <2>1, <2>3 DEF TypeOK
  <2> QED
    BY <2>2, <2>3
<1>5. ASSUME NEW k \in Messages, TakeJob(k)  PROVE Goal
  <2>1. /\ pc[k] = "queued"
        /\ pc' = [pc EXCEPT ![k] = "running"]
        /\ current' = current
    BY <1>5, Heads DEF TakeJob, waitVars
  <2> QED
    BY <2>1 DEF TypeOK
<1>6. ASSUME NEW k \in Messages, HandlerStep(k)  PROVE Goal
  BY <1>6 DEF TypeOK, HandlerStep, Claim, PollUnqueued, waitVars
<1>7. ASSUME NEW k \in Messages, DropReservation(k) \/ DropClaimed(k) \/ DropSender(k)
      PROVE  Goal
  BY <1>7 DEF TypeOK, DropReservation, DropClaimed, DropSender
<1>8. ASSUME NEW k \in Messages, WaitFollow(k)  PROVE Goal
  <2>1. CASE k = m
    BY <1>8, <2>1 DEF WaitFollow
  <2>2. CASE k # m
    BY <1>8, <2>2 DEF TypeOK, WaitFollow, BeginWait
  <2> QED
    BY <2>1, <2>2
<1>9. ASSUME NEW k \in Messages, WaitDone(k)  PROVE Goal
  <2>1. CASE k = m
    BY <1>9, <2>1 DEF TypeOK, WaitDone
  <2>2. CASE k # m
    BY <1>9, <2>2 DEF TypeOK, WaitDone
  <2> QED
    BY <2>1, <2>2
<1>10. ASSUME NEW k \in Messages, WaitRegister(k) \/ WaitPark(k) \/ WaitWake(k)
       PROVE  Goal
  BY <1>10 DEF WaitRegister, WaitPark, WaitWake
<1>11. ASSUME NEW k \in Messages, Send(k) \/ RunInline(k) \/ JobStep(k)  PROVE Goal
  BY <1>11 DEF TypeOK, Send, RunInline, JobStep, FinishJob, PanicJob, waitVars
<1>12. ASSUME NEW k \in Messages, FinishRequest(k) \/ CancelRequest(k)  PROVE Goal
  BY <1>12 DEF TypeOK, FinishRequest, CancelRequest, waitVars
<1>13. CASE StopServing \/ StopWorker
  BY <1>13 DEF TypeOK, StopServing, StopWorker, waitVars
<1> QED
  BY <1>1, <1>2, <1>3, <1>4, <1>5, <1>6, <1>7, <1>8, <1>9, <1>10, <1>11, <1>12,
     <1>13 DEF Next, SenderStep, WaitStep

LEMMA WaitersStep ==
    ASSUME OrderInv, [Next]_vars
    PROVE  WaitersOK'
<1> USE ConstantsAssumption DEF ConstantsAssumption, OrderInv
<1> SUFFICES ASSUME NEW m \in Messages, pc'[m] = "waiting"
             PROVE  /\ current'[m] < m
                    /\ \A k \in Messages :
                        current'[m] < k /\ k < m /\ IsNotification(k)'
                            => Settled(k)'
  BY DEF WaitersOK
<1>1. CASE pc[m] = "waiting" /\ current'[m] = current[m]
  <2>1. kind[m] # "unread"
    BY <1>1 DEF KindsOK
  <2>2. \A k \in Messages : k < m /\ IsNotification(k)' => IsNotification(k)
    <3> SUFFICES ASSUME NEW k \in Messages, k < m, IsNotification(k)'
                 PROVE  IsNotification(k)
      OBVIOUS
    <3>1. kind[k] # "unread"
      BY <2>1 DEF TypeOK, ReadOK
    <3> QED
      BY <3>1, ReadIsStable DEF IsNotification
  <2> QED
    BY <1>1, <2>2, SettledIsStable DEF WaitersOK
<1>2. CASE WaitFollow(m)
  <2> DEFINE c == current[m]
  <2>1. /\ c \in Completions
        /\ skippedTo[c] # NoCompletion
        /\ pc[m] = "waiting"
        /\ current'[m] = skippedTo[c]
        /\ kind' = kind
        /\ pc' = pc
    BY <1>2 DEF WaitFollow, BeginWait, TypeOK
  <2>2. /\ c \in Messages
        /\ IsNotification(c)
        /\ Settled(c)
        /\ current'[m] = previous[c]
    BY <2>1 DEF CompletionsOK
  <2>3. previous[c] \in Completions /\ previous[c] < c /\ c < m
    BY <2>1, <2>2 DEF ChainOK, WaitersOK, IsNotification, TypeOK
  <2>4. ASSUME NEW k \in Messages, previous[c] < k, k < m, IsNotification(k)
        PROVE  Settled(k)
    <3>1. CASE k < c
      BY <2>2, <2>4, <3>1 DEF ChainOK, IsNotification
    <3>2. CASE k = c
      BY <2>2, <3>2
    <3>3. CASE c < k
      BY <2>1, <2>4, <3>3 DEF WaitersOK
    <3> QED
      BY <2>2, <3>1, <3>2, <3>3
  <2> QED
    BY <2>1, <2>2, <2>3, <2>4 DEF IsNotification, Settled
<1>3. CASE AcquireSlot(m)
  <2>1. /\ pc[m] = "claimed"
        /\ current'[m] = previous[m]
        /\ kind' = kind
    BY <1>3, Heads DEF AcquireSlot, BeginWait, TypeOK
  <2>2. kind[m] # "unread"
    BY <2>1 DEF KindsOK
  <2> QED
    BY <2>1, <2>2 DEF ChainOK, IsNotification
<1>4. CASE ReceiveRequest(m)
  <2>1. /\ m = received + 1
        /\ current'[m] = tail
        /\ kind' = [kind EXCEPT ![m] = "request"]
    BY <1>4 DEF ReceiveRequest, BeginWait, TypeOK
  <2> QED
    BY <2>1 DEF ChainOK, IsNotification, TypeOK
<1> QED
  BY <1>1, <1>2, <1>3, <1>4, HowPcMoves

LEMMA PastWaitStep ==
    ASSUME OrderInv, [Next]_vars
    PROVE  PastWaitOK'
<1> USE ConstantsAssumption DEF ConstantsAssumption, OrderInv
<1> SUFFICES ASSUME NEW m \in Messages,
                    pc'[m] \in {"ready", "queued", "running", "inline", "handling"}
             PROVE  EarlierSettled(m)'
  BY DEF PastWaitOK
<1>1. kind[m] # "unread" /\ EarlierSettled(m)
  <2>1. CASE pc[m] \in {"ready", "queued", "running", "inline", "handling"}
    BY <2>1 DEF PastWaitOK, KindsOK
  <2>2. CASE WaitDone(m)
    <3> DEFINE c == current[m]
    <3>1. pc[m] = "waiting" /\ done[c] /\ c \in Completions
      BY <2>2 DEF WaitDone, TypeOK
    <3>2. \A k \in Messages : c < k /\ k < m /\ IsNotification(k) => Settled(k)
      BY <3>1 DEF WaitersOK
    <3>3. c # 0 => c \in Messages /\ Settled(c) /\ EarlierSettled(c)
      BY <3>1 DEF CompletionsOK
    <3>4. EarlierSettled(m)
      BY <3>1, <3>2, <3>3 DEF EarlierSettled
    <3> QED
      BY <3>1, <3>4 DEF KindsOK
  <2> QED
    BY <2>1, <2>2, HowPcMoves
<1> QED
  BY <1>1, EarlierSettledIsStable

\* A queue of distinct messages in one state, under a given pc, stays one when a
\* message that enters the state is appended and when its head leaves it.
Waiting(s, at, state) ==
    /\ \A i \in 1 .. Len(s) : at[s[i]] = state
    /\ \A i, j \in 1 .. Len(s) : s[i] = s[j] => i = j

LEMMA AppendWaiting ==
    ASSUME NEW s \in Seq(Messages), NEW m \in Messages, NEW state, NEW at, NEW after,
           DOMAIN at = Messages, at[m] # state, Waiting(s, at, state),
           after = [at EXCEPT ![m] = state]
    PROVE  Waiting(Append(s, m), after, state)
<1> DEFINE t == Append(s, m)
<1>1. Len(s) \in Nat /\ s \in [1 .. Len(s) -> Messages]
  BY LenProperties
<1>2. /\ Len(t) = Len(s) + 1
      /\ \A i \in 1 .. Len(s) : t[i] = s[i]
      /\ t[Len(s) + 1] = m
  BY AppendProperties
<1>3. \A i \in 1 .. Len(s) : s[i] \in Messages /\ s[i] # m /\ after[s[i]] = state
  BY <1>1 DEF Waiting
<1>4. after[m] = state
  OBVIOUS
<1> HIDE DEF t
<1>5. \A i \in 1 .. Len(t) : i \in 1 .. Len(s) \/ i = Len(s) + 1
  BY <1>1, <1>2
<1>6. \A i \in 1 .. Len(t) : after[t[i]] = state
  BY <1>2, <1>3, <1>4, <1>5
<1>7. \A i, j \in 1 .. Len(t) : t[i] = t[j] => i = j
  BY <1>2, <1>3, <1>5 DEF Waiting
<1>8. Waiting(t, after, state)
  BY <1>6, <1>7 DEF Waiting
<1> QED
  BY <1>8 DEF t

LEMMA TailWaiting ==
    ASSUME NEW s \in Seq(Messages), s # <<>>, NEW state, NEW next, NEW at, NEW after,
           DOMAIN at = Messages, Waiting(s, at, state),
           after = [at EXCEPT ![s[1]] = next]
    PROVE  Waiting(Tail(s), after, state)
<1> DEFINE t == Tail(s)
<1>1. Len(s) \in Nat \ {0} /\ s \in [1 .. Len(s) -> Messages]
  BY LenProperties, EmptySeq
<1>2. /\ Len(t) = Len(s) - 1
      /\ \A i \in 1 .. Len(t) : t[i] = s[i + 1]
  BY HeadTailProperties
<1>3. \A i \in 2 .. Len(s) : s[i] # s[1] /\ s[i] \in Messages
  BY <1>1 DEF Waiting
<1>4. \A i \in 2 .. Len(s) : after[s[i]] = state
  BY <1>1, <1>3 DEF Waiting
<1> HIDE DEF t
<1>5. \A i \in 1 .. Len(t) : i + 1 \in 2 .. Len(s)
  BY <1>1, <1>2
<1>6. \A i \in 1 .. Len(t) : after[t[i]] = state
  BY <1>2, <1>4, <1>5
<1>7. \A i, j \in 1 .. Len(t) : t[i] = t[j] => i = j
  BY <1>1, <1>2, <1>5 DEF Waiting
<1>8. Waiting(t, after, state)
  BY <1>6, <1>7 DEF Waiting
<1> QED
  BY <1>8 DEF t

\* The messages of a queue leave their state only by the queue's own steps.
LEMMA QueueMoves ==
    ASSUME TypeOK, QueuesOK, KindsOK, ReadOK, [Next]_vars
    PROVE  /\ \/ slotQueue' = slotQueue
                    /\ \A k \in Messages : pc[k] = "claimed" => pc'[k] = "claimed"
              \/ \E m \in Messages : Claim(m) \/ AcquireSlot(m) \/ DropClaimed(m)
           /\ \/ channel' = channel
                    /\ \A k \in Messages : pc[k] = "queued" => pc'[k] = "queued"
              \/ \E m \in Messages : Send(m) \/ TakeJob(m)
              \/ StopWorker
<1> DEFINE SlotsStay == /\ slotQueue' = slotQueue
                        /\ \A k \in Messages : pc[k] = "claimed" => pc'[k] = "claimed"
           JobsStay == /\ channel' = channel
                       /\ \A k \in Messages : pc[k] = "queued" => pc'[k] = "queued"
<1>1. CASE UNCHANGED vars
  BY <1>1 DEF vars, slotVars, workerVars
<1>2. ASSUME NEW m \in Messages, ReceiveNotification(m) \/ ReceiveRequest(m)
      PROVE  SlotsStay /\ JobsStay
  <2>1. pc[m] = "unread"
    <3>1. m = received + 1
      BY <1>2 DEF ReceiveNotification, ReceiveRequest
    <3> QED
      BY <3>1 DEF TypeOK, ReadOK, KindsOK
  <2> QED
    BY <1>2, <2>1 DEF TypeOK, ReceiveNotification, ReceiveRequest, slotVars, workerVars
<1>3. ASSUME NEW m \in Messages, Claim(m) \/ DropClaimed(m)  PROVE JobsStay
  BY <1>3 DEF TypeOK, Claim, MayPoll, DropClaimed, workerVars
<1>4. ASSUME NEW m \in Messages, AcquireSlot(m)  PROVE JobsStay
  <2>1. /\ pc[m] = "claimed"
        /\ pc' = [pc EXCEPT ![m] = "waiting"]
        /\ channel' = channel
    BY <1>4, Heads DEF AcquireSlot, workerVars
  <2> QED
    BY <2>1 DEF TypeOK
<1>5. ASSUME NEW m \in Messages, TakeJob(m)  PROVE SlotsStay
  <2>1. /\ pc[m] = "queued"
        /\ pc' = [pc EXCEPT ![m] = "running"]
        /\ slotQueue' = slotQueue
    BY <1>5, Heads DEF TakeJob, slotVars
  <2> QED
    BY <2>1 DEF TypeOK
<1>6. ASSUME NEW m \in Messages, Send(m)  PROVE SlotsStay
  BY <1>6 DEF TypeOK, Send, slotVars
<1>7. CASE StopWorker
  <2> DEFINE lost == {channel[i] : i \in DOMAIN channel}
  <2>1. \A k \in lost : pc[k] = "queued"
    BY LenProperties DEF TypeOK, QueuesOK
  <2>2. /\ pc' = [k \in Messages |-> IF k \in lost THEN "dropped" ELSE pc[k]]
        /\ slotQueue' = slotQueue
    BY <1>7 DEF StopWorker
  <2> HIDE DEF lost
  <2>3. SlotsStay
    BY <2>1, <2>2
  <2> QED
    BY <1>7, <2>3
<1>8. ASSUME NEW m \in Messages,
             PollUnqueued(m) \/ DropReservation(m) \/ DropSender(m) \/ WaitStep(m)
      PROVE  SlotsStay /\ JobsStay
  BY <1>8 DEF TypeOK, PollUnqueued, MayPoll, DropReservation, DropSender, WaitStep,
              WaitRegister, WaitDone, WaitFollow, WaitPark, WaitWake, slotVars,
              workerVars
<1>9. ASSUME NEW m \in Messages,
             RunInline(m) \/ JobStep(m) \/ FinishRequest(m) \/ CancelRequest(m)
      PROVE  SlotsStay /\ JobsStay
  BY <1>9 DEF TypeOK, RunInline, JobStep, FinishJob, PanicJob, RunningJob,
              FinishRequest, CancelRequest, slotVars, workerVars
<1>10. CASE StopServing
  BY <1>10 DEF StopServing, slotVars, workerVars
<1> QED
  BY <1>1, <1>2, <1>3, <1>4, <1>5, <1>6, <1>7, <1>8, <1>9, <1>10
  DEF Next, HandlerStep, SenderStep

LEMMA QueuesStep ==
    ASSUME OrderInv, [Next]_vars
    PROVE  QueuesOK'
<1> USE DEF OrderInv
<1> DEFINE SlotsOK == Waiting(slotQueue, pc, "claimed")
           JobsOK == Waiting(channel, pc, "queued")
<1>1. SlotsOK /\ JobsOK
  BY DEF QueuesOK, Waiting
<1>2. /\ slotQueue \in Seq(Messages) /\ channel \in Seq(Messages)
      /\ slotQueue \in [1 .. Len(slotQueue) -> Messages]
      /\ channel \in [1 .. Len(channel) -> Messages]
      /\ DOMAIN pc = Messages
  BY LenProperties DEF TypeOK
<1>3. SlotsOK'
  <2>1. CASE slotQueue' = slotQueue
              /\ \A k \in Messages : pc[k] = "claimed" => pc'[k] = "claimed"
    BY <1>1, <1>2, <2>1 DEF Waiting
  <2>2. ASSUME NEW m \in Messages, Claim(m)  PROVE SlotsOK'
    <3>1. /\ pc[m] # "claimed"
          /\ pc' = [pc EXCEPT ![m] = "claimed"]
          /\ slotQueue' = Append(slotQueue, m)
      BY <2>2 DEF Claim, MayPoll
    <3> QED
      BY <1>1, <1>2, <3>1, AppendWaiting
  <2>3. ASSUME NEW m \in Messages, AcquireSlot(m)  PROVE SlotsOK'
    <3>1. /\ slotQueue # <<>>
          /\ pc' = [pc EXCEPT ![slotQueue[1]] = "waiting"]
          /\ slotQueue' = Tail(slotQueue)
      BY <2>3, Heads DEF AcquireSlot
    <3> QED
      BY <1>1, <1>2, <3>1, TailWaiting
  <2>4. ASSUME NEW m \in Messages, DropClaimed(m)  PROVE SlotsOK'
    <3>1. PICK i \in DOMAIN slotQueue :
            /\ slotQueue[i] = m
            /\ slotQueue' = [j \in 1 .. (Len(slotQueue) - 1) |->
                                slotQueue[IF j < i THEN j ELSE j + 1]]
      BY <2>4 DEF DropClaimed
    <3>2. Len(slotQueue) \in Nat /\ i \in 1 .. Len(slotQueue)
      BY <1>2, <3>1, LenProperties
    <3>3. Len(slotQueue') = Len(slotQueue) - 1
      BY <3>1, <3>2
    <3>4. pc' = [pc EXCEPT ![m] = "dropped"]
      BY <2>4 DEF DropClaimed
    <3>5. ASSUME NEW j \in 1 .. (Len(slotQueue) - 1)
          PROVE  pc'[slotQueue'[j]] = "claimed"
      <4> DEFINE p == IF j < i THEN j ELSE j + 1
      <4>1. p \in 1 .. Len(slotQueue) /\ p # i
        BY <3>2
      <4>2. slotQueue'[j] = slotQueue[p]
        BY <3>1
      <4>3. slotQueue[p] # m /\ pc[slotQueue[p]] = "claimed" /\ slotQueue[p] \in Messages
        BY <1>1, <1>2, <3>1, <3>2, <4>1 DEF Waiting
      <4> QED
        BY <3>4, <4>2, <4>3 DEF TypeOK
    <3>6. ASSUME NEW j \in 1 .. (Len(slotQueue) - 1),
                 NEW k \in 1 .. (Len(slotQueue) - 1), slotQueue'[j] = slotQueue'[k]
          PROVE  j = k
      <4> DEFINE p == IF j < i THEN j ELSE j + 1
                 q == IF k < i THEN k ELSE k + 1
      <4>1. p \in 1 .. Len(slotQueue) /\ q \in 1 .. Len(slotQueue)
        BY <3>2
      <4>2. slotQueue[p] = slotQueue[q]
        BY <3>1, <3>6
      <4>3. p = q
        BY <1>1, <4>1, <4>2 DEF Waiting
      <4> QED
        BY <3>2, <4>3
    <3> QED
      BY <3>3, <3>5, <3>6 DEF Waiting
  <2> QED
    BY <2>1, <2>2, <2>3, <2>4, QueueMoves
<1>4. JobsOK'
  <2>1. CASE channel' = channel
              /\ \A k \in Messages : pc[k] = "queued" => pc'[k] = "queued"
    BY <1>1, <1>2, <2>1 DEF Waiting
  <2>2. ASSUME NEW m \in Messages, Send(m)  PROVE JobsOK'
    <3>1. /\ pc[m] # "queued"
          /\ pc' = [pc EXCEPT ![m] = "queued"]
          /\ channel' = Append(channel, m)
      BY <2>2 DEF Send
    <3> QED
      BY <1>1, <1>2, <3>1, AppendWaiting
  <2>3. ASSUME NEW m \in Messages, TakeJob(m)  PROVE JobsOK'
    <3>1. /\ channel # <<>>
          /\ pc' = [pc EXCEPT ![channel[1]] = "running"]
          /\ channel' = Tail(channel)
      BY <2>3, Heads DEF TakeJob
    <3> QED
      BY <1>1, <1>2, <3>1, TailWaiting
  <2>4. CASE StopWorker
    <3>1. channel' = <<>>
      BY <2>4 DEF StopWorker
    <3>2. Len(channel') = 0
      BY <3>1
    <3> QED
      BY <3>2 DEF Waiting
  <2> QED
    BY <2>1, <2>2, <2>3, <2>4, QueueMoves
<1> QED
  BY <1>3, <1>4 DEF QueuesOK, Waiting

-----------------------------------------------------------------------------
(* The theorems *)

LEMMA InitOrder == Init => OrderInv
<1> USE ConstantsAssumption DEF ConstantsAssumption
<1> SUFFICES ASSUME Init  PROVE OrderInv
  OBVIOUS
<1>1. <<>> \in Seq(Messages) /\ Len(<<>>) = 0
  BY EmptySeq
<1>2. slotQueue \in Seq(Messages) /\ channel \in Seq(Messages)
  BY <1>1, Zenon DEF Init
<1>3. /\ received \in 0 .. MaxMessages
      /\ kind \in [Messages -> {"unread", "notification", "request"}]
      /\ pc \in [Messages -> {"unread"} \cup NotificationStates \cup RequestStates]
      /\ tail \in Completions
      /\ previous \in [Messages -> Completions]
      /\ done \in [Completions -> BOOLEAN]
      /\ skippedTo \in [Completions -> Completions \cup {NoCompletion}]
      /\ current \in [Messages -> Completions]
      /\ waitPhase \in [Messages -> {"none", "register", "check", "parked"}]
      /\ notified \in [Messages -> BOOLEAN]
      /\ permits \in Int
      /\ worker \in Completions
      /\ serving \in BOOLEAN
      /\ workerAlive \in BOOLEAN
  BY DEF Init
<1> HIDE DEF Messages, Completions, NoCompletion, NotificationStates, RequestStates
<1>4. TypeOK
  BY <1>2, <1>3 DEF TypeOK
<1> USE DEF Messages, Completions, NoCompletion, NotificationStates, RequestStates
<1>5. QueuesOK
  <2>1. Len(slotQueue) = 0 /\ Len(channel) = 0
    BY <1>1 DEF Init
  <2> QED
    BY <2>1 DEF QueuesOK
<1>6. /\ received = 0 /\ tail = 0
      /\ \A m \in Messages : kind[m] = "unread" /\ pc[m] = "unread"
      /\ \A c \in Completions : skippedTo[c] = NoCompletion /\ (done[c] => c = 0)
  BY DEF Init
<1>7. ReadOK /\ KindsOK /\ ChainOK
  BY <1>6 DEF ReadOK, KindsOK, ChainOK, IsNotification, IsRequest
<1>8. CompletionsOK /\ WaitersOK /\ PastWaitOK
  BY <1>6 DEF CompletionsOK, WaitersOK, PastWaitOK
<1> QED
  BY <1>4, <1>5, <1>7, <1>8 DEF OrderInv

LEMMA StepOrder == OrderInv /\ [Next]_vars => OrderInv'
<1> SUFFICES ASSUME OrderInv, [Next]_vars  PROVE OrderInv'
  OBVIOUS
<1>1. TypeOK /\ QueuesOK /\ ReadOK /\ KindsOK /\ ChainOK
  BY DEF OrderInv
<1>2. TypeOK' /\ QueuesOK' /\ ReadOK' /\ KindsOK' /\ ChainOK'
  BY <1>1, TypesStep, QueuesStep, ReadStep, KindsStep, ChainStep
<1>3. CompletionsOK' /\ WaitersOK' /\ PastWaitOK'
  BY CompletionsStep, WaitersStep, PastWaitStep
<1> QED
  BY <1>2, <1>3 DEF OrderInv

LEMMA OrderInvariant == Spec => []OrderInv
BY InitOrder, StepOrder, PTL DEF Spec

\* Every variable of the queue keeps its type.
THEOREM TypeCorrect == Spec => []TypeOK
<1>1. OrderInv => TypeOK
  BY DEF OrderInv
<1> QED
  BY <1>1, OrderInvariant, PTL

\* A notification's body runs only when every notification sent before it is
\* settled: the client's order survives out-of-order polling, panics and drops.
THEOREM OrderCorrect == Spec => []JobsInOrder
<1>1. OrderInv => JobsInOrder
  BY DEF OrderInv, PastWaitOK, JobsInOrder, RunningJob
<1> QED
  BY <1>1, OrderInvariant, PTL

\* A request's handler starts only on a state every notification sent before it
\* has reached.
THEOREM BarrierCorrect == Spec => []RequestsSeeEarlier
<1>1. OrderInv => RequestsSeeEarlier
  BY DEF OrderInv, PastWaitOK, RequestsSeeEarlier
<1> QED
  BY <1>1, OrderInvariant, PTL

\* At most one job is handed over or running at any time: of two, the later one
\* has the earlier one settled before it.
THEOREM OneJobCorrect == Spec => []OneJobAtATime
<1>1. OrderInv => OneJobAtATime
  <2> SUFFICES ASSUME OrderInv, NEW m \in Messages, NEW k \in Messages,
                      IsNotification(m), IsNotification(k),
                      pc[m] \in {"ready", "queued", "running", "inline"},
                      pc[k] \in {"ready", "queued", "running", "inline"}
               PROVE  m = k
    BY DEF OneJobAtATime
  <2>1. EarlierSettled(m) /\ EarlierSettled(k)
    BY DEF OrderInv, PastWaitOK
  <2>2. ~(m < k) /\ ~(k < m)
    BY <2>1, ConstantsAssumption DEF ConstantsAssumption, EarlierSettled, Settled
  <2> QED
    BY <2>2, ConstantsAssumption DEF ConstantsAssumption
<1> QED
  BY <1>1, OrderInvariant, PTL

-----------------------------------------------------------------------------
(* The permits *)

Holders == {m \in Messages : HoldsPermit(m)}

\* What a step may do to the permits: leave them and their holders alone, give
\* a free one to a message, or take one back from its holder.
Moves(gains, loses) ==
    \/ Holders' = Holders /\ permits' = permits
    \/ \E m \in gains : Holders' = Holders \cup {m} /\ permits > 0 /\ permits' = permits - 1
    \/ \E m \in loses : Holders' = Holders \ {m} /\ permits' = permits + 1

LEMMA HoldersAre ==
    ASSUME TypeOK
    PROVE  /\ Holders \subseteq Messages
           /\ \A m \in Messages : m \in Holders <=> HoldsPermit(m)
           /\ IsFiniteSet(Holders)
           /\ Cardinality(Holders) \in Nat
<1>1. Holders \subseteq Messages /\ \A m \in Messages : m \in Holders <=> HoldsPermit(m)
  BY DEF Holders
<1>2. IsFiniteSet(Messages)
  BY ConstantsAssumption, FS_Interval DEF ConstantsAssumption
<1> QED
  BY <1>1, <1>2, FS_Subset, FS_CardinalityType

\* The job in the channel is the only one there is.
LEMMA ChannelHoldsOne ==
    ASSUME OrderInv
    PROVE  /\ Len(channel) \in {0, 1}
           /\ \A i \in 1 .. Len(channel) : channel[i] \in Holders
<1>1. \A i \in 1 .. Len(channel) : channel[i] \in Messages /\ pc[channel[i]] = "queued"
  BY ElementOfSeq DEF OrderInv, TypeOK, QueuesOK
<1>2. \A i \in 1 .. Len(channel) : IsNotification(channel[i]) /\ EarlierSettled(channel[i])
  BY <1>1 DEF OrderInv, TypeOK, KindsOK, PastWaitOK, IsNotification, IsRequest
<1>3. \A m, k \in Messages : /\ IsNotification(m) /\ IsNotification(k)
                            /\ pc[m] = "queued" /\ pc[k] = "queued"
                            /\ EarlierSettled(m) /\ EarlierSettled(k)
                            => m = k
  <2> SUFFICES ASSUME NEW m \in Messages, NEW k \in Messages,
                      IsNotification(m), IsNotification(k), pc[m] = "queued", pc[k] = "queued",
                      EarlierSettled(m), EarlierSettled(k)
               PROVE  m = k
    OBVIOUS
  <2>1. ~(m < k) /\ ~(k < m)
    BY ConstantsAssumption DEF ConstantsAssumption, EarlierSettled, Settled
  <2> QED
    BY <2>1, ConstantsAssumption DEF ConstantsAssumption
<1>4. \A i, j \in 1 .. Len(channel) : i = j
  <2>1. \A i, j \in 1 .. Len(channel) : channel[i] = channel[j]
    BY <1>1, <1>2, <1>3
  <2> QED
    BY <2>1 DEF OrderInv, QueuesOK
<1>5. Len(channel) \in Nat
  BY LenProperties DEF OrderInv, TypeOK
<1>6. Len(channel) \in {0, 1}
  <2>1. ASSUME Len(channel) > 1  PROVE FALSE
    <3>1. 1 \in 1 .. Len(channel) /\ 2 \in 1 .. Len(channel)
      BY <1>5, <2>1
    <3>2. 1 = 2
      BY <1>4, <3>1
    <3> QED
      BY <3>2
  <2>2. PICK n \in Nat : n = Len(channel)
    BY <1>5
  <2>3. n = 0 \/ n = 1
    BY <2>1, <2>2
  <2> QED
    BY <2>2, <2>3
<1> QED
  BY <1>1, <1>2, <1>6 DEF Holders, HoldsPermit

\* The holders, when one message moves on.
LEMMA HoldersAfter ==
    ASSUME TypeOK, NEW m \in Messages, NEW state, kind' = kind, pc' = [pc EXCEPT ![m] = state]
    PROVE  Holders' = IF /\ IsNotification(m)
                         /\ state \in {"waiting", "ready", "queued", "running", "inline"}
                      THEN Holders \cup {m} ELSE Holders \ {m}
<1>1. /\ pc'[m] = state
      /\ \A k \in Messages : k # m => pc'[k] = pc[k]
  BY DEF TypeOK
<1>2. HoldsPermit(m)' <=> /\ IsNotification(m)
                          /\ state \in {"waiting", "ready", "queued", "running", "inline"}
  BY <1>1 DEF HoldsPermit, IsNotification
<1>3. \A k \in Messages : k # m => (HoldsPermit(k)' <=> HoldsPermit(k))
  BY <1>1 DEF HoldsPermit, IsNotification
<1> QED
  BY <1>2, <1>3 DEF Holders

\* The holders, when nothing changes but what a message that holds none does.
LEMMA HoldersStay ==
    ASSUME TypeOK, \A m \in Messages : HoldsPermit(m)' <=> HoldsPermit(m)
    PROVE  Holders' = Holders
BY DEF Holders

LEMMA PermitMoves ==
    ASSUME OrderInv, [Next]_vars
    PROVE  Moves(Messages \ Holders, Holders)
<1> DEFINE Goal == Moves(Messages \ Holders, Holders)
<1>1. TypeOK /\ QueuesOK /\ ReadOK /\ KindsOK
  BY DEF OrderInv
<1>2. \A m \in Messages : m \in Holders <=> HoldsPermit(m)
  BY <1>1, HoldersAre
<1>3. \A m \in Messages : /\ IsNotification(m) => pc[m] \in NotificationStates
                          /\ IsRequest(m) => pc[m] \in RequestStates
                          /\ pc[m] # "unread" => IsNotification(m) \/ IsRequest(m)
                          /\ ~(IsNotification(m) /\ IsRequest(m))
  BY <1>1 DEF KindsOK, TypeOK, IsNotification, IsRequest
<1>4. CASE UNCHANGED vars
  BY <1>1, <1>4, HoldersStay DEF Moves, vars, slotVars, HoldsPermit, IsNotification
<1>5. ASSUME NEW m \in Messages, ReceiveNotification(m) \/ ReceiveRequest(m)  PROVE Goal
  <2>1. kind[m] = "unread"
    BY <1>1, <1>5 DEF ReceiveNotification, ReceiveRequest, ReadOK, TypeOK
  <2>2. /\ \A k \in Messages : k # m => pc'[k] = pc[k] /\ kind'[k] = kind[k]
        /\ kind'[m] = "request" \/ pc'[m] = "reserved"
    BY <1>1, <1>5 DEF ReceiveNotification, ReceiveRequest, TypeOK
  <2>3. ~HoldsPermit(m) /\ ~HoldsPermit(m)'
    BY <2>1, <2>2 DEF HoldsPermit, IsNotification
  <2>4. \A k \in Messages : k # m => (HoldsPermit(k)' <=> HoldsPermit(k))
    BY <2>2 DEF HoldsPermit, IsNotification
  <2>5. \A k \in Messages : HoldsPermit(k)' <=> HoldsPermit(k)
    BY <2>3, <2>4
  <2>6. permits' = permits
    BY <1>5 DEF ReceiveNotification, ReceiveRequest, slotVars
  <2> QED
    BY <1>1, <2>5, <2>6, HoldersStay DEF Moves
<1>6. ASSUME NEW m \in Messages, NEW state, ~HoldsPermit(m), pc' = [pc EXCEPT ![m] = state],
             state \in {"claimed", "unqueued", "dropped", "handling", "answered", "failed",
                        "cancelled"},
             kind' = kind, permits' = permits
      PROVE  Goal
  <2>1. Holders' = Holders \ {m}
    BY <1>1, <1>6, HoldersAfter
  <2> QED
    BY <1>2, <1>6, <2>1 DEF Moves
<1>7. ASSUME NEW m \in Messages, NEW state, HoldsPermit(m), pc' = [pc EXCEPT ![m] = state],
             state \in {"waiting", "ready", "queued", "running", "inline"},
             kind' = kind, permits' = permits
      PROVE  Goal
  <2>1. Holders' = Holders \cup {m}
    BY <1>1, <1>7, HoldersAfter DEF HoldsPermit
  <2> QED
    BY <1>2, <1>7, <2>1 DEF Moves
<1>8. ASSUME NEW m \in Messages, NEW state, HoldsPermit(m), pc' = [pc EXCEPT ![m] = state],
             state \in {"finished", "panicked", "dropped"},
             kind' = kind, permits' = permits + 1
      PROVE  Goal
  <2>1. Holders' = Holders \ {m}
    BY <1>1, <1>8, HoldersAfter
  <2> QED
    BY <1>2, <1>8, <2>1 DEF Moves
<1>9. ASSUME NEW m \in Messages, HandlerStep(m)  PROVE Goal
  <2>1. pc[m] = "reserved"
    BY <1>9 DEF HandlerStep, Claim, PollUnqueued, MayPoll
  <2> QED
    BY <1>6, <1>9, <2>1 DEF HandlerStep, Claim, PollUnqueued, HoldsPermit, slotVars
<1>10. ASSUME NEW m \in Messages, DropReservation(m)  PROVE Goal
  <2>1. ~HoldsPermit(m)
    BY <1>10 DEF DropReservation, HoldsPermit
  <2> QED
    BY <1>6, <1>10, <2>1 DEF DropReservation, slotVars
<1>11. ASSUME NEW m \in Messages, AcquireSlot(m)  PROVE Goal
  <2>1. pc[m] = "claimed"
    BY <1>1, <1>11, Heads DEF AcquireSlot
  <2>2. IsNotification(m)
    BY <1>3, <2>1
  <2>3. ~HoldsPermit(m)
    BY <2>1 DEF HoldsPermit
  <2>4. /\ permits > 0 /\ permits' = permits - 1
        /\ kind' = kind /\ pc' = [pc EXCEPT ![m] = "waiting"]
    BY <1>11 DEF AcquireSlot
  <2>5. Holders' = Holders \cup {m}
    BY <1>1, <2>2, <2>4, HoldersAfter
  <2> QED
    BY <1>2, <2>3, <2>4, <2>5 DEF Moves
<1>12. ASSUME NEW m \in Messages, DropClaimed(m)  PROVE Goal
  <2>1. ~HoldsPermit(m)
    BY <1>12 DEF DropClaimed, HoldsPermit
  <2>2. pc' = [pc EXCEPT ![m] = "dropped"] /\ kind' = kind /\ permits' = permits
    BY <1>12 DEF DropClaimed
  <2> QED
    BY <1>6, <2>1, <2>2
<1>13. ASSUME NEW m \in Messages, WaitDone(m)  PROVE Goal
  <2>1. /\ pc[m] = "waiting"
        /\ pc' = [pc EXCEPT ![m] = IF IsRequest(m) THEN "handling" ELSE "ready"]
        /\ kind' = kind /\ permits' = permits
    BY <1>13 DEF WaitDone, slotVars
  <2>2. CASE IsRequest(m)
    BY <1>3, <1>6, <2>1, <2>2 DEF HoldsPermit
  <2>3. CASE ~IsRequest(m)
    BY <1>3, <1>7, <2>1, <2>3 DEF HoldsPermit
  <2> QED
    BY <2>2, <2>3
<1>14. ASSUME NEW m \in Messages, WaitRegister(m) \/ WaitFollow(m) \/ WaitPark(m) \/ WaitWake(m)
       PROVE  Goal
  <2>1. pc' = pc /\ kind' = kind /\ permits' = permits
    BY <1>14 DEF WaitRegister, WaitFollow, WaitPark, WaitWake, slotVars
  <2> QED
    BY <1>1, <2>1, HoldersStay DEF Moves, HoldsPermit, IsNotification
<1>15. ASSUME NEW m \in Messages, Send(m) \/ RunInline(m)  PROVE Goal
  <2>1. pc[m] = "ready"
    BY <1>15 DEF Send, RunInline
  <2>2. HoldsPermit(m)
    BY <1>3, <2>1 DEF HoldsPermit
  <2> QED
    BY <1>7, <1>15, <2>2 DEF Send, RunInline, slotVars
<1>16. ASSUME NEW m \in Messages, TakeJob(m)  PROVE Goal
  <2>1. /\ pc[m] = "queued"
        /\ pc' = [pc EXCEPT ![m] = "running"]
        /\ kind' = kind /\ permits' = permits
    BY <1>1, <1>16, Heads DEF TakeJob, slotVars
  <2>2. HoldsPermit(m)
    BY <1>3, <2>1 DEF HoldsPermit
  <2> QED
    BY <1>7, <2>1, <2>2
<1>17. ASSUME NEW m \in Messages, JobStep(m) \/ DropSender(m)  PROVE Goal
  <2>1. HoldsPermit(m)
    BY <1>17 DEF JobStep, FinishJob, PanicJob, DropSender, RunningJob, HoldsPermit
  <2> QED
    BY <1>8, <1>17, <2>1 DEF JobStep, FinishJob, PanicJob, DropSender
<1>18. ASSUME NEW m \in Messages, FinishRequest(m) \/ CancelRequest(m)  PROVE Goal
  <2>1. ~HoldsPermit(m)
    BY <1>3, <1>18 DEF FinishRequest, CancelRequest, HoldsPermit
  <2> QED
    BY <1>6, <1>18, <2>1 DEF FinishRequest, CancelRequest, slotVars
<1>19. CASE StopServing
  BY <1>1, <1>19, HoldersStay DEF StopServing, Moves, slotVars, HoldsPermit, IsNotification
<1>20. CASE StopWorker
  <2>1. CASE Len(channel) = 0
    <3>1. {channel[i] : i \in DOMAIN channel} = {}
      BY <1>1, <2>1, LenProperties DEF TypeOK
    <3>2. \A m \in Messages : pc'[m] = pc[m]
      BY <1>20, <3>1 DEF StopWorker
    <3>3. permits' = permits /\ kind' = kind
      BY <1>1, <1>20, <2>1 DEF StopWorker, TypeOK
    <3> QED
      BY <1>1, <3>2, <3>3, HoldersStay DEF Moves, HoldsPermit, IsNotification
  <2>2. CASE Len(channel) = 1
    <3>1. channel[1] \in Holders /\ channel[1] \in Messages
      BY <1>1, <2>2, ChannelHoldsOne, HoldersAre
    <3>2. {channel[i] : i \in DOMAIN channel} = {channel[1]}
      BY <1>1, <2>2, LenProperties DEF TypeOK
    <3>3. pc' = [pc EXCEPT ![channel[1]] = "dropped"]
      BY <1>1, <1>20, <3>1, <3>2 DEF StopWorker, TypeOK
    <3>4. permits' = permits + 1 /\ kind' = kind
      BY <1>20, <2>2 DEF StopWorker
    <3> QED
      BY <1>2, <1>8, <3>1, <3>3, <3>4
  <2> QED
    BY <2>1, <2>2, ChannelHoldsOne
<1> QED
  BY <1>4, <1>5, <1>9, <1>10, <1>11, <1>12, <1>13, <1>14, <1>15, <1>16, <1>17, <1>18, <1>19,
     <1>20 DEF Next, SenderStep, WaitStep

\* Whatever panics, is dropped or closes, every permit of sender_slots is free
\* or held by one sender or job.
THEOREM PermitsCorrect == Spec => []PermitsAccounted
<1>1. Init => PermitsAccounted
  <2> SUFFICES ASSUME Init  PROVE PermitsAccounted
    OBVIOUS
  <2>1. {m \in Messages : HoldsPermit(m)} = {}
    BY DEF Init, HoldsPermit, IsNotification
  <2>2. permits = SenderSlots /\ SenderSlots \in Nat
    BY ConstantsAssumption DEF ConstantsAssumption, Init
  <2>3. Cardinality({m \in Messages : HoldsPermit(m)}) = 0
    BY <2>1, FS_EmptySet
  <2> QED
    BY <2>2, <2>3 DEF PermitsAccounted
<1>2. OrderInv /\ PermitsAccounted /\ [Next]_vars => PermitsAccounted'
  <2> SUFFICES ASSUME OrderInv, PermitsAccounted, [Next]_vars  PROVE PermitsAccounted'
    OBVIOUS
  <2>1. permits >= 0 /\ permits + Cardinality(Holders) = SenderSlots /\ permits \in Int
    BY DEF PermitsAccounted, Holders, OrderInv, TypeOK
  <2>2. IsFiniteSet(Holders) /\ Cardinality(Holders) \in Nat
    BY HoldersAre DEF OrderInv
  <2>3. permits' >= 0 /\ permits' + Cardinality(Holders') = SenderSlots
    <3>1. CASE Holders' = Holders /\ permits' = permits
      BY <2>1, <3>1
    <3>2. ASSUME NEW m \in Messages \ Holders, Holders' = Holders \cup {m},
                 permits > 0, permits' = permits - 1
          PROVE permits' >= 0 /\ permits' + Cardinality(Holders') = SenderSlots
      <4>1. Cardinality(Holders') = Cardinality(Holders) + 1
        BY <2>2, <3>2, FS_AddElement
      <4> QED
        BY <2>1, <2>2, <3>2, <4>1
    <3>3. ASSUME NEW m \in Holders, Holders' = Holders \ {m}, permits' = permits + 1
          PROVE permits' >= 0 /\ permits' + Cardinality(Holders') = SenderSlots
      <4>1. Cardinality(Holders') = Cardinality(Holders) - 1
        BY <2>2, <3>3, FS_RemoveElement
      <4> QED
        BY <2>1, <2>2, <3>3, <4>1
    <3> QED
      BY <3>1, <3>2, <3>3, PermitMoves DEF Moves
  <2> QED
    BY <2>3 DEF PermitsAccounted, Holders
<1> QED
  BY <1>1, <1>2, OrderInvariant, PTL DEF Spec

-----------------------------------------------------------------------------
(* No lost wake-up *)

\* How a waiter comes to be parked.
LEMMA HowParked ==
    ASSUME OrderInv, [Next]_vars, NEW m \in Messages,
           pc'[m] = "waiting", waitPhase'[m] = "parked"
    PROVE  \/ WaitPark(m)
           \/ /\ pc[m] = "waiting"
              /\ waitPhase[m] = "parked"
              /\ current'[m] = current[m]
              /\ notified[m] => notified'[m]
<1> USE DEF OrderInv
<1> DEFINE Goal == \/ WaitPark(m)
                   \/ /\ pc[m] = "waiting"
                      /\ waitPhase[m] = "parked"
                      /\ current'[m] = current[m]
                      /\ notified[m] => notified'[m]
<1>1. CASE UNCHANGED vars
  BY <1>1 DEF vars, waitVars
<1>2. ASSUME NEW k \in Messages, ReceiveNotification(k)  PROVE Goal
  BY <1>2 DEF TypeOK, ReceiveNotification, waitVars
<1>3. ASSUME NEW k \in Messages, ReceiveRequest(k)  PROVE Goal
  BY <1>3 DEF TypeOK, ReceiveRequest, BeginWait
<1>4. ASSUME NEW k \in Messages, AcquireSlot(k)  PROVE Goal
  <2>1. /\ pc' = [pc EXCEPT ![k] = "waiting"]
        /\ current' = [current EXCEPT ![k] = previous[k]]
        /\ waitPhase' = [waitPhase EXCEPT ![k] = "register"]
        /\ notified' = notified
    BY <1>4 DEF AcquireSlot, BeginWait
  <2> QED
    BY <2>1 DEF TypeOK
<1>5. ASSUME NEW k \in Messages, TakeJob(k)  PROVE Goal
  <2>1. /\ pc' = [pc EXCEPT ![k] = "running"]
        /\ UNCHANGED waitVars
    BY <1>5 DEF TakeJob
  <2> QED
    BY <2>1 DEF TypeOK, waitVars
<1>6. ASSUME NEW k \in Messages, HandlerStep(k)  PROVE Goal
  BY <1>6 DEF TypeOK, HandlerStep, Claim, PollUnqueued, waitVars
<1>7. ASSUME NEW k \in Messages,
             DropReservation(k) \/ DropClaimed(k) \/ DropSender(k) \/ PanicJob(k)
      PROVE  Goal
  BY <1>7 DEF TypeOK, DropReservation, DropClaimed, DropSender, PanicJob, SkipTo,
              NotifyWaiters
<1>8. ASSUME NEW k \in Messages, FinishJob(k)  PROVE Goal
  BY <1>8 DEF TypeOK, FinishJob, Complete, NotifyWaiters
<1>9. ASSUME NEW k \in Messages, WaitStep(k)  PROVE Goal
  <2>1. CASE k = m
    BY <1>9, <2>1 DEF TypeOK, WaitStep, WaitRegister, WaitDone, WaitFollow,
                      WaitWake, BeginWait
  <2>2. CASE k # m
    BY <1>9, <2>2 DEF TypeOK, WaitStep, WaitRegister, WaitDone, WaitFollow,
                      WaitPark, WaitWake, BeginWait
  <2> QED
    BY <2>1, <2>2
<1>10. ASSUME NEW k \in Messages, Send(k) \/ RunInline(k)  PROVE Goal
  BY <1>10 DEF TypeOK, Send, RunInline, waitVars
<1>11. ASSUME NEW k \in Messages, FinishRequest(k) \/ CancelRequest(k)  PROVE Goal
  BY <1>11 DEF TypeOK, FinishRequest, CancelRequest, waitVars
<1>12. CASE StopServing
  BY <1>12 DEF StopServing, waitVars
<1>13. CASE StopWorker
  <2>1. pc'[m] = pc[m] /\ UNCHANGED <<current, waitPhase>>
    BY <1>13 DEF StopWorker, TypeOK
  <2>2. notified[m] => notified'[m]
    BY <1>13 DEF StopWorker, SkipTo, NotifyWaiters
  <2> QED
    BY <2>1, <2>2
<1> QED
  BY <1>1, <1>2, <1>3, <1>4, <1>5, <1>6, <1>7, <1>8, <1>9, <1>10, <1>11, <1>12,
     <1>13 DEF Next, SenderStep, JobStep

LEMMA StepWakeup ==
    ASSUME OrderInv, NoLostWakeup, [Next]_vars
    PROVE  NoLostWakeup'
<1> USE DEF OrderInv
<1> SUFFICES ASSUME NEW m \in Messages, pc'[m] = "waiting", waitPhase'[m] = "parked",
                    done'[current'[m]] \/ skippedTo'[current'[m]] # NoCompletion
             PROVE  notified'[m]
  BY DEF NoLostWakeup
<1> DEFINE c == current[m]
<1>1. CASE WaitPark(m)
  BY <1>1 DEF WaitPark, completionVars
<1>2. CASE /\ pc[m] = "waiting"
           /\ waitPhase[m] = "parked"
           /\ current'[m] = current[m]
           /\ notified[m] => notified'[m]
  <2>1. CASE done[c] \/ skippedTo[c] # NoCompletion
    BY <1>2, <2>1 DEF NoLostWakeup
  <2>2. CASE ~done[c] /\ skippedTo[c] = NoCompletion
    <3>1. c \in Completions /\ (done'[c] \/ skippedTo'[c] # NoCompletion)
      BY <1>2 DEF TypeOK
    <3>2. ASSUME NEW k \in Messages, FinishJob(k)  PROVE notified'[m]
      BY <1>2, <2>2, <3>1, <3>2 DEF TypeOK, FinishJob, Complete, NotifyWaiters
    <3>3. ASSUME NEW cs \in SUBSET Messages, SkipTo(cs)  PROVE notified'[m]
      BY <1>2, <2>2, <3>1, <3>3 DEF TypeOK, SkipTo, NotifyWaiters
    <3> QED
      BY <2>2, <3>1, <3>2, <3>3, CompletionChanges
  <2> QED
    BY <2>1, <2>2
<1> QED
  BY <1>1, <1>2, HowParked

\* A parked waiter whose completion is done or skipped has been notified: no
\* wake-up falls between the check and the park.
THEOREM WakeupCorrect == Spec => []NoLostWakeup
<1>1. Init => NoLostWakeup
  BY DEF Init, NoLostWakeup
<1>2. OrderInv /\ NoLostWakeup /\ [Next]_vars => NoLostWakeup'
  BY StepWakeup
<1> QED
  BY <1>1, <1>2, OrderInvariant, PTL DEF Spec

-----------------------------------------------------------------------------
(* The queue implements OrderedNotifications *)

LEMMA StageValues ==
    ASSUME NEW m \in Messages
    PROVE  /\ Stage(m) = "settled" <=> Over(m)
           /\ Stage(m) = "running" <=> pc[m] \in {"running", "inline", "handling"}
           /\ Stage(m) \in {"pending", "running", "settled"}
BY DEF Stage, Over

\* One message moves on: it starts with all before it settled, or it settles.
LEMMA OneMove ==
    ASSUME TypeOK, NEW m \in Messages, NEW x,
           kind' = kind, kind[m] # "unread", pc' = [pc EXCEPT ![m] = x],
           \/ Stage(m)' = Stage(m)
           \/ Stage(m) # "settled" /\ Stage(m)' = "settled"
           \/ Stage(m) = "pending" /\ Stage(m)' = "running" /\ EarlierSettled(m)
    PROVE  [Ordered!Next]_(Ordered!vars)
<1> DEFINE state == [k \in Messages |-> Stage(k)]
<1>1. \A k \in Messages : k # m => Stage(k)' = Stage(k)
  BY DEF Stage, Over, TypeOK
<1>2. CASE Stage(m)' = Stage(m)
  <2>1. state' = state
    BY <1>1, <1>2
  <2> QED
    BY <2>1 DEF Ordered!vars
<1>3. state' = [state EXCEPT ![m] = Stage(m)']
  BY <1>1
<1>4. CASE Stage(m) # "settled" /\ Stage(m)' = "settled"
  <2>1. state[m] \in {"pending", "running"}
    BY <1>4, StageValues
  <2>2. Ordered!Settle(m)
    BY <1>3, <1>4, <2>1 DEF Ordered!Settle
  <2> QED
    BY <2>2 DEF Ordered!Next
<1>5. CASE Stage(m) = "pending" /\ Stage(m)' = "running" /\ EarlierSettled(m)
  <2>1. \A k \in Ordered!Earlier(m) : Ordered!Settled(k)
    BY <1>5, StageValues, ConstantsAssumption
    DEF ConstantsAssumption, Ordered!Earlier, Ordered!Settled, EarlierSettled,
        IsNotification, Settled, Over
  <2>2. Ordered!Start(m)
    BY <1>3, <1>5, <2>1 DEF Ordered!Start
  <2> QED
    BY <2>2 DEF Ordered!Next
<1> QED
  BY <1>2, <1>4, <1>5

LEMMA StepImplements ==
    ASSUME OrderInv, [Next]_vars
    PROVE  [Ordered!Next]_(Ordered!vars)
<1> USE DEF OrderInv
<1> DEFINE Goal == [Ordered!Next]_(Ordered!vars)
           state == [k \in Messages |-> Stage(k)]
<1>1. CASE UNCHANGED <<kind, pc>>
  BY <1>1 DEF Ordered!vars, Stage, Over
<1>2. ASSUME NEW m \in Messages, NEW x \in {"reserved", "waiting"}, NEW t,
             t \in {"notification", "request"}, m = received + 1,
             pc' = [pc EXCEPT ![m] = x], kind' = [kind EXCEPT ![m] = t]
      PROVE  Goal
  <2>1. kind[m] = "unread" /\ \A k \in Messages : k < m => kind[k] # "unread"
    BY <1>2, ConstantsAssumption DEF ConstantsAssumption, TypeOK, ReadOK
  <2>2. pc[m] = "unread"
    BY <2>1 DEF KindsOK
  <2>3. \A k \in Messages : Stage(k)' = Stage(k)
    BY <1>2, <2>2 DEF Stage, Over, TypeOK
  <2>4. state' = state
    BY <2>3
  <2>5. Ordered!Read(m)
    BY <1>2, <2>1, <2>4 DEF Ordered!Read
  <2> QED
    BY <2>5 DEF Ordered!Next
<1>3. ASSUME NEW m \in Messages, ReceiveNotification(m) \/ ReceiveRequest(m)
      PROVE  Goal
  BY <1>2, <1>3 DEF ReceiveNotification, ReceiveRequest
<1>4. ASSUME NEW m \in Messages, kind[m] # "unread", kind' = kind,
             ~Over(m), NEW x, pc' = [pc EXCEPT ![m] = x],
             \/ x \in {"finished", "panicked", "dropped", "answered", "failed",
                       "cancelled"}
             \/ /\ x \in {"running", "inline", "handling"}
                /\ pc[m] \notin {"running", "inline", "handling"}
                /\ EarlierSettled(m)
             \/ /\ x \in {"claimed", "unqueued", "waiting", "ready", "queued"}
                /\ pc[m] \notin {"running", "inline", "handling"}
      PROVE  Goal
  <2>1. pc'[m] = x
    BY <1>4 DEF TypeOK
  <2>2. \/ Stage(m)' = Stage(m)
        \/ Stage(m) # "settled" /\ Stage(m)' = "settled"
        \/ Stage(m) = "pending" /\ Stage(m)' = "running" /\ EarlierSettled(m)
    BY <1>4, <2>1 DEF Stage, Over
  <2> QED
    BY <1>4, <2>2, OneMove
<1>5. ASSUME NEW m \in Messages, AcquireSlot(m)  PROVE Goal
  <2>1. pc[m] = "claimed" /\ kind' = kind /\ pc' = [pc EXCEPT ![m] = "waiting"]
    BY <1>5, Heads DEF AcquireSlot
  <2> QED
    BY <2>1, <1>4 DEF KindsOK, Over
<1>6. ASSUME NEW m \in Messages, TakeJob(m)  PROVE Goal
  <2>1. pc[m] = "queued" /\ kind' = kind /\ pc' = [pc EXCEPT ![m] = "running"]
    BY <1>6, Heads DEF TakeJob
  <2> QED
    BY <2>1, <1>4 DEF KindsOK, PastWaitOK, Over
<1>7. ASSUME NEW m \in Messages, WaitDone(m)  PROVE Goal
  <2>1. pc'[m] \in {"ready", "handling"}
    BY <1>7 DEF WaitDone, TypeOK
  <2>2. EarlierSettled(m)
    <3>1. EarlierSettled(m)'
      BY <2>1, PastWaitStep DEF PastWaitOK
    <3>2. ASSUME NEW k \in Messages, k # m  PROVE pc'[k] = pc[k]
      BY <1>7, <3>2 DEF WaitDone, TypeOK
    <3> QED
      BY <1>7, <3>1, <3>2, ConstantsAssumption
      DEF ConstantsAssumption, WaitDone, EarlierSettled, IsNotification, Settled
  <2>3. PICK x \in {"ready", "handling"} : pc' = [pc EXCEPT ![m] = x]
    BY <1>7 DEF WaitDone
  <2>4. kind' = kind /\ kind[m] # "unread" /\ pc[m] = "waiting"
    BY <1>7 DEF WaitDone, KindsOK
  <2> QED
    BY <2>2, <2>3, <2>4, <1>4 DEF Over
<1>8. ASSUME NEW m \in Messages,
             WaitRegister(m) \/ WaitFollow(m) \/ WaitPark(m) \/ WaitWake(m)
      PROVE  Goal
  BY <1>8, <1>1 DEF WaitRegister, WaitFollow, WaitPark, WaitWake
<1>9. ASSUME NEW m \in Messages, Claim(m)  PROVE Goal
  BY <1>9, <1>4 DEF Claim, MayPoll, KindsOK, Over
<1>10. ASSUME NEW m \in Messages, PollUnqueued(m)  PROVE Goal
  BY <1>10, <1>4 DEF PollUnqueued, MayPoll, KindsOK, Over
<1>11. ASSUME NEW m \in Messages, Send(m)  PROVE Goal
  BY <1>11, <1>4 DEF Send, KindsOK, Over
<1>12. ASSUME NEW m \in Messages, RunInline(m)  PROVE Goal
  BY <1>12, <1>4 DEF RunInline, KindsOK, PastWaitOK, Over
<1>13. ASSUME NEW m \in Messages, DropReservation(m)  PROVE Goal
  BY <1>13, <1>4 DEF DropReservation, KindsOK, Over
<1>14. ASSUME NEW m \in Messages, DropClaimed(m)  PROVE Goal
  BY <1>14, <1>4 DEF DropClaimed, KindsOK, Over
<1>15. ASSUME NEW m \in Messages, DropSender(m)  PROVE Goal
  BY <1>15, <1>4 DEF DropSender, KindsOK, Over
<1>16. ASSUME NEW m \in Messages, JobStep(m)  PROVE Goal
  BY <1>16, <1>4 DEF JobStep, FinishJob, PanicJob, RunningJob, KindsOK, Over
<1>17. ASSUME NEW m \in Messages, FinishRequest(m)  PROVE Goal
  BY <1>17, <1>4 DEF FinishRequest, KindsOK, Over
<1>18. ASSUME NEW m \in Messages, CancelRequest(m)  PROVE Goal
  BY <1>18, <1>4 DEF CancelRequest, KindsOK, Over
<1>19. CASE StopWorker
  <2> DEFINE lost == {channel[i] : i \in DOMAIN channel}
  <2>1. DOMAIN channel = 1 .. Len(channel) /\ channel \in [DOMAIN channel -> Messages]
    BY LenProperties DEF TypeOK
  <2>2. /\ pc' = [k \in Messages |-> IF k \in lost THEN "dropped" ELSE pc[k]]
        /\ kind' = kind
    BY <1>19 DEF StopWorker
  <2>3. lost \subseteq Messages /\ \A k \in lost : pc[k] = "queued"
    BY <2>1 DEF QueuesOK
  <2> HIDE DEF lost
  <2>4. \A k \in lost : IsNotification(k) /\ EarlierSettled(k)
    BY <2>3 DEF KindsOK, PastWaitOK, IsNotification, IsRequest, TypeOK
  <2>5. ASSUME NEW j \in lost, NEW k \in lost  PROVE j = k
    <3>1. ~(j < k) /\ ~(k < j)
      BY <2>3, <2>4, ConstantsAssumption
      DEF ConstantsAssumption, EarlierSettled, Settled
    <3> QED
      BY <2>3, <3>1, ConstantsAssumption DEF ConstantsAssumption
  <2>6. CASE lost = {}
    BY <2>2, <2>6, <1>1 DEF TypeOK
  <2>7. ASSUME NEW m \in lost  PROVE Goal
    <3>1. pc' = [pc EXCEPT ![m] = "dropped"]
      BY <2>2, <2>3, <2>5 DEF TypeOK
    <3> QED
      BY <2>2, <2>3, <3>1, <1>4 DEF KindsOK, Over
  <2> QED
    BY <2>6, <2>7
<1>20. CASE StopServing \/ UNCHANGED vars
  BY <1>20, <1>1 DEF StopServing, vars
<1> QED
  BY <1>3, <1>5, <1>6, <1>7, <1>8, <1>9, <1>10, <1>11, <1>12, <1>13, <1>14, <1>15,
     <1>16, <1>17, <1>18, <1>19, <1>20
  DEF Next, HandlerStep, SenderStep, WaitStep

\* The queue implements OrderedNotifications: whatever the executor, the worker
\* and the senders do, handlers take effect in the order the client sent them.
THEOREM Implementation == Spec => ImplementsOrder
<1>1. Init => Ordered!Init
  BY DEF Init, Ordered!Init, Stage, Over
<1>2. OrderInv /\ [Next]_vars => [Ordered!Next]_(Ordered!vars)
  BY StepImplements
<1> QED
  BY <1>1, <1>2, OrderInvariant, PTL DEF Spec, ImplementsOrder, Ordered!Spec
=============================================================================
