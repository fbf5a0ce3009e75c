--------------------------- MODULE LifecycleProofs ---------------------------
(***************************************************************************)
(* The safety of Lifecycle, for any number of clones of a broker, any       *)
(* acknowledgements and a request queue of any size.                        *)
(***************************************************************************)
EXTENDS Lifecycle, TLAPS

\* A caller that connect gave the connection of the cell.
Given == {"connected", "shut", "overdue"} \cup Closing

\* Whose task is whose: a task that no caller waits for and that the cell does not
\* keep has been told to stop.
Owned ==
  /\ \A c \in Callers : pc[c] \in {"idle", "calling"} =>
       task[c] = "none" /\ first[c] = "open" /\ ~closed[c]
  /\ \A c, d \in Callers : pc[c] \in Initializing /\ pc[d] \in Initializing => c = d
  /\ cell # NoCaller =>
       pc[cell] \in Given /\ first[cell] = "ok" /\ \A c \in Callers : pc[c] \notin Initializing
  /\ \A c \in Callers : pc[c] \in Given => cell # NoCaller
  /\ \A t \in Callers : task[t] \in Running /\ ~closed[t] =>
       pc[t] \in {"waiting", "late"} \/ cell = t
  /\ \A t \in Callers : watch[t] # "off" => task[t] = "recovering"

\* What a task said is where it is.
Answered ==
  /\ \A t \in Callers : first[t] \in {"refused", "dropped"} => task[t] \in Leaving
  /\ \A t \in Callers : first[t] = "ok" => task[t] \notin {"none", "dialing", "pausing"}
  /\ \A t \in Callers : pc[t] = "waiting" /\ first[t] = "open" =>
       task[t] \in {"dialing", "pausing"} /\ ~closed[t]
  /\ ReasonGiven

\* Whoever is past its close has set the flag.
Told ==
  /\ \A c \in Callers : pc[c] \in {"late_marked", "late_told"} => closed[c]
  /\ \A c \in Callers : pc[c] \in Given \ {"connected"} => closed[cell]

\* A shutdown that is woken or has returned finds the task past its exit.
Woken ==
  /\ \A c \in woken : cell # NoCaller /\ task[cell] \in {"notified", "over"}
  /\ \A c \in Callers : pc[c] = "shut" => task[cell] \in Exited

\* The requests queued: an acknowledgement once, in the queue of the cell's task and
\* while it is to be written; a DISCONNECT behind every early one, once closed.
Queues ==
  /\ \A t \in Callers : \A n \in DOMAIN queue[t] :
       /\ queue[t][n] = Disconnect => closed[t]
       /\ queue[t][n] \in Acks => t = cell /\ acks[queue[t][n]] = "queued"
  /\ \A t \in Callers : \A m, n \in DOMAIN queue[t] :
       /\ queue[t][m] \in Acks /\ queue[t][m] = queue[t][n] => m = n
       /\ queue[t][m] \in early /\ queue[t][n] = Disconnect => m < n
  /\ \A a \in Acks : acks[a] = "queued" => cell # NoCaller /\ a \in Queued(cell)

\* An early acknowledgement that is not written yet will be: the task is in its loop.
Early ==
  \A a \in early : /\ acks[a] \notin {"none", "dropped", "refused"}
                   /\ acks[a] = "queued" => task[cell] \in Running

Ownership == TypeOK /\ Owned /\ Answered /\ Told
Wakes     == Woken /\ WakeUpsReach
IInv      == Ownership /\ Wakes /\ Queues /\ Early

-----------------------------------------------------------------------------
(* Type correctness.                                                       *)

QueuesType ==
  /\ queue \in [Callers -> Seq(Acks \cup {Disconnect})]
  /\ \A c \in Callers : Len(queue[c]) <= Capacity

\* A request that finds room leaves every queue within its places.
LEMMA EnqueueType ==
  ASSUME TypeOK, NEW t \in Callers \cup {NoCaller}, NEW request \in Acks \cup {Disconnect},
         Room(t), queue' = Enqueued(t, request)
  PROVE  QueuesType'
<1> USE LifecycleAssumption DEF TypeOK, QueuesType, Enqueued
<1>1. CASE t = NoCaller
  BY <1>1
<1>2. CASE t \in Callers
  <2>1. Append(queue[t], request) \in Seq(Acks \cup {Disconnect})
    BY <1>2
  <2>2. Len(Append(queue[t], request)) <= Capacity
    BY <1>2, Room(t) DEF Room
  <2>3. QED
    BY <1>2, <2>1, <2>2
<1>3. QED
  BY <1>1, <1>2

\* A queue that goes with its connection takes the acknowledgements in it along.
LEMMA AbandonType ==
  ASSUME TypeOK, NEW t \in Callers, NEW as \in {"lost", "dropped"}, Abandon(t, as)
  PROVE  /\ QueuesType'
         /\ acks' \in [Acks -> {"none", "queued", "written", "lost", "dropped", "refused"}]
<1> USE DEF TypeOK, QueuesType, Abandon
<1>1. acks' \in [Acks -> {"none", "queued", "written", "lost", "dropped", "refused"}]
  OBVIOUS
<1>2. QueuesType'
  BY LifecycleAssumption
<1>3. QED
  BY <1>1, <1>2

\* Every step keeps the types.
LEMMA TypeStep == TypeOK /\ [Next]_vars => TypeOK'
<1> SUFFICES ASSUME TypeOK, [Next]_vars PROVE TypeOK'
  OBVIOUS
<1> USE LifecycleAssumption DEF TypeOK, Initializing, Closing, Running, Leaving, Queued,
     callerVars, taskVars, ackVars, vars
<1>1. ASSUME NEW c \in Callers, Call(c) PROVE TypeOK'
  BY <1>1 DEF Call, Goto
<1>2. ASSUME NEW c \in Callers, Initialize(c) PROVE TypeOK'
  BY <1>2 DEF Initialize, Goto
<1>3. ASSUME NEW c \in Callers, Share(c) PROVE TypeOK'
  BY <1>3 DEF Share, Goto
<1>4. ASSUME NEW c \in Callers, Established(c) PROVE TypeOK'
  BY <1>4 DEF Established, Goto
<1>5. ASSUME NEW c \in Callers, Rejected(c) PROVE TypeOK'
  BY <1>5 DEF Rejected, Goto
<1>6. ASSUME NEW c \in Callers, TimeOut(c) PROVE TypeOK'
  BY <1>6 DEF TimeOut, Goto
<1>7. ASSUME NEW c \in Callers, LateClose(c) PROVE TypeOK'
  BY <1>7 DEF LateClose, Goto
<1>8. ASSUME NEW c \in Callers, LateNotify(c) PROVE TypeOK'
  BY <1>8 DEF LateNotify, Goto, Wake
<1>9. ASSUME NEW c \in Callers, LateDisconnect(c) PROVE TypeOK'
  BY <1>9 DEF LateDisconnect, Goto, Room, Enqueued
<1>10. ASSUME NEW c \in Callers, Shutdown(c) PROVE TypeOK'
  BY <1>10 DEF Shutdown, Goto
<1>11. ASSUME NEW c \in Callers, ShutdownNotify(c) PROVE TypeOK'
  BY <1>11 DEF ShutdownNotify, Goto, Wake
<1>12. ASSUME NEW c \in Callers, ShutdownQueue(c) PROVE TypeOK'
  <2>1. CASE Room(cell) /\ queue' = Enqueued(cell, Disconnect)
    BY <1>12, <2>1, EnqueueType DEF QueuesType, ShutdownQueue, Goto
  <2>2. CASE UNCHANGED queue
    BY <1>12, <2>2 DEF ShutdownQueue, Goto
  <2>3. QED
    BY <1>12, <2>1, <2>2 DEF ShutdownQueue
<1>13. ASSUME NEW c \in Callers, StoppedRegister(c) PROVE TypeOK'
  BY <1>13 DEF StoppedRegister, Goto
<1>14. ASSUME NEW c \in Callers, StoppedCheck(c) PROVE TypeOK'
  BY <1>14 DEF StoppedCheck, Goto
<1>15. ASSUME NEW c \in Callers, StoppedWoken(c) PROVE TypeOK'
  BY <1>15 DEF StoppedWoken, Goto
<1>16. ASSUME NEW c \in Callers, FlushTimeOut(c) PROVE TypeOK'
  BY <1>16 DEF FlushTimeOut, Goto
<1>17. ASSUME NEW c \in Callers, DialFails(c) PROVE TypeOK'
  BY <1>17 DEF DialFails, Move
<1>18. ASSUME NEW c \in Callers, DialRefused(c) PROVE TypeOK'
  BY <1>18 DEF DialRefused, Move
<1>19. ASSUME NEW c \in Callers, PauseEnds(c) PROVE TypeOK'
  BY <1>19 DEF PauseEnds, Move
<1>20. ASSUME NEW c \in Callers, Connack(c) PROVE TypeOK'
  BY <1>20 DEF Connack, Move
<1>21. ASSUME NEW c \in Callers, Stall(c) PROVE TypeOK'
  BY <1>21 DEF Stall
<1>22. ASSUME NEW c \in Callers, Write(c) PROVE TypeOK'
  <2>1. /\ queue' \in [Callers -> Seq(Acks \cup {Disconnect})]
        /\ \A d \in Callers : Len(queue'[d]) <= Capacity
    BY <1>22 DEF Write
  <2>2. CASE Head(queue[c]) = Disconnect
    BY <1>22, <2>1, <2>2 DEF Write, Move
  <2>3. CASE Head(queue[c]) # Disconnect
    <3>1. Head(queue[c]) \in Acks
      BY <1>22, <2>3 DEF Write
    <3>2. QED
      BY <1>22, <2>1, <2>3, <3>1 DEF Write
  <2>4. QED
    BY <2>2, <2>3
<1>23. ASSUME NEW c \in Callers, Lose(c) PROVE TypeOK'
  <2>1. /\ queue' \in [Callers -> Seq(Acks \cup {Disconnect})]
        /\ \A d \in Callers : Len(queue'[d]) <= Capacity
        /\ acks' \in [Acks -> {"none", "queued", "written", "lost", "dropped", "refused"}]
    BY <1>23, AbandonType DEF Lose, QueuesType
  <2>2. CASE Move(c, "leaving") /\ closed' = [closed EXCEPT ![c] = TRUE]
    BY <1>23, <2>1, <2>2 DEF Lose, Move, Abandon
  <2>3. CASE Move(c, "recovering") /\ UNCHANGED closed
    BY <1>23, <2>1, <2>3 DEF Lose, Move, Abandon
  <2>4. QED
    BY <1>23, <2>2, <2>3 DEF Lose
<1>24. ASSUME NEW c \in Callers, RecoveryEnds(c) PROVE TypeOK'
  BY <1>24 DEF RecoveryEnds, Move, Abandon
<1>25. ASSUME NEW c \in Callers, ClosingRegister(c) PROVE TypeOK'
  BY <1>25 DEF ClosingRegister
<1>26. ASSUME NEW c \in Callers, ClosingCheck(c) PROVE TypeOK'
  BY <1>26 DEF ClosingCheck
<1>27. ASSUME NEW c \in Callers, ClosingEnds(c) PROVE TypeOK'
  BY <1>27 DEF ClosingEnds, Move, Abandon
<1>28. ASSUME NEW c \in Callers, ExitStore(c) PROVE TypeOK'
  BY <1>28 DEF ExitStore, Move
<1>29. ASSUME NEW c \in Callers, ExitNotify(c) PROVE TypeOK'
  BY <1>29 DEF ExitNotify, Move, Registered
<1>30. ASSUME NEW c \in Callers, ExitDrop(c) PROVE TypeOK'
  BY <1>30 DEF ExitDrop, Move, Abandon
<1>31. ASSUME NEW a \in Acks, Ack(a) PROVE TypeOK'
  <2>1. CASE /\ Room(cell) /\ queue' = Enqueued(cell, a)
             /\ acks' = [acks EXCEPT ![a] = "queued"]
    <3>1. early' \subseteq Acks
      BY <1>31, <2>1 DEF Ack
    <3>2. QED
      BY <1>31, <2>1, <3>1, EnqueueType DEF QueuesType, Ack
  <2>2. CASE acks' = [acks EXCEPT ![a] = "refused"] /\ UNCHANGED <<queue, early>>
    BY <1>31, <2>2 DEF Ack
  <2>3. QED
    BY <1>31, <2>1, <2>2 DEF Ack
<1>32. CASE UNCHANGED vars
  BY <1>32
<1>33. QED
  BY <1>1, <1>2, <1>3, <1>4, <1>5, <1>6, <1>7, <1>8, <1>9, <1>10, <1>11, <1>12, <1>13,
       <1>14, <1>15, <1>16, <1>17, <1>18, <1>19, <1>20, <1>21, <1>22, <1>23, <1>24,
       <1>25, <1>26, <1>27, <1>28, <1>29, <1>30, <1>31, <1>32 DEF Next, Connecting,
       ShuttingDown, Dials, Leaves

-----------------------------------------------------------------------------
(* The owners of the tasks.                                                *)

\* The types these facts need.
PhaseTypes ==
  /\ pc \in [Callers -> {"idle", "calling", "failed"} \cup Initializing \cup Given]
  /\ task \in [Callers -> {"none"} \cup Running \cup Leaving]
  /\ first \in [Callers -> {"open", "ok", "refused", "dropped"}]
  /\ closed \in [Callers -> BOOLEAN]
  /\ watch \in [Callers -> {"off", "registered", "waiting", "woken"}]
  /\ cell \in Callers \cup {NoCaller}

\* They follow from the type invariant.
LEMMA TypeGivesPhases == TypeOK => PhaseTypes
BY DEF TypeOK, PhaseTypes, Given

\* Every step keeps the ownership of the tasks ...
LEMMA OwnedStep ==
  PhaseTypes /\ Owned /\ Answered /\ Told /\ [Next]_vars => Owned'
<1> SUFFICES ASSUME PhaseTypes, Owned, Answered, Told, [Next]_vars PROVE Owned'
  OBVIOUS
<1> USE LifecycleAssumption DEF PhaseTypes, Owned, Given, Initializing, Closing,
     Running, Leaving, callerVars, taskVars, ackVars, vars
<1>1. ASSUME NEW c \in Callers, Call(c) PROVE Owned'
  BY <1>1 DEF Call, Goto
<1>2. ASSUME NEW c \in Callers, Initialize(c) PROVE Owned'
  BY <1>2 DEF Initialize, Goto
<1>3. ASSUME NEW c \in Callers, Share(c) PROVE Owned'
  BY <1>3 DEF Share, Goto
<1>4. ASSUME NEW c \in Callers, Established(c) PROVE Owned'
  BY <1>4 DEF Established, Goto
<1>5. ASSUME NEW c \in Callers, Rejected(c) PROVE Owned'
  BY <1>5 DEF Rejected, Goto, Answered
<1>6. ASSUME NEW c \in Callers, TimeOut(c) PROVE Owned'
  BY <1>6 DEF TimeOut, Goto
<1>7. ASSUME NEW c \in Callers, LateClose(c) PROVE Owned'
  BY <1>7 DEF LateClose, Goto
<1>8. ASSUME NEW c \in Callers, LateNotify(c) PROVE Owned'
  BY <1>8 DEF LateNotify, Goto, Wake, Watching
<1>9. ASSUME NEW c \in Callers, LateDisconnect(c) PROVE Owned'
  BY <1>9 DEF LateDisconnect, Goto
<1>10. ASSUME NEW c \in Callers, Shutdown(c) PROVE Owned'
  BY <1>10 DEF Shutdown, Goto
<1>11. ASSUME NEW c \in Callers, ShutdownNotify(c) PROVE Owned'
  BY <1>11 DEF ShutdownNotify, Goto, Wake, Watching
<1>12. ASSUME NEW c \in Callers, ShutdownQueue(c) PROVE Owned'
  BY <1>12 DEF ShutdownQueue, Goto
<1>13. ASSUME NEW c \in Callers, StoppedRegister(c) PROVE Owned'
  BY <1>13 DEF StoppedRegister, Goto
<1>14. ASSUME NEW c \in Callers, StoppedCheck(c) PROVE Owned'
  BY <1>14 DEF StoppedCheck, Goto
<1>15. ASSUME NEW c \in Callers, StoppedWoken(c) PROVE Owned'
  BY <1>15 DEF StoppedWoken, Goto
<1>16. ASSUME NEW c \in Callers, FlushTimeOut(c) PROVE Owned'
  BY <1>16 DEF FlushTimeOut, Goto
<1>17. ASSUME NEW c \in Callers, DialFails(c) PROVE Owned'
  <2>1. CASE closed[c]
    BY <1>17, <2>1 DEF DialFails, Move
  <2>2. CASE ~closed[c]
    BY <1>17, <2>2 DEF DialFails, Move
  <2>3. QED
    BY <2>1, <2>2
<1>18. ASSUME NEW c \in Callers, DialRefused(c) PROVE Owned'
  BY <1>18 DEF DialRefused, Move, Answered
<1>19. ASSUME NEW c \in Callers, PauseEnds(c) PROVE Owned'
  BY <1>19 DEF PauseEnds, Move
<1>20. ASSUME NEW c \in Callers, Connack(c) PROVE Owned'
  BY <1>20 DEF Connack, Move
<1>21. ASSUME NEW c \in Callers, Stall(c) PROVE Owned'
  BY <1>21 DEF Stall
<1>22. ASSUME NEW c \in Callers, Write(c) PROVE Owned'
  <2>1. CASE Head(queue[c]) = Disconnect
    BY <1>22, <2>1 DEF Write, Move
  <2>2. CASE UNCHANGED <<task, watch>>
    BY <1>22, <2>2 DEF Write
  <2>3. QED
    BY <1>22, <2>1, <2>2 DEF Write
<1>23. ASSUME NEW c \in Callers, Lose(c) PROVE Owned'
  <2>1. CASE Move(c, "leaving") /\ closed' = [closed EXCEPT ![c] = TRUE]
    BY <1>23, <2>1 DEF Lose, Move
  <2>2. CASE Move(c, "recovering") /\ UNCHANGED closed
    BY <1>23, <2>2 DEF Lose, Move
  <2>3. QED
    BY <1>23, <2>1, <2>2 DEF Lose
<1>24. ASSUME NEW c \in Callers, RecoveryEnds(c) PROVE Owned'
  BY <1>24 DEF RecoveryEnds, Move
<1>25. ASSUME NEW c \in Callers, ClosingRegister(c) PROVE Owned'
  BY <1>25 DEF ClosingRegister
<1>26. ASSUME NEW c \in Callers, ClosingCheck(c) PROVE Owned'
  BY <1>26 DEF ClosingCheck
<1>27. ASSUME NEW c \in Callers, ClosingEnds(c) PROVE Owned'
  <2>1. /\ UNCHANGED <<callerVars, stalled, first, closed>> /\ Move(c, "leaving")
        /\ task[c] = "recovering"
    BY <1>27 DEF ClosingEnds
  <2>2. QED
    BY <2>1 DEF Move
<1>28. ASSUME NEW c \in Callers, ExitStore(c) PROVE Owned'
  BY <1>28 DEF ExitStore, Move
<1>29. ASSUME NEW c \in Callers, ExitNotify(c) PROVE Owned'
  BY <1>29 DEF ExitNotify, Move, Registered
<1>30. ASSUME NEW c \in Callers, ExitDrop(c) PROVE Owned'
  BY <1>30 DEF ExitDrop, Move
<1>31. ASSUME NEW a \in Acks, Ack(a) PROVE Owned'
  BY <1>31 DEF Ack, Room, Enqueued
<1>32. CASE UNCHANGED vars
  BY <1>32
<1>33. QED
  BY <1>1, <1>2, <1>3, <1>4, <1>5, <1>6, <1>7, <1>8, <1>9, <1>10, <1>11, <1>12, <1>13,
       <1>14, <1>15, <1>16, <1>17, <1>18, <1>19, <1>20, <1>21, <1>22, <1>23, <1>24,
       <1>25, <1>26, <1>27, <1>28, <1>29, <1>30, <1>31, <1>32 DEF Next, Connecting,
       ShuttingDown, Dials, Leaves

\* ... what the tasks said ...
LEMMA AnsweredStep ==
  PhaseTypes /\ Owned /\ Answered /\ Told /\ [Next]_vars => Answered'
<1> SUFFICES ASSUME PhaseTypes, Owned, Answered, Told, [Next]_vars PROVE Answered'
  OBVIOUS
<1> USE LifecycleAssumption DEF PhaseTypes, Owned, Given, Initializing, Closing,
     Running, Leaving, callerVars, taskVars, ackVars, vars, Answered, ReasonGiven
<1>1. ASSUME NEW c \in Callers, Call(c) PROVE Answered'
  BY <1>1 DEF Call, Goto
<1>2. ASSUME NEW c \in Callers, Initialize(c) PROVE Answered'
  BY <1>2 DEF Initialize, Goto
<1>3. ASSUME NEW c \in Callers, Share(c) PROVE Answered'
  BY <1>3 DEF Share, Goto
<1>4. ASSUME NEW c \in Callers, Established(c) PROVE Answered'
  BY <1>4 DEF Established, Goto
<1>5. ASSUME NEW c \in Callers, Rejected(c) PROVE Answered'
  BY <1>5 DEF Rejected, Goto
<1>6. ASSUME NEW c \in Callers, TimeOut(c) PROVE Answered'
  BY <1>6 DEF TimeOut, Goto
<1>7. ASSUME NEW c \in Callers, LateClose(c) PROVE Answered'
  BY <1>7 DEF LateClose, Goto
<1>8. ASSUME NEW c \in Callers, LateNotify(c) PROVE Answered'
  BY <1>8 DEF LateNotify, Goto, Wake, Watching
<1>9. ASSUME NEW c \in Callers, LateDisconnect(c) PROVE Answered'
  BY <1>9 DEF LateDisconnect, Goto
<1>10. ASSUME NEW c \in Callers, Shutdown(c) PROVE Answered'
  BY <1>10 DEF Shutdown, Goto
<1>11. ASSUME NEW c \in Callers, ShutdownNotify(c) PROVE Answered'
  BY <1>11 DEF ShutdownNotify, Goto, Wake, Watching
<1>12. ASSUME NEW c \in Callers, ShutdownQueue(c) PROVE Answered'
  BY <1>12 DEF ShutdownQueue, Goto
<1>13. ASSUME NEW c \in Callers, StoppedRegister(c) PROVE Answered'
  BY <1>13 DEF StoppedRegister, Goto
<1>14. ASSUME NEW c \in Callers, StoppedCheck(c) PROVE Answered'
  BY <1>14 DEF StoppedCheck, Goto
<1>15. ASSUME NEW c \in Callers, StoppedWoken(c) PROVE Answered'
  BY <1>15 DEF StoppedWoken, Goto
<1>16. ASSUME NEW c \in Callers, FlushTimeOut(c) PROVE Answered'
  BY <1>16 DEF FlushTimeOut, Goto
<1>17. ASSUME NEW c \in Callers, DialFails(c) PROVE Answered'
  BY <1>17 DEF DialFails, Move
<1>18. ASSUME NEW c \in Callers, DialRefused(c) PROVE Answered'
  BY <1>18 DEF DialRefused, Move
<1>19. ASSUME NEW c \in Callers, PauseEnds(c) PROVE Answered'
  BY <1>19 DEF PauseEnds, Move
<1>20. ASSUME NEW c \in Callers, Connack(c) PROVE Answered'
  BY <1>20 DEF Connack, Move
<1>21. ASSUME NEW c \in Callers, Stall(c) PROVE Answered'
  BY <1>21 DEF Stall
<1>22. ASSUME NEW c \in Callers, Write(c) PROVE Answered'
  <2>1. CASE Head(queue[c]) = Disconnect
    BY <1>22, <2>1 DEF Write, Move
  <2>2. CASE UNCHANGED <<task, watch>>
    BY <1>22, <2>2 DEF Write
  <2>3. QED
    BY <1>22, <2>1, <2>2 DEF Write
<1>23. ASSUME NEW c \in Callers, Lose(c) PROVE Answered'
  <2>1. CASE Move(c, "leaving") /\ closed' = [closed EXCEPT ![c] = TRUE]
    BY <1>23, <2>1 DEF Lose, Move
  <2>2. CASE Move(c, "recovering") /\ UNCHANGED closed
    BY <1>23, <2>2 DEF Lose, Move
  <2>3. QED
    BY <1>23, <2>1, <2>2 DEF Lose
<1>24. ASSUME NEW c \in Callers, RecoveryEnds(c) PROVE Answered'
  BY <1>24 DEF RecoveryEnds, Move
<1>25. ASSUME NEW c \in Callers, ClosingRegister(c) PROVE Answered'
  BY <1>25 DEF ClosingRegister
<1>26. ASSUME NEW c \in Callers, ClosingCheck(c) PROVE Answered'
  BY <1>26 DEF ClosingCheck
<1>27. ASSUME NEW c \in Callers, ClosingEnds(c) PROVE Answered'
  <2>1. /\ UNCHANGED <<callerVars, stalled, first, closed>> /\ Move(c, "leaving")
        /\ task[c] = "recovering"
    BY <1>27 DEF ClosingEnds
  <2>2. QED
    BY <2>1 DEF Move
<1>28. ASSUME NEW c \in Callers, ExitStore(c) PROVE Answered'
  BY <1>28 DEF ExitStore, Move
<1>29. ASSUME NEW c \in Callers, ExitNotify(c) PROVE Answered'
  BY <1>29 DEF ExitNotify, Move, Registered
<1>30. ASSUME NEW c \in Callers, ExitDrop(c) PROVE Answered'
  BY <1>30 DEF ExitDrop, Move
<1>31. ASSUME NEW a \in Acks, Ack(a) PROVE Answered'
  BY <1>31 DEF Ack, Room, Enqueued
<1>32. CASE UNCHANGED vars
  BY <1>32
<1>33. QED
  BY <1>1, <1>2, <1>3, <1>4, <1>5, <1>6, <1>7, <1>8, <1>9, <1>10, <1>11, <1>12, <1>13,
       <1>14, <1>15, <1>16, <1>17, <1>18, <1>19, <1>20, <1>21, <1>22, <1>23, <1>24,
       <1>25, <1>26, <1>27, <1>28, <1>29, <1>30, <1>31, <1>32 DEF Next, Connecting,
       ShuttingDown, Dials, Leaves

\* ... and the flags.
LEMMA ToldStep ==
  PhaseTypes /\ Owned /\ Answered /\ Told /\ [Next]_vars => Told'
<1> SUFFICES ASSUME PhaseTypes, Owned, Answered, Told, [Next]_vars PROVE Told'
  OBVIOUS
<1> USE LifecycleAssumption DEF PhaseTypes, Owned, Given, Initializing, Closing,
     Running, Leaving, callerVars, taskVars, ackVars, vars, Told
<1>1. ASSUME NEW c \in Callers, Call(c) PROVE Told'
  BY <1>1 DEF Call, Goto
<1>2. ASSUME NEW c \in Callers, Initialize(c) PROVE Told'
  BY <1>2 DEF Initialize, Goto
<1>3. ASSUME NEW c \in Callers, Share(c) PROVE Told'
  BY <1>3 DEF Share, Goto
<1>4. ASSUME NEW c \in Callers, Established(c) PROVE Told'
  BY <1>4 DEF Established, Goto
<1>5. ASSUME NEW c \in Callers, Rejected(c) PROVE Told'
  BY <1>5 DEF Rejected, Goto
<1>6. ASSUME NEW c \in Callers, TimeOut(c) PROVE Told'
  BY <1>6 DEF TimeOut, Goto
<1>7. ASSUME NEW c \in Callers, LateClose(c) PROVE Told'
  BY <1>7 DEF LateClose, Goto
<1>8. ASSUME NEW c \in Callers, LateNotify(c) PROVE Told'
  BY <1>8 DEF LateNotify, Goto, Wake, Watching
<1>9. ASSUME NEW c \in Callers, LateDisconnect(c) PROVE Told'
  BY <1>9 DEF LateDisconnect, Goto
<1>10. ASSUME NEW c \in Callers, Shutdown(c) PROVE Told'
  BY <1>10 DEF Shutdown, Goto
<1>11. ASSUME NEW c \in Callers, ShutdownNotify(c) PROVE Told'
  BY <1>11 DEF ShutdownNotify, Goto, Wake, Watching
<1>12. ASSUME NEW c \in Callers, ShutdownQueue(c) PROVE Told'
  BY <1>12 DEF ShutdownQueue, Goto
<1>13. ASSUME NEW c \in Callers, StoppedRegister(c) PROVE Told'
  BY <1>13 DEF StoppedRegister, Goto
<1>14. ASSUME NEW c \in Callers, StoppedCheck(c) PROVE Told'
  BY <1>14 DEF StoppedCheck, Goto
<1>15. ASSUME NEW c \in Callers, StoppedWoken(c) PROVE Told'
  BY <1>15 DEF StoppedWoken, Goto
<1>16. ASSUME NEW c \in Callers, FlushTimeOut(c) PROVE Told'
  BY <1>16 DEF FlushTimeOut, Goto
<1>17. ASSUME NEW c \in Callers, DialFails(c) PROVE Told'
  BY <1>17 DEF DialFails, Move
<1>18. ASSUME NEW c \in Callers, DialRefused(c) PROVE Told'
  BY <1>18 DEF DialRefused, Move
<1>19. ASSUME NEW c \in Callers, PauseEnds(c) PROVE Told'
  BY <1>19 DEF PauseEnds, Move
<1>20. ASSUME NEW c \in Callers, Connack(c) PROVE Told'
  BY <1>20 DEF Connack, Move
<1>21. ASSUME NEW c \in Callers, Stall(c) PROVE Told'
  BY <1>21 DEF Stall
<1>22. ASSUME NEW c \in Callers, Write(c) PROVE Told'
  BY <1>22 DEF Write, Move
<1>23. ASSUME NEW c \in Callers, Lose(c) PROVE Told'
  <2>1. CASE Move(c, "leaving") /\ closed' = [closed EXCEPT ![c] = TRUE]
    BY <1>23, <2>1 DEF Lose, Move
  <2>2. CASE Move(c, "recovering") /\ UNCHANGED closed
    BY <1>23, <2>2 DEF Lose, Move
  <2>3. QED
    BY <1>23, <2>1, <2>2 DEF Lose
<1>24. ASSUME NEW c \in Callers, RecoveryEnds(c) PROVE Told'
  BY <1>24 DEF RecoveryEnds, Move
<1>25. ASSUME NEW c \in Callers, ClosingRegister(c) PROVE Told'
  BY <1>25 DEF ClosingRegister
<1>26. ASSUME NEW c \in Callers, ClosingCheck(c) PROVE Told'
  BY <1>26 DEF ClosingCheck
<1>27. ASSUME NEW c \in Callers, ClosingEnds(c) PROVE Told'
  <2>1. /\ UNCHANGED <<callerVars, stalled, first, closed>> /\ Move(c, "leaving")
        /\ task[c] = "recovering"
    BY <1>27 DEF ClosingEnds
  <2>2. QED
    BY <2>1 DEF Move
<1>28. ASSUME NEW c \in Callers, ExitStore(c) PROVE Told'
  BY <1>28 DEF ExitStore, Move
<1>29. ASSUME NEW c \in Callers, ExitNotify(c) PROVE Told'
  BY <1>29 DEF ExitNotify, Move, Registered
<1>30. ASSUME NEW c \in Callers, ExitDrop(c) PROVE Told'
  BY <1>30 DEF ExitDrop, Move
<1>31. ASSUME NEW a \in Acks, Ack(a) PROVE Told'
  BY <1>31 DEF Ack, Room, Enqueued
<1>32. CASE UNCHANGED vars
  BY <1>32
<1>33. QED
  BY <1>1, <1>2, <1>3, <1>4, <1>5, <1>6, <1>7, <1>8, <1>9, <1>10, <1>11, <1>12, <1>13,
       <1>14, <1>15, <1>16, <1>17, <1>18, <1>19, <1>20, <1>21, <1>22, <1>23, <1>24,
       <1>25, <1>26, <1>27, <1>28, <1>29, <1>30, <1>31, <1>32 DEF Next, Connecting,
       ShuttingDown, Dials, Leaves

\* Every step keeps the shutdowns that were woken past the exit ...
LEMMA WokenStep ==
  PhaseTypes /\ Owned /\ Answered /\ Told /\ Woken /\ WakeUpsReach /\ [Next]_vars => Woken'
<1> SUFFICES ASSUME PhaseTypes, Owned, Answered, Told, Woken, WakeUpsReach, [Next]_vars
             PROVE  Woken'
  OBVIOUS
<1> USE LifecycleAssumption DEF PhaseTypes, Owned, Given, Initializing, Closing,
     Running, Leaving, Exited, Woken, callerVars, taskVars, ackVars, vars
<1>1. ASSUME NEW c \in Callers, Call(c) PROVE Woken'
  BY <1>1 DEF Call, Goto
<1>2. ASSUME NEW c \in Callers, Initialize(c) PROVE Woken'
  BY <1>2 DEF Initialize, Goto
<1>3. ASSUME NEW c \in Callers, Share(c) PROVE Woken'
  BY <1>3 DEF Share, Goto
<1>4. ASSUME NEW c \in Callers, Established(c) PROVE Woken'
  BY <1>4 DEF Established, Goto
<1>5. ASSUME NEW c \in Callers, Rejected(c) PROVE Woken'
  BY <1>5 DEF Rejected, Goto
<1>6. ASSUME NEW c \in Callers, TimeOut(c) PROVE Woken'
  BY <1>6 DEF TimeOut, Goto
<1>7. ASSUME NEW c \in Callers, LateClose(c) PROVE Woken'
  BY <1>7 DEF LateClose, Goto
<1>8. ASSUME NEW c \in Callers, LateNotify(c) PROVE Woken'
  BY <1>8 DEF LateNotify, Goto, Wake, Watching
<1>9. ASSUME NEW c \in Callers, LateDisconnect(c) PROVE Woken'
  BY <1>9 DEF LateDisconnect, Goto
<1>10. ASSUME NEW c \in Callers, Shutdown(c) PROVE Woken'
  BY <1>10 DEF Shutdown, Goto
<1>11. ASSUME NEW c \in Callers, ShutdownNotify(c) PROVE Woken'
  BY <1>11 DEF ShutdownNotify, Goto, Wake, Watching
<1>12. ASSUME NEW c \in Callers, ShutdownQueue(c) PROVE Woken'
  BY <1>12 DEF ShutdownQueue, Goto
<1>13. ASSUME NEW c \in Callers, StoppedRegister(c) PROVE Woken'
  BY <1>13 DEF StoppedRegister, Goto
<1>14. ASSUME NEW c \in Callers, StoppedCheck(c) PROVE Woken'
  BY <1>14 DEF StoppedCheck, Goto
<1>15. ASSUME NEW c \in Callers, StoppedWoken(c) PROVE Woken'
  BY <1>15 DEF StoppedWoken, Goto
<1>16. ASSUME NEW c \in Callers, FlushTimeOut(c) PROVE Woken'
  BY <1>16 DEF FlushTimeOut, Goto
<1>17. ASSUME NEW c \in Callers, DialFails(c) PROVE Woken'
  BY <1>17 DEF DialFails, Move
<1>18. ASSUME NEW c \in Callers, DialRefused(c) PROVE Woken'
  BY <1>18 DEF DialRefused, Move
<1>19. ASSUME NEW c \in Callers, PauseEnds(c) PROVE Woken'
  BY <1>19 DEF PauseEnds, Move
<1>20. ASSUME NEW c \in Callers, Connack(c) PROVE Woken'
  BY <1>20 DEF Connack, Move
<1>21. ASSUME NEW c \in Callers, Stall(c) PROVE Woken'
  BY <1>21 DEF Stall
<1>22. ASSUME NEW c \in Callers, Write(c) PROVE Woken'
  <2>1. CASE Head(queue[c]) = Disconnect
    BY <1>22, <2>1 DEF Write, Move
  <2>2. CASE UNCHANGED <<task, watch>>
    BY <1>22, <2>2 DEF Write
  <2>3. QED
    BY <1>22, <2>1, <2>2 DEF Write
<1>23. ASSUME NEW c \in Callers, Lose(c) PROVE Woken'
  <2>1. CASE Move(c, "leaving") /\ closed' = [closed EXCEPT ![c] = TRUE]
    BY <1>23, <2>1 DEF Lose, Move
  <2>2. CASE Move(c, "recovering") /\ UNCHANGED closed
    BY <1>23, <2>2 DEF Lose, Move
  <2>3. QED
    BY <1>23, <2>1, <2>2 DEF Lose
<1>24. ASSUME NEW c \in Callers, RecoveryEnds(c) PROVE Woken'
  BY <1>24 DEF RecoveryEnds, Move
<1>25. ASSUME NEW c \in Callers, ClosingRegister(c) PROVE Woken'
  BY <1>25 DEF ClosingRegister
<1>26. ASSUME NEW c \in Callers, ClosingCheck(c) PROVE Woken'
  BY <1>26 DEF ClosingCheck
<1>27. ASSUME NEW c \in Callers, ClosingEnds(c) PROVE Woken'
  <2>1. /\ UNCHANGED <<callerVars, stalled, first, closed>> /\ Move(c, "leaving")
        /\ task[c] = "recovering"
    BY <1>27 DEF ClosingEnds
  <2>2. QED
    BY <2>1 DEF Move
<1>28. ASSUME NEW c \in Callers, ExitStore(c) PROVE Woken'
  BY <1>28 DEF ExitStore, Move
<1>29. ASSUME NEW c \in Callers, ExitNotify(c) PROVE Woken'
  BY <1>29 DEF ExitNotify, Move, Registered
<1>30. ASSUME NEW c \in Callers, ExitDrop(c) PROVE Woken'
  BY <1>30 DEF ExitDrop, Move
<1>31. ASSUME NEW a \in Acks, Ack(a) PROVE Woken'
  BY <1>31 DEF Ack, Room, Enqueued
<1>32. CASE UNCHANGED vars
  BY <1>32
<1>33. QED
  BY <1>1, <1>2, <1>3, <1>4, <1>5, <1>6, <1>7, <1>8, <1>9, <1>10, <1>11, <1>12, <1>13,
       <1>14, <1>15, <1>16, <1>17, <1>18, <1>19, <1>20, <1>21, <1>22, <1>23, <1>24,
       <1>25, <1>26, <1>27, <1>28, <1>29, <1>30, <1>31, <1>32 DEF Next, Connecting,
       ShuttingDown, Dials, Leaves

\* ... and loses no notification.
LEMMA WakeUpsStep ==
  PhaseTypes /\ Owned /\ Answered /\ Told /\ Woken /\ WakeUpsReach /\ [Next]_vars
    => WakeUpsReach'
<1> SUFFICES ASSUME PhaseTypes, Owned, Answered, Told, Woken, WakeUpsReach, [Next]_vars
             PROVE  WakeUpsReach'
  OBVIOUS
<1> USE LifecycleAssumption DEF PhaseTypes, Owned, Given, Initializing, Closing,
     Running, Leaving, Exited, WakeUpsReach, callerVars, taskVars, ackVars, vars
<1>1. ASSUME NEW c \in Callers, Call(c) PROVE WakeUpsReach'
  BY <1>1 DEF Call, Goto
<1>2. ASSUME NEW c \in Callers, Initialize(c) PROVE WakeUpsReach'
  BY <1>2 DEF Initialize, Goto
<1>3. ASSUME NEW c \in Callers, Share(c) PROVE WakeUpsReach'
  BY <1>3 DEF Share, Goto
<1>4. ASSUME NEW c \in Callers, Established(c) PROVE WakeUpsReach'
  BY <1>4 DEF Established, Goto
<1>5. ASSUME NEW c \in Callers, Rejected(c) PROVE WakeUpsReach'
  BY <1>5 DEF Rejected, Goto
<1>6. ASSUME NEW c \in Callers, TimeOut(c) PROVE WakeUpsReach'
  BY <1>6 DEF TimeOut, Goto
<1>7. ASSUME NEW c \in Callers, LateClose(c) PROVE WakeUpsReach'
  BY <1>7 DEF LateClose, Goto
<1>8. ASSUME NEW c \in Callers, LateNotify(c) PROVE WakeUpsReach'
  BY <1>8 DEF LateNotify, Goto, Wake, Watching
<1>9. ASSUME NEW c \in Callers, LateDisconnect(c) PROVE WakeUpsReach'
  BY <1>9 DEF LateDisconnect, Goto
<1>10. ASSUME NEW c \in Callers, Shutdown(c) PROVE WakeUpsReach'
  BY <1>10 DEF Shutdown, Goto
<1>11. ASSUME NEW c \in Callers, ShutdownNotify(c) PROVE WakeUpsReach'
  BY <1>11 DEF ShutdownNotify, Goto, Wake, Watching
<1>12. ASSUME NEW c \in Callers, ShutdownQueue(c) PROVE WakeUpsReach'
  BY <1>12 DEF ShutdownQueue, Goto
<1>13. ASSUME NEW c \in Callers, StoppedRegister(c) PROVE WakeUpsReach'
  BY <1>13 DEF StoppedRegister, Goto
<1>14. ASSUME NEW c \in Callers, StoppedCheck(c) PROVE WakeUpsReach'
  BY <1>14 DEF StoppedCheck, Goto
<1>15. ASSUME NEW c \in Callers, StoppedWoken(c) PROVE WakeUpsReach'
  BY <1>15 DEF StoppedWoken, Goto
<1>16. ASSUME NEW c \in Callers, FlushTimeOut(c) PROVE WakeUpsReach'
  BY <1>16 DEF FlushTimeOut, Goto
<1>17. ASSUME NEW c \in Callers, DialFails(c) PROVE WakeUpsReach'
  BY <1>17 DEF DialFails, Move
<1>18. ASSUME NEW c \in Callers, DialRefused(c) PROVE WakeUpsReach'
  BY <1>18 DEF DialRefused, Move
<1>19. ASSUME NEW c \in Callers, PauseEnds(c) PROVE WakeUpsReach'
  BY <1>19 DEF PauseEnds, Move
<1>20. ASSUME NEW c \in Callers, Connack(c) PROVE WakeUpsReach'
  BY <1>20 DEF Connack, Move
<1>21. ASSUME NEW c \in Callers, Stall(c) PROVE WakeUpsReach'
  BY <1>21 DEF Stall
<1>22. ASSUME NEW c \in Callers, Write(c) PROVE WakeUpsReach'
  <2>1. CASE Head(queue[c]) = Disconnect
    BY <1>22, <2>1 DEF Write, Move
  <2>2. CASE UNCHANGED <<task, watch>>
    BY <1>22, <2>2 DEF Write
  <2>3. QED
    BY <1>22, <2>1, <2>2 DEF Write
<1>23. ASSUME NEW c \in Callers, Lose(c) PROVE WakeUpsReach'
  <2>1. CASE Move(c, "leaving") /\ closed' = [closed EXCEPT ![c] = TRUE]
    BY <1>23, <2>1 DEF Lose, Move
  <2>2. CASE Move(c, "recovering") /\ UNCHANGED closed
    BY <1>23, <2>2 DEF Lose, Move
  <2>3. QED
    BY <1>23, <2>1, <2>2 DEF Lose
<1>24. ASSUME NEW c \in Callers, RecoveryEnds(c) PROVE WakeUpsReach'
  BY <1>24 DEF RecoveryEnds, Move
<1>25. ASSUME NEW c \in Callers, ClosingRegister(c) PROVE WakeUpsReach'
  BY <1>25 DEF ClosingRegister
<1>26. ASSUME NEW c \in Callers, ClosingCheck(c) PROVE WakeUpsReach'
  BY <1>26 DEF ClosingCheck
<1>27. ASSUME NEW c \in Callers, ClosingEnds(c) PROVE WakeUpsReach'
  <2>1. /\ UNCHANGED <<callerVars, stalled, first, closed>> /\ Move(c, "leaving")
        /\ task[c] = "recovering"
    BY <1>27 DEF ClosingEnds
  <2>2. QED
    BY <2>1 DEF Move
<1>28. ASSUME NEW c \in Callers, ExitStore(c) PROVE WakeUpsReach'
  BY <1>28 DEF ExitStore, Move
<1>29. ASSUME NEW c \in Callers, ExitNotify(c) PROVE WakeUpsReach'
  BY <1>29 DEF ExitNotify, Move, Registered
<1>30. ASSUME NEW c \in Callers, ExitDrop(c) PROVE WakeUpsReach'
  BY <1>30 DEF ExitDrop, Move
<1>31. ASSUME NEW a \in Acks, Ack(a) PROVE WakeUpsReach'
  BY <1>31 DEF Ack, Room, Enqueued
<1>32. CASE UNCHANGED vars
  BY <1>32
<1>33. QED
  BY <1>1, <1>2, <1>3, <1>4, <1>5, <1>6, <1>7, <1>8, <1>9, <1>10, <1>11, <1>12, <1>13,
       <1>14, <1>15, <1>16, <1>17, <1>18, <1>19, <1>20, <1>21, <1>22, <1>23, <1>24,
       <1>25, <1>26, <1>27, <1>28, <1>29, <1>30, <1>31, <1>32 DEF Next, Connecting,
       ShuttingDown, Dials, Leaves

-----------------------------------------------------------------------------
(* The queues.                                                             *)

\* Nothing is queued, written or acknowledged, and no flag is cleared.
LEMMA QueuesStill ==
  ASSUME Queues, UNCHANGED <<queue, acks, early, cell>>,
         \A t \in Callers : closed[t] => closed'[t]
  PROVE  Queues'
BY DEF Queues, Queued

\* A DISCONNECT goes last, once the flag is set.
LEMMA QueuesDisconnect ==
  ASSUME TypeOK, Queues, NEW t \in Callers, closed[t], queue' = Enqueued(t, Disconnect),
         UNCHANGED <<acks, early, cell, closed>>
  PROVE  Queues'
<1> USE LifecycleAssumption
<1>1. /\ queue[t] \in Seq(Acks \cup {Disconnect})
      /\ queue' = [queue EXCEPT ![t] = Append(@, Disconnect)]
      /\ early \subseteq Acks
  BY DEF TypeOK, Enqueued
<1>2. /\ queue'[t] = Append(queue[t], Disconnect)
      /\ \A s \in Callers \ {t} : queue'[s] = queue[s]
  BY <1>1 DEF TypeOK
<1>3. /\ DOMAIN queue'[t] = 1..(Len(queue[t]) + 1) /\ DOMAIN queue[t] = 1..Len(queue[t])
      /\ queue'[t][Len(queue[t]) + 1] = Disconnect
      /\ \A n \in DOMAIN queue[t] : queue'[t][n] = queue[t][n]
  BY <1>1, <1>2
<1>4. \A n \in DOMAIN queue'[t] :
        n \in DOMAIN queue[t] \/ n = Len(queue[t]) + 1
  BY <1>1, <1>3
<1>5. \A s \in Callers : \A n \in DOMAIN queue'[s] :
        /\ queue'[s][n] = Disconnect => closed'[s]
        /\ queue'[s][n] \in Acks => s = cell' /\ acks'[queue'[s][n]] = "queued"
  BY <1>2, <1>3, <1>4 DEF Queues
<1>6. \A s \in Callers : \A m, n \in DOMAIN queue'[s] :
        /\ queue'[s][m] \in Acks /\ queue'[s][m] = queue'[s][n] => m = n
        /\ queue'[s][m] \in early' /\ queue'[s][n] = Disconnect => m < n
  <2>1. SUFFICES ASSUME NEW s \in Callers, NEW m \in DOMAIN queue'[s], NEW n \in DOMAIN queue'[s]
                 PROVE  /\ queue'[s][m] \in Acks /\ queue'[s][m] = queue'[s][n] => m = n
                        /\ queue'[s][m] \in early' /\ queue'[s][n] = Disconnect => m < n
    OBVIOUS
  <2>2. CASE s # t
    BY <2>2, <1>2 DEF Queues
  <2>3. CASE s = t
    BY <2>3, <1>1, <1>2, <1>3, <1>4 DEF Queues
  <2>4. QED
    BY <2>2, <2>3
<1>7. \A a \in Acks : acks'[a] = "queued" => cell' # NoCaller /\ a \in Queued(cell)'
  <2>1. SUFFICES ASSUME NEW a \in Acks, acks[a] = "queued"
                 PROVE  cell # NoCaller /\ a \in Queued(cell)'
    OBVIOUS
  <2>2. cell # NoCaller /\ cell \in Callers
    BY <2>1 DEF Queues, TypeOK
  <2>3. PICK n \in DOMAIN queue[cell] : queue[cell][n] = a
    BY <2>1 DEF Queues, Queued
  <2>4. n \in DOMAIN queue'[cell] /\ queue'[cell][n] = a
    BY <2>2, <2>3, <1>2, <1>3
  <2>5. QED
    BY <2>2, <2>4 DEF Queued
<1>8. QED
  BY <1>5, <1>6, <1>7 DEF Queues

\* An acknowledgement goes last; it is early as long as nobody closed.
LEMMA QueuesAck ==
  ASSUME TypeOK, Queues, NEW a \in Acks, acks[a] = "none", cell \in Callers,
         queue' = Enqueued(cell, a), acks' = [acks EXCEPT ![a] = "queued"],
         early' = early \/ (~closed[cell] /\ early' = early \cup {a}),
         \A b \in early : acks[b] # "none", UNCHANGED <<cell, closed>>
  PROVE  Queues'
<1> USE LifecycleAssumption
<1>1. /\ queue[cell] \in Seq(Acks \cup {Disconnect})
      /\ queue' = [queue EXCEPT ![cell] = Append(@, a)]
      /\ early \subseteq Acks
  BY DEF TypeOK, Enqueued
<1>2. /\ queue'[cell] = Append(queue[cell], a)
      /\ \A s \in Callers \ {cell} : queue'[s] = queue[s]
  BY <1>1 DEF TypeOK
<1>3. /\ DOMAIN queue'[cell] = 1..(Len(queue[cell]) + 1)
      /\ DOMAIN queue[cell] = 1..Len(queue[cell])
      /\ queue'[cell][Len(queue[cell]) + 1] = a
      /\ \A n \in DOMAIN queue[cell] : queue'[cell][n] = queue[cell][n]
  BY <1>1, <1>2
<1>4. \A n \in DOMAIN queue'[cell] :
        n \in DOMAIN queue[cell] \/ n = Len(queue[cell]) + 1
  BY <1>1, <1>3
<1>5. \A s \in Callers : \A n \in DOMAIN queue[s] : queue[s][n] # a
  BY DEF Queues
<1>6. \A b \in Acks : b # a => acks'[b] = acks[b]
  BY DEF TypeOK
<1>7. acks'[a] = "queued"
  BY DEF TypeOK
<1>8. \A s \in Callers : \A n \in DOMAIN queue'[s] :
        /\ queue'[s][n] = Disconnect => closed'[s]
        /\ queue'[s][n] \in Acks => s = cell' /\ acks'[queue'[s][n]] = "queued"
  BY <1>2, <1>3, <1>4, <1>5, <1>6, <1>7 DEF Queues
<1>9. \A s \in Callers : \A m, n \in DOMAIN queue'[s] :
        /\ queue'[s][m] \in Acks /\ queue'[s][m] = queue'[s][n] => m = n
        /\ queue'[s][m] \in early' /\ queue'[s][n] = Disconnect => m < n
  <2>1. SUFFICES ASSUME NEW s \in Callers, NEW m \in DOMAIN queue'[s], NEW n \in DOMAIN queue'[s]
                 PROVE  /\ queue'[s][m] \in Acks /\ queue'[s][m] = queue'[s][n] => m = n
                        /\ queue'[s][m] \in early' /\ queue'[s][n] = Disconnect => m < n
    OBVIOUS
  <2>2. CASE s # cell
    BY <2>2, <1>1, <1>2, <1>5 DEF Queues
  <2>3. CASE s = cell
    <3>1. queue'[s][m] \in Acks /\ queue'[s][m] = queue'[s][n] => m = n
      BY <2>3, <1>2, <1>3, <1>4, <1>5 DEF Queues
    <3>2. queue'[s][m] \in early' /\ queue'[s][n] = Disconnect => m < n
      <4>1. CASE m \in DOMAIN queue[cell]
        BY <2>3, <4>1, <1>1, <1>2, <1>3, <1>4, <1>5 DEF Queues
      <4>2. CASE m = Len(queue[cell]) + 1
        BY <2>3, <4>2, <1>1, <1>2, <1>3, <1>4 DEF Queues
      <4>3. QED
        BY <2>3, <4>1, <4>2, <1>4
    <3>3. QED
      BY <3>1, <3>2
  <2>4. QED
    BY <2>2, <2>3
<1>10. \A b \in Acks : acks'[b] = "queued" => cell' # NoCaller /\ b \in Queued(cell)'
  <2>1. SUFFICES ASSUME NEW b \in Acks, acks'[b] = "queued"
                 PROVE  cell' # NoCaller /\ b \in Queued(cell)'
    OBVIOUS
  <2>2. CASE b = a
    BY <2>2, <1>1, <1>3 DEF Queued
  <2>3. CASE b # a
    BY <2>1, <2>3, <1>3, <1>6 DEF Queues, Queued
  <2>4. QED
    BY <2>2, <2>3
<1>11. QED
  BY <1>8, <1>9, <1>10 DEF Queues

\* What is in an abandoned queue is not queued any more.
LEMMA QueuesAbandon ==
  ASSUME TypeOK, Queues, NEW t \in Callers, NEW as \in {"lost", "dropped"}, Abandon(t, as),
         UNCHANGED cell, \A s \in Callers : closed[s] => closed'[s]
  PROVE  Queues'
<1> USE LifecycleAssumption
<1>1. /\ queue'[t] = <<>> /\ \A s \in Callers \ {t} : queue'[s] = queue[s]
      /\ \A a \in Acks : acks'[a] = IF a \in Queued(t) THEN as ELSE acks[a]
      /\ early' = early
  BY DEF TypeOK, Abandon
<1>2. \A s \in Callers : \A n \in DOMAIN queue'[s] : s # t /\ n \in DOMAIN queue[s]
                                                     /\ queue'[s][n] = queue[s][n]
  BY <1>1
<1>3. \A s \in Callers : \A n \in DOMAIN queue'[s] :
        /\ queue'[s][n] = Disconnect => closed'[s]
        /\ queue'[s][n] \in Acks => s = cell' /\ acks'[queue'[s][n]] = "queued"
  <2>1. SUFFICES ASSUME NEW s \in Callers, NEW n \in DOMAIN queue'[s]
                 PROVE  /\ queue'[s][n] = Disconnect => closed'[s]
                        /\ queue'[s][n] \in Acks => s = cell' /\ acks'[queue'[s][n]] = "queued"
    OBVIOUS
  <2>2. s # t /\ n \in DOMAIN queue[s] /\ queue'[s][n] = queue[s][n]
    BY <1>2
  <2>3. /\ queue[s][n] = Disconnect => closed[s]
        /\ queue[s][n] \in Acks => s = cell /\ acks[queue[s][n]] = "queued"
    BY <2>2 DEF Queues
  <2>4. \A a \in Queued(t) : t = cell
    BY DEF Queues, Queued
  <2>5. QED
    BY <2>2, <2>3, <2>4, <1>1
<1>4. \A s \in Callers : \A m, n \in DOMAIN queue'[s] :
        /\ queue'[s][m] \in Acks /\ queue'[s][m] = queue'[s][n] => m = n
        /\ queue'[s][m] \in early' /\ queue'[s][n] = Disconnect => m < n
  BY <1>1, <1>2 DEF Queues
<1>5. \A a \in Acks : acks'[a] = "queued" => cell' # NoCaller /\ a \in Queued(cell)'
  <2>1. SUFFICES ASSUME NEW a \in Acks, acks'[a] = "queued"
                 PROVE  cell' # NoCaller /\ a \in Queued(cell)'
    OBVIOUS
  <2>2. acks[a] = "queued" /\ a \notin Queued(t)
    BY <2>1, <1>1
  <2>3. cell # NoCaller /\ a \in Queued(cell) /\ cell # t
    BY <2>2 DEF Queues
  <2>4. QED
    BY <2>3, <1>1 DEF Queued, TypeOK
<1>6. QED
  BY <1>3, <1>4, <1>5 DEF Queues

\* The request written is the first.
LEMMA QueuesWrite ==
  ASSUME TypeOK, Queues, NEW t \in Callers, Write(t)
  PROVE  Queues'
<1> USE LifecycleAssumption
<1>1. /\ queue[t] \in Seq(Acks \cup {Disconnect}) /\ queue[t] # <<>>
      /\ queue'[t] = Tail(queue[t]) /\ \A s \in Callers \ {t} : queue'[s] = queue[s]
      /\ Head(queue[t]) = queue[t][1] /\ 1 \in DOMAIN queue[t]
  BY DEF TypeOK, Write
<1>2. /\ DOMAIN queue[t] = 1..Len(queue[t])
      /\ \A n \in DOMAIN queue'[t] : /\ n \in Nat /\ n + 1 \in DOMAIN queue[t] /\ n + 1 # 1
                                     /\ queue'[t][n] = queue[t][n + 1]
  BY <1>1
<1>3. \A n \in DOMAIN queue[t] : n # 1 => n - 1 \in DOMAIN queue'[t] /\ queue[t][n] = queue'[t][n - 1]
  BY <1>1
<1>4. /\ \A a \in Acks : acks'[a] = IF queue[t][1] = a THEN "written" ELSE acks[a]
      /\ early' = early /\ cell' = cell /\ closed' = closed
  BY <1>1 DEF TypeOK, Write, callerVars
<1>5. \A s \in Callers : \A n \in DOMAIN queue'[s] :
        /\ queue'[s][n] = Disconnect => closed'[s]
        /\ queue'[s][n] \in Acks => s = cell' /\ acks'[queue'[s][n]] = "queued"
  <2>1. SUFFICES ASSUME NEW s \in Callers, NEW n \in DOMAIN queue'[s]
                 PROVE  /\ queue'[s][n] = Disconnect => closed'[s]
                        /\ queue'[s][n] \in Acks => s = cell' /\ acks'[queue'[s][n]] = "queued"
    OBVIOUS
  <2>2. CASE s # t
    <3>1. n \in DOMAIN queue[s] /\ queue'[s][n] = queue[s][n]
      BY <2>2, <1>1
    <3>2. queue[s][n] \in Acks => s = cell /\ acks[queue[s][n]] = "queued"
      BY <3>1 DEF Queues
    <3>3. queue[t][1] \in Acks => t = cell
      BY <1>1 DEF Queues
    <3>4. queue[s][n] = Disconnect => closed[s]
      BY <3>1 DEF Queues
    <3>5. QED
      BY <2>2, <3>1, <3>2, <3>3, <3>4, <1>4
  <2>3. CASE s = t
    <3>1. /\ n + 1 \in DOMAIN queue[t] /\ n + 1 # 1 /\ queue'[t][n] = queue[t][n + 1]
      BY <2>3, <1>2
    <3>2. queue[t][n + 1] \in Acks => /\ t = cell /\ acks[queue[t][n + 1]] = "queued"
                                     /\ queue[t][n + 1] # queue[t][1]
      BY <3>1, <1>1 DEF Queues
    <3>3. queue[t][n + 1] = Disconnect => closed[t]
      BY <3>1 DEF Queues
    <3>4. QED
      BY <2>3, <3>1, <3>2, <3>3, <1>4
  <2>4. QED
    BY <2>2, <2>3
<1>6. \A s \in Callers : \A m, n \in DOMAIN queue'[s] :
        /\ queue'[s][m] \in Acks /\ queue'[s][m] = queue'[s][n] => m = n
        /\ queue'[s][m] \in early' /\ queue'[s][n] = Disconnect => m < n
  <2>1. SUFFICES ASSUME NEW s \in Callers, NEW m \in DOMAIN queue'[s], NEW n \in DOMAIN queue'[s]
                 PROVE  /\ queue'[s][m] \in Acks /\ queue'[s][m] = queue'[s][n] => m = n
                        /\ queue'[s][m] \in early' /\ queue'[s][n] = Disconnect => m < n
    OBVIOUS
  <2>2. CASE s # t
    BY <2>2, <1>1, <1>4 DEF Queues
  <2>3. CASE s = t
    <3>1. /\ m \in Nat /\ n \in Nat /\ m + 1 \in DOMAIN queue[t] /\ n + 1 \in DOMAIN queue[t]
          /\ queue'[s][m] = queue[t][m + 1] /\ queue'[s][n] = queue[t][n + 1]
      BY <2>3, <1>2
    <3>2. QED
      BY <3>1, <1>4 DEF Queues
  <2>4. QED
    BY <2>2, <2>3
<1>7. \A a \in Acks : acks'[a] = "queued" => cell' # NoCaller /\ a \in Queued(cell)'
  <2>1. SUFFICES ASSUME NEW a \in Acks, acks'[a] = "queued"
                 PROVE  cell' # NoCaller /\ a \in Queued(cell)'
    OBVIOUS
  <2>2. acks[a] = "queued" /\ queue[t][1] # a
    BY <2>1, <1>4
  <2>3. PICK n \in DOMAIN queue[cell] : queue[cell][n] = a /\ cell # NoCaller
    BY <2>2 DEF Queues, Queued
  <2>4. CASE cell = t
    BY <2>2, <2>3, <2>4, <1>3, <1>4 DEF Queued
  <2>5. CASE cell # t
    BY <2>3, <2>5, <1>1, <1>4 DEF Queued, TypeOK
  <2>6. QED
    BY <2>4, <2>5
<1>8. QED
  BY <1>5, <1>6, <1>7 DEF Queues

\* Every step keeps the queues in order.
LEMMA QueuesStep ==
  TypeOK /\ Owned /\ Answered /\ Told /\ Queues /\ Early /\ [Next]_vars => Queues'
<1> SUFFICES ASSUME TypeOK, Owned, Answered, Told, Queues, Early, [Next]_vars PROVE Queues'
  OBVIOUS
<1> USE LifecycleAssumption DEF vars
<1>1. ASSUME NEW c \in Callers, Call(c) PROVE Queues'
  <2>1. UNCHANGED <<queue, acks, early, cell>> /\ \A t \in Callers : closed[t] => closed'[t]
    BY <1>1 DEF Call, callerVars, taskVars, ackVars
  <2>2. QED
    BY <2>1, QueuesStill
<1>2. ASSUME NEW c \in Callers, Initialize(c) PROVE Queues'
  <2>1. UNCHANGED <<queue, acks, early, cell>> /\ \A t \in Callers : closed[t] => closed'[t]
    BY <1>2 DEF Initialize, callerVars, taskVars, ackVars
  <2>2. QED
    BY <2>1, QueuesStill
<1>3. ASSUME NEW c \in Callers, Share(c) PROVE Queues'
  <2>1. UNCHANGED <<queue, acks, early, cell>> /\ \A t \in Callers : closed[t] => closed'[t]
    BY <1>3 DEF Share, callerVars, taskVars, ackVars
  <2>2. QED
    BY <2>1, QueuesStill
<1>4. ASSUME NEW c \in Callers, Established(c) PROVE Queues'
  <2>1. UNCHANGED <<queue, acks, early, closed>> /\ cell = NoCaller
    BY <1>4 DEF Established, Owned, Initializing, ackVars
  <2>2. \A t \in Callers : \A n \in DOMAIN queue[t] : queue[t][n] \notin Acks
    BY <2>1 DEF Queues
  <2>3. QED
    BY <2>1, <2>2 DEF Queues
<1>5. ASSUME NEW c \in Callers, Rejected(c) PROVE Queues'
  <2>1. UNCHANGED <<queue, acks, early, cell>> /\ \A t \in Callers : closed[t] => closed'[t]
    BY <1>5 DEF Rejected, callerVars, taskVars, ackVars
  <2>2. QED
    BY <2>1, QueuesStill
<1>6. ASSUME NEW c \in Callers, TimeOut(c) PROVE Queues'
  <2>1. UNCHANGED <<queue, acks, early, cell>> /\ \A t \in Callers : closed[t] => closed'[t]
    BY <1>6 DEF TimeOut, callerVars, taskVars, ackVars
  <2>2. QED
    BY <2>1, QueuesStill
<1>7. ASSUME NEW c \in Callers, LateClose(c) PROVE Queues'
  <2>1. UNCHANGED <<queue, acks, early, cell>> /\ \A t \in Callers : closed[t] => closed'[t]
    BY <1>7 DEF LateClose, TypeOK, callerVars, ackVars
  <2>2. QED
    BY <2>1, QueuesStill
<1>8. ASSUME NEW c \in Callers, LateNotify(c) PROVE Queues'
  <2>1. UNCHANGED <<queue, acks, early, cell>> /\ \A t \in Callers : closed[t] => closed'[t]
    BY <1>8 DEF LateNotify, callerVars, taskVars, ackVars
  <2>2. QED
    BY <2>1, QueuesStill
<1>9. ASSUME NEW c \in Callers, LateDisconnect(c) PROVE Queues'
  <2>1. closed[c] /\ UNCHANGED <<acks, early, cell, closed>>
    BY <1>9 DEF LateDisconnect, Told, ackVars
  <2>2. CASE queue' = Enqueued(c, Disconnect)
    BY <2>1, <2>2, QueuesDisconnect
  <2>3. CASE UNCHANGED queue
    BY <2>1, <2>3, QueuesStill
  <2>4. QED
    BY <1>9, <2>2, <2>3 DEF LateDisconnect
<1>10. ASSUME NEW c \in Callers, Shutdown(c) PROVE Queues'
  <2>1. UNCHANGED <<queue, acks, early, cell>> /\ \A t \in Callers : closed[t] => closed'[t]
    BY <1>10 DEF Shutdown, TypeOK, callerVars, ackVars
  <2>2. QED
    BY <2>1, QueuesStill
<1>11. ASSUME NEW c \in Callers, ShutdownNotify(c) PROVE Queues'
  <2>1. UNCHANGED <<queue, acks, early, cell>> /\ \A t \in Callers : closed[t] => closed'[t]
    BY <1>11 DEF ShutdownNotify, callerVars, taskVars, ackVars
  <2>2. QED
    BY <2>1, QueuesStill
<1>12. ASSUME NEW c \in Callers, ShutdownQueue(c) PROVE Queues'
  <2>1. cell \in Callers /\ closed[cell] /\ UNCHANGED <<acks, early, cell, closed>>
    BY <1>12 DEF ShutdownQueue, Told, Owned, Given, Closing, TypeOK, ackVars
  <2>2. CASE queue' = Enqueued(cell, Disconnect)
    BY <2>1, <2>2, QueuesDisconnect
  <2>3. CASE UNCHANGED queue
    BY <2>1, <2>3, QueuesStill
  <2>4. QED
    BY <1>12, <2>2, <2>3 DEF ShutdownQueue
<1>13. ASSUME NEW c \in Callers, StoppedRegister(c) PROVE Queues'
  <2>1. UNCHANGED <<queue, acks, early, cell>> /\ \A t \in Callers : closed[t] => closed'[t]
    BY <1>13 DEF StoppedRegister, callerVars, taskVars, ackVars
  <2>2. QED
    BY <2>1, QueuesStill
<1>14. ASSUME NEW c \in Callers, StoppedCheck(c) PROVE Queues'
  <2>1. UNCHANGED <<queue, acks, early, cell>> /\ \A t \in Callers : closed[t] => closed'[t]
    BY <1>14 DEF StoppedCheck, callerVars, taskVars, ackVars
  <2>2. QED
    BY <2>1, QueuesStill
<1>15. ASSUME NEW c \in Callers, StoppedWoken(c) PROVE Queues'
  <2>1. UNCHANGED <<queue, acks, early, cell>> /\ \A t \in Callers : closed[t] => closed'[t]
    BY <1>15 DEF StoppedWoken, callerVars, taskVars, ackVars
  <2>2. QED
    BY <2>1, QueuesStill
<1>16. ASSUME NEW c \in Callers, FlushTimeOut(c) PROVE Queues'
  <2>1. UNCHANGED <<queue, acks, early, cell>> /\ \A t \in Callers : closed[t] => closed'[t]
    BY <1>16 DEF FlushTimeOut, callerVars, taskVars, ackVars
  <2>2. QED
    BY <2>1, QueuesStill
<1>17. ASSUME NEW c \in Callers, DialFails(c) PROVE Queues'
  <2>1. UNCHANGED <<queue, acks, early, cell>> /\ \A t \in Callers : closed[t] => closed'[t]
    BY <1>17 DEF DialFails, callerVars, taskVars, ackVars
  <2>2. QED
    BY <2>1, QueuesStill
<1>18. ASSUME NEW c \in Callers, DialRefused(c) PROVE Queues'
  <2>1. UNCHANGED <<queue, acks, early, cell>> /\ \A t \in Callers : closed[t] => closed'[t]
    BY <1>18 DEF DialRefused, TypeOK, callerVars, ackVars
  <2>2. QED
    BY <2>1, QueuesStill
<1>19. ASSUME NEW c \in Callers, PauseEnds(c) PROVE Queues'
  <2>1. UNCHANGED <<queue, acks, early, cell>> /\ \A t \in Callers : closed[t] => closed'[t]
    BY <1>19 DEF PauseEnds, callerVars, taskVars, ackVars
  <2>2. QED
    BY <2>1, QueuesStill
<1>20. ASSUME NEW c \in Callers, Connack(c) PROVE Queues'
  <2>1. UNCHANGED <<queue, acks, early, cell>> /\ \A t \in Callers : closed[t] => closed'[t]
    BY <1>20 DEF Connack, callerVars, taskVars, ackVars
  <2>2. QED
    BY <2>1, QueuesStill
<1>21. ASSUME NEW c \in Callers, Stall(c) PROVE Queues'
  <2>1. UNCHANGED <<queue, acks, early, cell>> /\ \A t \in Callers : closed[t] => closed'[t]
    BY <1>21 DEF Stall, callerVars, taskVars, ackVars
  <2>2. QED
    BY <2>1, QueuesStill
<1>22. ASSUME NEW c \in Callers, Write(c) PROVE Queues'
  BY <1>22, QueuesWrite
<1>23. ASSUME NEW c \in Callers, Lose(c) PROVE Queues'
  <2>1. Abandon(c, "lost") /\ UNCHANGED cell /\ \A t \in Callers : closed[t] => closed'[t]
    BY <1>23 DEF Lose, TypeOK, callerVars
  <2>2. QED
    BY <2>1, QueuesAbandon
<1>24. ASSUME NEW c \in Callers, RecoveryEnds(c) PROVE Queues'
  <2>1. Abandon(c, "lost") /\ UNCHANGED cell /\ \A t \in Callers : closed[t] => closed'[t]
    BY <1>24 DEF RecoveryEnds, TypeOK, callerVars
  <2>2. QED
    BY <2>1, QueuesAbandon
<1>25. ASSUME NEW c \in Callers, ClosingRegister(c) PROVE Queues'
  <2>1. UNCHANGED <<queue, acks, early, cell>> /\ \A t \in Callers : closed[t] => closed'[t]
    BY <1>25 DEF ClosingRegister, callerVars, taskVars, ackVars
  <2>2. QED
    BY <2>1, QueuesStill
<1>26. ASSUME NEW c \in Callers, ClosingCheck(c) PROVE Queues'
  <2>1. UNCHANGED <<queue, acks, early, cell>> /\ \A t \in Callers : closed[t] => closed'[t]
    BY <1>26 DEF ClosingCheck, callerVars, taskVars, ackVars
  <2>2. QED
    BY <2>1, QueuesStill
<1>27. ASSUME NEW c \in Callers, ClosingEnds(c) PROVE Queues'
  <2>1. Abandon(c, "lost") /\ UNCHANGED cell /\ \A t \in Callers : closed[t] => closed'[t]
    BY <1>27 DEF ClosingEnds, TypeOK, callerVars
  <2>2. QED
    BY <2>1, QueuesAbandon
<1>28. ASSUME NEW c \in Callers, ExitStore(c) PROVE Queues'
  <2>1. UNCHANGED <<queue, acks, early, cell>> /\ \A t \in Callers : closed[t] => closed'[t]
    BY <1>28 DEF ExitStore, callerVars, taskVars, ackVars
  <2>2. QED
    BY <2>1, QueuesStill
<1>29. ASSUME NEW c \in Callers, ExitNotify(c) PROVE Queues'
  <2>1. UNCHANGED <<queue, acks, early, cell>> /\ \A t \in Callers : closed[t] => closed'[t]
    BY <1>29 DEF ExitNotify, callerVars, taskVars, ackVars
  <2>2. QED
    BY <2>1, QueuesStill
<1>30. ASSUME NEW c \in Callers, ExitDrop(c) PROVE Queues'
  <2>1. Abandon(c, "dropped") /\ UNCHANGED cell /\ \A t \in Callers : closed[t] => closed'[t]
    BY <1>30 DEF ExitDrop, TypeOK, callerVars
  <2>2. QED
    BY <2>1, QueuesAbandon
<1>31. ASSUME NEW a \in Acks, Ack(a) PROVE Queues'
  <2>1. CASE Room(cell) /\ queue' = Enqueued(cell, a)
    <3>1. /\ acks[a] = "none" /\ cell \in Callers /\ acks' = [acks EXCEPT ![a] = "queued"]
          /\ early' = early \/ (~closed[cell] /\ early' = early \cup {a})
          /\ UNCHANGED <<cell, closed>>
      BY <1>31, <2>1 DEF Ack, TypeOK, callerVars, Room
    <3>2. \A b \in early : acks[b] # "none"
      BY DEF Early
    <3>3. QED
      BY <2>1, <3>1, <3>2, QueuesAck
  <2>2. CASE acks' = [acks EXCEPT ![a] = "refused"] /\ UNCHANGED <<queue, early>>
    BY <1>31, <2>2 DEF Ack, Queues, Queued, TypeOK, callerVars
  <2>3. QED
    BY <1>31, <2>1, <2>2 DEF Ack
<1>32. CASE UNCHANGED vars
  BY <1>32, QueuesStill DEF callerVars, taskVars, ackVars
<1>33. QED
  BY <1>1, <1>2, <1>3, <1>4, <1>5, <1>6, <1>7, <1>8, <1>9, <1>10, <1>11, <1>12, <1>13,
       <1>14, <1>15, <1>16, <1>17, <1>18, <1>19, <1>20, <1>21, <1>22, <1>23, <1>24,
       <1>25, <1>26, <1>27, <1>28, <1>29, <1>30, <1>31, <1>32 DEF Next, Connecting,
       ShuttingDown, Dials, Leaves

\* A connection that is lost takes along the early acknowledgements in its queue.
LEMMA EarlyAbandon ==
  ASSUME TypeOK, Queues, Early, NEW t \in Callers, Abandon(t, "lost"), UNCHANGED cell,
         \A s \in Callers : s # t => task'[s] = task[s]
  PROVE  Early'
<1>1. /\ early' = early /\ early \subseteq Acks
      /\ \A a \in Acks : acks'[a] = IF a \in Queued(t) THEN "lost" ELSE acks[a]
  BY DEF Abandon, TypeOK
<1>2. \A a \in early : acks'[a] = "queued" => cell \in Callers /\ cell # t /\ acks[a] = "queued"
  BY <1>1 DEF Queues, TypeOK
<1>3. QED
  BY <1>1, <1>2 DEF Early

\* Every step keeps early acknowledgements within reach of the wire.
LEMMA EarlyStep ==
  TypeOK /\ Owned /\ Answered /\ Told /\ Queues /\ Early /\ [Next]_vars => Early'
<1> SUFFICES ASSUME TypeOK, Owned, Answered, Told, Queues, Early, [Next]_vars PROVE Early'
  OBVIOUS
<1> USE LifecycleAssumption DEF vars
<1>1. ASSUME NEW c \in Callers, Call(c) PROVE Early'
  BY <1>1 DEF Call, Early, callerVars, taskVars, ackVars
<1>2. ASSUME NEW c \in Callers, Initialize(c) PROVE Early'
  <2>1. UNCHANGED <<acks, early, cell>>
    BY <1>2 DEF Initialize, callerVars, ackVars
  <2>2. \A a \in early : acks[a] = "queued" => task'[cell] \in Running
    BY <1>2 DEF Initialize, Early, Queues, Owned, Answered, Initializing, Running,
       Leaving, TypeOK, Move, callerVars
  <2>3. QED
    BY <2>1, <2>2 DEF Early
<1>3. ASSUME NEW c \in Callers, Share(c) PROVE Early'
  BY <1>3 DEF Share, Early, callerVars, taskVars, ackVars
<1>4. ASSUME NEW c \in Callers, Established(c) PROVE Early'
  <2>1. UNCHANGED <<acks, early>> /\ cell = NoCaller
    BY <1>4 DEF Established, Owned, Initializing, ackVars
  <2>2. QED
    BY <2>1 DEF Early, Queues, TypeOK
<1>5. ASSUME NEW c \in Callers, Rejected(c) PROVE Early'
  BY <1>5 DEF Rejected, Early, callerVars, taskVars, ackVars
<1>6. ASSUME NEW c \in Callers, TimeOut(c) PROVE Early'
  BY <1>6 DEF TimeOut, Early, callerVars, taskVars, ackVars
<1>7. ASSUME NEW c \in Callers, LateClose(c) PROVE Early'
  BY <1>7 DEF LateClose, Early, callerVars, taskVars, ackVars
<1>8. ASSUME NEW c \in Callers, LateNotify(c) PROVE Early'
  BY <1>8 DEF LateNotify, Wake, Early, callerVars, taskVars, ackVars
<1>9. ASSUME NEW c \in Callers, LateDisconnect(c) PROVE Early'
  BY <1>9 DEF LateDisconnect, Early, callerVars, taskVars, ackVars
<1>10. ASSUME NEW c \in Callers, Shutdown(c) PROVE Early'
  BY <1>10 DEF Shutdown, Early, callerVars, taskVars, ackVars
<1>11. ASSUME NEW c \in Callers, ShutdownNotify(c) PROVE Early'
  BY <1>11 DEF ShutdownNotify, Wake, Early, callerVars, taskVars, ackVars
<1>12. ASSUME NEW c \in Callers, ShutdownQueue(c) PROVE Early'
  BY <1>12 DEF ShutdownQueue, Early, callerVars, taskVars, ackVars
<1>13. ASSUME NEW c \in Callers, StoppedRegister(c) PROVE Early'
  BY <1>13 DEF StoppedRegister, Early, callerVars, taskVars, ackVars
<1>14. ASSUME NEW c \in Callers, StoppedCheck(c) PROVE Early'
  BY <1>14 DEF StoppedCheck, Early, callerVars, taskVars, ackVars
<1>15. ASSUME NEW c \in Callers, StoppedWoken(c) PROVE Early'
  BY <1>15 DEF StoppedWoken, Early, callerVars, taskVars, ackVars
<1>16. ASSUME NEW c \in Callers, FlushTimeOut(c) PROVE Early'
  BY <1>16 DEF FlushTimeOut, Early, callerVars, taskVars, ackVars
<1>17. ASSUME NEW c \in Callers, DialFails(c) PROVE Early'
  <2>1. UNCHANGED <<acks, early, cell>>
    BY <1>17 DEF DialFails, callerVars, ackVars
  <2>2. \A a \in early : acks[a] = "queued" => task'[cell] \in Running
    BY <1>17 DEF DialFails, Early, Queues, Owned, Answered, Initializing, Running,
       Leaving, TypeOK, Move, callerVars
  <2>3. QED
    BY <2>1, <2>2 DEF Early
<1>18. ASSUME NEW c \in Callers, DialRefused(c) PROVE Early'
  <2>1. UNCHANGED <<acks, early, cell>>
    BY <1>18 DEF DialRefused, callerVars, ackVars
  <2>2. \A a \in early : acks[a] = "queued" => task'[cell] \in Running
    BY <1>18 DEF DialRefused, Early, Queues, Owned, Answered, Initializing, Running,
       Leaving, TypeOK, Move, callerVars
  <2>3. QED
    BY <2>1, <2>2 DEF Early
<1>19. ASSUME NEW c \in Callers, PauseEnds(c) PROVE Early'
  <2>1. UNCHANGED <<acks, early, cell>>
    BY <1>19 DEF PauseEnds, callerVars, ackVars
  <2>2. \A a \in early : acks[a] = "queued" => task'[cell] \in Running
    BY <1>19 DEF PauseEnds, Early, Queues, Owned, Answered, Initializing, Running,
       Leaving, TypeOK, Move, callerVars
  <2>3. QED
    BY <2>1, <2>2 DEF Early
<1>20. ASSUME NEW c \in Callers, Connack(c) PROVE Early'
  <2>1. UNCHANGED <<acks, early, cell>>
    BY <1>20 DEF Connack, callerVars, ackVars
  <2>2. \A a \in early : acks[a] = "queued" => task'[cell] \in Running
    BY <1>20 DEF Connack, Early, Queues, Owned, Answered, Initializing, Running, Leaving,
       TypeOK, Move, callerVars
  <2>3. QED
    BY <2>1, <2>2 DEF Early
<1>21. ASSUME NEW c \in Callers, Stall(c) PROVE Early'
  BY <1>21 DEF Stall, Early, callerVars, taskVars, ackVars
<1>22. ASSUME NEW c \in Callers, Write(c) PROVE Early'
  <2>1. /\ queue[c] # <<>> /\ Head(queue[c]) = queue[c][1] /\ 1 \in DOMAIN queue[c]
        /\ UNCHANGED <<cell, early>>
    BY <1>22 DEF Write, TypeOK, callerVars
  <2>2. CASE Head(queue[c]) = Disconnect
    <3>1. UNCHANGED acks /\ \A t \in Callers : t # c => task'[t] = task[t]
      BY <1>22, <2>2 DEF Write, Move, TypeOK
    <3>2. \A a \in early : a \notin Queued(c)
      BY <2>1, <2>2 DEF Queues, Queued, TypeOK
    <3>3. \A a \in early : acks[a] = "queued" => cell # c /\ cell \in Callers
      BY <3>2 DEF Queues, TypeOK
    <3>4. QED
      BY <2>1, <3>1, <3>3 DEF Early
  <2>3. CASE Head(queue[c]) # Disconnect
    BY <1>22, <2>1, <2>3 DEF Write, Early, TypeOK
  <2>4. QED
    BY <2>2, <2>3
<1>23. ASSUME NEW c \in Callers, Lose(c) PROVE Early'
  <2>1. /\ Abandon(c, "lost") /\ UNCHANGED cell
        /\ \A t \in Callers : t # c => task'[t] = task[t]
    BY <1>23 DEF Lose, Move, TypeOK, callerVars
  <2>2. QED
    BY <2>1, EarlyAbandon
<1>24. ASSUME NEW c \in Callers, RecoveryEnds(c) PROVE Early'
  <2>1. /\ Abandon(c, "lost") /\ UNCHANGED cell
        /\ \A t \in Callers : t # c => task'[t] = task[t]
    BY <1>24 DEF RecoveryEnds, Move, TypeOK, callerVars
  <2>2. QED
    BY <2>1, EarlyAbandon
<1>25. ASSUME NEW c \in Callers, ClosingRegister(c) PROVE Early'
  BY <1>25 DEF ClosingRegister, Early, callerVars, taskVars, ackVars
<1>26. ASSUME NEW c \in Callers, ClosingCheck(c) PROVE Early'
  BY <1>26 DEF ClosingCheck, Early, callerVars, taskVars, ackVars
<1>27. ASSUME NEW c \in Callers, ClosingEnds(c) PROVE Early'
  <2>1. /\ Abandon(c, "lost") /\ UNCHANGED cell
        /\ \A t \in Callers : t # c => task'[t] = task[t]
    BY <1>27 DEF ClosingEnds, Move, TypeOK, callerVars
  <2>2. QED
    BY <2>1, EarlyAbandon
<1>28. ASSUME NEW c \in Callers, ExitStore(c) PROVE Early'
  <2>1. UNCHANGED <<acks, early, cell>>
    BY <1>28 DEF ExitStore, callerVars, ackVars
  <2>2. \A a \in early : acks[a] = "queued" => task'[cell] \in Running
    BY <1>28 DEF ExitStore, Early, Queues, Owned, Answered, Initializing, Running,
       Leaving, TypeOK, Move, callerVars
  <2>3. QED
    BY <2>1, <2>2 DEF Early
<1>29. ASSUME NEW c \in Callers, ExitNotify(c) PROVE Early'
  <2>1. UNCHANGED <<acks, early, cell>>
    BY <1>29 DEF ExitNotify, callerVars, ackVars
  <2>2. \A a \in early : acks[a] = "queued" => task'[cell] \in Running
    BY <1>29 DEF ExitNotify, Early, Queues, Owned, Answered, Initializing, Running,
       Leaving, TypeOK, Move, callerVars
  <2>3. QED
    BY <2>1, <2>2 DEF Early
<1>30. ASSUME NEW c \in Callers, ExitDrop(c) PROVE Early'
  <2>1. /\ task[c] = "notified" /\ UNCHANGED cell /\ \A t \in Callers : t # c => task'[t] = task[t]
        /\ Abandon(c, "dropped")
    BY <1>30 DEF ExitDrop, Move, TypeOK, callerVars
  <2>2. \A a \in Queued(c) : a \notin early
    BY <2>1 DEF Early, Queues, Queued, Running
  <2>3. /\ \A a \in early : acks'[a] = acks[a]
        /\ early' = early
    BY <2>1, <2>2 DEF Abandon, TypeOK
  <2>4. \A a \in early : acks[a] = "queued" => cell # c
    BY <2>1 DEF Early, Running
  <2>5. \A a \in early : acks[a] = "queued" => cell \in Callers
    BY DEF Queues, TypeOK
  <2>6. QED
    BY <2>1, <2>3, <2>4, <2>5 DEF Early
<1>31. ASSUME NEW a \in Acks, Ack(a) PROVE Early'
  <2>1. task[cell] \in Running \cup Leaving /\ UNCHANGED <<cell, task>>
    BY <1>31 DEF Ack, Owned, Answered, TypeOK, Running, callerVars, taskVars
  <2>2. CASE /\ acks' = [acks EXCEPT ![a] = "queued"]
             /\ early' = IF closed[cell] \/ task[cell] \in Leaving THEN early ELSE early \cup {a}
    BY <1>31, <2>1, <2>2 DEF Ack, Early, TypeOK
  <2>3. CASE acks' = [acks EXCEPT ![a] = "refused"] /\ UNCHANGED early
    BY <1>31, <2>1, <2>3 DEF Ack, Early, TypeOK
  <2>4. QED
    BY <1>31, <2>2, <2>3 DEF Ack
<1>32. CASE UNCHANGED vars
  BY <1>32 DEF Early, callerVars, taskVars, ackVars
<1>33. QED
  BY <1>1, <1>2, <1>3, <1>4, <1>5, <1>6, <1>7, <1>8, <1>9, <1>10, <1>11, <1>12, <1>13,
       <1>14, <1>15, <1>16, <1>17, <1>18, <1>19, <1>20, <1>21, <1>22, <1>23, <1>24,
       <1>25, <1>26, <1>27, <1>28, <1>29, <1>30, <1>31, <1>32 DEF Next, Connecting,
       ShuttingDown, Dials, Leaves

-----------------------------------------------------------------------------
(* The invariant, and what follows from it.                                *)

\* A broker that nobody called satisfies the invariant.
LEMMA InitInvariant == Init => IInv
<1> SUFFICES ASSUME Init PROVE IInv
  OBVIOUS
<1> USE LifecycleAssumption
<1>1. TypeOK
  BY DEF Init, TypeOK, Running
<1>2. Owned /\ Told
  BY DEF Init, Owned, Told, Initializing, Closing, Given, Running
<1>3. Answered
  BY DEF Init, Answered, ReasonGiven
<1>4. Wakes
  BY DEF Init, Wakes, Woken, WakeUpsReach
<1>5. Queues /\ Early
  BY DEF Init, Queues, Early, Queued
<1>6. QED
  BY <1>1, <1>2, <1>3, <1>4, <1>5 DEF IInv, Ownership

\* Every step preserves it.
LEMMA InvariantStep == IInv /\ [Next]_vars => IInv'
<1> SUFFICES ASSUME IInv, [Next]_vars PROVE IInv'
  OBVIOUS
<1>1. PhaseTypes
  BY TypeGivesPhases DEF IInv, Ownership
<1>2. Ownership'
  BY <1>1, TypeStep, OwnedStep, AnsweredStep, ToldStep DEF IInv, Ownership
<1>3. Wakes'
  BY <1>1, WokenStep, WakeUpsStep DEF IInv, Ownership, Wakes
<1>4. Queues' /\ Early'
  BY QueuesStep, EarlyStep DEF IInv, Ownership
<1>5. QED
  BY <1>2, <1>3, <1>4 DEF IInv

\* The invariant holds in every state of a broker's life.
THEOREM InvariantHolds == Spec => []IInv
BY InitInvariant, InvariantStep, PTL DEF Spec

\* Every variable has its type in every state.
THEOREM TypeCorrect == Spec => []TypeOK
<1>1. IInv => TypeOK
  BY DEF IInv, Ownership
<1>2. QED
  BY <1>1, InvariantHolds, PTL

\* However connects time out, fail and share, one connection task at most runs
\* without having been told to stop.
THEOREM OneTaskRuns == Spec => []OneTask
<1>1. Owned => OneTask
  <2>1. SUFFICES ASSUME Owned, NEW s \in Callers, NEW t \in Callers,
                        task[s] \in Running, task[t] \in Running, ~closed[s], ~closed[t]
                 PROVE  s = t
    BY DEF OneTask
  <2>2. /\ pc[s] \in Initializing \/ cell = s
        /\ pc[t] \in Initializing \/ cell = t
    BY <2>1 DEF Owned, Initializing
  <2>3. cell = s \/ cell = t => cell # NoCaller
    BY LifecycleAssumption
  <2>4. QED
    BY <2>1, <2>2, <2>3 DEF Owned
<1>2. IInv => Owned
  BY DEF IInv, Ownership
<1>3. QED
  BY <1>1, <1>2, InvariantHolds, PTL

\* A connect that waits is always told why its task ended.
THEOREM ReasonAlwaysGiven == Spec => []ReasonGiven
<1>1. IInv => ReasonGiven
  BY DEF IInv, Ownership, Answered
<1>2. QED
  BY <1>1, InvariantHolds, PTL

\* No notification between a shutdown, a recovery and the task's end is lost.
THEOREM WakeUpsAlwaysReach == Spec => []WakeUpsReach
<1>1. IInv => WakeUpsReach
  BY DEF IInv, Wakes
<1>2. QED
  BY <1>1, InvariantHolds, PTL

\* An acknowledgement accepted before any shutdown is written, or lost with its
\* connection, before a shutdown returns.
THEOREM AcksAlwaysFlushed == Spec => []AcksFlushed
<1>1. Early /\ Woken => AcksFlushed
  BY DEF Early, Woken, AcksFlushed, Running, Exited
<1>2. IInv => Early /\ Woken
  BY DEF IInv, Wakes
<1>3. QED
  BY <1>1, <1>2, InvariantHolds, PTL
=============================================================================
