----------------------------- MODULE Lifecycle -----------------------------
(***************************************************************************)
(* The life of a broker: connect on the clones of one MqttBroker, which     *)
(* share a cell, the connection task that each initialization of the cell   *)
(* spawns (run in conn.rs), and shutdown (broker.rs), with the flags and    *)
(* notifications between them.  What the task does about the session is in  *)
(* Session; here a request is an acknowledgement or the DISCONNECT.         *)
(***************************************************************************)
EXTENDS Naturals, Sequences, FiniteSets

CONSTANTS
  Callers,      \* the clones of the broker, each of which connects once
  NoCaller,     \* an empty cell
  Acks,         \* the acknowledgements the handlers make
  Disconnect,   \* the DISCONNECT in a request queue
  Capacity      \* the places of a request queue

ASSUME LifecycleAssumption ==
  /\ NoCaller \notin Callers
  /\ Disconnect \notin Acks
  /\ Capacity \in Nat \ {0}

VARIABLES
  pc,           \* where a caller is, in connect and then in shutdown
  cell,         \* the caller whose connection the cell keeps, or NoCaller
  task,         \* the connection task a caller's initialization spawned
  first,        \* what that task said of its first CONNACK
  closed,       \* Shared::closed of that connection
  watch,        \* Shared::closing, in a recovery of that task
  queue,        \* the request queue of that task
  stalled,      \* the server does not read from that connection
  woken,        \* the callers that stopped's notification woke
  acks,         \* what became of an acknowledgement
  early         \* those accepted before any shutdown, while the task ran

callerVars == <<pc, cell, woken>>
taskVars == <<task, watch, stalled>>
ackVars == <<acks, early>>
vars == <<callerVars, taskVars, first, closed, queue, ackVars>>

\* connect runs the initialization of the cell.
Initializing == {"waiting", "late", "late_marked", "late_told"}
\* shutdown, from its close to its wait.
Closing == {"marked", "queuing", "sent", "registered", "awaiting"}

\* In the loop of run.
Running == {"dialing", "pausing", "up", "recovering"}
\* Past it.
Leaving == {"leaving", "exited", "notified", "over"}

\* Mutation: the flag is stored once the waiters are notified.
ExitedLate == {"over"}

\* Shared::exited is stored, and then the waiters are notified and the event loop
\* dropped.
Exited == {"exited", "notified", "over"}

\* The callers registered with stopped.
Registered == {c \in Callers : pc[c] \in {"registered", "awaiting"}}

\* The phases of a recovery's closing in which it is registered.
Watching == {"registered", "waiting"}

Queued(t) == {a \in Acks : \E n \in DOMAIN queue[t] : queue[t][n] = a}

\* The requests in a queue go with the connection.
Abandon(t, as) ==
  /\ acks' = [a \in Acks |-> IF a \in Queued(t) THEN as ELSE acks[a]]
  /\ queue' = [queue EXCEPT ![t] = <<>>]
  /\ UNCHANGED early

\* Mutation: a full queue takes a request.
RoomAlways(t) == task[t] # "over"

Room(t) == Len(queue[t]) < Capacity /\ task[t] # "over"

Enqueued(t, request) == [queue EXCEPT ![t] = Append(@, request)]

-----------------------------------------------------------------------------
(* connect.                                                                *)

Goto(c, p) == pc' = [pc EXCEPT ![c] = p]

Call(c) ==
  /\ pc[c] = "idle" /\ Goto(c, "calling")
  /\ UNCHANGED <<cell, woken, taskVars, first, closed, queue, ackVars>>

\* get_or_try_init runs one initialization at a time, and none after a success.
Initialize(c) ==
  /\ pc[c] = "calling" /\ cell = NoCaller
  /\ \A d \in Callers : pc[d] \notin Initializing
  /\ Goto(c, "waiting")
  /\ task' = [task EXCEPT ![c] = "dialing"]
  /\ UNCHANGED <<cell, woken, watch, stalled, first, closed, queue, ackVars>>

Share(c) ==
  /\ pc[c] = "calling" /\ cell # NoCaller /\ Goto(c, "connected")
  /\ UNCHANGED <<cell, woken, taskVars, first, closed, queue, ackVars>>

Established(c) ==
  /\ pc[c] = "waiting" /\ first[c] = "ok" /\ Goto(c, "connected")
  /\ cell' = c
  /\ UNCHANGED <<woken, taskVars, first, closed, queue, ackVars>>

Rejected(c) ==
  /\ pc[c] = "waiting" /\ first[c] \in {"refused", "dropped"} /\ Goto(c, "failed")
  /\ UNCHANGED <<cell, woken, taskVars, first, closed, queue, ackVars>>

\* Mutation: the wait has no bound.
TimeOutNever(c) == pc[c] = "waiting" /\ FALSE /\ UNCHANGED vars

\* The 30 seconds run out; an answer that is there already wins.
TimeOut(c) ==
  /\ pc[c] = "waiting" /\ first[c] = "open" /\ Goto(c, "late")
  /\ UNCHANGED <<cell, woken, taskVars, first, closed, queue, ackVars>>

\* Mutation: the task of a connect that timed out is not told.
LateCloseNever(c) ==
  /\ pc[c] = "late" /\ Goto(c, "late_marked")
  /\ UNCHANGED <<cell, woken, taskVars, first, closed, queue, ackVars>>

\* Shared::close stores the flag ...
LateClose(c) ==
  /\ pc[c] = "late" /\ Goto(c, "late_marked")
  /\ closed' = [closed EXCEPT ![c] = TRUE]
  /\ UNCHANGED <<cell, woken, taskVars, first, queue, ackVars>>

\* ... and notifies.
Wake(t) ==
  /\ watch' = [watch EXCEPT ![t] = IF @ \in Watching THEN "woken" ELSE @]
  /\ UNCHANGED <<task, stalled>>

LateNotify(c) ==
  /\ pc[c] = "late_marked" /\ Goto(c, "late_told") /\ Wake(c)
  /\ UNCHANGED <<cell, woken, first, closed, queue, ackVars>>

\* Mutation: nothing stops a task that got through.
LateDisconnectNever(c) ==
  /\ pc[c] = "late_told" /\ Goto(c, "failed")
  /\ UNCHANGED <<cell, woken, taskVars, first, closed, queue, ackVars>>

\* try_disconnect, whose failure is ignored.
LateDisconnect(c) ==
  /\ pc[c] = "late_told" /\ Goto(c, "failed")
  /\ queue' = IF Room(c) THEN Enqueued(c, Disconnect) ELSE queue
  /\ UNCHANGED <<cell, woken, taskVars, first, closed, ackVars>>

-----------------------------------------------------------------------------
(* shutdown, of the connection the cell keeps, and its acknowledgements.   *)

Shutdown(c) ==
  /\ pc[c] = "connected" /\ Goto(c, "marked")
  /\ closed' = [closed EXCEPT ![cell] = TRUE]
  /\ UNCHANGED <<cell, woken, taskVars, first, queue, ackVars>>

ShutdownNotify(c) ==
  /\ pc[c] = "marked" /\ Goto(c, "queuing") /\ Wake(cell)
  /\ UNCHANGED <<cell, woken, first, closed, queue, ackVars>>

\* The DISCONNECT waits for a place; without its task there is none to wait for.
ShutdownQueue(c) ==
  /\ pc[c] = "queuing" /\ Goto(c, "sent")
  /\ \/ Room(cell) /\ queue' = Enqueued(cell, Disconnect)
     \/ task[cell] = "over" /\ UNCHANGED queue
  /\ UNCHANGED <<cell, woken, taskVars, first, closed, ackVars>>

\* stopped, up to its registration ...
StoppedRegister(c) ==
  /\ pc[c] = "sent" /\ Goto(c, "registered")
  /\ UNCHANGED <<cell, woken, taskVars, first, closed, queue, ackVars>>

\* Mutation: the session is closed as soon as the DISCONNECT is queued.
StoppedCheckNever(c) ==
  /\ pc[c] = "registered" /\ Goto(c, "shut")
  /\ UNCHANGED <<cell, woken, taskVars, first, closed, queue, ackVars>>

\* ... and on.
StoppedCheck(c) ==
  /\ pc[c] = "registered"
  /\ Goto(c, IF task[cell] \in Exited THEN "shut" ELSE "awaiting")
  /\ UNCHANGED <<cell, woken, taskVars, first, closed, queue, ackVars>>

StoppedWoken(c) ==
  /\ pc[c] = "awaiting" /\ c \in woken /\ Goto(c, "shut")
  /\ UNCHANGED <<cell, woken, taskVars, first, closed, queue, ackVars>>

\* SHUTDOWN_FLUSH runs out.
FlushTimeOut(c) ==
  /\ pc[c] = "awaiting" /\ c \notin woken /\ Goto(c, "overdue")
  /\ UNCHANGED <<cell, woken, taskVars, first, closed, queue, ackVars>>

\* Link::ack of a delivery: it reports success once it is queued, and waits for
\* a place before that.
Ack(a) ==
  /\ acks[a] = "none" /\ cell # NoCaller
  /\ \/ /\ Room(cell) /\ queue' = Enqueued(cell, a)
        /\ acks' = [acks EXCEPT ![a] = "queued"]
        /\ early' = IF closed[cell] \/ task[cell] \in Leaving THEN early ELSE early \cup {a}
     \/ /\ task[cell] = "over"
        /\ acks' = [acks EXCEPT ![a] = "refused"]
        /\ UNCHANGED <<queue, early>>
  /\ UNCHANGED <<callerVars, taskVars, first, closed>>

-----------------------------------------------------------------------------
(* run, the connection task of the initialization of caller t.             *)

Move(t, phase) ==
  /\ task' = [task EXCEPT ![t] = phase]
  /\ watch' = [watch EXCEPT ![t] = "off"]

\* A dial fails before the first CONNACK.
DialFails(t) ==
  /\ task[t] = "dialing"
  /\ Move(t, IF closed[t] THEN "leaving" ELSE "pausing")
  /\ UNCHANGED <<callerVars, stalled, first, closed, queue, ackVars>>

\* Mutation: the task ends without a word.
DialRefusedSilently(t) ==
  /\ task[t] = "dialing" /\ Move(t, "leaving")
  /\ closed' = [closed EXCEPT ![t] = TRUE]
  /\ UNCHANGED <<callerVars, stalled, first, queue, ackVars>>

\* It fails for a reason no retry changes: connect is told, and Shared::end closes
\* the broker.
DialRefused(t) ==
  /\ task[t] = "dialing" /\ Move(t, "leaving")
  /\ first' = IF closed[t] THEN first ELSE [first EXCEPT ![t] = "refused"]
  /\ closed' = [closed EXCEPT ![t] = TRUE]
  /\ UNCHANGED <<callerVars, stalled, queue, ackVars>>

PauseEnds(t) ==
  /\ task[t] = "pausing" /\ Move(t, "dialing")
  /\ UNCHANGED <<callerVars, stalled, first, closed, queue, ackVars>>

\* The CONNACK of a first dial, or of a recovery's.
Connack(t) ==
  /\ task[t] \in {"dialing", "recovering"} /\ Move(t, "up")
  /\ first' = [first EXCEPT ![t] = "ok"]
  /\ stalled' = [stalled EXCEPT ![t] = FALSE]
  /\ UNCHANGED <<callerVars, closed, queue, ackVars>>

\* The server stops reading.
Stall(t) ==
  /\ task[t] = "up" /\ ~stalled[t]
  /\ stalled' = [stalled EXCEPT ![t] = TRUE]
  /\ UNCHANGED <<callerVars, task, watch, first, closed, queue, ackVars>>

\* The next request is written.
Write(t) ==
  /\ task[t] = "up" /\ ~stalled[t] /\ queue[t] # <<>>
  /\ queue' = [queue EXCEPT ![t] = Tail(@)]
  /\ IF Head(queue[t]) = Disconnect
     THEN Move(t, "leaving") /\ UNCHANGED acks
     ELSE /\ acks' = [acks EXCEPT ![Head(queue[t])] = "written"]
          /\ UNCHANGED <<task, watch>>
  /\ UNCHANGED <<callerVars, stalled, first, closed, early>>

\* The connection is lost, and with it what was queued (what a server that keeps
\* the session is sent again is Session's); unless the broker is closed, or the
\* reason is final and Shared::end closes it, the mode recovers it.
Lose(t) ==
  /\ task[t] = "up" /\ Abandon(t, "lost")
  /\ \/ Move(t, "leaving") /\ closed' = [closed EXCEPT ![t] = TRUE]
     \/ ~closed[t] /\ Move(t, "recovering") /\ UNCHANGED closed
  /\ UNCHANGED <<callerVars, stalled, first>>

\* A recovery gives up, and Shared::end closes the broker, or a dial of it fails on
\* a closed one.
RecoveryEnds(t) ==
  /\ task[t] = "recovering" /\ Move(t, "leaving") /\ Abandon(t, "lost")
  /\ closed' = [closed EXCEPT ![t] = TRUE]
  /\ UNCHANGED <<callerVars, stalled, first>>

\* The recovery runs beside closing: it registers, reads the flag, and waits.
ClosingRegister(t) ==
  /\ task[t] = "recovering" /\ watch[t] = "off"
  /\ watch' = [watch EXCEPT ![t] = "registered"]
  /\ UNCHANGED <<callerVars, task, stalled, first, closed, queue, ackVars>>

ClosingCheck(t) ==
  /\ watch[t] = "registered" /\ ~closed[t]
  /\ watch' = [watch EXCEPT ![t] = "waiting"]
  /\ UNCHANGED <<callerVars, task, stalled, first, closed, queue, ackVars>>

ClosingEnds(t) ==
  /\ watch[t] = "woken" \/ (watch[t] = "registered" /\ closed[t])
  /\ Move(t, "leaving") /\ Abandon(t, "lost")
  /\ UNCHANGED <<callerVars, stalled, first, closed>>

ExitStore(t) ==
  /\ task[t] = "leaving" /\ Move(t, "exited")
  /\ UNCHANGED <<callerVars, stalled, first, closed, queue, ackVars>>

ExitNotify(t) ==
  /\ task[t] = "exited" /\ Move(t, "notified")
  /\ woken' = IF t = cell THEN woken \cup Registered ELSE woken
  /\ UNCHANGED <<pc, cell, stalled, first, closed, queue, ackVars>>

\* The task drops its event loop, with the queue, and its end of the oneshot.
ExitDrop(t) ==
  /\ task[t] = "notified" /\ Move(t, "over") /\ Abandon(t, "dropped")
  /\ first' = [first EXCEPT ![t] = IF @ = "open" THEN "dropped" ELSE @]
  /\ UNCHANGED <<callerVars, stalled, closed>>

-----------------------------------------------------------------------------
Init ==
  /\ pc = [c \in Callers |-> "idle"] /\ cell = NoCaller /\ woken = {}
  /\ task = [c \in Callers |-> "none"] /\ watch = [c \in Callers |-> "off"]
  /\ stalled = [c \in Callers |-> FALSE]
  /\ first = [c \in Callers |-> "open"]
  /\ closed = [c \in Callers |-> FALSE]
  /\ queue = [c \in Callers |-> <<>>]
  /\ acks = [a \in Acks |-> "none"] /\ early = {}

Connecting(c) ==
  \/ Initialize(c) \/ Share(c) \/ Established(c) \/ Rejected(c) \/ TimeOut(c)
  \/ LateClose(c) \/ LateNotify(c) \/ LateDisconnect(c)

ShuttingDown(c) ==
  \/ ShutdownNotify(c) \/ ShutdownQueue(c)
  \/ StoppedRegister(c) \/ StoppedCheck(c) \/ StoppedWoken(c)

Dials(t) == DialFails(t) \/ DialRefused(t) \/ PauseEnds(t) \/ Connack(t)

Leaves(t) ==
  ClosingRegister(t) \/ ClosingCheck(t) \/ ClosingEnds(t)
    \/ ExitStore(t) \/ ExitNotify(t) \/ ExitDrop(t)

Next ==
  \/ \E c \in Callers :
       \/ Call(c) \/ Connecting(c) \/ Shutdown(c) \/ ShuttingDown(c) \/ FlushTimeOut(c)
       \/ Dials(c) \/ Stall(c) \/ Write(c) \/ Lose(c) \/ RecoveryEnds(c) \/ Leaves(c)
  \/ \E a \in Acks : Ack(a)

Spec == Init /\ [][Next]_vars

\* Callers and tasks go on, a dial ends and the 30 seconds do.  Nobody has to
\* call, to shut down or to acknowledge; the server may not answer and may stop
\* reading; a recovery may dial for ever; and the five seconds are not needed.
Fairness ==
  \A c \in Callers :
    /\ WF_vars(Connecting(c)) /\ WF_vars(ShuttingDown(c))
    /\ WF_vars(task[c] = "dialing" /\ Dials(c)) /\ WF_vars(PauseEnds(c))
    /\ WF_vars(Write(c)) /\ WF_vars(Leaves(c))

FairSpec == Spec /\ Fairness

-----------------------------------------------------------------------------
(* Properties.                                                             *)

\* Each variable has its type.
TypeOK ==
  /\ pc \in [Callers -> {"idle", "calling", "connected", "failed", "shut", "overdue"}
                           \cup Initializing \cup Closing]
  /\ cell \in Callers \cup {NoCaller} /\ woken \subseteq Callers
  /\ task \in [Callers -> {"none"} \cup Running \cup Leaving]
  /\ watch \in [Callers -> {"off", "registered", "waiting", "woken"}]
  /\ stalled \in [Callers -> BOOLEAN]
  /\ first \in [Callers -> {"open", "ok", "refused", "dropped"}]
  /\ closed \in [Callers -> BOOLEAN]
  /\ queue \in [Callers -> Seq(Acks \cup {Disconnect})]
  /\ \A c \in Callers : Len(queue[c]) <= Capacity
  /\ acks \in [Acks -> {"none", "queued", "written", "lost", "dropped", "refused"}]
  /\ early \subseteq Acks

\* Of the tasks that connects on one broker spawned, one at most runs without
\* having been told to stop: two would dial with one client id.
OneTask ==
  \A s, t \in Callers :
    task[s] \in Running /\ task[t] \in Running /\ ~closed[s] /\ ~closed[t] => s = t

\* A connect that waits is told why its task ended: the oneshot is never just
\* dropped ("the connection task exited before the first CONNACK").
ReasonGiven == \A c \in Callers : pc[c] = "waiting" => first[c] # "dropped"

\* No notification is lost: a shutdown that waits for a task which has notified
\* is woken, and so is a recovery that waits once the broker is closed.
WakeUpsReach ==
  /\ \A c \in Callers :
       pc[c] = "awaiting" /\ task[cell] \in {"notified", "over"} => c \in woken
  /\ \A t \in Callers :
       watch[t] = "waiting" /\ closed[t] =>
         pc[t] = "late_marked" \/ (t = cell /\ \E c \in Callers : pc[c] = "marked")

\* An acknowledgement accepted while the task ran and before any shutdown is on the
\* wire, or was lost with a connection, once a shutdown has waited for the task, and
\* whenever the task has ended.
AcksFlushed ==
  \A a \in early :
    /\ acks[a] # "dropped"
    /\ (\E c \in Callers : pc[c] = "shut") => acks[a] # "queued"

\* A connect returns, also one that waits for another's initialization.
ConnectsReturn == \A c \in Callers : pc[c] = "calling" ~> pc[c] \in {"connected", "failed"}

\* A connect that failed leaves no task behind, whatever its dial comes to, unless
\* the server stopped reading.
FailedConnectsStop ==
  \A c \in Callers : pc[c] = "failed" ~> task[c] = "over" \/ stalled[c]

\* A shutdown returns without its five seconds running out, in whatever state the
\* task is, unless the server stopped reading.
ShutdownsReturn ==
  \A c \in Callers :
    pc[c] = "marked" ~> pc[c] \in {"shut", "overdue"} \/ \E t \in Callers : stalled[t]

\* An acknowledgement after a shutdown has returned is refused.  No run checks it: it
\* fails, see the README.
LateAcksRefused ==
  [][(\E c \in Callers : pc[c] = "shut") =>
       \A a \in Acks : acks[a] = "none" => acks'[a] # "queued"]_vars
=============================================================================
