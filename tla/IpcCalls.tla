------------------------------ MODULE IpcCalls ------------------------------
(***************************************************************************)
(* The panel's calls to the root agent: HTTP handlers share one AgentLink, *)
(* which keeps one IpcClient and replaces it when it died; a client has a  *)
(* writer task, a reader task and a map of callers waiting for a reply.    *)
(* The agent is `Restart=always` and may die at any moment; it may also    *)
(* stop reading, and either end of a connection may give it up on an error *)
(* while both processes live.  A caller may be dropped with the browser's  *)
(* connection.                                                             *)
(*                                                                         *)
(* A frame is known by its call and attempt (a fresh uuid per attempt).    *)
(***************************************************************************)
EXTENDS Naturals, FiniteSets

CONSTANTS
  Callers,      \* one call each: AgentLink::call, control or is_healthy
  Idempotent,   \* the calls whose operation may be run again
  OutboxCap,    \* frames the client's outbound channel holds (256)
  MaxMishaps,   \* bound: deaths of the agent and connections given up on an error
  None

Conns  == 1..(2 * Cardinality(Callers))   \* every attempt connects at most once
Frames == Callers \X {1, 2}

ASSUME IpcAssumption ==
  /\ IsFiniteSet(Callers) /\ Idempotent \subseteq Callers
  /\ OutboxCap \in Nat \ {0} /\ MaxMishaps \in Nat
  /\ None \notin Conns \cup Nat

VARIABLES
  \* --- the agent --------------------------------------------------------
  up,        \* it listens
  life,      \* counts its deaths
  accepted,  \* the life in which it accepted a frame, or None
  server,    \* its loop on a connection: "reading", "stuck" or "ended"
  \* --- AgentLink --------------------------------------------------------
  link,      \* AgentLink.client
  \* --- IpcClients -------------------------------------------------------
  born,      \* the life of the agent a connection was made to, None before
  closed,    \* IpcClient.closed
  writer,    \* the writer task runs
  reader,    \* the reader task: "running", then "closing", then "ended"
  pending,   \* frames whose caller is in the client's map
  broken,    \* the connections whose reader gave up on an error (observer)
  \* --- callers and their frames -----------------------------------------
  kind,      \* "call", "control" or "ping"
  pc,
  try,       \* first or second attempt
  on,        \* the client an attempt uses
  where,     \* where its frame is
  answer     \* its oneshot: "none", "reply", or "dropped" by the reader

agentVars  == <<up, life, accepted, server>>
clientVars == <<born, closed, writer, reader, pending, broken>>
vars == <<agentVars, link, clientVars, kind, pc, try, on, where, answer>>

InCall == {"client", "check", "insert", "send", "wait", "drop"}
Over   == {"ok", "unavailable", "timeout", "gone"}
Places == {"none", "outbox", "agent", "running", "replied", "done"}

TypeOK ==
  /\ up \in BOOLEAN /\ life \in Nat /\ accepted \in [Frames -> Nat \cup {None}]
  /\ server \in [Conns -> {"reading", "stuck", "ended"}]
  /\ link \in Conns \cup {None}
  /\ born \in [Conns -> Nat \cup {None}] /\ closed \in [Conns -> BOOLEAN]
  /\ writer \in [Conns -> BOOLEAN] /\ reader \in [Conns -> {"running", "closing", "ended"}]
  /\ pending \in SUBSET Frames /\ broken \in SUBSET Conns
  /\ kind \in [Callers -> {"call", "control", "ping"}]
  /\ pc \in [Callers -> {"idle"} \cup InCall \cup Over] /\ try \in [Callers -> {1, 2}]
  /\ on \in [Frames -> Conns \cup {None}] /\ where \in [Frames -> Places]
  /\ answer \in [Frames -> {"none", "reply", "dropped"}]

Init ==
  /\ up = TRUE /\ life = 0 /\ accepted = [f \in Frames |-> None]
  /\ server = [k \in Conns |-> "ended"]
  /\ link = None
  /\ born = [k \in Conns |-> None] /\ closed = [k \in Conns |-> FALSE]
  /\ writer = [k \in Conns |-> FALSE] /\ reader = [k \in Conns |-> "ended"]
  /\ pending = {} /\ broken = {}
  /\ kind = [c \in Callers |-> "call"] /\ pc = [c \in Callers |-> "idle"]
  /\ try = [c \in Callers |-> 1]
  /\ on = [f \in Frames |-> None] /\ where = [f \in Frames |-> "none"]
  /\ answer = [f \in Frames |-> "none"]

Frame(c) == <<c, try[c]>>
Conn(c)  == on[Frame(c)]

\* The agent's end stays open until its loop is over and its requests have replied:
\* they share the write half of the socket.
Wired(k) == server[k] # "ended" \/ \E f \in Frames : on[f] = k /\ where[f] = "running"
Outbox(k) == {f \in Frames : on[f] = k /\ where[f] = "outbox"}

\* Something goes wrong, within the bound.
Mishap ==
  life + Cardinality(broken) + Cardinality({k \in Conns : born[k] = life /\ server[k] = "ended"})
    < MaxMishaps

-----------------------------------------------------------------------------
(* Callers: AgentLink::call, control and is_healthy.                       *)

Goto(c, s) == pc' = [pc EXCEPT ![c] = s]

\* A Closed or Io error: a call or a control frame gets one more attempt.
Lost(c) == Goto(c, IF try[c] = 1 /\ kind[c] # "ping" THEN "drop" ELSE "unavailable")

Invoke(c) ==
  /\ pc[c] = "idle"
  /\ \E w \in {"call", "control", "ping"} : kind' = [kind EXCEPT ![c] = w]
  /\ Goto(c, "client")
  /\ UNCHANGED <<agentVars, link, clientVars, try, on, where, answer>>

\* What a caller does with its client: only a call looks at `closed` first.
Begin(c) == Goto(c, IF kind[c] = "call" THEN "check" ELSE "send")

LinkLives == link # None /\ ~closed[link]

\* client(), under the link's mutex: the live client,
UseLink(c) ==
  /\ pc[c] = "client" /\ LinkLives
  /\ on' = [on EXCEPT ![Frame(c)] = link]
  /\ Begin(c)
  /\ UNCHANGED <<agentVars, link, clientVars, kind, try, where, answer>>

\* or a new connection,
Connect(c) ==
  /\ pc[c] = "client" /\ ~LinkLives /\ up
  /\ \E k \in Conns :
       /\ born[k] = None /\ \A j \in 1..(k - 1) : born[j] # None
       /\ born' = [born EXCEPT ![k] = life]
       /\ server' = [server EXCEPT ![k] = "reading"]
       /\ writer' = [writer EXCEPT ![k] = TRUE]
       /\ reader' = [reader EXCEPT ![k] = "running"]
       /\ link' = k
       /\ on' = [on EXCEPT ![Frame(c)] = k]
  /\ Begin(c)
  /\ UNCHANGED <<up, life, accepted, closed, pending, broken, kind, try, where, answer>>

\* or the error of a socket nobody listens on.
ConnectFails(c) ==
  /\ pc[c] = "client" /\ ~LinkLives /\ ~up
  /\ Lost(c)
  /\ UNCHANGED <<agentVars, link, clientVars, kind, try, on, where, answer>>

Client(c) == UseLink(c) \/ Connect(c) \/ ConnectFails(c)

\* send_and_wait: is_closed.
Check(c) ==
  /\ pc[c] = "check"
  /\ IF closed[Conn(c)] THEN Lost(c) ELSE Goto(c, "insert")
  /\ UNCHANGED <<agentVars, link, clientVars, kind, try, on, where, answer>>

\* Mutant: a contended map is skipped.
InsertTry(c) ==
  /\ pc[c] = "insert"
  /\ \E F \in SUBSET {Frame(c)} : pending' = pending \cup F
  /\ Goto(c, "send")
  /\ UNCHANGED <<agentVars, link, born, closed, writer, reader, broken, kind, try, on, where, answer>>

\* send_and_wait: the caller goes into the map before its frame leaves.
Insert(c) ==
  /\ pc[c] = "insert"
  /\ pending' = pending \cup {Frame(c)}
  /\ Goto(c, "send")
  /\ UNCHANGED <<agentVars, link, born, closed, writer, reader, broken, kind, try, on, where, answer>>

\* outbound.send: waits for room, fails once the writer task is gone.  A control
\* frame is done when it is queued.
Send(c) ==
  /\ pc[c] = "send"
  /\ \/ /\ writer[Conn(c)] /\ Cardinality(Outbox(Conn(c))) < OutboxCap
        /\ where' = [where EXCEPT ![Frame(c)] = "outbox"]
        /\ Goto(c, IF kind[c] = "control" THEN "ok" ELSE "wait")
        /\ UNCHANGED pending
     \/ /\ ~writer[Conn(c)]
        /\ pending' = pending \ {Frame(c)}
        /\ Lost(c)
        /\ UNCHANGED where
  /\ UNCHANGED <<agentVars, link, born, closed, writer, reader, broken, kind, try, on, answer>>

\* The oneshot, or for a ping the client's next Pong, resolves.
Answered(c) ==
  /\ pc[c] = "wait"
  /\ \/ answer[Frame(c)] = "reply" /\ Goto(c, "ok")
     \/ answer[Frame(c)] = "dropped" /\ Lost(c)
  /\ UNCHANGED <<agentVars, link, clientVars, kind, try, on, where, answer>>

\* Mutant: a timeout is retried like a lost connection.
TimeOutRetried(c) ==
  /\ pc[c] = "wait" /\ answer[Frame(c)] = "none"
  /\ pending' = pending \ {Frame(c)}
  /\ Lost(c)
  /\ UNCHANGED <<agentVars, link, born, closed, writer, reader, broken, kind, try, on, where, answer>>

\* Mutant: the entry of a call that gave up stays in the map.
TimeOutKeeps(c) ==
  /\ pc[c] = "wait" /\ answer[Frame(c)] = "none"
  /\ Goto(c, "timeout")
  /\ UNCHANGED <<agentVars, link, clientVars, kind, try, on, where, answer>>

\* Mutant: the wait has no deadline while the connection stands.
TimeOutClosed(c) ==
  /\ pc[c] = "wait" /\ answer[Frame(c)] = "none" /\ closed[Conn(c)]
  /\ pending' = pending \ {Frame(c)}
  /\ Goto(c, "timeout")
  /\ UNCHANGED <<agentVars, link, born, closed, writer, reader, broken, kind, try, on, where, answer>>

\* DEFAULT_CALL_TIMEOUT: not retried.
TimeOut(c) ==
  /\ pc[c] = "wait" /\ answer[Frame(c)] = "none"
  /\ pending' = pending \ {Frame(c)}
  /\ Goto(c, "timeout")
  /\ UNCHANGED <<agentVars, link, born, closed, writer, reader, broken, kind, try, on, where, answer>>

\* drop_client, then the second attempt; the link may hold another client by now.
DropClient(c) ==
  /\ pc[c] = "drop"
  /\ link' = None
  /\ try' = [try EXCEPT ![c] = @ + 1]
  /\ Goto(c, "client")
  /\ UNCHANGED <<agentVars, clientVars, kind, on, where, answer>>

\* The browser went away: the handler is dropped where it awaits something.
Abandon(c) ==
  /\ \/ pc[c] \in {"client", "insert", "wait", "drop"}
     \/ pc[c] = "send" /\ Cardinality(Outbox(Conn(c))) = OutboxCap
  /\ Goto(c, "gone")
  /\ UNCHANGED <<agentVars, link, clientVars, kind, try, on, where, answer>>

CallerStep(c) ==
  \/ Client(c) \/ Check(c) \/ Insert(c) \/ Send(c) \/ Answered(c) \/ TimeOut(c) \/ DropClient(c)

-----------------------------------------------------------------------------
(* A client's two tasks.                                                   *)

\* The writer: a frame reaches the agent's socket, where nobody reads it if the
\* agent's loop is over; or the write fails and the frames behind it are dropped with
\* the channel.  A socket the agent does not read from takes frames while it has room.
Write(k) ==
  /\ writer[k]
  /\ \/ /\ Wired(k)
        /\ \E f \in Outbox(k) :
             where' = [where EXCEPT ![f] = IF server[k] = "ended" THEN "done" ELSE "agent"]
        /\ UNCHANGED <<writer, closed>>
     \/ /\ ~Wired(k) /\ Outbox(k) # {}
        /\ where' = [f \in Frames |-> IF f \in Outbox(k) THEN "done" ELSE where[f]]
        /\ writer' = [writer EXCEPT ![k] = FALSE]
        /\ closed' = [closed EXCEPT ![k] = TRUE]
  /\ UNCHANGED <<agentVars, link, born, reader, pending, broken, kind, pc, try, on, answer>>

Holders(k) ==
  {c \in Callers : Conn(c) = k /\ pc[c] \in {"check", "insert", "send", "wait"}}

\* The last sender is gone: the writer ends.  The reader keeps the socket open.
Forget(k) ==
  /\ writer[k] /\ Outbox(k) = {} /\ link # k /\ Holders(k) = {}
  /\ writer' = [writer EXCEPT ![k] = FALSE]
  /\ closed' = [closed EXCEPT ![k] = TRUE]
  /\ UNCHANGED <<agentVars, link, born, reader, pending, broken, kind, pc, try, on, where, answer>>

\* A reply goes to the caller in the map, a Pong to every ping that waits.
Delivered(f) ==
  IF kind[f[1]] = "ping"
  THEN {<<c, try[c]>> : c \in {d \in Callers : kind[d] = "ping" /\ pc[d] = "wait"
                                               /\ Conn(d) = on[f]}}
  ELSE {f} \cap pending

Read(k) ==
  /\ reader[k] = "running"
  /\ \E f \in Frames :
       /\ on[f] = k /\ where[f] = "replied"
       /\ where' = [where EXCEPT ![f] = "done"]
       /\ answer' = [g \in Frames |-> IF g \in Delivered(f) THEN "reply" ELSE answer[g]]
       /\ pending' = pending \ {f}
  /\ UNCHANGED <<agentVars, link, born, closed, writer, reader, broken, kind, pc, try, on>>

\* EOF, once the agent's end is gone and what it had written is read.
ReadEof(k) ==
  /\ reader[k] = "running" /\ ~Wired(k)
  /\ \A f \in Frames : on[f] = k => where[f] # "replied"
  /\ reader' = [reader EXCEPT ![k] = "closing"]
  /\ closed' = [closed EXCEPT ![k] = TRUE]
  /\ UNCHANGED <<agentVars, link, born, writer, pending, broken, kind, pc, try, on, where, answer>>

\* A read error or a frame it cannot parse: the reader gives up, whatever the agent is
\* at and has still to say.  The writer keeps the socket open.
ReadFails(k) ==
  /\ reader[k] = "running" /\ Mishap
  /\ reader' = [reader EXCEPT ![k] = "closing"]
  /\ closed' = [closed EXCEPT ![k] = TRUE]
  /\ broken' = broken \cup {k}
  /\ UNCHANGED <<agentVars, link, born, writer, pending, kind, pc, try, on, where, answer>>

\* pending.clear() drops the senders: everyone in the map is woken.
ClearPending(k) ==
  /\ reader[k] = "closing"
  /\ reader' = [reader EXCEPT ![k] = "ended"]
  /\ pending' = {f \in pending : on[f] # k}
  /\ answer' = [f \in Frames |->
                  IF f \in pending /\ on[f] = k THEN "dropped" ELSE answer[f]]
  /\ UNCHANGED <<agentVars, link, born, closed, writer, broken, kind, pc, try, on, where>>

ReaderStep(k) == Read(k) \/ ReadEof(k) \/ ClearPending(k)
ClientStep(k) == Write(k) \/ Forget(k) \/ ReaderStep(k) \/ ReadFails(k)

-----------------------------------------------------------------------------
(* The agent.                                                              *)

\* serve_connection hands a frame to the handler: one task per request, which
\* creates the task row or runs the operation; a control frame has no reply.
Accept(f) ==
  /\ where[f] = "agent" /\ server[on[f]] = "reading"
  /\ accepted' = [accepted EXCEPT ![f] = life]
  /\ where' = [where EXCEPT ![f] = IF kind[f[1]] = "control" THEN "done" ELSE "running"]
  /\ UNCHANGED <<up, life, server, link, clientVars, kind, pc, try, on, answer>>

Reply(f) ==
  /\ where[f] = "running"
  /\ where' = [where EXCEPT ![f] = "replied"]
  /\ UNCHANGED <<agentVars, link, clientVars, kind, pc, try, on, answer>>

\* A control frame is handled inside the loop: while its handler waits (terminal input
\* for a shell that does not read), no frame of that connection is read.  The panel
\* notices when its socket, full of other traffic, does not take a frame.  One that is
\* read again later is one that has not taken its next step yet.
Stick(k) ==
  /\ server[k] = "reading" /\ Outbox(k) # {}
  /\ server' = [server EXCEPT ![k] = "stuck"]
  /\ UNCHANGED <<up, life, accepted, link, clientVars, kind, pc, try, on, where, answer>>

\* Any error but a malformed frame ends the loop.  The requests it spawned go on.
ServeFails(k) ==
  /\ server[k] = "reading" /\ Mishap
  /\ server' = [server EXCEPT ![k] = "ended"]
  /\ where' = [f \in Frames |-> IF on[f] = k /\ where[f] = "agent" THEN "done" ELSE where[f]]
  /\ UNCHANGED <<up, life, accepted, link, clientVars, kind, pc, try, on, answer>>

ServeStep(k) == Stick(k) \/ ServeFails(k)

\* It dies with everything it was doing; replies still in its own channel go too.
Crash ==
  /\ up /\ Mishap
  /\ up' = FALSE /\ life' = life + 1
  /\ server' = [k \in Conns |-> "ended"]
  /\ \E L \in SUBSET {f \in Frames : where[f] = "replied"} :
       where' = [f \in Frames |->
                   IF f \in L \/ where[f] \in {"agent", "running"} THEN "done" ELSE where[f]]
  /\ UNCHANGED <<accepted, link, clientVars, kind, pc, try, on, answer>>

Restart ==
  /\ ~up /\ up' = TRUE
  /\ UNCHANGED <<life, accepted, server, link, clientVars, kind, pc, try, on, where, answer>>

Next ==
  \/ \E c \in Callers : Invoke(c) \/ CallerStep(c) \/ Abandon(c)
  \/ \E k \in Conns : ClientStep(k) \/ ServeStep(k)
  \/ \E f \in Frames : Accept(f) \/ Reply(f)
  \/ Crash \/ Restart

Spec == Init /\ [][Next]_vars

\* The runtime keeps running the callers and the clients' tasks, and its timer fires.
\* A write goes through unless the agent has stopped reading from that socket; that it
\* answers or comes back is not assumed.
Fairness ==
  /\ \A c \in Callers : WF_vars(CallerStep(c))
  /\ \A k \in Conns : WF_vars(Forget(k)) /\ WF_vars(ReaderStep(k))
  /\ \A k \in Conns : WF_vars(server[k] # "stuck" /\ Write(k))

FairSpec == Spec /\ Fairness

-----------------------------------------------------------------------------
(* Properties.                                                             *)

\* A retry never follows a slow answer: one life of the agent accepts both attempts of a
\* call only if the panel's reader gave up the connection of the first one.  A death, a
\* timeout, an agent that stops reading or ends its side does not lead there.
OneRunPerLife ==
  \A c \in Callers :
    accepted[<<c, 1>>] # None /\ accepted[<<c, 2>>] = accepted[<<c, 1>>]
      => on[<<c, 1>>] \in broken

\* The map is filled before the frame leaves and emptied only with a verdict, so a
\* call that waits without an answer can still be found by the reader.
WaitersAreKnown ==
  \A c \in Callers :
    pc[c] = "wait" /\ kind[c] = "call" /\ answer[Frame(c)] = "none" => Frame(c) \in pending

\* The map belongs to a connection that lasts "its whole process life": no attempt
\* that returned, and no first attempt that was retried, leaves its entry behind.
EntriesOwned ==
  \A f \in pending : f = Frame(f[1]) /\ pc[f[1]] \in {"send", "wait", "gone"}

\* outbound.send has no deadline.
Blocked(c) ==
  /\ pc[c] = "send" /\ server[Conn(c)] = "stuck"
  /\ Cardinality(Outbox(Conn(c))) = OutboxCap

\* "The agent is Restart=always, so it *will* disappear": no call is under way for good,
\* not on an agent that never replies or never comes back either.  The one thing a
\* caller can wait for without end is room in the outbound channel, behind an agent that
\* has stopped reading from that connection.
CallReturns == \A c \in Callers : []<>(pc[c] \notin InCall \/ Blocked(c))

-----------------------------------------------------------------------------
(* What the code says of itself and TLC refutes.                           *)

\* "Only idempotent tasks are ever retried automatically".
OnlyIdempotentRetried ==
  \A c \in Callers \ Idempotent :
    kind[c] = "call" => accepted[<<c, 1>>] = None \/ accepted[<<c, 2>>] = None

\* "Wake everyone still waiting instead of letting them hit the timeout."
DeadConnectionWakes ==
  [][\A c \in Callers :
       pc[c] = "wait" /\ kind[c] = "call" /\ pc'[c] = "timeout" => reader[Conn(c)] = "running"]_vars

\* DEFAULT_CALL_TIMEOUT: "How long a non-task call may take before the caller gives up."
CallsGiveUp == \A c \in Callers : []<>(pc[c] \notin InCall)

\* "reconnecting once if the connection has died": the agent that holds the operation
\* does not get it again.
RetryMeetsNewAgent ==
  \A c \in Callers : accepted[<<c, 1>>] # None => accepted[<<c, 2>>] # accepted[<<c, 1>>]
=============================================================================
