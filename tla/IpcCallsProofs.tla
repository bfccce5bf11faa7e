--------------------------- MODULE IpcCallsProofs ---------------------------
(***************************************************************************)
(* Proofs about the panel's calls to the agent, for any number of callers, *)
(* any capacity of the outbound channel and any number of mishaps.         *)
(***************************************************************************)
EXTENDS IpcCalls, TLAPS

\* Every variable keeps its type; in particular a call makes two attempts at most.
\* For that a caller about to reconnect must be in its first attempt.
FirstTry == \A c \in Callers : pc[c] \in {"idle", "drop"} => try[c] = 1

\* send_and_wait makes one frame per attempt, which names its call and the attempt.
LEMMA FramesOfCallers ==
  ASSUME TypeOK, NEW c \in Callers
  PROVE  Frame(c) \in Frames /\ Frame(c)[1] = c /\ Frame(c)[2] = try[c]
BY DEF TypeOK, Frames, Frame

\* IpcClient and AgentLink keep their types, whatever dies, times out or is dropped,
\* and no call is attempted a third time.
THEOREM TypeCorrect == Spec => [](TypeOK /\ FirstTry)
<1>1. Init => TypeOK /\ FirstTry
  BY DEF Init, TypeOK, FirstTry, InCall, Over, Places
<1>2. TypeOK /\ FirstTry /\ [Next]_vars => (TypeOK /\ FirstTry)'
  <2> SUFFICES ASSUME TypeOK, FirstTry, [Next]_vars
               PROVE  (TypeOK /\ FirstTry)'
    OBVIOUS
  <2>1. ASSUME NEW c \in Callers, Invoke(c)
        PROVE  (TypeOK /\ FirstTry)'
    BY <2>1, FramesOfCallers DEF TypeOK, FirstTry, Invoke, Goto, InCall, Over, Places,
       agentVars, clientVars
  <2>2. ASSUME NEW c \in Callers, UseLink(c)
        PROVE  (TypeOK /\ FirstTry)'
    BY <2>2, FramesOfCallers DEF TypeOK, FirstTry, UseLink, Begin, Goto, LinkLives,
       InCall, Over, Places, agentVars, clientVars
  <2>3. ASSUME NEW c \in Callers, Connect(c)
        PROVE  (TypeOK /\ FirstTry)'
    BY <2>3, FramesOfCallers DEF TypeOK, FirstTry, Connect, Begin, Goto, InCall, Over,
       Places, agentVars, clientVars
  <2>4. ASSUME NEW c \in Callers, ConnectFails(c)
        PROVE  (TypeOK /\ FirstTry)'
    BY <2>4, FramesOfCallers DEF TypeOK, FirstTry, ConnectFails, Lost, Goto, InCall,
       Over, Places, agentVars, clientVars
  <2>5. ASSUME NEW c \in Callers, Check(c)
        PROVE  (TypeOK /\ FirstTry)'
    BY <2>5, FramesOfCallers DEF TypeOK, FirstTry, Check, Lost, Goto, InCall, Over,
       Places, agentVars, clientVars
  <2>6. ASSUME NEW c \in Callers, Insert(c)
        PROVE  (TypeOK /\ FirstTry)'
    BY <2>6, FramesOfCallers DEF TypeOK, FirstTry, Insert, Goto, InCall, Over, Places,
       agentVars, clientVars
  <2>7. ASSUME NEW c \in Callers, Send(c)
        PROVE  (TypeOK /\ FirstTry)'
    BY <2>7, FramesOfCallers DEF TypeOK, FirstTry, Send, Lost, Goto, InCall, Over,
       Places, agentVars, clientVars
  <2>8. ASSUME NEW c \in Callers, Answered(c)
        PROVE  (TypeOK /\ FirstTry)'
    BY <2>8, FramesOfCallers DEF TypeOK, FirstTry, Answered, Lost, Goto, InCall, Over,
       Places, agentVars, clientVars
  <2>9. ASSUME NEW c \in Callers, TimeOut(c)
        PROVE  (TypeOK /\ FirstTry)'
    BY <2>9, FramesOfCallers DEF TypeOK, FirstTry, TimeOut, Goto, InCall, Over, Places,
       agentVars, clientVars
  <2>10. ASSUME NEW c \in Callers, DropClient(c)
        PROVE  (TypeOK /\ FirstTry)'
    BY <2>10, FramesOfCallers DEF TypeOK, FirstTry, DropClient, Goto, InCall, Over,
       Places, agentVars, clientVars
  <2>11. ASSUME NEW c \in Callers, Abandon(c)
        PROVE  (TypeOK /\ FirstTry)'
    BY <2>11, FramesOfCallers DEF TypeOK, FirstTry, Abandon, Goto, InCall, Over, Places,
       agentVars, clientVars
  <2>12. ASSUME NEW k \in Conns, Write(k)
        PROVE  (TypeOK /\ FirstTry)'
    <3>1. where' \in [Frames -> Places]
      <4>1. CASE Wired(k)
        BY <2>12, <4>1 DEF Write, TypeOK, Places
      <4>2. CASE ~Wired(k)
        BY <2>12, <4>2 DEF Write, TypeOK, Places
      <4> QED
        BY <4>1, <4>2
    <3> QED
      BY <2>12, <3>1 DEF TypeOK, FirstTry, Write, agentVars, clientVars
  <2>13. ASSUME NEW k \in Conns, Forget(k)
        PROVE  (TypeOK /\ FirstTry)'
    BY <2>13 DEF TypeOK, FirstTry, Forget, InCall, Over, Places, agentVars, clientVars
  <2>14. ASSUME NEW k \in Conns, Read(k)
        PROVE  (TypeOK /\ FirstTry)'
    BY <2>14 DEF TypeOK, FirstTry, Read, Delivered, InCall, Over, Places, agentVars,
       clientVars
  <2>15. ASSUME NEW k \in Conns, ReadEof(k)
        PROVE  (TypeOK /\ FirstTry)'
    BY <2>15 DEF TypeOK, FirstTry, ReadEof, Wired, InCall, Over, Places, agentVars,
       clientVars
  <2>16. ASSUME NEW k \in Conns, ClearPending(k)
        PROVE  (TypeOK /\ FirstTry)'
    BY <2>16 DEF TypeOK, FirstTry, ClearPending, InCall, Over, Places, agentVars,
       clientVars
  <2>22. ASSUME NEW k \in Conns, ReadFails(k)
        PROVE  (TypeOK /\ FirstTry)'
    BY <2>22 DEF TypeOK, FirstTry, ReadFails, InCall, Over, Places, agentVars
  <2>23. ASSUME NEW k \in Conns, Stick(k)
        PROVE  (TypeOK /\ FirstTry)'
    BY <2>23 DEF TypeOK, FirstTry, Stick, clientVars
  <2>24. ASSUME NEW k \in Conns, ServeFails(k)
        PROVE  (TypeOK /\ FirstTry)'
    BY <2>24 DEF TypeOK, FirstTry, ServeFails, Places, clientVars
  <2>17. ASSUME NEW f \in Frames, Accept(f)
        PROVE  (TypeOK /\ FirstTry)'
    BY <2>17 DEF TypeOK, FirstTry, Accept, InCall, Over, Places, agentVars, clientVars
  <2>18. ASSUME NEW f \in Frames, Reply(f)
        PROVE  (TypeOK /\ FirstTry)'
    BY <2>18 DEF TypeOK, FirstTry, Reply, InCall, Over, Places, agentVars, clientVars
  <2>19. CASE Crash
    <3>1. where' \in [Frames -> Places]
      BY <2>19 DEF Crash, TypeOK, Places
    <3>2. up' = FALSE /\ life' = life + 1 /\ server' = [k \in Conns |-> "ended"]
      BY <2>19 DEF Crash
    <3>3. UNCHANGED <<accepted, link, born, closed, writer, reader, pending, broken, kind, pc, try, on, answer>>
      BY <2>19 DEF Crash, clientVars
    <3>4. up' \in BOOLEAN
      BY <3>2
    <3>5. life' \in Nat
      BY <3>2 DEF TypeOK
    <3>6. server' \in [Conns -> {"reading", "stuck", "ended"}]
      BY <3>2
    <3> QED
      BY <3>1, <3>3, <3>4, <3>5, <3>6 DEF TypeOK, FirstTry
  <2>20. CASE Restart
    BY <2>20 DEF TypeOK, FirstTry, Restart, InCall, Over, Places, agentVars, clientVars
  <2>21. CASE UNCHANGED vars
    BY <2>21 DEF TypeOK, FirstTry, vars, InCall, Over, Places, agentVars, clientVars
  <2> QED
    BY <2>1, <2>2, <2>3, <2>4, <2>5, <2>6, <2>7, <2>8, <2>9, <2>10, <2>11, <2>12, <2>13, <2>14, <2>15, <2>16, <2>17, <2>18, <2>19, <2>20, <2>21, <2>22, <2>23, <2>24
     DEF Next, CallerStep, Client, ClientStep, ReaderStep, ServeStep
<1> QED
  BY <1>1, <1>2, PTL DEF Spec

-----------------------------------------------------------------------------
(* The inductive invariant: what is known of an attempt and its frame.     *)

\* An attempt that has not sent its frame has left no trace of it.
Fresh ==
  \A c \in Callers :
    /\ pc[c] \in {"idle", "client", "check", "insert", "send"}
         => where[Frame(c)] = "none" /\ accepted[Frame(c)] = None
    /\ try[c] = 1 => where[<<c, 2>>] = "none" /\ accepted[<<c, 2>>] = None

\* ... and before it is in the map, no answer either.
Blank ==
  \A c \in Callers :
    /\ pc[c] \in {"idle", "client", "check", "insert"} => answer[Frame(c)] = "none"
    /\ try[c] = 1 => answer[<<c, 2>>] = "none"

\* The map holds frames of calls that wait for an answer.
Registered ==
  /\ \A f \in pending :
       /\ f = Frame(f[1]) /\ pc[f[1]] \in {"send", "wait", "gone"}
       /\ kind[f[1]] = "call" /\ answer[f] = "none"
  /\ \A c \in Callers : pc[c] \in {"check", "insert"} => kind[c] = "call"

\* A call that sends or waits without an answer is in it.
Known ==
  \A c \in Callers :
    pc[c] \in {"send", "wait"} /\ kind[c] = "call" /\ answer[Frame(c)] = "none"
      => Frame(c) \in pending

\* A caller that uses a client, and a frame that left, belong to a connection that was made.
Attached ==
  /\ \A c \in Callers : pc[c] \in {"check", "insert", "send", "wait"} => on[Frame(c)] # None
  /\ \A f \in Frames : where[f] # "none" \/ f \in pending \/ answer[f] = "dropped" => on[f] # None
  /\ \A f \in Frames : on[f] # None => born[on[f]] # None
  /\ link # None => born[link] # None

\* No connection is younger than the agent, and the agent serves those of its own life.
Ages ==
  \A k \in Conns :
    /\ born[k] # None => born[k] <= life
    /\ reader[k] # "ended" => born[k] # None
    /\ server[k] # "ended" => born[k] = life

\* The agent works on frames of its own connections, and accepts them in its own life.
Served ==
  \A f \in Frames :
    /\ where[f] \in {"agent", "running"} => born[on[f]] = life
    /\ where[f] = "agent" => server[on[f]] # "ended"
    /\ accepted[f] # None => where[f] # "none" /\ accepted[f] = born[on[f]]

\* A frame the agent has not read was not accepted; a call in the map whose frame is gone
\* was not either, or its agent is gone.
Unheard ==
  \A f \in Frames :
    /\ where[f] \in {"none", "outbox", "agent"} => accepted[f] = None
    /\ f \in pending /\ where[f] = "done" => accepted[f] = None \/ born[on[f]] < life

\* A reader that ended without an error has seen the last of an agent's end.
Closing ==
  \A k \in Conns : reader[k] = "closing" =>
    \/ born[k] < life \/ k \in broken
    \/ server[k] = "ended" /\ \A f \in Frames : on[f] = k => where[f] \notin {"running", "replied"}

\* An attempt that can be made again: its agent is gone, its reader gave up, or the
\* living agent never got it and never will.
Settled(f) ==
  \/ born[on[f]] < life \/ on[f] \in broken
  \/ server[on[f]] = "ended" /\ accepted[f] = None /\ where[f] \in {"none", "outbox", "done"}

\* A caller is woken without an answer only when its attempt is settled.
Dropped == \A f \in Frames : answer[f] = "dropped" => Settled(f)

\* A first attempt that is given up either sent nothing or is settled.
Superseded ==
  \A c \in Callers :
    (try[c] = 2 \/ pc[c] = "drop") /\ where[<<c, 1>>] # "none" => Settled(<<c, 1>>)

Safe ==
  /\ Fresh /\ Blank /\ Registered /\ Known /\ Attached
  /\ Ages /\ Served /\ Unheard /\ Closing /\ Dropped /\ Superseded

\* Every step of a caller, of a client's task or of the agent keeps the invariant.
THEOREM SafeInvariant == Spec => []Safe
<1>1. Init => Safe
  BY IpcAssumption DEF Init, Safe, Fresh, Blank, Registered, Known, Attached, Ages, Served, Unheard, Closing, Dropped, Settled, Superseded, Frames, Frame
<1>2. TypeOK /\ FirstTry /\ Safe /\ [Next]_vars => Safe'
  <2> SUFFICES ASSUME TypeOK, FirstTry, Fresh, Blank, Registered, Known, Attached, Ages, Served, Unheard, Closing,
                      Dropped, Superseded, [Next]_vars
               PROVE  Safe'
    BY DEF Safe
  <2>1. ASSUME NEW c \in Callers, Invoke(c)
        PROVE  Safe'
    <3>1. Ages' /\ Served' /\ Dropped'
      BY <2>1 DEF Ages, Served, Dropped, Settled, Invoke, agentVars, clientVars
    <3>2. Fresh'
      <4> SUFFICES ASSUME NEW b \in Callers PROVE Fresh!(b)'
        BY DEF Fresh
      <4>1. <<b, 1>> \in Frames /\ <<b, 2>> \in Frames
        BY DEF Frames
      <4> QED
        BY <2>1, <4>1, IpcAssumption DEF TypeOK, Fresh, FirstTry, Invoke, Goto, Frame,
           Conn, Frames, agentVars, clientVars
    <3>3. Blank'
      <4> SUFFICES ASSUME NEW b \in Callers PROVE Blank!(b)'
        BY DEF Blank
      <4>1. <<b, 1>> \in Frames /\ <<b, 2>> \in Frames
        BY DEF Frames
      <4> QED
        BY <2>1, <4>1, IpcAssumption DEF TypeOK, Blank, FirstTry, Invoke, Goto, Frame,
           Conn, Frames, agentVars, clientVars
    <3>4. Registered'
      BY <2>1, IpcAssumption DEF TypeOK, Registered, Blank, FirstTry, Invoke, Goto,
         Frame, Conn, Frames, agentVars, clientVars
    <3>5. Known'
      BY <2>1, IpcAssumption DEF TypeOK, Known, Registered, Blank, Invoke, Goto, Frame,
         Conn, Frames, agentVars, clientVars
    <3>6. Attached'
      BY <2>1, IpcAssumption DEF TypeOK, Attached, Fresh, Blank, Registered, Invoke,
         Goto, Frame, Conn, Frames, agentVars, clientVars
    <3>7. Superseded'
      BY <2>1, IpcAssumption DEF TypeOK, Superseded, Settled, Fresh, FirstTry, Dropped, Attached,
         Ages, Invoke, Goto, Frame, Conn, Frames, agentVars, clientVars
    <3>10. Unheard'
      BY <2>1, IpcAssumption DEF TypeOK, Unheard, Fresh, Registered, Attached, Ages, Served,
         Invoke, Goto, Frame, Conn, Frames, agentVars, clientVars
    <3>11. Closing'
      BY <2>1, IpcAssumption DEF TypeOK, Closing, Fresh, Attached, Ages,
         Invoke, Goto, Frame, Conn, Frames, agentVars, clientVars
    <3> QED
      BY <3>1, <3>2, <3>3, <3>4, <3>5, <3>6, <3>7, <3>10, <3>11 DEF Safe
  <2>2. ASSUME NEW c \in Callers, UseLink(c)
        PROVE  Safe'
    <3>1. Ages'
      BY <2>2 DEF Ages, UseLink, agentVars, clientVars
    <3>2. Fresh'
      <4> SUFFICES ASSUME NEW b \in Callers PROVE Fresh!(b)'
        BY DEF Fresh
      <4>1. <<b, 1>> \in Frames /\ <<b, 2>> \in Frames
        BY DEF Frames
      <4> QED
        BY <2>2, <4>1, IpcAssumption DEF TypeOK, Fresh, UseLink, Begin, Goto, LinkLives,
           Frame, Conn, Frames, agentVars, clientVars
    <3>3. Blank'
      <4> SUFFICES ASSUME NEW b \in Callers PROVE Blank!(b)'
        BY DEF Blank
      <4>1. <<b, 1>> \in Frames /\ <<b, 2>> \in Frames
        BY DEF Frames
      <4> QED
        BY <2>2, <4>1, IpcAssumption DEF TypeOK, Blank, UseLink, Begin, Goto, LinkLives,
           Frame, Conn, Frames, agentVars, clientVars
    <3>4. Registered'
      BY <2>2, IpcAssumption DEF TypeOK, Registered, Blank, FirstTry, UseLink, Begin,
         Goto, LinkLives, Frame, Conn, Frames, agentVars, clientVars
    <3>5. Known'
      BY <2>2, IpcAssumption DEF TypeOK, Known, Registered, Blank, UseLink, Begin, Goto,
         LinkLives, Frame, Conn, Frames, agentVars, clientVars
    <3>6. Attached'
      BY <2>2, IpcAssumption DEF TypeOK, Attached, Fresh, Blank, Registered, UseLink,
         Begin, Goto, LinkLives, Frame, Conn, Frames, agentVars, clientVars
    <3>7. Served'
      BY <2>2, IpcAssumption DEF TypeOK, Served, Fresh, Attached, Ages, UseLink, Begin,
         Goto, LinkLives, Frame, Conn, Frames, agentVars, clientVars
    <3>8. Dropped'
      BY <2>2, IpcAssumption DEF TypeOK, Dropped, Settled, Attached, Ages, Blank, UseLink, Begin,
         Goto, LinkLives, Frame, Conn, Frames, agentVars, clientVars
    <3>9. Superseded'
      BY <2>2, IpcAssumption DEF TypeOK, Superseded, Settled, Fresh, FirstTry, Dropped, Attached,
         Ages, UseLink, Begin, Goto, LinkLives, Frame, Conn, Frames, agentVars,
         clientVars
    <3>10. Unheard'
      BY <2>2, IpcAssumption DEF TypeOK, Unheard, Fresh, Registered, Attached, Ages, Served,
         UseLink, Begin, Goto, LinkLives, Frame, Conn, Frames, agentVars, clientVars
    <3>11. Closing'
      BY <2>2, IpcAssumption DEF TypeOK, Closing, Fresh, Attached, Ages,
         UseLink, Begin, Goto, LinkLives, Frame, Conn, Frames, agentVars, clientVars
    <3> QED
      BY <3>1, <3>2, <3>3, <3>4, <3>5, <3>6, <3>7, <3>8, <3>9, <3>10, <3>11 DEF Safe
  <2>3. ASSUME NEW c \in Callers, Connect(c)
        PROVE  Safe'
    <3>0. PICK k \in Conns :
            /\ born[k] = None
            /\ born' = [born EXCEPT ![k] = life]
            /\ reader' = [reader EXCEPT ![k] = "running"]
            /\ server' = [server EXCEPT ![k] = "reading"]
            /\ link' = k
            /\ on' = [on EXCEPT ![Frame(c)] = k]
      BY <2>3 DEF Connect
    <3>1. Fresh'
      <4> SUFFICES ASSUME NEW b \in Callers PROVE Fresh!(b)'
        BY DEF Fresh
      <4>1. <<b, 1>> \in Frames /\ <<b, 2>> \in Frames
        BY DEF Frames
      <4> QED
        BY <2>3, <4>1, IpcAssumption DEF TypeOK, Fresh, Connect, Begin, Goto, Frame,
           Conn, Frames, agentVars, clientVars
    <3>2. Blank'
      <4> SUFFICES ASSUME NEW b \in Callers PROVE Blank!(b)'
        BY DEF Blank
      <4>1. <<b, 1>> \in Frames /\ <<b, 2>> \in Frames
        BY DEF Frames
      <4> QED
        BY <2>3, <4>1, IpcAssumption DEF TypeOK, Blank, Connect, Begin, Goto, Frame,
           Conn, Frames, agentVars, clientVars
    <3>3. Registered'
      BY <2>3, IpcAssumption DEF TypeOK, Registered, Blank, FirstTry, Connect, Begin,
         Goto, Frame, Conn, Frames, agentVars, clientVars
    <3>4. Known'
      BY <2>3, IpcAssumption DEF TypeOK, Known, Registered, Blank, Connect, Begin, Goto,
         Frame, Conn, Frames, agentVars, clientVars
    <3>5. Attached'
      <4>1. born' \in [Conns -> Nat \cup {None}] /\ born'[k] # None
        BY <3>0, IpcAssumption DEF TypeOK
      <4>2. \A f \in Frames : on'[f] # None => born'[on'[f]] # None
        BY <3>0, <4>1, FramesOfCallers DEF TypeOK, Attached
      <4>3. \A b \in Callers :
              pc'[b] \in {"check", "insert", "send", "wait"} => on'[Frame(b)'] # None
        BY <2>3, <3>0, FramesOfCallers, IpcAssumption DEF TypeOK, Attached, Connect, Begin, Goto, Frame
      <4>4. \A f \in Frames :
              where'[f] # "none" \/ f \in pending' \/ answer'[f] = "dropped" => on'[f] # None
        BY <2>3, <3>0, FramesOfCallers, IpcAssumption DEF TypeOK, Attached, Connect
      <4> QED
        BY <3>0, <4>1, <4>2, <4>3, <4>4 DEF Attached
    <3>6. Ages'
      <4> SUFFICES ASSUME NEW j \in Conns PROVE Ages!(j)'
        BY DEF Ages
      <4>1. life' = life
        BY <2>3 DEF Connect, agentVars
      <4>2. CASE j = k
        BY <3>0, <4>1, <4>2, IpcAssumption DEF TypeOK
      <4>3. CASE j # k
        BY <3>0, <4>1, <4>3 DEF TypeOK, Ages
      <4> QED
        BY <4>2, <4>3
    <3>7. Served'
      <4> SUFFICES ASSUME NEW f \in Frames PROVE Served!(f)'
        BY DEF Served
      <4>1. life' = life /\ where' = where /\ accepted' = accepted
        BY <2>3 DEF Connect, agentVars
      <4>2. CASE f = Frame(c)
        BY <2>3, <4>1, <4>2 DEF Connect, Fresh
      <4>3. CASE f # Frame(c)
        BY <3>0, <4>1, <4>3 DEF TypeOK, Attached, Served
      <4> QED
        BY <4>2, <4>3
    <3>8. Dropped'
      <4> SUFFICES ASSUME NEW f \in Frames PROVE Dropped!(f)'
        BY DEF Dropped
      <4>1. life' = life /\ answer' = answer
        BY <2>3 DEF Connect, agentVars
      <4>2. CASE f = Frame(c)
        BY <2>3, <4>1, <4>2 DEF Connect, Blank
      <4>3. CASE f # Frame(c)
        <5>1. answer[f] = "dropped" => on'[f] = on[f] /\ on[f] \in Conns /\ on[f] # k
          BY <3>0, <4>3, IpcAssumption DEF TypeOK, Attached
        <5>2. UNCHANGED <<where, accepted, broken>>
          BY <2>3 DEF Connect
        <5> QED
          BY <3>0, <4>1, <5>1, <5>2 DEF TypeOK, Dropped, Settled
      <4> QED
        BY <4>2, <4>3
    <3>9. Superseded'
      <4> SUFFICES ASSUME NEW b \in Callers PROVE Superseded!(b)'
        BY DEF Superseded
      <4>1. life' = life /\ where' = where /\ try' = try
        BY <2>3 DEF Connect, agentVars
      <4>2. <<b, 1>> \in Frames
        BY DEF Frames
      <4>3. CASE b = c
        BY <2>3, <3>0, <4>1, <4>2, <4>3 DEF TypeOK, Attached, Superseded, Settled, Fresh, Frame, Connect, Begin,
           Goto
      <4>4. CASE b # c
        BY <2>3, <3>0, <4>1, <4>2, <4>4 DEF TypeOK, Attached, Superseded, Settled, Frame, Connect, Begin, Goto
      <4> QED
        BY <4>3, <4>4
    <3>10. Unheard'
      BY <2>3, IpcAssumption DEF TypeOK, Unheard, Fresh, Registered, Attached, Ages, Served,
         Connect, Begin, Goto, Frame, Conn, Frames, agentVars, clientVars
    <3>11. Closing'
      BY <2>3, IpcAssumption DEF TypeOK, Closing, Fresh, Attached, Ages,
         Connect, Begin, Goto, Frame, Conn, Frames, agentVars, clientVars
    <3> QED
      BY <3>1, <3>2, <3>3, <3>4, <3>5, <3>6, <3>7, <3>8, <3>9, <3>10, <3>11 DEF Safe
  <2>4. ASSUME NEW c \in Callers, ConnectFails(c)
        PROVE  Safe'
    <3>1. Ages' /\ Served' /\ Dropped'
      BY <2>4 DEF Ages, Served, Dropped, Settled, ConnectFails, agentVars, clientVars
    <3>2. Fresh'
      <4> SUFFICES ASSUME NEW b \in Callers PROVE Fresh!(b)'
        BY DEF Fresh
      <4>1. <<b, 1>> \in Frames /\ <<b, 2>> \in Frames
        BY DEF Frames
      <4> QED
        BY <2>4, <4>1, IpcAssumption DEF TypeOK, Fresh, FirstTry, ConnectFails, Lost,
           Goto, Frame, Conn, Frames, agentVars, clientVars
    <3>3. Blank'
      <4> SUFFICES ASSUME NEW b \in Callers PROVE Blank!(b)'
        BY DEF Blank
      <4>1. <<b, 1>> \in Frames /\ <<b, 2>> \in Frames
        BY DEF Frames
      <4> QED
        BY <2>4, <4>1, IpcAssumption DEF TypeOK, Blank, FirstTry, ConnectFails, Lost,
           Goto, Frame, Conn, Frames, agentVars, clientVars
    <3>4. Registered'
      BY <2>4, IpcAssumption DEF TypeOK, Registered, Blank, FirstTry, ConnectFails,
         Lost, Goto, Frame, Conn, Frames, agentVars, clientVars
    <3>5. Known'
      BY <2>4, IpcAssumption DEF TypeOK, Known, Registered, Blank, ConnectFails, Lost,
         Goto, Frame, Conn, Frames, agentVars, clientVars
    <3>6. Attached'
      BY <2>4, IpcAssumption DEF TypeOK, Attached, Fresh, Blank, Registered,
         ConnectFails, Lost, Goto, Frame, Conn, Frames, agentVars, clientVars
    <3>7. Superseded'
      <4> SUFFICES ASSUME NEW b \in Callers PROVE Superseded!(b)'
        BY DEF Superseded
      <4>1. <<b, 1>> \in Frames /\ <<b, 2>> \in Frames
        BY DEF Frames
      <4> QED
        BY <2>4, <4>1 DEF TypeOK, Superseded, Settled, Fresh, ConnectFails, Lost, Goto, Frame,
           agentVars, clientVars
    <3>10. Unheard'
      BY <2>4, IpcAssumption DEF TypeOK, Unheard, Fresh, Registered, Attached, Ages, Served,
         ConnectFails, Lost, Goto, Frame, Conn, Frames, agentVars, clientVars
    <3>11. Closing'
      BY <2>4, IpcAssumption DEF TypeOK, Closing, Fresh, Attached, Ages,
         ConnectFails, Lost, Goto, Frame, Conn, Frames, agentVars, clientVars
    <3> QED
      BY <3>1, <3>2, <3>3, <3>4, <3>5, <3>6, <3>7, <3>10, <3>11 DEF Safe
  <2>5. ASSUME NEW c \in Callers, Check(c)
        PROVE  Safe'
    <3>1. Ages' /\ Served' /\ Dropped'
      BY <2>5 DEF Ages, Served, Dropped, Settled, Check, agentVars, clientVars
    <3>2. Fresh'
      <4> SUFFICES ASSUME NEW b \in Callers PROVE Fresh!(b)'
        BY DEF Fresh
      <4>1. <<b, 1>> \in Frames /\ <<b, 2>> \in Frames
        BY DEF Frames
      <4> QED
        BY <2>5, <4>1, IpcAssumption DEF TypeOK, Fresh, Check, Lost, Goto, Frame, Conn,
           Frames, agentVars, clientVars
    <3>3. Blank'
      <4> SUFFICES ASSUME NEW b \in Callers PROVE Blank!(b)'
        BY DEF Blank
      <4>1. <<b, 1>> \in Frames /\ <<b, 2>> \in Frames
        BY DEF Frames
      <4> QED
        BY <2>5, <4>1, IpcAssumption DEF TypeOK, Blank, Check, Lost, Goto, Frame, Conn,
           Frames, agentVars, clientVars
    <3>4. Registered'
      BY <2>5, IpcAssumption DEF TypeOK, Registered, Blank, FirstTry, Check, Lost, Goto,
         Frame, Conn, Frames, agentVars, clientVars
    <3>5. Known'
      BY <2>5, IpcAssumption DEF TypeOK, Known, Registered, Blank, Check, Lost, Goto,
         Frame, Conn, Frames, agentVars, clientVars
    <3>6. Attached'
      BY <2>5, IpcAssumption DEF TypeOK, Attached, Fresh, Blank, Registered, Check,
         Lost, Goto, Frame, Conn, Frames, agentVars, clientVars
    <3>7. Superseded'
      <4> SUFFICES ASSUME NEW b \in Callers PROVE Superseded!(b)'
        BY DEF Superseded
      <4>1. <<b, 1>> \in Frames /\ <<b, 2>> \in Frames
        BY DEF Frames
      <4> QED
        BY <2>5, <4>1 DEF TypeOK, Superseded, Settled, Check, Lost, Goto, Fresh, Frame, Conn, agentVars, clientVars
    <3>10. Unheard'
      BY <2>5, IpcAssumption DEF TypeOK, Unheard, Fresh, Registered, Attached, Ages, Served,
         Check, Lost, Goto, Frame, Conn, Frames, agentVars, clientVars
    <3>11. Closing'
      BY <2>5, IpcAssumption DEF TypeOK, Closing, Fresh, Attached, Ages,
         Check, Lost, Goto, Frame, Conn, Frames, agentVars, clientVars
    <3> QED
      BY <3>1, <3>2, <3>3, <3>4, <3>5, <3>6, <3>7, <3>10, <3>11 DEF Safe
  <2>6. ASSUME NEW c \in Callers, Insert(c)
        PROVE  Safe'
    <3>1. Ages' /\ Served' /\ Dropped'
      BY <2>6 DEF Ages, Served, Dropped, Settled, Insert, agentVars, clientVars
    <3>2. Fresh'
      <4> SUFFICES ASSUME NEW b \in Callers PROVE Fresh!(b)'
        BY DEF Fresh
      <4>1. <<b, 1>> \in Frames /\ <<b, 2>> \in Frames
        BY DEF Frames
      <4> QED
        BY <2>6, <4>1, IpcAssumption DEF TypeOK, Fresh, Insert, Goto, Frame, Conn,
           Frames, agentVars, clientVars
    <3>3. Blank'
      <4> SUFFICES ASSUME NEW b \in Callers PROVE Blank!(b)'
        BY DEF Blank
      <4>1. <<b, 1>> \in Frames /\ <<b, 2>> \in Frames
        BY DEF Frames
      <4> QED
        BY <2>6, <4>1, IpcAssumption DEF TypeOK, Blank, Insert, Goto, Frame, Conn,
           Frames, agentVars, clientVars
    <3>4. Registered'
      <4>1. pending' = pending \cup {Frame(c)} /\ pc' = [pc EXCEPT ![c] = "send"]
        BY <2>6 DEF Insert, Goto
      <4>2. kind[c] = "call" /\ answer[Frame(c)] = "none"
        BY <2>6 DEF Insert, Registered, Blank
      <4>3. UNCHANGED <<kind, answer, try>>
        BY <2>6 DEF Insert
      <4>4. \A f \in pending' : f \in Frames /\ f[1] \in Callers
        BY <4>1, FramesOfCallers DEF TypeOK, Frames
      <4> QED
        BY <4>1, <4>2, <4>3, <4>4, FramesOfCallers DEF TypeOK, Registered, Frame
    <3>5. Known'
      BY <2>6, IpcAssumption DEF TypeOK, Known, Registered, Blank, Insert, Goto, Frame,
         Conn, Frames, agentVars, clientVars
    <3>6. Attached'
      BY <2>6, IpcAssumption DEF TypeOK, Attached, Fresh, Blank, Registered, Insert,
         Goto, Frame, Conn, Frames, agentVars, clientVars
    <3>7. Superseded'
      BY <2>6, IpcAssumption DEF TypeOK, Superseded, Settled, Fresh, FirstTry, Dropped, Attached,
         Ages, Insert, Goto, Frame, Conn, Frames, agentVars, clientVars
    <3>10. Unheard'
      BY <2>6, IpcAssumption DEF TypeOK, Unheard, Fresh, Registered, Attached, Ages, Served,
         Insert, Goto, Frame, Conn, Frames, agentVars, clientVars
    <3>11. Closing'
      BY <2>6, IpcAssumption DEF TypeOK, Closing, Fresh, Attached, Ages,
         Insert, Goto, Frame, Conn, Frames, agentVars, clientVars
    <3> QED
      BY <3>1, <3>2, <3>3, <3>4, <3>5, <3>6, <3>7, <3>10, <3>11 DEF Safe
  <2>7. ASSUME NEW c \in Callers, Send(c)
        PROVE  Safe'
    <3>0. /\ UNCHANGED <<born, life, broken, server, accepted, on, answer, reader>>
          /\ \A f \in Frames : where'[f] = where[f] \/ (f = Frame(c) /\ where'[f] = "outbox")
      BY <2>7 DEF Send, TypeOK, agentVars
    <3>1. Ages' /\ Dropped'
      BY <3>0 DEF Ages, Dropped, Settled
    <3>2. Fresh'
      <4> SUFFICES ASSUME NEW b \in Callers PROVE Fresh!(b)'
        BY DEF Fresh
      <4>1. <<b, 1>> \in Frames /\ <<b, 2>> \in Frames
        BY DEF Frames
      <4> QED
        BY <2>7, <4>1, IpcAssumption DEF TypeOK, Fresh, Send, Lost, Goto, Frame, Conn,
           Frames, agentVars, clientVars
    <3>3. Blank'
      <4> SUFFICES ASSUME NEW b \in Callers PROVE Blank!(b)'
        BY DEF Blank
      <4>1. <<b, 1>> \in Frames /\ <<b, 2>> \in Frames
        BY DEF Frames
      <4> QED
        BY <2>7, <4>1, IpcAssumption DEF TypeOK, Blank, Send, Lost, Goto, Frame, Conn,
           Frames, agentVars, clientVars
    <3>4. Registered'
      BY <2>7, IpcAssumption DEF TypeOK, Registered, Blank, FirstTry, Send, Lost, Goto,
         Frame, Conn, Frames, agentVars, clientVars
    <3>5. Known'
      BY <2>7, IpcAssumption DEF TypeOK, Known, Registered, Blank, Send, Lost, Goto,
         Frame, Conn, Frames, agentVars, clientVars
    <3>6. Attached'
      BY <2>7, IpcAssumption DEF TypeOK, Attached, Fresh, Blank, Registered, Send, Lost,
         Goto, Frame, Conn, Frames, agentVars, clientVars
    <3>7. Served'
      <4> SUFFICES ASSUME NEW f \in Frames PROVE Served!(f)'
        BY DEF Served
      <4>1. where'[f] = where[f] \/ f = Frame(c)
        BY <2>7 DEF Send, TypeOK
      <4>2. CASE f = Frame(c)
        BY <2>7, <4>2 DEF TypeOK, Fresh, Send, agentVars
      <4>3. CASE where'[f] = where[f]
        BY <2>7, <4>3 DEF Served, Send, agentVars
      <4> QED
        BY <4>1, <4>2, <4>3
    <3>8. Superseded'
      <4> SUFFICES ASSUME NEW b \in Callers PROVE Superseded!(b)'
        BY DEF Superseded
      <4>1. <<b, 1>> \in Frames /\ <<b, 2>> \in Frames
        BY DEF Frames
      <4> QED
        BY <2>7, <4>1 DEF TypeOK, Superseded, Settled, Send, Lost, Goto, Fresh, FirstTry, Frame, Conn, agentVars, clientVars
    <3>10. Unheard'
      <4> SUFFICES ASSUME NEW f \in Frames PROVE Unheard!(f)'
        BY DEF Unheard
      <4>1. pending' \subseteq pending
        BY <2>7 DEF Send
      <4>2. accepted[Frame(c)] = None
        BY <2>7 DEF Send, Fresh
      <4> QED
        BY <3>0, <4>1, <4>2 DEF Unheard
    <3>11. Closing'
      BY <3>0 DEF Closing
    <3> QED
      BY <3>1, <3>2, <3>3, <3>4, <3>5, <3>6, <3>7, <3>8, <3>10, <3>11 DEF Safe
  <2>8. ASSUME NEW c \in Callers, Answered(c)
        PROVE  Safe'
    <3>1. Ages' /\ Served' /\ Dropped'
      BY <2>8 DEF Ages, Served, Dropped, Settled, Answered, agentVars, clientVars
    <3>2. Fresh'
      <4> SUFFICES ASSUME NEW b \in Callers PROVE Fresh!(b)'
        BY DEF Fresh
      <4>1. <<b, 1>> \in Frames /\ <<b, 2>> \in Frames
        BY DEF Frames
      <4> QED
        BY <2>8, <4>1, IpcAssumption DEF TypeOK, Fresh, Answered, Lost, Goto, Frame,
           Conn, Frames, agentVars, clientVars
    <3>3. Blank'
      <4> SUFFICES ASSUME NEW b \in Callers PROVE Blank!(b)'
        BY DEF Blank
      <4>1. <<b, 1>> \in Frames /\ <<b, 2>> \in Frames
        BY DEF Frames
      <4> QED
        BY <2>8, <4>1, IpcAssumption DEF TypeOK, Blank, Answered, Lost, Goto, Frame,
           Conn, Frames, agentVars, clientVars
    <3>4. Registered'
      <4>1. UNCHANGED <<pending, kind, answer, try>>
        BY <2>8 DEF Answered, clientVars
      <4>2. Frame(c) \notin pending
        BY <2>8, FramesOfCallers DEF Answered, Registered
      <4>3. \A f \in pending : f \in Frames /\ f[1] \in Callers /\ f[1] # c
        BY <4>2 DEF TypeOK, Frames, Registered
      <4>4. \A b \in Callers : b # c => pc'[b] = pc[b]
        BY <2>8 DEF Answered, Lost, Goto, TypeOK
      <4>5. pc'[c] \notin {"check", "insert"}
        BY <2>8 DEF Answered, Lost, Goto, TypeOK
      <4> QED
        BY <4>1, <4>3, <4>4, <4>5 DEF Registered, Frame
    <3>5. Known'
      BY <2>8, IpcAssumption DEF TypeOK, Known, Registered, Blank, Answered, Lost, Goto,
         Frame, Conn, Frames, agentVars, clientVars
    <3>6. Attached'
      BY <2>8, IpcAssumption DEF TypeOK, Attached, Fresh, Blank, Registered, Answered,
         Lost, Goto, Frame, Conn, Frames, agentVars, clientVars
    <3>7. Superseded'
      <4> SUFFICES ASSUME NEW b \in Callers PROVE Superseded!(b)'
        BY DEF Superseded
      <4>1. <<b, 1>> \in Frames /\ <<b, 2>> \in Frames
        BY DEF Frames
      <4> QED
        BY <2>8, <4>1 DEF TypeOK, Superseded, Settled, Answered, Lost, Goto, Dropped, Frame, Conn, agentVars, clientVars
    <3>10. Unheard'
      BY <2>8, IpcAssumption DEF TypeOK, Unheard, Fresh, Registered, Attached, Ages, Served,
         Answered, Lost, Goto, Frame, Conn, Frames, agentVars, clientVars
    <3>11. Closing'
      BY <2>8, IpcAssumption DEF TypeOK, Closing, Fresh, Attached, Ages,
         Answered, Lost, Goto, Frame, Conn, Frames, agentVars, clientVars
    <3> QED
      BY <3>1, <3>2, <3>3, <3>4, <3>5, <3>6, <3>7, <3>10, <3>11 DEF Safe
  <2>9. ASSUME NEW c \in Callers, TimeOut(c)
        PROVE  Safe'
    <3>1. Ages' /\ Served' /\ Dropped'
      BY <2>9 DEF Ages, Served, Dropped, Settled, TimeOut, agentVars, clientVars
    <3>2. Fresh'
      <4> SUFFICES ASSUME NEW b \in Callers PROVE Fresh!(b)'
        BY DEF Fresh
      <4>1. <<b, 1>> \in Frames /\ <<b, 2>> \in Frames
        BY DEF Frames
      <4> QED
        BY <2>9, <4>1, IpcAssumption DEF TypeOK, Fresh, TimeOut, Goto, Frame, Conn,
           Frames, agentVars, clientVars
    <3>3. Blank'
      <4> SUFFICES ASSUME NEW b \in Callers PROVE Blank!(b)'
        BY DEF Blank
      <4>1. <<b, 1>> \in Frames /\ <<b, 2>> \in Frames
        BY DEF Frames
      <4> QED
        BY <2>9, <4>1, IpcAssumption DEF TypeOK, Blank, TimeOut, Goto, Frame, Conn,
           Frames, agentVars, clientVars
    <3>4. Registered'
      BY <2>9, IpcAssumption DEF TypeOK, Registered, Blank, FirstTry, TimeOut, Goto,
         Frame, Conn, Frames, agentVars, clientVars
    <3>5. Known'
      BY <2>9, IpcAssumption DEF TypeOK, Known, Registered, Blank, TimeOut, Goto, Frame,
         Conn, Frames, agentVars, clientVars
    <3>6. Attached'
      BY <2>9, IpcAssumption DEF TypeOK, Attached, Fresh, Blank, Registered, TimeOut,
         Goto, Frame, Conn, Frames, agentVars, clientVars
    <3>7. Superseded'
      BY <2>9, IpcAssumption DEF TypeOK, Superseded, Settled, Fresh, FirstTry, Dropped, Attached,
         Ages, TimeOut, Goto, Frame, Conn, Frames, agentVars, clientVars
    <3>10. Unheard'
      BY <2>9, IpcAssumption DEF TypeOK, Unheard, Fresh, Registered, Attached, Ages, Served,
         TimeOut, Goto, Frame, Conn, Frames, agentVars, clientVars
    <3>11. Closing'
      BY <2>9, IpcAssumption DEF TypeOK, Closing, Fresh, Attached, Ages,
         TimeOut, Goto, Frame, Conn, Frames, agentVars, clientVars
    <3> QED
      BY <3>1, <3>2, <3>3, <3>4, <3>5, <3>6, <3>7, <3>10, <3>11 DEF Safe
  <2>10. ASSUME NEW c \in Callers, DropClient(c)
        PROVE  Safe'
    <3>1. Ages' /\ Served' /\ Dropped'
      BY <2>10 DEF Ages, Served, Dropped, Settled, DropClient, agentVars, clientVars
    <3>2. Fresh'
      <4> SUFFICES ASSUME NEW b \in Callers PROVE Fresh!(b)'
        BY DEF Fresh
      <4>1. <<b, 1>> \in Frames /\ <<b, 2>> \in Frames
        BY DEF Frames
      <4> QED
        BY <2>10, <4>1, IpcAssumption DEF TypeOK, Fresh, FirstTry, DropClient, Goto,
           Frame, Conn, Frames, agentVars, clientVars
    <3>3. Blank'
      <4> SUFFICES ASSUME NEW b \in Callers PROVE Blank!(b)'
        BY DEF Blank
      <4>1. <<b, 1>> \in Frames /\ <<b, 2>> \in Frames
        BY DEF Frames
      <4> QED
        BY <2>10, <4>1, IpcAssumption DEF TypeOK, Blank, FirstTry, DropClient, Goto,
           Frame, Conn, Frames, agentVars, clientVars
    <3>4. Registered'
      BY <2>10, IpcAssumption DEF TypeOK, Registered, Blank, FirstTry, DropClient, Goto,
         Frame, Conn, Frames, agentVars, clientVars
    <3>5. Known'
      BY <2>10, IpcAssumption DEF TypeOK, Known, Registered, Blank, DropClient, Goto,
         Frame, Conn, Frames, agentVars, clientVars
    <3>6. Attached'
      BY <2>10, IpcAssumption DEF TypeOK, Attached, Fresh, Blank, Registered,
         DropClient, Goto, Frame, Conn, Frames, agentVars, clientVars
    <3>7. Superseded'
      BY <2>10, IpcAssumption DEF TypeOK, Superseded, Settled, Fresh, FirstTry, Dropped,
         Attached, Ages, DropClient, Goto, Frame, Conn, Frames, agentVars, clientVars
    <3>10. Unheard'
      BY <2>10, IpcAssumption DEF TypeOK, Unheard, Fresh, Registered, Attached, Ages, Served,
         DropClient, Goto, Frame, Conn, Frames, agentVars, clientVars
    <3>11. Closing'
      BY <2>10, IpcAssumption DEF TypeOK, Closing, Fresh, Attached, Ages,
         DropClient, Goto, Frame, Conn, Frames, agentVars, clientVars
    <3> QED
      BY <3>1, <3>2, <3>3, <3>4, <3>5, <3>6, <3>7, <3>10, <3>11 DEF Safe
  <2>11. ASSUME NEW c \in Callers, Abandon(c)
        PROVE  Safe'
    <3>1. Ages' /\ Served' /\ Dropped'
      BY <2>11 DEF Ages, Served, Dropped, Settled, Abandon, agentVars, clientVars
    <3>2. Fresh'
      <4> SUFFICES ASSUME NEW b \in Callers PROVE Fresh!(b)'
        BY DEF Fresh
      <4>1. <<b, 1>> \in Frames /\ <<b, 2>> \in Frames
        BY DEF Frames
      <4> QED
        BY <2>11, <4>1, IpcAssumption DEF TypeOK, Fresh, Abandon, Goto, Frame, Conn,
           Frames, agentVars, clientVars
    <3>3. Blank'
      <4> SUFFICES ASSUME NEW b \in Callers PROVE Blank!(b)'
        BY DEF Blank
      <4>1. <<b, 1>> \in Frames /\ <<b, 2>> \in Frames
        BY DEF Frames
      <4> QED
        BY <2>11, <4>1, IpcAssumption DEF TypeOK, Blank, Abandon, Goto, Frame, Conn,
           Frames, agentVars, clientVars
    <3>4. Registered'
      BY <2>11, IpcAssumption DEF TypeOK, Registered, Blank, FirstTry, Abandon, Goto,
         Frame, Conn, Frames, agentVars, clientVars
    <3>5. Known'
      BY <2>11, IpcAssumption DEF TypeOK, Known, Registered, Blank, Abandon, Goto,
         Frame, Conn, Frames, agentVars, clientVars
    <3>6. Attached'
      BY <2>11, IpcAssumption DEF TypeOK, Attached, Fresh, Blank, Registered, Abandon,
         Goto, Frame, Conn, Frames, agentVars, clientVars
    <3>7. Superseded'
      BY <2>11, IpcAssumption DEF TypeOK, Superseded, Settled, Fresh, FirstTry, Dropped,
         Attached, Ages, Abandon, Goto, Frame, Conn, Frames, agentVars, clientVars
    <3>10. Unheard'
      BY <2>11, IpcAssumption DEF TypeOK, Unheard, Fresh, Registered, Attached, Ages, Served,
         Abandon, Goto, Frame, Conn, Frames, agentVars, clientVars
    <3>11. Closing'
      BY <2>11, IpcAssumption DEF TypeOK, Closing, Fresh, Attached, Ages,
         Abandon, Goto, Frame, Conn, Frames, agentVars, clientVars
    <3> QED
      BY <3>1, <3>2, <3>3, <3>4, <3>5, <3>6, <3>7, <3>10, <3>11 DEF Safe
  <2>12. ASSUME NEW k \in Conns, Write(k)
        PROVE  Safe'
    <3>1. Blank' /\ Registered' /\ Known' /\ Ages'
      BY <2>12 DEF Blank, Registered, Known, Ages, Write, Frame, agentVars, clientVars
    <3>0. /\ UNCHANGED <<born, life, broken, server, accepted, on, answer, reader, pc, try>>
          /\ \A f \in Frames : \/ where'[f] = where[f]
                               \/ where[f] = "outbox" /\ where'[f] = "done"
                               \/ /\ where[f] = "outbox" /\ where'[f] = "agent"
                                  /\ server[on[f]] # "ended"
      BY <2>12 DEF Write, Outbox, TypeOK, agentVars
    <3>6. Dropped'
      BY <3>0 DEF Dropped, Settled
    <3>2. Fresh'
      <4> SUFFICES ASSUME NEW b \in Callers PROVE Fresh!(b)'
        BY DEF Fresh
      <4>1. <<b, 1>> \in Frames /\ <<b, 2>> \in Frames
        BY DEF Frames
      <4> QED
        BY <2>12, <4>1, IpcAssumption DEF TypeOK, Fresh, Write, Outbox, Wired, Frame,
           Conn, Frames, agentVars, clientVars
    <3>3. Attached'
      BY <2>12, IpcAssumption DEF TypeOK, Attached, Fresh, Blank, Registered, Write,
         Outbox, Wired, Frame, Conn, Frames, agentVars, clientVars
    <3>4. Served'
      BY <2>12, IpcAssumption DEF TypeOK, Served, Fresh, Attached, Ages, Write, Outbox,
         Wired, Frame, Conn, Frames, agentVars, clientVars
    <3>5. Superseded'
      <4> SUFFICES ASSUME NEW b \in Callers PROVE Superseded!(b)'
        BY DEF Superseded
      <4>1. <<b, 1>> \in Frames
        BY DEF Frames
      <4> QED
        BY <3>0, <4>1 DEF Superseded, Settled
    <3>10. Unheard'
      BY <2>12, IpcAssumption DEF TypeOK, Unheard, Fresh, Registered, Attached, Ages, Served,
         Write, Outbox, Wired, Frame, Conn, Frames, agentVars, clientVars
    <3>11. Closing'
      BY <2>12, IpcAssumption DEF TypeOK, Closing, Fresh, Attached, Ages,
         Write, Outbox, Wired, Frame, Conn, Frames, agentVars, clientVars
    <3> QED
      BY <3>1, <3>2, <3>3, <3>4, <3>5, <3>6, <3>10, <3>11 DEF Safe
  <2>13. ASSUME NEW k \in Conns, Forget(k)
        PROVE  Safe'
    <3>1. Fresh' /\ Blank' /\ Registered' /\ Known' /\ Attached' /\ Ages' /\ Served' /\ Dropped' /\ Superseded'
      BY <2>13 DEF Fresh, Blank, Registered, Known, Attached, Ages, Served, Dropped, Settled,
         Superseded, Forget, Frame, agentVars, clientVars
    <3>10. Unheard'
      BY <2>13, IpcAssumption DEF TypeOK, Unheard, Fresh, Registered, Attached, Ages, Served,
         Forget, Frame, Conn, Frames, agentVars, clientVars
    <3>11. Closing'
      BY <2>13, IpcAssumption DEF TypeOK, Closing, Fresh, Attached, Ages,
         Forget, Frame, Conn, Frames, agentVars, clientVars
    <3> QED
      BY <3>1, <3>10, <3>11 DEF Safe
  <2>14. ASSUME NEW k \in Conns, Read(k)
        PROVE  Safe'
    <3>1. Ages'
      BY <2>14 DEF Ages, Read, agentVars, clientVars
    <3>2. Fresh'
      <4> SUFFICES ASSUME NEW b \in Callers PROVE Fresh!(b)'
        BY DEF Fresh
      <4>1. <<b, 1>> \in Frames /\ <<b, 2>> \in Frames
        BY DEF Frames
      <4> QED
        BY <2>14, <4>1, IpcAssumption DEF TypeOK, Fresh, Read, Delivered, Frame, Conn,
           Frames, agentVars, clientVars
    <3>3. Blank'
      <4>1. UNCHANGED <<pc, kind, try>>
        BY <2>14 DEF Read
      <4>2. PICK f \in Frames :
              answer' = [g \in Frames |-> IF g \in Delivered(f) THEN "reply" ELSE answer[g]]
        BY <2>14 DEF Read
      <4>3. \A g \in Delivered(f) :
              \E b \in Callers : g = Frame(b) /\ pc[b] \in {"send", "wait", "gone"}
        <5>1. \A g \in pending :
                \E b \in Callers : g = Frame(b) /\ pc[b] \in {"send", "wait", "gone"}
          BY DEF Registered, TypeOK, Frames
        <5> QED
          BY <5>1 DEF Delivered, Frame
      <4> SUFFICES ASSUME NEW b \in Callers PROVE Blank!(b)'
        BY DEF Blank
      <4>4. <<b, 1>> \in Frames /\ <<b, 2>> \in Frames
        BY DEF Frames
      <4> QED
        BY <4>1, <4>2, <4>3, <4>4 DEF TypeOK, Blank, Frame
    <3>4. Registered'
      <4>1. UNCHANGED <<pc, kind, try>>
        BY <2>14 DEF Read
      <4>2. PICK f \in Frames :
              /\ answer' = [g \in Frames |-> IF g \in Delivered(f) THEN "reply" ELSE answer[g]]
              /\ pending' = pending \ {f}
        BY <2>14 DEF Read
      <4>3. \A g \in pending : kind[g[1]] = "call" /\ g \in Frames
        BY DEF Registered, TypeOK
      <4>4. \A g \in pending' : g \notin Delivered(f)
        BY <4>2, <4>3 DEF Delivered
      <4> QED
        BY <4>1, <4>2, <4>3, <4>4 DEF Registered, Frame
    <3>5. Known'
      BY <2>14, IpcAssumption DEF TypeOK, Known, Registered, Blank, Read, Delivered,
         Frame, Conn, Frames, agentVars, clientVars
    <3>6. Attached'
      BY <2>14, IpcAssumption DEF TypeOK, Attached, Fresh, Blank, Registered, Read,
         Delivered, Frame, Conn, Frames, agentVars, clientVars
    <3>7. Served'
      BY <2>14, IpcAssumption DEF TypeOK, Served, Fresh, Attached, Ages, Read,
         Delivered, Frame, Conn, Frames, agentVars, clientVars
    <3>8. Dropped'
      BY <2>14, IpcAssumption DEF TypeOK, Dropped, Settled, Attached, Ages, Blank, Read,
         Delivered, Frame, Conn, Frames, agentVars, clientVars
    <3>9. Superseded'
      <4> SUFFICES ASSUME NEW b \in Callers PROVE Superseded!(b)'
        BY DEF Superseded
      <4>1. <<b, 1>> \in Frames /\ <<b, 2>> \in Frames
        BY DEF Frames
      <4> QED
        BY <2>14, <4>1 DEF TypeOK, Superseded, Settled, Read, agentVars
    <3>10. Unheard'
      BY <2>14, IpcAssumption DEF TypeOK, Unheard, Fresh, Registered, Attached, Ages, Served,
         Read, Delivered, Frame, Conn, Frames, agentVars, clientVars
    <3>11. Closing'
      BY <2>14, IpcAssumption DEF TypeOK, Closing, Fresh, Attached, Ages,
         Read, Delivered, Frame, Conn, Frames, agentVars, clientVars
    <3> QED
      BY <3>1, <3>2, <3>3, <3>4, <3>5, <3>6, <3>7, <3>8, <3>9, <3>10, <3>11 DEF Safe
  <2>15. ASSUME NEW k \in Conns, ReadEof(k)
        PROVE  Safe'
    <3>1. Fresh' /\ Blank' /\ Registered' /\ Known' /\ Attached' /\ Served' /\ Dropped' /\ Superseded'
      BY <2>15 DEF Fresh, Blank, Registered, Known, Attached, Served, Dropped, Settled,
         Superseded, ReadEof, Frame, agentVars, clientVars
    <3>2. Ages'
      BY <2>15 DEF TypeOK, Ages, ReadEof, agentVars
    <3>10. Unheard'
      BY <2>15, IpcAssumption DEF TypeOK, Unheard, Fresh, Registered, Attached, Ages, Served,
         ReadEof, Wired, Frame, Conn, Frames, agentVars, clientVars
    <3>11. Closing'
      BY <2>15, IpcAssumption DEF TypeOK, Closing, Fresh, Attached, Ages,
         ReadEof, Wired, Frame, Conn, Frames, agentVars, clientVars
    <3> QED
      BY <3>1, <3>2, <3>10, <3>11 DEF Safe
  <2>16. ASSUME NEW k \in Conns, ClearPending(k)
        PROVE  Safe'
    <3>1. Fresh' /\ Served' /\ Superseded'
      BY <2>16 DEF Fresh, Served, Superseded, Settled, ClearPending, Frame, agentVars, clientVars
    <3>2. Blank'
      <4> SUFFICES ASSUME NEW b \in Callers PROVE Blank!(b)'
        BY DEF Blank
      <4>1. <<b, 1>> \in Frames /\ <<b, 2>> \in Frames
        BY DEF Frames
      <4>2. UNCHANGED <<pc, try>> /\ \A g \in Frames \ pending : answer'[g] = answer[g]
        BY <2>16 DEF ClearPending
      <4>3. pc[b] \in {"idle", "client", "check", "insert"} => Frame(b) \notin pending
        BY DEF Registered, Frame
      <4>4. try[b] = 1 => <<b, 2>> \notin pending
        BY DEF Registered, Frame
      <4>5. Frame(b) \in Frames
        BY <4>1 DEF Frame, TypeOK
      <4> QED
        BY <4>1, <4>2, <4>3, <4>4, <4>5 DEF Blank, Frame
    <3>3. Registered'
      BY <2>16, IpcAssumption DEF TypeOK, Registered, Blank, FirstTry, ClearPending,
         Frame, Conn, Frames, agentVars, clientVars
    <3>4. Known'
      BY <2>16, IpcAssumption DEF TypeOK, Known, Registered, Blank, ClearPending, Frame,
         Conn, Frames, agentVars, clientVars
    <3>5. Attached'
      BY <2>16, IpcAssumption DEF TypeOK, Attached, Fresh, Blank, Registered,
         ClearPending, Frame, Conn, Frames, agentVars, clientVars
    <3>6. Ages'
      BY <2>16, IpcAssumption DEF TypeOK, Ages, Attached, ClearPending, Frame, Conn,
         Frames, agentVars, clientVars
    <3>7. Dropped'
      <4> SUFFICES ASSUME NEW f \in Frames PROVE Dropped!(f)'
        BY DEF Dropped
      <4>1. UNCHANGED <<born, life, broken, server, accepted, on, where>>
        BY <2>16 DEF ClearPending, agentVars
      <4>2. CASE f \in pending /\ on[f] = k
        <5>1. \/ where[f] \in {"none", "outbox", "done"} /\ accepted[f] = None
              \/ born[k] < life \/ k \in broken
          BY <2>16, <4>2 DEF ClearPending, Closing, Unheard, Served, TypeOK, Places
        <5>2. server[k] = "ended" \/ born[k] < life \/ k \in broken
          BY <2>16 DEF ClearPending, Closing
        <5> QED
          BY <4>1, <4>2, <5>1, <5>2 DEF Settled
      <4>3. CASE ~(f \in pending /\ on[f] = k)
        BY <2>16, <4>1, <4>3 DEF ClearPending, Dropped, Settled
      <4> QED
        BY <4>2, <4>3
    <3>10. Unheard'
      BY <2>16, IpcAssumption DEF TypeOK, Unheard, Fresh, Registered, Attached, Ages, Served,
         ClearPending, Frame, Conn, Frames, agentVars, clientVars
    <3>11. Closing'
      BY <2>16, IpcAssumption DEF TypeOK, Closing, Fresh, Attached, Ages,
         ClearPending, Frame, Conn, Frames, agentVars, clientVars
    <3> QED
      BY <3>1, <3>2, <3>3, <3>4, <3>5, <3>6, <3>7, <3>10, <3>11 DEF Safe
  <2>22. ASSUME NEW k \in Conns, ReadFails(k)
        PROVE  Safe'
    <3>1. Fresh' /\ Blank' /\ Registered' /\ Known' /\ Attached'
      BY <2>22 DEF TypeOK, Fresh, Blank, Registered, Known, Attached, ReadFails, Frame, agentVars, clientVars
    <3>2. Ages'
      BY <2>22 DEF TypeOK, Ages, ReadFails, agentVars, clientVars
    <3>3. Served'
      BY <2>22 DEF TypeOK, Served, ReadFails, agentVars, clientVars
    <3>4. Dropped'
      BY <2>22 DEF TypeOK, Dropped, Settled, ReadFails, agentVars, clientVars
    <3>5. Superseded'
      BY <2>22 DEF TypeOK, Superseded, Settled, ReadFails, agentVars, clientVars
    <3>10. Unheard'
      BY <2>22 DEF TypeOK, Unheard, ReadFails, agentVars, clientVars
    <3>11. Closing'
      BY <2>22 DEF TypeOK, Closing, ReadFails, agentVars, clientVars
    <3> QED
      BY <3>1, <3>2, <3>3, <3>4, <3>5, <3>10, <3>11 DEF Safe
  <2>23. ASSUME NEW k \in Conns, Stick(k)
        PROVE  Safe'
    <3>1. Fresh' /\ Blank' /\ Registered' /\ Known' /\ Attached'
      BY <2>23 DEF TypeOK, Fresh, Blank, Registered, Known, Attached, Stick, Frame, agentVars, clientVars
    <3>2. Ages'
      BY <2>23 DEF TypeOK, Ages, Stick, agentVars, clientVars
    <3>3. Served'
      BY <2>23 DEF TypeOK, Served, Stick, agentVars, clientVars
    <3>4. Dropped'
      BY <2>23 DEF TypeOK, Dropped, Settled, Stick, agentVars, clientVars
    <3>5. Superseded'
      BY <2>23 DEF TypeOK, Superseded, Settled, Stick, agentVars, clientVars
    <3>10. Unheard'
      BY <2>23 DEF TypeOK, Unheard, Stick, agentVars, clientVars
    <3>11. Closing'
      BY <2>23 DEF TypeOK, Closing, Stick, agentVars, clientVars
    <3> QED
      BY <3>1, <3>2, <3>3, <3>4, <3>5, <3>10, <3>11 DEF Safe
  <2>24. ASSUME NEW k \in Conns, ServeFails(k)
        PROVE  Safe'
    <3>0. /\ UNCHANGED <<up, life, accepted, link, clientVars, kind, pc, try, on, answer>>
          /\ server' = [server EXCEPT ![k] = "ended"]
          /\ \A f \in Frames : where'[f] = where[f] \/ (where[f] = "agent" /\ where'[f] = "done")
      BY <2>24 DEF ServeFails
    <3>1. Blank' /\ Registered' /\ Known' /\ Attached'
      BY <3>0 DEF TypeOK, Blank, Registered, Known, Attached, Frame, clientVars
    <3>6. Fresh'
      <4> SUFFICES ASSUME NEW b \in Callers PROVE Fresh!(b)'
        BY DEF Fresh
      <4>1. <<b, 2>> \in Frames /\ Frame(b) \in Frames
        BY FramesOfCallers DEF Frames
      <4> QED
        BY <3>0, <4>1 DEF Fresh, Frame
    <3>2. Ages'
      BY <2>24 DEF TypeOK, Ages, ServeFails, agentVars, clientVars
    <3>3. Served'
      BY <2>24 DEF TypeOK, Served, ServeFails, agentVars, clientVars
    <3>4. Dropped'
      BY <2>24 DEF TypeOK, Dropped, Settled, ServeFails, agentVars, clientVars
    <3>5. Superseded'
      <4> SUFFICES ASSUME NEW b \in Callers PROVE Superseded!(b)'
        BY DEF Superseded
      <4>1. <<b, 1>> \in Frames
        BY DEF Frames
      <4> QED
        BY <3>0, <4>1 DEF TypeOK, Superseded, Settled, clientVars
    <3>10. Unheard'
      BY <2>24 DEF TypeOK, Unheard, ServeFails, agentVars, clientVars
    <3>11. Closing'
      BY <2>24 DEF TypeOK, Closing, ServeFails, agentVars, clientVars
    <3> QED
      BY <3>1, <3>2, <3>3, <3>4, <3>5, <3>6, <3>10, <3>11 DEF Safe
  <2>17. ASSUME NEW f \in Frames, Accept(f)
        PROVE  Safe'
    <3>1. Blank' /\ Registered' /\ Known' /\ Ages' /\ Dropped'
      BY <2>17 DEF Blank, Registered, Known, Ages, Dropped, Settled, Accept, Frame, agentVars,
         clientVars
    <3>2. Fresh'
      <4> SUFFICES ASSUME NEW b \in Callers PROVE Fresh!(b)'
        BY DEF Fresh
      <4>1. <<b, 1>> \in Frames /\ <<b, 2>> \in Frames
        BY DEF Frames
      <4> QED
        BY <2>17, <4>1, IpcAssumption DEF TypeOK, Fresh, Accept, Frame, Conn, Frames,
           agentVars, clientVars
    <3>3. Attached'
      BY <2>17, IpcAssumption DEF TypeOK, Attached, Fresh, Blank, Registered, Accept,
         Frame, Conn, Frames, agentVars, clientVars
    <3>4. Served'
      BY <2>17, IpcAssumption DEF TypeOK, Served, Fresh, Attached, Ages, Accept, Frame,
         Conn, Frames, agentVars, clientVars
    <3>5. Superseded'
      <4> SUFFICES ASSUME NEW b \in Callers PROVE Superseded!(b)'
        BY DEF Superseded
      <4>1. <<b, 1>> \in Frames
        BY DEF Frames
      <4> QED
        BY <2>17, <4>1 DEF TypeOK, Superseded, Settled, Accept, agentVars, clientVars
    <3>10. Unheard'
      BY <2>17, IpcAssumption DEF TypeOK, Unheard, Fresh, Registered, Attached, Ages, Served,
         Accept, Frame, Conn, Frames, agentVars, clientVars
    <3>11. Closing'
      BY <2>17, IpcAssumption DEF TypeOK, Closing, Fresh, Attached, Ages,
         Accept, Frame, Conn, Frames, agentVars, clientVars
    <3> QED
      BY <3>1, <3>2, <3>3, <3>4, <3>5, <3>10, <3>11 DEF Safe
  <2>18. ASSUME NEW f \in Frames, Reply(f)
        PROVE  Safe'
    <3>1. Blank' /\ Registered' /\ Known' /\ Ages' /\ Dropped'
      BY <2>18 DEF Blank, Registered, Known, Ages, Dropped, Settled, Reply, Frame, agentVars,
         clientVars
    <3>2. Fresh'
      <4> SUFFICES ASSUME NEW b \in Callers PROVE Fresh!(b)'
        BY DEF Fresh
      <4>1. <<b, 1>> \in Frames /\ <<b, 2>> \in Frames
        BY DEF Frames
      <4> QED
        BY <2>18, <4>1, IpcAssumption DEF TypeOK, Fresh, Reply, Frame, Conn, Frames,
           agentVars, clientVars
    <3>3. Attached'
      BY <2>18, IpcAssumption DEF TypeOK, Attached, Fresh, Blank, Registered, Reply,
         Frame, Conn, Frames, agentVars, clientVars
    <3>4. Served'
      BY <2>18, IpcAssumption DEF TypeOK, Served, Fresh, Attached, Ages, Reply, Frame,
         Conn, Frames, agentVars, clientVars
    <3>5. Superseded'
      <4> SUFFICES ASSUME NEW b \in Callers PROVE Superseded!(b)'
        BY DEF Superseded
      <4>1. <<b, 1>> \in Frames
        BY DEF Frames
      <4> QED
        BY <2>18, <4>1 DEF TypeOK, Superseded, Settled, Reply, agentVars, clientVars
    <3>10. Unheard'
      BY <2>18, IpcAssumption DEF TypeOK, Unheard, Fresh, Registered, Attached, Ages, Served,
         Reply, Frame, Conn, Frames, agentVars, clientVars
    <3>11. Closing'
      BY <2>18, IpcAssumption DEF TypeOK, Closing, Fresh, Attached, Ages,
         Reply, Frame, Conn, Frames, agentVars, clientVars
    <3> QED
      BY <3>1, <3>2, <3>3, <3>4, <3>5, <3>10, <3>11 DEF Safe
  <2>19. CASE Crash
    <3>1. Blank' /\ Registered' /\ Known'
      BY <2>19 DEF Blank, Registered, Known, Crash, Frame, agentVars, clientVars
    <3>2. Fresh'
      <4> SUFFICES ASSUME NEW b \in Callers PROVE Fresh!(b)'
        BY DEF Fresh
      <4>1. <<b, 1>> \in Frames /\ <<b, 2>> \in Frames
        BY DEF Frames
      <4> QED
        BY <2>19, <4>1, IpcAssumption DEF TypeOK, Fresh, Crash, Frame, Conn, Frames,
           agentVars, clientVars
    <3>3. Attached'
      BY <2>19, IpcAssumption DEF TypeOK, Attached, Fresh, Blank, Registered, Crash,
         Frame, Conn, Frames, agentVars, clientVars
    <3>4. Ages'
      BY <2>19, IpcAssumption DEF TypeOK, Ages, Attached, Crash, Frame, Conn, Frames,
         agentVars, clientVars
    <3>5. Served'
      BY <2>19, IpcAssumption DEF TypeOK, Served, Fresh, Attached, Ages, Crash, Frame,
         Conn, Frames, agentVars, clientVars
    <3>6. Dropped'
      BY <2>19, IpcAssumption DEF TypeOK, Dropped, Settled, Attached, Ages, Blank, Crash, Frame,
         Conn, Frames, agentVars, clientVars
    <3>7. Superseded'
      BY <2>19, IpcAssumption DEF TypeOK, Superseded, Settled, Fresh, FirstTry, Dropped,
         Attached, Ages, Crash, Frame, Conn, Frames, agentVars, clientVars
    <3>10. Unheard'
      BY <2>19, IpcAssumption DEF TypeOK, Unheard, Fresh, Registered, Attached, Ages, Served,
         Crash, Frame, Conn, Frames, agentVars, clientVars
    <3>11. Closing'
      BY <2>19, IpcAssumption DEF TypeOK, Closing, Fresh, Attached, Ages,
         Crash, Frame, Conn, Frames, agentVars, clientVars
    <3> QED
      BY <3>1, <3>2, <3>3, <3>4, <3>5, <3>6, <3>7, <3>10, <3>11 DEF Safe
  <2>20. CASE Restart
    <3>1. Fresh' /\ Blank' /\ Registered' /\ Known' /\ Attached' /\ Ages' /\ Served' /\ Dropped' /\ Superseded'
      BY <2>20 DEF Fresh, Blank, Registered, Known, Attached, Ages, Served, Dropped, Settled,
         Superseded, Restart, Frame, agentVars, clientVars
    <3>10. Unheard'
      BY <2>20, IpcAssumption DEF TypeOK, Unheard, Fresh, Registered, Attached, Ages, Served,
         Restart, Frame, Conn, Frames, agentVars, clientVars
    <3>11. Closing'
      BY <2>20, IpcAssumption DEF TypeOK, Closing, Fresh, Attached, Ages,
         Restart, Frame, Conn, Frames, agentVars, clientVars
    <3> QED
      BY <3>1, <3>10, <3>11 DEF Safe
  <2>21. CASE UNCHANGED vars
    <3>1. Fresh' /\ Blank' /\ Registered' /\ Known' /\ Attached' /\ Ages' /\ Served' /\ Dropped' /\ Superseded'
      BY <2>21 DEF Fresh, Blank, Registered, Known, Attached, Ages, Served, Dropped, Settled,
         Superseded, vars, Frame, agentVars, clientVars
    <3>10. Unheard'
      BY <2>21, IpcAssumption DEF TypeOK, Unheard, Fresh, Registered, Attached, Ages, Served,
         vars, Frame, Conn, Frames, agentVars, clientVars
    <3>11. Closing'
      BY <2>21, IpcAssumption DEF TypeOK, Closing, Fresh, Attached, Ages,
         vars, Frame, Conn, Frames, agentVars, clientVars
    <3> QED
      BY <3>1, <3>10, <3>11 DEF Safe
  <2> QED
    BY <2>1, <2>2, <2>3, <2>4, <2>5, <2>6, <2>7, <2>8, <2>9, <2>10, <2>11, <2>12, <2>13, <2>14, <2>15, <2>16, <2>17, <2>18, <2>19, <2>20, <2>21, <2>22, <2>23, <2>24
     DEF Next, CallerStep, Client, ClientStep, ReaderStep, ServeStep
<1> QED
  BY <1>1, <1>2, TypeCorrect, PTL DEF Spec

-----------------------------------------------------------------------------
(* What the runs check, for every instance.                                *)

\* A retry never follows a slow answer: one life of the agent accepts both attempts of a
\* call only if the panel's reader gave up the connection of the first one.
THEOREM RunOncePerLife == Spec => []OneRunPerLife
<1>1. Init => OneRunPerLife
  BY DEF Init, OneRunPerLife, Frames
<1>2. TypeOK /\ Safe /\ OneRunPerLife /\ [Next]_vars => OneRunPerLife'
  <2> SUFFICES ASSUME TypeOK, Safe, OneRunPerLife, [Next]_vars
               PROVE  OneRunPerLife'
    OBVIOUS
  <2>1. ASSUME NEW f \in Frames, Accept(f)
        PROVE  OneRunPerLife'
    <3> SUFFICES ASSUME NEW c \in Callers
                 PROVE  OneRunPerLife!(c)'
      BY DEF OneRunPerLife
    <3>1. <<c, 1>> \in Frames /\ <<c, 2>> \in Frames /\ try[c] \in {1, 2}
      BY DEF Frames, TypeOK
    <3>2. /\ accepted' = [accepted EXCEPT ![f] = life] /\ where[f] = "agent"
          /\ UNCHANGED <<on, broken>>
      BY <2>1 DEF Accept, clientVars
    <3>3. CASE f = <<c, 1>>
      <4>1. born[on[<<c, 1>>]] = life
        BY <3>1, <3>2, <3>3 DEF Safe, Served
      <4>2. try[c] = 1 \/ on[<<c, 1>>] \in broken
        BY <3>1, <3>2, <3>3, <4>1 DEF Safe, Superseded, Settled, TypeOK
      <4>3. accepted[<<c, 2>>] = None \/ on[<<c, 1>>] \in broken
        BY <4>2 DEF Safe, Fresh
      <4> QED
        BY <3>1, <3>2, <3>3, <4>3, IpcAssumption DEF TypeOK
    <3>4. CASE f = <<c, 2>>
      <4>1. try[c] = 2
        BY <3>1, <3>2, <3>4 DEF Safe, Fresh
      <4>2. accepted[<<c, 1>>] # None => accepted[<<c, 1>>] < life \/ on[<<c, 1>>] \in broken
        BY <3>1, <4>1 DEF Safe, Superseded, Settled, Served
      <4> QED
        BY <3>1, <3>2, <3>4, <4>2, IpcAssumption DEF TypeOK
    <3>5. CASE f # <<c, 1>> /\ f # <<c, 2>>
      BY <3>1, <3>2, <3>5 DEF TypeOK, OneRunPerLife
    <3> QED
      BY <3>3, <3>4, <3>5
  <2>2. ASSUME NEW b \in Callers, UseLink(b) \/ Connect(b)
        PROVE  OneRunPerLife'
    <3>1. UNCHANGED <<accepted, broken>> /\ \A f \in Frames \ {Frame(b)} : on'[f] = on[f]
      BY <2>2 DEF UseLink, Connect, agentVars, clientVars, TypeOK
    <3>2. accepted[Frame(b)] = None
      BY <2>2 DEF UseLink, Connect, Safe, Fresh
    <3>3. \A c \in Callers : <<c, 1>> \in Frames
      BY DEF Frames
    <3> QED
      BY <3>1, <3>2, <3>3 DEF OneRunPerLife
  <2>3. CASE UNCHANGED <<accepted, on>> /\ broken \subseteq broken'
    BY <2>3 DEF OneRunPerLife
  <2>4. \/ UNCHANGED <<accepted, on>> /\ broken \subseteq broken'
        \/ \E f \in Frames : Accept(f)
        \/ \E b \in Callers : UseLink(b) \/ Connect(b)
    BY DEF Next, CallerStep, Client, ClientStep, ReaderStep, ServeStep, vars, agentVars,
       clientVars, Invoke, ConnectFails, Check, Insert, Send, Answered, TimeOut, DropClient,
       Abandon, Write, Forget, Read, ReadEof, ReadFails, ClearPending, Reply, Stick, ServeFails,
       Crash, Restart
  <2> QED
    BY <2>1, <2>2, <2>3, <2>4
<1> QED
  BY <1>1, <1>2, TypeCorrect, SafeInvariant, PTL DEF Spec

\* A reply always finds the call that waits for it.
THEOREM WaitersKnown == Spec => []WaitersAreKnown
<1>1. Safe => WaitersAreKnown
  BY DEF Safe, Known, WaitersAreKnown
<1> QED
  BY <1>1, SafeInvariant, PTL

\* The map of a connection holds no entry of an attempt that is over.
THEOREM NoEntryLeft == Spec => []EntriesOwned
<1>1. Safe => EntriesOwned
  BY DEF Safe, Registered, EntriesOwned
<1> QED
  BY <1>1, SafeInvariant, PTL
=============================================================================
