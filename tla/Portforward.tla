----------------------------- MODULE Portforward ----------------------------
(***************************************************************************)
(* kube-client/src/api/portforward.rs: several ports of a pod multiplexed  *)
(* over one websocket.  A background task joins one to_pod_loop per port,  *)
(* one from_pod_loop and one forwarder_loop; the others talk to the        *)
(* forwarder through a bounded channel.  The first loop that fails ends    *)
(* the task and drops the rest.                                            *)
(*                                                                         *)
(* The steps are cut at the awaits: one message put into the channel, one  *)
(* message handled.  Bytes are numbered chunks.  The websocket             *)
(* (tokio_tungstenite), the duplex pipes (tokio) and the channel (futures) *)
(* are external.                                                           *)
(***************************************************************************)
EXTENDS Naturals, Sequences, FiniteSets, SequencesExt

CONSTANTS Ports,        \* number of ports; port i uses the channels 2i and 2i + 1
          Capacity,     \* room in the channel between the loops: futures adds a slot per
                        \* sender to the buffer of 1
          PipeSize,     \* chunks that fit into a duplex pipe
          MaxWrites,    \* bound on the chunks that clients write, over all ports
          MaxFrames     \* bound on the frames the server sends

ASSUME PortforwardAssumption ==
    /\ Ports \in Nat \ {0} /\ Capacity \in Nat \ {0} /\ PipeSize \in Nat \ {0}
    /\ MaxWrites \in Nat /\ MaxFrames \in Nat

Port == 0..(Ports - 1)
Channel == 0..(2 * Ports - 1)
PortOf(ch) == ch \div 2
IsErrorChannel(ch) == ch % 2 # 0

VARIABLES
    client,        \* per port: "untaken", "open", "shutdown" (done writing), "dropped"
    written,       \* chunks the client has written
    consumed,      \* chunks from the pod that the client has read
    reading,       \* per port: to_pod_loop's next chunk, 0 once it has returned
    channel,       \* the messages on their way to the forwarder
    from_pod,      \* from_pod_loop: "running" or "done"
    frames,        \* what the server has sent and was not read yet
    server,        \* "open", or "closed" once it has sent its Close
    frames_sent,   \* how many frames the server has sent
    sent,          \* what was sent to the server, in order
    initialized, shutdown,   \* ChannelState
    closed_ports, socket_shutdown,
    delivered,     \* per port: chunks from the pod written to the pipe
    eof,           \* ports whose pipe to the client was shut down
    errors,        \* per port: error messages given to the client
    task           \* "running", "ok", "err" or "aborted"

clientVars == <<client, written, consumed>>
serverVars == <<frames, server, frames_sent>>
forwarderVars == <<sent, initialized, shutdown, closed_ports, socket_shutdown, delivered, eof, errors>>
vars == <<client, written, consumed, reading, channel, from_pod, frames, server, frames_sent,
          sent, initialized, shutdown, closed_ports, socket_shutdown, delivered, eof, errors, task>>

Each(x) == [p \in Port |-> x]
Close == [type |-> "close"]
Frame == [type : {"frame"}, ch : Channel \cup {2 * Ports}, is_port : BOOLEAN] \cup {Close}

Init ==
    /\ client = Each("untaken") /\ written = Each(0) /\ consumed = Each(0)
    /\ reading = Each(1)
    /\ channel = <<>>
    /\ from_pod = "running"
    /\ frames = <<>> /\ server = "open" /\ frames_sent = 0
    /\ sent = <<>>
    /\ initialized = {} /\ shutdown = {}
    /\ closed_ports = 0 /\ socket_shutdown = FALSE
    /\ delivered = Each(0) /\ eof = {} /\ errors = Each(0)
    /\ task = "running"

-----------------------------------------------------------------------------
(* The user of the Portforwarder                                           *)

SetClient(p, s) == client' = [client EXCEPT ![p] = s]

take_stream(p) == client[p] = "untaken" /\ SetClient(p, "open") /\ UNCHANGED <<written, consumed>>

ClientWrites(p) ==
    /\ task = "running" /\ client[p] = "open"
    /\ FoldFunction(+, 0, written) < MaxWrites
    /\ written[p] - (reading[p] - 1) < PipeSize
    /\ written' = [written EXCEPT ![p] = @ + 1]
    /\ UNCHANGED <<client, consumed>>

ClientReads(p) ==
    /\ client[p] \in {"open", "shutdown"} /\ consumed[p] < delivered[p]
    /\ consumed' = [consumed EXCEPT ![p] = @ + 1]
    /\ UNCHANGED <<client, written>>

ClientShutsDown(p) == client[p] = "open" /\ SetClient(p, "shutdown") /\ UNCHANGED <<written, consumed>>

ClientDrops(p) ==
    /\ client[p] \in {"open", "shutdown"}
    /\ SetClient(p, "dropped")
    /\ UNCHANGED <<written, consumed>>

\* join: "Start by terminating any streams that have not yet been taken"
join ==
    /\ \E p \in Port : client[p] = "untaken"
    /\ client' = [p \in Port |-> IF client[p] = "untaken" THEN "dropped" ELSE client[p]]
    /\ UNCHANGED <<written, consumed>>

Client == /\ \/ \E p \in Port : \/ take_stream(p) \/ ClientWrites(p) \/ ClientReads(p)
                                \/ ClientShutsDown(p) \/ ClientDrops(p)
             \/ join
          /\ UNCHANGED <<reading, channel, from_pod, serverVars, forwarderVars, task>>

abort == task = "running" /\ task' = "aborted"
         /\ UNCHANGED <<clientVars, reading, channel, from_pod, serverVars, forwarderVars>>

-----------------------------------------------------------------------------
(* The server: any frames, in particular its answer to a Close             *)

Sends(f) ==
    /\ server = "open"
    /\ frames' = Append(frames, f)
    /\ server' = IF f = Close THEN "closed" ELSE "open"

ServerSends(f) ==
    /\ frames_sent < MaxFrames
    /\ Sends(f)
    /\ frames_sent' = frames_sent + 1
    /\ UNCHANGED <<clientVars, reading, channel, from_pod, forwarderVars, task>>

AnswerClose ==
    /\ socket_shutdown
    /\ Sends(Close)
    /\ UNCHANGED <<clientVars, reading, channel, from_pod, frames_sent, forwarderVars, task>>

-----------------------------------------------------------------------------
(* to_pod_loop and from_pod_loop                                           *)

Send(msg) == Len(channel) < Capacity /\ channel' = Append(channel, msg)
ToPod(p, n) == [type |-> "to_pod", port |-> p, chunk |-> n]
ToPodClose(p) == [type |-> "to_pod_close", port |-> p]
FromPod(f) == [type |-> "from_pod", ch |-> f.ch, is_port |-> f.is_port]
FromPodClose == [type |-> "from_pod_close"]

Fails == task' = "err"

ToPodReads(p) ==
    /\ reading[p] \in 1..written[p]
    /\ Send(ToPod(p, reading[p]))
    /\ reading' = [reading EXCEPT ![p] = @ + 1]

\* The pipe is at its end: everything was read and the client writes no more.
ToPodEnds(p) ==
    /\ reading[p] = written[p] + 1
    /\ client[p] \in {"shutdown", "dropped"}
    /\ Send(ToPodClose(p))
    /\ reading' = [reading EXCEPT ![p] = 0]

to_pod_loop(p) ==
    /\ task = "running"
    /\ ToPodReads(p) \/ ToPodEnds(p)
    /\ UNCHANGED <<clientVars, from_pod, serverVars, forwarderVars, task>>

from_pod_loop ==
    /\ task = "running" /\ from_pod = "running" /\ frames # <<>>
    /\ Send(IF Head(frames) = Close THEN FromPodClose ELSE FromPod(Head(frames)))
    /\ from_pod' = IF Head(frames) = Close THEN "done" ELSE "running"
    /\ frames' = Tail(frames)
    /\ UNCHANGED <<clientVars, reading, server, frames_sent, forwarderVars, task>>

\* ws_stream.next() is Some(Err(..)): a connection that ends without a Close is an
\* error of the websocket too.  Other messages (text, ping, empty) are skipped.
ConnectionFails ==
    /\ task = "running" /\ from_pod = "running"
    /\ Fails
    /\ UNCHANGED <<clientVars, reading, channel, from_pod, serverVars, forwarderVars>>

-----------------------------------------------------------------------------
(* forwarder_loop, by the message received                                 *)

CloseSocket_AfterFirst == closed_ports' > 0 /\ ~socket_shutdown
CloseSocket_OffByOne == closed_ports' > Ports /\ ~socket_shutdown

\* After each message: is every port closed and the socket not?
CloseSocket == closed_ports' = Ports /\ ~socket_shutdown

\* What the message itself sends, then the tail of the loop body.  A send may fail.
Finish(data) ==
    /\ sent' = sent \o data \o (IF CloseSocket THEN <<Close>> ELSE <<>>)
    /\ socket_shutdown' = (socket_shutdown \/ CloseSocket)
    /\ task' \in IF sent' = sent THEN {task} ELSE {task, "err"}

FromPodInvalid(m) ==
    /\ m.type = "from_pod"
    /\ \/ m.ch \notin Channel
       \/ m.ch \notin initialized /\ ~m.is_port
    /\ Fails
    /\ UNCHANGED forwarderVars

\* `continue`: the tail is skipped.
FromPodInit(m) ==
    /\ m.type = "from_pod" /\ m.ch \in Channel \ initialized /\ m.is_port
    /\ initialized' = initialized \cup {m.ch}
    /\ UNCHANGED <<sent, shutdown, closed_ports, socket_shutdown, delivered, eof, errors, task>>

\* The first error message of a port goes to its error future; take_error's receiver
\* may be gone, which fails the task (ForwardErrorMessage).
FromPodError(m) ==
    /\ m.type = "from_pod" /\ m.ch \in initialized /\ IsErrorChannel(m.ch)
    /\ \/ /\ errors' = [errors EXCEPT ![PortOf(m.ch)] = 1]
          /\ UNCHANGED <<initialized, shutdown, closed_ports, delivered, eof>>
          /\ Finish(<<>>)
       \/ /\ errors[PortOf(m.ch)] = 0
          /\ Fails /\ UNCHANGED forwarderVars

\* write_all: waits for room in the pipe, fails when its other end was dropped or
\* this end was shut down.
FromPodData(m) ==
    LET p == PortOf(m.ch) IN
    /\ m.type = "from_pod" /\ m.ch \in initialized /\ ~IsErrorChannel(m.ch)
    /\ \/ /\ p \in shutdown
          /\ UNCHANGED <<initialized, shutdown, closed_ports, delivered, eof, errors>>
          /\ Finish(<<>>)
       \/ /\ p \notin shutdown
          /\ client[p] # "dropped" /\ p \notin eof /\ delivered[p] - consumed[p] < PipeSize
          /\ delivered' = [delivered EXCEPT ![p] = @ + 1]
          /\ UNCHANGED <<initialized, shutdown, closed_ports, eof, errors>>
          /\ Finish(<<>>)
       \/ /\ p \notin shutdown
          /\ client[p] = "dropped" \/ p \in eof
          /\ Fails /\ UNCHANGED forwarderVars

ForwardToPod_Misrouted(m) ==
    /\ m.type = "to_pod"
    /\ UNCHANGED <<initialized, shutdown, closed_ports, delivered, eof, errors>>
    /\ Finish(<<[m EXCEPT !.port = 0]>>)

\* The websocket accepts no data once the server's Close has been read.
ForwardToPod(m) ==
    /\ m.type = "to_pod"
    /\ \/ /\ from_pod = "running"
          /\ UNCHANGED <<initialized, shutdown, closed_ports, delivered, eof, errors>>
          /\ Finish(<<m>>)
       \/ from_pod = "done" /\ Fails /\ UNCHANGED forwarderVars

ForwardToPodClose(m) ==
    /\ m.type = "to_pod_close"
    /\ shutdown' = shutdown \cup {m.port}
    /\ closed_ports' = closed_ports + (IF m.port \in shutdown THEN 0 ELSE 1)
    /\ eof' = eof \cup {m.port}
    /\ UNCHANGED <<initialized, delivered, errors>>
    /\ Finish(<<>>)

ForwardFromPodClose_Ignored(m) ==
    /\ m.type = "from_pod_close"
    /\ UNCHANGED <<initialized, shutdown, closed_ports, delivered, eof, errors>>
    /\ Finish(<<>>)

ForwardFromPodClose(m) ==
    /\ m.type = "from_pod_close"
    /\ eof' = Port
    /\ UNCHANGED <<initialized, shutdown, closed_ports, delivered, errors>>
    /\ Finish(<<>>)

forwarder_loop ==
    /\ task = "running" /\ channel # <<>>
    /\ channel' = Tail(channel)
    /\ LET m == Head(channel) IN
         \/ FromPodInvalid(m) \/ FromPodInit(m) \/ FromPodError(m) \/ FromPodData(m)
         \/ ForwardToPod(m) \/ ForwardToPodClose(m) \/ ForwardFromPodClose(m)
    /\ UNCHANGED <<clientVars, reading, from_pod, serverVars>>

\* Every sender is gone and the channel is empty: forwarder_loop returns, and with
\* it try_join_all.
AllLoopsDone ==
    /\ task = "running" /\ channel = <<>>
    /\ from_pod = "done" /\ \A p \in Port : reading[p] = 0
    /\ task' = "ok"
    /\ UNCHANGED <<clientVars, reading, channel, from_pod, serverVars, forwarderVars>>

Next == \/ Client \/ abort \/ AnswerClose \/ from_pod_loop \/ ConnectionFails
        \/ forwarder_loop \/ AllLoopsDone
        \/ \E f \in Frame : ServerSends(f)
        \/ \E p \in Port : to_pod_loop(p)

Spec == Init /\ [][Next]_vars

\* The loops run and the server answers a Close.  The user takes each stream, or calls
\* join, and reads it or drops it: the forwarder waits for room in every pipe.
Fairness == /\ \A p \in Port : WF_vars(to_pod_loop(p))
            /\ WF_vars(from_pod_loop) /\ WF_vars(forwarder_loop) /\ WF_vars(AllLoopsDone)
            /\ WF_vars(AnswerClose)
            /\ \A p \in Port : WF_vars((take_stream(p) \/ join) /\ Client)
            /\ \A p \in Port : WF_vars(ClientReads(p) /\ Client)

FairSpec == Spec /\ Fairness

-----------------------------------------------------------------------------
\* The places of a port's chunks in a sequence of messages, and the chunks before a place
DataOf(s, p) == {i \in 1..Len(s) : s[i].type = "to_pod" /\ s[i].port = p}
Chunks(s, p) == {s[i].chunk : i \in DataOf(s, p)}
ChunksBefore(s, p, i) == {s[j].chunk : j \in {k \in DataOf(s, p) : k < i}}

\* What the server gets on a port's channel is what the client wrote to it, in order
\* and without gaps or repetitions, though all ports share one channel and one socket.
InOrder == \A p \in Port : \A i \in DataOf(sent, p) : ChunksBefore(sent, p, i) = 1..(sent[i].chunk - 1)

\* The Close is sent once, as the last message, and only when all that any client
\* wrote before it closed its port has been sent.
CloseIsLast ==
    \A i \in 1..Len(sent) : sent[i] = Close =>
      i = Len(sent) /\ \A p \in Port : Chunks(sent, p) = 1..written[p]

\* What the pod gets of each client is complete and in order up to the Close.
DataThenClose == InOrder /\ CloseIsLast

\* A pod that closes makes the client of each port see the end of its stream, unless
\* the task has ended.
PodCloseIsSeen == (server = "closed") ~> (eof = Port \/ task # "running")

\* "Waits for port forwarding task to complete": with every stream dropped it does
\* complete, whatever is still in the pipes.
JoinReturns == (\A p \in Port : client[p] = "dropped") ~> (task # "running")

\* Whichever side ends the forwarding, the other one gets to know.
EndsAreSeen == PodCloseIsSeen /\ JoinReturns
=============================================================================
