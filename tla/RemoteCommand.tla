---------------------------- MODULE RemoteCommand ---------------------------
(***************************************************************************)
(* kube-client/src/api/remote_command.rs: a process attached over one      *)
(* websocket.  A background task selects between the server's messages,    *)
(* stdin and the terminal size; while it writes output into a pipe or      *)
(* sends a message it looks at nothing else.                               *)
(*                                                                         *)
(* Bytes are numbered per stream.  The steps are cut at the awaits.  The   *)
(* pipes (tokio), the channels (futures) and the websocket with the server *)
(* behind it are external.                                                 *)
(***************************************************************************)
EXTENDS Naturals, Sequences

CONSTANTS PipeSize,      \* max_stdout_buf_size and its like, in bytes
          Window,        \* messages that fit into the connection, each way
          MaxOutput,     \* bound on the bytes the process writes, over both streams
          MaxInput,      \* bound on the bytes the client writes
          MaxResizes     \* bound on the terminal sizes the client sends

ASSUME RemoteCommandAssumption ==
    /\ PipeSize \in Nat \ {0} /\ Window \in Nat \ {0}
    /\ MaxOutput \in Nat /\ MaxInput \in Nat /\ MaxResizes \in Nat

Output == {"stdout", "stderr"}
End == Output \cup {"stdin", "status", "resize"}
Close == <<"close", 0>>

VARIABLES
    ap,           \* AttachParams: which of stdin, stdout, stderr, tty were asked for
    handle,       \* the AttachedProcess: "held", "joined" (join is awaited) or "gone"
    ends,         \* the client's end of each stream: "absent", "handle" (in the
                  \* AttachedProcess), "taken" or "dropped"
    pipe,         \* stdin, stdout, stderr: the bytes in the pipe
    sizes,        \* the terminal sizes in their channel
    written, resized,   \* how much the client has written to stdin and sent of sizes
    got,          \* history: what the client has read of each output
    loop,         \* start_message_loop: "select", an Output (writing to it), "sending",
                  \* "closing", or how it ended: "ok", "err", "aborted"
    message,      \* what it is writing or sending
    have_terminal_size_rx,
    status,       \* whether the status was handed over
    from_server,  \* the messages on their way to the client
    unread,       \* how many messages are on their way to the server
    sent,         \* history: the bytes sent to the server, a Close at their end
    server,       \* "running", or "closed" when the server has closed the connection
    produced      \* history: how much the process wrote to each output

clientVars == <<ap, handle, ends, written, resized, got>>
loopVars == <<loop, message, have_terminal_size_rx, status>>
toServerVars == <<unread, sent>>
serverVars == <<server, produced>>
vars == <<ap, handle, ends, pipe, sizes, written, resized, got, loop, message, have_terminal_size_rx,
          status, from_server, unread, sent, server, produced>>

Ended == loop \in {"ok", "err", "aborted"}

\* The bytes from number i to number j of a stream
Bytes(s, i, j) == [k \in 1..(j - i + 1) |-> <<s, i + k - 1>>]

AttachParams == [stdin : BOOLEAN, stdout : BOOLEAN, stderr : BOOLEAN, tty : BOOLEAN]

\* AttachParams::validate, before anything is sent
validate(p) == (p.stdin \/ p.stdout \/ p.stderr) /\ ~(p.stderr /\ p.tty)

Init ==
    /\ ap \in {p \in AttachParams : validate(p)}
    /\ handle = "held"
    /\ ends = [e \in End |-> IF (e \in Output /\ ~ap[e]) \/ (e = "resize" /\ ~ap.tty)
                             THEN "absent" ELSE "handle"]
    /\ pipe = [s \in Output \cup {"stdin"} |-> <<>>]
    /\ sizes = 0
    /\ written = 0 /\ resized = 0
    /\ got = [s \in Output |-> <<>>]
    /\ loop = "select"
    /\ message = <<>>
    /\ have_terminal_size_rx = ap.tty
    /\ status = FALSE
    /\ from_server = <<>> /\ unread = 0 /\ sent = <<>>
    /\ server = "running"
    /\ produced = [s \in Output |-> 0]

-----------------------------------------------------------------------------
(* The user of the AttachedProcess                                         *)

\* stdin(), stdout(), stderr(), take_status() and terminal_size()
take(e) ==
    /\ handle = "held"
    /\ ends[e] = "handle"
    /\ e = "stdin" => ap.stdin
    /\ ends' = [ends EXCEPT ![e] = "taken"]
    /\ UNCHANGED <<ap, handle, pipe, sizes, written, resized, got>>

ClientDrops(e) ==
    /\ ends[e] = "taken"
    /\ ends' = [ends EXCEPT ![e] = "dropped"]
    /\ UNCHANGED <<ap, handle, pipe, sizes, written, resized, got>>

ClientWrites ==
    /\ ends["stdin"] = "taken" /\ ~Ended
    /\ written < MaxInput /\ Len(pipe["stdin"]) < PipeSize
    /\ written' = written + 1
    /\ pipe' = [pipe EXCEPT !["stdin"] = Append(@, <<"stdin", written + 1>>)]
    /\ UNCHANGED <<ap, handle, ends, sizes, resized, got>>

ClientReads(s) ==
    /\ ends[s] = "taken" /\ pipe[s] # <<>>
    /\ got' = [got EXCEPT ![s] = Append(@, Head(pipe[s]))]
    /\ pipe' = [pipe EXCEPT ![s] = Tail(@)]
    /\ UNCHANGED <<ap, handle, ends, sizes, written, resized>>

ClientResizes ==
    /\ ends["resize"] = "taken" /\ ~Ended
    /\ resized < MaxResizes
    /\ sizes' = sizes + 1 /\ resized' = resized + 1
    /\ UNCHANGED <<ap, handle, ends, pipe, written, got>>

\* The fields that were not taken are dropped with the AttachedProcess.
DropHandle ==
    /\ handle' = "gone"
    /\ ends' = [e \in End |-> IF ends[e] = "handle" THEN "dropped" ELSE ends[e]]
    /\ UNCHANGED <<ap, pipe, sizes, written, resized, got>>

\* `self` lives on in the future that awaits the task.
join ==
    /\ handle = "held"
    /\ handle' = "joined"
    /\ UNCHANGED <<ap, ends, pipe, sizes, written, resized, got>>

JoinReturns == handle = "joined" /\ Ended /\ DropHandle

abort ==
    /\ handle = "held" /\ ~Ended
    /\ loop' = "aborted"
    /\ UNCHANGED <<message, have_terminal_size_rx, status>>

Client ==
    /\ \/ \E e \in End : take(e) \/ ClientDrops(e)
       \/ \E s \in Output : ClientReads(s)
       \/ ClientWrites \/ ClientResizes \/ join \/ JoinReturns
       \/ handle = "held" /\ DropHandle
    /\ UNCHANGED <<loopVars, from_server, toServerVars, serverVars>>

Abort == abort /\ UNCHANGED <<clientVars, pipe, sizes, from_server, toServerVars, serverVars>>

-----------------------------------------------------------------------------
(* The server                                                              *)

Sends(msg) ==
    /\ server = "running" /\ Len(from_server) < Window
    /\ from_server' = Append(from_server, msg)
    /\ UNCHANGED toServerVars

\* The process writes n bytes, which make one message.
ProcessWrites(s, n) ==
    /\ produced["stdout"] + produced["stderr"] + n <= MaxOutput
    /\ Sends([type |-> s, bytes |-> Bytes(s, produced[s] + 1, produced[s] + n)])
    /\ produced' = [produced EXCEPT ![s] = @ + n]
    /\ UNCHANGED server

\* The status is the last thing the server sends; it may be unreadable.
ProcessExits(type) ==
    /\ Sends([type |-> type])
    /\ server' = "closed"
    /\ UNCHANGED produced

\* The connection is closed, properly or not, without a status.
ServerCloses(msgs) ==
    /\ server = "running"
    /\ server' = "closed"
    /\ from_server' = from_server \o msgs
    /\ UNCHANGED <<toServerVars, produced>>

ServerReads ==
    /\ server = "running" /\ unread > 0
    /\ unread' = unread - 1
    /\ UNCHANGED <<from_server, sent, serverVars>>

Exits == ProcessExits("status") \/ ProcessExits("garbled status")

Server ==
    /\ \/ \E s \in Output, n \in 1..MaxOutput : ProcessWrites(s, n)
       \/ Exits \/ ServerCloses(<<>>) \/ ServerCloses(<<[type |-> "error"]>>)
       \/ ServerReads
    /\ UNCHANGED <<clientVars, pipe, sizes, loopVars>>

-----------------------------------------------------------------------------
(* start_message_loop: the arms of the select                              *)

Returns(result) == loop' = result /\ UNCHANGED <<message, have_terminal_size_rx, status>>

\* A message of this type comes out of filter_message, which drops whatever else the
\* server sends.
Receives(type) ==
    /\ loop = "select"
    /\ from_server # <<>> /\ Head(from_server).type = type
    /\ from_server' = Tail(from_server)
    /\ UNCHANGED <<clientVars, pipe, sizes, toServerVars, serverVars>>

RecvOutput_Misrouted(s) ==
    /\ Receives(s)
    /\ IF ends["stdout"] = "absent"
       THEN UNCHANGED loopVars
       ELSE /\ loop' = "stdout" /\ message' = Head(from_server).bytes
            /\ UNCHANGED <<have_terminal_size_rx, status>>

\* Message::Stdout or Message::Stderr, if that output was attached
RecvOutput(s) ==
    /\ Receives(s)
    /\ IF ends[s] = "absent"
       THEN UNCHANGED loopVars
       ELSE /\ loop' = s /\ message' = Head(from_server).bytes
            /\ UNCHANGED <<have_terminal_size_rx, status>>

WriteOutput_Once(s) ==
    /\ loop = s /\ ends[s] # "dropped"
    /\ Len(pipe[s]) < PipeSize
    /\ pipe' = [pipe EXCEPT ![s] = Append(@, Head(message))]
    /\ message' = <<>> /\ loop' = "select"
    /\ UNCHANGED <<clientVars, sizes, have_terminal_size_rx, status, from_server, toServerVars, serverVars>>

\* write_all: as much as the pipe has room for, byte by byte
WriteOutput(s) ==
    /\ loop = s /\ ends[s] # "dropped"
    /\ Len(pipe[s]) < PipeSize
    /\ pipe' = [pipe EXCEPT ![s] = Append(@, Head(message))]
    /\ message' = Tail(message)
    /\ loop' = IF Len(message) = 1 THEN "select" ELSE s
    /\ UNCHANGED <<clientVars, sizes, have_terminal_size_rx, status, from_server, toServerVars, serverVars>>

\* WriteStdout, WriteStderr: the reader was dropped.
WriteFails(s) ==
    /\ loop = s /\ ends[s] = "dropped"
    /\ Returns("err")
    /\ UNCHANGED <<clientVars, pipe, sizes, from_server, toServerVars, serverVars>>

RecvStatus ==
    /\ Receives("status")
    /\ IF ends["status"] = "dropped"
       THEN Returns("err")
       ELSE /\ status' = TRUE
            /\ loop' = "ok"
            /\ UNCHANGED <<message, have_terminal_size_rx>>

\* DeserializeStatus, ReceiveWebSocketMessage
RecvFails == (Receives("garbled status") \/ Receives("error")) /\ Returns("err")

RecvClosed_Continues ==
    /\ loop = "select" /\ from_server = <<>> /\ server = "closed"
    /\ UNCHANGED loopVars
    /\ UNCHANGED <<clientVars, pipe, sizes, from_server, toServerVars, serverVars>>

\* None: "Connection closed properly"
RecvClosed ==
    /\ loop = "select" /\ from_server = <<>> /\ server = "closed"
    /\ Returns("ok")
    /\ UNCHANGED <<clientVars, pipe, sizes, from_server, toServerVars, serverVars>>

\* Some(Ok(bytes)) of stdin: what the pipe holds goes into one message.
StdinBytes ==
    /\ loop = "select" /\ pipe["stdin"] # <<>>
    /\ message' = pipe["stdin"]
    /\ pipe' = [pipe EXCEPT !["stdin"] = <<>>]
    /\ loop' = "sending"
    /\ UNCHANGED <<clientVars, sizes, have_terminal_size_rx, status, from_server, toServerVars, serverVars>>

StdinClosed_Unread ==
    /\ loop = "select" /\ ends["stdin"] = "dropped"
    /\ message' = <<Close>>
    /\ loop' = "closing"
    /\ UNCHANGED <<clientVars, pipe, sizes, have_terminal_size_rx, status, from_server, toServerVars, serverVars>>

\* None of stdin: "Let the server know and disconnect."
StdinClosed ==
    /\ loop = "select" /\ ends["stdin"] = "dropped" /\ pipe["stdin"] = <<>>
    /\ message' = <<Close>>
    /\ loop' = "closing"
    /\ UNCHANGED <<clientVars, pipe, sizes, have_terminal_size_rx, status, from_server, toServerVars, serverVars>>

ResizeArrives ==
    /\ loop = "select" /\ have_terminal_size_rx /\ sizes > 0
    /\ sizes' = sizes - 1
    /\ message' = <<>>
    /\ loop' = "sending"
    /\ UNCHANGED <<clientVars, pipe, have_terminal_size_rx, status, from_server, toServerVars, serverVars>>

ResizeClosed ==
    /\ loop = "select" /\ have_terminal_size_rx /\ sizes = 0 /\ ends["resize"] = "dropped"
    /\ have_terminal_size_rx' = FALSE
    /\ UNCHANGED <<clientVars, pipe, sizes, loop, message, status, from_server, toServerVars, serverVars>>

\* The message goes out, unless the connection is full.
Sent ==
    /\ loop \in {"sending", "closing"} /\ unread < Window
    /\ unread' = unread + 1
    /\ sent' = sent \o message
    /\ message' = <<>>
    /\ loop' = IF loop = "closing" THEN "ok" ELSE "select"
    /\ UNCHANGED <<clientVars, pipe, sizes, have_terminal_size_rx, status, from_server, serverVars>>

\* SendStdin, SendTerminalSize, SendClose: the connection is gone.
SendFails ==
    /\ loop \in {"sending", "closing"} /\ server = "closed"
    /\ Returns("err")
    /\ UNCHANGED <<clientVars, pipe, sizes, from_server, toServerVars, serverVars>>

start_message_loop ==
    \/ \E s \in Output : RecvOutput(s) \/ WriteOutput(s) \/ WriteFails(s)
    \/ RecvStatus \/ RecvFails \/ RecvClosed
    \/ StdinBytes \/ StdinClosed \/ ResizeArrives \/ ResizeClosed
    \/ Sent \/ SendFails

Next == Client \/ Abort \/ Server \/ start_message_loop

Spec == Init /\ [][Next]_vars

\* The task runs, the server reads, and the process exits once its output is taken.  A
\* client that took a reader reads it, until it drops it.
Fairness ==
    /\ WF_vars(start_message_loop)
    /\ \A s \in Output : WF_vars(ClientReads(s) /\ Client)
    /\ WF_vars(JoinReturns /\ Client)
    /\ WF_vars(ServerReads /\ Server)
    /\ WF_vars(Exits /\ Server)

FairSpec == Spec /\ Fairness

-----------------------------------------------------------------------------
Attached == {s \in Output : ends[s] # "absent"}

\* The output a client has got and can still get is what the process wrote, in order and
\* without gaps, on the stream it was written to: write_all resumes where it stopped.
OutputIntact ==
    \A s \in Attached :
      LET stream == got[s] \o pipe[s] \o (IF loop = s THEN message ELSE <<>>)
      IN stream = Bytes(s, 1, Len(stream))

\* Once the status was handed over the output is complete: a client that has read to the
\* end of its pipes after that misses nothing.
StatusMeansComplete ==
    status => \A s \in Attached : Len(got[s]) + Len(pipe[s]) = produced[s]

\* Nothing of the output is lost, reordered or late.
OutputIsComplete == OutputIntact /\ StatusMeansComplete

\* The server gets the input in order, and all of it before it is told of the end,
\* resizes and back pressure notwithstanding.
CloseAfterInput ==
    \/ \E n \in 0..written : sent = Bytes("stdin", 1, n)
    \/ sent = Append(Bytes("stdin", 1, written), Close)

\* "Waits for the remote command task to complete": join returns, if all attached output
\* was taken before.  (What was not taken lives on, unread, in the AttachedProcess that
\* join consumes, and blocks the task when its pipe is full.)
JoinEnds ==
    (handle = "joined" /\ \A s \in Attached : ends[s] # "handle") ~> (handle = "gone")
=============================================================================
