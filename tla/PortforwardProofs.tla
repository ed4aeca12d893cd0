-------------------------- MODULE PortforwardProofs -------------------------
(***************************************************************************)
(* Port forwarding, proved for any number of ports and all sizes of the    *)
(* channel and the pipes: what the pod gets on the channel of a port is    *)
(* what the client of that port wrote, complete and in order up to the     *)
(* Close, and the Close is sent once and last.                             *)
(***************************************************************************)
EXTENDS Portforward, SequenceTheorems, FiniteSetTheorems, TLAPS

-----------------------------------------------------------------------------
(* The inductive invariant                                                 *)

Data == [type : {"to_pod"}, port : Port, chunk : Nat]
Closing == [type : {"to_pod_close"}, port : Port]
Answers == [type : {"from_pod"}, ch : Channel \cup {2 * Ports}, is_port : BOOLEAN] \cup {FromPodClose}
Message == Data \cup Closing \cup Answers

TypeOK ==
    /\ client \in [Port -> {"untaken", "open", "shutdown", "dropped"}]
    /\ written \in [Port -> Nat] /\ reading \in [Port -> Nat]
    /\ frames \in Seq(Frame)
    /\ channel \in Seq(Message)
    /\ sent \in Seq(Data \cup {Close})
    /\ shutdown \in SUBSET Port /\ closed_ports \in Nat /\ socket_shutdown \in BOOLEAN

\* How many chunks to_pod_loop has read of the pipe: all, once it has returned
Read(p) == IF reading[p] = 0 THEN written[p] ELSE reading[p] - 1

\* What was sent is in order, and while the task runs what was read is sent or on its way
\* to the forwarder, in order too.
SentInOrder(p) == \A i \in DataOf(sent, p) : ChunksBefore(sent, p, i) = 1..(sent[i].chunk - 1)
QueuedInOrder(p) ==
    /\ \A i \in DataOf(channel, p) :
         Chunks(sent, p) \cup ChunksBefore(channel, p, i) = 1..(channel[i].chunk - 1)
    /\ Chunks(sent, p) \cup Chunks(channel, p) = 1..Read(p)
Ordered(p) == SentInOrder(p) /\ (task = "running" => QueuedInOrder(p))

\* A loop returns when its client writes no more; its last message is the one that closes
\* the port.
Finished(p) ==
    /\ reading[p] = 0 => client[p] \in {"shutdown", "dropped"}
    /\ \A i \in 1..Len(channel) : channel[i] = ToPodClose(p) =>
         reading[p] = 0 /\ \A j \in DataOf(channel, p) : j < i
    /\ p \in shutdown => reading[p] = 0 /\ DataOf(channel, p) = {}

\* The socket is closed after all ports were and all was sent, and then nothing is sent.
SocketLast ==
    /\ closed_ports = Cardinality(shutdown)
    /\ socket_shutdown => shutdown = Port /\ \A p \in Port : Chunks(sent, p) = 1..written[p]
    /\ \A i \in 1..Len(sent) : sent[i] = Close => socket_shutdown /\ i = Len(sent)

IInv == TypeOK /\ (\A p \in Port : Ordered(p) /\ Finished(p)) /\ SocketLast

-----------------------------------------------------------------------------
(* The chunks of a port in a sequence of messages                          *)

IsData(m, p) == m.type = "to_pod" /\ m.port = p
ChunkOf(m, p) == IF IsData(m, p) THEN {m.chunk} ELSE {}

\* t is s with m put at the end; t is s without its first message m.
Longer(t, s, m) == /\ Len(s) \in Nat /\ Len(t) = Len(s) + 1 /\ t[Len(s) + 1] = m
                   /\ \A i \in 1..Len(s) : t[i] = s[i]
Shorter(t, s, m) == /\ Len(s) \in Nat \ {0} /\ Len(t) = Len(s) - 1 /\ s[1] = m
                    /\ \A i \in 1..Len(t) : t[i] = s[i + 1]

\* What Append and Tail do
LEMMA AppendLonger ==
  ASSUME NEW T, NEW s \in Seq(T), NEW m \in T PROVE Longer(Append(s, m), s, m)
BY DEF Longer

\* The same for the first message taken
LEMMA TailShorter ==
  ASSUME NEW T, NEW s \in Seq(T), s # << >> PROVE Shorter(Tail(s), s, Head(s))
BY DEF Shorter

\* A message put at the end
LEMMA AppendChunks ==
  ASSUME NEW s, NEW m, NEW t, Longer(t, s, m), NEW p
  PROVE  /\ \A i \in DataOf(s, p) : /\ i \in DataOf(t, p) /\ t[i] = s[i]
                                    /\ ChunksBefore(t, p, i) = ChunksBefore(s, p, i)
         /\ \A i \in DataOf(t, p) :
              i \in DataOf(s, p) \/ (i = Len(s) + 1 /\ IsData(m, p) /\ t[i] = m)
         /\ ChunksBefore(t, p, Len(s) + 1) = Chunks(s, p)
         /\ Chunks(t, p) = Chunks(s, p) \cup ChunkOf(m, p)
<1> DEFINE n == Len(s)
<1>1. n \in Nat /\ Len(t) = n + 1 /\ t[n + 1] = m /\ \A i \in 1..n : t[i] = s[i]
  BY DEF Longer
<1>2. 1..(n + 1) = 1..n \cup {n + 1} /\ \A i \in 1..n : i < n + 1 /\ ~(n + 1 < i)
  BY <1>1
<1>3. DataOf(s, p) \subseteq 1..n
  BY DEF DataOf
<1>4. \A i : i \in DataOf(t, p) <=> i \in DataOf(s, p) \/ (i = n + 1 /\ IsData(m, p))
  BY <1>1, <1>2 DEF DataOf, IsData
<1>5. \A i \in 1..n : {k \in DataOf(t, p) : k < i} = {k \in DataOf(s, p) : k < i}
  BY <1>2, <1>4
<1>6. \A i \in 1..n : ChunksBefore(t, p, i) = ChunksBefore(s, p, i)
  BY <1>1, <1>3, <1>5 DEF ChunksBefore
<1>7. {k \in DataOf(t, p) : k < n + 1} = DataOf(s, p)
  BY <1>1, <1>2, <1>3, <1>4
<1>8. ChunksBefore(t, p, n + 1) = Chunks(s, p)
  BY <1>1, <1>3, <1>7 DEF ChunksBefore, Chunks
<1>9. Chunks(t, p) = Chunks(s, p) \cup ChunkOf(m, p)
  BY <1>1, <1>3, <1>4 DEF Chunks, ChunkOf
<1> QED
  BY <1>1, <1>3, <1>4, <1>6, <1>8, <1>9

\* The first message taken
LEMMA TailChunks ==
  ASSUME NEW s, NEW m, NEW t, Shorter(t, s, m), NEW p
  PROVE  /\ \A i \in DataOf(t, p) : /\ i + 1 \in DataOf(s, p) /\ t[i] = s[i + 1]
                                    /\ ChunksBefore(s, p, i + 1) = ChunkOf(m, p) \cup ChunksBefore(t, p, i)
         /\ IsData(m, p) => 1 \in DataOf(s, p)
         /\ Chunks(s, p) = ChunkOf(m, p) \cup Chunks(t, p)
<1> DEFINE n == Len(s)
           is == ChunkOf(m, p)
<1>1. n \in Nat \ {0} /\ Len(t) = n - 1 /\ m = s[1] /\ \A i \in 1..(n - 1) : t[i] = s[i + 1]
  BY DEF Shorter
<1>2. \A i \in 1..n : i = 1 \/ i - 1 \in 1..(n - 1)
  BY <1>1
<1>3. \A i \in 1..(n - 1) : i + 1 \in 1..n /\ i + 1 # 1
  BY <1>1
<1>4. DataOf(t, p) \subseteq 1..(n - 1) /\ DataOf(s, p) \subseteq 1..n
  BY <1>1 DEF DataOf
<1>5. \A i \in 1..(n - 1) : i \in DataOf(t, p) <=> i + 1 \in DataOf(s, p)
  BY <1>1, <1>3 DEF DataOf
<1>6. 1 \in DataOf(s, p) <=> IsData(m, p)
  BY <1>1 DEF DataOf, IsData
<1>7. \A j \in DataOf(s, p) : j = 1 \/ (j - 1 \in DataOf(t, p) /\ t[j - 1] = s[j])
  <2> TAKE j \in DataOf(s, p)
  <2>1. CASE j # 1
    <3>1. j - 1 \in 1..(n - 1) /\ (j - 1) + 1 = j
      BY <1>1, <1>2, <1>4, <2>1
    <3> QED
      BY <1>1, <1>5, <3>1
  <2> QED
    BY <2>1
<1>8. Chunks(s, p) = is \cup Chunks(t, p)
  <2>1. ASSUME NEW c \in Chunks(s, p) PROVE c \in is \cup Chunks(t, p)
    <3>1. PICK j \in DataOf(s, p) : c = s[j].chunk
      BY DEF Chunks
    <3> QED
      BY <1>1, <1>6, <1>7, <3>1 DEF Chunks, ChunkOf
  <2>2. ASSUME NEW c \in Chunks(t, p) PROVE c \in Chunks(s, p)
    <3>1. PICK j \in DataOf(t, p) : c = t[j].chunk
      BY DEF Chunks
    <3> QED
      BY <1>1, <1>4, <1>5, <3>1 DEF Chunks
  <2>3. is \subseteq Chunks(s, p)
    BY <1>1, <1>6 DEF Chunks, ChunkOf
  <2> QED
    BY <2>1, <2>2, <2>3
<1>9. ASSUME NEW i \in DataOf(t, p) PROVE ChunksBefore(s, p, i + 1) = is \cup ChunksBefore(t, p, i)
  <2>1. i \in 1..(n - 1)
    BY <1>4
  <2>2. ASSUME NEW c \in ChunksBefore(s, p, i + 1) PROVE c \in is \cup ChunksBefore(t, p, i)
    <3>1. PICK j \in DataOf(s, p) : j < i + 1 /\ c = s[j].chunk
      BY DEF ChunksBefore
    <3>2. j # 1 => j - 1 < i
      BY <1>1, <1>4, <2>1, <3>1
    <3> QED
      BY <1>1, <1>6, <1>7, <3>1, <3>2 DEF ChunksBefore, ChunkOf
  <2>3. ASSUME NEW c \in ChunksBefore(t, p, i) PROVE c \in ChunksBefore(s, p, i + 1)
    <3>1. PICK j \in DataOf(t, p) : j < i /\ c = t[j].chunk
      BY DEF ChunksBefore
    <3>2. j + 1 < i + 1 /\ j \in 1..(n - 1)
      BY <1>1, <1>4, <2>1, <3>1
    <3>3. j + 1 \in DataOf(s, p) /\ c = s[j + 1].chunk
      BY <1>1, <1>5, <3>1, <3>2
    <3> QED
      BY <3>2, <3>3 DEF ChunksBefore
  <2>4. is \subseteq ChunksBefore(s, p, i + 1)
    <3>1. 1 < i + 1
      BY <1>1, <2>1
    <3> QED
      BY <1>1, <1>6, <3>1 DEF ChunksBefore, ChunkOf
  <2> QED
    BY <2>2, <2>3, <2>4
<1> QED
  BY <1>1, <1>4, <1>5, <1>6, <1>8, <1>9

-----------------------------------------------------------------------------
(* The client, the server and the end of the task                          *)

\* The first states
LEMMA InitIInv == Init => IInv
<1> SUFFICES ASSUME Init PROVE IInv
  OBVIOUS
<1>1. TypeOK
  <2>1. /\ client \in [Port -> {"untaken", "open", "shutdown", "dropped"}]
        /\ written \in [Port -> Nat] /\ reading \in [Port -> Nat]
    BY DEF Init, Each
  <2>2. frames \in Seq(Frame) /\ channel \in Seq(Message) /\ sent \in Seq(Data \cup {Close})
    BY DEF Init
  <2> QED
    BY <2>1, <2>2 DEF Init, TypeOK
<1>2. Len(sent) = 0 /\ Len(channel) = 0 /\ 1..0 = {}
  BY DEF Init
<1>3. \A p : DataOf(sent, p) = {} /\ DataOf(channel, p) = {}
  BY <1>2 DEF DataOf
<1>4. \A p : Chunks(sent, p) = {} /\ Chunks(channel, p) = {}
  BY <1>3 DEF Chunks
<1>5. \A p \in Port : reading[p] = 1 /\ Read(p) = 0
  BY DEF Init, Each, Read
<1>6. Cardinality({}) = 0
  BY FS_EmptySet
<1>7. \A p \in Port : Ordered(p)
  <2> TAKE p \in Port
  <2>1. SentInOrder(p)
    BY <1>3 DEF SentInOrder
  <2>2. QueuedInOrder(p)
    BY <1>2, <1>3, <1>4, <1>5 DEF QueuedInOrder
  <2> QED
    BY <2>1, <2>2 DEF Ordered
<1>8. \A p \in Port : Finished(p)
  <2>1. shutdown = {}
    BY DEF Init
  <2> QED
    BY <1>2, <1>5, <2>1 DEF Finished
<1>9. SocketLast
  <2>1. shutdown = {} /\ closed_ports = 0 /\ socket_shutdown = FALSE
    BY DEF Init
  <2> QED
    BY <1>2, <1>6, <2>1 DEF SocketLast
<1> QED
  BY <1>1, <1>7, <1>8, <1>9 DEF IInv

\* Steps that touch neither the messages nor what was written
LEMMA OutsideInv ==
  ASSUME IInv, UNCHANGED <<written, reading, channel, sent, shutdown, closed_ports, socket_shutdown>>,
         client' \in [Port -> {"untaken", "open", "shutdown", "dropped"}], frames' \in Seq(Frame),
         \A p \in Port : client[p] \in {"shutdown", "dropped"} => client'[p] \in {"shutdown", "dropped"},
         task' = "running" => task = "running"
  PROVE  IInv'
<1>1. TypeOK'
  BY DEF IInv, TypeOK
<1>2. ASSUME NEW p \in Port PROVE Ordered(p)' /\ Finished(p)'
  <2>1. Ordered(p)'
    BY DEF IInv, Ordered, SentInOrder, QueuedInOrder, DataOf, Chunks, ChunksBefore, Read
  <2>2. Finished(p)'
    BY DEF IInv, Finished, DataOf
  <2> QED
    BY <2>1, <2>2
<1>3. SocketLast'
  BY DEF IInv, SocketLast, Chunks, DataOf
<1> QED
  BY <1>1, <1>2, <1>3 DEF IInv

\* The client writes only while its loop has not returned, so before the socket is closed.
LEMMA ClientWritesInv ==
  ASSUME IInv, NEW q \in Port, ClientWrites(q),
         UNCHANGED <<reading, channel, sent, shutdown, closed_ports, socket_shutdown, frames, task>>
  PROVE  IInv'
<1>1. client[q] = "open" /\ written' = [written EXCEPT ![q] = @ + 1] /\ UNCHANGED client
  BY DEF ClientWrites
<1>2. reading[q] # 0
  BY <1>1 DEF IInv, Finished
<1>3. \A p \in Port : Read(p)' = Read(p)
  BY <1>1, <1>2 DEF IInv, TypeOK, Read
<1>4. TypeOK'
  BY <1>1 DEF IInv, TypeOK
<1>5. ASSUME NEW p \in Port PROVE Ordered(p)' /\ Finished(p)'
  <2>1. Ordered(p)'
    BY <1>3 DEF IInv, Ordered, SentInOrder, QueuedInOrder, DataOf, Chunks, ChunksBefore
  <2>2. Finished(p)'
    BY <1>1 DEF IInv, Finished, DataOf
  <2> QED
    BY <2>1, <2>2
<1>6. ~socket_shutdown
  BY <1>2 DEF IInv, SocketLast, Finished
<1>7. SocketLast'
  BY <1>6 DEF IInv, SocketLast
<1> QED
  BY <1>4, <1>5, <1>7 DEF IInv

-----------------------------------------------------------------------------
(* to_pod_loop and from_pod_loop: a message goes to the end of the channel *)

\* A message that is no chunk of the port changes nothing for it.
LEMMA EnqueueOther ==
  ASSUME IInv, task = "running", NEW m \in Message, channel' = Append(channel, m), NEW p \in Port,
         ~IsData(m, p), Read(p)' = Read(p), UNCHANGED sent
  PROVE  Ordered(p)' /\ DataOf(channel', p) = DataOf(channel, p)
<1>1. channel \in Seq(Message) /\ QueuedInOrder(p)
  BY DEF IInv, TypeOK, Ordered
<1>2. /\ \A i \in DataOf(channel, p) : /\ i \in DataOf(channel', p) /\ channel'[i] = channel[i]
                                       /\ ChunksBefore(channel', p, i) = ChunksBefore(channel, p, i)
      /\ DataOf(channel', p) = DataOf(channel, p) /\ Chunks(channel', p) = Chunks(channel, p)
  <2>1. Longer(channel', channel, m)
    BY <1>1, AppendLonger
  <2>2. Chunks(channel', p) = Chunks(channel, p) \cup ChunkOf(m, p) /\ ChunkOf(m, p) = {}
    BY <2>1, AppendChunks DEF ChunkOf
  <2>3. /\ \A i \in DataOf(channel, p) : /\ i \in DataOf(channel', p) /\ channel'[i] = channel[i]
                                         /\ ChunksBefore(channel', p, i) = ChunksBefore(channel, p, i)
        /\ \A i \in DataOf(channel', p) : i \in DataOf(channel, p)
    <3>1. ~IsData(m, p)
      OBVIOUS
    <3> QED
      BY ONLY <2>1, <3>1, AppendChunks
  <2> QED
    BY <2>2, <2>3
<1>3. Chunks(sent', p) = Chunks(sent, p) /\ SentInOrder(p)'
  BY DEF IInv, Ordered, SentInOrder, DataOf, Chunks, ChunksBefore
<1>4. QueuedInOrder(p)'
  BY <1>1, <1>2, <1>3 DEF QueuedInOrder
<1> QED
  BY <1>2, <1>3, <1>4 DEF Ordered

\* Nor does one that does not close it change when it is finished.
LEMMA EnqueueFinished ==
  ASSUME IInv, NEW m \in Message, channel' = Append(channel, m), NEW p \in Port,
         m # ToPodClose(p), DataOf(channel', p) = DataOf(channel, p), reading'[p] = reading[p],
         UNCHANGED <<client, shutdown>>
  PROVE  Finished(p)'
<1>1. channel \in Seq(Message)
  BY DEF IInv, TypeOK
<1>2. \A i \in 1..Len(channel') : channel'[i] = ToPodClose(p) =>
         i \in 1..Len(channel) /\ channel[i] = ToPodClose(p)
  BY <1>1
<1> QED
  BY <1>2 DEF IInv, Finished

\* A chunk is read: the next one of its port.
LEMMA ToPodReadsInv ==
  ASSUME IInv, task = "running", NEW q \in Port, ToPodReads(q),
         UNCHANGED <<client, written, frames, sent, shutdown, closed_ports, socket_shutdown, task>>
  PROVE  IInv'
<1> DEFINE m == ToPod(q, reading[q])
<1>1. /\ reading[q] \in 1..written[q] /\ channel' = Append(channel, m)
      /\ reading' = [reading EXCEPT ![q] = @ + 1]
  BY DEF ToPodReads, Send
<1>2. reading \in [Port -> Nat] /\ written \in [Port -> Nat] /\ channel \in Seq(Message)
  BY DEF IInv, TypeOK
<1>3. reading[q] \in Nat \ {0} /\ reading'[q] = reading[q] + 1 /\ reading'[q] # 0
  BY <1>1, <1>2
<1>4. m \in Message /\ m.type = "to_pod" /\ m.port = q /\ m.chunk = reading[q]
  BY <1>3 DEF ToPod, Message, Data
<1> HIDE DEF m
<1>5. TypeOK'
  <2>1. channel' \in Seq(Message)
    BY <1>1, <1>2, <1>4
  <2>2. reading' \in [Port -> Nat]
    BY <1>1, <1>2, <1>3
  <2> QED
    BY <2>1, <2>2 DEF IInv, TypeOK
<1>6. ASSUME NEW p \in Port PROVE Ordered(p)' /\ Finished(p)'
  <2>1. /\ \A i \in DataOf(channel, p) : /\ i \in DataOf(channel', p) /\ channel'[i] = channel[i]
                                         /\ ChunksBefore(channel', p, i) = ChunksBefore(channel, p, i)
        /\ \A i \in DataOf(channel', p) :
             i \in DataOf(channel, p) \/ (i = Len(channel) + 1 /\ channel'[i] = m)
        /\ ChunksBefore(channel', p, Len(channel) + 1) = Chunks(channel, p)
        /\ p = q => Chunks(channel', p) = Chunks(channel, p) \cup {reading[q]}
    <3>1. Longer(channel', channel, m)
      BY <1>1, <1>2, <1>4, AppendLonger
    <3> QED
      BY <1>4, <3>1, AppendChunks DEF ChunkOf, IsData
  <2>2. QueuedInOrder(p)
    BY DEF IInv, Ordered
  <2>3. Chunks(sent', p) = Chunks(sent, p) /\ SentInOrder(p)'
    BY DEF IInv, Ordered, SentInOrder, DataOf, Chunks, ChunksBefore
  <2>4. CASE p = q
    <3>1. Read(p) = reading[q] - 1 /\ Read(p)' = reading[q]
      BY <1>3, <1>4, <2>4 DEF Read
    <3>2. 1..reading[q] = 1..(reading[q] - 1) \cup {reading[q]}
      BY <1>3
    <3>3. Chunks(sent', p) \cup Chunks(channel', p) = 1..Read(p)'
      BY <2>1, <2>2, <2>3, <2>4, <3>1, <3>2 DEF QueuedInOrder
    <3>4. ASSUME NEW i \in DataOf(channel', p)
          PROVE  Chunks(sent', p) \cup ChunksBefore(channel', p, i) = 1..(channel'[i].chunk - 1)
      <4>1. CASE i \in DataOf(channel, p)
        BY <2>1, <2>2, <2>3, <4>1 DEF QueuedInOrder
      <4>2. CASE i = Len(channel) + 1 /\ channel'[i] = m
        BY <1>4, <2>1, <2>2, <2>3, <3>1, <4>2 DEF QueuedInOrder
      <4> QED
        BY <2>1, <4>1, <4>2
    <3>5. QueuedInOrder(p)'
      BY <3>3, <3>4 DEF QueuedInOrder
    <3>6. Finished(p)'
      <4>1. \A i \in 1..Len(channel') : channel'[i] # ToPodClose(p)
        <5>1. \A i \in 1..Len(channel) : channel[i] # ToPodClose(p)
          BY <1>3, <2>4 DEF IInv, Finished
        <5>2. m # ToPodClose(p)
          BY <1>4 DEF ToPodClose
        <5> QED
          BY <1>1, <1>2, <1>4, <5>1, <5>2
      <4>2. p \notin shutdown
        BY <1>3, <2>4 DEF IInv, Finished
      <4> QED
        BY <1>3, <2>4, <4>1, <4>2 DEF Finished
    <3> QED
      BY <2>3, <3>5, <3>6 DEF Ordered
  <2>5. CASE p # q
    <3>1. reading'[p] = reading[p] /\ Read(p)' = Read(p) /\ m # ToPodClose(p)
      BY <1>1, <1>2, <1>4, <2>5 DEF Read, ToPodClose
    <3>2. Ordered(p)' /\ DataOf(channel', p) = DataOf(channel, p)
      BY <1>1, <1>4, <2>5, <3>1, EnqueueOther DEF IsData
    <3> QED
      BY <1>1, <1>4, <3>1, <3>2, EnqueueFinished
  <2> QED
    BY <2>4, <2>5
<1>7. SocketLast'
  BY DEF IInv, SocketLast, Chunks, DataOf
<1> QED
  BY <1>5, <1>6, <1>7 DEF IInv

\* The pipe is at its end: all its chunks were read, and the port's last message follows.
LEMMA ToPodEndsInv ==
  ASSUME IInv, task = "running", NEW q \in Port, ToPodEnds(q),
         UNCHANGED <<client, written, frames, sent, shutdown, closed_ports, socket_shutdown, task>>
  PROVE  IInv'
<1> DEFINE m == ToPodClose(q)
<1>1. /\ reading[q] = written[q] + 1 /\ channel' = Append(channel, m)
      /\ client[q] \in {"shutdown", "dropped"}
      /\ reading' = [reading EXCEPT ![q] = 0]
  BY DEF ToPodEnds, Send
<1>2. reading \in [Port -> Nat] /\ written \in [Port -> Nat] /\ channel \in Seq(Message)
  BY DEF IInv, TypeOK
<1>3. reading[q] # 0 /\ reading'[q] = 0 /\ \A p \in Port : p # q => reading'[p] = reading[p]
  BY <1>1, <1>2
<1>4. m \in Message /\ m.type = "to_pod_close" /\ m.port = q
  BY DEF ToPodClose, Message, Closing
<1>5. \A p \in Port : Read(p)' = Read(p)
  BY <1>1, <1>2, <1>3 DEF Read
<1>6. TypeOK'
  <2>1. channel' \in Seq(Message)
    BY <1>1, <1>2, <1>4
  <2>2. reading' \in [Port -> Nat]
    BY <1>1, <1>2
  <2> QED
    BY <2>1, <2>2 DEF IInv, TypeOK
<1>7. ASSUME NEW p \in Port PROVE Ordered(p)' /\ Finished(p)'
  <2>1. Ordered(p)' /\ DataOf(channel', p) = DataOf(channel, p)
    BY <1>1, <1>4, <1>5, EnqueueOther DEF IsData
  <2>2. CASE p = q
    <3>1. p \notin shutdown /\ \A i \in 1..Len(channel) : channel[i] # ToPodClose(p)
      BY <1>3, <2>2 DEF IInv, Finished
    <3>2. \A i \in 1..Len(channel') : channel'[i] = ToPodClose(p) => i = Len(channel) + 1
      BY <1>1, <1>2, <1>4, <3>1
    <3>3. \A j \in DataOf(channel', p) : j < Len(channel) + 1
      BY <1>2, <2>1 DEF DataOf
    <3> QED
      BY <1>1, <1>3, <2>1, <2>2, <3>1, <3>2, <3>3 DEF Finished
  <2>3. CASE p # q
    <3>1. m # ToPodClose(p)
      BY <2>3 DEF ToPodClose
    <3> QED
      BY <1>1, <1>3, <1>4, <2>1, <2>3, <3>1, EnqueueFinished
  <2> QED
    BY <2>1, <2>2, <2>3
<1>8. SocketLast'
  BY DEF IInv, SocketLast, Chunks, DataOf
<1> QED
  BY <1>6, <1>7, <1>8 DEF IInv

\* What comes from the pod is no chunk and closes no port.
LEMMA FromPodLoopInv ==
  ASSUME IInv, from_pod_loop PROVE IInv'
<1> DEFINE m == IF Head(frames) = Close THEN FromPodClose ELSE FromPod(Head(frames))
<1>1. /\ task = "running" /\ channel' = Append(channel, m) /\ frames # << >> /\ frames' = Tail(frames)
      /\ UNCHANGED <<client, written, reading, sent, shutdown, closed_ports, socket_shutdown, task>>
  BY DEF from_pod_loop, Send, clientVars, forwarderVars
<1>2. channel \in Seq(Message) /\ frames \in Seq(Frame)
  BY DEF IInv, TypeOK
<1>3. Head(frames) \in Frame /\ Tail(frames) \in Seq(Frame)
  BY <1>1, <1>2
<1>4. m \in Answers /\ m.type \in {"from_pod", "from_pod_close"}
  BY <1>3 DEF Frame, Answers, FromPod, FromPodClose
<1> HIDE DEF m
<1>5. m \in Message /\ \A p : m # ToPodClose(p)
  BY <1>4 DEF Message, ToPodClose
<1>6. TypeOK'
  <2>1. channel' \in Seq(Message)
    BY <1>1, <1>2, <1>5
  <2> QED
    BY <1>1, <1>3, <2>1 DEF IInv, TypeOK
<1>7. ASSUME NEW p \in Port PROVE Ordered(p)' /\ Finished(p)'
  <2>1. Read(p)' = Read(p)
    BY <1>1 DEF Read
  <2>2. Ordered(p)' /\ DataOf(channel', p) = DataOf(channel, p)
    BY <1>1, <1>4, <1>5, <2>1, EnqueueOther DEF IsData
  <2> QED
    BY <1>1, <1>5, <2>2, EnqueueFinished
<1>8. SocketLast'
  BY <1>1 DEF IInv, SocketLast, Chunks, DataOf
<1> QED
  BY <1>6, <1>7, <1>8 DEF IInv

-----------------------------------------------------------------------------
(* forwarder_loop: the first message of the channel is taken               *)

\* The steps of the forwarder that send no chunk: of the messages that are none, or
\* when the task fails.  With the last port closed the socket is too.
Taken == /\ task = "running" /\ channel # << >> /\ channel' = Tail(channel)
         /\ UNCHANGED <<client, written, reading, frames>>
Quiet == \/ UNCHANGED <<sent, socket_shutdown>>
         \/ /\ sent' = Append(sent, Close) /\ ~socket_shutdown /\ socket_shutdown'
            /\ closed_ports' = Ports /\ \A p \in Port : ~IsData(Head(channel), p)

\* The counter of closed ports tells when all are.
LEMMA AllPorts ==
  ASSUME NEW S \in SUBSET Port, Cardinality(S) = Ports PROVE S = Port
<1>1. Ports \in Nat \ {0}
  BY PortforwardAssumption
<1>2. IsFiniteSet(Port) /\ Cardinality(Port) = Ports
  BY <1>1, FS_Interval DEF Port
<1> QED
  BY <1>2, FS_Subset

\* The channel after the step
LEMMA TakenChannel ==
  ASSUME IInv, Taken
  PROVE  /\ Shorter(channel', channel, Head(channel)) /\ channel' \in Seq(Message)
         /\ Head(channel) \in Message
<1>1. channel \in Seq(Message) /\ channel # << >> /\ channel' = Tail(channel)
  BY DEF IInv, TypeOK, Taken
<1> QED
  BY <1>1, TailShorter

\* A port is shut down by its last message, so no chunk of it is left.
LEMMA TakenFinished ==
  ASSUME IInv, Taken, NEW p \in Port, p \in shutdown' => p \in shutdown \/ Head(channel) = ToPodClose(p)
  PROVE  Finished(p)'
<1> DEFINE n == Len(channel)
<1>1. /\ n \in Nat \ {0} /\ Len(channel') = n - 1 /\ channel[1] = Head(channel)
      /\ \A i \in 1..(n - 1) : i + 1 \in 1..n /\ channel'[i] = channel[i + 1]
  BY TakenChannel DEF Shorter
<1>2. \A i \in DataOf(channel', p) : i \in 1..(n - 1) /\ i + 1 \in DataOf(channel, p)
  BY <1>1, TakenChannel, TailChunks DEF DataOf
<1>3. UNCHANGED <<client, reading>> /\ Finished(p)
  BY DEF Taken, IInv
<1>4. ASSUME NEW i \in 1..(n - 1), channel'[i] = ToPodClose(p)
      PROVE  reading[p] = 0 /\ \A j \in DataOf(channel', p) : j < i
  <2>1. reading[p] = 0 /\ \A j \in DataOf(channel, p) : j < i + 1
    BY <1>1, <1>3, <1>4 DEF Finished
  <2>2. ASSUME NEW j \in DataOf(channel', p) PROVE j < i
    <3>1. j \in 1..(n - 1) /\ j + 1 < i + 1
      BY <1>2, <2>1
    <3> QED
      BY <1>1, <3>1
  <2> QED
    BY <2>1, <2>2
<1>5. ASSUME p \in shutdown' PROVE reading[p] = 0 /\ DataOf(channel', p) = {}
  <2>1. CASE p \in shutdown
    BY <1>2, <1>3, <2>1 DEF Finished
  <2>2. CASE Head(channel) = ToPodClose(p)
    <3>1. reading[p] = 0 /\ \A j \in DataOf(channel, p) : j < 1
      BY <1>1, <1>3, <2>2 DEF Finished
    <3>2. \A j \in DataOf(channel', p) : j \in 1..(n - 1) /\ j + 1 < 1
      BY <1>2, <3>1
    <3> QED
      BY <1>1, <3>1, <3>2
  <2> QED
    BY <1>5, <2>1, <2>2
<1> QED
  BY <1>1, <1>3, <1>4, <1>5 DEF Finished

\* Taking a message that is no chunk of a port leaves the port's chunks in their order.
LEMMA TakenOther ==
  ASSUME IInv, Taken, NEW p \in Port, ~IsData(Head(channel), p)
  PROVE  /\ \A i \in DataOf(channel', p) :
              Chunks(sent, p) \cup ChunksBefore(channel', p, i) = 1..(channel'[i].chunk - 1)
         /\ Chunks(sent, p) \cup Chunks(channel', p) = 1..Read(p)
<1>1. QueuedInOrder(p)
  BY DEF IInv, Ordered, Taken
<1>2. Shorter(channel', channel, Head(channel)) /\ ChunkOf(Head(channel), p) = {}
  BY TakenChannel DEF ChunkOf
<1>3. /\ \A i \in DataOf(channel', p) : /\ i + 1 \in DataOf(channel, p) /\ channel'[i] = channel[i + 1]
                                        /\ ChunksBefore(channel, p, i + 1) = {} \cup ChunksBefore(channel', p, i)
      /\ Chunks(channel, p) = {} \cup Chunks(channel', p)
  BY ONLY <1>2, TailChunks
<1> QED
  BY ONLY <1>1, <1>3 DEF QueuedInOrder

\* The Close is no chunk.
LEMMA QuietSent ==
  ASSUME IInv, Quiet, NEW p \in Port
  PROVE  SentInOrder(p)' /\ Chunks(sent', p) = Chunks(sent, p)
<1>1. SentInOrder(p) /\ sent \in Seq(Data \cup {Close})
  BY DEF IInv, Ordered, TypeOK
<1>2. CASE UNCHANGED sent
  BY <1>1, <1>2 DEF SentInOrder, DataOf, Chunks, ChunksBefore
<1>3. CASE sent' = Append(sent, Close)
  <2>1. Longer(sent', sent, Close)
    BY <1>1, <1>3, AppendLonger
  <2>2. ~IsData(Close, p) /\ ChunkOf(Close, p) = {}
    BY DEF IsData, ChunkOf, Close
  <2>3. /\ \A i \in DataOf(sent, p) : /\ i \in DataOf(sent', p) /\ sent'[i] = sent[i]
                                      /\ ChunksBefore(sent', p, i) = ChunksBefore(sent, p, i)
        /\ \A i \in DataOf(sent', p) : i \in DataOf(sent, p)
    BY ONLY <2>1, <2>2, AppendChunks
  <2>4. Chunks(sent', p) = Chunks(sent, p) \cup ChunkOf(Close, p)
    BY ONLY <2>1, AppendChunks
  <2> QED
    BY ONLY <1>1, <2>2, <2>3, <2>4 DEF SentInOrder
<1> QED
  BY <1>2, <1>3 DEF Quiet

\* A step that sends no chunk keeps the invariant: the Close it may send comes after all
\* chunks, since every port is shut down.
LEMMA QuietInv ==
  ASSUME IInv, Taken, Quiet,
         shutdown' \in SUBSET Port, shutdown \subseteq shutdown', closed_ports' = Cardinality(shutdown'),
         \A p \in shutdown' : p \in shutdown \/ Head(channel) = ToPodClose(p),
         task' = "running" => \A p \in Port : ~IsData(Head(channel), p)
  PROVE  IInv'
<1>1. \A p \in Port : Finished(p)'
  BY TakenFinished
<1>2. \A p \in Port : Read(p)' = Read(p)
  BY DEF Taken, Read
<1>3. \A p \in Port : Ordered(p)'
  BY <1>2, TakenOther, QuietSent DEF Ordered, QueuedInOrder
<1>4. sent \in Seq(Data \cup {Close}) /\ Close \in Data \cup {Close}
  BY DEF IInv, TypeOK
<1>5. TypeOK'
  <2>1. sent' \in Seq(Data \cup {Close}) /\ socket_shutdown' \in BOOLEAN
    <3>1. CASE UNCHANGED <<sent, socket_shutdown>>
      BY <3>1 DEF IInv, TypeOK
    <3>2. CASE sent' = Append(sent, Close) /\ socket_shutdown' = TRUE
      BY <1>4, <3>2
    <3>3. socket_shutdown' => socket_shutdown' = TRUE
      OBVIOUS
    <3> QED
      BY <3>1, <3>2, <3>3 DEF Quiet
  <2>2. closed_ports' \in Nat
    <3>1. IsFiniteSet(Port)
      BY PortforwardAssumption, FS_Interval DEF Port
    <3> QED
      BY <3>1, FS_Subset, FS_CardinalityType
  <2> QED
    BY <2>1, <2>2, TakenChannel DEF IInv, TypeOK, Taken
<1>6. SocketLast'
  <2>1. CASE UNCHANGED <<sent, socket_shutdown>>
    <3>1. socket_shutdown' => shutdown' = Port /\ \A p \in Port : Chunks(sent', p) = 1..written'[p]
      BY <2>1, QuietSent DEF IInv, SocketLast, Taken
    <3>2. \A i \in 1..Len(sent') : sent'[i] = Close => socket_shutdown' /\ i = Len(sent')
      BY <2>1 DEF IInv, SocketLast
    <3> QED
      BY <3>1, <3>2 DEF SocketLast
  <2>2. CASE /\ sent' = Append(sent, Close) /\ ~socket_shutdown /\ socket_shutdown'
             /\ closed_ports' = Ports /\ \A p \in Port : ~IsData(Head(channel), p)
    <3>1. shutdown' = Port
      BY <2>2, AllPorts
    <3>2. ASSUME NEW p \in Port PROVE Chunks(sent', p) = 1..written'[p]
      <4>1. reading[p] = 0 /\ DataOf(channel', p) = {} /\ written' = written
        BY <1>1, <3>1 DEF Finished, Taken
      <4>2. Chunks(sent, p) \cup Chunks(channel', p) = 1..written[p]
        BY <2>2, <4>1, TakenOther DEF Read
      <4>3. Chunks(channel', p) = {}
        BY <4>1 DEF Chunks
      <4> QED
        BY <4>1, <4>2, <4>3, QuietSent
    <3>3. \A i \in 1..Len(sent) : sent[i] # Close
      BY <2>2 DEF IInv, SocketLast
    <3>4. \A i \in 1..Len(sent') : sent'[i] = Close => i = Len(sent')
      BY <1>4, <2>2, <3>3
    <3> QED
      BY <2>2, <3>1, <3>2, <3>4 DEF SocketLast
  <2> QED
    BY <2>1, <2>2 DEF Quiet
<1> QED
  BY <1>1, <1>3, <1>5, <1>6 DEF IInv

\* A chunk is sent: the next one of its port, which is not shut down, nor is the socket.
LEMMA ChunkInv ==
  ASSUME IInv, Taken, Head(channel).type = "to_pod", sent' = Append(sent, Head(channel)),
         UNCHANGED <<shutdown, closed_ports, socket_shutdown>>, ~socket_shutdown
  PROVE  IInv'
<1> DEFINE m == Head(channel)
<1>1. m \in Message /\ Shorter(channel', channel, m) /\ channel' \in Seq(Message)
  BY TakenChannel
<1>2. m \in Data
  BY <1>1 DEF Message, Data, Closing, Answers, FromPodClose
<1>3. m.port \in Port /\ m.chunk \in Nat /\ m # Close
  BY <1>2 DEF Data, Close
<1>4. sent \in Seq(Data \cup {Close}) /\ m \in Data \cup {Close} /\ sent' = Append(sent, m)
  BY <1>2 DEF IInv, TypeOK
<1>5. Longer(sent', sent, m)
  BY <1>4, AppendLonger
<1>6. sent' \in Seq(Data \cup {Close})
  BY <1>4
<1>7. \A p \in Port : p \in shutdown' => p \in shutdown
  OBVIOUS
<1>8. task = "running" /\ UNCHANGED <<client, written, reading, frames>>
  BY DEF Taken
<1>9. TypeOK'
  BY <1>1, <1>6, <1>8 DEF IInv, TypeOK
<1>10. \A p \in Port : Finished(p)'
  BY <1>7, TakenFinished
<1>11. ASSUME NEW p \in Port PROVE Ordered(p)'
  <2>1. SentInOrder(p) /\ QueuedInOrder(p) /\ Read(p)' = Read(p)
    BY <1>8 DEF IInv, Ordered, Read
  <2>2. IsData(m, p) \in BOOLEAN /\ (IsData(m, p) => ChunkOf(m, p) = {m.chunk})
    BY DEF IsData, ChunkOf
  <2> HIDE DEF m
  <2>3. /\ \A i \in DataOf(channel', p) :
             /\ i + 1 \in DataOf(channel, p) /\ channel'[i] = channel[i + 1]
             /\ ChunksBefore(channel, p, i + 1) = ChunkOf(m, p) \cup ChunksBefore(channel', p, i)
        /\ IsData(m, p) => 1 \in DataOf(channel, p)
        /\ Chunks(channel, p) = ChunkOf(m, p) \cup Chunks(channel', p)
    BY ONLY <1>1, TailChunks
  <2>4. /\ \A i \in DataOf(sent, p) : /\ i \in DataOf(sent', p) /\ sent'[i] = sent[i]
                                      /\ ChunksBefore(sent', p, i) = ChunksBefore(sent, p, i)
        /\ \A i \in DataOf(sent', p) :
             i \in DataOf(sent, p) \/ (i = Len(sent) + 1 /\ IsData(m, p) /\ sent'[i] = m)
    BY ONLY <1>5, AppendChunks
  <2>5. /\ ChunksBefore(sent', p, Len(sent) + 1) = Chunks(sent, p)
        /\ Chunks(sent', p) = Chunks(sent, p) \cup ChunkOf(m, p)
    BY ONLY <1>5, AppendChunks
  <2>6. IsData(m, p) => Chunks(sent, p) = 1..(m.chunk - 1)
    <3>1. SUFFICES ASSUME IsData(m, p) PROVE Chunks(sent, p) = 1..(m.chunk - 1)
      BY <2>2
    <3>2. Chunks(sent, p) \cup ChunksBefore(channel, p, 1) = 1..(channel[1].chunk - 1)
      BY <2>1, <2>3, <3>1 DEF QueuedInOrder
    <3>3. channel[1] = m
      BY <1>1 DEF Shorter
    <3>4. ChunksBefore(channel, p, 1) = {}
      <4>1. DataOf(channel, p) \subseteq 1..Len(channel) /\ Len(channel) \in Nat
        BY <1>1 DEF DataOf, Shorter
      <4>2. {k \in DataOf(channel, p) : k < 1} = {}
        BY <4>1
      <4> QED
        BY <4>2 DEF ChunksBefore
    <3> QED
      BY <3>2, <3>3, <3>4
  <2>7. SentInOrder(p)'
    BY ONLY <2>1, <2>4, <2>5, <2>6 DEF SentInOrder
  <2>8. QueuedInOrder(p)'
    <3>1. ASSUME NEW i \in DataOf(channel', p)
          PROVE  Chunks(sent', p) \cup ChunksBefore(channel', p, i) = 1..(channel'[i].chunk - 1)
      <4>1. Chunks(sent, p) \cup ChunksBefore(channel, p, i + 1) = 1..(channel[i + 1].chunk - 1)
        BY ONLY <2>1, <2>3, <3>1 DEF QueuedInOrder
      <4> QED
        BY ONLY <2>3, <2>5, <3>1, <4>1
    <3>2. Chunks(sent', p) \cup Chunks(channel', p) = 1..Read(p)'
      BY ONLY <2>1, <2>3, <2>5 DEF QueuedInOrder
    <3> QED
      BY ONLY <3>1, <3>2 DEF QueuedInOrder
  <2> QED
    BY <2>7, <2>8 DEF Ordered
<1>12. SocketLast'
  <2>1. \A i \in 1..Len(sent) : sent[i] # Close
    BY DEF IInv, SocketLast
  <2>2. \A i \in 1..Len(sent') : sent'[i] # Close
    <3> HIDE DEF m
    <3> QED
      BY ONLY <1>3, <1>5, <2>1 DEF Longer
  <2> QED
    BY <2>2 DEF IInv, SocketLast
<1> QED
  BY <1>9, <1>10, <1>11, <1>12 DEF IInv

\* Finish, of a message that sends nothing itself
LEMMA FinishQuiet ==
  ASSUME IInv, Finish(<< >>), \A p \in Port : ~IsData(Head(channel), p) PROVE Quiet
<1>1. sent \in Seq(Data \cup {Close})
  BY DEF IInv, TypeOK
<1>2. sent \o << >> = sent /\ sent \o <<Close>> = Append(sent, Close)
  BY <1>1
<1>3. CASE CloseSocket
  BY <1>2, <1>3 DEF Finish, CloseSocket, Quiet
<1>4. CASE ~CloseSocket
  <2>1. socket_shutdown' = socket_shutdown
    BY <1>4, Zenon DEF Finish, IInv, TypeOK
  <2>2. sent' = sent
    BY <1>2, <1>4 DEF Finish
  <2> QED
    BY <2>1, <2>2 DEF Quiet
<1> QED
  BY <1>3, <1>4

\* A message that is no chunk and closes no port
LEMMA KeptShutdown ==
  ASSUME IInv, Taken, Quiet, UNCHANGED <<shutdown, closed_ports>>,
         task' = "running" => \A p \in Port : ~IsData(Head(channel), p)
  PROVE  IInv'
<1>1. shutdown' \in SUBSET Port /\ shutdown \subseteq shutdown' /\ closed_ports' = Cardinality(shutdown')
  BY DEF IInv, TypeOK, SocketLast
<1>2. \A p \in shutdown' : p \in shutdown \/ Head(channel) = ToPodClose(p)
  OBVIOUS
<1> QED
  BY <1>1, <1>2, QuietInv

\* A port that closes is counted once.
LEMMA PortCloseInv ==
  ASSUME IInv, Taken, ForwardToPodClose(Head(channel)) PROVE IInv'
<1> DEFINE m == Head(channel)
<1>1. /\ m.type = "to_pod_close" /\ shutdown' = shutdown \cup {m.port}
      /\ closed_ports' = closed_ports + (IF m.port \in shutdown THEN 0 ELSE 1) /\ Finish(<< >>)
  BY DEF ForwardToPodClose
<1>2. m \in Closing
  BY <1>1, TakenChannel DEF Message, Data, Closing, Answers, FromPodClose
<1>3. m.port \in Port /\ m = ToPodClose(m.port)
  BY <1>2 DEF Closing, ToPodClose
<1>4. \A p \in Port : ~IsData(m, p)
  BY <1>1 DEF IsData
<1>5. shutdown \in SUBSET Port /\ closed_ports = Cardinality(shutdown)
  BY DEF IInv, TypeOK, SocketLast
<1>6. IsFiniteSet(shutdown)
  <2>1. IsFiniteSet(Port)
    BY PortforwardAssumption, FS_Interval DEF Port
  <2> QED
    BY <1>5, <2>1, FS_Subset
<1> HIDE DEF m
<1>7. closed_ports' = Cardinality(shutdown')
  <2>1. Cardinality(shutdown) \in Nat
    BY <1>6, FS_CardinalityType
  <2>2. CASE m.port \in shutdown
    <3>1. shutdown' = shutdown
      BY <1>1, <2>2
    <3>2. closed_ports' = closed_ports
      BY <1>1, <1>5, <2>1, <2>2
    <3> QED
      BY <1>5, <3>1, <3>2
  <2>3. CASE m.port \notin shutdown
    <3>1. Cardinality(shutdown \cup {m.port}) = Cardinality(shutdown) + 1
      BY <1>6, <2>3, FS_AddElement
    <3> QED
      BY <1>1, <1>5, <2>3, <3>1
  <2> QED
    BY <2>2, <2>3
<1>8. /\ shutdown' \in SUBSET Port /\ shutdown \subseteq shutdown'
      /\ \A p \in shutdown' : p \in shutdown \/ m = ToPodClose(p)
  BY <1>1, <1>3, <1>5
<1>9. Quiet
  BY <1>1, <1>4, FinishQuiet DEF m
<1> QED
  BY <1>4, <1>7, <1>8, <1>9, QuietInv DEF m

\* While chunks of a port are on their way not all ports are closed.
LEMMA SendInv ==
  ASSUME IInv, Taken, ForwardToPod(Head(channel)) PROVE IInv'
<1> DEFINE m == Head(channel)
<1>1. m.type = "to_pod"
  BY DEF ForwardToPod
<1>2. CASE task' = "err" /\ UNCHANGED forwarderVars
  <2>1. UNCHANGED <<shutdown, closed_ports>> /\ Quiet
    BY <1>2 DEF forwarderVars, Quiet
  <2>2. task' # "running"
    BY <1>2
  <2> QED
    BY <2>1, <2>2, KeptShutdown
<1>3. CASE UNCHANGED <<shutdown, closed_ports>> /\ Finish(<<m>>)
  <2>1. m \in Data /\ Shorter(channel', channel, m)
    BY <1>1, TakenChannel DEF Message, Data, Closing, Answers, FromPodClose
  <2>2. m.port \in Port /\ IsData(m, m.port)
    BY <1>1, <2>1 DEF Data, IsData
  <2>3. 1 \in DataOf(channel, m.port)
    <3> HIDE DEF m
    <3> QED
      BY ONLY <2>1, <2>2, TailChunks
  <2>4. m.port \notin shutdown
    BY <2>2, <2>3 DEF IInv, Finished
  <2>5. shutdown \in SUBSET Port /\ closed_ports = Cardinality(shutdown) /\ (socket_shutdown => shutdown = Port)
    BY DEF IInv, TypeOK, SocketLast
  <2>6. closed_ports' # Ports /\ ~socket_shutdown
    BY <1>3, <2>2, <2>4, <2>5, AllPorts
  <2>7. sent' = Append(sent, m)
    <3>1. sent \in Seq(Data \cup {Close}) /\ m \in Data \cup {Close}
      BY <2>1 DEF IInv, TypeOK
    <3>2. sent' = sent \o <<m>> \o << >>
      BY <1>3, <2>6 DEF Finish, CloseSocket
    <3> HIDE DEF m
    <3> QED
      BY ONLY <3>1, <3>2
  <2>8. socket_shutdown' = socket_shutdown
    BY <1>3, <2>6, Zenon DEF Finish, CloseSocket, IInv, TypeOK
  <2> QED
    BY <1>1, <1>3, <2>6, <2>7, <2>8, ChunkInv
<1> QED
  BY <1>2, <1>3 DEF ForwardToPod, Fails

\* Every step of the forwarder
LEMMA ForwarderInv ==
  ASSUME IInv, forwarder_loop PROVE IInv'
<1> DEFINE m == Head(channel)
<1>1. Taken
  BY DEF forwarder_loop, Taken, clientVars, serverVars
<1>2. CASE task' = "err" /\ UNCHANGED forwarderVars
  <2>1. UNCHANGED <<shutdown, closed_ports>> /\ Quiet
    BY <1>2 DEF forwarderVars, Quiet
  <2>2. task' # "running"
    BY <1>2
  <2> QED
    BY <1>1, <2>1, <2>2, KeptShutdown
<1>3. CASE m.type # "to_pod" /\ UNCHANGED <<shutdown, closed_ports>> /\ Finish(<< >>)
  <2>1. \A p \in Port : ~IsData(m, p)
    BY <1>3 DEF IsData
  <2>2. Quiet
    BY <1>3, <2>1, FinishQuiet
  <2> QED
    BY <1>1, <1>3, <2>1, <2>2, KeptShutdown
<1>4. CASE FromPodInit(m)
  <2>1. UNCHANGED <<shutdown, closed_ports>> /\ Quiet /\ \A p \in Port : ~IsData(m, p)
    BY <1>4 DEF FromPodInit, Quiet, IsData
  <2> QED
    BY <1>1, <2>1, KeptShutdown
<1>5. CASE FromPodInvalid(m)
  BY <1>2, <1>5 DEF FromPodInvalid, Fails
<1>6. CASE FromPodError(m)
  BY <1>2, <1>3, <1>6 DEF FromPodError, Fails
<1>7. CASE FromPodData(m)
  BY <1>2, <1>3, <1>7 DEF FromPodData, Fails
<1>8. CASE ForwardToPod(m)
  BY <1>1, <1>8, SendInv
<1>9. CASE ForwardToPodClose(m)
  BY <1>1, <1>9, PortCloseInv
<1>10. CASE ForwardFromPodClose(m)
  BY <1>3, <1>10 DEF ForwardFromPodClose
<1> QED
  BY <1>4, <1>5, <1>6, <1>7, <1>8, <1>9, <1>10 DEF forwarder_loop

-----------------------------------------------------------------------------
(* The theorems                                                            *)

\* Every step of the client, the server and the loops
LEMMA NextIInv == IInv /\ [Next]_vars => IInv'
<1> SUFFICES ASSUME IInv, [Next]_vars PROVE IInv'
  OBVIOUS
<1>0. /\ client \in [Port -> {"untaken", "open", "shutdown", "dropped"}]
      /\ frames \in Seq(Frame)
  BY DEF IInv, TypeOK
<1>1. CASE UNCHANGED vars
  BY <1>0, <1>1, OutsideInv DEF vars
<1>2. CASE Client
  <2>1. UNCHANGED <<reading, channel, frames, sent, shutdown, closed_ports, socket_shutdown, task>>
    BY <1>2 DEF Client, serverVars, forwarderVars
  <2>2. ASSUME NEW p \in Port, ClientWrites(p) PROVE IInv'
    BY <2>1, <2>2, ClientWritesInv
  <2>3. ASSUME UNCHANGED written, client' \in [Port -> {"untaken", "open", "shutdown", "dropped"}],
               \A p \in Port : client[p] \in {"shutdown", "dropped"} => client'[p] \in {"shutdown", "dropped"}
        PROVE  IInv'
    BY <1>0, <2>1, <2>3, OutsideInv
  <2>4. ASSUME NEW p \in Port, ClientReads(p) PROVE IInv'
    BY <1>0, <2>3, <2>4 DEF ClientReads
  <2>5. ASSUME NEW p \in Port, take_stream(p) PROVE IInv'
    BY <1>0, <2>3, <2>5 DEF take_stream, SetClient
  <2>6. ASSUME NEW p \in Port, ClientShutsDown(p) PROVE IInv'
    BY <1>0, <2>3, <2>6 DEF ClientShutsDown, SetClient
  <2>7. ASSUME NEW p \in Port, ClientDrops(p) PROVE IInv'
    BY <1>0, <2>3, <2>7 DEF ClientDrops, SetClient
  <2>8. ASSUME join PROVE IInv'
    BY <1>0, <2>3, <2>8 DEF join
  <2> QED
    BY <1>2, <2>2, <2>4, <2>5, <2>6, <2>7, <2>8 DEF Client
<1>3. CASE abort \/ ConnectionFails \/ AllLoopsDone
  BY <1>0, <1>3, OutsideInv
     DEF abort, ConnectionFails, AllLoopsDone, Fails, clientVars, serverVars, forwarderVars
<1>4. ASSUME NEW f \in Frame, Sends(f), UNCHANGED <<clientVars, reading, channel, forwarderVars, task>>
      PROVE  IInv'
  <2>1. frames' \in Seq(Frame)
    BY <1>0, <1>4 DEF Sends
  <2> QED
    BY <1>0, <1>4, <2>1, OutsideInv DEF clientVars, forwarderVars
<1>5. CASE AnswerClose
  <2>1. Close \in Frame
    BY DEF Frame
  <2> QED
    BY <1>4, <1>5, <2>1 DEF AnswerClose
<1>6. CASE \E f \in Frame : ServerSends(f)
  BY <1>4, <1>6 DEF ServerSends
<1>7. CASE \E p \in Port : to_pod_loop(p)
  BY <1>7, ToPodReadsInv, ToPodEndsInv DEF to_pod_loop, clientVars, serverVars, forwarderVars
<1>8. CASE from_pod_loop
  BY <1>8, FromPodLoopInv
<1>9. CASE forwarder_loop
  BY <1>9, ForwarderInv
<1> QED
  BY <1>1, <1>2, <1>3, <1>5, <1>6, <1>7, <1>8, <1>9 DEF Next

\* What the pod gets of each client is what the client wrote, in order and complete up
\* to the Close, which comes last: for every number of ports, every size of the channel
\* and the pipes, whatever the pod and the clients do and wherever the task fails.
THEOREM PodGetsAll == Spec => []DataThenClose
<1>1. IInv => DataThenClose
  <2>1. IInv => InOrder
    BY DEF IInv, Ordered, SentInOrder, InOrder
  <2>2. IInv => CloseIsLast
    BY DEF IInv, SocketLast, CloseIsLast
  <2> QED
    BY <2>1, <2>2 DEF DataThenClose
<1> QED
  BY <1>1, InitIInv, NextIInv, PTL DEF Spec
=============================================================================
