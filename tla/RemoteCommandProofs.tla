------------------------- MODULE RemoteCommandProofs ------------------------
(***************************************************************************)
(* The streams of an attached process, proved for all sizes of pipes,      *)
(* windows and messages: the output that reaches the client is complete    *)
(* when the status does, and the server gets the input in order and all of *)
(* it before the Close.                                                    *)
(***************************************************************************)
EXTENDS RemoteCommand, SequenceTheorems, TLAPS

-----------------------------------------------------------------------------
(* Runs of bytes                                                           *)

Byte == {"stdout", "stderr", "stdin", "close"} \X Nat

\* The sequence holds the bytes of stream s that follow number n, without a gap.
Run(q, s, n) == \A k \in 1..Len(q) : q[k] = <<s, n + k>>

Streams == {"stdout", "stderr", "stdin"}

\* Bytes makes runs, and nothing else is one.
LEMMA BytesAreRun ==
  ASSUME NEW s \in Streams, NEW n \in Nat, NEW l \in Nat
  PROVE  /\ Bytes(s, n + 1, n + l) \in Seq(Byte)
         /\ Len(Bytes(s, n + 1, n + l)) = l
         /\ Run(Bytes(s, n + 1, n + l), s, n)
<1>1. Bytes(s, n + 1, n + l) = [k \in 1..l |-> <<s, n + k>>]
  <2>1. n + l - (n + 1) + 1 = l
    OBVIOUS
  <2>2. \A k \in 1..l : n + 1 + k - 1 = n + k
    OBVIOUS
  <2> QED
    BY <2>1, <2>2 DEF Bytes
<1>2. \A k \in 1..l : <<s, n + k>> \in Byte
  BY DEF Byte, Streams
<1> DEFINE q == [k \in 1..l |-> <<s, n + k>>]
<1>3. q \in [1..l -> Byte] /\ DOMAIN q = 1..l /\ \A k \in 1..l : q[k] = <<s, n + k>>
  BY <1>2
<1> HIDE DEF q
<1>4. q \in Seq(Byte)
  BY <1>3, SeqDef
<1>5. Len(q) = l
  BY <1>3, <1>4
<1> QED
  BY <1>1, <1>3, <1>4, <1>5 DEF Run, q

\* A run is what Bytes makes.
LEMMA RunIsBytes ==
  ASSUME NEW s \in Streams, NEW n \in Nat, NEW q \in Seq(Byte), Run(q, s, n)
  PROVE  q = Bytes(s, n + 1, n + Len(q))
<1>1. Len(q) \in Nat
  OBVIOUS
<1>2. /\ Bytes(s, n + 1, n + Len(q)) \in Seq(Byte)
      /\ Len(Bytes(s, n + 1, n + Len(q))) = Len(q)
      /\ Run(Bytes(s, n + 1, n + Len(q)), s, n)
  BY <1>1, BytesAreRun
<1> QED
  BY <1>2, SeqEqual DEF Run

\* The rest of a run
LEMMA RunTail ==
  ASSUME NEW s \in Streams, NEW n \in Nat, NEW q \in Seq(Byte), Run(q, s, n), q # <<>>
  PROVE  /\ Head(q) = <<s, n + 1>> /\ Run(Tail(q), s, n + 1)
         /\ Tail(q) \in Seq(Byte) /\ Len(Tail(q)) = Len(q) - 1 /\ Len(q) \in Nat \ {0}
<1>1. Len(q) \in Nat \ {0} /\ Head(q) = q[1] /\ Tail(q) \in Seq(Byte) /\ Len(Tail(q)) = Len(q) - 1
  OBVIOUS
<1>2. \A k \in 1..Len(Tail(q)) : Tail(q)[k] = q[k + 1] /\ k + 1 \in 1..Len(q)
  BY <1>1
<1>3. \A k \in 1..Len(Tail(q)) : Tail(q)[k] = <<s, n + 1 + k>>
  <2> TAKE k \in 1..Len(Tail(q))
  <2>1. Tail(q)[k] = <<s, n + (k + 1)>> /\ n + (k + 1) = n + 1 + k
    BY <1>1, <1>2 DEF Run
  <2> QED
    BY <2>1
<1> QED
  BY <1>1, <1>3 DEF Run

\* A run goes on with its next byte ...
LEMMA RunAppend ==
  ASSUME NEW s \in Streams, NEW n \in Nat, NEW q \in Seq(Byte), Run(q, s, n)
  PROVE  /\ Append(q, <<s, n + Len(q) + 1>>) \in Seq(Byte)
         /\ Len(Append(q, <<s, n + Len(q) + 1>>)) = Len(q) + 1
         /\ Run(Append(q, <<s, n + Len(q) + 1>>), s, n)
<1>1. <<s, n + Len(q) + 1>> \in Byte
  BY DEF Byte, Streams
<1> DEFINE x == <<s, n + Len(q) + 1>>
<1>2. x = <<s, n + (Len(q) + 1)>>
  OBVIOUS
<1> HIDE DEF x
<1>3. /\ Append(q, x) \in Seq(Byte) /\ Len(Append(q, x)) = Len(q) + 1
      /\ \A k \in 1..Len(q) : Append(q, x)[k] = q[k]
      /\ Append(q, x)[Len(q) + 1] = x
  BY <1>1 DEF x
<1>4. Run(Append(q, x), s, n)
  <2> SUFFICES ASSUME NEW k \in 1..Len(Append(q, x)) PROVE Append(q, x)[k] = <<s, n + k>>
    BY DEF Run
  <2>1. CASE k = Len(q) + 1
    BY <1>2, <1>3, <2>1
  <2>2. CASE k \in 1..Len(q)
    BY <1>3, <2>2 DEF Run
  <2>3. k = Len(q) + 1 \/ k \in 1..Len(q)
    BY <1>3
  <2> QED
    BY <2>1, <2>2, <2>3
<1> QED
  BY <1>3, <1>4 DEF x

\* ... and with the run that follows it.
LEMMA RunConcat ==
  ASSUME NEW s \in Streams, NEW n \in Nat, NEW p \in Seq(Byte), NEW q \in Seq(Byte),
         Run(p, s, n), Run(q, s, n + Len(p))
  PROVE  p \o q \in Seq(Byte) /\ Len(p \o q) = Len(p) + Len(q) /\ Run(p \o q, s, n)
<1>1. /\ p \o q \in Seq(Byte) /\ Len(p \o q) = Len(p) + Len(q)
      /\ \A k \in 1..(Len(p) + Len(q)) : (p \o q)[k] = IF k <= Len(p) THEN p[k] ELSE q[k - Len(p)]
  BY ConcatProperties
<1>2. \A k \in 1..Len(p \o q) : (p \o q)[k] = <<s, n + k>>
  <2> SUFFICES ASSUME NEW k \in 1..Len(p \o q) PROVE (p \o q)[k] = <<s, n + k>>
    OBVIOUS
  <2>1. CASE k <= Len(p)
    BY <1>1, <2>1 DEF Run
  <2>2. CASE k > Len(p)
    <3>1. k - Len(p) \in 1..Len(q) /\ n + Len(p) + (k - Len(p)) = n + k
      BY <1>1, <2>2
    <3>2. (p \o q)[k] = q[k - Len(p)]
      BY <1>1, <2>2
    <3>3. q[k - Len(p)] = <<s, n + Len(p) + (k - Len(p))>>
      BY <3>1 DEF Run
    <3> QED
      BY <3>1, <3>2, <3>3
  <2> QED
    BY <1>1, <2>1, <2>2
<1> QED
  BY <1>1, <1>2 DEF Run

-----------------------------------------------------------------------------
(* The messages on their way                                               *)

Msg == [type : Output, bytes : Seq(Byte)] \cup [type : {"status", "garbled status", "error"}]

\* Message m takes stream s from number a to number b.
Link(m, s, a, b) ==
    IF m.type = s THEN m.bytes # <<>> /\ b = a + Len(m.bytes) /\ Run(m.bytes, s, a)
    ELSE b = a

\* The messages in q take stream s from number a to number b.
Linked(q, s, a, b) ==
    \E pos \in Seq(Nat) :
      /\ Len(pos) = Len(q) + 1
      /\ pos[1] = a /\ pos[Len(q) + 1] = b
      /\ \A i \in 1..Len(q) : Link(q[i], s, pos[i], pos[i + 1])

\* Where nothing is on its way, nothing is missing.
LEMMA LinkedEmpty ==
  ASSUME NEW s, NEW a \in Nat, NEW b \in Nat
  PROVE  Linked(<<>>, s, a, b) <=> a = b
<1>1. Linked(<<>>, s, a, b) => a = b
  BY DEF Linked
<1>2. ASSUME a = b PROVE Linked(<<>>, s, a, b)
  <2>1. PICK pos \in Seq(Nat) : Len(pos) = 1 /\ pos[1] = a
    <3>1. <<a>> \in Seq(Nat) /\ Len(<<a>>) = 1 /\ <<a>>[1] = a
      OBVIOUS
    <3> QED
      BY <3>1
  <2>2. Len(<<>>) = 0
    OBVIOUS
  <2>3. \A i \in 1..0 : FALSE
    OBVIOUS
  <2> QED
    BY <1>2, <2>1, <2>2, <2>3 DEF Linked
<1> QED
  BY <1>1, <1>2

\* The indices of a sequence that got one element longer
LEMMA LastIndex == \A l \in Nat : \A j \in 1..(l + 1) : j \in 1..l \/ j = l + 1
  OBVIOUS

\* The messages after one more was sent
LEMMA MsgAppend ==
  ASSUME NEW q \in Seq(Msg), NEW m \in Msg
  PROVE  /\ Append(q, m) \in Seq(Msg) /\ Len(q) \in Nat /\ Len(Append(q, m)) = Len(q) + 1
         /\ \A i \in 1..Len(q) : Append(q, m)[i] = q[i]
         /\ Append(q, m)[Len(q) + 1] = m
  OBVIOUS

\* A message is sent.
LEMMA LinkedAppend ==
  ASSUME NEW q \in Seq(Msg), NEW m \in Msg, NEW s, NEW a \in Nat, NEW b \in Nat, NEW c \in Nat,
         Linked(q, s, a, b), Link(m, s, b, c)
  PROVE  Linked(Append(q, m), s, a, c)
<1>1. PICK pos \in Seq(Nat) :
        /\ Len(pos) = Len(q) + 1
        /\ pos[1] = a /\ pos[Len(q) + 1] = b
        /\ \A i \in 1..Len(q) : Link(q[i], s, pos[i], pos[i + 1])
  BY DEF Linked
<1> DEFINE new == Append(pos, c)
           r == Append(q, m)
<1>2. /\ new \in Seq(Nat) /\ Len(new) = Len(q) + 2
      /\ \A i \in 1..(Len(q) + 1) : new[i] = pos[i]
      /\ new[Len(q) + 2] = c
  BY <1>1
<1>3. /\ r \in Seq(Msg) /\ Len(r) = Len(q) + 1
      /\ \A i \in 1..Len(q) : r[i] = q[i]
      /\ r[Len(q) + 1] = m
  OBVIOUS
<1> HIDE DEF new, r
<1>4. ASSUME NEW i \in 1..Len(r) PROVE Link(r[i], s, new[i], new[i + 1])
  <2>1. CASE i = Len(q) + 1
    <3>1. Len(q) + 1 \in 1..(Len(q) + 1) /\ i + 1 = Len(q) + 2
      BY <2>1
    <3>2. r[i] = m /\ new[i] = b /\ new[i + 1] = c
      BY <1>1, <1>2, <1>3, <2>1, <3>1
    <3> QED
      BY <3>2
  <2>2. CASE i \in 1..Len(q)
    <3>1. i \in 1..(Len(q) + 1) /\ i + 1 \in 1..(Len(q) + 1)
      BY <2>2
    <3>2. new[i] = pos[i] /\ new[i + 1] = pos[i + 1] /\ r[i] = q[i]
      BY <1>2, <1>3, <2>2, <3>1
    <3> QED
      BY <1>1, <2>2, <3>2
  <2> QED
    BY <1>3, <2>1, <2>2
<1>5. Len(new) = Len(r) + 1 /\ new[1] = a /\ new[Len(r) + 1] = c
  BY <1>1, <1>2, <1>3
<1>6. Linked(r, s, a, c)
  BY <1>2, <1>4, <1>5 DEF Linked
<1> QED
  BY <1>6 DEF r

\* A message is received.
LEMMA LinkedTail ==
  ASSUME NEW q \in Seq(Msg), NEW s, NEW a \in Nat, NEW c \in Nat, Linked(q, s, a, c), q # <<>>
  PROVE  \E b \in Nat : Link(Head(q), s, a, b) /\ Linked(Tail(q), s, b, c)
<1>1. PICK pos \in Seq(Nat) :
        /\ Len(pos) = Len(q) + 1
        /\ pos[1] = a /\ pos[Len(q) + 1] = c
        /\ \A i \in 1..Len(q) : Link(q[i], s, pos[i], pos[i + 1])
  BY DEF Linked
<1> DEFINE new == Tail(pos)
           r == Tail(q)
<1>2. Len(q) \in Nat \ {0} /\ Head(q) = q[1]
  OBVIOUS
<1>3. /\ new \in Seq(Nat) /\ Len(new) = Len(q)
      /\ \A i \in 1..Len(q) : new[i] = pos[i + 1]
  BY <1>1, <1>2
<1>4. /\ r \in Seq(Msg) /\ Len(r) = Len(q) - 1
      /\ \A i \in 1..(Len(q) - 1) : r[i] = q[i + 1]
  BY <1>2
<1> HIDE DEF new, r
<1>5. pos[2] \in Nat /\ Link(Head(q), s, a, pos[2])
  <2>1. 1 \in 1..Len(q) /\ 2 \in 1..Len(pos) /\ 1 + 1 = 2
    BY <1>1, <1>2
  <2>2. pos[2] \in Nat
    BY <1>1, <2>1
  <2>3. Link(q[1], s, pos[1], pos[1 + 1])
    BY <1>1, <2>1
  <2> QED
    BY <1>1, <1>2, <2>1, <2>2, <2>3
<1>6. ASSUME NEW i \in 1..Len(r) PROVE Link(r[i], s, new[i], new[i + 1])
  <2>1. i + 1 \in 1..Len(q) /\ i \in 1..(Len(q) - 1) /\ i \in 1..Len(q)
    BY <1>2, <1>4
  <2>2. r[i] = q[i + 1] /\ new[i] = pos[i + 1] /\ new[i + 1] = pos[i + 1 + 1]
    BY ONLY <1>3, <1>4, <2>1
  <2> QED
    BY <1>1, <2>1, <2>2
<1>7. Len(new) = Len(r) + 1 /\ new[1] = pos[2] /\ new[Len(r) + 1] = c
  <2>1. Len(r) + 1 = Len(q) /\ 1 \in 1..Len(q) /\ Len(q) \in 1..Len(q)
    BY <1>2, <1>4
  <2>2. new[1] = pos[1 + 1] /\ new[Len(q)] = pos[Len(q) + 1]
    BY <1>3, <2>1
  <2> QED
    BY <1>1, <1>3, <2>1, <2>2
<1>8. Linked(r, s, pos[2], c)
  BY <1>3, <1>6, <1>7 DEF Linked
<1> QED
  BY <1>5, <1>8 DEF r
-----------------------------------------------------------------------------
(* The inductive invariant                                                 *)

TypeOK ==
    /\ ends \in [End -> {"absent", "handle", "taken", "dropped"}]
    /\ pipe \in [Output \cup {"stdin"} -> Seq(Byte)]
    /\ got \in [Output -> Seq(Byte)]
    /\ written \in Nat
    /\ loop \in Output \cup {"select", "sending", "closing", "ok", "err", "aborted"}
    /\ message \in Seq(Byte)
    /\ status \in BOOLEAN
    /\ from_server \in Seq(Msg)
    /\ sent \in Seq(Byte)
    /\ server \in {"running", "closed"}
    /\ produced \in [Output -> Nat]

\* How much of an output has arrived: read, in the pipe, or being written to it
Arrived(s) == Len(got[s]) + Len(pipe[s]) + (IF loop = s THEN Len(message) ELSE 0)

\* What has arrived of an output is a run from its first byte.
OutputRuns ==
    \A s \in Attached :
      /\ Run(got[s], s, 0)
      /\ Run(pipe[s], s, Len(got[s]))
      /\ loop = s => message # <<>> /\ Run(message, s, Len(got[s]) + Len(pipe[s]))

\* While the loop runs, what is on its way takes each output from what has arrived to what
\* was produced.
OutputLinked == ~Ended => \A s \in Attached : Linked(from_server, s, Arrived(s), produced[s])

\* The loop writes only to what is attached, and ends with the status.
Orderly ==
    /\ loop \in Output => loop \in Attached
    /\ status => loop = "ok" /\ server = "closed"

\* The server says nothing after its last words.
LastWords ==
    \A i \in 1..Len(from_server) :
      from_server[i].type \notin Output => i = Len(from_server) /\ server = "closed"

OutputInv == OutputRuns /\ OutputLinked /\ Orderly /\ LastWords /\ StatusMeansComplete

InMessage == IF loop = "sending" THEN Len(message) ELSE 0

\* While the loop runs, what was sent, is being sent and is in the pipe are runs that
\* follow each other and are all that was written.
InputRuns ==
    ~Ended => /\ Run(sent, "stdin", 0)
              /\ loop = "sending" => Run(message, "stdin", Len(sent))
              /\ Run(pipe["stdin"], "stdin", Len(sent) + InMessage)
              /\ Len(sent) + InMessage + Len(pipe["stdin"]) = written

\* The Close goes out when there is nothing left to send, and nothing can be written.
ClosingIsLast ==
    loop = "closing" => message = <<Close>> /\ ends["stdin"] = "dropped" /\ pipe["stdin"] = <<>>

\* What was sent before the loop ended stays as it is.
SentInput ==
    \/ Run(sent, "stdin", 0) /\ Len(sent) <= written
    \/ loop = "ok" /\ sent = Append(Bytes("stdin", 1, written), Close)

InputInv == InputRuns /\ ClosingIsLast /\ SentInput

IInv == TypeOK /\ OutputInv /\ InputInv

\* Arrived counts.
LEMMA ArrivedType ==
  ASSUME TypeOK, NEW s \in Output
  PROVE  /\ Len(got[s]) \in Nat /\ Len(pipe[s]) \in Nat /\ Len(message) \in Nat
         /\ Arrived(s) \in Nat /\ produced[s] \in Nat
         /\ loop # s => Arrived(s) = Len(got[s]) + Len(pipe[s])
<1>1. got[s] \in Seq(Byte) /\ pipe[s] \in Seq(Byte) /\ message \in Seq(Byte) /\ produced[s] \in Nat
  BY DEF TypeOK, Output
<1>2. Len(got[s]) \in Nat /\ Len(pipe[s]) \in Nat /\ Len(message) \in Nat
  BY <1>1
<1>3. \A a \in Nat, b \in Nat, c \in Nat : a + b + c \in Nat /\ a + b + 0 = a + b
  OBVIOUS
<1>4. Arrived(s) \in Nat /\ (loop # s => Arrived(s) = Len(got[s]) + Len(pipe[s]))
  BY ONLY <1>2, <1>3, 0 \in Nat DEF Arrived
<1> QED
  BY <1>1, <1>2, <1>4

-----------------------------------------------------------------------------
(* Steps that leave the output alone                                       *)

\* What is attached stays attached.
LEMMA AttachedIsFixed ==
  ASSUME \A s \in Output : (ends'[s] = "absent") = (ends[s] = "absent")
  PROVE  Attached' = Attached
  BY DEF Attached

\* Nothing of the output moves, and the loop does not turn to it or away from it unless it
\* ends.
LEMMA OutputFrame ==
  ASSUME TypeOK, OutputInv, UNCHANGED <<got, from_server, server, produced, status>>,
         Attached' = Attached, \A s \in Output : pipe'[s] = pipe[s],
         \/ UNCHANGED <<loop, message>>
         \/ ~Ended /\ loop \notin Output /\ loop' \notin Output
         \/ ~Ended /\ Ended'
  PROVE  OutputInv'
<1> USE DEF OutputInv
<1>1. \A s \in Attached : s \in Output /\ pipe'[s] = pipe[s]
  BY DEF Attached
<1>2. status => Ended
  BY DEF Orderly, Ended
<1>3. OutputRuns'
  BY <1>1 DEF OutputRuns, Ended, Output
<1>4. OutputLinked'
  <2> SUFFICES ASSUME ~Ended' PROVE \A s \in Attached : Linked(from_server, s, Arrived(s)', produced[s])
    BY DEF OutputLinked
  <2>1. \A s \in Attached : Arrived(s)' = Arrived(s)
    BY <1>1 DEF Arrived
  <2> QED
    BY <2>1 DEF OutputLinked, Ended
<1>5. Orderly' /\ LastWords'
  BY <1>2 DEF Orderly, LastWords, Ended, Output
<1>6. StatusMeansComplete'
  BY <1>1 DEF StatusMeansComplete
<1> QED
  BY <1>3, <1>4, <1>5, <1>6

\* The client reads: a byte goes from the pipe to what was got.
LEMMA ClientReadsOutput ==
  ASSUME TypeOK, OutputInv, NEW r \in Output, ClientReads(r),
         UNCHANGED <<loopVars, from_server, serverVars>>
  PROVE  OutputInv'
<1> USE DEF OutputInv, loopVars, serverVars
<1>1. /\ ends[r] = "taken" /\ pipe[r] # <<>> /\ r \in Attached /\ Attached' = Attached
      /\ got' = [got EXCEPT ![r] = Append(@, Head(pipe[r]))]
      /\ pipe' = [pipe EXCEPT ![r] = Tail(@)]
  BY DEF ClientReads, Attached
<1>2. got[r] \in Seq(Byte) /\ pipe[r] \in Seq(Byte) /\ r \in Streams
  BY DEF TypeOK, Output, Streams
<1>3. Run(got[r], r, 0) /\ Run(pipe[r], r, Len(got[r]))
  BY <1>1 DEF OutputRuns
<1>4. /\ Head(pipe[r]) = <<r, Len(got[r]) + 1>> /\ Run(Tail(pipe[r]), r, Len(got[r]) + 1)
      /\ Len(Tail(pipe[r])) = Len(pipe[r]) - 1 /\ Len(pipe[r]) \in Nat \ {0} /\ Len(got[r]) \in Nat
  BY <1>1, <1>2, <1>3, RunTail
<1>5. /\ Len(Append(got[r], <<r, 0 + Len(got[r]) + 1>>)) = Len(got[r]) + 1
      /\ Run(Append(got[r], <<r, 0 + Len(got[r]) + 1>>), r, 0)
  BY <1>2, <1>3, RunAppend
<1>6. Len(got'[r]) = Len(got[r]) + 1 /\ Run(got'[r], r, 0)
  <2>1. got'[r] = Append(got[r], <<r, 0 + Len(got[r]) + 1>>)
    BY <1>1, <1>4 DEF TypeOK
  <2> QED
    BY <1>5, <2>1
<1>7. Len(pipe'[r]) = Len(pipe[r]) - 1 /\ Run(pipe'[r], r, Len(got'[r]))
  <2>1. pipe'[r] = Tail(pipe[r])
    BY <1>1 DEF TypeOK
  <2> QED
    BY <1>4, <1>6, <2>1
<1>8. \A s \in Output : s # r => got'[s] = got[s] /\ pipe'[s] = pipe[s]
  BY <1>1 DEF TypeOK
<1>9. \A s \in Attached : Len(got'[s]) + Len(pipe'[s]) = Len(got[s]) + Len(pipe[s])
  <2> SUFFICES ASSUME NEW s \in Attached
               PROVE  Len(got'[s]) + Len(pipe'[s]) = Len(got[s]) + Len(pipe[s])
    OBVIOUS
  <2>1. CASE s = r
    <3>1. Len(got'[r]) + Len(pipe'[r]) = (Len(got[r]) + 1) + (Len(pipe[r]) - 1)
      BY <1>6, <1>7
    <3>2. \A a \in Nat, b \in Nat \ {0} : (a + 1) + (b - 1) = a + b
      OBVIOUS
    <3>3. (Len(got[r]) + 1) + (Len(pipe[r]) - 1) = Len(got[r]) + Len(pipe[r])
      BY ONLY <1>4, <3>2
    <3> QED
      BY <2>1, <3>1, <3>3
  <2>2. CASE s # r
    BY <1>8, <2>2 DEF Attached
  <2> QED
    BY <2>1, <2>2
<1>10. OutputRuns'
  <2> SUFFICES ASSUME NEW s \in Attached
               PROVE  /\ Run(got'[s], s, 0) /\ Run(pipe'[s], s, Len(got'[s]))
                      /\ loop = s => message # <<>> /\ Run(message, s, Len(got'[s]) + Len(pipe'[s]))
    BY <1>1 DEF OutputRuns
  <2>1. Run(got'[s], s, 0) /\ Run(pipe'[s], s, Len(got'[s]))
    BY <1>6, <1>7, <1>8 DEF OutputRuns, Attached
  <2> QED
    BY <1>9, <2>1 DEF OutputRuns
<1>11. OutputLinked'
  <2>1. \A s \in Attached : Arrived(s)' = Arrived(s)
    BY <1>9 DEF Arrived
  <2> QED
    BY <1>1, <2>1 DEF OutputLinked, Ended
<1>12. Orderly' /\ LastWords' /\ StatusMeansComplete'
  BY <1>1, <1>9 DEF Orderly, LastWords, StatusMeansComplete
<1> QED
  BY <1>10, <1>11, <1>12
-----------------------------------------------------------------------------
(* Steps of the server                                                     *)

\* The process writes: the next bytes of an output are on their way.
LEMMA ProcessWritesOutput ==
  ASSUME TypeOK, OutputInv, NEW r \in Output, NEW n \in Nat \ {0}, ProcessWrites(r, n),
         UNCHANGED <<clientVars, pipe, loopVars>>
  PROVE  OutputInv'
<1> USE DEF OutputInv, loopVars, clientVars
<1> DEFINE m == [type |-> r, bytes |-> Bytes(r, produced[r] + 1, produced[r] + n)]
<1>1. /\ server = "running" /\ server' = server /\ from_server' = Append(from_server, m)
      /\ produced' = [produced EXCEPT ![r] = @ + n] /\ Attached' = Attached
  BY DEF ProcessWrites, Sends, Attached
<1>2. produced[r] \in Nat /\ r \in Streams /\ from_server \in Seq(Msg)
  BY DEF TypeOK, Output, Streams
<1>3. /\ Bytes(r, produced[r] + 1, produced[r] + n) \in Seq(Byte)
      /\ Len(Bytes(r, produced[r] + 1, produced[r] + n)) = n
      /\ Run(Bytes(r, produced[r] + 1, produced[r] + n), r, produced[r])
  BY <1>2, BytesAreRun
<1>4. m \in Msg /\ m.type = r /\ m.bytes = Bytes(r, produced[r] + 1, produced[r] + n)
  BY <1>3 DEF Msg
<1> HIDE DEF m
<1>5. \A s \in Output : /\ produced[s] \in Nat /\ produced'[s] \in Nat
                        /\ Link(m, s, produced[s], produced'[s])
  <2> SUFFICES ASSUME NEW s \in Output
               PROVE  /\ produced[s] \in Nat /\ produced'[s] \in Nat
                      /\ Link(m, s, produced[s], produced'[s])
    OBVIOUS
  <2>1. CASE s = r
    <3>1. produced'[s] = produced[r] + n /\ produced[r] + n \in Nat
      BY <1>1, <1>2, <2>1 DEF TypeOK
    <3>2. m.bytes # <<>>
      BY <1>3, <1>4
    <3> QED
      BY <1>2, <1>3, <1>4, <2>1, <3>1, <3>2 DEF Link
  <2>2. CASE s # r
    BY <1>1, <1>4, <2>2 DEF Link, TypeOK
  <2> QED
    BY <2>1, <2>2
<1>6. OutputRuns'
  BY <1>1 DEF OutputRuns
<1>7. OutputLinked'
  <2> SUFFICES ASSUME ~Ended, NEW s \in Attached
               PROVE  Linked(Append(from_server, m), s, Arrived(s), produced'[s])
    BY <1>1 DEF OutputLinked, Ended, Arrived
  <2>1. s \in Output /\ Arrived(s) \in Nat
    BY ArrivedType DEF Attached
  <2>2. Linked(from_server, s, Arrived(s), produced[s])
    BY DEF OutputLinked
  <2> QED
    BY <1>2, <1>4, <1>5, <2>1, <2>2, LinkedAppend
<1>8. Orderly'
  BY <1>1 DEF Orderly
<1>9. LastWords'
  <2>1. /\ Len(from_server') = Len(from_server) + 1 /\ Len(from_server) \in Nat
        /\ \A i \in 1..Len(from_server) : from_server'[i] = from_server[i]
        /\ from_server'[Len(from_server) + 1] = m
    BY <1>1, <1>2, <1>4, MsgAppend
  <2>2. \A i \in 1..Len(from_server) : from_server[i].type \in Output
    BY <1>1 DEF LastWords
  <2>3. ASSUME NEW i \in 1..Len(from_server') PROVE from_server'[i].type \in Output
    <3>1. i \in 1..Len(from_server) \/ i = Len(from_server) + 1
      BY <2>1
    <3> QED
      BY <1>4, <2>1, <2>2, <3>1
  <2> QED
    BY <2>3 DEF LastWords
<1>10. StatusMeansComplete'
  BY <1>1 DEF StatusMeansComplete, Orderly
<1> QED
  BY <1>6, <1>7, <1>8, <1>9, <1>10

\* The server closes the connection, with a last message or without one.
LEMMA LastWordsOutput ==
  ASSUME TypeOK, OutputInv, NEW t \in {"status", "garbled status", "error"},
         server = "running", server' = "closed",
         from_server' = from_server \/ from_server' = Append(from_server, [type |-> t]),
         UNCHANGED <<clientVars, pipe, loopVars, produced>>
  PROVE  OutputInv'
<1> USE DEF OutputInv, loopVars, clientVars
<1> DEFINE m == [type |-> t]
<1>1. Attached' = Attached
  BY DEF Attached
<1>2. m \in Msg /\ m.type = t /\ t \notin Output /\ from_server \in Seq(Msg)
  BY DEF Msg, Output, TypeOK
<1>3. from_server' = from_server \/ from_server' = Append(from_server, m)
  OBVIOUS
<1> HIDE DEF m
<1>4. OutputRuns' /\ Orderly' /\ StatusMeansComplete'
  BY <1>1 DEF OutputRuns, Orderly, StatusMeansComplete
<1>5. OutputLinked'
  <2> SUFFICES ASSUME ~Ended, NEW s \in Attached
               PROVE  Linked(from_server', s, Arrived(s), produced[s])
    BY <1>1 DEF OutputLinked, Ended, Arrived
  <2>1. s \in Output /\ Arrived(s) \in Nat /\ produced[s] \in Nat
    BY ArrivedType DEF Attached
  <2>2. Linked(from_server, s, Arrived(s), produced[s])
    BY DEF OutputLinked
  <2>3. Link(m, s, produced[s], produced[s])
    BY <1>2, <2>1 DEF Link
  <2>4. Linked(Append(from_server, m), s, Arrived(s), produced[s])
    BY <1>2, <2>1, <2>2, <2>3, LinkedAppend
  <2> QED
    BY <1>3, <2>2, <2>4
<1>6. LastWords'
  <2>1. \A i \in 1..Len(from_server) : from_server[i].type \in Output
    BY DEF LastWords
  <2>2. CASE from_server' = from_server
    BY <2>1, <2>2 DEF LastWords
  <2>3. CASE from_server' = Append(from_server, m)
    <3>1. /\ Len(from_server') = Len(from_server) + 1 /\ Len(from_server) \in Nat
          /\ \A i \in 1..Len(from_server) : from_server'[i] = from_server[i]
      BY <1>2, <2>3, MsgAppend
    <3>2. ASSUME NEW i \in 1..Len(from_server'), from_server'[i].type \notin Output
          PROVE  i = Len(from_server')
      <4>1. i \in 1..Len(from_server) \/ i = Len(from_server) + 1
        BY <3>1, LastIndex, Zenon
      <4> QED
        BY <2>1, <3>1, <3>2, <4>1
    <3> QED
      BY <3>2 DEF LastWords
  <2> QED
    BY <1>3, <2>2, <2>3
<1> QED
  BY <1>4, <1>5, <1>6

-----------------------------------------------------------------------------
(* Steps of the loop that move output                                      *)

\* What is left of the messages after one was received still ends with the last words.
LEMMA LastWordsTail ==
  ASSUME TypeOK, LastWords, from_server # <<>>, from_server' = Tail(from_server),
         UNCHANGED server
  PROVE  LastWords' /\ (Head(from_server).type \notin Output => Tail(from_server) = <<>>)
<1>1. from_server \in Seq(Msg) /\ Len(from_server) \in Nat \ {0}
  BY DEF TypeOK
<1>2. /\ Len(from_server') = Len(from_server) - 1
      /\ \A i \in 1..Len(from_server') : from_server'[i] = from_server[i + 1] /\ i + 1 \in 1..Len(from_server)
  BY <1>1
<1>3. ASSUME NEW i \in 1..Len(from_server'), from_server'[i].type \notin Output
      PROVE  i = Len(from_server') /\ server' = "closed"
  <2>1. from_server[i + 1].type \notin Output /\ i + 1 \in 1..Len(from_server)
    BY <1>2, <1>3
  <2>2. i + 1 = Len(from_server) /\ server = "closed"
    BY <2>1 DEF LastWords
  <2>3. \A k \in Nat, l \in Nat : k + 1 = l => k = l - 1
    OBVIOUS
  <2>4. i \in Nat
    OBVIOUS
  <2>5. i = Len(from_server) - 1
    BY ONLY <1>1, <2>2, <2>3, <2>4
  <2> QED
    BY <1>2, <2>2, <2>5
<1>4. ASSUME Head(from_server).type \notin Output PROVE Tail(from_server) = <<>>
  <2>1. Head(from_server) = from_server[1] /\ 1 \in 1..Len(from_server)
    BY <1>1
  <2>2. Len(from_server) = 1
    BY <1>4, <2>1 DEF LastWords
  <2> QED
    BY <1>1, <2>2
<1> QED
  BY <1>3, <1>4 DEF LastWords

\* Output arrives: the loop turns to its pipe, or drops it when it is not attached.
LEMMA RecvOutputOutput ==
  ASSUME TypeOK, OutputInv, NEW r \in Output, RecvOutput(r)
  PROVE  OutputInv'
<1> USE DEF OutputInv, loopVars, clientVars, serverVars
<1>1. /\ loop = "select" /\ from_server # <<>> /\ Head(from_server).type = r
      /\ from_server' = Tail(from_server)
      /\ UNCHANGED <<got, pipe, ends, server, produced, status>> /\ Attached' = Attached
  BY DEF RecvOutput, Receives, Attached
<1>2. \/ r \notin Attached /\ loop' = "select" /\ message' = message
      \/ r \in Attached /\ loop' = r /\ message' = Head(from_server).bytes
  BY <1>1 DEF RecvOutput, Attached
<1>3. from_server \in Seq(Msg) /\ "select" \notin Output /\ ~Ended /\ ~status
  BY <1>1 DEF TypeOK, Output, Ended, Orderly
<1>4. ASSUME NEW s \in Attached
      PROVE  /\ Arrived(s) = Len(got[s]) + Len(pipe[s]) /\ Arrived(s) \in Nat
             /\ \E b \in Nat : /\ Link(Head(from_server), s, Arrived(s), b)
                             /\ Linked(Tail(from_server), s, b, produced[s])
  <2>1. s \in Output /\ loop # s /\ Arrived(s) \in Nat /\ produced[s] \in Nat
    BY <1>1, <1>3, ArrivedType DEF Attached
  <2>2. Arrived(s) = Len(got[s]) + Len(pipe[s])
    BY <2>1, ArrivedType
  <2>3. Linked(from_server, s, Arrived(s), produced[s])
    BY <1>3 DEF OutputLinked
  <2> QED
    BY <1>1, <1>3, <2>1, <2>2, <2>3, LinkedTail
<1>5. ASSUME NEW s \in Attached
      PROVE  /\ loop' = s => message' # <<>> /\ Run(message', s, Len(got[s]) + Len(pipe[s]))
             /\ Linked(Tail(from_server), s, Arrived(s)', produced[s])
  <2>1. PICK b \in Nat : /\ Link(Head(from_server), s, Arrived(s), b)
                         /\ Linked(Tail(from_server), s, b, produced[s])
    BY <1>4
  <2>2. Arrived(s) = Len(got[s]) + Len(pipe[s]) /\ s \in Output
    BY <1>4 DEF Attached
  <2>3. CASE s = r
    <3>1. loop' = s /\ message' = Head(from_server).bytes
      BY <1>2, <2>3
    <3>2. /\ message' # <<>> /\ b = Arrived(s) + Len(message') /\ Run(message', s, Arrived(s))
      BY <1>1, <2>1, <2>3, <3>1 DEF Link
    <3>3. Arrived(s)' = b
      BY <1>1, <2>2, <3>1, <3>2 DEF Arrived
    <3> QED
      BY <2>1, <2>2, <3>2, <3>3
  <2>4. CASE s # r
    <3>1. loop' # s /\ b = Arrived(s)
      BY <1>1, <1>2, <1>3, <2>1, <2>2, <2>4 DEF Link
    <3>2. Arrived(s)' = Arrived(s)
      <4>1. Arrived(s)' = Len(got[s]) + Len(pipe[s]) + 0 /\ Len(got[s]) + Len(pipe[s]) \in Nat
        BY <1>1, <1>4, <2>2, <3>1 DEF Arrived
      <4> QED
        BY <2>2, <4>1
    <3> QED
      BY <2>1, <3>1, <3>2
  <2> QED
    BY <2>3, <2>4
<1>6. OutputRuns'
  BY <1>1, <1>5 DEF OutputRuns
<1>7. OutputLinked'
  BY <1>1, <1>5 DEF OutputLinked
<1>8. Orderly'
  BY <1>1, <1>2, <1>3 DEF Orderly
<1>9. LastWords'
  BY <1>1, LastWordsTail
<1>10. StatusMeansComplete'
  BY <1>1, <1>3 DEF StatusMeansComplete
<1> QED
  BY <1>6, <1>7, <1>8, <1>9, <1>10
\* A byte goes from the message into the pipe.
LEMMA WriteOutputOutput ==
  ASSUME TypeOK, OutputInv, NEW r \in Output, WriteOutput(r)
  PROVE  OutputInv'
<1> USE DEF OutputInv, loopVars, clientVars, serverVars
<1>1. /\ loop = r /\ pipe' = [pipe EXCEPT ![r] = Append(@, Head(message))]
      /\ message' = Tail(message) /\ loop' = IF Len(message) = 1 THEN "select" ELSE r
      /\ UNCHANGED <<got, ends, from_server, server, produced, status>> /\ Attached' = Attached
  BY DEF WriteOutput, Attached
<1>2. /\ r \in Attached /\ r \in Streams /\ ~Ended /\ ~Ended' /\ ~status /\ r # "select"
      /\ "select" \notin Output
  BY <1>1 DEF Orderly, Ended, Output, Streams
<1>3. /\ got[r] \in Seq(Byte) /\ pipe[r] \in Seq(Byte) /\ message \in Seq(Byte)
      /\ Len(got[r]) \in Nat /\ Len(pipe[r]) \in Nat
  BY ArrivedType DEF TypeOK, Output
<1>4. /\ Run(got[r], r, 0) /\ Run(pipe[r], r, Len(got[r])) /\ message # <<>>
      /\ Run(message, r, Len(got[r]) + Len(pipe[r]))
  BY <1>1, <1>2 DEF OutputRuns
<1>5. Len(got[r]) + Len(pipe[r]) \in Nat
  <2>1. \A a \in Nat, b \in Nat : a + b \in Nat
    OBVIOUS
  <2> QED
    BY ONLY <1>3, <2>1
<1>6. /\ Head(message) = <<r, Len(got[r]) + Len(pipe[r]) + 1>>
      /\ Run(Tail(message), r, Len(got[r]) + Len(pipe[r]) + 1)
      /\ Len(Tail(message)) = Len(message) - 1 /\ Len(message) \in Nat \ {0}
  BY <1>2, <1>3, <1>4, <1>5, RunTail
<1>7. pipe'[r] = Append(pipe[r], <<r, Len(got[r]) + Len(pipe[r]) + 1>>)
  BY <1>1, <1>6 DEF TypeOK, Output
<1>8. Len(pipe'[r]) = Len(pipe[r]) + 1 /\ Run(pipe'[r], r, Len(got[r]))
  <2>1. /\ Len(Append(pipe[r], <<r, Len(got[r]) + Len(pipe[r]) + 1>>)) = Len(pipe[r]) + 1
        /\ Run(Append(pipe[r], <<r, Len(got[r]) + Len(pipe[r]) + 1>>), r, Len(got[r]))
    BY <1>2, <1>3, <1>4, RunAppend
  <2> QED
    BY <1>7, <2>1
<1>9. \A s \in Output : s # r => pipe'[s] = pipe[s] /\ loop' # s /\ loop # s
  BY <1>1, <1>2 DEF TypeOK
<1>10. \A a \in Nat, b \in Nat, c \in Nat \ {0} :
         /\ a + (b + 1) + (c - 1) = a + b + c
         /\ (c = 1 => a + (b + 1) + 0 = a + b + c)
  OBVIOUS
<1>11. Run(message', r, Len(got[r]) + Len(pipe'[r]))
  <2>1. Len(got[r]) + Len(pipe'[r]) = Len(got[r]) + Len(pipe[r]) + 1
    <3>1. \A a \in Nat, b \in Nat : a + (b + 1) = a + b + 1
      OBVIOUS
    <3> QED
      BY ONLY <1>3, <1>8, <3>1
  <2> QED
    BY <1>1, <1>6, <2>1
<1>12. loop' = r => message' # <<>>
  <2>1. loop' = r => Len(message') # 0
    BY <1>1, <1>2, <1>6
  <2> QED
    BY <2>1
<1>13. Arrived(r)' = Arrived(r)
  <2>1. Arrived(r) = Len(got[r]) + Len(pipe[r]) + Len(message)
    BY <1>1 DEF Arrived
  <2>2. CASE Len(message) = 1
    <3>1. Arrived(r)' = Len(got[r]) + (Len(pipe[r]) + 1) + 0
      BY <1>1, <1>2, <1>8, <2>2 DEF Arrived
    <3> QED
      BY ONLY <1>3, <1>6, <1>10, <2>1, <2>2, <3>1
  <2>3. CASE Len(message) # 1
    <3>1. Arrived(r)' = Len(got[r]) + (Len(pipe[r]) + 1) + (Len(message) - 1)
      BY <1>1, <1>6, <1>8, <2>3 DEF Arrived
    <3> QED
      BY ONLY <1>3, <1>6, <1>10, <2>1, <3>1
  <2> QED
    BY <2>2, <2>3
<1>14. OutputRuns'
  <2> SUFFICES ASSUME NEW s \in Attached
               PROVE  /\ Run(got[s], s, 0) /\ Run(pipe'[s], s, Len(got[s]))
                      /\ loop' = s => message' # <<>> /\ Run(message', s, Len(got[s]) + Len(pipe'[s]))
    BY <1>1 DEF OutputRuns
  <2>1. CASE s = r
    BY <1>4, <1>8, <1>11, <1>12, <2>1
  <2>2. CASE s # r
    BY <1>9, <2>2 DEF OutputRuns, Attached
  <2> QED
    BY <2>1, <2>2
<1>15. OutputLinked'
  <2>1. \A s \in Attached : Arrived(s)' = Arrived(s)
    BY <1>1, <1>9, <1>13 DEF Attached, Arrived
  <2> QED
    BY <1>1, <1>2, <2>1 DEF OutputLinked
<1>16. Orderly' /\ LastWords' /\ StatusMeansComplete'
  BY <1>1, <1>2 DEF Orderly, LastWords, StatusMeansComplete
<1> QED
  BY <1>14, <1>15, <1>16

\* The status arrives last: all output has arrived before it.
LEMMA RecvStatusOutput ==
  ASSUME TypeOK, OutputInv, RecvStatus
  PROVE  OutputInv'
<1> USE DEF OutputInv, clientVars, serverVars
<1>1. /\ loop = "select" /\ from_server # <<>> /\ Head(from_server).type = "status"
      /\ from_server' = Tail(from_server)
      /\ UNCHANGED <<got, pipe, ends, server, produced, message>> /\ Attached' = Attached
  BY DEF RecvStatus, Receives, Returns, Attached
<1>2. (loop' = "err" /\ status' = status) \/ (loop' = "ok" /\ status' = TRUE)
  <2>1. CASE ends["status"] = "dropped"
    <3>1. Returns("err")
      BY <2>1, Zenon DEF RecvStatus
    <3>2. loop' = "err"
      BY <3>1 DEF Returns
    <3>3. status' = status
      BY ONLY <3>1 DEF Returns
    <3> QED
      BY ONLY <3>2, <3>3
  <2>2. CASE ends["status"] # "dropped"
    BY <2>2, Zenon DEF RecvStatus, Returns
  <2> QED
    BY <2>1, <2>2
<1>3. "select" \notin Output /\ "status" \notin Output /\ loop' \notin Output /\ ~Ended /\ ~status /\ Ended'
  BY <1>1, <1>2 DEF Output, Ended, Orderly
<1>4. from_server \in Seq(Msg) /\ server = "closed" /\ Tail(from_server) = <<>> /\ LastWords'
  <2>1. from_server \in Seq(Msg) /\ 1 \in 1..Len(from_server) /\ Head(from_server) = from_server[1]
    BY <1>1 DEF TypeOK
  <2>2. server = "closed"
    BY <1>1, <1>3, <2>1 DEF LastWords
  <2> QED
    BY <1>1, <1>3, <2>1, <2>2, LastWordsTail
<1>5. ASSUME NEW s \in Attached PROVE Len(got[s]) + Len(pipe[s]) = produced[s]
  <2>1. /\ s \in Output /\ Arrived(s) \in Nat /\ produced[s] \in Nat
        /\ Arrived(s) = Len(got[s]) + Len(pipe[s])
    BY <1>1, <1>3, ArrivedType DEF Attached
  <2>2. PICK b \in Nat : /\ Link(Head(from_server), s, Arrived(s), b)
                         /\ Linked(Tail(from_server), s, b, produced[s])
    BY <1>1, <1>3, <1>4, <2>1, LinkedTail DEF OutputLinked
  <2>3. b = Arrived(s)
    BY <1>1, <1>3, <2>1, <2>2 DEF Link
  <2>4. b = produced[s]
    <3>1. Linked(<<>>, s, b, produced[s])
      BY <1>4, <2>2
    <3> QED
      BY <2>1, <3>1, LinkedEmpty
  <2> QED
    BY <2>1, <2>3, <2>4
<1>6. OutputRuns' /\ OutputLinked' /\ Orderly'
  <2>1. OutputRuns'
    BY <1>1, <1>3 DEF OutputRuns, Attached
  <2>2. OutputLinked'
    BY <1>3 DEF OutputLinked
  <2>3. loop' \in Output => loop' \in Attached'
    BY <1>3
  <2>4. status' => loop' = "ok" /\ server' = "closed"
    <3>1. server' = "closed"
      BY <1>1, <1>4
    <3> QED
      BY ONLY <1>2, <1>3, <3>1, Zenon
  <2> QED
    BY <2>1, <2>2, <2>3, <2>4 DEF Orderly
<1>7. StatusMeansComplete'
  BY <1>1, <1>5 DEF StatusMeansComplete
<1> QED
  BY <1>4, <1>6, <1>7

\* The loop ends on a message it cannot read.
LEMMA RecvFailsOutput ==
  ASSUME TypeOK, OutputInv, RecvFails
  PROVE  OutputInv'
<1> USE DEF OutputInv, clientVars, serverVars
<1>1. /\ loop = "select" /\ loop' = "err" /\ from_server # <<>> /\ from_server' = Tail(from_server)
      /\ UNCHANGED <<got, pipe, ends, server, produced, status>> /\ Attached' = Attached
  BY DEF RecvFails, Receives, Returns, Attached
<1>2. ~status /\ Ended' /\ loop' \notin Output
  BY <1>1 DEF Output, Ended, Orderly
<1>3. LastWords'
  BY <1>1, LastWordsTail
<1>4. OutputRuns' /\ OutputLinked' /\ Orderly' /\ StatusMeansComplete'
  BY <1>1, <1>2 DEF OutputRuns, OutputLinked, Orderly, StatusMeansComplete, Attached
<1> QED
  BY <1>3, <1>4
-----------------------------------------------------------------------------
(* The input                                                               *)

\* The counts of the input
LEMMA InputType ==
  ASSUME TypeOK
  PROVE  /\ sent \in Seq(Byte) /\ message \in Seq(Byte) /\ pipe["stdin"] \in Seq(Byte)
         /\ Len(sent) \in Nat /\ Len(message) \in Nat /\ Len(pipe["stdin"]) \in Nat
         /\ InMessage \in Nat /\ written \in Nat /\ Len(sent) + InMessage \in Nat
<1>1. sent \in Seq(Byte) /\ message \in Seq(Byte) /\ pipe["stdin"] \in Seq(Byte) /\ written \in Nat
  BY DEF TypeOK
<1>2. Len(sent) \in Nat /\ Len(message) \in Nat /\ Len(pipe["stdin"]) \in Nat
  BY <1>1
<1>3. InMessage \in Nat
  BY <1>2 DEF InMessage
<1>4. Len(sent) + InMessage \in Nat
  BY <1>2, <1>3
<1> QED
  BY <1>1, <1>2, <1>3, <1>4

\* While the loop runs no Close was sent.
LEMMA SentIsPrefix ==
  ASSUME TypeOK, InputInv, ~Ended
  PROVE  Run(sent, "stdin", 0) /\ Len(sent) <= written
<1>1. Run(sent, "stdin", 0) /\ Len(sent) + InMessage + Len(pipe["stdin"]) = written
  BY DEF InputInv, InputRuns
<1>2. \A a \in Nat, b \in Nat, c \in Nat : a <= a + b + c
  OBVIOUS
<1> QED
  BY <1>1, <1>2, InputType

\* No input moves, and the loop does not turn to it or away from it unless it ends.
LEMMA InputFrame ==
  ASSUME TypeOK, InputInv, UNCHANGED <<sent, written>>, pipe'["stdin"] = pipe["stdin"],
         ends["stdin"] = "dropped" => ends'["stdin"] = "dropped",
         \/ UNCHANGED <<loop, message>>
         \/ ~Ended /\ loop \notin {"sending", "closing"} /\ loop' \notin {"sending", "closing"}
         \/ ~Ended /\ Ended'
  PROVE  InputInv'
<1>1. CASE UNCHANGED <<loop, message>>
  BY <1>1 DEF InputInv, InputRuns, ClosingIsLast, SentInput, InMessage, Ended
<1>2. CASE ~Ended /\ Ended'
  <2>1. Run(sent, "stdin", 0) /\ Len(sent) <= written
    BY <1>2, SentIsPrefix
  <2>2. loop' # "closing"
    BY <1>2 DEF Ended
  <2> QED
    BY <1>2, <2>1, <2>2 DEF InputInv, InputRuns, ClosingIsLast, SentInput
<1>3. CASE /\ ~Ended /\ ~Ended'
           /\ loop \notin {"sending", "closing"} /\ loop' \notin {"sending", "closing"}
  <2>1. Run(sent, "stdin", 0) /\ Len(sent) <= written
    BY <1>3, SentIsPrefix
  <2>2. loop' # "closing" /\ loop' # "sending" /\ loop # "sending" /\ InMessage' = InMessage
    BY <1>3 DEF InMessage
  <2>3. InputRuns'
    BY <1>3, <2>2 DEF InputInv, InputRuns
  <2> QED
    BY <2>1, <2>2, <2>3 DEF InputInv, ClosingIsLast, SentInput
<1> QED
  BY <1>1, <1>2, <1>3

\* The client writes a byte to stdin.
LEMMA ClientWritesInput ==
  ASSUME TypeOK, InputInv, ClientWrites, UNCHANGED <<loopVars, sent>>
  PROVE  InputInv'
<1>1. /\ ends["stdin"] = "taken" /\ ~Ended /\ written' = written + 1
      /\ pipe' = [pipe EXCEPT !["stdin"] = Append(@, <<"stdin", written + 1>>)]
      /\ UNCHANGED <<loop, message, sent>>
  BY DEF ClientWrites, loopVars
<1>2. /\ Run(sent, "stdin", 0) /\ (loop = "sending" => Run(message, "stdin", Len(sent)))
      /\ Run(pipe["stdin"], "stdin", Len(sent) + InMessage)
      /\ Len(sent) + InMessage + Len(pipe["stdin"]) = written
  BY <1>1 DEF InputInv, InputRuns
<1>3. loop # "closing"
  BY <1>1 DEF InputInv, ClosingIsLast
<1>4. pipe'["stdin"] = Append(pipe["stdin"], <<"stdin", Len(sent) + InMessage + Len(pipe["stdin"]) + 1>>)
  BY <1>1, <1>2 DEF TypeOK
<1>5. /\ Len(pipe'["stdin"]) = Len(pipe["stdin"]) + 1
      /\ Run(pipe'["stdin"], "stdin", Len(sent) + InMessage)
  BY <1>2, <1>4, InputType, RunAppend DEF Streams
<1>6. Len(sent) + InMessage + Len(pipe'["stdin"]) = written' /\ Len(sent) <= written'
  <2>1. \A a \in Nat, b \in Nat : a + (b + 1) = (a + b) + 1
    OBVIOUS
  <2>2. \A a \in Nat, b \in Nat : a <= b => a <= b + 1
    OBVIOUS
  <2> QED
    BY <1>1, <1>2, <1>5, <2>1, <2>2, InputType, SentIsPrefix
<1>7. InMessage' = InMessage /\ ~Ended'
  BY <1>1 DEF InMessage, Ended
<1> QED
  BY <1>1, <1>2, <1>3, <1>5, <1>6, <1>7 DEF InputInv, InputRuns, ClosingIsLast, SentInput

\* The loop takes what the pipe holds.
LEMMA StdinBytesInput ==
  ASSUME TypeOK, InputInv, StdinBytes
  PROVE  InputInv'
<1>1. /\ loop = "select" /\ loop' = "sending" /\ message' = pipe["stdin"]
      /\ pipe' = [pipe EXCEPT !["stdin"] = <<>>] /\ UNCHANGED <<sent, written>>
  BY DEF StdinBytes, toServerVars, clientVars
<1>2. pipe'["stdin"] = <<>> /\ Len(pipe'["stdin"]) = 0 /\ ~Ended /\ InMessage = 0
  BY <1>1 DEF TypeOK, Ended, InMessage
<1>3. Run(sent, "stdin", 0) /\ Len(sent) <= written
  BY <1>2, SentIsPrefix
<1>4. /\ Run(pipe["stdin"], "stdin", Len(sent) + 0) /\ Len(sent) + 0 = Len(sent)
      /\ Len(sent) + 0 + Len(pipe["stdin"]) = written
  BY <1>2, InputType DEF InputInv, InputRuns
<1>5. InMessage' = Len(pipe["stdin"])
  BY <1>1 DEF InMessage
<1>6. Run(pipe'["stdin"], "stdin", Len(sent) + InMessage')
  BY <1>2 DEF Run
<1>7. Len(sent) + InMessage' + Len(pipe'["stdin"]) = written
  BY <1>2, <1>4, <1>5, InputType
<1>8. Run(message', "stdin", Len(sent))
  BY <1>1, <1>4
<1> QED
  BY <1>1, <1>3, <1>6, <1>7, <1>8 DEF InputInv, InputRuns, ClosingIsLast, SentInput

\* The loop turns to the Close, or to a terminal size: neither is input.
LEMMA OtherMessageInput ==
  ASSUME TypeOK, InputInv, StdinClosed \/ ResizeArrives
  PROVE  InputInv'
<1>1. /\ loop = "select" /\ UNCHANGED <<sent, written, pipe, ends>>
      /\ \/ loop' = "sending" /\ message' = <<>>
         \/ /\ loop' = "closing" /\ message' = <<Close>>
            /\ ends["stdin"] = "dropped" /\ pipe["stdin"] = <<>>
  BY DEF StdinClosed, ResizeArrives, toServerVars, clientVars
<1>2. ~Ended /\ InMessage = 0 /\ InMessage' = 0
  BY <1>1 DEF Ended, InMessage
<1>3. Run(sent, "stdin", 0) /\ Len(sent) <= written
  BY <1>2, SentIsPrefix
<1>4. loop' = "sending" => Run(message', "stdin", Len(sent))
  BY <1>1 DEF Run
<1>5. InputRuns'
  BY <1>1, <1>2, <1>3, <1>4 DEF InputInv, InputRuns
<1> QED
  BY <1>1, <1>3, <1>5 DEF InputInv, ClosingIsLast, SentInput

\* A message goes out.
LEMMA SentInputMoves ==
  ASSUME TypeOK, InputInv, Sent
  PROVE  InputInv'
<1>1. /\ loop \in {"sending", "closing"} /\ sent' = sent \o message /\ message' = <<>>
      /\ loop' = IF loop = "closing" THEN "ok" ELSE "select"
      /\ UNCHANGED <<written, pipe, ends>>
  BY DEF Sent, clientVars
<1>2. ~Ended /\ Run(sent, "stdin", 0)
  BY <1>1, SentIsPrefix DEF Ended
<1>3. CASE loop = "sending"
  <2>1. InMessage = Len(message) /\ loop' = "select" /\ InMessage' = 0 /\ ~Ended'
    BY <1>1, <1>3 DEF InMessage, Ended
  <2>2. /\ Run(message, "stdin", Len(sent)) /\ Run(pipe["stdin"], "stdin", Len(sent) + Len(message))
        /\ Len(sent) + Len(message) + Len(pipe["stdin"]) = written
    BY <1>2, <1>3, <2>1 DEF InputInv, InputRuns
  <2>3. 0 + Len(sent) = Len(sent)
    BY InputType
  <2>4. Len(sent') = Len(sent) + Len(message) /\ Run(sent', "stdin", 0)
    BY <1>1, <1>2, <2>2, <2>3, InputType, RunConcat DEF Streams
  <2>5. Len(sent') + 0 = Len(sent) + Len(message) /\ Len(sent') <= written
    <3>1. \A a \in Nat, b \in Nat, c \in Nat : a + b + 0 = a + b /\ a + b <= a + b + c
      OBVIOUS
    <3>2. Len(sent) \in Nat /\ Len(message) \in Nat /\ Len(pipe["stdin"]) \in Nat
      BY InputType
    <3>3. Len(sent) + Len(message) + 0 = Len(sent) + Len(message) /\ Len(sent) + Len(message) <= written
      BY ONLY <2>2, <3>1, <3>2
    <3> QED
      BY ONLY <2>4, <3>3
  <2>6. InputRuns'
    BY <1>1, <2>1, <2>2, <2>4, <2>5 DEF InputRuns
  <2> QED
    BY <1>1, <2>1, <2>4, <2>5, <2>6 DEF InputInv, ClosingIsLast, SentInput
<1>4. CASE loop = "closing"
  <2>1. message = <<Close>> /\ pipe["stdin"] = <<>> /\ loop' = "ok" /\ Ended' /\ InMessage = 0
    BY <1>1, <1>4 DEF InputInv, ClosingIsLast, Ended, InMessage
  <2>2. Len(sent) = written
    <3>0. Len(sent) + InMessage + Len(pipe["stdin"]) = written
      BY <1>2 DEF InputInv, InputRuns
    <3>1. Len(sent) + 0 + Len(<<>>) = written
      BY ONLY <2>1, <3>0
    <3>2. Len(<<>>) = 0
      OBVIOUS
    <3>3. \A a \in Nat : a + 0 + 0 = a
      OBVIOUS
    <3> QED
      BY <3>1, <3>2, <3>3, InputType
  <2>3. sent = Bytes("stdin", 0 + 1, 0 + Len(sent))
    BY <1>2, InputType, RunIsBytes DEF Streams
  <2>4. sent = Bytes("stdin", 1, written)
    BY <2>2, <2>3, InputType
  <2>5. sent \o <<Close>> = Append(sent, Close)
    BY InputType
  <2>6. sent' = Append(Bytes("stdin", 1, written), Close)
    BY <1>1, <2>1, <2>4, <2>5
  <2> QED
    BY <1>1, <2>1, <2>6 DEF InputInv, InputRuns, ClosingIsLast, SentInput
<1> QED
  BY <1>1, <1>3, <1>4
-----------------------------------------------------------------------------
(* The invariant                                                           *)

\* The messages that carry no output
LEMMA MsgTypes ==
  /\ \A t \in {"status", "garbled status", "error"} : [type |-> t] \in Msg
  /\ \A s \in Output, b \in Seq(Byte) : [type |-> s, bytes |-> b] \in Msg
  /\ \A m \in Msg : m.type \in Output => m.bytes \in Seq(Byte)
  BY DEF Msg, Output

\* The client's steps on its ends and its handle: what is attached stays so, and what was
\* dropped stays dropped.
LEMMA ClientEnds ==
  ASSUME TypeOK,
         \/ \E e \in End : take(e) \/ ClientDrops(e)
         \/ ClientResizes \/ join \/ JoinReturns \/ DropHandle
  PROVE  /\ ends' \in [End -> {"absent", "handle", "taken", "dropped"}]
         /\ UNCHANGED <<pipe, got, written>> /\ Attached' = Attached
         /\ ends["stdin"] = "dropped" => ends'["stdin"] = "dropped"
<1>1. "stdin" \in End /\ Output \subseteq End
  BY DEF End
<1>2. ASSUME NEW e \in End, take(e) \/ ClientDrops(e)
      PROVE  /\ ends' \in [End -> {"absent", "handle", "taken", "dropped"}]
             /\ UNCHANGED <<pipe, got, written>>
             /\ \A x \in End : (ends'[x] = "absent") = (ends[x] = "absent")
             /\ \A x \in End : ends[x] = "dropped" => ends'[x] = "dropped"
  <2>1. UNCHANGED <<pipe, got, written>>
    BY <1>2 DEF take, ClientDrops
  <2>2. PICK v \in {"taken", "dropped"} : /\ ends' = [ends EXCEPT ![e] = v] /\ ends[e] # "absent"
                                        /\ ends[e] # "dropped"
    BY <1>2 DEF take, ClientDrops
  <2>3. ends' \in [End -> {"absent", "handle", "taken", "dropped"}]
    BY <2>2 DEF TypeOK
  <2>4. ASSUME NEW x \in End
        PROVE  /\ (ends'[x] = "absent") = (ends[x] = "absent")
               /\ ends[x] = "dropped" => ends'[x] = "dropped"
    <3>1. ends'[x] = IF x = e THEN v ELSE ends[x]
      BY <2>2 DEF TypeOK
    <3> QED
      BY <2>2, <3>1
  <2> QED
    BY <2>1, <2>3, <2>4
<1>3. ASSUME DropHandle
      PROVE  /\ ends' \in [End -> {"absent", "handle", "taken", "dropped"}]
             /\ UNCHANGED <<pipe, got, written>>
             /\ \A x \in End : (ends'[x] = "absent") = (ends[x] = "absent")
             /\ \A x \in End : ends[x] = "dropped" => ends'[x] = "dropped"
  <2>1. /\ ends' = [e \in End |-> IF ends[e] = "handle" THEN "dropped" ELSE ends[e]]
        /\ UNCHANGED <<pipe, got, written>>
    BY <1>3 DEF DropHandle
  <2>2. \A x \in End : ends'[x] = IF ends[x] = "handle" THEN "dropped" ELSE ends[x]
    BY <2>1
  <2>3. ends' \in [End -> {"absent", "handle", "taken", "dropped"}]
    BY <2>1 DEF TypeOK
  <2> QED
    BY <2>1, <2>2, <2>3
<1>4. ASSUME ClientResizes \/ join
      PROVE  UNCHANGED <<ends, pipe, got, written>>
  BY <1>4 DEF ClientResizes, join
<1>5. CASE \E e \in End : take(e) \/ ClientDrops(e)
  BY <1>1, <1>2, <1>5, AttachedIsFixed
<1>6. CASE DropHandle \/ JoinReturns
  BY <1>1, <1>3, <1>6, AttachedIsFixed DEF JoinReturns
<1>7. CASE ClientResizes \/ join
  BY <1>4, <1>7 DEF TypeOK, Attached
<1> QED
  BY <1>5, <1>6, <1>7

\* The client's steps
LEMMA ClientIInv ==
  ASSUME IInv, Client
  PROVE  IInv'
<1> USE DEF IInv
<1>0. /\ UNCHANGED <<loopVars, from_server, toServerVars, serverVars>>
      /\ UNCHANGED <<loop, message, status, from_server, sent, server, produced>>
  BY DEF Client, loopVars, toServerVars, serverVars
<1>1. CASE \/ \E e \in End : take(e) \/ ClientDrops(e)
           \/ ClientResizes \/ join \/ JoinReturns \/ DropHandle
  <2>1. /\ ends' \in [End -> {"absent", "handle", "taken", "dropped"}]
        /\ UNCHANGED <<pipe, got, written>> /\ Attached' = Attached
        /\ ends["stdin"] = "dropped" => ends'["stdin"] = "dropped"
    BY <1>1, ClientEnds
  <2>2. TypeOK'
    BY <1>0, <2>1 DEF TypeOK
  <2>3. OutputInv'
    BY <1>0, <2>1, OutputFrame
  <2>4. InputInv'
    BY <1>0, <2>1, InputFrame
  <2> QED
    BY <2>2, <2>3, <2>4
<1>2. ASSUME NEW s \in Output, ClientReads(s) PROVE IInv'
  <2>1. /\ UNCHANGED <<ends, written>>
        /\ pipe' = [pipe EXCEPT ![s] = Tail(@)] /\ pipe[s] # <<>>
        /\ got' = [got EXCEPT ![s] = Append(@, Head(pipe[s]))]
    BY <1>2 DEF ClientReads
  <2>2. /\ pipe[s] \in Seq(Byte) /\ got[s] \in Seq(Byte)
        /\ Tail(pipe[s]) \in Seq(Byte) /\ Append(got[s], Head(pipe[s])) \in Seq(Byte)
    <3>1. pipe[s] \in Seq(Byte) /\ got[s] \in Seq(Byte)
      BY DEF TypeOK
    <3> QED
      BY <2>1, <3>1
  <2>3. /\ pipe' \in [Output \cup {"stdin"} -> Seq(Byte)] /\ got' \in [Output -> Seq(Byte)]
        /\ pipe'["stdin"] = pipe["stdin"]
    BY <2>1, <2>2 DEF TypeOK, Output
  <2>4. TypeOK'
    BY <1>0, <2>1, <2>3 DEF TypeOK
  <2>5. OutputInv'
    BY <1>0, <1>2, ClientReadsOutput
  <2>6. InputInv'
    BY <1>0, <2>1, <2>3, InputFrame
  <2> QED
    BY <2>4, <2>5, <2>6
<1>3. CASE ClientWrites
  <2>1. /\ UNCHANGED <<ends, got>> /\ written' = written + 1
        /\ pipe' = [pipe EXCEPT !["stdin"] = Append(@, <<"stdin", written + 1>>)]
    BY <1>3 DEF ClientWrites
  <2>2. Append(pipe["stdin"], <<"stdin", written + 1>>) \in Seq(Byte)
    <3>1. <<"stdin", written + 1>> \in Byte
      BY DEF TypeOK, Byte
    <3> QED
      BY <3>1, InputType
  <2>3. /\ pipe' \in [Output \cup {"stdin"} -> Seq(Byte)] /\ written' \in Nat
        /\ \A s \in Output : pipe'[s] = pipe[s]
    BY <2>1, <2>2 DEF TypeOK, Output
  <2>4. TypeOK'
    BY <1>0, <2>1, <2>3 DEF TypeOK
  <2>5. OutputInv'
    BY <1>0, <2>1, <2>3, OutputFrame DEF Attached
  <2>6. InputInv'
    BY <1>0, <1>3, ClientWritesInput
  <2> QED
    BY <2>4, <2>5, <2>6
<1> QED
  BY <1>1, <1>2, <1>3 DEF Client

\* The steps of the server
LEMMA ServerIInv ==
  ASSUME IInv, Server
  PROVE  IInv'
<1> USE DEF IInv
<1>0. /\ UNCHANGED <<clientVars, pipe, loopVars>>
      /\ UNCHANGED <<ends, got, written, pipe, loop, message, status>> /\ Attached' = Attached
  BY DEF Server, loopVars, clientVars, Attached
<1>1. ASSUME sent' = sent PROVE InputInv'
  BY <1>0, <1>1, InputFrame
<1>2. ASSUME NEW s \in Output, NEW n \in 1..MaxOutput, ProcessWrites(s, n) PROVE IInv'
  <2>1. n \in Nat \ {0} /\ produced[s] \in Nat /\ s \in Streams /\ from_server \in Seq(Msg)
    BY DEF TypeOK, Output, Streams
  <2>2. Bytes(s, produced[s] + 1, produced[s] + n) \in Seq(Byte)
    BY <2>1, BytesAreRun
  <2>3. [type |-> s, bytes |-> Bytes(s, produced[s] + 1, produced[s] + n)] \in Msg
    BY <2>2, MsgTypes
  <2>4. /\ from_server' = Append(from_server, [type |-> s, bytes |-> Bytes(s, produced[s] + 1, produced[s] + n)])
        /\ produced' = [produced EXCEPT ![s] = @ + n] /\ UNCHANGED <<sent, server>>
    BY <1>2 DEF ProcessWrites, Sends, toServerVars
  <2>5. from_server' \in Seq(Msg)
    BY <2>1, <2>3, <2>4, MsgAppend
  <2>6. produced[s] + n \in Nat
    BY <2>1
  <2>7. TypeOK'
    BY <1>0, <2>4, <2>5, <2>6 DEF TypeOK
  <2>8. OutputInv'
    BY <1>0, <1>2, <2>1, ProcessWritesOutput
  <2> QED
    BY <1>1, <2>4, <2>7, <2>8
<1>3. ASSUME NEW t \in {"status", "garbled status", "error"},
             server = "running", server' = "closed", UNCHANGED <<sent, produced>>,
             from_server' = from_server \/ from_server' = Append(from_server, [type |-> t])
      PROVE  IInv'
  <2>1. [type |-> t] \in Msg /\ from_server \in Seq(Msg)
    BY MsgTypes DEF TypeOK
  <2>2. from_server' \in Seq(Msg)
    BY <1>3, <2>1, MsgAppend
  <2>3. TypeOK'
    BY <1>0, <1>3, <2>2 DEF TypeOK
  <2>4. OutputInv'
    BY <1>0, <1>3, LastWordsOutput
  <2> QED
    BY <1>1, <1>3, <2>3, <2>4
<1>4. CASE Exits
  <2>1. PICK t \in {"status", "garbled status"} : ProcessExits(t)
    BY <1>4 DEF Exits
  <2>2. /\ server = "running" /\ server' = "closed" /\ UNCHANGED <<sent, produced>>
        /\ from_server' = Append(from_server, [type |-> t])
    BY <2>1 DEF ProcessExits, Sends, toServerVars
  <2> QED
    BY <1>3, <2>2
<1>5. CASE ServerCloses(<<>>) \/ ServerCloses(<<[type |-> "error"]>>)
  <2>1. /\ server = "running" /\ server' = "closed" /\ UNCHANGED <<sent, produced>>
        /\ \/ from_server' = from_server \o <<>>
           \/ from_server' = from_server \o <<[type |-> "error"]>>
    BY <1>5 DEF ServerCloses, toServerVars
  <2>2. from_server \in Seq(Msg) /\ [type |-> "error"] \in Msg
    BY MsgTypes DEF TypeOK
  <2>3. \A m \in Msg : from_server \o <<>> = from_server /\ from_server \o <<m>> = Append(from_server, m)
    BY <2>2
  <2> QED
    BY <1>3, <2>1, <2>2, <2>3
<1>6. CASE ServerReads
  <2>1. UNCHANGED <<from_server, sent, server, produced>>
    BY <1>6 DEF ServerReads, serverVars
  <2>2. TypeOK'
    BY <1>0, <2>1 DEF TypeOK
  <2>3. OutputInv'
    BY <1>0, <2>1, OutputFrame
  <2> QED
    BY <1>1, <2>1, <2>2, <2>3
<1> QED
  BY <1>2, <1>4, <1>5, <1>6 DEF Server
\* The steps of the loop
LEMMA LoopIInv ==
  ASSUME IInv, start_message_loop
  PROVE  IInv'
<1> USE DEF IInv
<1>1. ASSUME Ended', ~Ended, UNCHANGED <<ends, pipe, got, written, message, status, from_server, sent, server, produced>>
      PROVE  IInv'
  <2>1. TypeOK' /\ Attached' = Attached
    BY <1>1 DEF TypeOK, Ended, Attached
  <2> QED
    BY <1>1, <2>1, OutputFrame, InputFrame
<1>2. ASSUME NEW s \in Output, RecvOutput(s) PROVE IInv'
  <2>1. /\ loop = "select" /\ from_server # <<>> /\ Head(from_server).type = s
        /\ from_server' = Tail(from_server)
        /\ UNCHANGED <<ends, pipe, got, written, status, sent, server, produced>>
        /\ \/ UNCHANGED <<loop, message>>
           \/ loop' = s /\ message' = Head(from_server).bytes
    BY <1>2 DEF RecvOutput, Receives, clientVars, toServerVars, serverVars, loopVars
  <2>2. Head(from_server) \in Msg /\ Tail(from_server) \in Seq(Msg)
    BY <2>1 DEF TypeOK
  <2>3. Head(from_server).bytes \in Seq(Byte)
    BY <2>1, <2>2, MsgTypes
  <2>4. TypeOK'
    BY <2>1, <2>2, <2>3 DEF TypeOK
  <2>5. ~Ended /\ loop \notin {"sending", "closing"} /\ loop' \notin {"sending", "closing"}
    BY <2>1 DEF Ended, Output
  <2>6. InputInv'
    BY <2>1, <2>5, InputFrame
  <2> QED
    BY <1>2, <2>4, <2>6, RecvOutputOutput
<1>3. ASSUME NEW s \in Output, WriteOutput(s) PROVE IInv'
  <2>1. /\ loop = s /\ pipe' = [pipe EXCEPT ![s] = Append(@, Head(message))]
        /\ message' = Tail(message) /\ loop' = IF Len(message) = 1 THEN "select" ELSE s
        /\ UNCHANGED <<got, ends, written, from_server, server, produced, status, sent>>
    BY <1>3 DEF WriteOutput, clientVars, toServerVars, serverVars
  <2>2. message \in Seq(Byte) /\ message # <<>> /\ pipe[s] \in Seq(Byte)
    BY <2>1 DEF TypeOK, OutputInv, OutputRuns, Orderly
  <2>3. Append(pipe[s], Head(message)) \in Seq(Byte) /\ Tail(message) \in Seq(Byte)
    BY <2>2
  <2>4. pipe' \in [Output \cup {"stdin"} -> Seq(Byte)] /\ pipe'["stdin"] = pipe["stdin"]
    BY <2>1, <2>3 DEF TypeOK, Output
  <2>5. loop' \in Output \cup {"select"}
    BY <2>1
  <2>6. TypeOK'
    BY <2>1, <2>3, <2>4, <2>5 DEF TypeOK
  <2>7. ~Ended /\ loop \notin {"sending", "closing"} /\ loop' \notin {"sending", "closing"}
    BY <2>1, <2>5 DEF Ended, Output
  <2>8. InputInv'
    BY <2>1, <2>4, <2>7, InputFrame
  <2> QED
    BY <1>3, <2>6, <2>8, WriteOutputOutput
<1>4. ASSUME NEW s \in Output, WriteFails(s) PROVE IInv'
  <2>1. loop = s /\ loop' = "err"
        /\ UNCHANGED <<ends, pipe, got, written, message, status, from_server, sent, server, produced>>
    BY <1>4 DEF WriteFails, Returns, clientVars, toServerVars, serverVars
  <2> QED
    BY <1>1, <2>1 DEF Ended, Output
<1>5. CASE RecvStatus \/ RecvFails
  <2>1. /\ loop = "select" /\ from_server # <<>> /\ from_server' = Tail(from_server)
        /\ UNCHANGED <<ends, pipe, got, written, message, sent, server, produced>>
        /\ loop' \in {"ok", "err"}
    BY <1>5 DEF RecvStatus, RecvFails, Receives, Returns, clientVars, toServerVars, serverVars
  <2>2. status' \in BOOLEAN
    <3>1. status' = status \/ status' = TRUE
      <4>1. CASE Returns("err")
        BY ONLY <4>1 DEF Returns
      <4>2. CASE ~Returns("err")
        BY <1>5, <4>2, Zenon DEF RecvStatus, RecvFails
      <4> QED
        BY <4>1, <4>2
    <3> QED
      BY <3>1, Zenon DEF TypeOK
  <2>3. Tail(from_server) \in Seq(Msg)
    BY <2>1 DEF TypeOK
  <2>4. TypeOK'
    BY <2>1, <2>2, <2>3 DEF TypeOK
  <2>5. ~Ended /\ Ended'
    BY <2>1 DEF Ended
  <2>6. InputInv'
    BY <2>1, <2>5, InputFrame
  <2> QED
    BY <1>5, <2>4, <2>6, RecvStatusOutput, RecvFailsOutput
<1>6. CASE RecvClosed \/ SendFails
  <2>1. /\ loop \in {"select", "sending", "closing"} /\ loop' \in {"ok", "err"}
        /\ UNCHANGED <<ends, pipe, got, written, message, status, from_server, sent, server, produced>>
    BY <1>6 DEF RecvClosed, SendFails, Returns, clientVars, toServerVars, serverVars
  <2> QED
    BY <1>1, <2>1 DEF Ended
<1>7. ASSUME UNCHANGED <<ends, got, written, status, from_server, server, produced>>,
             \A s \in Output : pipe'[s] = pipe[s], ~Ended, loop \notin Output, loop' \notin Output
      PROVE  OutputInv'
  BY <1>7, OutputFrame DEF Attached
<1>8. CASE StdinBytes
  <2>1. /\ loop = "select" /\ loop' = "sending" /\ message' = pipe["stdin"]
        /\ pipe' = [pipe EXCEPT !["stdin"] = <<>>]
        /\ UNCHANGED <<ends, got, written, status, from_server, sent, server, produced>>
    BY <1>8 DEF StdinBytes, clientVars, toServerVars, serverVars
  <2>2. /\ pipe' \in [Output \cup {"stdin"} -> Seq(Byte)] /\ \A s \in Output : pipe'[s] = pipe[s]
        /\ pipe["stdin"] \in Seq(Byte)
    BY <2>1 DEF TypeOK, Output
  <2>3. TypeOK'
    BY <2>1, <2>2 DEF TypeOK
  <2>4. OutputInv'
    BY <1>7, <2>1, <2>2 DEF Ended, Output
  <2> QED
    BY <1>8, <2>3, <2>4, StdinBytesInput
<1>9. CASE StdinClosed \/ ResizeArrives
  <2>1. /\ loop = "select" /\ loop' \in {"sending", "closing"} /\ message' \in {<<Close>>, <<>>}
        /\ UNCHANGED <<ends, pipe, got, written, status, from_server, sent, server, produced>>
    BY <1>9 DEF StdinClosed, ResizeArrives, clientVars, toServerVars, serverVars
  <2>2. <<Close>> \in Seq(Byte) /\ <<>> \in Seq(Byte)
    BY DEF Close, Byte
  <2>3. TypeOK'
    BY <2>1, <2>2 DEF TypeOK
  <2>4. OutputInv'
    BY <1>7, <2>1 DEF Ended, Output
  <2> QED
    BY <1>9, <2>3, <2>4, OtherMessageInput
<1>10. CASE ResizeClosed
  <2>1. UNCHANGED <<ends, pipe, got, written, loop, message, status, from_server, sent, server, produced>>
    BY <1>10 DEF ResizeClosed, clientVars, toServerVars, serverVars
  <2>2. TypeOK' /\ Attached' = Attached
    BY <2>1 DEF TypeOK, Attached
  <2> QED
    BY <2>1, <2>2, OutputFrame, InputFrame
<1>11. CASE Sent
  <2>1. /\ loop \in {"sending", "closing"} /\ sent' = sent \o message /\ message' = <<>>
        /\ loop' \in {"ok", "select"}
        /\ UNCHANGED <<ends, pipe, got, written, status, from_server, server, produced>>
    BY <1>11 DEF Sent, clientVars, serverVars
  <2>2. sent \o message \in Seq(Byte) /\ <<>> \in Seq(Byte)
    BY InputType
  <2>3. TypeOK'
    BY <2>1, <2>2 DEF TypeOK
  <2>4. OutputInv'
    BY <1>7, <2>1 DEF Ended, Output
  <2> QED
    BY <1>11, <2>3, <2>4, SentInputMoves
<1> QED
  BY <1>2, <1>3, <1>4, <1>5, <1>6, <1>8, <1>9, <1>10, <1>11 DEF start_message_loop

\* Nothing has been written, sent or received when the process is attached.
LEMMA InitIInv == Init => IInv
<1> SUFFICES ASSUME Init PROVE IInv
  OBVIOUS
<1>1. /\ ends \in [End -> {"absent", "handle", "taken", "dropped"}]
      /\ pipe = [s \in Output \cup {"stdin"} |-> <<>>] /\ got = [s \in Output |-> <<>>]
      /\ written = 0 /\ loop = "select" /\ message = <<>> /\ status = FALSE
      /\ from_server = <<>> /\ sent = <<>> /\ server = "running"
      /\ produced = [s \in Output |-> 0]
  BY DEF Init
<1>2. TypeOK
  <2>1. <<>> \in Seq(Byte) /\ <<>> \in Seq(Msg) /\ 0 \in Nat
    OBVIOUS
  <2>2. /\ pipe \in [Output \cup {"stdin"} -> Seq(Byte)] /\ got \in [Output -> Seq(Byte)]
        /\ produced \in [Output -> Nat]
    BY <1>1, <2>1
  <2>3. status \in BOOLEAN
    BY <1>1, Zenon
  <2> QED
    BY <1>1, <2>1, <2>2, <2>3 DEF TypeOK
<1>3. \A s \in Output : pipe[s] = <<>> /\ got[s] = <<>> /\ produced[s] = 0
  BY <1>1
<1>4. pipe["stdin"] = <<>> /\ Len(<<>>) = 0 /\ \A s, n : Run(<<>>, s, n)
  BY <1>1 DEF Run
<1>5. OutputInv
  <2>1. OutputRuns
    BY <1>1, <1>3, <1>4 DEF OutputRuns, Attached, Output
  <2>2. OutputLinked
    <3> SUFFICES ASSUME NEW s \in Attached PROVE Linked(from_server, s, Arrived(s), produced[s])
      BY DEF OutputLinked
    <3>1. s \in Output /\ loop # s
      BY <1>1 DEF Attached, Output
    <3>2. Arrived(s) = Len(got[s]) + Len(pipe[s])
      BY <1>2, <3>1, ArrivedType
    <3>3. Len(got[s]) = 0 /\ Len(pipe[s]) = 0 /\ produced[s] = 0
      BY <1>3, <1>4, <3>1
    <3>4. Arrived(s) = 0
      BY ONLY <3>2, <3>3
    <3>5. Linked(<<>>, s, 0, 0)
      BY LinkedEmpty
    <3> QED
      BY ONLY <1>1, <3>3, <3>4, <3>5
  <2>3. Orderly /\ LastWords /\ StatusMeansComplete
    <3>1. ~status
      BY <1>1, Zenon
    <3>2. 1..Len(from_server) = {}
      BY <1>1
    <3>3. loop \notin Output
      BY <1>1 DEF Output
    <3> QED
      BY <3>1, <3>2, <3>3 DEF Orderly, LastWords, StatusMeansComplete
  <2> QED
    BY <2>1, <2>2, <2>3 DEF OutputInv
<1>6. InputInv
  <2>1. InMessage = 0
    BY <1>1 DEF InMessage
  <2> QED
    BY <1>1, <1>4, <2>1 DEF InputInv, InputRuns, ClosingIsLast, SentInput
<1> QED
  BY <1>2, <1>5, <1>6 DEF IInv

\* Every step keeps the invariant.
LEMMA NextIInv == IInv /\ [Next]_vars => IInv'
<1> SUFFICES ASSUME IInv, [Next]_vars PROVE IInv'
  OBVIOUS
<1>1. CASE Abort
  <2>1. /\ ~Ended /\ loop' = "aborted"
        /\ UNCHANGED <<ends, pipe, got, written, message, status, from_server, sent, server, produced>>
    BY <1>1 DEF Abort, abort, clientVars, toServerVars, serverVars
  <2>2. TypeOK' /\ Attached' = Attached /\ Ended'
    BY <2>1 DEF IInv, TypeOK, Ended, Attached
  <2> QED
    BY <2>1, <2>2, OutputFrame, InputFrame DEF IInv
<1>2. CASE UNCHANGED vars
  <2>1. UNCHANGED <<ends, pipe, got, written, loop, message, status, from_server, sent, server, produced>>
    BY <1>2 DEF vars
  <2>2. TypeOK' /\ Attached' = Attached
    BY <2>1 DEF IInv, TypeOK, Attached
  <2> QED
    BY <2>1, <2>2, OutputFrame, InputFrame DEF IInv
<1> QED
  BY <1>1, <1>2, ClientIInv, ServerIInv, LoopIInv DEF Next

\* The parts of the invariant that are not themselves promised: types, and where the bytes
\* are that have not arrived yet.
THEOREM Invariant == Spec => []IInv
  BY InitIInv, NextIInv, PTL DEF Spec

\* Runs that follow each other are the output without a gap.
LEMMA RunsAreIntact ==
  ASSUME TypeOK, OutputRuns
  PROVE  OutputIntact
<1> SUFFICES ASSUME NEW s \in Attached
             PROVE  LET stream == got[s] \o pipe[s] \o (IF loop = s THEN message ELSE <<>>)
                    IN  stream = Bytes(s, 1, Len(stream))
  BY DEF OutputIntact
<1> DEFINE rest == IF loop = s THEN message ELSE <<>>
           stream == got[s] \o pipe[s] \o rest
<1>1. s \in Output /\ s \in Streams /\ got[s] \in Seq(Byte) /\ pipe[s] \in Seq(Byte)
  BY DEF Attached, Output, Streams, TypeOK
<1>2. rest \in Seq(Byte) /\ Run(rest, s, Len(got[s]) + Len(pipe[s]))
  <2>1. CASE loop = s
    BY <2>1 DEF TypeOK, OutputRuns
  <2>2. CASE loop # s
    <3>1. rest = <<>> /\ <<>> \in Seq(Byte)
      BY <2>2
    <3>2. Run(<<>>, s, Len(got[s]) + Len(pipe[s]))
      BY DEF Run
    <3> QED
      BY <3>1, <3>2
  <2> QED
    BY <2>1, <2>2
<1>3. Run(got[s], s, 0) /\ Run(pipe[s], s, Len(got[s])) /\ Len(got[s]) = 0 + Len(got[s])
  <2>1. Run(got[s], s, 0) /\ Run(pipe[s], s, Len(got[s]))
    BY DEF OutputRuns
  <2>2. \A a \in Nat : a = 0 + a
    OBVIOUS
  <2>3. Len(got[s]) \in Nat
    BY <1>1
  <2> QED
    BY ONLY <2>1, <2>2, <2>3
<1> HIDE DEF rest
<1>4. /\ got[s] \o pipe[s] \in Seq(Byte) /\ Len(got[s] \o pipe[s]) = Len(got[s]) + Len(pipe[s])
      /\ Run(got[s] \o pipe[s], s, 0)
  BY <1>1, <1>3, RunConcat
<1>5. Len(got[s]) + Len(pipe[s]) = 0 + Len(got[s] \o pipe[s])
  BY <1>4
<1>6. stream \in Seq(Byte) /\ Run(stream, s, 0)
  BY <1>1, <1>2, <1>4, <1>5, RunConcat
<1> HIDE DEF stream
<1>7. stream = Bytes(s, 0 + 1, 0 + Len(stream)) /\ 0 + 1 = 1 /\ 0 + Len(stream) = Len(stream)
  BY <1>1, <1>6, RunIsBytes
<1> QED
  BY <1>7 DEF stream, rest

\* Whatever the sizes of the pipes, of the window and of the messages: what the client has
\* got and can still get of an output is what the process wrote, in order and without a
\* gap, and all of it once the status was handed over.
THEOREM OutputArrives == Spec => []OutputIsComplete
<1>1. IInv => OutputIsComplete
  BY RunsAreIntact DEF IInv, OutputInv, OutputIsComplete
<1> QED
  BY <1>1, Invariant, PTL

\* The server gets the input in order and, if it gets a Close, all of it before that.
THEOREM InputBeforeClose == Spec => []CloseAfterInput
<1>1. IInv => CloseAfterInput
  <2> SUFFICES ASSUME IInv PROVE CloseAfterInput
    OBVIOUS
  <2>1. TypeOK /\ SentInput
    BY DEF IInv, InputInv
  <2>2. CASE Run(sent, "stdin", 0) /\ Len(sent) <= written
    <3>1. sent = Bytes("stdin", 0 + 1, 0 + Len(sent))
      BY <2>1, <2>2, InputType, RunIsBytes DEF Streams
    <3>2. 0 + 1 = 1 /\ 0 + Len(sent) = Len(sent) /\ Len(sent) \in 0..written
      BY <2>1, <2>2, InputType
    <3>3. sent = Bytes("stdin", 1, Len(sent))
      BY ONLY <3>1, <3>2
    <3> QED
      BY <3>2, <3>3 DEF CloseAfterInput
  <2>3. CASE sent = Append(Bytes("stdin", 1, written), Close)
    BY <2>3 DEF CloseAfterInput
  <2> QED
    BY <2>1, <2>2, <2>3 DEF SentInput
<1> QED
  BY <1>1, Invariant, PTL
=============================================================================
