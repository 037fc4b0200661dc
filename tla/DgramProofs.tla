----------------------------- MODULE DgramProofs -----------------------------
(***************************************************************************)
(* Proofs about the datagram socket of Dgram.  The invariant says what may *)
(* be running on what, and, for every moment of a handler and not only for *)
(* the turns of the event loop, what the watchers, the queue and what has  *)
(* been sent owe to what is running.                                       *)
(***************************************************************************)
EXTENDS Dgram, TLAPS

\* A running function, a frame of the queue, a vec that has been sent.
Names      == {"read_loop", "write_loop", "write_done", "flush"} \cup Callbacks
Activation == [at : Names, n : Nat]
Chained    == [id : Nat, eos : BOOLEAN, pos : Nat, ctl : BOOLEAN, lim : Nat]
SentVec    == Nat \X Nat \X Int

TypeOK ==
  /\ phase \in {"open", "fini", "assert"}
  /\ stack \in Seq(Activation)
  /\ bind \in BOOLEAN /\ connect \in BOOLEAN /\ shutdown \in BOOLEAN
  /\ sysErrno \in BOOLEAN /\ noFrames \in BOOLEAN
  /\ pauseLevel \in Nat /\ readWant \in BOOLEAN /\ readWatch \in BOOLEAN
  /\ readFrame \in Nat \cup {NoFrame}
  /\ writeOpen \in BOOLEAN /\ writeReady \in BOOLEAN
  /\ writeWant \in BOOLEAN /\ writeWatch \in BOOLEAN
  /\ queue \in Seq(Chained) /\ tail \in Nat
  /\ inbox \in Seq(BOOLEAN) /\ received \in Nat /\ offered \in Int /\ eosIn \in Nat
  /\ accepted \in Seq(Kinds) /\ wire \in Seq(SentVec) /\ lost \in SUBSET Nat
  /\ stalled \in BOOLEAN /\ stopped \in BOOLEAN

\* The functions that are running.  The loops are always the innermost one; the
\* read loop, and what follows the writing of an event, run on the event loop.
Active == {stack[i].at : i \in DOMAIN stack}
Innermost == {"read_loop", "write_loop"}
Outermost == {"read_loop", "read:full", "write_done"}
Shape ==
  \A i \in DOMAIN stack :
    /\ stack[i].at \in Innermost => i = 1
    /\ stack[i].at \in Outermost => i = Len(stack)

\* The read watcher is exact at every moment, and a socket that has been shut
\* down, as it is before the end of the stream is handed up, does not read.
Reading ==
  /\ readWatch <=> readWant /\ pauseLevel = 0 /\ ~shutdown
  /\ shutdown => ~readWant /\ "read_loop" \notin Active
  /\ eosIn > 0 => shutdown

\* What waits in the queue is waited for, or being written, or about to be given
\* up with the socket.
Writable ==
  queue # <<>> /\ ~shutdown /\ ~stopped /\ ~stalled =>
    \/ writeWatch /\ writeWant
    \/ "write_loop" \in Active \/ "error" \in Active

\* The frames of the queue are the last ones accepted, and write_frame_last
\* points where the next one belongs: stated of any frames "acc" accepted, queue
\* "q", vecs "w" sent, frames "l" lost.
ItemOk(q, n, acc) ==
  /\ q.id = n /\ n \in DOMAIN acc
  /\ q.eos <=> acc[n] = "eos"
  /\ q.ctl <=> HasControl(acc[n])
  /\ q.eos => q.pos = 0
  /\ ~q.eos /\ ~q.ctl => q.pos < q.lim /\ q.lim = DataVecs(acc[n])
Items(q, acc) ==
  /\ Len(q) <= Len(acc)
  /\ \A i \in DOMAIN q : ItemOk(q[i], Len(acc) - Len(q) + i, acc)
Queueing ==
  /\ Items(queue, accepted)
  /\ \A i \in DOMAIN queue : queue[i].eos => ~writeOpen
  /\ queue # <<>> => tail = Len(accepted)
  /\ queue = <<>> /\ writeOpen => tail = 0
  /\ lost \subseteq 1 .. Len(accepted) - Len(queue)

\* What has been sent is in order, and of a frame in the queue what comes before
\* its vec_position.
SentIn(w, n)      == {w[a][2] : a \in {b \in DOMAIN w : w[b][1] = n}}
KeptIn(n, acc, l) == n \notin l /\ ~HasControl(acc[n])
Ordered(acc, q, w, l) ==
  /\ \A a \in DOMAIN w : w[a][1] \in DOMAIN acc
  /\ \A a \in DOMAIN w, i \in DOMAIN q : w[a][1] <= q[i].id
  /\ \A a, b \in DOMAIN w :
       a < b /\ KeptIn(w[a][1], acc, l) /\ KeptIn(w[b][1], acc, l) =>
         Precedes(w[a], w[b])
Complete(acc, q, w, l) ==
  \A n \in DOMAIN acc : KeptIn(n, acc, l) =>
    \/ n <= Len(acc) - Len(q) /\ SentIn(w, n) = Whole(acc[n])
    \/ \E i \in DOMAIN q : q[i].id = n /\ SentIn(w, n) = 0 .. q[i].pos - 1
Delivery ==
  /\ Ordered(accepted, queue, wire, lost)
  /\ Complete(accepted, queue, wire, lost)

Inv ==
  /\ TypeOK
  /\ phase = "fini" => stack = <<>>
  /\ phase = "open" => /\ Shape /\ Reading /\ Writable /\ Queueing /\ Delivery
  /\ phase = "assert" => \E n \in DOMAIN accepted : HasControl(accepted[n])
-----------------------------------------------------------------------------
\* The functions under the innermost one.
Below == {stack[i].at : i \in 2 .. Len(stack)}

LEMMA StackIsSeq ==
  ASSUME TypeOK
  PROVE  /\ Len(stack) \in Nat /\ DOMAIN stack = 1 .. Len(stack)
         /\ stack # <<>> => Len(stack) > 0
         /\ \A i \in DOMAIN stack : stack[i] \in Activation
BY DEF TypeOK

\* What is known of the running functions while a handler runs.
LEMMA InnermostRuns ==
  ASSUME TypeOK, Shape, stack # <<>>
  PROVE  /\ stack[1] \in Activation /\ Top = stack[1].at
         /\ Active = {Top} \cup Below
         /\ Below \cap Innermost = {}
         /\ Top \in Outermost => Below = {}
<1>1. stack[1] \in Activation /\ Top = stack[1].at
  BY StackIsSeq DEF Top
<1>2. DOMAIN stack = {1} \cup (2 .. Len(stack))
  BY StackIsSeq
<1>3. Active = {Top} \cup Below
  BY <1>1, <1>2 DEF Active, Below
<1>4. ASSUME NEW i \in 2 .. Len(stack)
      PROVE  stack[i].at \notin Innermost
  BY <1>2, <1>4 DEF Shape
<1>5. ASSUME Top \in Outermost
      PROVE  2 .. Len(stack) = {}
  <2>1. 1 = Len(stack)
    BY <1>1, <1>2, <1>5 DEF Shape
  <2>2. \A i \in 2 .. 1 : FALSE
    OBVIOUS
  <2> QED
    BY <2>1, <2>2
<1> QED
  BY <1>1, <1>3, <1>4, <1>5 DEF Below

\* The innermost function returns.
LEMMA Returning ==
  ASSUME TypeOK, Shape, stack # <<>>, Return
  PROVE  stack' \in Seq(Activation) /\ Shape' /\ Active' = Below
<1> DEFINE t == Tail(stack)
<1>1. /\ t \in Seq(Activation) /\ Len(t) = Len(stack) - 1
      /\ \A i \in 1 .. Len(t) : t[i] = stack[i + 1]
  BY DEF TypeOK
<1>2. stack' = t /\ DOMAIN t = 1 .. Len(t) /\ Len(t) \in Nat
  BY <1>1 DEF Return
<1> HIDE DEF t
<1>3. ASSUME NEW i \in DOMAIN t
      PROVE  t[i].at \notin Innermost /\ (t[i].at \in Outermost => i = Len(t))
  <2>1. i + 1 \in DOMAIN stack /\ i + 1 # 1 /\ t[i] = stack[i + 1]
    BY <1>1, <1>2, StackIsSeq
  <2> QED
    BY <2>1, <1>1, <1>2, StackIsSeq DEF Shape
<1>4. Shape'
  BY <1>2, <1>3 DEF Shape
<1>5. \A i \in 2 .. Len(stack) : i - 1 \in DOMAIN t /\ stack[i] = t[i - 1]
  BY <1>1, <1>2, StackIsSeq
<1>6. \A i \in DOMAIN t : i + 1 \in 2 .. Len(stack) /\ t[i] = stack[i + 1]
  BY <1>1, <1>2, StackIsSeq
<1>7. Active' = Below
  BY SMTT(30), <1>2, <1>5, <1>6 DEF Active, Below
<1> QED
  BY <1>1, <1>2, <1>4, <1>7

\* It becomes another one.
LEMMA Becoming ==
  ASSUME TypeOK, Shape, stack # <<>>, NEW a \in Activation, Become(<<a>>),
         a.at \in Outermost => Top \in Outermost
  PROVE  /\ stack' \in Seq(Activation) /\ Shape'
         /\ stack' # <<>> /\ stack'[1] = a /\ Active' = {a.at} \cup Below
<1> DEFINE t == Tail(stack)
<1>1. /\ t \in Seq(Activation) /\ Len(t) = Len(stack) - 1
      /\ \A i \in 1 .. Len(t) : t[i] = stack[i + 1]
  BY DEF TypeOK
<1>2. stack' = <<a>> \o t
  BY DEF Become
<1>3. /\ stack' \in Seq(Activation) /\ Len(stack') = Len(stack)
      /\ stack'[1] = a /\ \A i \in 2 .. Len(stack) : stack'[i] = stack[i]
  BY <1>1, <1>2 DEF TypeOK
<1>4. DOMAIN stack' = {1} \cup (2 .. Len(stack))
  <2>1. DOMAIN stack' = 1 .. Len(stack)
    BY <1>3
  <2> QED
    BY <2>1, StackIsSeq
<1>5. ASSUME NEW i \in DOMAIN stack'
      PROVE  /\ stack'[i].at \in Innermost => i = 1
             /\ stack'[i].at \in Outermost => i = Len(stack')
  <2>1. CASE i = 1
    <3>1. ASSUME a.at \in Outermost
          PROVE  1 = Len(stack)
      BY <3>1, InnermostRuns, StackIsSeq DEF Shape
    <3> QED
      BY <2>1, <3>1, <1>3
  <2>2. CASE i \in 2 .. Len(stack)
    BY <2>2, <1>3, StackIsSeq DEF Shape
  <2> QED
    BY <2>1, <2>2, <1>4
<1>6. Shape'
  BY <1>5 DEF Shape
<1>7. Active' = {a.at} \cup Below
  BY <1>3, <1>4 DEF Active, Below
<1> QED
  BY <1>3, <1>6, <1>7, StackIsSeq

\* A function is called by the event loop, or by the application in a callback.
LEMMA Calling ==
  ASSUME TypeOK, Shape, NEW a \in Activation, Call(<<a>>),
         Top \notin Innermost, a.at \in Outermost => stack = <<>>
  PROVE  /\ stack' \in Seq(Activation) /\ Shape'
         /\ stack' # <<>> /\ stack'[1] = a /\ Active' = {a.at} \cup Active
<1>1. stack' = <<a>> \o stack
  BY DEF Call
<1>2. /\ stack' \in Seq(Activation) /\ Len(stack') = Len(stack) + 1
      /\ stack'[1] = a
      /\ \A i \in 2 .. Len(stack) + 1 : stack'[i] = stack[i - 1]
  BY <1>1 DEF TypeOK
<1>3. DOMAIN stack' = {1} \cup (2 .. Len(stack) + 1)
  <2>1. DOMAIN stack' = 1 .. Len(stack) + 1
    BY <1>2
  <2> QED
    BY <2>1, StackIsSeq
<1>4. /\ \A i \in 2 .. Len(stack) + 1 : i - 1 \in DOMAIN stack
      /\ \A i \in DOMAIN stack : i + 1 \in 2 .. Len(stack) + 1
                                 /\ stack'[i + 1] = stack[i]
  BY <1>2, StackIsSeq
<1>5. ASSUME NEW i \in DOMAIN stack
      PROVE  stack[i].at \notin Innermost
  <2>1. stack[i].at \in Innermost => i = 1
    BY DEF Shape
  <2>2. stack # <<>>
    BY StackIsSeq
  <2> QED
    BY <2>1, <2>2 DEF Top
<1>6. ASSUME NEW i \in DOMAIN stack'
      PROVE  /\ stack'[i].at \in Innermost => i = 1
             /\ stack'[i].at \in Outermost => i = Len(stack')
  <2>1. CASE i = 1
    BY <2>1, <1>2
  <2>2. CASE i \in 2 .. Len(stack) + 1
    <3>1. i - 1 \in DOMAIN stack /\ stack'[i] = stack[i - 1]
      BY <2>2, <1>2, <1>4
    <3> QED
      BY <3>1, <2>2, <1>2, <1>5, StackIsSeq DEF Shape
  <2> QED
    BY <2>1, <2>2, <1>3
<1>7. Shape'
  BY <1>6 DEF Shape
<1>8. Active' = {a.at} \cup Active
  <2>1. ASSUME NEW i \in DOMAIN stack'
        PROVE  stack'[i].at \in {a.at} \cup Active
    BY <1>2, <1>3, <1>4 DEF Active
  <2>2. ASSUME NEW i \in DOMAIN stack
        PROVE  stack[i].at \in Active'
    BY <1>2, <1>3, <1>4 DEF Active
  <2>3. {a.at} \subseteq Active'
    BY <1>2, <1>3, <1>4 DEF Active
  <2> QED
    BY <2>1, <2>2, <2>3 DEF Active, Below
<1> QED
  BY <1>2, <1>7, <1>8, StackIsSeq

\* An event calls the write loop and what comes after it.
LEMMA CallingTwo ==
  ASSUME stack = <<>>, NEW a \in Activation, NEW b \in Activation, Call(<<a, b>>),
         a.at \notin Outermost, b.at \notin Innermost
  PROVE  /\ stack' \in Seq(Activation) /\ Shape'
         /\ stack' # <<>> /\ stack'[1] = a /\ Active' = {a.at, b.at}
<1>1. stack' = <<a, b>>
  BY DEF Call
<1>2. /\ stack' \in Seq(Activation) /\ DOMAIN stack' = {1, 2} /\ Len(stack') = 2
      /\ stack'[1] = a /\ stack'[2] = b
  BY <1>1
<1> QED
  BY <1>1, <1>2 DEF Shape, Active
-----------------------------------------------------------------------------
\* How a step changes what is running.
Sound == stack' \in Seq(Activation) /\ Shape' /\ Top' \in Active' \cup {"event_loop"}
Runs(at) ==
  /\ stack # <<>> /\ Top = at /\ at = stack[1].at /\ stack[1] \in Activation
  /\ Active = {at} \cup Below /\ Below \cap Innermost = {}
  /\ at \in Outermost => Below = {}
Returns(at)    == Runs(at) /\ Sound /\ Active' = Below
Becomes(at, S) == Runs(at) /\ Sound /\ Active' = S \cup Below
Calls(S)       == Sound /\ Active' = S \cup Active
Stays          == Sound /\ stack' = stack /\ Active' = Active

\* The innermost function is one of those that run.
LEMMA TopIsActive ==
  ASSUME stack' \in Seq(Activation)
  PROVE  Top' \in Active' \cup {"event_loop"}
<1>1. stack' # <<>> => 1 \in DOMAIN stack'
  OBVIOUS
<1> QED
  BY <1>1 DEF Top, Active

\* The names of the functions are types, and none is that of the event loop.
LEMMA NamesAre ==
  /\ {"read_loop", "write_loop", "write_done", "flush", "read:full", "read:eos",
      "error"} \subseteq Names
  /\ "event_loop" \notin Names
BY DEF Names, Callbacks

\* A handler runs as the innermost function.
LEMMA RunningRuns ==
  ASSUME TypeOK, Shape, NEW at \in Names, Running(at)
  PROVE  Runs(at)
<1>1. stack # <<>>
  BY NamesAre DEF Running, Top
<1> QED
  BY <1>1, InnermostRuns DEF Running, Runs

\* A handler that returns, and one that becomes another function.
LEMMA ReturnReturns ==
  ASSUME TypeOK, Shape, NEW at \in Names, Running(at), Return
  PROVE  Returns(at)
BY RunningRuns, Returning, TopIsActive DEF Runs, Returns, Sound

LEMMA ActTyped ==
  ASSUME NEW at \in Names, NEW n \in Nat
  PROVE  Act(at, n) \in Activation /\ Act(at, n).at = at /\ Act(at, n).n = n
BY DEF Act, Activation

LEMMA BecomeBecomes ==
  ASSUME TypeOK, Shape, NEW at \in Names, Running(at),
         NEW to \in Names, NEW n \in Nat,
         to \in Outermost => at \in Outermost, Become(<<Act(to, n)>>)
  PROVE  Becomes(at, {to})
<1>1. Runs(at)
  BY RunningRuns
<1>2. Act(to, n) \in Activation /\ Act(to, n).at = to
  BY ActTyped
<1>3. /\ stack' \in Seq(Activation) /\ Shape' /\ Active' = {to} \cup Below
  BY <1>1, <1>2, Becoming DEF Runs
<1> QED
  BY <1>1, <1>3, TopIsActive DEF Becomes, Sound

\* The number of turns a loop has taken.
LEMMA TurnsTyped ==
  ASSUME TypeOK, Shape, NEW at \in Names, Running(at)
  PROVE  stack[1].n \in Nat /\ stack[1].n + 1 \in Nat
<1>1. stack[1].n \in Nat
  BY RunningRuns DEF Runs, Activation
<1> QED
  BY <1>1

\* What each handler does to the stack: it returns, becomes what it calls, or
\* calls the write loop until there is nothing more to write.
LEMMA HandlerSteps ==
  ASSUME TypeOK, Shape
  PROVE  /\ ReadNoFrame \/ RecvAgain \/ ReadLoopsDone => Returns("read_loop")
         /\ RecvError => Becomes("read_loop", {"error"})
         /\ RecvZero => Returns("read_loop") \/ Becomes("read_loop", {"read:eos"})
         /\ RecvData => \/ Becomes("read_loop", {"read_loop"})
                        \/ Becomes("read_loop", {"read:full"})
         /\ \A up \in BOOLEAN, kept \in 0 .. MoreVecs : FullReturns(up, kept) =>
              IF readWant THEN Becomes("read:full", {"read_loop"})
              ELSE Returns("read:full")
         /\ EosReturns => Returns("read:eos")
         /\ ErrorReturns => Returns("error")
         /\ WriteLoopDone \/ WriteLoopsExceeded \/ SendAgain \/ SendLost =>
              Returns("write_loop")
         /\ WriteEos => Returns("write_loop") \/ Becomes("write_loop", {"read:eos"})
         /\ SendError => Becomes("write_loop", {"error"})
         /\ SendData => Becomes("write_loop", {"write_loop"})
         /\ WriteDone => Returns("write_done")
<1> USE NamesAre
<1>1. ASSUME ReadNoFrame \/ RecvAgain \/ ReadLoopsDone
      PROVE  Returns("read_loop")
  BY <1>1, ReturnReturns DEF ReadNoFrame, RecvAgain, ReadLoopsDone, ReadAgain, Receiving
<1>2. ASSUME RecvError
      PROVE  Becomes("read_loop", {"error"})
  BY <1>2, BecomeBecomes DEF RecvError, Error, Receiving, Outermost
<1>3. ASSUME RecvZero
      PROVE  Returns("read_loop") \/ Becomes("read_loop", {"read:eos"})
  <2>1. Running("read_loop") /\ (Return \/ Become(<<Act("read:eos", 0)>>))
    BY <1>3 DEF RecvZero, Receiving, ShutDownUplink
  <2> QED
    BY <2>1, ReturnReturns, BecomeBecomes DEF Outermost
<1>4. ASSUME RecvData
      PROVE  \/ Becomes("read_loop", {"read_loop"})
             \/ Becomes("read_loop", {"read:full"})
  <2>1. Running("read_loop") /\ \/ Become(<<Act("read:full", stack[1].n)>>)
                                \/ Become(<<Act("read_loop", stack[1].n + 1)>>)
    BY <1>4 DEF RecvData, Receiving, Deliver
  <2>2. stack[1].n \in Nat /\ stack[1].n + 1 \in Nat
    BY <2>1, TurnsTyped
  <2> QED
    BY <2>1, <2>2, BecomeBecomes DEF Outermost
<1>5. ASSUME NEW up \in BOOLEAN, NEW kept \in 0 .. MoreVecs, FullReturns(up, kept)
      PROVE  IF readWant THEN Becomes("read:full", {"read_loop"})
             ELSE Returns("read:full")
  <2>1. Running("read:full") /\ IF readWant
                                THEN Become(<<Act("read_loop", stack[1].n + 1)>>)
                                ELSE Return
    BY <1>5 DEF FullReturns
  <2>2. stack[1].n + 1 \in Nat
    BY <2>1, TurnsTyped
  <2> QED
    BY <2>1, <2>2, ReturnReturns, BecomeBecomes DEF Outermost
<1>6. EosReturns => Returns("read:eos")
  BY ReturnReturns DEF EosReturns
<1>7. ErrorReturns => Returns("error")
  BY ReturnReturns DEF ErrorReturns
<1>8. ASSUME WriteLoopDone \/ WriteLoopsExceeded \/ SendAgain \/ SendLost
      PROVE  Returns("write_loop")
  BY <1>8, ReturnReturns DEF WriteLoopDone, WriteLoopsExceeded, SendAgain, SendLost,
     WriteLater, Sending, Writing
<1>9. ASSUME WriteEos
      PROVE  Returns("write_loop") \/ Becomes("write_loop", {"read:eos"})
  <2>1. Running("write_loop") /\ (Return \/ Become(<<Act("read:eos", 0)>>))
    BY <1>9 DEF WriteEos, Writing, ShutDownUplink
  <2> QED
    BY <2>1, ReturnReturns, BecomeBecomes DEF Outermost
<1>10. ASSUME SendError
       PROVE  Becomes("write_loop", {"error"})
  BY <1>10, BecomeBecomes DEF SendError, Error, Sending, Writing, Outermost
<1>11. ASSUME SendData
       PROVE  Becomes("write_loop", {"write_loop"})
  <2>1. Running("write_loop") /\ Become(<<Act("write_loop", stack[1].n + 1)>>)
    BY <1>11 DEF SendData, Sending, Writing
  <2>2. stack[1].n + 1 \in Nat
    BY <2>1, TurnsTyped
  <2> QED
    BY <2>1, <2>2, BecomeBecomes DEF Outermost
<1>12. WriteDone => Returns("write_done")
  BY ReturnReturns DEF WriteDone
<1> QED
  BY <1>1, <1>2, <1>3, <1>4, <1>5, <1>6, <1>7, <1>8, <1>9, <1>10, <1>11, <1>12

LEMMA StaysThere ==
  ASSUME TypeOK, Shape, stack' = stack
  PROVE  Stays
BY TopIsActive DEF Stays, Sound, TypeOK, Shape, Active

\* The application runs in the event loop or in a callback, and nothing runs in
\* the event loop.
LEMMA AppIsCallback ==
  ASSUME AppRuns
  PROVE  Top \notin Innermost /\ Top # "write_done" /\ phase = "open"
BY DEF AppRuns, Top, Callbacks, Innermost

LEMMA LoopIsEmpty ==
  ASSUME TypeOK, Shape
  PROVE  /\ Running("event_loop") => stack = <<>>
         /\ stack = <<>> => Active = {} /\ Top = "event_loop"
<1>1. ASSUME Running("event_loop"), stack # <<>>
      PROVE  FALSE
  BY <1>1, InnermostRuns, NamesAre DEF Running, Activation
<1>2. stack = <<>> => DOMAIN stack = {}
  OBVIOUS
<1> QED
  BY <1>1, <1>2 DEF Active, Top

\* What the event loop, the application and ft_dgram_flush call.
LEMMA CallSteps ==
  ASSUME TypeOK, Shape
  PROVE  /\ OnRead => Stays \/ (Calls({"read_loop"}) /\ readWatch)
         /\ OnWrite => /\ Active = {}
                       /\ IF writeWant /\ queue # <<>>
                          THEN Calls({"write_loop", "write_done"}) ELSE Stays
         /\ \A kind \in Kinds : Write(kind) =>
              IF writeReady THEN Calls({"write_loop"}) ELSE Stays
         /\ Flush => Calls({"flush"})
         /\ FlushTurn => IF queue # <<>> THEN Calls({"write_loop"}) ELSE Returns("flush")
<1> USE NamesAre
<1>1. 0 \in Nat /\ 1 \in Nat
  OBVIOUS
<1>2. ASSUME NEW at \in Names, NEW n \in Nat, Call(<<Act(at, n)>>), Top \notin Innermost,
             at \in Outermost => stack = <<>>
      PROVE  Calls({at})
  BY <1>2, ActTyped, Calling, TopIsActive DEF Calls, Sound
<1>3. ASSUME OnRead
      PROVE  Stays \/ (Calls({"read_loop"}) /\ readWatch)
  <2>1. stack = <<>> /\ Top \notin Innermost
    BY <1>3, LoopIsEmpty DEF OnRead, Innermost
  <2>2. stack' = stack \/ (Call(<<Act("read_loop", 0)>>) /\ readWatch)
    BY <1>3 DEF OnRead
  <2> QED
    BY <2>1, <2>2, <1>1, <1>2, StaysThere
<1>4. ASSUME OnWrite
      PROVE  /\ Active = {}
             /\ IF writeWant /\ queue # <<>>
                THEN Calls({"write_loop", "write_done"}) ELSE Stays
  <2>1. stack = <<>> /\ Active = {}
    BY <1>4, LoopIsEmpty DEF OnWrite
  <2>2. IF writeWant /\ queue # <<>>
        THEN Call(<<Act("write_loop", 0), Act("write_done", 0)>>) ELSE stack' = stack
    BY <1>4 DEF OnWrite
  <2>3. CASE writeWant /\ queue # <<>>
    <3> DEFINE a == Act("write_loop", 0)
               b == Act("write_done", 0)
    <3>1. a \in Activation /\ b \in Activation /\ a.at = "write_loop" /\ b.at = "write_done"
      BY <1>1, ActTyped
    <3>2. Call(<<a, b>>)
      BY <2>2, <2>3
    <3>3. a.at \notin Outermost /\ b.at \notin Innermost
      BY <3>1 DEF Innermost, Outermost
    <3> HIDE DEF a, b
    <3>4. stack' \in Seq(Activation) /\ Shape' /\ Active' = {a.at, b.at}
      BY <2>1, <3>1, <3>2, <3>3, CallingTwo
    <3> QED
      BY <2>1, <2>3, <3>1, <3>4, TopIsActive DEF Calls, Sound
  <2>4. CASE ~(writeWant /\ queue # <<>>)
    BY <2>1, <2>2, <2>4, StaysThere
  <2> QED
    BY <2>1, <2>3, <2>4
<1>5. ASSUME NEW kind \in Kinds, Write(kind)
      PROVE  IF writeReady THEN Calls({"write_loop"}) ELSE Stays
  <2>1. Top \notin Innermost
    BY <1>5, AppIsCallback DEF Write, AppMayShutdown
  <2>2. IF writeReady THEN Call(<<Act("write_loop", 0)>>) ELSE stack' = stack
    BY <1>5 DEF Write, WatchOrSend
  <2> QED
    BY <2>1, <2>2, <1>1, <1>2, StaysThere DEF Outermost
<1>6. ASSUME Flush
      PROVE  Calls({"flush"})
  <2>1. Top \notin Innermost
    BY <1>6, AppIsCallback DEF Flush, AppMayShutdown
  <2>2. Call(<<Act("flush", IF writeReady THEN 1 ELSE 0)>>)
    BY <1>6 DEF Flush
  <2> QED
    BY <2>1, <2>2, <1>1, <1>2 DEF Outermost
<1>7. ASSUME FlushTurn
      PROVE  IF queue # <<>> THEN Calls({"write_loop"}) ELSE Returns("flush")
  <2>1. Running("flush") /\ Top \notin Innermost
    BY <1>7 DEF FlushTurn, Running, Innermost
  <2>2. IF queue # <<>> THEN Call(<<Act("write_loop", 0)>>) ELSE Return
    BY <1>7 DEF FlushTurn
  <2> QED
    BY <2>1, <2>2, <1>1, <1>2, ReturnReturns DEF Outermost
<1> QED
  BY <1>3, <1>4, <1>5, <1>6, <1>7

\* The rest of what the application and the network do leaves the stack alone.
Quiet ==
  \/ ReadStart \/ ReadStop \/ ReadPause \/ ReadResume \/ WriteStart \/ WriteStop
  \/ Bind \/ Connect \/ Fini \/ \E e \in BOOLEAN : Arrives(e)
LEMMA QuietSteps ==
  ASSUME TypeOK, Shape, Quiet
  PROVE  Stays
<1>1. stack' = stack
  BY DEF Quiet, ReadStart, ReadStop, ReadPause, ReadResume, WriteStart, WriteStop,
     Bind, Connect, Fini, Arrives
<1> QED
  BY <1>1, StaysThere

\* Every step leaves the running functions in their shape.
LEMMA StepsAreSound ==
  ASSUME TypeOK, Shape, Next
  PROVE  Sound
<1>1. CASE Handler
  <2>1. ASSUME NEW up \in BOOLEAN, NEW kept \in 0 .. MoreVecs, FullReturns(up, kept)
        PROVE  Sound
    BY <2>1, HandlerSteps DEF Returns, Becomes
  <2>2. CASE NoVecLeft
    BY <2>2, StaysThere DEF NoVecLeft, Stays
  <2>3. CASE \/ ErrorReturns \/ EosReturns \/ ReadNoFrame \/ RecvAgain \/ ReadLoopsDone
             \/ RecvError \/ RecvZero \/ RecvData
    BY <2>3, HandlerSteps DEF Returns, Becomes
  <2>4. CASE \/ WriteLoopDone \/ WriteLoopsExceeded \/ WriteEos \/ SendAgain
             \/ SendError \/ SendLost \/ SendData \/ WriteDone
    BY <2>4, HandlerSteps DEF Returns, Becomes
  <2>5. CASE FlushTurn
    BY <2>5, CallSteps DEF Returns, Calls
  <2> QED
    BY <1>1, <2>1, <2>2, <2>3, <2>4, <2>5 DEF Handler
<1>2. CASE EventLoop
  BY <1>2, CallSteps DEF EventLoop, Calls, Stays
<1>3. ASSUME NEW kind \in Kinds, Write(kind)
      PROVE  Sound
  BY <1>3, CallSteps DEF Calls, Stays
<1>4. CASE Flush
  BY <1>4, CallSteps DEF Calls
<1>5. CASE Quiet
  BY <1>5, QuietSteps DEF Stays
<1> QED
  BY <1>1, <1>2, <1>3, <1>4, <1>5 DEF Next, Application, Quiet

\* Only the function that returns, or becomes others, leaves the stack, and a
\* loop does not run below another function.
LEMMA OthersStay ==
  ASSUME NEW x
  PROVE  /\ \A at : Returns(at) /\ x # at => (x \in Active' <=> x \in Active)
         /\ \A at, S : Becomes(at, S) /\ x # at /\ x \notin S =>
              (x \in Active' <=> x \in Active)
         /\ \A S : Calls(S) /\ x \notin S => (x \in Active' <=> x \in Active)
         /\ Stays => (x \in Active' <=> x \in Active)
BY DEF Returns, Becomes, Runs, Calls, Stays

LEMMA LoopsLeave ==
  ASSUME NEW x \in Innermost
  PROVE  /\ \A at : Returns(at) => x \notin Active'
         /\ \A at, S : Becomes(at, S) /\ x \notin S => x \notin Active'
BY DEF Returns, Becomes, Runs

LEMMA LoopRuns ==
  ASSUME TypeOK, Shape, NEW at \in Names, Running(at)
  PROVE  at \in Active /\ phase = "open" /\ Runs(at)
BY RunningRuns DEF Runs, Running

\* Every step is one of an open socket, and leaves it open unless it finalises it
\* or an assertion fails.
LEMMA Phases ==
  ASSUME Next
  PROVE  phase = "open" /\ (phase' = "open" \/ Fini \/ NoVecLeft)
<1>1. CASE \/ ErrorReturns \/ EosReturns \/ ReadNoFrame \/ RecvAgain \/ ReadLoopsDone
           \/ RecvError \/ RecvZero \/ RecvData
  BY <1>1 DEF ErrorReturns, EosReturns, ReadNoFrame, RecvAgain, ReadLoopsDone,
     ReadAgain, RecvError, RecvZero, RecvData, Receiving, Running
<1>2. ASSUME NEW up \in BOOLEAN, NEW kept \in 0 .. MoreVecs, FullReturns(up, kept)
      PROVE  phase = "open" /\ phase' = "open"
  BY <1>2 DEF FullReturns, Running
<1>3. CASE \/ WriteLoopDone \/ WriteLoopsExceeded \/ WriteEos \/ NoVecLeft \/ SendAgain
           \/ SendError \/ SendLost \/ SendData \/ WriteDone \/ FlushTurn
  BY <1>3 DEF WriteLoopDone, WriteLoopsExceeded, WriteEos, NoVecLeft, SendAgain,
     SendError, SendLost, SendData, WriteDone, FlushTurn, Sending, Writing, Running
<1>4. CASE OnRead \/ OnWrite
  BY <1>4 DEF OnRead, OnWrite, Running
<1>5. ASSUME NEW kind \in Kinds, Write(kind)
      PROVE  phase = "open" /\ phase' = "open"
  BY <1>5 DEF Write, AppMayShutdown, AppRuns
<1>6. CASE \/ Flush \/ ReadStart \/ ReadStop \/ ReadPause \/ ReadResume \/ WriteStart
           \/ WriteStop \/ Bind \/ Connect \/ Fini
  BY <1>6 DEF Flush, ReadStart, ReadStop, ReadPause, ReadResume, WriteStart,
     WriteStop, Bind, Connect, Fini, AppMayShutdown, AppRuns, Running
<1>7. ASSUME NEW e \in BOOLEAN, Arrives(e)
      PROVE  phase = "open" /\ phase' = "open"
  BY <1>7 DEF Arrives
<1> QED
  BY <1>1, <1>2, <1>3, <1>4, <1>5, <1>6, <1>7
     DEF Next, Handler, EventLoop, Application
-----------------------------------------------------------------------------
\* The head of the queue, and the queue with another head or none.
LEMMA HeadTyped ==
  ASSUME TypeOK, queue # <<>>
  PROVE  /\ Len(queue) \in Nat \ {0} /\ 1 \in DOMAIN queue
         /\ Head(queue) = queue[1] /\ queue[1] \in Chained
         /\ ControlTaken(queue[1]) \in Chained /\ ControlTaken(queue[1]).id = queue[1].id
         /\ NextVec(ControlTaken(queue[1])) \in Chained
         /\ Control(queue[1]) \in Int
<1>1. /\ Len(queue) \in Nat \ {0} /\ 1 \in DOMAIN queue
      /\ Head(queue) = queue[1] /\ queue[1] \in Chained
  BY DEF TypeOK
<1>2. ASSUME NEW h \in Chained
      PROVE  ControlTaken(h) \in Chained /\ ControlTaken(h).id = h.id
  BY <1>2 DEF ControlTaken, Chained
<1>3. ASSUME NEW h \in Chained
      PROVE  NextVec(h) \in Chained
  BY <1>3 DEF NextVec, Chained
<1>4. ASSUME NEW h \in Chained
      PROVE  Control(h) \in Int
  <2>1. ControlTaken(h).lim \in Int
    BY <1>2 DEF Chained
  <2> QED
    BY <2>1 DEF Control, NoFrame
<1> QED
  BY <1>1, <1>2, <1>3, <1>4

LEMMA QueueTail ==
  ASSUME NEW S, NEW q \in Seq(S), q # <<>>
  PROVE  /\ Tail(q) \in Seq(S) /\ Len(Tail(q)) = Len(q) - 1
         /\ DOMAIN Tail(q) = 1 .. Len(q) - 1
         /\ \A i \in 1 .. Len(q) - 1 : Tail(q)[i] = q[i + 1]
         /\ \A x \in S : LET p == <<x>> \o Tail(q) IN
              /\ p \in Seq(S) /\ Len(p) = Len(q) /\ DOMAIN p = DOMAIN q /\ p # <<>>
              /\ p[1] = x /\ \A i \in 2 .. Len(q) : p[i] = q[i]
<1>1. /\ Tail(q) \in Seq(S) /\ Len(Tail(q)) = Len(q) - 1
      /\ \A i \in 1 .. Len(q) - 1 : Tail(q)[i] = q[i + 1]
  OBVIOUS
<1>2. DOMAIN Tail(q) = 1 .. Len(q) - 1
  BY <1>1
<1>3. ASSUME NEW x \in S
      PROVE  LET p == <<x>> \o Tail(q) IN
              /\ p \in Seq(S) /\ Len(p) = Len(q) /\ DOMAIN p = DOMAIN q /\ p # <<>>
              /\ p[1] = x /\ \A i \in 2 .. Len(q) : p[i] = q[i]
  <2> DEFINE p == <<x>> \o Tail(q)
  <2>1. p \in Seq(S) /\ Len(p) = Len(q) /\ p[1] = x
    BY <1>1
  <2>2. \A i \in 2 .. Len(q) : p[i] = q[i]
    BY <1>1
  <2>3. DOMAIN p = DOMAIN q /\ p # <<>>
    BY <2>1
  <2> QED
    BY <2>1, <2>2, <2>3
<1> QED
  BY <1>1, <1>2, <1>3

LEMMA ItemTyped ==
  ASSUME NEW n \in Nat, NEW kind
  PROVE  /\ Item(n, kind) \in Chained
         /\ DataVecs(kind) \in Nat
         /\ kind # "eos" => DataVecs(kind) > 0
         /\ Item(n, kind).id = n /\ Item(n, kind).pos = 0
         /\ Item(n, kind).eos <=> kind = "eos"
         /\ Item(n, kind).ctl <=> HasControl(kind)
         /\ ~HasControl(kind) => Item(n, kind).lim = DataVecs(kind)
<1>1. DataVecs(kind) \in Nat /\ (kind # "eos" => DataVecs(kind) > 0)
  BY DEF DataVecs
<1> DEFINE eos == kind = "eos"
           ctl == HasControl(kind)
           lim == DataVecs(kind) + IF ctl THEN 1 ELSE 0
<1>2. eos \in BOOLEAN /\ ctl \in BOOLEAN
  BY DEF HasControl
<1>3. lim \in Nat /\ (~ctl => lim = DataVecs(kind))
  BY <1>1
<1>4. Item(n, kind) = [id |-> n, eos |-> eos, pos |-> 0, ctl |-> ctl, lim |-> lim]
  BY DEF Item
<1>5. 0 \in Nat
  OBVIOUS
<1> HIDE DEF eos, ctl, lim
<1>6. /\ Item(n, kind) \in Chained /\ Item(n, kind).id = n /\ Item(n, kind).pos = 0
      /\ Item(n, kind).eos = eos /\ Item(n, kind).ctl = ctl /\ Item(n, kind).lim = lim
  BY <1>2, <1>3, <1>4, <1>5 DEF Chained
<1> QED
  BY <1>1, <1>3, <1>6 DEF eos, ctl

\* The frame an accepted write puts at the end of the queue.
LEMMA ChainAppends ==
  ASSUME TypeOK, Queueing, writeOpen, NEW item \in Chained, Chain(item)
  PROVE  queue' = Append(queue, item) /\ tail' = item.id
<1>1. CASE queue = <<>>
  BY <1>1 DEF Chain, Queueing
<1>2. CASE queue # <<>>
  <2>1. Len(queue) \in Nat \ {0} /\ Len(accepted) \in Nat /\ DOMAIN queue = 1 .. Len(queue)
    BY <1>2, HeadTyped DEF TypeOK
  <2>2. queue[Len(queue)].id = Len(accepted) /\ Len(accepted) # 0
    BY <2>1 DEF Queueing, Items, ItemOk
  <2>3. Last(queue) = queue[Len(queue)]
    BY DEF Last
  <2>4. tail # 0 /\ tail = Last(queue).id
    BY <1>2, <2>2, <2>3 DEF Queueing
  <2> QED
    BY <1>2, <2>4 DEF Chain
<1> QED
  BY <1>1, <1>2
-----------------------------------------------------------------------------
\* Type correctness, a step at a time: the flags, the numbers, what is queued.
FlagTypes ==
  /\ bind \in BOOLEAN /\ connect \in BOOLEAN /\ shutdown \in BOOLEAN
  /\ sysErrno \in BOOLEAN /\ noFrames \in BOOLEAN
  /\ readWant \in BOOLEAN /\ readWatch \in BOOLEAN
  /\ writeOpen \in BOOLEAN /\ writeReady \in BOOLEAN
  /\ writeWant \in BOOLEAN /\ writeWatch \in BOOLEAN
  /\ stalled \in BOOLEAN /\ stopped \in BOOLEAN
ReadTypes ==
  /\ pauseLevel \in Nat /\ readFrame \in Nat \cup {NoFrame}
  /\ inbox \in Seq(BOOLEAN) /\ received \in Nat /\ offered \in Int /\ eosIn \in Nat
QueueTypes ==
  /\ queue \in Seq(Chained) /\ tail \in Nat
  /\ accepted \in Seq(Kinds) /\ wire \in Seq(SentVec) /\ lost \in SUBSET Nat

LEMMA TypesSplit ==
  TypeOK <=> /\ phase \in {"open", "fini", "assert"} /\ stack \in Seq(Activation)
             /\ FlagTypes /\ ReadTypes /\ QueueTypes
BY DEF TypeOK, FlagTypes, ReadTypes, QueueTypes

LEMMA FlagTypeStep ==
  ASSUME TypeOK, Next
  PROVE  FlagTypes'
<1> USE DEF sockVars, readVars, watchVars, queueVars, readHist, writeHist
<1>1. FlagTypes
  BY TypesSplit
<1>2. CASE ErrorReturns
  BY <1>1, <1>2 DEF ErrorReturns, ShutDown, FlagTypes
<1>3. CASE EosReturns
  BY <1>1, <1>3 DEF EosReturns, FlagTypes
<1>4. CASE RecvError
  BY <1>1, <1>4 DEF RecvError, Error, FlagTypes
<1>5. CASE RecvData
  BY ZenonT(30), <1>1, <1>5 DEF RecvData, FlagTypes
<1>6. CASE ReadNoFrame
  BY ZenonT(30), <1>1, <1>6 DEF ReadNoFrame, Pause, ReadUnsetEvent, FlagTypes
<1>7. CASE ReadPause
  BY ZenonT(30), <1>1, <1>7 DEF ReadPause, Pause, ReadUnsetEvent, FlagTypes
<1>8. CASE RecvAgain
  BY <1>1, <1>8 DEF RecvAgain, ReadAgain, ReadSetEvent, FlagTypes
<1>9. CASE ReadLoopsDone
  BY <1>1, <1>9 DEF ReadLoopsDone, ReadAgain, ReadSetEvent, FlagTypes
<1>10. CASE ReadStart
  BY <1>1, <1>10 DEF ReadStart, ReadSetEvent, FlagTypes
<1>11. CASE Bind
  BY <1>1, <1>11 DEF Bind, ReadSetEvent, FlagTypes
<1>12. CASE ReadStop
  BY <1>1, <1>12 DEF ReadStop, ReadUnsetEvent, FlagTypes
<1>13. CASE ReadResume
  BY ZenonT(30), <1>1, <1>13 DEF ReadResume, ReadSetEvent, FlagTypes
<1>14. CASE RecvZero
  BY <1>1, <1>14 DEF RecvZero, ShutDownUplink, ShutDown, FlagTypes
<1>15. CASE WriteEos
  BY <1>1, <1>15 DEF WriteEos, ShutDownUplink, ShutDown, FlagTypes
<1>16. CASE WriteLoopDone
  BY <1>1, <1>16 DEF WriteLoopDone, FlagTypes
<1>17. CASE WriteLoopsExceeded
  BY <1>1, <1>17 DEF WriteLoopsExceeded, WriteLater, WriteSetEvent, FlagTypes
<1>18. CASE NoVecLeft
  BY <1>1, <1>18 DEF NoVecLeft, FlagTypes
<1>19. CASE SendAgain
  BY <1>1, <1>19 DEF SendAgain, WriteLater, WriteSetEvent, FlagTypes
<1>20. CASE SendError
  BY <1>1, <1>20 DEF SendError, Error, FlagTypes
<1>21. CASE SendLost
  BY <1>1, <1>21 DEF SendLost, FlagTypes
<1>22. CASE SendData
  BY <1>1, <1>22 DEF SendData, FlagTypes
<1>23. CASE WriteDone
  BY ZenonT(30), <1>1, <1>23 DEF WriteDone, WriteUnsetEvent, FlagTypes
<1>24. CASE FlushTurn
  BY ZenonT(30), <1>1, <1>24 DEF FlushTurn, FlagTypes
<1>25. CASE Flush
  BY <1>1, <1>25 DEF Flush, FlagTypes
<1>26. CASE OnRead
  BY ZenonT(30), <1>1, <1>26 DEF OnRead, FlagTypes
<1>27. CASE OnWrite
  BY ZenonT(30), <1>1, <1>27 DEF OnWrite, WriteUnsetEvent, FlagTypes
<1>28. CASE WriteStart
  BY <1>1, <1>28 DEF WriteStart, WriteSetEvent, FlagTypes
<1>29. CASE WriteStop
  BY <1>1, <1>29 DEF WriteStop, WriteUnsetEvent, FlagTypes
<1>30. CASE Connect
  BY <1>1, <1>30 DEF Connect, WriteSetEvent, FlagTypes
<1>31. CASE Fini
  BY <1>1, <1>31 DEF Fini, WriteUnsetEvent, FlagTypes
<1>32. ASSUME NEW up \in BOOLEAN, NEW kept \in 0 .. MoreVecs, FullReturns(up, kept)
      PROVE  FlagTypes'
  BY <1>1, <1>32 DEF FullReturns, FlagTypes
<1>33. ASSUME NEW kind \in Kinds, Write(kind)
       PROVE  FlagTypes'
  <2>1. /\ writeOpen' \in BOOLEAN /\ stalled' \in BOOLEAN
        /\ writeWant' \in BOOLEAN /\ writeWatch' \in BOOLEAN
    BY <1>1, <1>33 DEF Write, WatchOrSend, WriteSetEvent, FlagTypes
  <2> QED
    BY <1>1, <1>33, <2>1 DEF Write, FlagTypes
<1>34. ASSUME NEW e \in BOOLEAN, Arrives(e)
       PROVE  FlagTypes'
  BY <1>1, <1>34 DEF Arrives, FlagTypes
<1> QED
  BY <1>2, <1>3, <1>4, <1>5, <1>6, <1>7, <1>8, <1>9, <1>10, <1>11, <1>12, <1>13,
     <1>14, <1>15, <1>16, <1>17, <1>18, <1>19, <1>20, <1>21, <1>22, <1>23,
     <1>24, <1>25, <1>26, <1>27, <1>28, <1>29, <1>30, <1>31, <1>32, <1>33,
     <1>34
     DEF Next, Handler, EventLoop, Application

LEMMA ReadTypeStep ==
  ASSUME TypeOK, Next
  PROVE  ReadTypes'
<1> USE DEF sockVars, readVars, watchVars, queueVars, readHist, writeHist
<1>1. ReadTypes
  BY TypesSplit
<1>2. Filling \in Nat /\ Filling + 1 \in Nat
  BY <1>1 DEF ReadTypes, Filling, NoFrame
<1>3. inbox # <<>> => Tail(inbox) \in Seq(BOOLEAN)
  BY <1>1 DEF ReadTypes
<1>4. CASE \/ ErrorReturns \/ EosReturns \/ WriteLoopDone \/ WriteLoopsExceeded
           \/ NoVecLeft \/ SendAgain \/ SendError \/ SendLost \/ SendData \/ WriteDone
           \/ FlushTurn \/ OnRead \/ OnWrite \/ Flush \/ WriteStart \/ WriteStop
           \/ Connect \/ ReadStart \/ ReadStop \/ Bind \/ ReadLoopsDone
  <2>1. UNCHANGED <<pauseLevel, readFrame, inbox, received, offered, eosIn>>
    BY <1>4 DEF ErrorReturns, EosReturns, WriteLoopDone, WriteLoopsExceeded, NoVecLeft,
       SendAgain, SendError, SendLost, SendData, WriteDone, FlushTurn, OnRead, OnWrite,
       Flush, WriteStart, WriteStop, Connect, ReadStart, ReadStop, Bind, ReadLoopsDone,
       ReadAgain
  <2> QED
    BY <1>1, <2>1 DEF ReadTypes
<1>5. ASSUME NEW kind \in Kinds, Write(kind)
      PROVE  ReadTypes'
  BY <1>1, <1>5 DEF Write, ReadTypes
<1>6. CASE ReadNoFrame \/ ReadPause
  <2>1. /\ pauseLevel' = pauseLevel + 1
        /\ UNCHANGED <<readFrame, inbox, received, offered, eosIn>>
    BY <1>6 DEF ReadNoFrame, ReadPause, Pause
  <2> QED
    BY <1>1, <2>1 DEF ReadTypes
<1>15. CASE ReadResume
  <2>1. pauseLevel > 0 /\ pauseLevel' = pauseLevel - 1
    BY <1>15 DEF ReadResume
  <2>2. UNCHANGED <<readFrame, inbox, received, offered, eosIn>>
    BY <1>15 DEF ReadResume
  <2>3. pauseLevel' \in Nat
    BY <1>1, <2>1 DEF ReadTypes
  <2> QED
    BY <1>1, <2>2, <2>3 DEF ReadTypes
<1>7. CASE RecvAgain
  BY <1>1, <1>2, <1>7 DEF RecvAgain, ReadAgain, ReadTypes
<1>14. CASE RecvError
  BY <1>1, <1>2, <1>14 DEF RecvError, ReadTypes
<1>8. CASE RecvZero
  <2>1. /\ inbox # <<>> /\ inbox' = Tail(inbox) /\ UNCHANGED <<received, offered>>
        /\ readFrame' \in {NoFrame, Filling}
        /\ pauseLevel' \in {pauseLevel, pauseLevel + 1} /\ eosIn' \in {eosIn, eosIn + 1}
    BY <1>8 DEF RecvZero, ShutDownUplink
  <2> QED
    BY <1>1, <1>2, <1>3, <2>1 DEF ReadTypes
<1>9. CASE WriteEos
  BY <1>1, <1>9 DEF WriteEos, ShutDownUplink, ReadTypes
<1>10. CASE RecvData
  <2>1. /\ inbox # <<>> /\ inbox' = Tail(inbox) /\ received' = received + 1
        /\ UNCHANGED <<pauseLevel, eosIn>>
        /\ readFrame' \in {NoFrame, Filling + 1}
        /\ offered' \in {offered, offered + (Filling + 1)}
    BY <1>10 DEF RecvData, Deliver
  <2>2. received' \in Nat /\ offered' \in Int
    BY <1>1, <1>2, <2>1 DEF ReadTypes
  <2> QED
    BY <1>1, <1>2, <1>3, <2>1, <2>2 DEF ReadTypes
<1>11. ASSUME NEW up \in BOOLEAN, NEW kept \in 0 .. MoreVecs, FullReturns(up, kept)
       PROVE  ReadTypes'
  <2>1. kept \in Nat
    BY DgramBounds
  <2>2. readFrame' \in Nat \cup {NoFrame} /\ offered' \in Int
    BY <1>1, <1>11, <2>1 DEF FullReturns, ReadTypes
  <2> QED
    BY <1>1, <1>11, <2>2 DEF FullReturns, ReadTypes
<1>12. CASE Fini
  BY <1>1, <1>12 DEF Fini, ReadTypes
<1>13. ASSUME NEW e \in BOOLEAN, Arrives(e)
       PROVE  ReadTypes'
  BY <1>1, <1>13 DEF Arrives, ReadTypes
<1> QED
  BY <1>4, <1>5, <1>6, <1>7, <1>8, <1>9, <1>10, <1>11, <1>12, <1>13,
     <1>14, <1>15 DEF Next, Handler, EventLoop, Application

LEMMA QueueTypeStep ==
  ASSUME TypeOK, phase = "open" => Queueing, Next
  PROVE  QueueTypes'
<1> USE DEF sockVars, readVars, watchVars, queueVars, readHist, writeHist
<1>1. QueueTypes /\ phase = "open"
  BY TypesSplit, Phases
<1>2. CASE \/ ErrorReturns \/ EosReturns \/ ReadNoFrame \/ RecvAgain \/ ReadLoopsDone
           \/ RecvError \/ RecvZero \/ RecvData \/ WriteLoopDone \/ WriteLoopsExceeded
           \/ NoVecLeft \/ WriteDone \/ FlushTurn \/ OnRead \/ OnWrite \/ Flush
           \/ Fini \/ Quiet
           \/ (\E up \in BOOLEAN, kept \in 0 .. MoreVecs : FullReturns(up, kept))
  <2>1. UNCHANGED <<queue, tail, accepted, wire, lost>>
    BY <1>2 DEF ErrorReturns, EosReturns, ReadNoFrame, RecvAgain, ReadLoopsDone,
       ReadAgain, RecvError, RecvZero, RecvData, WriteLoopDone, WriteLoopsExceeded,
       NoVecLeft, WriteDone, FlushTurn, OnRead, OnWrite, Flush, Fini, Quiet,
       ReadStart, ReadStop, ReadPause, ReadResume, WriteStart, WriteStop, Bind,
       Connect, Arrives, FullReturns
  <2> QED
    BY <1>1, <2>1 DEF QueueTypes
<1>3. ASSUME queue # <<>>
      PROVE  /\ Head(queue) = queue[1] /\ queue[1] \in Chained
             /\ queue[1].id \in Nat /\ queue[1].pos \in Nat /\ Control(queue[1]) \in Int
             /\ Tail(queue) \in Seq(Chained)
             /\ <<ControlTaken(queue[1])>> \o Tail(queue) \in Seq(Chained)
             /\ <<NextVec(ControlTaken(queue[1]))>> \o Tail(queue) \in Seq(Chained)
  BY <1>1, <1>3, HeadTyped, QueueTail DEF QueueTypes, Chained
<1>4. \A x \in SentVec : Append(wire, x) \in Seq(SentVec)
  BY <1>1 DEF QueueTypes
<1>5. ASSUME NEW kind \in Kinds, Write(kind)
      PROVE  QueueTypes'
  <2> DEFINE n == Len(accepted) + 1
  <2>1. n \in Nat /\ accepted' = Append(accepted, kind) /\ UNCHANGED <<wire, lost>>
    BY <1>1, <1>5 DEF Write, QueueTypes
  <2>2. Item(n, kind) \in Chained /\ Item(n, kind).id = n
    BY <2>1, ItemTyped
  <2>3. queue' = Append(queue, Item(n, kind)) /\ tail' = n
    BY <1>1, <1>5, <2>2, ChainAppends DEF Write
  <2> HIDE DEF n
  <2> QED
    BY <1>1, <2>1, <2>2, <2>3 DEF QueueTypes
<1>6. CASE WriteEos
  <2>1. /\ queue # <<>> /\ queue' = Tail(queue)
        /\ wire' = Append(wire, <<Head(queue).id, 0, NoFrame>>)
        /\ UNCHANGED <<tail, accepted, lost>>
    BY <1>6 DEF WriteEos, Writing
  <2>2. <<Head(queue).id, 0, NoFrame>> \in SentVec
    BY <1>3, <2>1 DEF SentVec, NoFrame
  <2> QED
    BY <1>1, <1>3, <1>4, <2>1, <2>2 DEF QueueTypes
<1>7. CASE SendAgain \/ SendError
  <2>1. /\ queue # <<>> /\ queue' = <<ControlTaken(Head(queue))>> \o Tail(queue)
        /\ UNCHANGED <<tail, accepted, wire, lost>>
    BY <1>7 DEF SendAgain, SendError, Sending, Writing
  <2> QED
    BY <1>1, <1>3, <2>1 DEF QueueTypes
<1>8. CASE SendLost
  <2>1. /\ queue # <<>> /\ queue' = Tail(queue) /\ tail' \in {0, tail}
        /\ lost' = lost \cup {Head(queue).id} /\ UNCHANGED <<accepted, wire>>
    BY <1>8 DEF SendLost, DropHead, Sending, Writing
  <2>2. tail' \in Nat
    BY <1>1, <2>1 DEF QueueTypes
  <2>3. lost' \in SUBSET Nat
    BY <1>1, <1>3, <2>1 DEF QueueTypes
  <2> QED
    BY <1>1, <1>3, <2>1, <2>2, <2>3 DEF QueueTypes
<1>9. CASE SendData
  <2> DEFINE h == queue[1]
             h1 == NextVec(ControlTaken(h))
  <2>1. /\ queue # <<>> /\ wire' = Append(wire, <<h.id, h.pos, Control(h)>>)
        /\ UNCHANGED <<accepted, lost>>
        /\ \/ queue' = Tail(queue) /\ tail' \in {0, tail}
           \/ queue' = <<h1>> \o Tail(queue) /\ UNCHANGED tail
    <3>1. queue # <<>>
      BY <1>9 DEF SendData, Sending, Writing
    <3> QED
      BY <1>3, <1>9, <3>1 DEF SendData, DropHead
  <2>2. <<h.id, h.pos, Control(h)>> \in SentVec
    BY <1>3, <2>1 DEF SentVec
  <2>3. tail' \in Nat
    BY <1>1, <2>1 DEF QueueTypes
  <2>4. wire' \in Seq(SentVec)
    BY <1>4, <2>1, <2>2
  <2>5. queue' \in Seq(Chained)
    BY <1>3, <2>1
  <2> QED
    BY <1>1, <2>1, <2>3, <2>4, <2>5 DEF QueueTypes
<1> QED
  BY <1>2, <1>5, <1>6, <1>7, <1>8, <1>9
     DEF Next, Handler, EventLoop, Application, Quiet

LEMMA TypeStep ==
  ASSUME TypeOK, phase = "open" => Shape /\ Queueing, Next
  PROVE  TypeOK' /\ Shape'
<1>1. FlagTypes' /\ ReadTypes' /\ QueueTypes'
  BY FlagTypeStep, ReadTypeStep, QueueTypeStep
<1>2. phase = "open" /\ phase' \in {"open", "fini", "assert"}
  BY Phases DEF Fini, NoVecLeft
<1>3. stack' \in Seq(Activation) /\ Shape'
  BY <1>2, StepsAreSound DEF Sound
<1> QED
  BY <1>1, <1>2, <1>3 DEF TypeOK, FlagTypes, ReadTypes, QueueTypes
-----------------------------------------------------------------------------
\* The read watcher after a pause, and after the shutdown that hands up the end
\* of the stream.
LEMMA Pausing ==
  ASSUME TypeOK, Reading, Pause
  PROVE  pauseLevel' # 0 /\ ~readWatch' /\ UNCHANGED readWant
<1>1. \A n \in Nat : n + 1 # 0 /\ (n + 1 # 1 => n # 0)
  OBVIOUS
<1>2. pauseLevel \in Nat /\ readWatch \in BOOLEAN /\ readWant \in BOOLEAN
  BY DEF TypeOK
<1>3. pauseLevel' # 0 /\ (pauseLevel' # 1 => pauseLevel # 0)
  BY <1>1, <1>2 DEF Pause
<1>4. CASE pauseLevel' = 1
  BY <1>2, <1>3, <1>4 DEF Pause, ReadUnsetEvent
<1>5. CASE pauseLevel' # 1
  BY <1>2, <1>3, <1>5 DEF Pause, Reading
<1> QED
  BY <1>4, <1>5, <1>3

\* The read watcher stays exact, and no reading follows a shutdown: the loops end
\* where the socket is shut down, and it takes a want that the shutdown has taken
\* back to start them again.
LEMMA ReadingStep ==
  ASSUME Inv, phase = "open", phase' = "open", Next
  PROVE  Reading'
<1> USE DEF sockVars, readVars, watchVars, queueVars, readHist, writeHist
<1>1. TypeOK /\ Shape /\ Reading
  BY DEF Inv
<1>2. /\ shutdown \in BOOLEAN /\ readWatch \in BOOLEAN /\ readWant \in BOOLEAN
      /\ pauseLevel \in Nat
  BY <1>1 DEF TypeOK
<1>3. "read_loop" \in Innermost /\ "read_loop" \in Names /\ "read:full" \in Names
  BY NamesAre DEF Innermost
<1>4. CASE \/ WriteLoopDone \/ WriteLoopsExceeded \/ SendAgain \/ SendError \/ SendLost
           \/ SendData \/ EosReturns \/ RecvError \/ WriteDone \/ FlushTurn \/ OnWrite
           \/ Flush \/ WriteStart \/ WriteStop \/ Connect
           \/ (\E kind \in Kinds : Write(kind)) \/ (\E e \in BOOLEAN : Arrives(e))
  <2>1. UNCHANGED <<shutdown, readWant, readWatch, pauseLevel, eosIn>>
    BY <1>4 DEF WriteLoopDone, WriteLoopsExceeded, SendAgain, SendError, SendLost,
       SendData, EosReturns, RecvError, WriteDone, FlushTurn, OnWrite, Flush,
       WriteStart, WriteStop, Connect, Write, Arrives
  <2>2. "read_loop" \in Active' => "read_loop" \in Active
    <3>1. CASE \/ WriteLoopDone \/ WriteLoopsExceeded \/ SendAgain \/ SendError
               \/ SendLost \/ SendData \/ EosReturns \/ RecvError \/ WriteDone
      BY <1>1, <1>3, <3>1, HandlerSteps, LoopsLeave
    <3>2. CASE FlushTurn \/ OnWrite \/ Flush \/ \E kind \in Kinds : Write(kind)
      BY <1>1, <1>3, <3>2, CallSteps, LoopsLeave, OthersStay
    <3>3. CASE WriteStart \/ WriteStop \/ Connect \/ \E e \in BOOLEAN : Arrives(e)
      BY <1>1, <3>3, QuietSteps, OthersStay DEF Quiet
    <3> QED
      BY <1>4, <3>1, <3>2, <3>3
  <2> QED
    BY <1>1, <2>1, <2>2 DEF Reading
<1>5. CASE RecvData
  <2>1. UNCHANGED <<shutdown, readWant, readWatch, pauseLevel, eosIn>>
    BY <1>5 DEF RecvData
  <2>2. "read_loop" \in Active
    BY <1>1, <1>3, <1>5, LoopRuns DEF RecvData, Receiving
  <2> QED
    BY <1>1, <2>1, <2>2 DEF Reading
<1>6. ASSUME NEW up \in BOOLEAN, NEW kept \in 0 .. MoreVecs, FullReturns(up, kept)
      PROVE  Reading'
  <2>1. UNCHANGED <<shutdown, readWant, readWatch, pauseLevel, eosIn>>
    BY <1>6 DEF FullReturns
  <2>2. "read_loop" \in Active' => readWant
    BY <1>1, <1>3, <1>6, HandlerSteps, LoopsLeave
  <2> QED
    BY <1>1, <2>1, <2>2 DEF Reading
<1>7. CASE OnRead
  <2>1. pauseLevel = 0 /\ readWatch /\ ~shutdown
    BY <1>1, <1>7 DEF OnRead, Reading
  <2>2. UNCHANGED <<shutdown, readWant, pauseLevel, eosIn>>
    BY <1>7 DEF OnRead
  <2>3. UNCHANGED readWatch
    BY <1>7, <2>1 DEF OnRead
  <2> QED
    BY <1>1, <2>1, <2>2, <2>3 DEF Reading
<1>8. CASE ReadNoFrame
  <2>1. /\ UNCHANGED <<shutdown, eosIn>> /\ pauseLevel' # 0 /\ ~readWatch'
        /\ UNCHANGED readWant
    BY <1>1, <1>8, Pausing DEF ReadNoFrame
  <2>2. "read_loop" \notin Active'
    BY <1>1, <1>3, <1>8, HandlerSteps, LoopsLeave
  <2> QED
    BY <1>1, <2>1, <2>2 DEF Reading
<1>9. CASE ReadPause
  <2>1. /\ UNCHANGED <<shutdown, eosIn>> /\ pauseLevel' # 0 /\ ~readWatch'
        /\ UNCHANGED readWant
    BY <1>1, <1>9, Pausing DEF ReadPause
  <2>2. "read_loop" \in Active' => "read_loop" \in Active
    BY <1>1, <1>9, QuietSteps, OthersStay DEF Quiet
  <2> QED
    BY <1>1, <2>1, <2>2 DEF Reading
<1>10. ASSUME ~shutdown, ReadSetEvent(TRUE), UNCHANGED <<shutdown, pauseLevel, eosIn>>
       PROVE  Reading'
  <2>1. readWant' /\ readWatch' = (readWatch \/ (readWant' /\ pauseLevel' = 0 /\ ~shutdown'))
    BY <1>10 DEF ReadSetEvent
  <2>2. readWatch' <=> readWant' /\ pauseLevel' = 0 /\ ~shutdown'
    BY <1>1, <1>10, <2>1 DEF Reading
  <2> QED
    BY <1>1, <1>10, <2>2 DEF Reading
<1>11. CASE RecvAgain \/ ReadLoopsDone
  <2>1. "read_loop" \in Active
    BY <1>1, <1>3, <1>11, LoopRuns DEF RecvAgain, ReadLoopsDone, Receiving
  <2> QED
    BY <1>1, <1>10, <1>11, <2>1 DEF RecvAgain, ReadLoopsDone, ReadAgain, Reading
<1>12. CASE ReadStart \/ Bind
  BY <1>10, <1>12 DEF ReadStart, Bind
<1>13. CASE ReadStop
  <2>1. UNCHANGED <<shutdown, pauseLevel, eosIn>> /\ ~readWant' /\ ~readWatch'
    BY <1>13 DEF ReadStop, ReadUnsetEvent
  <2>2. "read_loop" \in Active' => "read_loop" \in Active
    BY <1>1, <1>13, QuietSteps, OthersStay DEF Quiet
  <2> QED
    BY <1>1, <2>1, <2>2 DEF Reading
<1>14. CASE ReadResume
  <2>1. UNCHANGED <<shutdown, eosIn>> /\ pauseLevel > 0 /\ pauseLevel # 0
    BY <1>2, <1>14 DEF ReadResume
  <2>2. ~readWatch
    BY <1>1, <2>1 DEF Reading
  <2>3. readWant' = readWant
    BY <1>2, <1>14 DEF ReadResume, ReadSetEvent
  <2>4. readWatch' <=> readWant' /\ pauseLevel' = 0 /\ ~shutdown'
    <3>1. CASE pauseLevel' = 0
      BY <1>14, <2>2, <3>1 DEF ReadResume, ReadSetEvent
    <3>2. CASE pauseLevel' # 0
      BY <1>14, <2>2, <3>2 DEF ReadResume
    <3> QED
      BY <3>1, <3>2
  <2>5. "read_loop" \in Active' => "read_loop" \in Active
    BY <1>1, <1>14, QuietSteps, OthersStay DEF Quiet
  <2> QED
    BY <1>1, <2>1, <2>3, <2>4, <2>5 DEF Reading
<1>15. CASE ErrorReturns \/ RecvZero \/ WriteEos
  <2>1. shutdown' /\ ~readWant' /\ ~readWatch'
    BY <1>15 DEF ErrorReturns, RecvZero, WriteEos, ShutDownUplink, ShutDown
  <2>2. "read_loop" \notin Active'
    BY <1>1, <1>3, <1>15, HandlerSteps, LoopsLeave
  <2> QED
    BY <2>1, <2>2 DEF Reading
<1> QED
  BY <1>4, <1>5, <1>6, <1>7, <1>8, <1>9, <1>11, <1>12, <1>13, <1>14, <1>15
     DEF Next, Handler, EventLoop, Application, NoVecLeft, Fini

\* A way out of the write loop with frames left in the queue watches, gives up
\* the socket, or has lost a frame.
LEMMA WritableStep ==
  ASSUME Inv, phase = "open", phase' = "open", Next
  PROVE  Writable'
<1> USE DEF sockVars, readVars, watchVars, queueVars, readHist, writeHist
<1>1. TypeOK /\ Shape /\ Writable
  BY DEF Inv
<1>2. CASE \/ EosReturns \/ ReadNoFrame \/ RecvAgain \/ ReadLoopsDone \/ RecvError
           \/ RecvData \/ OnRead \/ Flush \/ ReadStart \/ ReadStop \/ ReadPause
           \/ ReadResume \/ Bind \/ (\E e \in BOOLEAN : Arrives(e))
           \/ (\E up \in BOOLEAN, kept \in 0 .. MoreVecs : FullReturns(up, kept))
  <2>1. UNCHANGED <<queue, shutdown, stopped, stalled, writeWatch, writeWant>>
    BY <1>2 DEF EosReturns, ReadNoFrame, RecvAgain, ReadLoopsDone, ReadAgain,
       RecvError, RecvData, OnRead, Flush, ReadStart, ReadStop, ReadPause,
       ReadResume, Bind, Arrives, FullReturns
  <2>2. ASSUME NEW x \in {"write_loop", "error"}, x \in Active
        PROVE  x \in Active'
    <3>1. CASE \/ EosReturns \/ ReadNoFrame \/ RecvAgain \/ ReadLoopsDone \/ RecvError
               \/ RecvData
      BY <1>1, <2>2, <3>1, HandlerSteps, OthersStay DEF Becomes
    <3>2. CASE \E up \in BOOLEAN, kept \in 0 .. MoreVecs : FullReturns(up, kept)
      BY <1>1, <2>2, <3>2, HandlerSteps, OthersStay
    <3>3. CASE OnRead \/ Flush
      BY <1>1, <2>2, <3>3, CallSteps, OthersStay
    <3>4. CASE \/ ReadStart \/ ReadStop \/ ReadPause \/ ReadResume \/ Bind
               \/ (\E e \in BOOLEAN : Arrives(e))
      BY <1>1, <2>2, <3>4, QuietSteps, OthersStay DEF Quiet
    <3> QED
      BY <1>2, <3>1, <3>2, <3>3, <3>4
  <2> QED
    BY <1>1, <2>1, <2>2 DEF Writable
<1>3. CASE ErrorReturns \/ RecvZero \/ WriteEos
  BY <1>3 DEF ErrorReturns, RecvZero, WriteEos, ShutDownUplink, ShutDown, Writable
<1>4. CASE WriteLoopDone
  BY <1>4 DEF WriteLoopDone, Writable
<1>5. CASE WriteLoopsExceeded \/ SendAgain \/ WriteStart \/ Connect
  BY <1>5 DEF WriteLoopsExceeded, SendAgain, WriteLater, WriteStart, Connect,
     WriteSetEvent, Writable
<1>6. CASE SendError
  <2>1. "error" \in Active'
    BY <1>1, <1>6, HandlerSteps DEF Becomes
  <2> QED
    BY <2>1 DEF Writable
<1>7. CASE SendLost \/ WriteStop
  BY <1>7 DEF SendLost, WriteStop, Writable
<1>8. CASE SendData
  <2>1. "write_loop" \in Active'
    BY <1>1, <1>8, HandlerSteps DEF Becomes
  <2> QED
    BY <2>1 DEF Writable
<1>9. CASE WriteDone
  <2>1. Active = {"write_done"}
    BY <1>1, <1>9, HandlerSteps DEF Returns, Runs, Outermost
  <2>2. UNCHANGED <<queue, shutdown, stopped, stalled>>
    BY <1>9 DEF WriteDone
  <2>3. writeWant => UNCHANGED <<writeWatch, writeWant>>
    BY <1>9 DEF WriteDone
  <2> QED
    BY <1>1, <2>1, <2>2, <2>3 DEF Writable
<1>10. CASE FlushTurn
  <2>1. UNCHANGED <<queue, shutdown, stopped, stalled>>
    BY <1>10 DEF FlushTurn
  <2>2. queue # <<>> => "write_loop" \in Active'
    BY <1>1, <1>10, CallSteps DEF Calls
  <2> QED
    BY <2>1, <2>2 DEF Writable
<1>11. CASE OnWrite
  <2>1. UNCHANGED <<queue, shutdown, stopped, stalled>> /\ Active = {}
    BY <1>1, <1>11, CallSteps DEF OnWrite
  <2>2. writeWant /\ queue # <<>> => "write_loop" \in Active'
    BY <1>1, <1>11, CallSteps DEF Calls
  <2> QED
    BY <1>1, <2>1, <2>2 DEF Writable
<1>12. ASSUME NEW kind \in Kinds, Write(kind)
       PROVE  Writable'
  <2>1. CASE writeReady
    <3>1. "write_loop" \in Active'
      BY <1>1, <1>12, <2>1, CallSteps DEF Calls
    <3> QED
      BY <3>1 DEF Writable
  <2>2. CASE ~writeReady
    BY <1>12, <2>2 DEF Write, WatchOrSend, WriteSetEvent, Writable
  <2> QED
    BY <2>1, <2>2
<1> QED
  BY <1>2, <1>3, <1>4, <1>5, <1>6, <1>7, <1>8, <1>9, <1>10, <1>11, <1>12
     DEF Next, Handler, EventLoop, Application, NoVecLeft, Fini
-----------------------------------------------------------------------------
\* The head leaves the queue, or is changed in place.
LEMMA HeadLeaves ==
  ASSUME NEW S, NEW acc \in Seq(S), NEW q \in Seq(Chained), q # <<>>, Items(q, acc)
  PROVE  /\ Items(Tail(q), acc)
         /\ Len(acc) - Len(Tail(q)) = Len(acc) - Len(q) + 1
         /\ q[1].id = Len(acc) - Len(q) + 1 /\ q[1].id \in DOMAIN acc
         /\ ItemOk(q[1], q[1].id, acc)
<1>1. /\ Len(q) \in Nat \ {0} /\ Len(acc) \in Nat /\ DOMAIN q = 1 .. Len(q)
      /\ DOMAIN acc = 1 .. Len(acc)
  OBVIOUS
<1>2. /\ Len(Tail(q)) = Len(q) - 1 /\ DOMAIN Tail(q) = 1 .. Len(q) - 1
      /\ \A i \in 1 .. Len(q) - 1 : Tail(q)[i] = q[i + 1]
  BY QueueTail
<1>3. ASSUME NEW i \in DOMAIN Tail(q)
      PROVE  ItemOk(Tail(q)[i], Len(acc) - Len(Tail(q)) + i, acc)
  <2>1. i + 1 \in DOMAIN q /\ Tail(q)[i] = q[i + 1]
    BY <1>1, <1>2
  <2>2. Len(acc) - Len(Tail(q)) + i = Len(acc) - Len(q) + (i + 1)
    BY <1>1, <1>2
  <2>3. ItemOk(q[i + 1], Len(acc) - Len(q) + (i + 1), acc)
    BY <2>1 DEF Items
  <2> QED
    BY <2>1, <2>2, <2>3
<1>4. Items(Tail(q), acc)
  <2>1. Len(Tail(q)) <= Len(acc)
    BY <1>1, <1>2 DEF Items
  <2> QED
    BY <1>3, <2>1 DEF Items
<1>5. ItemOk(q[1], Len(acc) - Len(q) + 1, acc)
  BY <1>1 DEF Items
<1>6. q[1].id = Len(acc) - Len(q) + 1 /\ q[1].id \in DOMAIN acc
  BY <1>5 DEF ItemOk
<1> QED
  BY <1>1, <1>2, <1>4, <1>5, <1>6

LEMMA HeadChanges ==
  ASSUME NEW S, NEW acc \in Seq(S), NEW q \in Seq(Chained), q # <<>>, Items(q, acc),
         NEW x \in Chained, ItemOk(x, q[1].id, acc)
  PROVE  Items(<<x>> \o Tail(q), acc)
<1> DEFINE p == <<x>> \o Tail(q)
<1>1. /\ Len(q) \in Nat \ {0} /\ DOMAIN q = 1 .. Len(q)
      /\ Len(p) = Len(q) /\ DOMAIN p = DOMAIN q /\ p[1] = x
      /\ \A i \in 2 .. Len(q) : p[i] = q[i]
  BY QueueTail
<1> HIDE DEF p
<1>2. q[1].id = Len(acc) - Len(q) + 1
  BY HeadLeaves
<1>3. ASSUME NEW i \in DOMAIN p
      PROVE  ItemOk(p[i], Len(acc) - Len(p) + i, acc)
  <2>1. CASE i = 1
    BY <1>1, <1>2, <2>1
  <2>2. CASE i # 1
    <3>1. i \in 2 .. Len(q)
      BY <1>1, <2>2
    <3> QED
      BY <1>1, <3>1 DEF Items
  <2> QED
    BY <2>1, <2>2
<1> QED
  BY <1>1, <1>3 DEF Items, p

\* A frame is accepted.
LEMMA TailGrows ==
  ASSUME NEW S, NEW acc \in Seq(S), NEW q \in Seq(Chained), Items(q, acc),
         NEW kind \in S, NEW x \in Chained, x = Item(Len(acc) + 1, kind)
  PROVE  Items(Append(q, x), Append(acc, kind))
<1> DEFINE p == Append(q, x)
           new == Append(acc, kind)
<1>1. /\ Len(q) \in Nat /\ DOMAIN q = 1 .. Len(q) /\ Len(acc) \in Nat
      /\ DOMAIN acc = 1 .. Len(acc)
  OBVIOUS
<1>2. /\ Len(p) = Len(q) + 1 /\ DOMAIN p = 1 .. Len(q) + 1 /\ p[Len(q) + 1] = x
      /\ \A i \in 1 .. Len(q) : p[i] = q[i]
  BY <1>1
<1>3. /\ Len(new) = Len(acc) + 1 /\ DOMAIN new = 1 .. Len(acc) + 1
      /\ new[Len(acc) + 1] = kind /\ \A n \in 1 .. Len(acc) : new[n] = acc[n]
  BY <1>1
<1> HIDE DEF p, new
<1>4. ASSUME NEW i \in DOMAIN p
      PROVE  ItemOk(p[i], Len(new) - Len(p) + i, new)
  <2>1. Len(new) - Len(p) + i = Len(acc) - Len(q) + i
    BY <1>1, <1>2, <1>3
  <2>2. CASE i = Len(q) + 1
    <3>1. Len(new) - Len(p) + i = Len(acc) + 1 /\ p[i] = x
      BY <1>1, <1>2, <2>1, <2>2
    <3>2. /\ x.id = Len(acc) + 1 /\ x.pos = 0 /\ (x.eos <=> kind = "eos")
          /\ (x.ctl <=> HasControl(kind)) /\ DataVecs(kind) \in Nat
          /\ (kind # "eos" => DataVecs(kind) > 0)
          /\ (~HasControl(kind) => x.lim = DataVecs(kind))
      BY <1>1, ItemTyped
    <3> QED
      BY <1>1, <1>3, <3>1, <3>2 DEF ItemOk
  <2>3. CASE i # Len(q) + 1
    <3>1. i \in DOMAIN q /\ p[i] = q[i]
      BY <1>1, <1>2, <2>3
    <3>2. ItemOk(q[i], Len(acc) - Len(q) + i, acc)
      BY <3>1 DEF Items
    <3>3. Len(acc) - Len(q) + i \in 1 .. Len(acc)
      BY <1>1, <3>2 DEF ItemOk
    <3>4. new[Len(acc) - Len(q) + i] = acc[Len(acc) - Len(q) + i]
          /\ Len(acc) - Len(q) + i \in DOMAIN new
      BY <1>1, <1>3, <3>3
    <3> QED
      BY <2>1, <3>1, <3>2, <3>4 DEF ItemOk
  <2> QED
    BY <2>2, <2>3
<1>5. Len(p) <= Len(new)
  BY <1>1, <1>2, <1>3 DEF Items
<1> QED
  BY <1>4, <1>5 DEF Items, p, new

\* What is sent of the head: nothing is left of a frame that leaves, and of one
\* that stays what is behind its vec_position.
LEMMA HeadSteps ==
  ASSUME TypeOK, Queueing, queue # <<>>, ~queue[1].eos, queue[1].pos # queue[1].lim
  PROVE  /\ ItemOk(ControlTaken(queue[1]), queue[1].id, accepted)
         /\ LET h1 == NextVec(ControlTaken(queue[1])) IN
            /\ h1.id = queue[1].id
            /\ ~queue[1].ctl => h1.pos = queue[1].pos + 1 /\ h1.lim = queue[1].lim
            /\ h1.pos # h1.lim => ItemOk(h1, queue[1].id, accepted)
<1> DEFINE h == queue[1]
           t == ControlTaken(h)
           h1 == NextVec(t)
<1>1. h \in Chained /\ t \in Chained /\ ItemOk(h, h.id, accepted) /\ ~h.eos /\ h.pos # h.lim
  BY HeadTyped, HeadLeaves DEF TypeOK, Queueing
<1>2. t.id = h.id /\ t.eos = h.eos /\ t.ctl = h.ctl /\ t.pos = h.pos /\ (~h.ctl => t = h)
  BY <1>1 DEF ControlTaken, Chained
<1>3. ItemOk(t, h.id, accepted)
  BY <1>1, <1>2 DEF ItemOk
<1>4. /\ h1.id = t.id /\ h1.eos = t.eos /\ h1.ctl = t.ctl /\ h1.lim = t.lim
      /\ h1.pos = IF t.pos = t.lim THEN t.pos ELSE t.pos + 1
  BY <1>1 DEF NextVec, Chained
<1>5. ~h.ctl => h1.pos = h.pos + 1 /\ h1.lim = h.lim
  BY <1>1, <1>2, <1>4
<1>6. ASSUME h1.pos # h1.lim
      PROVE  ItemOk(h1, h.id, accepted)
  <2>1. ~h1.ctl => h1.pos < h1.lim /\ h1.lim = DataVecs(accepted[h.id])
    <3>1. ASSUME ~h1.ctl
          PROVE  /\ h.pos \in Nat /\ h.lim \in Nat /\ h.pos < h.lim
                 /\ h1.pos = h.pos + 1 /\ h1.lim = h.lim
                 /\ h.lim = DataVecs(accepted[h.id])
      BY <1>1, <1>2, <1>4, <1>5, <3>1 DEF ItemOk, Chained
    <3> QED
      BY <1>6, <3>1
  <2> QED
    BY <1>1, <1>2, <1>3, <1>4, <2>1 DEF ItemOk
<1> QED
  BY <1>2, <1>3, <1>4, <1>5, <1>6

LEMMA QueueingStep ==
  ASSUME Inv, phase = "open", phase' = "open", Next
  PROVE  Queueing'
<1> USE DEF sockVars, readVars, watchVars, queueVars, readHist, writeHist
<1>1. TypeOK /\ Queueing /\ TypeOK' /\ Len(accepted) \in Nat
  BY SMTT(30), TypeStep DEF Inv, TypeOK
<1>2. ASSUME UNCHANGED <<queue, tail, accepted, lost>>, writeOpen' \in {FALSE, writeOpen}
      PROVE  Queueing'
  <2>1. Items(queue', accepted') /\ lost' \subseteq 1 .. Len(accepted') - Len(queue')
    BY <1>1, <1>2 DEF Queueing
  <2>2. /\ \A i \in DOMAIN queue' : queue'[i].eos => ~writeOpen'
        /\ queue' # <<>> => tail' = Len(accepted')
        /\ queue' = <<>> /\ writeOpen' => tail' = 0
    <3>1. CASE ~writeOpen'
      BY <1>1, <1>2, <3>1 DEF Queueing
    <3>2. CASE writeOpen' /\ writeOpen
      BY <1>1, <1>2, <3>2 DEF Queueing
    <3>3. writeOpen' = FALSE \/ writeOpen' = writeOpen
      BY <1>2
    <3>4. ~writeOpen' \/ (writeOpen' /\ writeOpen)
      BY <3>3
    <3> QED
      BY <3>1, <3>2, <3>4
  <2> QED
    BY <2>1, <2>2 DEF Queueing
<1>3. CASE \/ ErrorReturns \/ EosReturns \/ ReadNoFrame \/ RecvAgain \/ ReadLoopsDone
           \/ RecvError \/ RecvZero \/ RecvData \/ WriteLoopDone \/ WriteLoopsExceeded
           \/ WriteDone \/ FlushTurn \/ OnRead \/ OnWrite \/ Flush \/ Quiet
           \/ (\E up \in BOOLEAN, kept \in 0 .. MoreVecs : FullReturns(up, kept))
  <2>1. UNCHANGED <<queue, tail, accepted, lost>> /\ writeOpen' \in {FALSE, writeOpen}
    BY <1>3 DEF ErrorReturns, EosReturns, ReadNoFrame, RecvAgain, ReadLoopsDone,
       ReadAgain, RecvError, RecvZero, RecvData, WriteLoopDone, WriteLoopsExceeded,
       WriteDone, FlushTurn, OnRead, OnWrite, Flush, Fini, Quiet,
       ReadStart, ReadStop, ReadPause, ReadResume, WriteStart, WriteStop, Bind,
       Connect, Arrives, FullReturns, ShutDown, ShutDownUplink
  <2> QED
    BY <1>2, <2>1
<1>4. ASSUME queue # <<>>
      PROVE  /\ Len(queue) \in Nat \ {0} /\ 1 \in DOMAIN queue /\ Head(queue) = queue[1]
             /\ DOMAIN queue = 1 .. Len(queue)
             /\ queue \in Seq(Chained) /\ queue[1] \in Chained
  BY SMTT(30), <1>1, <1>4, HeadTyped DEF TypeOK
<1>5. ASSUME queue # <<>>, queue' = Tail(queue), UNCHANGED accepted,
             writeOpen' \in {FALSE, writeOpen},
             tail' = (IF queue' = <<>> THEN 0 ELSE tail) \/ (~writeOpen' /\ UNCHANGED tail),
             lost' \in {lost, lost \cup {Head(queue).id}}
      PROVE  Queueing'
  <2>1. /\ Items(queue', accepted') /\ queue[1].id = Len(accepted) - Len(queue) + 1
        /\ Len(accepted) - Len(queue') = Len(accepted) - Len(queue) + 1
    BY <1>1, <1>4, <1>5, HeadLeaves DEF Queueing, TypeOK
  <2>2. \A i \in DOMAIN queue' : \E j \in DOMAIN queue : queue'[i] = queue[j]
    <3>1. ASSUME NEW i \in DOMAIN queue'
          PROVE  i + 1 \in DOMAIN queue /\ queue'[i] = queue[i + 1]
      BY <1>4, <1>5, <3>1, QueueTail
    <3> QED
      BY <3>1
  <2>3. \A i \in DOMAIN queue' : queue'[i].eos => ~writeOpen'
    BY <1>1, <1>5, <2>2 DEF Queueing
  <2>4. lost' \subseteq 1 .. Len(accepted) - Len(queue')
    <3>1. Len(queue) \in Nat /\ Len(queue) <= Len(accepted) /\ Head(queue) = queue[1]
      BY <1>1, <1>4, <1>5 DEF Queueing, Items
    <3>2. /\ lost \subseteq 1 .. Len(accepted) - Len(queue')
          /\ queue[1].id \in 1 .. Len(accepted) - Len(queue')
      <4> DEFINE b == Len(accepted) - Len(queue)
      <4>1. b \in Nat /\ lost \subseteq 1 .. b
        BY <1>1, <3>1 DEF Queueing
      <4>2. queue[1].id = b + 1 /\ Len(accepted) - Len(queue') = b + 1
        BY <2>1
      <4> HIDE DEF b
      <4> QED
        BY <4>1, <4>2
    <3> QED
      BY <1>5, <3>1, <3>2
  <2>5. /\ queue' # <<>> => tail' = Len(accepted')
        /\ queue' = <<>> /\ writeOpen' => tail' = 0
    BY <1>1, <1>5 DEF Queueing
  <2> QED
    BY <1>5, <2>1, <2>3, <2>4, <2>5 DEF Queueing
<1>6. ASSUME queue # <<>>, NEW x \in Chained, queue' = <<x>> \o Tail(queue),
             ItemOk(x, queue[1].id, accepted), ~queue[1].eos,
             UNCHANGED <<accepted, tail, lost, writeOpen>>
      PROVE  Queueing'
  <2>1. Items(queue', accepted')
    BY <1>1, <1>4, <1>6, HeadChanges DEF Queueing, TypeOK
  <2>2. /\ Len(queue') = Len(queue) /\ queue' # <<>> /\ DOMAIN queue' = DOMAIN queue
        /\ queue'[1] = x /\ \A i \in 2 .. Len(queue) : queue'[i] = queue[i]
    BY <1>4, <1>6, QueueTail
  <2>3. ~x.eos
    <3>1. ItemOk(queue[1], queue[1].id, accepted)
      BY <1>1, <1>4, <1>6, HeadLeaves DEF Queueing, TypeOK
    <3> QED
      BY <1>6, <3>1 DEF ItemOk
  <2>4. \A i \in DOMAIN queue' : queue'[i].eos => ~writeOpen'
    <3>1. ASSUME NEW i \in DOMAIN queue', i # 1
          PROVE  queue'[i] = queue[i] /\ i \in DOMAIN queue
      BY <1>4, <2>2, <3>1
    <3> QED
      BY <1>1, <1>6, <2>2, <2>3, <3>1 DEF Queueing
  <2> QED
    BY <1>1, <1>6, <2>1, <2>2, <2>4 DEF Queueing
<1>7. ASSUME NEW kind \in Kinds, Write(kind)
      PROVE  Queueing'
  <2> DEFINE n == Len(accepted) + 1
             x == Item(n, kind)
  <2>1. /\ n \in Nat /\ accepted' = Append(accepted, kind) /\ writeOpen /\ UNCHANGED lost
        /\ (writeOpen' <=> kind # "eos") /\ Chain(x)
    <3>1. n \in Nat
      BY <1>1
    <3>2. /\ accepted' = Append(accepted, kind) /\ writeOpen /\ UNCHANGED lost
          /\ writeOpen' = (kind # "eos") /\ Chain(x)
      BY <1>7 DEF Write
    <3> HIDE DEF x
    <3> QED
      BY <3>1, <3>2
  <2>2. x \in Chained /\ x.id = n /\ (x.eos <=> kind = "eos")
    BY <2>1, ItemTyped
  <2>3. queue' = Append(queue, x) /\ tail' = n
    BY <1>1, <2>1, <2>2, ChainAppends
  <2>4. Items(queue', accepted')
    BY <1>1, <2>1, <2>2, <2>3, TailGrows DEF Queueing, TypeOK
  <2> HIDE DEF x
  <2>5. /\ Len(queue') = Len(queue) + 1 /\ queue' # <<>> /\ Len(accepted') = n
        /\ Len(queue) \in Nat
        /\ DOMAIN queue' = 1 .. Len(queue) + 1 /\ DOMAIN queue = 1 .. Len(queue)
        /\ queue'[Len(queue) + 1] = x /\ \A i \in DOMAIN queue : queue'[i] = queue[i]
    <3>1. queue \in Seq(Chained) /\ x \in Chained
      BY <1>1, <2>2 DEF TypeOK
    <3>2. accepted \in Seq(Kinds) /\ Len(accepted') = n
      <4>1. accepted \in Seq(Kinds)
        BY <1>1 DEF TypeOK
      <4> QED
        BY <4>1, <2>1
    <3> HIDE DEF n
    <3> QED
      BY <2>3, <3>1, <3>2
  <2>6. ASSUME NEW i \in DOMAIN queue', queue'[i].eos
        PROVE  ~writeOpen'
    <3>1. CASE i = Len(queue) + 1
      BY <2>1, <2>2, <2>5, <2>6, <3>1
    <3>2. CASE i # Len(queue) + 1
      <4>1. i \in DOMAIN queue
        BY <2>5, <3>2
      <4> QED
        BY <1>1, <2>1, <2>5, <2>6, <4>1 DEF Queueing
    <3> QED
      BY <3>1, <3>2
  <2>7. Len(accepted') - Len(queue') = Len(accepted) - Len(queue)
    BY <1>1, <2>5
  <2> QED
    BY <1>1, <2>1, <2>3, <2>4, <2>5, <2>6, <2>7 DEF Queueing
<1>8. CASE WriteEos
  <2>1. /\ queue # <<>> /\ queue' = Tail(queue) /\ ~writeOpen'
        /\ UNCHANGED <<accepted, tail, lost>>
    BY <1>8 DEF WriteEos, Writing, ShutDownUplink, ShutDown
  <2> QED
    BY <1>1, <1>5, <2>1 DEF TypeOK
<1>9. CASE SendAgain \/ SendError
  <2>1. /\ queue # <<>> /\ queue' = <<ControlTaken(Head(queue))>> \o Tail(queue)
        /\ ~Head(queue).eos /\ Head(queue).pos # Head(queue).lim
        /\ UNCHANGED <<accepted, tail, lost, writeOpen>>
    BY <1>9 DEF SendAgain, SendError, Sending, Writing
  <2> QED
    BY <1>1, <1>4, <1>6, <2>1, HeadSteps, HeadTyped
<1>10. CASE SendLost
  <2>1. /\ queue # <<>> /\ queue' = Tail(queue) /\ lost' = lost \cup {Head(queue).id}
        /\ tail' = (IF queue' = <<>> THEN 0 ELSE tail) /\ UNCHANGED <<accepted, writeOpen>>
    BY <1>10 DEF SendLost, DropHead, Sending, Writing
  <2> QED
    BY <1>5, <2>1
<1>11. CASE SendData
  <2> DEFINE h1 == NextVec(ControlTaken(Head(queue)))
  <2>1. /\ queue # <<>> /\ ~Head(queue).eos /\ Head(queue).pos # Head(queue).lim
        /\ UNCHANGED <<accepted, lost, writeOpen>>
    BY <1>11 DEF SendData, Sending, Writing
  <2>2. CASE h1.pos = h1.lim
    <3>1. queue' = Tail(queue) /\ tail' = (IF queue' = <<>> THEN 0 ELSE tail)
      BY <1>11, <2>2 DEF SendData, DropHead
    <3> QED
      BY <1>5, <2>1, <3>1
  <2>3. CASE h1.pos # h1.lim
    <3>1. queue' = <<h1>> \o Tail(queue) /\ UNCHANGED tail
      BY <1>11, <2>3 DEF SendData
    <3> QED
      BY <1>1, <1>4, <1>6, <2>1, <2>3, <3>1, HeadSteps, HeadTyped
  <2> QED
    BY <2>2, <2>3
<1> QED
  BY <1>3, <1>7, <1>8, <1>9, <1>10, <1>11
     DEF Next, Handler, EventLoop, Application, Quiet, NoVecLeft
-----------------------------------------------------------------------------
\* The frames of the queue are numbered without a gap.
LEMMA Numbered ==
  ASSUME NEW S, NEW acc \in Seq(S), NEW q \in Seq(Chained), Items(q, acc)
  PROVE  /\ Len(q) \in Nat /\ Len(acc) \in Nat /\ Len(q) <= Len(acc)
         /\ DOMAIN q = 1 .. Len(q) /\ DOMAIN acc = 1 .. Len(acc)
         /\ \A i \in DOMAIN q : /\ q[i].id = Len(acc) - Len(q) + i
                                /\ q[i].id \in DOMAIN acc /\ q[i] \in Chained
BY DEF Items, ItemOk

\* A vec is sent.
LEMMA WireGrows ==
  ASSUME NEW w \in Seq(SentVec), NEW x \in SentVec
  PROVE  /\ DOMAIN Append(w, x) = DOMAIN w \cup {Len(w) + 1}
         /\ Append(w, x)[Len(w) + 1] = x
         /\ \A a \in DOMAIN w : Append(w, x)[a] = w[a] /\ a < Len(w) + 1 /\ a \in Nat
         /\ Len(w) \in Nat
         /\ \A n : n # x[1] => SentIn(Append(w, x), n) = SentIn(w, n)
         /\ SentIn(Append(w, x), x[1]) = SentIn(w, x[1]) \cup {x[2]}
<1> DEFINE w2 == Append(w, x)
           m == Len(w) + 1
<1>1. /\ DOMAIN w2 = DOMAIN w \cup {m} /\ w2[m] = x
      /\ \A a \in DOMAIN w : w2[a] = w[a] /\ a < m /\ a \in Nat
      /\ Len(w) \in Nat
  OBVIOUS
<1> HIDE DEF w2
<1> HIDE DEF m
<1>2. ASSUME NEW n, n # x[1]
      PROVE  SentIn(w2, n) = SentIn(w, n)
  <2>1. {b \in DOMAIN w2 : w2[b][1] = n} = {b \in DOMAIN w : w[b][1] = n}
    BY <1>1, <1>2
  <2> QED
    BY <1>1, <2>1 DEF SentIn
<1>3. SentIn(w2, x[1]) = SentIn(w, x[1]) \cup {x[2]}
  <2>1. {b \in DOMAIN w2 : w2[b][1] = x[1]} = {b \in DOMAIN w : w[b][1] = x[1]} \cup {m}
    BY <1>1
  <2>2. \A v : v \in SentIn(w2, x[1]) <=> v \in SentIn(w, x[1]) \cup {x[2]}
    BY <1>1, <2>1 DEF SentIn
  <2> QED
    BY <2>2
<1> QED
  BY <1>1, <1>2, <1>3 DEF w2, m

\* It is a vec of the head of the queue, and comes after the others of the frame.
LEMMA OrderGrows ==
  ASSUME NEW S, NEW acc \in Seq(S), NEW q \in Seq(Chained), q # <<>>, Items(q, acc),
         NEW w \in Seq(SentVec), NEW l, Ordered(acc, q, w, l),
         NEW x \in SentVec, x[1] = q[1].id,
         KeptIn(x[1], acc, l) => SentIn(w, x[1]) \subseteq 0 .. x[2] - 1,
         NEW q2, \A i \in DOMAIN q2 : \E j \in DOMAIN q : q2[i].id = q[j].id
  PROVE  Ordered(acc, q2, Append(w, x), l)
<1> DEFINE w2 == Append(w, x)
           m == Len(w) + 1
<1>1. /\ DOMAIN w2 = DOMAIN w \cup {m} /\ w2[m] = x
      /\ \A a \in DOMAIN w : w2[a] = w[a] /\ a < m /\ a \in Nat
      /\ m \in Nat
  BY WireGrows
<1> HIDE DEF w2
<1> HIDE DEF m
<1>2. /\ 1 \in DOMAIN q /\ q[1].id \in DOMAIN acc /\ x[1] \in Nat /\ x[2] \in Nat
      /\ \A j \in DOMAIN q : x[1] <= q[j].id
  BY Numbered DEF SentVec
<1>3. \A a \in DOMAIN w : w[a] \in SentVec /\ w[a][1] \in Nat /\ w[a][2] \in Nat
  <2>1. \A a \in DOMAIN w : w[a] \in SentVec
    OBVIOUS
  <2> QED
    BY <2>1 DEF SentVec
<1>4. \A a \in DOMAIN w2 : w2[a][1] \in DOMAIN acc
  BY <1>1, <1>2 DEF Ordered
<1>5. ASSUME NEW a \in DOMAIN w2, NEW i \in DOMAIN q2
      PROVE  w2[a][1] <= q2[i].id
  <2>1. PICK j \in DOMAIN q : q2[i].id = q[j].id
    OBVIOUS
  <2> QED
    BY <1>1, <1>2, <2>1 DEF Ordered
<1>6. ASSUME NEW a \in DOMAIN w2, NEW b \in DOMAIN w2, a < b,
             KeptIn(w2[a][1], acc, l), KeptIn(w2[b][1], acc, l)
      PROVE  Precedes(w2[a], w2[b])
  <2>1. a \in DOMAIN w /\ w2[a] = w[a]
    BY <1>1, <1>6
  <2>2. CASE b \in DOMAIN w
    BY <1>1, <1>6, <2>1, <2>2 DEF Ordered
  <2>3. CASE b = m
    <3>1. w[a][1] <= x[1]
      BY <1>2, <2>1 DEF Ordered
    <3>2. CASE w[a][1] = x[1]
      <4>1. w[a][2] \in SentIn(w, x[1])
        BY <2>1, <3>2 DEF SentIn
      <4>2. w[a][2] < x[2]
        BY <1>1, <1>2, <1>3, <1>6, <2>1, <2>3, <4>1
      <4> QED
        BY <1>1, <2>1, <2>3, <3>2, <4>2 DEF Precedes
    <3>3. CASE w[a][1] # x[1]
      BY <1>1, <1>2, <1>3, <2>1, <2>3, <3>1, <3>3 DEF Precedes
    <3> QED
      BY <3>2, <3>3
  <2> QED
    BY <1>1, <2>2, <2>3
<1> QED
  BY <1>4, <1>5, <1>6 DEF Ordered, w2

\* The order stays when only the queue changes or a frame is lost.
LEMMA OrderStays ==
  ASSUME NEW acc, NEW q, NEW w, NEW l, Ordered(acc, q, w, l),
         NEW q2, \A i \in DOMAIN q2 : \E j \in DOMAIN q : q2[i].id = q[j].id,
         NEW l2, l \subseteq l2
  PROVE  Ordered(acc, q2, w, l2)
BY DEF Ordered, KeptIn

\* What has been sent of a frame of the queue.
LEMMA SentOfQueued ==
  ASSUME NEW S, NEW acc \in Seq(S), NEW q \in Seq(Chained), Items(q, acc),
         NEW w, NEW l, Complete(acc, q, w, l), NEW k \in DOMAIN q,
         KeptIn(q[k].id, acc, l)
  PROVE  SentIn(w, q[k].id) = 0 .. q[k].pos - 1
<1>1. /\ Len(q) \in Nat /\ Len(acc) \in Nat /\ q[k].id \in DOMAIN acc
      /\ DOMAIN q = 1 .. Len(q)
      /\ \A i \in DOMAIN q : q[i].id = Len(acc) - Len(q) + i
  BY Numbered
<1>2. ~(q[k].id <= Len(acc) - Len(q))
  BY <1>1
<1>3. PICK i \in DOMAIN q : q[i].id = q[k].id /\ SentIn(w, q[k].id) = 0 .. q[i].pos - 1
  BY <1>1, <1>2 DEF Complete
<1>4. i = k
  BY <1>1, <1>3
<1> QED
  BY <1>3, <1>4

\* The head leaves when it is sent, or when it is lost.
LEMMA CompleteLeaves ==
  ASSUME NEW S, NEW acc \in Seq(S), NEW q \in Seq(Chained), q # <<>>, Items(q, acc),
         NEW w, NEW l, Complete(acc, q, w, l), NEW w2, NEW l2, l \subseteq l2,
         \A n : n # q[1].id => SentIn(w2, n) = SentIn(w, n),
         KeptIn(q[1].id, acc, l2) => SentIn(w2, q[1].id) = Whole(acc[q[1].id])
  PROVE  Complete(acc, Tail(q), w2, l2)
<1>1. /\ Len(q) \in Nat /\ Len(acc) \in Nat /\ 1 \in DOMAIN q
      /\ q[1].id = Len(acc) - Len(q) + 1 /\ DOMAIN q = 1 .. Len(q)
  BY Numbered
<1>2. /\ Len(Tail(q)) = Len(q) - 1 /\ DOMAIN Tail(q) = 1 .. Len(q) - 1
      /\ \A i \in 1 .. Len(q) - 1 : Tail(q)[i] = q[i + 1]
      /\ Len(acc) - Len(Tail(q)) = Len(acc) - Len(q) + 1
  BY QueueTail, HeadLeaves
<1> DEFINE t == Tail(q)
<1> HIDE DEF t
<1>3. ASSUME NEW n \in DOMAIN acc, KeptIn(n, acc, l2)
      PROVE  \/ n <= Len(acc) - Len(t) /\ SentIn(w2, n) = Whole(acc[n])
             \/ \E i \in DOMAIN t : t[i].id = n /\ SentIn(w2, n) = 0 .. t[i].pos - 1
  <2>1. CASE n = q[1].id
    BY <1>1, <1>2, <1>3, <2>1 DEF t
  <2>2. CASE n # q[1].id
    <3>1. KeptIn(n, acc, l) /\ SentIn(w2, n) = SentIn(w, n)
      BY <1>3, <2>2 DEF KeptIn
    <3>2. CASE n <= Len(acc) - Len(q) /\ SentIn(w, n) = Whole(acc[n])
      <4>1. n \in Nat
        OBVIOUS
      <4>2. n <= Len(acc) - Len(t)
        BY <1>1, <1>2, <3>2, <4>1 DEF t
      <4> QED
        BY <3>1, <3>2, <4>2
    <3>3. CASE \E i \in DOMAIN q : q[i].id = n /\ SentIn(w, n) = 0 .. q[i].pos - 1
      <4>1. PICK i \in DOMAIN q : q[i].id = n /\ SentIn(w, n) = 0 .. q[i].pos - 1
        BY <3>3
      <4>2. i - 1 \in DOMAIN t /\ t[i - 1] = q[i]
        BY <1>1, <1>2, <2>2, <4>1 DEF t
      <4> QED
        BY <3>1, <4>1, <4>2
    <3> QED
      BY <3>1, <3>2, <3>3 DEF Complete
  <2> QED
    BY <2>1, <2>2
<1> QED
  BY <1>3 DEF Complete, t

\* The head stays, with its vec_position further on or where it was.
LEMMA CompleteChanges ==
  ASSUME NEW S, NEW acc \in Seq(S), NEW q \in Seq(Chained), q # <<>>, Items(q, acc),
         NEW w, NEW l, Complete(acc, q, w, l), NEW w2,
         NEW x \in Chained, x.id = q[1].id,
         \A n : n # q[1].id => SentIn(w2, n) = SentIn(w, n),
         KeptIn(q[1].id, acc, l) => SentIn(w2, q[1].id) = 0 .. x.pos - 1
  PROVE  Complete(acc, <<x>> \o Tail(q), w2, l)
<1> DEFINE p == <<x>> \o Tail(q)
<1>1. /\ Len(p) = Len(q) /\ DOMAIN p = DOMAIN q /\ p[1] = x /\ 1 \in DOMAIN q
      /\ DOMAIN q = 1 .. Len(q) /\ Len(q) \in Nat
      /\ \A i \in 2 .. Len(q) : p[i] = q[i]
  BY QueueTail
<1> HIDE DEF p
<1>2. ASSUME NEW n \in DOMAIN acc, KeptIn(n, acc, l)
      PROVE  \/ n <= Len(acc) - Len(p) /\ SentIn(w2, n) = Whole(acc[n])
             \/ \E i \in DOMAIN p : p[i].id = n /\ SentIn(w2, n) = 0 .. p[i].pos - 1
  <2>1. CASE n = q[1].id
    BY <1>1, <1>2, <2>1
  <2>2. CASE n # q[1].id
    <3>1. SentIn(w2, n) = SentIn(w, n)
      BY <2>2
    <3>2. CASE n <= Len(acc) - Len(q) /\ SentIn(w, n) = Whole(acc[n])
      BY <1>1, <3>1, <3>2
    <3>3. CASE \E i \in DOMAIN q : q[i].id = n /\ SentIn(w, n) = 0 .. q[i].pos - 1
      <4>1. PICK i \in DOMAIN q : q[i].id = n /\ SentIn(w, n) = 0 .. q[i].pos - 1
        BY <3>3
      <4>2. p[i] = q[i]
        BY <1>1, <2>2, <4>1
      <4> QED
        BY <1>1, <3>1, <4>1, <4>2
    <3> QED
      BY <1>2, <3>2, <3>3 DEF Complete
  <2> QED
    BY <2>1, <2>2
<1> QED
  BY <1>2 DEF Complete, p

\* A frame is accepted: nothing of it has been sent.
LEMMA DeliveryGrows ==
  ASSUME NEW S, NEW acc \in Seq(S), NEW q \in Seq(Chained), Items(q, acc),
         NEW w \in Seq(SentVec), NEW l, Ordered(acc, q, w, l), Complete(acc, q, w, l),
         NEW kind \in S, NEW x \in Chained, x.id = Len(acc) + 1, x.pos = 0
  PROVE  /\ Ordered(Append(acc, kind), Append(q, x), w, l)
         /\ Complete(Append(acc, kind), Append(q, x), w, l)
<1> DEFINE p == Append(q, x)
           new == Append(acc, kind)
<1>1. /\ Len(q) \in Nat /\ DOMAIN q = 1 .. Len(q) /\ Len(acc) \in Nat
      /\ DOMAIN acc = 1 .. Len(acc)
  OBVIOUS
<1>2. /\ Len(p) = Len(q) + 1 /\ DOMAIN p = 1 .. Len(q) + 1 /\ p[Len(q) + 1] = x
      /\ \A i \in 1 .. Len(q) : p[i] = q[i]
  BY <1>1
<1>3. /\ Len(new) = Len(acc) + 1 /\ DOMAIN new = 1 .. Len(acc) + 1
      /\ \A n \in 1 .. Len(acc) : new[n] = acc[n]
  BY <1>1
<1> HIDE DEF p, new
<1>4. \A a \in DOMAIN w : w[a][1] \in 1 .. Len(acc)
  BY <1>1 DEF Ordered
<1>5. \A n \in 1 .. Len(acc) : KeptIn(n, new, l) <=> KeptIn(n, acc, l)
  BY <1>3 DEF KeptIn
<1>6. Ordered(new, p, w, l)
  <2>1. \A a \in DOMAIN w : w[a][1] \in DOMAIN new
    BY <1>1, <1>3, <1>4
  <2>2. ASSUME NEW a \in DOMAIN w, NEW i \in DOMAIN p
        PROVE  w[a][1] <= p[i].id
    <3>1. CASE i = Len(q) + 1
      BY <1>1, <1>2, <1>4, <3>1
    <3>2. CASE i # Len(q) + 1
      BY <1>1, <1>2, <3>2 DEF Ordered
    <3> QED
      BY <3>1, <3>2
  <2> QED
    BY <1>4, <1>5, <2>1, <2>2 DEF Ordered
<1>7. ASSUME NEW n \in DOMAIN new, KeptIn(n, new, l)
      PROVE  \/ n <= Len(new) - Len(p) /\ SentIn(w, n) = Whole(new[n])
             \/ \E i \in DOMAIN p : p[i].id = n /\ SentIn(w, n) = 0 .. p[i].pos - 1
  <2>1. CASE n = Len(acc) + 1
    <3>1. SentIn(w, n) = {}
      BY <1>1, <1>4, <2>1 DEF SentIn
    <3>2. 0 .. 0 - 1 = {}
      OBVIOUS
    <3>3. Len(q) + 1 \in DOMAIN p /\ p[Len(q) + 1].id = n /\ p[Len(q) + 1].pos = 0
      BY <1>1, <1>2, <2>1
    <3> QED
      BY <3>1, <3>2, <3>3
  <2>2. CASE n # Len(acc) + 1
    <3>1. n \in DOMAIN acc /\ n \in 1 .. Len(acc) /\ KeptIn(n, acc, l)
      BY <1>1, <1>3, <1>5, <1>7, <2>2
    <3>2. CASE n <= Len(acc) - Len(q) /\ SentIn(w, n) = Whole(acc[n])
      <4>1. Len(new) - Len(p) = Len(acc) - Len(q) /\ new[n] = acc[n]
        BY <1>1, <1>2, <1>3, <3>1
      <4> QED
        BY <3>2, <4>1
    <3>3. CASE \E i \in DOMAIN q : q[i].id = n /\ SentIn(w, n) = 0 .. q[i].pos - 1
      <4>1. PICK i \in DOMAIN q : q[i].id = n /\ SentIn(w, n) = 0 .. q[i].pos - 1
        BY <3>3
      <4>2. i \in DOMAIN p /\ p[i] = q[i]
        BY <1>1, <1>2, <4>1
      <4> QED
        BY <4>1, <4>2
    <3> QED
      BY <3>1, <3>2, <3>3 DEF Complete
  <2> QED
    BY <2>1, <2>2
<1>8. Complete(new, p, w, l)
  BY <1>7 DEF Complete
<1> QED
  BY <1>6, <1>8 DEF p, new

LEMMA DeliveryStep ==
  ASSUME Inv, phase = "open", phase' = "open", Next
  PROVE  Delivery'
<1> USE DEF sockVars, readVars, watchVars, queueVars, readHist, writeHist
<1>1. /\ TypeOK /\ Queueing /\ Items(queue, accepted)
      /\ Ordered(accepted, queue, wire, lost) /\ Complete(accepted, queue, wire, lost)
      /\ accepted \in Seq(Kinds) /\ queue \in Seq(Chained) /\ wire \in Seq(SentVec)
  BY DEF Inv, Delivery, Queueing, TypeOK
<1>2. ASSUME UNCHANGED <<accepted, queue, wire, lost>>
      PROVE  Delivery'
  BY <1>1, <1>2 DEF Delivery
<1>3. CASE \/ ErrorReturns \/ EosReturns \/ ReadNoFrame \/ RecvAgain \/ ReadLoopsDone
           \/ RecvError \/ RecvZero \/ RecvData \/ WriteLoopDone \/ WriteLoopsExceeded
           \/ WriteDone \/ FlushTurn \/ OnRead \/ OnWrite \/ Flush \/ Quiet
           \/ (\E up \in BOOLEAN, kept \in 0 .. MoreVecs : FullReturns(up, kept))
  <2>1. UNCHANGED <<accepted, queue, wire, lost>>
    BY <1>3 DEF ErrorReturns, EosReturns, ReadNoFrame, RecvAgain, ReadLoopsDone,
       ReadAgain, RecvError, RecvZero, RecvData, WriteLoopDone, WriteLoopsExceeded,
       WriteDone, FlushTurn, OnRead, OnWrite, Flush, Fini, Quiet,
       ReadStart, ReadStop, ReadPause, ReadResume, WriteStart, WriteStop, Bind,
       Connect, Arrives, FullReturns
  <2> QED
    BY <1>2, <2>1
<1>4. ASSUME queue # <<>>
      PROVE  /\ Head(queue) = queue[1] /\ queue[1] \in Chained
             /\ ItemOk(queue[1], queue[1].id, accepted)
             /\ queue[1].id = Len(accepted) - Len(queue) + 1
             /\ \A i \in DOMAIN Tail(queue) : \E j \in DOMAIN queue :
                  Tail(queue)[i].id = queue[j].id
             /\ KeptIn(queue[1].id, accepted, lost) =>
                  SentIn(wire, queue[1].id) = 0 .. queue[1].pos - 1
             /\ Len(queue) \in Nat
  <2>1. \A i \in DOMAIN Tail(queue) : i + 1 \in DOMAIN queue /\ Tail(queue)[i] = queue[i + 1]
    BY <1>1, <1>4, QueueTail
  <2>2. Head(queue) = queue[1] /\ queue[1] \in Chained
    BY <1>1, <1>4, HeadTyped
  <2> QED
    <3>1. 1 \in DOMAIN queue
      BY <1>1, <1>4, HeadTyped
    <3> QED
      BY <1>1, <1>4, <2>1, <2>2, <3>1, HeadLeaves, SentOfQueued
<1>5. ASSUME queue # <<>>, NEW x \in Chained, x.id = queue[1].id
      PROVE  \A i \in DOMAIN (<<x>> \o Tail(queue)) : \E j \in DOMAIN queue :
               (<<x>> \o Tail(queue))[i].id = queue[j].id
  <2> DEFINE p == <<x>> \o Tail(queue)
  <2>1. /\ DOMAIN p = DOMAIN queue /\ p[1] = x
        /\ \A i \in 2 .. Len(queue) : p[i] = queue[i]
        /\ DOMAIN queue = 1 .. Len(queue) /\ Len(queue) \in Nat
    BY <1>1, <1>5, QueueTail, Numbered
  <2> HIDE DEF p
  <2>2. ASSUME NEW i \in DOMAIN p
        PROVE  p[i].id = queue[i].id /\ i \in DOMAIN queue
    <3>1. CASE i = 1
      BY <1>5, <2>1, <3>1
    <3>2. CASE i # 1
      BY <2>1, <3>2
    <3> QED
      BY <3>1, <3>2
  <2> QED
    BY <2>2 DEF p
<1>6. CASE WriteEos
  <2> DEFINE x == <<queue[1].id, 0, NoFrame>>
  <2>1. /\ queue # <<>> /\ queue' = Tail(queue) /\ Head(queue).eos
        /\ wire' = Append(wire, <<Head(queue).id, 0, NoFrame>>)
        /\ UNCHANGED <<accepted, lost>>
    BY <1>6 DEF WriteEos, Writing
  <2>2. x \in SentVec /\ x[1] = queue[1].id /\ x[2] = 0 /\ wire' = Append(wire, x)
    BY <1>4, <2>1 DEF SentVec, Chained, NoFrame
  <2>3. queue[1].pos = 0 /\ accepted[queue[1].id] = "eos"
    BY <1>4, <2>1 DEF ItemOk
  <2> HIDE DEF x
  <2>4. KeptIn(queue[1].id, accepted, lost) => SentIn(wire, queue[1].id) = {}
    <3>1. 0 .. 0 - 1 = {}
      OBVIOUS
    <3> QED
      BY <1>4, <2>1, <2>3, <3>1
  <2>5. Ordered(accepted, Tail(queue), Append(wire, x), lost)
    BY <1>1, <1>4, <2>1, <2>2, <2>4, OrderGrows
  <2>6. /\ \A n : n # queue[1].id => SentIn(Append(wire, x), n) = SentIn(wire, n)
        /\ SentIn(Append(wire, x), queue[1].id) = SentIn(wire, queue[1].id) \cup {0}
    <3>1. /\ \A n : n # x[1] => SentIn(Append(wire, x), n) = SentIn(wire, n)
          /\ SentIn(Append(wire, x), x[1]) = SentIn(wire, x[1]) \cup {x[2]}
      BY <1>1, <2>2, WireGrows
    <3> QED
      BY <2>2, <3>1, Zenon
  <2>7. KeptIn(queue[1].id, accepted, lost) =>
          SentIn(Append(wire, x), queue[1].id) = Whole(accepted[queue[1].id])
    BY <2>3, <2>4, <2>6 DEF Whole
  <2>8. Complete(accepted, Tail(queue), Append(wire, x), lost)
    BY <1>1, <2>1, <2>6, <2>7, CompleteLeaves
  <2> QED
    BY <2>1, <2>2, <2>5, <2>8 DEF Delivery
<1>7. CASE SendAgain \/ SendError
  <2> DEFINE x == ControlTaken(queue[1])
  <2>1. /\ queue # <<>> /\ queue' = <<ControlTaken(Head(queue))>> \o Tail(queue)
        /\ UNCHANGED <<accepted, wire, lost>>
    BY <1>7 DEF SendAgain, SendError, Sending, Writing
  <2>2. /\ x \in Chained /\ x.id = queue[1].id /\ x.pos = queue[1].pos
        /\ queue' = <<x>> \o Tail(queue)
    <3>1. x \in Chained
      BY <1>1, <2>1, HeadTyped
    <3>2. x.id = queue[1].id /\ x.pos = queue[1].pos
      BY <1>4, <2>1 DEF ControlTaken, Chained
    <3> QED
      BY <1>4, <2>1, <3>1, <3>2
  <2> HIDE DEF x
  <2>3. Ordered(accepted, <<x>> \o Tail(queue), wire, lost)
    BY ZenonT(30), <1>1, <1>5, <2>1, <2>2, OrderStays
  <2>4. Complete(accepted, <<x>> \o Tail(queue), wire, lost)
    BY <1>1, <1>4, <2>1, <2>2, CompleteChanges
  <2> QED
    BY <2>1, <2>2, <2>3, <2>4 DEF Delivery
<1>8. CASE SendLost
  <2> DEFINE l2 == lost \cup {queue[1].id}
  <2>1. /\ queue # <<>> /\ queue' = Tail(queue) /\ lost' = lost \cup {Head(queue).id}
        /\ UNCHANGED <<accepted, wire>>
    BY <1>8 DEF SendLost, DropHead, Sending, Writing
  <2>2. lost' = l2 /\ ~KeptIn(queue[1].id, accepted, l2)
    BY <1>4, <2>1 DEF KeptIn
  <2>3. Ordered(accepted, Tail(queue), wire, l2)
    BY <1>1, <1>4, <2>1, OrderStays
  <2>4. Complete(accepted, Tail(queue), wire, l2)
    BY <1>1, <2>1, <2>2, CompleteLeaves
  <2> QED
    BY <2>1, <2>2, <2>3, <2>4 DEF Delivery
<1>9. CASE SendData
  <2> DEFINE h == queue[1]
             h1 == NextVec(ControlTaken(h))
             x == <<h.id, h.pos, Control(h)>>
  <2>1. /\ queue # <<>> /\ ~h.eos /\ h.pos # h.lim /\ wire' = Append(wire, x)
        /\ UNCHANGED <<accepted, lost>>
    BY <1>4, <1>9 DEF SendData, Sending, Writing
  <2>2. x \in SentVec /\ x[1] = h.id /\ x[2] = h.pos /\ h.id \in Nat /\ h.pos \in Nat
    <3>1. h \in Chained /\ ControlTaken(h) \in Chained
      BY <1>1, <2>1, HeadTyped
    <3>2. h.id \in Nat /\ h.pos \in Nat /\ Control(h) \in Int
      BY <3>1 DEF Control, Chained, NoFrame
    <3> QED
      BY <3>2 DEF SentVec
  <2>3. /\ h1.id = h.id /\ (~h.ctl => h1.pos = h.pos + 1 /\ h1.lim = h.lim)
        /\ h1 \in Chained
    BY <1>1, <2>1, HeadSteps, HeadTyped
  <2> HIDE DEF x, h1
  <2>4. KeptIn(h.id, accepted, lost) =>
          ~h.ctl /\ h.lim = DataVecs(accepted[h.id]) /\ accepted[h.id] # "eos"
    BY <1>4, <2>1 DEF ItemOk, KeptIn
  <2>5. /\ \A n : n # h.id => SentIn(Append(wire, x), n) = SentIn(wire, n)
        /\ SentIn(Append(wire, x), h.id) = SentIn(wire, h.id) \cup {h.pos}
    <3>1. /\ \A n : n # x[1] => SentIn(Append(wire, x), n) = SentIn(wire, n)
          /\ SentIn(Append(wire, x), x[1]) = SentIn(wire, x[1]) \cup {x[2]}
      BY <1>1, <2>2, WireGrows
    <3> QED
      BY <2>2, <3>1, Zenon
  <2>6. KeptIn(h.id, accepted, lost) => SentIn(wire, h.id) = 0 .. h.pos - 1
    BY <1>4, <2>1
  <2>7. KeptIn(h.id, accepted, lost) =>
          SentIn(Append(wire, x), h.id) = 0 .. h1.pos - 1
    <3>1. (0 .. h.pos - 1) \cup {h.pos} = 0 .. h.pos + 1 - 1
      BY <2>2
    <3>2. ASSUME KeptIn(h.id, accepted, lost)
          PROVE  SentIn(Append(wire, x), h.id) = 0 .. h1.pos - 1
      <4>1. SentIn(Append(wire, x), h.id) = (0 .. h.pos - 1) \cup {h.pos}
        BY <2>5, <2>6, <3>2
      <4>2. h1.pos = h.pos + 1
        BY <2>3, <2>4, <3>2
      <4>3. 0 .. h1.pos - 1 = 0 .. h.pos + 1 - 1
        BY <2>2, <4>2
      <4>4. SentIn(Append(wire, x), h.id) = 0 .. h.pos + 1 - 1
        BY <3>1, <4>1
      <4> QED
        BY <4>3, <4>4
    <3> QED
      BY <3>2
  <2>8. ASSUME NEW q2, \A i \in DOMAIN q2 : \E j \in DOMAIN queue : q2[i].id = queue[j].id
        PROVE  Ordered(accepted, q2, Append(wire, x), lost)
    BY <1>1, <2>1, <2>2, <2>6, <2>8, OrderGrows
  <2>9. CASE h1.pos = h1.lim
    <3>1. queue' = Tail(queue)
      BY <1>4, <1>9, <2>1, <2>9 DEF SendData, DropHead, h1
    <3>2. KeptIn(h.id, accepted, lost) =>
            SentIn(Append(wire, x), h.id) = Whole(accepted[h.id])
      BY <2>3, <2>4, <2>7, <2>9 DEF Whole
    <3>3. Complete(accepted, Tail(queue), Append(wire, x), lost)
      BY <1>1, <2>1, <2>5, <3>2, CompleteLeaves
    <3> QED
      BY <1>4, <2>1, <2>8, <3>1, <3>3 DEF Delivery
  <2>10. CASE h1.pos # h1.lim
    <3>1. queue' = <<h1>> \o Tail(queue)
      BY <1>4, <1>9, <2>1, <2>10 DEF SendData, h1
    <3>2. Complete(accepted, <<h1>> \o Tail(queue), Append(wire, x), lost)
      BY <1>1, <2>1, <2>3, <2>5, <2>7, CompleteChanges
    <3> QED
      BY <1>5, <2>1, <2>3, <2>8, <3>1, <3>2 DEF Delivery
  <2> QED
    BY <2>9, <2>10
<1>10. ASSUME NEW kind \in Kinds, Write(kind)
       PROVE  Delivery'
  <2> DEFINE n == Len(accepted) + 1
             x == Item(n, kind)
  <2>1. n \in Nat /\ x \in Chained /\ x.id = n /\ x.pos = 0
    BY <1>1, ItemTyped
  <2>2. /\ accepted' = Append(accepted, kind) /\ writeOpen /\ Chain(x)
        /\ UNCHANGED <<wire, lost>>
    BY <1>10 DEF Write
  <2> HIDE DEF x
  <2>3. queue' = Append(queue, x)
    BY <1>1, <2>1, <2>2, ChainAppends
  <2> QED
    BY <1>1, <2>1, <2>2, <2>3, DeliveryGrows DEF Delivery
<1> QED
  BY <1>3, <1>6, <1>7, <1>8, <1>9, <1>10
     DEF Next, Handler, EventLoop, Application, Quiet, NoVecLeft
-----------------------------------------------------------------------------
LEMMA InitInv == Init => Inv
<1> SUFFICES ASSUME Init PROVE Inv
  OBVIOUS
<1>1. TypeOK
  <2>1. \A S : <<>> \in Seq(S)
    OBVIOUS
  <2>2. FlagTypes
    BY DEF Init, FlagTypes
  <2>3. ReadTypes
    BY <2>1 DEF Init, ReadTypes
  <2>4. QueueTypes
    BY <2>1 DEF Init, QueueTypes
  <2>5. phase \in {"open", "fini", "assert"} /\ stack \in Seq(Activation)
    BY <2>1 DEF Init
  <2> QED
    BY <2>2, <2>3, <2>4, <2>5, TypesSplit
<1>2. phase = "open" /\ stack = <<>> /\ queue = <<>> /\ accepted = <<>> /\ wire = <<>>
      /\ lost = {} /\ tail = 0
  BY DEF Init
<1>3. Shape /\ Active = {}
  BY <1>2 DEF Shape, Active
<1>4. Reading
  BY <1>3 DEF Init, Reading
<1>5. Writable
  BY <1>2 DEF Writable
<1>6. Queueing
  BY <1>2 DEF Queueing, Items
<1>7. Delivery
  BY <1>2 DEF Delivery, Ordered, Complete
<1> QED
  BY <1>1, <1>2, <1>3, <1>4, <1>5, <1>6, <1>7 DEF Inv

\* The assertion of the write loop can fail for a frame with a control block only:
\* any other frame of the queue has a vec left.
LEMMA AssertFails ==
  ASSUME TypeOK, Queueing, NoVecLeft
  PROVE  \E n \in DOMAIN accepted : HasControl(accepted[n])
<1>1. queue # <<>> /\ ~Head(queue).eos /\ Head(queue).pos = Head(queue).lim
  BY DEF NoVecLeft, Writing
<1>2. /\ Head(queue) = queue[1] /\ queue[1] \in Chained
      /\ ItemOk(queue[1], queue[1].id, accepted)
  BY <1>1, HeadTyped, HeadLeaves DEF Queueing, TypeOK
<1>3. queue[1].ctl
  BY <1>1, <1>2 DEF ItemOk, Chained
<1> QED
  BY <1>2, <1>3 DEF ItemOk

LEMMA InvStep == Inv /\ [Next]_vars => Inv'
<1> SUFFICES ASSUME Inv, [Next]_vars PROVE Inv'
  OBVIOUS
<1> USE DEF sockVars, readVars, watchVars, queueVars, readHist, writeHist
<1>1. ASSUME Next
      PROVE  Inv'
  <2>1. /\ phase = "open" /\ (phase' = "open" \/ Fini \/ NoVecLeft)
        /\ TypeOK /\ Shape /\ Queueing
    BY <1>1, Phases DEF Inv
  <2>2. TypeOK' /\ Shape'
    BY <1>1, <2>1, TypeStep
  <2>3. CASE phase' = "open"
    BY <1>1, <2>1, <2>2, <2>3, ReadingStep, WritableStep, QueueingStep, DeliveryStep
       DEF Inv
  <2>4. CASE Fini
    <3>1. phase' = "fini" /\ stack' = <<>>
      BY <2>1, <2>4, LoopIsEmpty DEF Fini
    <3> QED
      BY <2>2, <3>1 DEF Inv
  <2>5. CASE NoVecLeft
    <3>1. phase' = "assert" /\ UNCHANGED accepted
      BY <2>5 DEF NoVecLeft
    <3>2. \E n \in DOMAIN accepted : HasControl(accepted[n])
      BY <2>1, <2>5, AssertFails
    <3> QED
      BY <2>2, <3>1, <3>2 DEF Inv
  <2> QED
    BY <2>1, <2>3, <2>4, <2>5
<1>2. ASSUME UNCHANGED vars
      PROVE  Inv'
  <2> USE <1>2 DEF vars
  <2>1. TypeOK' = TypeOK
    BY DEF TypeOK
  <2>2. Shape' = Shape /\ Active' = Active
    BY DEF Shape, Active
  <2>3. Reading' = Reading /\ Writable' = Writable
    BY <2>2 DEF Reading, Writable
  <2>4. Queueing' = Queueing /\ Delivery' = Delivery
    BY DEF Queueing, Delivery
  <2> QED
    BY <2>1, <2>2, <2>3, <2>4 DEF Inv
<1> QED
  BY <1>1, <1>2

\* Every reachable state satisfies the invariant: the types, what runs on what,
\* and what the watchers, the queue and the wire owe to what is running.
THEOREM InvHolds == Spec => []Inv
BY InitInv, InvStep, PTL DEF Spec

\* Whenever the event loop runs, ft_dgram watches for input exactly when it wants
\* some, is not paused and has not been shut down.
THEOREM ReadWatchIsExact == Spec => []ReadWatchExact
<1>1. Inv => ReadWatchExact
  BY DEF Inv, Reading, ReadWatchExact, InLoop
<1> QED
  BY <1>1, InvHolds, PTL

\* Whenever the event loop runs, a socket with frames in write_frames waits for the
\* descriptor, unless it is stopped, shut down or stalled by a lost frame.
THEOREM WriteWatchIsSound == Spec => []WriteWatchSound
<1>1. ASSUME Inv, InLoop
      PROVE  Active = {}
  BY <1>1, LoopIsEmpty DEF Inv, InLoop
<1>2. Inv => WriteWatchSound
  BY <1>1 DEF Inv, Writable, WriteWatchSound, InLoop
<1> QED
  BY <1>2, InvHolds, PTL

\* What is left of a frame of the queue completes what has been sent of it.
LEMMA SentAndLeft ==
  ASSUME TypeOK, Queueing, Delivery, NEW n \in DOMAIN accepted, Kept(n)
  PROVE  SentOf(n) \cup LeftOf(n) = Whole(accepted[n])
<1>1. /\ accepted \in Seq(Kinds) /\ queue \in Seq(Chained) /\ Items(queue, accepted)
      /\ Complete(accepted, queue, wire, lost) /\ KeptIn(n, accepted, lost)
      /\ SentOf(n) = SentIn(wire, n)
  BY DEF TypeOK, Queueing, Delivery, Kept, KeptIn, SentOf, SentIn
<1>2. /\ Len(queue) \in Nat /\ Len(accepted) \in Nat /\ n \in Nat
      /\ DOMAIN queue = 1 .. Len(queue)
      /\ \A j \in DOMAIN queue : /\ queue[j].id = Len(accepted) - Len(queue) + j
                                 /\ queue[j] \in Chained
  BY <1>1, Numbered
<1>3. CASE n <= Len(accepted) - Len(queue) /\ SentIn(wire, n) = Whole(accepted[n])
  <2>1. {j \in DOMAIN queue : queue[j].id = n} = {}
    BY <1>2, <1>3
  <2>2. LeftOf(n) = {}
    BY <2>1 DEF LeftOf
  <2> QED
    BY <1>1, <1>3, <2>2
<1>4. CASE \E i \in DOMAIN queue :
             queue[i].id = n /\ SentIn(wire, n) = 0 .. queue[i].pos - 1
  <2>1. PICK i \in DOMAIN queue :
          queue[i].id = n /\ SentIn(wire, n) = 0 .. queue[i].pos - 1
    BY <1>4
  <2>2. {j \in DOMAIN queue : queue[j].id = n} = {i}
    BY <1>2, <2>1
  <2>3. LeftOf(n) = Left(queue[i])
    BY <2>2 DEF LeftOf
  <2>4. ItemOk(queue[i], n, accepted)
    BY <1>1, <1>2, <2>1 DEF Items, ItemOk
  <2>5. CASE queue[i].eos
    <3>1. 0 .. 0 - 1 = {}
      OBVIOUS
    <3>2. queue[i].pos = 0 /\ accepted[n] = "eos"
      BY <2>4, <2>5 DEF ItemOk
    <3> QED
      BY <1>1, <2>1, <2>3, <2>5, <3>1, <3>2 DEF Left, Whole
  <2>6. CASE ~queue[i].eos
    <3>1. /\ accepted[n] # "eos" /\ queue[i].pos < queue[i].lim
          /\ queue[i].lim = DataVecs(accepted[n])
      BY <1>1, <2>4, <2>6 DEF ItemOk, KeptIn
    <3>2. queue[i].pos \in Nat /\ queue[i].lim \in Nat
      BY <1>2 DEF Chained
    <3>3. (0 .. queue[i].pos - 1) \cup (queue[i].pos .. queue[i].lim - 1)
            = 0 .. queue[i].lim - 1
      BY <3>1, <3>2
    <3> QED
      BY <1>1, <2>1, <2>3, <2>6, <3>1, <3>3 DEF Left, Whole
  <2> QED
    BY <2>5, <2>6
<1> QED
  BY <1>1, <1>3, <1>4 DEF Complete

\* ft_dgram sends the vecs of the frames it has accepted and not lost, each once and
\* in their order, and what it has not sent is still in write_frames.
THEOREM FramesAreSentInOrder == Spec => []SentInOrder
<1>1. ASSUME Inv, phase = "open"
      PROVE  SentInOrder
  <2>1. /\ TypeOK /\ Queueing /\ Delivery /\ Items(queue, accepted)
        /\ Ordered(accepted, queue, wire, lost) /\ Complete(accepted, queue, wire, lost)
        /\ accepted \in Seq(Kinds) /\ queue \in Seq(Chained) /\ wire \in Seq(SentVec)
    BY <1>1 DEF Inv, Delivery, Queueing, TypeOK
  <2>2. /\ Len(queue) \in Nat /\ Len(accepted) \in Nat /\ DOMAIN queue = 1 .. Len(queue)
        /\ \A i \in DOMAIN queue : /\ queue[i].id = Len(accepted) - Len(queue) + i
                                   /\ queue[i].id \in DOMAIN accepted
                                   /\ queue[i] \in Chained
    BY <2>1, Numbered
  <2>3. \A n \in DOMAIN accepted : Kept(n) <=> KeptIn(n, accepted, lost)
    BY DEF Kept, KeptIn
  <2>4. \A a \in DOMAIN wire : wire[a][1] \in DOMAIN accepted
    BY <2>1 DEF Ordered
  <2>5. \A a, b \in DOMAIN wire :
          a < b /\ Kept(wire[a][1]) /\ Kept(wire[b][1]) => Precedes(wire[a], wire[b])
    BY <2>1, <2>3, <2>4 DEF Ordered
  <2>6. \A i, j \in DOMAIN queue : i < j => queue[i].id < queue[j].id
    BY <2>2
  <2>7. ASSUME NEW a \in DOMAIN wire, NEW i \in DOMAIN queue,
               Kept(wire[a][1]), Kept(queue[i].id), NEW v \in Left(queue[i])
        PROVE  Precedes(wire[a], <<queue[i].id, v>>)
    <3>1. wire[a] \in SentVec /\ wire[a][1] \in Nat /\ wire[a][2] \in Nat
      <4>1. wire[a] \in SentVec
        BY <2>1
      <4> QED
        BY <4>1 DEF SentVec
    <3>2. wire[a][1] <= queue[i].id /\ queue[i].id \in Nat
      BY <2>1, <2>2 DEF Ordered, Chained
    <3>3. ASSUME wire[a][1] = queue[i].id
          PROVE  wire[a][2] < v
      <4>1. SentIn(wire, queue[i].id) = 0 .. queue[i].pos - 1
        <5>1. KeptIn(queue[i].id, accepted, lost)
          BY <2>2, <2>3, <2>7
        <5> QED
          BY SMTT(30), <2>1, <5>1, SentOfQueued
      <4>2. wire[a][2] \in SentIn(wire, queue[i].id)
        BY <3>3 DEF SentIn
      <4>3. queue[i].pos \in Nat /\ queue[i].lim \in Nat /\ wire[a][2] < queue[i].pos
        BY <2>2, <3>1, <4>1, <4>2 DEF Chained
      <4>4. ItemOk(queue[i], Len(accepted) - Len(queue) + i, accepted)
        BY <2>1 DEF Items
      <4>5. ~queue[i].eos
        BY <3>1, <4>3, <4>4 DEF ItemOk
      <4> QED
        BY <2>7, <3>1, <4>3, <4>5 DEF Left
    <3> QED
      BY <3>1, <3>2, <3>3 DEF Precedes
  <2>8. \A n \in DOMAIN accepted : Kept(n) => SentOf(n) \cup LeftOf(n) = Whole(accepted[n])
    BY <2>1, SentAndLeft
  <2> QED
    BY <2>2, <2>4, <2>5, <2>6, <2>7, <2>8 DEF SentInOrder
<1>2. Inv => SentInOrder
  BY <1>1 DEF SentInOrder
<1> QED
  BY <1>2, InvHolds, PTL

\* After the end of the stream no datagram is handed to the application, even if the
\* end came from inside a read callback.
THEOREM EosComesLast == Spec => EosIsLast
<1> USE DEF sockVars, readVars, watchVars, queueVars, readHist, writeHist
<1>1. ASSUME Inv, Next, eosIn > 0
      PROVE  offered' <= offered
  <2>1. TypeOK /\ Shape /\ Reading /\ offered \in Int /\ phase = "open"
    BY <1>1, Phases DEF Inv, TypeOK
  <2>2. shutdown /\ "read_loop" \notin Active
    BY <1>1, <2>1 DEF Reading
  <2>3. ~RecvData
    BY <2>1, <2>2, LoopRuns, NamesAre DEF RecvData, Receiving
  <2>4. ASSUME NEW up \in BOOLEAN, NEW kept \in 0 .. MoreVecs, FullReturns(up, kept)
        PROVE  offered' <= offered
    <3>1. offered' = offered \/ offered' = offered - kept
      BY <2>4 DEF FullReturns
    <3>2. kept \in Int /\ kept >= 0
      OBVIOUS
    <3> QED
      BY <2>1, <3>1, <3>2
  <2>5. ASSUME UNCHANGED offered
        PROVE  offered' <= offered
    BY <2>1, <2>5
  <2>6. CASE \/ ErrorReturns \/ EosReturns \/ ReadNoFrame \/ RecvAgain \/ ReadLoopsDone
             \/ RecvError \/ RecvZero
    BY <2>5, <2>6 DEF ErrorReturns, EosReturns, ReadNoFrame, RecvAgain, ReadLoopsDone,
       ReadAgain, RecvError, RecvZero
  <2>7. CASE \/ WriteLoopDone \/ WriteLoopsExceeded \/ WriteEos \/ NoVecLeft \/ SendAgain
             \/ SendError \/ SendLost \/ SendData \/ WriteDone \/ FlushTurn
    BY <2>5, <2>7 DEF WriteLoopDone, WriteLoopsExceeded, WriteEos, NoVecLeft, SendAgain,
       SendError, SendLost, SendData, WriteDone, FlushTurn
  <2>8. CASE EventLoop \/ Application \/ \E e \in BOOLEAN : Arrives(e)
    BY <2>5, <2>8 DEF EventLoop, OnRead, OnWrite, Application, Write, Flush, ReadStart,
       ReadStop, ReadPause, ReadResume, WriteStart, WriteStop, Bind, Connect, Fini,
       Arrives
  <2> QED
    BY <1>1, <2>3, <2>4, <2>6, <2>7, <2>8 DEF Next, Handler
<1>2. Inv /\ [Next]_vars => [eosIn > 0 => offered' <= offered]_vars
  BY <1>1
<1> QED
  BY <1>2, InvHolds, PTL DEF Spec, EosIsLast

\* The assertion of dgram.c:665 holds of an application that writes no frames with a
\* control block: those frames are the only way to break it.
THEOREM OnlyControlBreaks ==
  ASSUME \A kind \in Kinds : ~HasControl(kind)
  PROVE  Spec => []VecIsThere
<1>1. ASSUME Inv
      PROVE  VecIsThere
  <2>1. accepted \in Seq(Kinds)
    BY <1>1 DEF Inv, TypeOK
  <2>2. \A n \in DOMAIN accepted : ~HasControl(accepted[n])
    BY <2>1
  <2> QED
    BY <1>1, <2>2 DEF Inv, VecIsThere
<1> QED
  BY <1>1, InvHolds, PTL
=============================================================================
