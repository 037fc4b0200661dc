---------------------------- MODULE StreamProofs ----------------------------
(***************************************************************************)
(* Proofs about the TCP stream of Stream.  The invariant says what may be  *)
(* running on what, and, for every moment of a handler and not only for    *)
(* the turns of the event loop, what the flags, the watchers, the frames   *)
(* and the queue owe to what is running.                                   *)
(***************************************************************************)
EXTENDS Stream, FiniteSetTheorems, TLAPS

\* A frame being filled, a running function, a frame of the queue.
Filled     == [got : Nat, room : Int, vecs : Nat]
Names      == {"read_loop", "shutdown_read", "submit_eos", "write_loop",
               "write_event", "write_done", "on_write", "abort"} \cup Callbacks
Activation == [at : Names, n : Int, frame : Filled]
Chained    == [id : Nat, eos : BOOLEAN, left : Int, vecs : Nat]

TypeOK ==
  /\ phase \in {"none", "open", "fini", "assert"}
  /\ stack \in Seq(Activation)
  /\ connecting \in BOOLEAN /\ sysErrno \in BOOLEAN /\ failed \in BOOLEAN
  /\ partial \in BOOLEAN /\ readShutdown \in BOOLEAN /\ noFrames \in BOOLEAN
  /\ pauseLevel \in Nat
  /\ writeOpen \in BOOLEAN /\ writeReady \in BOOLEAN /\ writeShutdown \in BOOLEAN
  /\ readEvents \in SUBSET {"READ"} /\ readWatch \in BOOLEAN
  /\ writeEvents \in SUBSET {"CONNECT", "WRITE"} /\ writeWatch \in BOOLEAN
  /\ readFrame \in Filled
  /\ queue \in Seq(Chained) /\ tail \in Nat
  /\ inbuf \in Nat /\ outbuf \in Nat
  /\ peer \in {"open", "closed", "reset", "gone"}
  /\ conn \in {"pending", "refused", "ok"} /\ shut \in SUBSET {"rd", "wr"}
  /\ received \in Nat /\ offered \in Int /\ eosIn \in Nat /\ aborts \in Nat
  /\ accepted \in Seq({"data", "eos"}) /\ wire \in Seq(Nat) /\ stopped \in BOOLEAN

\* The functions that are running, and those the innermost one runs on.
Active == {stack[i].at : i \in DOMAIN stack}

\* A loop, and the submission of an end of stream, are always the innermost
\* function; the read loop and its callbacks run on the event loop only.
Innermost == {"read_loop", "write_loop", "submit_eos"}
Outermost == {"read_loop", "read:partial", "read:full"}
Shape ==
  \A i \in DOMAIN stack :
    /\ stack[i].at \in Innermost => i = 1
    /\ stack[i].at \in Outermost => i = Len(stack)

\* The read watcher is exact but for an error whose callback still runs.
Reading ==
  /\ failed => readShutdown
  /\ "error" \in Active => failed
  /\ readWatch => \/ "READ" \in readEvents /\ pauseLevel = 0 /\ ~readShutdown
                  \/ "error" \in Active
  /\ "READ" \in readEvents /\ pauseLevel = 0 /\ ~readShutdown => readWatch

\* The bytes, and a read frame that is not there while a callback has it.
Bytes ==
  /\ received = offered + readFrame.got
  /\ Active \cap {"read:partial", "read:full", "read:last"} # {} =>
       readFrame = NoFrame
  /\ "submit_eos" \in Active => readFrame.got = 0

\* Who may still be reading before, while and after the end of the stream is
\* submitted.
Delivering == "read:partial" \in Active \/ "read:full" \in Active
Ending ==
  /\ eosIn > 0 \/ "submit_eos" \in Active \/ "read:last" \in Active => readShutdown
  /\ eosIn > 0 => "read_loop" \notin Active
  /\ "read:last" \in Active => ~Delivering
  /\ Delivering /\ ("shutdown_read" \in Active \/ "submit_eos" \in Active) => aborts > 0
  /\ "read:full" \in Active /\ ("submit_eos" \in Active \/ eosIn > 0) =>
       "READ" \notin readEvents /\ aborts > 0
  /\ eosIn > 0 /\ aborts = 0 => readFrame.got = 0 /\ ~Delivering
  /\ eosIn > 0 /\ aborts < 2 /\ "shutdown_read" \in Active => readFrame.got = 0

\* Until the stream is connected nothing is read or written.
Connection ==
  /\ conn = "pending" => connecting /\ inbuf = 0 /\ peer = "open"
  /\ connecting =>
       /\ "WRITE" \notin writeEvents /\ ~writeReady /\ outbuf = 0
       /\ Active \cap {"read_loop", "read:full", "write_loop", "write_event"} = {}
  /\ connecting /\ ~failed => "CONNECT" \in writeEvents /\ writeWatch
  /\ "rd" \in shut => failed

\* What has failed stays quiet, and what waits in the queue is waited for.
Outgoing ==
  /\ failed => Broken /\ ~writeOpen /\ writeShutdown
  /\ failed /\ writeWatch => "error" \in Active
  /\ failed /\ Top = "write_loop" => stack[1].n = 0
  /\ "write_loop" \in Active => writeReady
  /\ \A i \in DOMAIN queue : queue[i].eos => ~writeOpen
  /\ queue # <<>> /\ ~connecting /\ ~writeShutdown /\ ~stopped =>
       \/ writeWatch /\ "WRITE" \in writeEvents
       \/ Active \cap {"write_loop", "write_event"} # {}

\* The frames of the queue are the last ones accepted, the first of them begun:
\* stated of any frames "acc" accepted, queue "q" and bytes "w" at the kernel.
Count(w, n)    == Cardinality({b \in DOMAIN w : w[b] = n})
SizeIn(acc, n) == IF acc[n] = "eos" THEN 1 ELSE VecSize * (MoreVecs + 1)
Ordered(acc, q, w) ==
  /\ \A a, b \in DOMAIN w : a <= b => w[a] <= w[b]
  /\ \A b \in DOMAIN w : w[b] \in DOMAIN acc /\ (q # <<>> => w[b] <= q[1].id)
  /\ \A i \in DOMAIN q :
       /\ q[i].id = Len(acc) - Len(q) + i
       /\ q[i].id \in DOMAIN acc
       /\ i > 1 => Left(q[i]) = SizeIn(acc, q[i].id)
       /\ Count(w, q[i].id) + Left(q[i]) = SizeIn(acc, q[i].id)
  /\ \A n \in DOMAIN acc :
       (\A i \in DOMAIN q : q[i].id # n) => Count(w, n) = SizeIn(acc, n)
Order ==
  /\ Ordered(accepted, queue, wire)
  /\ queue # <<>> => tail = Len(accepted)
  /\ queue = <<>> /\ writeOpen => tail = 0

Inv ==
  /\ TypeOK
  /\ phase # "assert"
  /\ phase = "none" => Init
  /\ phase = "fini" => stack = <<>>
  /\ phase = "open" => /\ Shape /\ Reading /\ Bytes /\ Ending /\ Connection
                       /\ Outgoing /\ Order
-----------------------------------------------------------------------------
\* The functions under the innermost one.
Below == {stack[i].at : i \in 2 .. Len(stack)}

LEMMA StackIsSeq ==
  ASSUME TypeOK
  PROVE  /\ Len(stack) \in Nat /\ DOMAIN stack = 1 .. Len(stack)
         /\ stack # <<>> => Len(stack) > 0
         /\ \A i \in DOMAIN stack : stack[i] \in Activation
BY DEF TypeOK

\* What is known of the running functions while a handler runs.
LEMMA InnermostRuns ==
  ASSUME TypeOK, Shape, stack # <<>>
  PROVE  /\ stack[1] \in Activation /\ Top = stack[1].at
         /\ Active = {Top} \cup Below
         /\ Below \cap Innermost = {}
         /\ Top \in Outermost => Below = {}
<1>1. stack[1] \in Activation /\ Top = stack[1].at
  BY StackIsSeq DEF Top
<1>2. DOMAIN stack = {1} \cup (2 .. Len(stack))
  BY StackIsSeq
<1>3. Active = {Top} \cup Below
  BY <1>1, <1>2 DEF Active, Below
<1>4. ASSUME NEW i \in 2 .. Len(stack)
      PROVE  stack[i].at \notin Innermost
  BY <1>2, <1>4 DEF Shape
<1>5. ASSUME Top \in Outermost
      PROVE  2 .. Len(stack) = {}
  <2>1. 1 = Len(stack)
    BY <1>1, <1>2, <1>5 DEF Shape
  <2>2. \A i \in 2 .. 1 : FALSE
    OBVIOUS
  <2> QED
    BY <2>1, <2>2
<1> QED
  BY <1>1, <1>3, <1>4, <1>5 DEF Below

\* The innermost function returns.
LEMMA Returning ==
  ASSUME TypeOK, Shape, stack # <<>>, Return
  PROVE  stack' \in Seq(Activation) /\ Shape' /\ Active' = Below
<1> DEFINE t == Tail(stack)
<1>1. /\ t \in Seq(Activation) /\ Len(t) = Len(stack) - 1
      /\ \A i \in 1 .. Len(t) : t[i] = stack[i + 1]
  BY DEF TypeOK
<1>2. stack' = t /\ DOMAIN t = 1 .. Len(t) /\ Len(t) \in Nat
  BY <1>1 DEF Return
<1> HIDE DEF t
<1>3. ASSUME NEW i \in DOMAIN t
      PROVE  t[i].at \notin Innermost /\ (t[i].at \in Outermost => i = Len(t))
  <2>1. i + 1 \in DOMAIN stack /\ i + 1 # 1 /\ t[i] = stack[i + 1]
    BY <1>1, <1>2, StackIsSeq
  <2> QED
    BY <2>1, <1>1, <1>2, StackIsSeq DEF Shape
<1>4. Shape'
  BY <1>2, <1>3 DEF Shape
<1>5. \A i \in 2 .. Len(stack) : i - 1 \in DOMAIN t /\ stack[i] = t[i - 1]
  BY <1>1, <1>2, StackIsSeq
<1>6. \A i \in DOMAIN t : i + 1 \in 2 .. Len(stack) /\ t[i] = stack[i + 1]
  BY <1>1, <1>2, StackIsSeq
<1>7. Active' = Below
  BY <1>2, <1>5, <1>6 DEF Active, Below
<1> QED
  BY <1>1, <1>2, <1>4, <1>7

\* It becomes another one.
LEMMA Becoming ==
  ASSUME TypeOK, Shape, stack # <<>>, NEW a \in Activation, Become(<<a>>),
         a.at \in Outermost => Top \in Outermost
  PROVE  /\ stack' \in Seq(Activation) /\ Shape'
         /\ stack' # <<>> /\ stack'[1] = a /\ Active' = {a.at} \cup Below
<1> DEFINE t == Tail(stack)
<1>1. /\ t \in Seq(Activation) /\ Len(t) = Len(stack) - 1
      /\ \A i \in 1 .. Len(t) : t[i] = stack[i + 1]
  BY DEF TypeOK
<1>2. stack' = <<a>> \o t
  BY DEF Become
<1>3. /\ stack' \in Seq(Activation) /\ Len(stack') = Len(stack)
      /\ stack'[1] = a /\ \A i \in 2 .. Len(stack) : stack'[i] = stack[i]
  BY <1>1, <1>2 DEF TypeOK
<1>4. DOMAIN stack' = {1} \cup (2 .. Len(stack))
  <2>1. DOMAIN stack' = 1 .. Len(stack)
    BY <1>3
  <2> QED
    BY <2>1, StackIsSeq
<1>5. ASSUME NEW i \in DOMAIN stack'
      PROVE  /\ stack'[i].at \in Innermost => i = 1
             /\ stack'[i].at \in Outermost => i = Len(stack')
  <2>1. CASE i = 1
    <3>1. ASSUME a.at \in Outermost
          PROVE  1 = Len(stack)
      BY <3>1, InnermostRuns, StackIsSeq DEF Shape
    <3> QED
      BY <2>1, <3>1, <1>3
  <2>2. CASE i \in 2 .. Len(stack)
    BY <2>2, <1>3, StackIsSeq DEF Shape
  <2> QED
    BY <2>1, <2>2, <1>4
<1>6. Shape'
  BY <1>5 DEF Shape
<1>7. Active' = {a.at} \cup Below
  BY <1>3, <1>4 DEF Active, Below
<1> QED
  BY <1>3, <1>6, <1>7, StackIsSeq

\* The same with two functions, the inner one of which calls the other back.
LEMMA BecomingTwo ==
  ASSUME TypeOK, Shape, stack # <<>>, NEW a \in Activation, NEW b \in Activation,
         Become(<<a, b>>), a.at \notin Outermost, b.at \notin Innermost \cup Outermost
  PROVE  /\ stack' \in Seq(Activation) /\ Shape'
         /\ stack' # <<>> /\ stack'[1] = a /\ Active' = {a.at, b.at} \cup Below
<1> DEFINE t == Tail(stack)
<1>1. /\ t \in Seq(Activation) /\ Len(t) = Len(stack) - 1
      /\ \A i \in 1 .. Len(t) : t[i] = stack[i + 1]
  BY DEF TypeOK
<1>2. stack' = <<a, b>> \o t
  BY DEF Become
<1>3. /\ stack' \in Seq(Activation) /\ Len(stack') = Len(stack) + 1
      /\ stack'[1] = a /\ stack'[2] = b
      /\ \A i \in 3 .. Len(stack) + 1 : stack'[i] = stack[i - 1]
  BY <1>1, <1>2 DEF TypeOK
<1>4. DOMAIN stack' = {1, 2} \cup (3 .. Len(stack) + 1)
  <2>1. DOMAIN stack' = 1 .. Len(stack) + 1
    BY <1>3
  <2> QED
    BY <2>1, StackIsSeq
<1>5. /\ \A i \in 3 .. Len(stack) + 1 : i - 1 \in 2 .. Len(stack)
      /\ \A i \in 2 .. Len(stack) : i + 1 \in 3 .. Len(stack) + 1
                                    /\ stack'[i + 1] = stack[i]
  BY <1>3, StackIsSeq
<1>6. ASSUME NEW i \in DOMAIN stack'
      PROVE  /\ stack'[i].at \in Innermost => i = 1
             /\ stack'[i].at \in Outermost => i = Len(stack')
  <2>1. CASE i \in {1, 2}
    BY <2>1, <1>3
  <2>2. CASE i \in 3 .. Len(stack) + 1
    <3>1. i - 1 \in DOMAIN stack /\ i - 1 # 1 /\ stack'[i] = stack[i - 1]
      BY <2>2, <1>3, StackIsSeq
    <3> QED
      BY <3>1, <2>2, <1>3, StackIsSeq DEF Shape
  <2> QED
    BY <2>1, <2>2, <1>4
<1>7. Shape'
  BY <1>6 DEF Shape
<1>8. Active' = {a.at, b.at} \cup Below
  <2>1. ASSUME NEW i \in DOMAIN stack'
        PROVE  stack'[i].at \in {a.at, b.at} \cup Below
    BY <1>3, <1>4, <1>5 DEF Below
  <2>2. ASSUME NEW i \in 2 .. Len(stack)
        PROVE  stack[i].at \in Active'
    BY <1>3, <1>4, <1>5 DEF Active
  <2>3. {a.at, b.at} \subseteq Active'
    BY <1>3, <1>4, <1>5 DEF Active
  <2> QED
    BY <2>1, <2>2, <2>3 DEF Active, Below
<1> QED
  BY <1>3, <1>7, <1>8, StackIsSeq

\* A function is called by the event loop, or by the application in a callback.
LEMMA Calling ==
  ASSUME TypeOK, Shape, NEW a \in Activation, Call(<<a>>),
         Top \notin Innermost, a.at \in Outermost => stack = <<>>
  PROVE  /\ stack' \in Seq(Activation) /\ Shape'
         /\ stack' # <<>> /\ stack'[1] = a /\ Active' = {a.at} \cup Active
<1>1. stack' = <<a>> \o stack
  BY DEF Call
<1>2. /\ stack' \in Seq(Activation) /\ Len(stack') = Len(stack) + 1
      /\ stack'[1] = a
      /\ \A i \in 2 .. Len(stack) + 1 : stack'[i] = stack[i - 1]
  BY <1>1 DEF TypeOK
<1>3. DOMAIN stack' = {1} \cup (2 .. Len(stack) + 1)
  <2>1. DOMAIN stack' = 1 .. Len(stack) + 1
    BY <1>2
  <2> QED
    BY <2>1, StackIsSeq
<1>4. /\ \A i \in 2 .. Len(stack) + 1 : i - 1 \in DOMAIN stack
      /\ \A i \in DOMAIN stack : i + 1 \in 2 .. Len(stack) + 1
                                 /\ stack'[i + 1] = stack[i]
  BY <1>2, StackIsSeq
<1>5. ASSUME NEW i \in DOMAIN stack
      PROVE  stack[i].at \notin Innermost
  <2>1. stack[i].at \in Innermost => i = 1
    BY DEF Shape
  <2>2. stack # <<>>
    BY StackIsSeq
  <2> QED
    BY <2>1, <2>2 DEF Top
<1>6. ASSUME NEW i \in DOMAIN stack'
      PROVE  /\ stack'[i].at \in Innermost => i = 1
             /\ stack'[i].at \in Outermost => i = Len(stack')
  <2>1. CASE i = 1
    BY <2>1, <1>2
  <2>2. CASE i \in 2 .. Len(stack) + 1
    <3>1. i - 1 \in DOMAIN stack /\ stack'[i] = stack[i - 1]
      BY <2>2, <1>2, <1>4
    <3> QED
      BY <3>1, <2>2, <1>2, <1>5, StackIsSeq DEF Shape
  <2> QED
    BY <2>1, <2>2, <1>3
<1>7. Shape'
  BY <1>6 DEF Shape
<1>8. Active' = {a.at} \cup Active
  <2>1. ASSUME NEW i \in DOMAIN stack'
        PROVE  stack'[i].at \in {a.at} \cup Active
    BY <1>2, <1>3, <1>4 DEF Active
  <2>2. ASSUME NEW i \in DOMAIN stack
        PROVE  stack[i].at \in Active'
    BY <1>2, <1>3, <1>4 DEF Active
  <2>3. {a.at} \subseteq Active'
    BY <1>2, <1>3, <1>4 DEF Active
  <2> QED
    BY <2>1, <2>2, <2>3 DEF Active, Below
<1> QED
  BY <1>2, <1>7, <1>8, StackIsSeq

\* The same with two functions, or three by the event loop.
LEMMA CallingTwo ==
  ASSUME TypeOK, Shape, NEW a \in Activation, NEW b \in Activation,
         Call(<<a, b>>), Top \notin Innermost, a.at \notin Outermost,
         b.at \notin Innermost \cup Outermost
  PROVE  /\ stack' \in Seq(Activation) /\ Shape'
         /\ stack' # <<>> /\ stack'[1] = a /\ Active' = {a.at, b.at} \cup Active
<1>1. stack' = <<a, b>> \o stack
  BY DEF Call
<1>2. /\ stack' \in Seq(Activation) /\ Len(stack') = Len(stack) + 2
      /\ stack'[1] = a /\ stack'[2] = b
      /\ \A i \in 3 .. Len(stack) + 2 : stack'[i] = stack[i - 2]
  BY <1>1 DEF TypeOK
<1>3. DOMAIN stack' = {1, 2} \cup (3 .. Len(stack) + 2)
  <2>1. DOMAIN stack' = 1 .. Len(stack) + 2
    BY <1>2
  <2> QED
    BY <2>1, StackIsSeq
<1>4. /\ \A i \in 3 .. Len(stack) + 2 : i - 2 \in DOMAIN stack
      /\ \A i \in DOMAIN stack : i + 2 \in 3 .. Len(stack) + 2
                                 /\ stack'[i + 2] = stack[i]
  BY <1>2, StackIsSeq
<1>5. ASSUME NEW i \in DOMAIN stack
      PROVE  stack[i].at \notin Innermost
  <2>1. stack[i].at \in Innermost => i = 1
    BY DEF Shape
  <2>2. stack # <<>>
    BY StackIsSeq
  <2> QED
    BY <2>1, <2>2 DEF Top
<1>6. ASSUME NEW i \in DOMAIN stack'
      PROVE  /\ stack'[i].at \in Innermost => i = 1
             /\ stack'[i].at \in Outermost => i = Len(stack')
  <2>1. CASE i \in {1, 2}
    BY <2>1, <1>2
  <2>2. CASE i \in 3 .. Len(stack) + 2
    <3>1. i - 2 \in DOMAIN stack /\ stack'[i] = stack[i - 2]
      BY <2>2, <1>2, <1>4
    <3> QED
      BY <3>1, <2>2, <1>2, <1>5, StackIsSeq DEF Shape
  <2> QED
    BY <2>1, <2>2, <1>3
<1>7. Shape'
  BY <1>6 DEF Shape
<1>8. Active' = {a.at, b.at} \cup Active
  <2>1. ASSUME NEW i \in DOMAIN stack'
        PROVE  stack'[i].at \in {a.at, b.at} \cup Active
    BY <1>2, <1>3, <1>4 DEF Active
  <2>2. ASSUME NEW i \in DOMAIN stack
        PROVE  stack[i].at \in Active'
    BY <1>2, <1>3, <1>4 DEF Active
  <2>3. {a.at, b.at} \subseteq Active'
    BY <1>2, <1>3, <1>4 DEF Active
  <2> QED
    BY <2>1, <2>2, <2>3 DEF Active, Below
<1> QED
  BY <1>2, <1>7, <1>8, StackIsSeq

LEMMA CallingThree ==
  ASSUME stack = <<>>, NEW a \in Activation, NEW b \in Activation,
         NEW c \in Activation, Call(<<a, b, c>>),
         {b.at, c.at} \cap Innermost = {}, {a.at, b.at, c.at} \cap Outermost = {}
  PROVE  /\ stack' \in Seq(Activation) /\ Shape'
         /\ stack' # <<>> /\ stack'[1] = a /\ Active' = {a.at, b.at, c.at}
<1>1. stack' = <<a, b, c>>
  BY DEF Call
<1>2. /\ stack' \in Seq(Activation) /\ DOMAIN stack' = {1, 2, 3}
      /\ stack'[1] = a /\ stack'[2] = b /\ stack'[3] = c
  BY <1>1
<1> QED
  BY <1>1, <1>2 DEF Shape, Active
-----------------------------------------------------------------------------
\* How a step changes what is running.
Sound == stack' \in Seq(Activation) /\ Shape' /\ Top' \in Active' \cup {"event_loop"}
Runs(at) ==
  /\ stack # <<>> /\ Top = at /\ at = stack[1].at /\ stack[1] \in Activation
  /\ Active = {at} \cup Below /\ Below \cap Innermost = {}
  /\ at \in Outermost => Below = {}
Returns(at)    == Runs(at) /\ Sound /\ Active' = Below
Becomes(at, S) == Runs(at) /\ Sound /\ Active' = S \cup Below
Calls(S)       == Sound /\ Active' = S \cup Active
Stays          == Sound /\ stack' = stack /\ Active' = Active

\* The innermost function is one of those that run.
LEMMA TopIsActive ==
  ASSUME stack' \in Seq(Activation)
  PROVE  Top' \in Active' \cup {"event_loop"}
<1>1. stack' # <<>> => 1 \in DOMAIN stack'
  OBVIOUS
<1> QED
  BY <1>1 DEF Top, Active

\* The names of the functions are types, and none is that of the event loop.
LEMMA NamesAre ==
  /\ {"read_loop", "shutdown_read", "submit_eos", "write_loop", "write_event",
      "write_done", "on_write", "abort", "read:partial", "read:full", "read:last",
      "read:eos", "error", "connected"} \subseteq Names
  /\ "event_loop" \notin Names
  /\ 0 \in Int /\ NoFrame \in Filled
BY DEF Names, Callbacks, NoFrame, Filled

\* A handler runs as the innermost function.
LEMMA RunningRuns ==
  ASSUME TypeOK, Shape, NEW at \in Names, Running(at)
  PROVE  Runs(at)
<1>1. stack # <<>>
  BY DEF Running, Top, Names, Callbacks
<1> QED
  BY <1>1, InnermostRuns DEF Running, Runs

LEMMA ReturnReturns ==
  ASSUME TypeOK, Shape, NEW at \in Names, Running(at), Return
  PROVE  Returns(at)
BY RunningRuns, Returning, TopIsActive DEF Runs, Returns, Sound

\* A function that is called is typed, and so is what it keeps.
LEMMA ActTyped ==
  /\ NoFrame \in Filled /\ NewFrame \in Filled
  /\ \A at \in Names, n \in Int, f \in Filled :
       Act(at, n, f) \in Activation /\ Act(at, n, f).at = at /\ Act(at, n, f).n = n
BY SizesAssumption DEF NoFrame, NewFrame, Filled, Act, Activation

LEMMA ActivationTyped ==
  ASSUME NEW x \in Activation
  PROVE  /\ x.at \in Names /\ x.n \in Int /\ x.frame \in Filled
         /\ x.n + 1 \in Int /\ x.n - 1 \in Int
<1>1. x.at \in Names /\ x.n \in Int /\ x.frame \in Filled
  BY DEF Activation
<1>2. \A n \in Int : n + 1 \in Int /\ n - 1 \in Int
  OBVIOUS
<1> QED
  BY <1>1, <1>2

\* A handler that becomes another one.
LEMMA BecomeBecomes ==
  ASSUME TypeOK, Shape, NEW at \in Names, Running(at),
         NEW to \in Names, NEW n \in Int, NEW f \in Filled,
         to \in Outermost => at \in Outermost, Become(<<Act(to, n, f)>>)
  PROVE  Becomes(at, {to}) /\ stack'[1].n = n
<1>1. Runs(at)
  BY RunningRuns
<1>2. Act(to, n, f) \in Activation /\ Act(to, n, f).at = to /\ Act(to, n, f).n = n
  BY ActTyped
<1>3. /\ stack' \in Seq(Activation) /\ Shape' /\ stack'[1] = Act(to, n, f)
      /\ Active' = {to} \cup Below
  BY <1>1, <1>2, Becoming DEF Runs
<1> QED
  BY <1>1, <1>2, <1>3, TopIsActive DEF Becomes, Sound

\* What each handler does to the stack: it returns, or becomes what it calls.
LEMMA HandlerSteps ==
  ASSUME TypeOK, Shape
  PROVE  /\ ReadNoFrame \/ RecvAgain \/ ReadLoopsDone => Returns("read_loop")
         /\ RecvEof => Becomes("read_loop", {"shutdown_read"})
         /\ RecvError => Becomes("read_loop", {"error", "shutdown_read"})
         /\ \A up \in BOOLEAN : PartialReturns(up) => Returns("read:partial")
         /\ \A up \in BOOLEAN : FullReturns(up) =>
              IF "READ" \in readEvents THEN Becomes("read:full", {"read_loop"})
              ELSE Returns("read:full")
         /\ ShutdownRead =>
              Becomes("shutdown_read",
                      {IF readFrame.got > 0 THEN "read:last" ELSE "submit_eos"})
         /\ LastReturns => Becomes("read:last", {"submit_eos"})
         /\ SubmitEos => Becomes("submit_eos", {"read:eos"})
         /\ SubmitEosNoFrame => Returns("submit_eos")
         /\ EosReturns => Returns("read:eos")
         /\ ErrorReturns => Returns("error")
         /\ WriteLoopDone \/ WriteLoopsExceeded \/ WriteEos \/ SendAgain =>
              Returns("write_loop")
         /\ SendError => Becomes("write_loop", {"error"})
         /\ \A k \in 1 .. VecSize : SendData(k) =>
              Returns("write_loop") \/ Becomes("write_loop", {"write_loop"})
         /\ WriteEvent =>
              IF queue # <<>>
              THEN Becomes("write_event", {"write_loop", "write_done"}) /\ stack'[1].n = 0
              ELSE Returns("write_event")
         /\ WriteDone => Returns("write_done")
         /\ ConnectedReturns => Returns("connected")
         /\ OnWriteQueue =>
              IF "WRITE" \in writeEvents THEN Becomes("on_write", {"write_event"})
              ELSE Returns("on_write")
         /\ AbortWriting => Returns("abort")
<1> USE NamesAre
<1>1. NoFrame \in Filled /\ readFrame \in Filled
  BY DEF TypeOK
<1>2. ASSUME ReadNoFrame \/ RecvAgain \/ ReadLoopsDone
      PROVE  Returns("read_loop")
  BY <1>2, ReturnReturns DEF ReadNoFrame, RecvAgain, ReadLoopsDone, Receiving
<1>3. ASSUME RecvEof
      PROVE  Becomes("read_loop", {"shutdown_read"})
  BY <1>1, <1>3, BecomeBecomes DEF RecvEof, Receiving, Outermost
<1>4. ASSUME RecvError
      PROVE  Becomes("read_loop", {"error", "shutdown_read"})
  <2> DEFINE a == Act("error", 0, NoFrame)
             b == Act("shutdown_read", 0, NoFrame)
  <2>1. Runs("read_loop") /\ Become(<<a, b>>)
    BY <1>4, RunningRuns DEF RecvError, Receiving, ErrorCallback
  <2>2. a \in Activation /\ b \in Activation /\ a.at = "error" /\ b.at = "shutdown_read"
    BY DEF Act, Activation
  <2>3. a.at \notin Outermost /\ b.at \notin Innermost \cup Outermost
    BY <2>2 DEF Innermost, Outermost
  <2> HIDE DEF a, b
  <2> QED
    BY <2>1, <2>2, <2>3, BecomingTwo, TopIsActive DEF Becomes, Runs, Sound
<1>5. ASSUME NEW up \in BOOLEAN, PartialReturns(up)
      PROVE  Returns("read:partial")
  BY <1>5, ReturnReturns DEF PartialReturns
<1>6. ASSUME NEW up \in BOOLEAN, FullReturns(up)
      PROVE  IF "READ" \in readEvents THEN Becomes("read:full", {"read_loop"})
             ELSE Returns("read:full")
  <2>1. CASE "READ" \in readEvents
    <3>1. Running("read:full") /\ Become(<<Act("read_loop", stack[1].n - 1, NoFrame)>>)
      BY <1>6, <2>1 DEF FullReturns
    <3>2. stack[1] \in Activation
      BY <3>1, RunningRuns DEF Runs
    <3>3. stack[1].n - 1 \in Int
      BY <3>2, ActivationTyped
    <3> QED
      BY <2>1, <3>1, <3>3, BecomeBecomes DEF Outermost
  <2>2. CASE "READ" \notin readEvents
    BY <1>6, <2>2, ReturnReturns DEF FullReturns
  <2> QED
    BY <2>1, <2>2
<1>7. ASSUME ShutdownRead
      PROVE  Becomes("shutdown_read",
                     {IF readFrame.got > 0 THEN "read:last" ELSE "submit_eos"})
  BY <1>1, <1>7, BecomeBecomes DEF ShutdownRead, Outermost
<1>8. ASSUME LastReturns
      PROVE  Becomes("read:last", {"submit_eos"})
  BY <1>1, <1>8, BecomeBecomes DEF LastReturns, Outermost
<1>9. ASSUME SubmitEos
      PROVE  Becomes("submit_eos", {"read:eos"})
  BY <1>1, <1>9, BecomeBecomes DEF SubmitEos, Outermost
<1>10. ASSUME SubmitEosNoFrame
       PROVE  Returns("submit_eos")
  BY <1>10, ReturnReturns DEF SubmitEosNoFrame
<1>11. ASSUME EosReturns
       PROVE  Returns("read:eos")
  BY <1>11, ReturnReturns DEF EosReturns
<1>12. ASSUME ErrorReturns
       PROVE  Returns("error")
  BY <1>12, ReturnReturns DEF ErrorReturns
<1>13. ASSUME WriteLoopDone \/ WriteLoopsExceeded \/ WriteEos \/ SendAgain
       PROVE  Returns("write_loop")
  BY <1>13, ReturnReturns
     DEF WriteLoopDone, WriteLoopsExceeded, WriteEos, SendAgain, Writing, WriteLater
<1>14. ASSUME SendError
       PROVE  Becomes("write_loop", {"error"})
  BY <1>1, <1>14, BecomeBecomes DEF SendError, Writing, ErrorCallback, Outermost
<1>15. ASSUME NEW k \in 1 .. VecSize, SendData(k)
       PROVE  Returns("write_loop") \/ Becomes("write_loop", {"write_loop"})
  <2>1. Running("write_loop")
    BY <1>15 DEF SendData, Writing
  <2>2. stack[1] \in Activation
    BY <2>1, RunningRuns DEF Runs
  <2>3. stack[1].n + 1 \in Int
    BY <2>2, ActivationTyped
  <2>4. Return \/ Become(<<Act("write_loop", stack[1].n + 1, NoFrame)>>)
    BY <1>15 DEF SendData, WriteLater
  <2> QED
    BY <2>1, <2>3, <2>4, ReturnReturns, BecomeBecomes DEF Outermost
<1>16. ASSUME WriteEvent
       PROVE  IF queue # <<>>
              THEN Becomes("write_event", {"write_loop", "write_done"}) /\ stack'[1].n = 0
              ELSE Returns("write_event")
  <2> DEFINE a == Act("write_loop", 0, NoFrame)
             b == Act("write_done", 0, NoFrame)
  <2>1. CASE queue # <<>>
    <3>1. Runs("write_event") /\ Become(<<a, b>>)
      BY <1>16, <2>1, RunningRuns DEF WriteEvent
    <3>2. /\ a \in Activation /\ b \in Activation
          /\ a.at = "write_loop" /\ b.at = "write_done" /\ a.n = 0
      BY DEF Act, Activation
    <3>3. a.at \notin Outermost /\ b.at \notin Innermost \cup Outermost
      BY <3>2 DEF Innermost, Outermost
    <3> HIDE DEF a, b
    <3> QED
      BY <2>1, <3>1, <3>2, <3>3, BecomingTwo, TopIsActive DEF Becomes, Runs, Sound
  <2>2. CASE queue = <<>>
    BY <1>16, <2>2, ReturnReturns DEF WriteEvent
  <2> QED
    BY <2>1, <2>2
<1>17. ASSUME WriteDone
       PROVE  Returns("write_done")
  BY <1>17, ReturnReturns DEF WriteDone
<1>18. ASSUME ConnectedReturns
       PROVE  Returns("connected")
  BY <1>18, ReturnReturns DEF ConnectedReturns
<1>19. ASSUME OnWriteQueue
       PROVE  IF "WRITE" \in writeEvents THEN Becomes("on_write", {"write_event"})
              ELSE Returns("on_write")
  BY <1>1, <1>19, ReturnReturns, BecomeBecomes DEF OnWriteQueue, Outermost
<1>20. ASSUME AbortWriting
       PROVE  Returns("abort")
  BY <1>20, ReturnReturns DEF AbortWriting
<1> QED
  BY <1>2, <1>3, <1>4, <1>5, <1>6, <1>7, <1>8, <1>9, <1>10, <1>11, <1>12, <1>13,
     <1>14, <1>15, <1>16, <1>17, <1>18, <1>19, <1>20

\* The frame being filled is a frame, and gets no less full.
LEMMA FillingTyped ==
  ASSUME TypeOK
  PROVE  Filling \in Filled /\ Filling.got = readFrame.got
<1>1. NoFrame \in Filled /\ NewFrame \in Filled /\ NoFrame.got = 0 /\ NewFrame.got = 0
  BY SizesAssumption DEF NoFrame, NewFrame, Filled
<1> QED
  BY <1>1 DEF Filling, TypeOK

LEMMA FilledAdvances ==
  ASSUME NEW g \in Filled
  PROVE  /\ \A k \in Nat :
              LET f == [g EXCEPT !.got = @ + k, !.room = @ - k]
              IN f \in Filled /\ f.got = g.got + k
         /\ NextVec(g) \in Filled /\ NextVec(g).got = g.got
<1>1. g.got \in Nat /\ g.room \in Int /\ g.vecs \in Nat /\ VecSize \in Int
  BY SizesAssumption DEF Filled
<1>2. \A a, b \in Nat, c \in Int : a + b \in Nat /\ c - a \in Int
  OBVIOUS
<1>3. \A a \in Nat : a > 0 => a - 1 \in Nat
  OBVIOUS
<1>4. ASSUME NEW k \in Nat
      PROVE  LET f == [g EXCEPT !.got = @ + k, !.room = @ - k]
             IN f \in Filled /\ f.got = g.got + k
  <2>1. g.got + k \in Nat /\ g.room - k \in Int
    BY <1>1, <1>2
  <2> QED
    BY <1>1, <2>1 DEF Filled
<1>5. CASE g.room = 0 /\ g.vecs > 0
  <2>1. g.vecs - 1 \in Nat
    BY <1>1, <1>3, <1>5
  <2> QED
    BY <1>1, <1>4, <1>5, <2>1 DEF NextVec, Filled
<1>6. CASE ~(g.room = 0 /\ g.vecs > 0)
  BY <1>4, <1>6 DEF NextVec
<1> QED
  BY <1>5, <1>6

\* recv() with data: what the read loop does with the bytes.
LEMMA RecvDataSteps ==
  ASSUME TypeOK, Shape, NEW k \in 1 .. VecSize, RecvData(k)
  PROVE  /\ phase = "open" /\ k <= inbuf
         /\ inbuf' = inbuf - k /\ received' = received + k
         /\ readFrame' \in Filled
         /\ UNCHANGED <<phase, partial, noFrames, pauseLevel, readShutdown, writeVars,
                        connVars, outbuf, peer, conn, shut, eosIn, aborts, writeHist>>
         /\ \/ /\ Returns("read_loop") /\ ReadSetEvent({"READ"})
               /\ readFrame'.got = readFrame.got + k /\ offered' = offered
            \/ /\ Becomes("read_loop", {"read_loop"}) /\ UNCHANGED <<readEvents, readWatch>>
               /\ readFrame'.got = readFrame.got + k /\ offered' = offered
            \/ /\ \E at \in {"read:partial", "read:full"} : Becomes("read_loop", {at})
               /\ UNCHANGED <<readEvents, readWatch>>
               /\ readFrame' = NoFrame /\ offered' = offered + (readFrame.got + k)
<1> DEFINE n == stack[1].n
           f == [Filling EXCEPT !.got = @ + k, !.room = @ - k]
<1>1. Running("read_loop") /\ Runs("read_loop")
  BY NamesAre, RunningRuns DEF RecvData, Receiving
<1>2. n \in Int /\ n - 1 \in Int
  <2>1. stack[1] \in Activation
    BY <1>1 DEF Runs
  <2> QED
    BY <2>1, ActivationTyped
<1>3. /\ f \in Filled /\ f.got = readFrame.got + k
      /\ NextVec(f) \in Filled /\ NextVec(f).got = f.got
  <2>1. /\ Filling \in Filled /\ Filling.got = readFrame.got /\ k \in Nat
        /\ VecSize \in Int
    <3>1. VecSize \in Nat
      BY SizesAssumption
    <3>2. k \in Nat
      BY <3>1
    <3> QED
      BY <3>1, <3>2, FillingTyped
  <2>2. f \in Filled /\ f.got = readFrame.got + k
    BY <2>1, FilledAdvances
  <2>3. NextVec(f) \in Filled /\ NextVec(f).got = f.got
    BY <2>2, FilledAdvances
  <2> QED
    BY <2>2, <2>3
<1>4. /\ phase = "open" /\ k <= inbuf
      /\ inbuf' = inbuf - k /\ received' = received + k
      /\ UNCHANGED <<phase, partial, noFrames, pauseLevel, readShutdown, writeVars,
                     connVars, outbuf, peer, conn, shut, eosIn, aborts, writeHist>>
  BY DEF RecvData, Receiving, Running, Deliver
<1>5. \/ Deliver("read:partial", n, f)
      \/ readFrame' = f /\ UNCHANGED offered /\ ReadSetEvent({"READ"}) /\ Return
      \/ Deliver("read:full", n, NextVec(f))
      \/ /\ readFrame' = NextVec(f)
         /\ Become(<<Act("read_loop", n - 1, NoFrame)>>)
         /\ UNCHANGED <<offered, readEvents, readWatch>>
  BY DEF RecvData
<1> HIDE DEF f, n
<1>6. ASSUME NEW at \in {"read:partial", "read:full"}, NEW g \in Filled,
             g.got = f.got, Deliver(at, n, g)
      PROVE  /\ Becomes("read_loop", {at}) /\ UNCHANGED <<readEvents, readWatch>>
             /\ readFrame' = NoFrame /\ offered' = offered + (readFrame.got + k)
  <2>1. at \in Names /\ Become(<<Act(at, n, g)>>)
    BY <1>6, NamesAre DEF Deliver
  <2>2. Becomes("read_loop", {at})
    BY <1>1, <1>2, <2>1, NamesAre, BecomeBecomes DEF Outermost
  <2> QED
    BY <1>3, <1>6, <2>2 DEF Deliver
<1>7. CASE readFrame' = f /\ UNCHANGED offered /\ ReadSetEvent({"READ"}) /\ Return
  <2>1. Returns("read_loop")
    BY <1>1, <1>7, NamesAre, ReturnReturns
  <2> QED
    BY <1>3, <1>4, <1>7, <2>1
<1>8. CASE /\ readFrame' = NextVec(f)
           /\ Become(<<Act("read_loop", n - 1, NoFrame)>>)
           /\ UNCHANGED <<offered, readEvents, readWatch>>
  <2>1. Becomes("read_loop", {"read_loop"})
    BY <1>1, <1>2, <1>8, NamesAre, BecomeBecomes DEF Outermost
  <2> QED
    BY <1>3, <1>4, <1>8, <2>1
<1>9. CASE Deliver("read:partial", n, f)
  <2>1. /\ Becomes("read_loop", {"read:partial"}) /\ UNCHANGED <<readEvents, readWatch>>
        /\ readFrame' = NoFrame /\ offered' = offered + (readFrame.got + k)
    BY <1>3, <1>6, <1>9
  <2> QED
    BY <1>4, <2>1, NamesAre
<1>10. CASE Deliver("read:full", n, NextVec(f))
  <2>1. /\ Becomes("read_loop", {"read:full"}) /\ UNCHANGED <<readEvents, readWatch>>
        /\ readFrame' = NoFrame /\ offered' = offered + (readFrame.got + k)
    BY <1>3, <1>6, <1>10
  <2> QED
    BY <1>4, <2>1, NamesAre
<1> QED
  BY <1>5, <1>7, <1>8, <1>9, <1>10

\* A step of the kernel, or of the application without a callback, leaves the
\* stack alone.
LEMMA StaysThere ==
  ASSUME TypeOK, Shape, stack' = stack
  PROVE  Stays
BY TopIsActive DEF Stays, Sound, TypeOK, Shape, Active

\* The application runs in the event loop or in a callback.
LEMMA AppIsCallback ==
  ASSUME AppRuns
  PROVE  /\ Top \in Callbacks \cup {"event_loop"} /\ Top \notin Innermost
         /\ phase = "open"
BY DEF AppRuns, Top, Callbacks, Innermost

\* What the event loop and the application call.
LEMMA CallSteps ==
  ASSUME TypeOK, Shape
  PROVE  /\ OnRead => /\ stack = <<>> /\ Active = {}
                      /\ \/ Stays
                         \/ /\ Calls({"read_loop"}) /\ UNCHANGED readWatch
                            /\ pauseLevel = 0 /\ "READ" \in readEvents
         /\ OnWrite => stack = <<>> /\ Active = {} /\ Calls({"on_write"})
         /\ Refused => stack = <<>> /\ Active = {} /\ Calls({"error", "on_write"})
         /\ Connected => /\ stack = <<>> /\ Active = {}
                         /\ Calls({"connected", "write_event", "on_write"})
         /\ \A kind \in {"data", "eos"} : Write(kind) =>
              IF writeReady THEN Calls({"write_loop"}) /\ stack'[1].n = 0 ELSE Stays
         /\ Abort => Calls({"shutdown_read", "abort"})
<1>0. "event_loop" \notin Names
  BY NamesAre
<1>1. ASSUME Running("event_loop")
      PROVE  stack = <<>> /\ Active = {} /\ Top \notin Innermost
  <2>1. stack = <<>>
    <3>1. ASSUME stack # <<>>
          PROVE  Top \in Names
      BY <3>1, InnermostRuns, ActivationTyped
    <3> QED
      BY <1>0, <1>1, <3>1 DEF Running
  <2>2. DOMAIN stack = {}
    BY <2>1
  <2>3. Active = {}
    BY <2>2 DEF Active
  <2> QED
    BY <2>1, <2>3 DEF Top, Innermost
<1>2. ASSUME NEW a \in Activation, Call(<<a>>), Top \notin Innermost,
             a.at \in Outermost => stack = <<>>
      PROVE  Calls({a.at}) /\ stack'[1] = a
  BY <1>2, Calling, TopIsActive DEF Calls, Sound
<1>3. ASSUME NEW a \in Activation, NEW b \in Activation, Call(<<a, b>>),
             Top \notin Innermost, a.at \notin Outermost,
             b.at \notin Innermost \cup Outermost
      PROVE  Calls({a.at, b.at})
  BY <1>3, CallingTwo, TopIsActive DEF Calls, Sound
<1>4. ASSUME NEW at \in Names
      PROVE  /\ Act(at, 0, NoFrame) \in Activation
             /\ Act(at, 0, NoFrame).at = at /\ Act(at, 0, NoFrame).n = 0
  BY NamesAre DEF Act, Activation
<1>5. ASSUME OnRead
      PROVE  /\ stack = <<>> /\ Active = {}
             /\ \/ Stays
                \/ /\ Calls({"read_loop"}) /\ UNCHANGED readWatch
                   /\ pauseLevel = 0 /\ "READ" \in readEvents
  <2>1. stack = <<>> /\ Active = {} /\ Top \notin Innermost
    BY <1>1, <1>5 DEF OnRead
  <2>2. \/ stack' = stack
        \/ /\ Call(<<Act("read_loop", MaxReadLoops, NoFrame)>>) /\ UNCHANGED readWatch
           /\ ~(pauseLevel > 0) /\ "READ" \in readEvents
    BY <1>5 DEF OnRead
  <2>3. /\ Act("read_loop", MaxReadLoops, NoFrame) \in Activation
        /\ Act("read_loop", MaxReadLoops, NoFrame).at = "read_loop"
    <3>1. MaxReadLoops \in Int
      BY LoopsAssumption
    <3>2. "read_loop" \in Names /\ NoFrame \in Filled
      BY NamesAre
    <3> QED
      BY <3>1, <3>2 DEF Act, Activation
  <2>4. ~(pauseLevel > 0) => pauseLevel = 0
    BY DEF TypeOK
  <2> QED
    BY <2>1, <2>2, <2>3, <2>4, <1>2, StaysThere
<1>6. ASSUME OnWrite
      PROVE  stack = <<>> /\ Active = {} /\ Calls({"on_write"})
  <2>1. stack = <<>> /\ Active = {} /\ Top \notin Innermost
    BY <1>1, <1>6 DEF OnWrite, OnWriteEvent
  <2>2. Call(<<Act("on_write", 0, NoFrame)>>)
    BY <1>6 DEF OnWrite
  <2> QED
    BY <2>1, <2>2, <1>2, <1>4, NamesAre
<1>7. ASSUME Refused
      PROVE  stack = <<>> /\ Active = {} /\ Calls({"error", "on_write"})
  <2> DEFINE a == Act("error", 0, NoFrame)
             b == Act("on_write", 0, NoFrame)
  <2>1. stack = <<>> /\ Active = {} /\ Top \notin Innermost
    BY <1>1, <1>7 DEF Refused, OnWriteEvent
  <2>2. Call(<<a, b>>)
    BY <1>7 DEF Refused, ErrorCallback
  <2>3. a \in Activation /\ b \in Activation /\ a.at = "error" /\ b.at = "on_write"
    BY <1>4, NamesAre
  <2>4. a.at \notin Outermost /\ b.at \notin Innermost \cup Outermost
    BY <2>3 DEF Innermost, Outermost
  <2> HIDE DEF a, b
  <2> QED
    BY <2>1, <2>2, <2>3, <2>4, <1>3
<1>8. ASSUME Connected
      PROVE  /\ stack = <<>> /\ Active = {}
             /\ Calls({"connected", "write_event", "on_write"})
  <2> DEFINE a == Act("connected", 0, NoFrame)
             b == Act("write_event", 0, NoFrame)
             c == Act("on_write", 0, NoFrame)
  <2>1. stack = <<>> /\ Active = {}
    BY <1>1, <1>8 DEF Connected, OnWriteEvent
  <2>2. Call(<<a, b, c>>)
    BY <1>8 DEF Connected
  <2>3. /\ a \in Activation /\ b \in Activation /\ c \in Activation
        /\ a.at = "connected" /\ b.at = "write_event" /\ c.at = "on_write"
    BY <1>4, NamesAre
  <2>4. /\ {b.at, c.at} \cap Innermost = {} /\ {a.at, b.at, c.at} \cap Outermost = {}
    BY <2>3 DEF Innermost, Outermost
  <2> HIDE DEF a, b, c
  <2>5. stack' \in Seq(Activation) /\ Shape' /\ Active' = {a.at, b.at, c.at}
    BY <2>1, <2>2, <2>3, <2>4, CallingThree
  <2> QED
    BY <2>1, <2>3, <2>5, TopIsActive DEF Calls, Sound
<1>9. ASSUME NEW kind \in {"data", "eos"}, Write(kind)
      PROVE  IF writeReady THEN Calls({"write_loop"}) /\ stack'[1].n = 0 ELSE Stays
  <2>1. IF writeReady THEN Call(<<Act("write_loop", 0, NoFrame)>>) ELSE stack' = stack
    BY <1>9 DEF Write
  <2>2. Top \notin Innermost
    BY <1>9, AppIsCallback DEF Write
  <2>3. "write_loop" \notin Outermost
    BY DEF Outermost
  <2> QED
    BY <2>1, <2>2, <2>3, <1>2, <1>4, NamesAre, StaysThere
<1>10. ASSUME Abort
       PROVE  Calls({"shutdown_read", "abort"})
  <2> DEFINE a == Act("shutdown_read", 0, NoFrame)
             b == Act("abort", 0, NoFrame)
  <2>1. Call(<<a, b>>) /\ Top \notin Innermost
    BY <1>10, AppIsCallback DEF Abort, AppMayShutdown
  <2>2. a \in Activation /\ b \in Activation /\ a.at = "shutdown_read" /\ b.at = "abort"
    BY <1>4, NamesAre
  <2>3. a.at \notin Outermost /\ b.at \notin Innermost \cup Outermost
    BY <2>2 DEF Innermost, Outermost
  <2> HIDE DEF a, b
  <2> QED
    BY <2>1, <2>2, <2>3, <1>3
<1> QED
  BY <1>5, <1>6, <1>7, <1>8, <1>9, <1>10

\* Only the function that returns, or becomes others, leaves the stack.
LEMMA OthersStay ==
  ASSUME NEW x
  PROVE  /\ \A at : Returns(at) /\ x # at => (x \in Active' <=> x \in Active)
         /\ \A at, S : Becomes(at, S) /\ x # at /\ x \notin S =>
              (x \in Active' <=> x \in Active)
         /\ \A S : Calls(S) /\ x \notin S => (x \in Active' <=> x \in Active)
         /\ Stays => (x \in Active' <=> x \in Active)
BY DEF Returns, Becomes, Runs, Calls, Stays

\* What runs after a step ran before it, or is what the step calls.
LEMMA ActiveGrows ==
  /\ \A at : Returns(at) => Active' \subseteq Active
  /\ \A at, S : Becomes(at, S) => Active' \subseteq S \cup Active
  /\ \A S : Calls(S) => Active' \subseteq S \cup Active
  /\ Stays => Active' = Active
BY DEF Returns, Becomes, Runs, Calls, Stays

\* What a handler or a call adds to the running functions.
LEMMA ActiveAdds ==
  ASSUME TypeOK, Shape
  PROVE  /\ \/ ReadNoFrame \/ RecvAgain \/ ReadLoopsDone \/ SubmitEosNoFrame
            \/ EosReturns \/ ErrorReturns \/ WriteLoopDone \/ WriteLoopsExceeded
            \/ WriteEos \/ SendAgain \/ WriteDone \/ ConnectedReturns \/ AbortWriting
            \/ \E up \in BOOLEAN : PartialReturns(up)
            \/ \E k \in 1 .. VecSize : SendData(k)
            => Active' \subseteq Active
         /\ \A up \in BOOLEAN :
              FullReturns(up) => Active' \subseteq {"read_loop"} \cup Active
         /\ SendError => Active' \subseteq {"error"} \cup Active
         /\ WriteEvent => Active' \subseteq {"write_loop", "write_done"} \cup Active
         /\ OnWriteQueue => Active' \subseteq {"write_event"} \cup Active
         /\ OnRead => Active' \subseteq {"read_loop"}
         /\ \A kind \in {"data", "eos"} : Write(kind) =>
              Active' \subseteq {"write_loop"} \cup Active
<1>1. ASSUME \/ ReadNoFrame \/ RecvAgain \/ ReadLoopsDone \/ SubmitEosNoFrame
             \/ EosReturns \/ ErrorReturns \/ WriteLoopDone \/ WriteLoopsExceeded
             \/ WriteEos \/ SendAgain \/ WriteDone \/ ConnectedReturns \/ AbortWriting
             \/ \E up \in BOOLEAN : PartialReturns(up)
      PROVE  Active' \subseteq Active
  BY <1>1, HandlerSteps, ActiveGrows
<1>2. ASSUME NEW k \in 1 .. VecSize, SendData(k)
      PROVE  Active' \subseteq Active
  <2>1. Returns("write_loop") \/ Becomes("write_loop", {"write_loop"})
    BY <1>2, HandlerSteps
  <2> QED
    BY <2>1 DEF Returns, Becomes, Runs
<1>3. ASSUME NEW up \in BOOLEAN, FullReturns(up)
      PROVE  Active' \subseteq {"read_loop"} \cup Active
  <2>1. Returns("read:full") \/ Becomes("read:full", {"read_loop"})
    BY <1>3, HandlerSteps
  <2> QED
    BY <2>1, ActiveGrows
<1>4. ASSUME SendError
      PROVE  Active' \subseteq {"error"} \cup Active
  BY <1>4, HandlerSteps, ActiveGrows
<1>5. ASSUME WriteEvent
      PROVE  Active' \subseteq {"write_loop", "write_done"} \cup Active
  <2>1. Returns("write_event") \/ Becomes("write_event", {"write_loop", "write_done"})
    BY <1>5, HandlerSteps
  <2> QED
    BY <2>1, ActiveGrows
<1>6. ASSUME OnWriteQueue
      PROVE  Active' \subseteq {"write_event"} \cup Active
  <2>1. Returns("on_write") \/ Becomes("on_write", {"write_event"})
    BY <1>6, HandlerSteps
  <2> QED
    BY <2>1, ActiveGrows
<1>7. ASSUME OnRead
      PROVE  Active' \subseteq {"read_loop"}
  <2>1. Active = {} /\ (Stays \/ Calls({"read_loop"}))
    BY <1>7, CallSteps
  <2> QED
    BY <2>1, ActiveGrows
<1>8. ASSUME NEW kind \in {"data", "eos"}, Write(kind)
      PROVE  Active' \subseteq {"write_loop"} \cup Active
  <2>1. Stays \/ Calls({"write_loop"})
    BY <1>8, CallSteps
  <2> QED
    BY <2>1, ActiveGrows
<1> QED
  BY <1>1, <1>2, <1>3, <1>4, <1>5, <1>6, <1>7, <1>8

\* A pause leaves the level above zero, and the watcher on only where it was on
\* in spite of an earlier pause.
LEMMA Pausing ==
  ASSUME TypeOK, Pause
  PROVE  /\ pauseLevel' # 0 /\ readWatch' \in BOOLEAN
         /\ UNCHANGED <<readShutdown, readEvents>>
         /\ readWatch' => readWatch /\ pauseLevel # 0
<1>1. \A n \in Nat : n + 1 # 0 /\ n + 1 >= 0 /\ (n + 1 # 1 => n # 0)
  OBVIOUS
<1>2. pauseLevel \in Nat /\ readWatch \in BOOLEAN /\ readEvents \in SUBSET {"READ"}
  BY DEF TypeOK
<1> QED
  BY <1>1, <1>2 DEF Pause, ReadUnsetEvent

\* Every step leaves the running functions in their shape.
LEMMA StepsAreSound ==
  ASSUME TypeOK, Shape, phase = "open", Next
  PROVE  Sound
<1>1. CASE Handler
  <2>1. ASSUME NEW k \in 1 .. VecSize, RecvData(k)
        PROVE  Sound
    BY <2>1, RecvDataSteps DEF Returns, Becomes
  <2>2. ASSUME NEW k \in 1 .. VecSize, SendData(k)
        PROVE  Sound
    BY <2>2, HandlerSteps DEF Returns, Becomes
  <2>3. ASSUME NEW up \in BOOLEAN, PartialReturns(up) \/ FullReturns(up)
        PROVE  Sound
    BY <2>3, HandlerSteps DEF Returns, Becomes
  <2>4. CASE \/ ReadNoFrame \/ RecvAgain \/ RecvEof \/ RecvError \/ ReadLoopsDone
             \/ ShutdownRead \/ LastReturns \/ SubmitEos \/ SubmitEosNoFrame
             \/ EosReturns \/ ErrorReturns
    BY <2>4, HandlerSteps DEF Returns, Becomes
  <2>5. CASE \/ WriteLoopDone \/ WriteLoopsExceeded \/ WriteEos \/ SendAgain
             \/ SendError \/ WriteEvent \/ WriteDone \/ ConnectedReturns
             \/ OnWriteQueue \/ AbortWriting
    BY <2>5, HandlerSteps DEF Returns, Becomes
  <2> QED
    BY <1>1, <2>1, <2>2, <2>3, <2>4, <2>5 DEF Handler
<1>2. CASE EventLoop
  BY <1>2, CallSteps DEF EventLoop, Calls, Stays
<1>3. CASE Application
  <2>1. ASSUME NEW kind \in {"data", "eos"}, Write(kind)
        PROVE  Sound
    BY <2>1, CallSteps DEF Calls, Stays
  <2>2. CASE Abort
    BY <2>2, CallSteps DEF Calls
  <2>3. CASE \/ ReadStart \/ ReadStop \/ ReadPause \/ ReadResume \/ WriteStart
             \/ WriteStop \/ Fini \/ (\E b \in BOOLEAN : SetPartial(b))
             \/ (\E connect \in BOOLEAN : Open(connect))
    <3>1. stack' = stack
      BY <2>3 DEF ReadStart, ReadStop, ReadPause, ReadResume, WriteStart, WriteStop,
                  Fini, SetPartial, Open
    <3> QED
      BY <3>1, StaysThere DEF Stays
  <2> QED
    BY <1>3, <2>1, <2>2, <2>3 DEF Application
<1>4. CASE Network
  <2>1. stack' = stack
    BY <1>4 DEF Network, ConnectEnds, PeerSends, PeerReads, PeerCloses, PeerResets
  <2> QED
    BY <2>1, StaysThere DEF Stays
<1> QED
  BY <1>1, <1>2, <1>3, <1>4 DEF Next

\* The frames of the queue are frames.
LEMMA ItemTyped ==
  ASSUME TypeOK
  PROVE  /\ \A n \in Nat, kind \in {"data", "eos"} : Item(n, kind) \in Chained
         /\ \A i \in DOMAIN queue : queue[i] \in Chained
         /\ queue # <<>> => /\ Head(queue) = queue[1] /\ queue[1] \in Chained
                            /\ Tail(queue) \in Seq(Chained)
                            /\ Len(queue) > 0 /\ 1 \in DOMAIN queue
         /\ \A item \in Chained : /\ <<item>> \in Seq(Chained)
                                  /\ Append(queue, item) \in Seq(Chained)
<1>1. VecSize \in Int /\ MoreVecs \in Nat
  BY SizesAssumption
<1>2. \A n \in Nat, kind \in {"data", "eos"} : Item(n, kind) \in Chained
  BY <1>1 DEF Item, Chained
<1> QED
  BY <1>2 DEF TypeOK

\* Type correctness, a step at a time: what the reading and the writing keep.
ReadTypes ==
  /\ partial \in BOOLEAN /\ readShutdown \in BOOLEAN /\ noFrames \in BOOLEAN
  /\ pauseLevel \in Nat
  /\ readEvents \in SUBSET {"READ"} /\ readWatch \in BOOLEAN
  /\ readFrame \in Filled
  /\ received \in Nat /\ offered \in Int /\ eosIn \in Nat /\ aborts \in Nat
NetTypes ==
  /\ connecting \in BOOLEAN /\ sysErrno \in BOOLEAN /\ failed \in BOOLEAN
  /\ inbuf \in Nat /\ outbuf \in Nat
  /\ peer \in {"open", "closed", "reset", "gone"}
  /\ conn \in {"pending", "refused", "ok"} /\ shut \in SUBSET {"rd", "wr"}
WriteTypes ==
  /\ writeOpen \in BOOLEAN /\ writeReady \in BOOLEAN /\ writeShutdown \in BOOLEAN
  /\ writeEvents \in SUBSET {"CONNECT", "WRITE"} /\ writeWatch \in BOOLEAN
  /\ queue \in Seq(Chained) /\ tail \in Nat
  /\ accepted \in Seq({"data", "eos"}) /\ wire \in Seq(Nat) /\ stopped \in BOOLEAN

LEMMA TypesSplit ==
  TypeOK <=> /\ phase \in {"none", "open", "fini", "assert"}
             /\ stack \in Seq(Activation)
             /\ ReadTypes /\ NetTypes /\ WriteTypes
BY DEF TypeOK, ReadTypes, NetTypes, WriteTypes

\* The types, of the reading and of the network.
LEMMA ReadTypeStep ==
  ASSUME TypeOK, phase = "open" => Shape, phase = "none" => Init, Next
  PROVE  ReadTypes' /\ NetTypes'
<1> USE DEF readVars, writeVars, connVars, netVars, readHist, writeHist
<1>0. \A n \in Nat : n + 1 \in Nat /\ (n > 0 => n - 1 \in Nat)
  OBVIOUS
<1>1. ReadTypes /\ NetTypes
  BY TypesSplit
<1>2. CASE ReadNoFrame \/ SubmitEosNoFrame
  BY <1>0, <1>1, <1>2 DEF ReadNoFrame, SubmitEosNoFrame, OutOfFrames, Pause,
     ReadUnsetEvent, ReadTypes, NetTypes
<1>3. CASE RecvAgain
  BY <1>1, <1>3, FillingTyped DEF RecvAgain, ReadSetEvent, ReadTypes, NetTypes
<1>17. CASE RecvEof
  BY <1>1, <1>17, FillingTyped DEF RecvEof, ReadTypes, NetTypes
<1>18. CASE RecvError
  BY <1>1, <1>18, FillingTyped DEF RecvError, Error, ReadTypes, NetTypes
<1>4. ASSUME NEW k \in 1 .. VecSize, RecvData(k)
      PROVE  ReadTypes' /\ NetTypes'
  <2>0. Shape
    BY <1>4 DEF RecvData, Receiving, Running
  <2>1. k \in Nat /\ k <= inbuf /\ inbuf' = inbuf - k /\ received' = received + k
    <3>1. k \in Nat
      BY SizesAssumption
    <3> QED
      BY <3>1, <1>4, <2>0, RecvDataSteps
  <2>2. readFrame' \in Filled
    BY <1>4, <2>0, RecvDataSteps
  <2>3. UNCHANGED <<phase, partial, noFrames, pauseLevel, readShutdown, writeVars,
                    connVars, outbuf, peer, conn, shut, eosIn, aborts, writeHist>>
    BY <1>4, <2>0, RecvDataSteps
  <2>4. \/ ReadSetEvent({"READ"}) /\ offered' = offered
        \/ UNCHANGED <<readEvents, readWatch>> /\ offered' = offered
        \/ /\ UNCHANGED <<readEvents, readWatch>>
           /\ offered' = offered + (readFrame.got + k)
    BY <1>4, <2>0, RecvDataSteps
  <2>5. readFrame.got \in Nat
    BY <1>1 DEF ReadTypes, Filled
  <2>6. offered' \in Int
    BY <2>1, <2>4, <2>5, <1>1 DEF ReadTypes
  <2>7. readEvents' \in SUBSET {"READ"} /\ readWatch' \in BOOLEAN
    BY <2>4, <1>1 DEF ReadTypes, ReadSetEvent
  <2>8. inbuf' \in Nat /\ received' \in Nat
    BY <2>1, <1>1 DEF ReadTypes, NetTypes
  <2> QED
    BY <1>1, <2>2, <2>3, <2>6, <2>7, <2>8 DEF ReadTypes, NetTypes
<1>5. ASSUME NEW up \in BOOLEAN, NEW room \in {0, 1}, TakeBack(up, room),
             stack[1] \in Activation
      PROVE  readFrame' \in Filled /\ offered' \in Int
  <2>1. stack[1].frame \in Filled
    BY <1>5, ActivationTyped
  <2>2. \A f \in Filled : /\ [f EXCEPT !.room = IF @ = 0 THEN room ELSE @] \in Filled
                          /\ f.got \in Nat
    BY DEF Filled
  <2> QED
    BY <2>1, <2>2, <1>1, <1>5 DEF TakeBack, ReadTypes
<1>6. ASSUME NEW up \in BOOLEAN, PartialReturns(up) \/ FullReturns(up)
      PROVE  ReadTypes' /\ NetTypes'
  <2>1. stack[1] \in Activation
    BY <1>6, InnermostRuns DEF PartialReturns, FullReturns, Running, Top
  <2>2. readFrame' \in Filled /\ offered' \in Int
    BY <1>5, <1>6, <2>1 DEF PartialReturns, FullReturns
  <2>3. CASE PartialReturns(up)
    BY <1>1, <2>2, <2>3 DEF PartialReturns, ReadSetEvent, ReadTypes, NetTypes
  <2>4. CASE FullReturns(up)
    BY <1>1, <2>2, <2>4 DEF FullReturns, ReadTypes, NetTypes
  <2> QED
    BY <1>6, <2>3, <2>4
<1>7. CASE ReadLoopsDone
  BY <1>1, <1>7 DEF ReadLoopsDone, ReadSetEvent, ReadTypes, NetTypes
<1>19. CASE LastReturns
  BY <1>1, <1>19 DEF LastReturns, ReadTypes, NetTypes
<1>20. CASE EosReturns
  BY <1>1, <1>20 DEF EosReturns, ReadTypes, NetTypes
<1>21. CASE ErrorReturns
  BY <1>1, <1>21 DEF ErrorReturns, ReadTypes, NetTypes
<1>8. /\ NoFrame \in Filled /\ readFrame.got \in Nat
      /\ \A a \in Int, b \in Nat : a + b \in Int
  BY <1>1 DEF ReadTypes, Filled, NoFrame
<1>9. CASE ShutdownRead
  BY <1>1, <1>8, <1>9 DEF ShutdownRead, ReadUnsetEvent, ReadTypes, NetTypes
<1>11. CASE SubmitEos
  BY <1>0, <1>1, <1>8, <1>11 DEF SubmitEos, ReadTypes, NetTypes
<1>22. CASE WriteLoopDone
  BY <1>1, <1>22 DEF WriteLoopDone, ReadTypes, NetTypes
<1>23. CASE WriteLoopsExceeded
  BY <1>1, <1>23 DEF WriteLoopsExceeded, ReadTypes, NetTypes
<1>24. CASE WriteEos
  BY <1>1, <1>24 DEF WriteEos, ReadTypes, NetTypes
<1>25. CASE SendAgain
  BY <1>1, <1>25 DEF SendAgain, ReadTypes, NetTypes
<1>26. CASE SendError
  BY <1>1, <1>26 DEF SendError, Error, ReadTypes, NetTypes
<1>27. CASE WriteEvent
  BY <1>1, <1>27 DEF WriteEvent, ReadTypes, NetTypes
<1>28. CASE WriteDone
  BY <1>1, <1>28 DEF WriteDone, ReadTypes, NetTypes
<1>29. CASE ConnectedReturns
  BY <1>1, <1>29 DEF ConnectedReturns, ReadTypes, NetTypes
<1>30. CASE OnWriteQueue
  BY <1>1, <1>30 DEF OnWriteQueue, ReadTypes, NetTypes
<1>31. CASE AbortWriting
  BY <1>1, <1>31 DEF AbortWriting, ReadTypes, NetTypes
<1>10. ASSUME NEW k \in 1 .. VecSize, SendData(k)
       PROVE  ReadTypes' /\ NetTypes'
  <2>1. k \in Nat
    OBVIOUS
  <2>2. outbuf' = outbuf + k
    BY <1>10 DEF SendData
  <2>3. outbuf' \in Nat
    BY <1>1, <2>1, <2>2 DEF NetTypes
  <2> QED
    BY <1>1, <1>10, <2>3 DEF SendData, ReadTypes, NetTypes
<1>32. CASE OnRead
  BY <1>1, <1>32 DEF OnRead, ReadTypes, NetTypes
<1>33. CASE OnWrite
  BY <1>1, <1>33 DEF OnWrite, ReadTypes, NetTypes
<1>34. CASE Refused
  BY <1>1, <1>34 DEF Refused, Error, ReadTypes, NetTypes
<1>35. CASE Connected
  BY <1>1, <1>35 DEF Connected, ConnectionUp, StartBoth, ReadSetEvent, ReadTypes,
     NetTypes
<1>12. CASE \E kind \in {"data", "eos"} : Write(kind)
  BY <1>1, <1>12 DEF Write, ReadTypes, NetTypes
<1>13. CASE ReadStart
  BY <1>1, <1>13 DEF ReadStart, ReadSetEvent, ReadTypes, NetTypes
<1>36. CASE ReadStop
  BY <1>1, <1>36 DEF ReadStop, ReadUnsetEvent, ReadTypes, NetTypes
<1>37. CASE ReadPause
  BY <1>0, <1>1, <1>37 DEF ReadPause, Pause, ReadUnsetEvent, ReadTypes, NetTypes
<1>38. CASE ReadResume
  BY <1>0, <1>1, <1>38 DEF ReadResume, ReadSetEvent, ReadTypes, NetTypes
<1>39. CASE \E b \in BOOLEAN : SetPartial(b)
  BY <1>1, <1>39 DEF SetPartial, ReadTypes, NetTypes
<1>14. CASE WriteStart
  BY <1>1, <1>14 DEF WriteStart, ReadTypes, NetTypes
<1>40. CASE WriteStop
  BY <1>1, <1>40 DEF WriteStop, ReadTypes, NetTypes
<1>41. CASE Abort
  BY <1>0, <1>1, <1>41 DEF Abort, ReadTypes, NetTypes
<1>42. CASE \E connect \in BOOLEAN : Open(connect)
  BY <1>1, <1>42 DEF Open, ReadTypes, NetTypes
<1>15. CASE Fini
  BY <1>1, <1>8, <1>15 DEF Fini, ReadUnsetEvent, ReadTypes, NetTypes
<1>16. CASE \E result \in {"ok", "refused"} : ConnectEnds(result)
  BY <1>1, <1>16 DEF ConnectEnds, ReadTypes, NetTypes
<1>43. CASE PeerSends
  BY <1>0, <1>1, <1>43 DEF PeerSends, ReadTypes, NetTypes
<1>44. CASE PeerReads
  BY <1>0, <1>1, <1>44 DEF PeerReads, ReadTypes, NetTypes
<1>45. CASE PeerCloses
  BY <1>1, <1>45 DEF PeerCloses, ReadTypes, NetTypes
<1>46. CASE PeerResets
  BY <1>1, <1>46 DEF PeerResets, ReadTypes, NetTypes
<1> QED
  BY <1>2, <1>3, <1>4, <1>6, <1>7, <1>9, <1>10, <1>11, <1>12, <1>13, <1>14, <1>15,
     <1>16, <1>17, <1>18, <1>19, <1>20, <1>21, <1>22, <1>23, <1>24, <1>25, <1>26,
     <1>27, <1>28, <1>29, <1>30, <1>31, <1>32, <1>33, <1>34, <1>35, <1>36, <1>37,
     <1>38, <1>39, <1>40, <1>41, <1>42, <1>43, <1>44, <1>45, <1>46
     DEF Next, Handler, EventLoop, Application, Network

\* The types of the writing.
LEMMA WriteTypeStep ==
  ASSUME TypeOK, phase = "open" => Shape, phase = "none" => Init, Next
  PROVE  WriteTypes'
<1> USE DEF readVars, writeVars, connVars, netVars, readHist, writeHist
<1>1. WriteTypes
  BY TypesSplit
<1>2. <<>> \in Seq(Chained) /\ 0 \in Nat
      /\ \A n \in Nat : n + 1 \in Nat
      /\ \A w \in Seq(Nat), m \in Nat : Append(w, m) \in Seq(Nat)
      /\ \A a \in Seq({"data", "eos"}), x \in {"data", "eos"} :
           Append(a, x) \in Seq({"data", "eos"}) /\ Len(a) \in Nat
  OBVIOUS
<1>3. CASE ReadNoFrame
  BY <1>1, <1>3 DEF ReadNoFrame, OutOfFrames, Pause, ReadUnsetEvent, WriteTypes
<1>4. CASE RecvAgain
  BY <1>1, <1>4 DEF RecvAgain, ReadSetEvent, WriteTypes
<1>5. CASE RecvEof
  BY <1>1, <1>5 DEF RecvEof, WriteTypes
<1>6. CASE RecvError
  BY <1>1, <1>6 DEF RecvError, Error, WriteTypes
<1>7. ASSUME NEW k \in 1 .. VecSize, RecvData(k)
      PROVE  WriteTypes'
  BY <1>1, <1>7 DEF RecvData, WriteTypes
<1>8. ASSUME NEW up \in BOOLEAN, PartialReturns(up)
      PROVE  WriteTypes'
  BY <1>1, <1>8 DEF PartialReturns, TakeBack, ReadSetEvent, WriteTypes
<1>9. ASSUME NEW up \in BOOLEAN, FullReturns(up)
      PROVE  WriteTypes'
  BY <1>1, <1>9 DEF FullReturns, TakeBack, WriteTypes
<1>10. CASE ReadLoopsDone
  BY <1>1, <1>10 DEF ReadLoopsDone, ReadSetEvent, WriteTypes
<1>11. CASE ShutdownRead
  BY <1>1, <1>11 DEF ShutdownRead, ReadUnsetEvent, WriteTypes
<1>12. CASE LastReturns
  BY <1>1, <1>12 DEF LastReturns, WriteTypes
<1>13. CASE SubmitEos
  BY <1>1, <1>13 DEF SubmitEos, WriteTypes
<1>14. CASE SubmitEosNoFrame
  BY <1>1, <1>14 DEF SubmitEosNoFrame, OutOfFrames, Pause, ReadUnsetEvent,
     WriteTypes
<1>15. CASE EosReturns
  BY <1>1, <1>15 DEF EosReturns, WriteTypes
<1>16. CASE ErrorReturns
  BY <1>1, <1>16 DEF ErrorReturns, WriteTypes
<1>17. CASE WriteLoopDone
  BY <1>1, <1>17 DEF WriteLoopDone, WriteTypes
<1>18. CASE WriteLoopsExceeded
  BY <1>1, <1>18 DEF WriteLoopsExceeded, WriteLater, WriteSetEvent, WriteTypes
<1>19. CASE WriteEos
  <2>1. queue # <<>> /\ Head(queue) \in Chained /\ Tail(queue) \in Seq(Chained)
    BY <1>19, ItemTyped DEF WriteEos, Writing
  <2>2. Head(queue).id \in Nat
    BY <2>1 DEF Chained
  <2>3. queue' \in Seq(Chained) /\ wire' \in Seq(Nat)
    BY <1>1, <1>2, <2>1, <2>2, <1>19 DEF WriteEos, WriteTypes
  <2> QED
    BY <1>1, <2>3, <1>19 DEF WriteEos, WriteUnsetEvent, WriteTypes
<1>20. CASE SendAgain
  BY <1>1, <1>20 DEF SendAgain, WriteLater, WriteSetEvent, WriteTypes
<1>21. CASE SendError
  BY <1>1, <1>21 DEF SendError, Error, WriteTypes
<1>22. ASSUME NEW k \in 1 .. VecSize, SendData(k)
      PROVE  WriteTypes'
  <2> DEFINE h == Head(queue)
  <2>1. /\ queue # <<>> /\ h \in Chained /\ Tail(queue) \in Seq(Chained)
        /\ h = queue[1] /\ 1 \in DOMAIN queue
    BY <1>22, ItemTyped DEF SendData, Writing
  <2>2. h.id \in Nat /\ h.left \in Int /\ h.vecs \in Nat /\ VecSize \in Int /\ k \in Nat
    <3>1. VecSize \in Nat
      BY SizesAssumption
    <3> QED
      BY <2>1, <3>1 DEF Chained
  <2> HIDE DEF h
  <2>3. wire' \in Seq(Nat)
    <3>1. [i \in 1 .. k |-> h.id] \in Seq(Nat)
      BY <2>2
    <3>2. \A u, v \in Seq(Nat) : u \o v \in Seq(Nat)
      OBVIOUS
    <3>3. wire' = wire \o [i \in 1 .. k |-> h.id] /\ wire \in Seq(Nat)
      BY <1>1, <1>22 DEF SendData, WriteTypes, h
    <3> QED
      BY <3>1, <3>2, <3>3
  <2>4. ASSUME NEW x \in Chained
        PROVE  [queue EXCEPT ![1] = x] \in Seq(Chained)
    BY <1>1, <2>1, <2>4 DEF WriteTypes
  <2>5. /\ [h EXCEPT !.left = h.left - k] \in Chained
        /\ h.vecs > 0 => [h EXCEPT !.left = VecSize, !.vecs = h.vecs - 1] \in Chained
    <3>1. /\ \A n \in Int, m \in Nat : n - m \in Int
          /\ \A n \in Nat : n > 0 => n - 1 \in Nat
      OBVIOUS
    <3>2. h.left - k \in Int /\ (h.vecs > 0 => h.vecs - 1 \in Nat)
      BY <2>2, <3>1
    <3>3. ASSUME NEW x \in Int, NEW v \in Nat
          PROVE  /\ [h EXCEPT !.left = x] \in Chained
                 /\ [h EXCEPT !.left = x, !.vecs = v] \in Chained
      BY <2>1 DEF Chained
    <3> QED
      BY <2>2, <3>2, <3>3
  <2>6. \/ queue' = [queue EXCEPT ![1] = [h EXCEPT !.left = h.left - k]]
        \/ h.vecs > 0 /\ queue' = [queue EXCEPT ![1] =
                                     [h EXCEPT !.left = VecSize, !.vecs = h.vecs - 1]]
        \/ queue' = Tail(queue)
    BY <1>1, <2>1, <1>22 DEF SendData, DropHead, h, WriteTypes
  <2>7. queue' \in Seq(Chained)
    BY <2>1, <2>4, <2>5, <2>6
  <2>8. /\ writeReady' \in BOOLEAN /\ writeWatch' \in BOOLEAN /\ tail' \in Nat
        /\ writeEvents' \in SUBSET {"CONNECT", "WRITE"}
    BY <1>1, <1>2, <1>22 DEF SendData, WriteTypes, WriteLater, WriteSetEvent,
       DropHead
  <2> QED
    BY <1>1, <2>3, <2>7, <2>8, <1>22 DEF SendData, WriteTypes
<1>23. CASE WriteEvent
  BY <1>1, <1>23 DEF WriteEvent, WriteUnsetEvent, WriteTypes
<1>24. CASE WriteDone
  BY <1>1, <1>24 DEF WriteDone, WriteUnsetEvent, WriteTypes
<1>25. CASE ConnectedReturns
  BY <1>1, <1>25 DEF ConnectedReturns, WriteTypes
<1>26. CASE OnWriteQueue
  BY <1>1, <1>26 DEF OnWriteQueue, WriteTypes
<1>27. CASE AbortWriting
  BY <1>1, <1>27 DEF AbortWriting, WriteUnsetEvent, WriteTypes
<1>28. CASE OnRead
  BY <1>1, <1>28 DEF OnRead, WriteTypes
<1>29. CASE OnWrite
  BY <1>1, <1>29 DEF OnWrite, WriteTypes
<1>30. CASE Refused
  BY <1>1, <1>30 DEF Refused, Error, WriteTypes
<1>31. CASE Connected
  BY <1>1, <1>31 DEF Connected, ConnectionUp, StartBoth, ReadSetEvent, WriteTypes
<1>32. ASSUME NEW kind \in {"data", "eos"}, Write(kind)
      PROVE  WriteTypes'
  <2> DEFINE item == Item(Len(accepted) + 1, kind)
  <2>1. Len(accepted) + 1 \in Nat /\ accepted' \in Seq({"data", "eos"})
    BY <1>1, <1>2, <1>32 DEF Write, WriteTypes
  <2>2. item \in Chained /\ item.id \in Nat
    BY <2>1, ItemTyped DEF Chained
  <2> HIDE DEF item
  <2>3. queue' \in {<<item>>, Append(queue, item), queue} /\ tail' = item.id
    BY <1>32 DEF Write, Chain, item
  <2>4. queue' \in Seq(Chained) /\ tail' \in Nat
    BY <1>1, <2>2, <2>3, ItemTyped DEF WriteTypes
  <2>5. writeEvents' \in SUBSET {"CONNECT", "WRITE"} /\ writeWatch' \in BOOLEAN
    BY <1>1, <1>32 DEF Write, WriteSetEvent, WriteTypes
  <2> QED
    BY <1>1, <2>1, <2>4, <2>5, <1>32 DEF Write, WriteTypes
<1>33. CASE ReadStart
  BY <1>1, <1>33 DEF ReadStart, ReadSetEvent, WriteTypes
<1>34. CASE ReadStop
  BY <1>1, <1>34 DEF ReadStop, ReadUnsetEvent, WriteTypes
<1>35. CASE ReadPause
  BY <1>1, <1>35 DEF ReadPause, Pause, ReadUnsetEvent, WriteTypes
<1>36. CASE ReadResume
  BY <1>1, <1>36 DEF ReadResume, ReadSetEvent, WriteTypes
<1>37. CASE WriteStart
  BY <1>1, <1>37 DEF WriteStart, WriteSetEvent, WriteTypes
<1>38. CASE WriteStop
  BY <1>1, <1>38 DEF WriteStop, WriteUnsetEvent, WriteTypes
<1>39. CASE Abort
  BY <1>1, <1>39 DEF Abort, WriteTypes
<1>40. CASE Fini
  BY <1>1, <1>2, <1>40 DEF Fini, ReadUnsetEvent, WriteUnsetEvent, WriteTypes
<1>41. ASSUME NEW b \in BOOLEAN, SetPartial(b)
      PROVE  WriteTypes'
  BY <1>1, <1>41 DEF SetPartial, WriteTypes
<1>42. ASSUME NEW connect \in BOOLEAN, Open(connect)
      PROVE  WriteTypes'
  BY <1>1, <1>42 DEF Open, WriteTypes
<1>43. ASSUME NEW result \in {"ok", "refused"}, ConnectEnds(result)
      PROVE  WriteTypes'
  BY <1>1, <1>43 DEF ConnectEnds, WriteTypes
<1>44. CASE PeerSends
  BY <1>1, <1>44 DEF PeerSends, WriteTypes
<1>45. CASE PeerReads
  BY <1>1, <1>45 DEF PeerReads, WriteTypes
<1>46. CASE PeerCloses
  BY <1>1, <1>46 DEF PeerCloses, WriteTypes
<1>47. CASE PeerResets
  BY <1>1, <1>47 DEF PeerResets, WriteTypes
<1> QED
  BY <1>3, <1>4, <1>5, <1>6, <1>7, <1>8, <1>9, <1>10, <1>11, <1>12, <1>13, <1>14,
     <1>15, <1>16, <1>17, <1>18, <1>19, <1>20, <1>21, <1>22, <1>23, <1>24, <1>25,
     <1>26, <1>27, <1>28, <1>29, <1>30, <1>31, <1>32, <1>33, <1>34, <1>35, <1>36,
     <1>37, <1>38, <1>39, <1>40, <1>41, <1>42, <1>43, <1>44, <1>45, <1>46, <1>47 DEF
     Next, Handler, EventLoop, Application, Network

\* A step that is not the opening of the stream is one of an open stream, and
\* only three of them may change the phase.
LEMMA Phases ==
  ASSUME Next
  PROVE  \/ phase = "none" /\ \E connect \in BOOLEAN : Open(connect)
         \/ phase = "open" /\ (phase' \in {"open", "assert"} \/ Fini)
<1>1. CASE ReadNoFrame
  BY <1>1 DEF ReadNoFrame, Receiving, Running
<1>2. CASE RecvAgain
  BY <1>2 DEF RecvAgain, Receiving, Running
<1>3. CASE RecvEof
  BY <1>3 DEF RecvEof, Receiving, Running
<1>4. CASE RecvError
  BY <1>4 DEF RecvError, Receiving, Running
<1>5. ASSUME NEW k \in 1 .. VecSize, RecvData(k)
      PROVE  phase = "open" /\ phase' \in {"open", "assert"}
  BY <1>5 DEF RecvData, Receiving, Running
<1>6. ASSUME NEW up \in BOOLEAN, PartialReturns(up)
      PROVE  phase = "open" /\ phase' \in {"open", "assert"}
  BY <1>6 DEF PartialReturns, Running
<1>7. ASSUME NEW up \in BOOLEAN, FullReturns(up)
      PROVE  phase = "open" /\ phase' \in {"open", "assert"}
  BY <1>7 DEF FullReturns, Running
<1>8. CASE ReadLoopsDone
  BY <1>8 DEF ReadLoopsDone, Running
<1>9. CASE ShutdownRead
  BY <1>9 DEF ShutdownRead, Running
<1>10. CASE LastReturns
  BY <1>10 DEF LastReturns, Running
<1>11. CASE SubmitEos
  BY <1>11 DEF SubmitEos, Running
<1>12. CASE SubmitEosNoFrame
  BY <1>12 DEF SubmitEosNoFrame, Running
<1>13. CASE EosReturns
  BY <1>13 DEF EosReturns, Running
<1>14. CASE ErrorReturns
  BY <1>14 DEF ErrorReturns, Running
<1>15. CASE WriteLoopDone
  BY <1>15 DEF WriteLoopDone, Running
<1>16. CASE WriteLoopsExceeded
  BY <1>16 DEF WriteLoopsExceeded, Running
<1>17. CASE WriteEos
  BY <1>17 DEF WriteEos, Writing, Running
<1>18. CASE SendAgain
  BY <1>18 DEF SendAgain, Writing, Running
<1>19. CASE SendError
  BY <1>19 DEF SendError, Writing, Running
<1>20. ASSUME NEW k \in 1 .. VecSize, SendData(k)
      PROVE  phase = "open" /\ phase' \in {"open", "assert"}
  BY <1>20 DEF SendData, Writing, Running
<1>21. CASE WriteEvent
  BY <1>21 DEF WriteEvent, Running
<1>22. CASE WriteDone
  BY <1>22 DEF WriteDone, Running
<1>23. CASE ConnectedReturns
  BY <1>23 DEF ConnectedReturns, Running
<1>24. CASE OnWriteQueue
  BY <1>24 DEF OnWriteQueue, Running
<1>25. CASE AbortWriting
  BY <1>25 DEF AbortWriting, Running
<1>26. CASE OnRead
  BY <1>26 DEF OnRead, Running
<1>27. CASE OnWrite
  BY <1>27 DEF OnWrite, OnWriteEvent, Running
<1>28. CASE Refused
  BY <1>28 DEF Refused, OnWriteEvent, Running
<1>29. CASE Connected
  BY <1>29 DEF Connected, OnWriteEvent, Running
<1>30. ASSUME NEW kind \in {"data", "eos"}, Write(kind)
      PROVE  phase = "open" /\ phase' \in {"open", "assert"}
  BY <1>30 DEF Write, AppRuns, Running
<1>31. CASE ReadStart
  BY <1>31 DEF ReadStart, AppRuns, Running
<1>32. CASE ReadStop
  BY <1>32 DEF ReadStop, AppRuns, Running
<1>33. CASE ReadPause
  BY <1>33 DEF ReadPause, AppRuns, Running
<1>34. CASE ReadResume
  BY <1>34 DEF ReadResume, AppRuns, Running
<1>35. CASE WriteStart
  BY <1>35 DEF WriteStart, AppRuns, Running
<1>36. CASE WriteStop
  BY <1>36 DEF WriteStop, AppRuns, Running
<1>37. CASE Abort
  BY <1>37 DEF Abort, AppMayShutdown, AppRuns, Running
<1>38. CASE Fini
  BY <1>38 DEF Fini, Running
<1>39. ASSUME NEW b \in BOOLEAN, SetPartial(b)
      PROVE  phase = "open" /\ phase' \in {"open", "assert"}
  BY <1>39 DEF SetPartial, AppRuns, Running
<1>40. ASSUME NEW connect \in BOOLEAN, Open(connect)
      PROVE  phase = "none"
  BY <1>40 DEF Open
<1>41. ASSUME NEW result \in {"ok", "refused"}, ConnectEnds(result)
      PROVE  phase = "open" /\ phase' \in {"open", "assert"}
  BY <1>41 DEF ConnectEnds, Running
<1>42. CASE PeerSends
  BY <1>42 DEF PeerSends, Running
<1>43. CASE PeerReads
  BY <1>43 DEF PeerReads, Running
<1>44. CASE PeerCloses
  BY <1>44 DEF PeerCloses, Running
<1>45. CASE PeerResets
  BY <1>45 DEF PeerResets, Running
<1> QED
  BY <1>1, <1>2, <1>3, <1>4, <1>5, <1>6, <1>7, <1>8, <1>9, <1>10, <1>11, <1>12,
     <1>13, <1>14, <1>15, <1>16, <1>17, <1>18, <1>19, <1>20, <1>21, <1>22, <1>23,
     <1>24, <1>25, <1>26, <1>27, <1>28, <1>29, <1>30, <1>31, <1>32, <1>33, <1>34,
     <1>35, <1>36, <1>37, <1>38, <1>39, <1>40, <1>41, <1>42, <1>43, <1>44, <1>45 DEF
     Next, Handler, EventLoop, Application, Network

\* Every step keeps the types, and of an open stream the shape of the stack.
LEMMA TypeStep ==
  ASSUME TypeOK, phase = "open" => Shape, phase = "none" => Init, Next
  PROVE  TypeOK' /\ (phase' = "open" => Shape')
<1>1. ReadTypes' /\ NetTypes' /\ WriteTypes'
  BY ReadTypeStep, WriteTypeStep
<1>2. Sound /\ phase' \in {"none", "open", "fini", "assert"}
  <2>1. CASE phase = "open" /\ phase' \in {"open", "fini", "assert"}
    BY <2>1, StepsAreSound
  <2>2. CASE phase = "none" /\ \E connect \in BOOLEAN : Open(connect)
    <3>1. stack' = stack /\ stack = <<>> /\ phase' = "open"
      BY <2>2 DEF Open, Init
    <3>2. DOMAIN stack = {}
      BY <3>1
    <3>3. Shape
      BY <3>2 DEF Shape
    <3> QED
      BY <3>1, <3>3, StaysThere DEF Stays
  <2> QED
    BY <2>1, <2>2, Phases DEF Fini
<1> QED
  BY <1>1, <1>2 DEF TypeOK, ReadTypes, NetTypes, WriteTypes, Sound

\* The read watcher: what an error leaves to be undone is undone when its
\* callback returns.
LEMMA ReadingStep ==
  ASSUME Inv, phase = "open", phase' = "open", Next
  PROVE  Reading'
<1> USE DEF readVars, writeVars, connVars, netVars, readHist, writeHist
<1>1. phase = "open" /\ TypeOK /\ Shape /\ Reading
  BY DEF Inv
<1>2. /\ failed \in BOOLEAN /\ readShutdown \in BOOLEAN /\ readWatch \in BOOLEAN
      /\ readEvents \in SUBSET {"READ"} /\ (readEvents # {} => "READ" \in readEvents)
      /\ pauseLevel \in Nat /\ pauseLevel + 1 \in Nat /\ pauseLevel + 1 # 0
      /\ pauseLevel >= 0 /\ (pauseLevel > 0 => pauseLevel # 0)
  <2>1. \A n \in Nat : n + 1 \in Nat /\ n + 1 # 0 /\ n >= 0 /\ (n > 0 => n # 0)
    OBVIOUS
  <2> QED
    BY <1>1, <2>1 DEF TypeOK
<1>3. CASE \/ WriteStart \/ WriteStop \/ PeerSends \/ PeerReads \/ PeerCloses
           \/ PeerResets
           \/ (\E b \in BOOLEAN : SetPartial(b))
           \/ (\E result \in {"ok", "refused"} : ConnectEnds(result))
  <2>1. UNCHANGED <<failed, readShutdown, pauseLevel, readEvents, readWatch, stack>>
    BY <1>3 DEF WriteStart, WriteStop, SetPartial, ConnectEnds, PeerSends,
       PeerReads, PeerCloses, PeerResets
  <2> QED
    BY <1>1, <2>1 DEF Reading, Active
<1>4. CASE \/ LastReturns \/ SubmitEos \/ EosReturns \/ RecvEof \/ WriteDone
           \/ ConnectedReturns \/ OnWriteQueue \/ AbortWriting
           \/ (\E up \in BOOLEAN : FullReturns(up))
  <2>1. UNCHANGED <<failed, readShutdown, pauseLevel, readEvents, readWatch>>
    BY <1>4 DEF LastReturns, SubmitEos, EosReturns, RecvEof, WriteDone,
       ConnectedReturns, OnWriteQueue, AbortWriting, FullReturns
  <2>2. "error" \in Active' <=> "error" \in Active
    BY <1>1, <1>4, OthersStay, HandlerSteps
  <2> QED
    BY <1>1, <2>1, <2>2 DEF Reading
<1>5. CASE \/ WriteLoopDone \/ WriteLoopsExceeded \/ WriteEos \/ SendAgain
           \/ WriteEvent \/ OnWrite \/ Abort
           \/ (\E k \in 1 .. VecSize : SendData(k))
           \/ (\E kind \in {"data", "eos"} : Write(kind))
  <2>1. UNCHANGED <<failed, readShutdown, pauseLevel, readEvents, readWatch>>
    BY <1>5 DEF WriteLoopDone, WriteLoopsExceeded, WriteEos, SendAgain, SendData,
       WriteEvent, OnWrite, Abort, Write
  <2>2. "error" \in Active' <=> "error" \in Active
    BY <1>1, <1>5, OthersStay, HandlerSteps, CallSteps
  <2> QED
    BY <1>1, <2>1, <2>2 DEF Reading
<1>6. CASE ReadNoFrame
  <2>1. Returns("read_loop")
    BY <1>1, <1>6, HandlerSteps
  <2>2. Pause /\ UNCHANGED failed
    BY <1>6 DEF ReadNoFrame, OutOfFrames
  <2> QED
    BY <1>1, Pausing, <2>1, <2>2 DEF Reading, Returns, Runs
<1>7. CASE SubmitEosNoFrame
  <2>1. Returns("submit_eos")
    BY <1>1, <1>7, HandlerSteps
  <2>2. Pause /\ UNCHANGED failed
    BY <1>7 DEF SubmitEosNoFrame, OutOfFrames
  <2> QED
    BY <1>1, Pausing, <2>1, <2>2 DEF Reading, Returns, Runs
<1>8. CASE RecvAgain
  <2>1. Returns("read_loop")
    BY <1>1, <1>8, HandlerSteps
  <2> QED
    BY <1>1, <1>2, <1>8, <2>1 DEF RecvAgain, ReadSetEvent, Reading, Returns,
       Becomes, Runs, Calls
<1>9. CASE ReadLoopsDone
  <2>1. Returns("read_loop")
    BY <1>1, <1>9, HandlerSteps
  <2> QED
    BY <1>1, <1>2, <1>9, <2>1 DEF ReadLoopsDone, ReadSetEvent, Reading, Returns,
       Becomes, Runs, Calls
<1>10. ASSUME NEW up \in BOOLEAN, PartialReturns(up)
       PROVE  Reading'
  <2>1. Returns("read:partial")
    BY <1>1, <1>10, HandlerSteps
  <2> QED
    BY <1>1, <1>2, <1>10, <2>1 DEF PartialReturns, TakeBack, ReadSetEvent, Reading,
       Returns, Becomes, Runs, Calls
<1>11. CASE ShutdownRead
  <2>1. Becomes("shutdown_read", {IF readFrame.got > 0 THEN "read:last" ELSE "submit_eos"})
    BY <1>1, <1>11, HandlerSteps
  <2> QED
    BY <1>1, <1>2, <1>11, <2>1 DEF ShutdownRead, ReadUnsetEvent, Reading, Returns,
       Becomes, Runs, Calls
<1>12. CASE RecvError
  <2>1. Becomes("read_loop", {"error", "shutdown_read"})
    BY <1>1, <1>12, HandlerSteps
  <2> QED
    BY <1>1, <1>2, <1>12, <2>1 DEF RecvError, Error, Reading, Returns, Becomes,
       Runs, Calls
<1>13. CASE SendError
  <2>1. Becomes("write_loop", {"error"})
    BY <1>1, <1>13, HandlerSteps
  <2> QED
    BY <1>1, <1>2, <1>13, <2>1 DEF SendError, Error, Reading, Returns, Becomes,
       Runs, Calls
<1>14. CASE ErrorReturns
  <2>1. Returns("error")
    BY <1>1, <1>14, HandlerSteps
  <2> QED
    BY <1>1, <1>2, <1>14, <2>1 DEF ErrorReturns, Reading, Returns, Becomes, Runs,
       Calls
<1>15. CASE Refused
  <2>1. Active = {} /\ Calls({"error", "on_write"})
    BY <1>1, <1>15, CallSteps
  <2> QED
    BY <1>1, <1>2, <1>15, <2>1 DEF Refused, Error, Reading, Returns, Becomes, Runs,
       Calls
<1>16. CASE Connected
  <2>1. Active = {} /\ Calls({"connected", "write_event", "on_write"})
    BY <1>1, <1>16, CallSteps
  <2> QED
    BY <1>1, <1>2, <1>16, <2>1 DEF Connected, ConnectionUp, StartBoth, ReadSetEvent,
       Reading, Returns, Becomes, Runs, Calls
<1>17. ASSUME NEW k \in 1 .. VecSize, RecvData(k)
       PROVE  Reading'
  <2>1. "error" \in Active' <=> "error" \in Active
    BY <1>1, <1>17, OthersStay, RecvDataSteps
  <2>2. /\ UNCHANGED <<failed, readShutdown, pauseLevel>>
        /\ UNCHANGED <<readEvents, readWatch>> \/ ReadSetEvent({"READ"})
    BY <1>1, <1>17, RecvDataSteps
  <2>3. CASE UNCHANGED <<readEvents, readWatch>>
    BY <1>1, <2>1, <2>2, <2>3 DEF Reading
  <2>4. CASE ReadSetEvent({"READ"})
    BY <1>1, <1>2, <2>1, <2>2, <2>4 DEF Reading, ReadSetEvent
  <2> QED
    BY <2>1, <2>2, <2>3, <2>4
<1>18. CASE OnRead
  <2>1. Active = {} /\ "error" \notin Active'
    BY <1>1, <1>18, CallSteps DEF Calls, Stays
  <2> QED
    BY <1>1, <1>2, <1>18, <2>1 DEF OnRead, Reading
<1>19. CASE ReadPause
  <2>1. Active' = Active /\ Pause /\ UNCHANGED failed
    BY <1>19 DEF ReadPause, Active
  <2> QED
    BY <1>1, Pausing, <2>1 DEF Reading
<1>20. CASE ReadStart
  <2>1. Active' = Active
    BY <1>20 DEF ReadStart, Active
  <2> QED
    BY <1>1, <1>2, <1>20, <2>1 DEF ReadStart, ReadSetEvent, Reading
<1>21. CASE ReadStop
  <2>1. Active' = Active
    BY <1>21 DEF ReadStop, Active
  <2> QED
    BY <1>1, <1>2, <1>21, <2>1 DEF ReadStop, ReadUnsetEvent, Reading
<1>22. CASE ReadResume
  <2>1. Active' = Active
    BY <1>22 DEF ReadResume, Active
  <2> QED
    BY <1>1, <1>2, <1>22, <2>1 DEF ReadResume, ReadSetEvent, Reading
<1>23. CASE Fini
  BY <1>23 DEF Fini
<1> QED
  BY <1>1, <1>3, <1>4, <1>5, <1>6, <1>7, <1>8, <1>9, <1>10, <1>11, <1>12, <1>13,
     <1>14, <1>15, <1>16, <1>17, <1>18, <1>19, <1>20, <1>21, <1>22, <1>23 DEF Next,
     Handler, EventLoop, Application, Network, Open

\* A read frame given back brings the bytes it holds with it.
LEMMA TakingBack ==
  ASSUME TypeOK, NEW up \in BOOLEAN, NEW room, stack[1] \in Activation,
         readFrame = NoFrame, Bytes, TakeBack(up, room)
  PROVE  received = offered' + readFrame'.got
<1> DEFINE f == stack[1].frame
<1>1. f \in Filled /\ f.got \in Nat
  BY ActivationTyped DEF Filled
<1>2. [f EXCEPT !.room = IF @ = 0 THEN room ELSE @].got = f.got
  BY <1>1 DEF Filled
<1>3. \A o \in Int, g \in Nat : (o - g) + g = o /\ o + 0 = o
  OBVIOUS
<1>4. received = offered /\ (offered - f.got) + f.got = offered
  BY <1>1, <1>3 DEF Bytes, NoFrame, TypeOK
<1>5. CASE up
  BY <1>5 DEF TakeBack, Bytes
<1>6. CASE ~up
  BY <1>2, <1>4, <1>6 DEF TakeBack
<1> QED
  BY <1>5, <1>6


\* The bytes: a frame the stream hands to a callback is not the stream's any
\* more, and one it gets back is the only one it has.
LEMMA BytesStep ==
  ASSUME Inv, phase = "open", phase' = "open", Next
  PROVE  Bytes'
<1> USE DEF readVars, writeVars, connVars, netVars, readHist, writeHist
<1>1. phase = "open" /\ TypeOK /\ Shape /\ Bytes
  BY DEF Inv
<1>2. /\ received \in Nat /\ offered \in Int
      /\ readFrame \in Filled /\ readFrame.got \in Nat
      /\ \A a \in Int, b \in Nat : a + b \in Int /\ (b > 0 \/ b = 0)
      /\ readFrame.got > 0 \/ readFrame.got = 0
      /\ \A a \in Int : a + 0 = a
      /\ \A a \in Int, b, c \in Nat : (a + b) + c = a + (b + c) /\ (a - b) + b = a
      /\ NoFrame.got = 0 /\ Filling.got = readFrame.got
  BY <1>1, FillingTyped DEF TypeOK, Filled, NoFrame
<1>3. CASE \/ ReadStart \/ ReadStop \/ ReadPause \/ ReadResume \/ WriteStart
           \/ WriteStop \/ PeerSends \/ PeerReads \/ PeerCloses \/ PeerResets
           \/ (\E b \in BOOLEAN : SetPartial(b))
           \/ (\E result \in {"ok", "refused"} : ConnectEnds(result))
  <2>1. UNCHANGED <<received, offered, readFrame>> /\ UNCHANGED stack
    BY <1>3 DEF ReadStart, ReadStop, ReadPause, ReadResume, WriteStart, WriteStop,
       SetPartial, ConnectEnds, PeerSends, PeerReads, PeerCloses, PeerResets
  <2> QED
    BY <1>1, <2>1 DEF Bytes, Active
<1>4. CASE \/ ReadNoFrame \/ ReadLoopsDone \/ SubmitEosNoFrame \/ EosReturns
           \/ ErrorReturns
  <2>1. UNCHANGED <<received, offered, readFrame>>
    BY <1>4 DEF ReadNoFrame, ReadLoopsDone, SubmitEosNoFrame, EosReturns,
       ErrorReturns
  <2>2. Active' \subseteq
         {"read_loop", "read:eos", "error", "connected", "write_loop", "write_event",
          "write_done", "on_write", "shutdown_read", "abort"} \cup Active
    BY <1>1, <1>4, ActiveAdds
  <2> QED
    BY <1>1, <2>1, <2>2 DEF Bytes
<1>5. CASE \/ WriteLoopDone \/ WriteLoopsExceeded \/ WriteEos \/ SendAgain
           \/ SendError \/ WriteEvent \/ WriteDone \/ ConnectedReturns
           \/ OnWriteQueue \/ AbortWriting
           \/ (\E k \in 1 .. VecSize : SendData(k))
  <2>1. UNCHANGED <<received, offered, readFrame>>
    BY <1>5 DEF WriteLoopDone, WriteLoopsExceeded, WriteEos, SendAgain, SendError,
       SendData, WriteEvent, WriteDone, ConnectedReturns, OnWriteQueue, AbortWriting
  <2>2. Active' \subseteq
         {"read_loop", "read:eos", "error", "connected", "write_loop", "write_event",
          "write_done", "on_write", "shutdown_read", "abort"} \cup Active
    BY <1>1, <1>5, ActiveAdds
  <2> QED
    BY <1>1, <2>1, <2>2 DEF Bytes
<1>6. CASE \/ OnRead
           \/ (\E kind \in {"data", "eos"} : Write(kind))
  <2>1. UNCHANGED <<received, offered, readFrame>>
    BY <1>6 DEF OnRead, Write
  <2>2. Active' \subseteq
         {"read_loop", "read:eos", "error", "connected", "write_loop", "write_event",
          "write_done", "on_write", "shutdown_read", "abort"} \cup Active
    BY <1>1, <1>6, ActiveAdds
  <2> QED
    BY <1>1, <2>1, <2>2 DEF Bytes
<1>7. CASE \/ OnWrite \/ Refused \/ Connected \/ Abort
  <2>1. UNCHANGED <<received, offered, readFrame>>
    BY <1>7 DEF OnWrite, Refused, Connected, Abort
  <2>2. Active' \subseteq
         {"read_loop", "read:eos", "error", "connected", "write_loop", "write_event",
          "write_done", "on_write", "shutdown_read", "abort"} \cup Active
    BY <1>1, <1>7, ActiveGrows, CallSteps
  <2> QED
    BY <1>1, <2>1, <2>2 DEF Bytes
<1>8. CASE RecvAgain
  <2>1. Returns("read_loop")
    BY <1>1, <1>8, HandlerSteps
  <2>2. readFrame' = Filling /\ UNCHANGED <<received, offered>>
    BY <1>8 DEF RecvAgain
  <2> QED
    BY <1>1, <1>2, <2>1, <2>2 DEF Bytes, Returns, Becomes, Runs, Outermost
<1>9. CASE RecvEof
  <2>1. Becomes("read_loop", {"shutdown_read"})
    BY <1>1, <1>9, HandlerSteps
  <2>2. readFrame' = Filling /\ UNCHANGED <<received, offered>>
    BY <1>9 DEF RecvEof
  <2> QED
    BY <1>1, <1>2, <2>1, <2>2 DEF Bytes, Returns, Becomes, Runs, Outermost
<1>10. CASE RecvError
  <2>1. Becomes("read_loop", {"error", "shutdown_read"})
    BY <1>1, <1>10, HandlerSteps
  <2>2. readFrame' = Filling /\ UNCHANGED <<received, offered>>
    BY <1>10 DEF RecvError
  <2> QED
    BY <1>1, <1>2, <2>1, <2>2 DEF Bytes, Returns, Becomes, Runs, Outermost
<1>11. ASSUME NEW k \in 1 .. VecSize, RecvData(k)
       PROVE  Bytes'
  <2>1. /\ Active' \subseteq {"read_loop", "read:partial", "read:full"}
        /\ Active' = {} \/ Active' = {"read_loop"} \/ readFrame' = NoFrame
    BY <1>1, <1>11, RecvDataSteps DEF Returns, Becomes, Runs, Outermost
  <2>2. k \in Nat
    BY SizesAssumption
  <2>3. /\ received' = received + k
        /\ \/ readFrame'.got = readFrame.got + k /\ offered' = offered
           \/ readFrame' = NoFrame /\ offered' = offered + (readFrame.got + k)
    BY <1>1, <1>11, RecvDataSteps
  <2>4. (offered + readFrame.got) + k = offered + (readFrame.got + k)
    BY <1>2, <2>2
  <2>5. (offered + (readFrame.got + k)) + 0 = offered + (readFrame.got + k)
    BY <1>2, <2>2
  <2>6. received' = offered' + readFrame'.got
    BY <1>1, <1>2, <2>3, <2>4, <2>5 DEF Bytes
  <2> QED
    BY <2>1, <2>2, <2>3, <2>4, <2>5, <2>6 DEF Bytes
<1>12. ASSUME NEW up \in BOOLEAN, PartialReturns(up)
       PROVE  Bytes'
  <2>1. Returns("read:partial")
    BY <1>1, <1>12, HandlerSteps
  <2>2. Active' \cap {"read:partial", "read:full", "read:last", "submit_eos"} = {}
        /\ stack[1] \in Activation /\ readFrame = NoFrame
    BY <1>1, <2>1 DEF Bytes, Returns, Becomes, Runs, Outermost
  <2>3. received' = received /\ stack[1].frame.got \in Nat
    BY <2>2, <1>12, ActivationTyped DEF PartialReturns, Filled
  <2>4. received' = offered' + readFrame'.got
    BY <1>1, <2>2, <2>3, TakingBack, <1>12 DEF PartialReturns
  <2> QED
    BY <2>1, <2>2, <2>3, <2>4 DEF Bytes
<1>13. ASSUME NEW up \in BOOLEAN, FullReturns(up)
       PROVE  Bytes'
  <2>1. IF "READ" \in readEvents THEN Becomes("read:full", {"read_loop"})
        ELSE Returns("read:full")
    BY <1>1, <1>13, HandlerSteps
  <2>2. Active' \cap {"read:partial", "read:full", "read:last", "submit_eos"} = {}
        /\ stack[1] \in Activation /\ readFrame = NoFrame
    BY <1>1, <2>1 DEF Bytes, Returns, Becomes, Runs, Outermost
  <2>3. received' = received /\ stack[1].frame.got \in Nat
    BY <2>2, <1>13, ActivationTyped DEF FullReturns, Filled
  <2>4. received' = offered' + readFrame'.got
    BY <1>1, <2>2, <2>3, TakingBack, <1>13 DEF FullReturns
  <2> QED
    BY <2>1, <2>2, <2>3, <2>4 DEF Bytes
<1>14. CASE ShutdownRead
  <2>1. Becomes("shutdown_read", {IF readFrame.got > 0 THEN "read:last" ELSE "submit_eos"})
    BY <1>1, <1>14, HandlerSteps
  <2>2. /\ IF readFrame.got > 0
           THEN readFrame' = NoFrame /\ offered' = offered + readFrame.got
           ELSE UNCHANGED <<readFrame, offered>>
        /\ UNCHANGED received
    BY <1>14 DEF ShutdownRead
  <2>3. (offered + readFrame.got) + 0 = offered + readFrame.got
    BY <1>2
  <2>4. received' = offered' + readFrame'.got
    BY <1>1, <1>2, <2>2, <2>3 DEF Bytes
  <2>5. CASE readFrame.got > 0
    BY <1>1, <2>1, <2>2, <2>4, <2>5 DEF Bytes, Becomes, Runs, Innermost
  <2>6. CASE ~(readFrame.got > 0)
    BY <1>1, <1>2, <2>1, <2>2, <2>4, <2>6 DEF Bytes, Becomes, Runs, Innermost
  <2> QED
    BY <2>1, <2>2, <2>3, <2>4, <2>5, <2>6
<1>15. CASE LastReturns
  <2>1. Becomes("read:last", {"submit_eos"})
    BY <1>1, <1>15, HandlerSteps
  <2>2. UNCHANGED <<received, offered, readFrame>>
    BY <1>15 DEF LastReturns
  <2> QED
    BY <1>1, <1>2, <2>1, <2>2 DEF Bytes, Becomes, Runs
<1>16. CASE SubmitEos
  <2>1. Becomes("submit_eos", {"read:eos"})
    BY <1>1, <1>16, HandlerSteps
  <2>2. readFrame.got = 0 /\ readFrame' = NoFrame /\ UNCHANGED <<received, offered>>
    BY <1>1, <2>1, <1>16 DEF SubmitEos, Bytes, Becomes, Runs
  <2> QED
    BY <1>1, <1>2, <2>1, <2>2 DEF Bytes, Becomes, Runs, Innermost
<1>17. CASE Fini
  BY <1>17 DEF Fini
<1> QED
  BY <1>1, <1>3, <1>4, <1>5, <1>6, <1>7, <1>8, <1>9, <1>10, <1>11, <1>12, <1>13,
     <1>14, <1>15, <1>16, <1>17 DEF Next, Handler, EventLoop, Application, Network,
     Open

\* The end of the stream: what may still run, and what the read frame may hold,
\* before, while and after it is submitted.
LEMMA EndingStep ==
  ASSUME Inv, phase = "open", phase' = "open", Next
  PROVE  Ending'
<1> USE DEF readVars, writeVars, connVars, netVars, readHist, writeHist
<1>1. phase = "open" /\ TypeOK /\ Shape /\ Reading /\ Bytes /\ Ending
  BY DEF Inv
<1>2. /\ eosIn + 1 > 0 /\ aborts + 1 > 0 /\ aborts + 1 # 0
      /\ aborts + 1 < 2 => aborts = 0
      /\ readFrame.got > 0 \/ readFrame.got = 0
      /\ NoFrame.got = 0 /\ ~(NoFrame.got > 0) /\ Filling.got = readFrame.got
  <2>1. /\ \A n \in Nat : n + 1 > 0 /\ n + 1 # 0 /\ (n + 1 < 2 => n = 0)
        /\ \A n \in Nat : n > 0 \/ n = 0
    OBVIOUS
  <2>2. eosIn \in Nat /\ aborts \in Nat /\ readFrame.got \in Nat
    BY <1>1 DEF TypeOK, Filled
  <2> QED
    BY <1>1, <2>1, <2>2, FillingTyped DEF NoFrame
<1>3. CASE \/ ReadPause \/ ReadResume \/ ReadStop \/ WriteStart \/ WriteStop
           \/ PeerSends \/ PeerReads \/ PeerCloses \/ PeerResets
           \/ (\E b \in BOOLEAN : SetPartial(b))
           \/ (\E result \in {"ok", "refused"} : ConnectEnds(result))
  <2>1. /\ UNCHANGED <<eosIn, aborts, readFrame>>
        /\ readEvents' \subseteq readEvents /\ (UNCHANGED readShutdown \/ readShutdown')
    BY <1>1, Pausing, <1>3 DEF ReadStop, ReadUnsetEvent, SetPartial, ConnectEnds,
       PeerSends, PeerReads, PeerCloses, PeerResets, WriteStart, WriteStop, ReadPause,
       ReadResume, ReadSetEvent
  <2>2. Active' = Active
    BY <1>3 DEF ReadPause, ReadResume, ReadStop, WriteStart, WriteStop, SetPartial,
       ConnectEnds, PeerSends, PeerReads, PeerCloses, PeerResets, Active
  <2> QED
    BY <1>1, <2>1, <2>2 DEF Ending, Delivering
<1>4. CASE \/ ReadNoFrame \/ SubmitEosNoFrame \/ EosReturns \/ ErrorReturns
  <2>1. /\ UNCHANGED <<eosIn, aborts, readFrame>>
        /\ readEvents' \subseteq readEvents /\ (UNCHANGED readShutdown \/ readShutdown')
    BY <1>1, Pausing, <1>4 DEF ReadNoFrame, SubmitEosNoFrame, EosReturns,
       ErrorReturns, OutOfFrames
  <2>2. Active' \subseteq
         {"read:eos", "error", "connected", "write_loop", "write_event",
          "write_done", "on_write", "abort"} \cup Active
    BY <1>1, <1>4, ActiveAdds
  <2> QED
    BY <1>1, <2>1, <2>2 DEF Ending, Delivering
<1>5. CASE \/ WriteLoopDone \/ WriteLoopsExceeded \/ WriteEos \/ SendAgain
           \/ SendError \/ WriteEvent \/ WriteDone \/ ConnectedReturns
           \/ OnWriteQueue \/ AbortWriting
           \/ (\E k \in 1 .. VecSize : SendData(k))
  <2>1. /\ UNCHANGED <<eosIn, aborts, readFrame>>
        /\ readEvents' \subseteq readEvents /\ (UNCHANGED readShutdown \/ readShutdown')
    BY <1>5 DEF WriteLoopDone, WriteLoopsExceeded, WriteEos, SendAgain, SendError,
       SendData, WriteEvent, WriteDone, ConnectedReturns, OnWriteQueue, AbortWriting,
       Error
  <2>2. Active' \subseteq
         {"read:eos", "error", "connected", "write_loop", "write_event",
          "write_done", "on_write", "abort"} \cup Active
    BY <1>1, <1>5, ActiveAdds
  <2> QED
    BY <1>1, <2>1, <2>2 DEF Ending, Delivering
<1>6. CASE \/ (\E kind \in {"data", "eos"} : Write(kind))
  <2>1. /\ UNCHANGED <<eosIn, aborts, readFrame>>
        /\ readEvents' \subseteq readEvents /\ (UNCHANGED readShutdown \/ readShutdown')
    BY <1>6 DEF Write
  <2>2. Active' \subseteq
         {"read:eos", "error", "connected", "write_loop", "write_event",
          "write_done", "on_write", "abort"} \cup Active
    BY <1>1, <1>6, ActiveAdds
  <2> QED
    BY <1>1, <2>1, <2>2 DEF Ending, Delivering
<1>7. CASE \/ OnWrite \/ Refused
  <2>1. /\ UNCHANGED <<eosIn, aborts, readFrame>>
        /\ readEvents' \subseteq readEvents /\ (UNCHANGED readShutdown \/ readShutdown')
    BY <1>7 DEF OnWrite, Refused, Error
  <2>2. Active' \subseteq
         {"read:eos", "error", "connected", "write_loop", "write_event",
          "write_done", "on_write", "abort"} \cup Active
    BY <1>1, <1>7, ActiveGrows, CallSteps
  <2> QED
    BY <1>1, <2>1, <2>2 DEF Ending, Delivering
<1>8. CASE Connected
  <2>1. Active' = {"connected", "write_event", "on_write"}
    BY <1>1, <1>8, CallSteps DEF Calls
  <2>2. UNCHANGED <<eosIn, aborts, readFrame, readShutdown>> /\ Active = {}
    BY <1>1, <1>8, CallSteps DEF Connected, ConnectionUp, StartBoth
  <2> QED
    BY <1>1, <2>1, <2>2 DEF Ending, Delivering
<1>9. CASE ReadStart
  <2>1. UNCHANGED <<eosIn, aborts, readFrame, readShutdown>> /\ aborts = 0
    BY <1>9 DEF ReadStart
  <2>2. Active' = Active
    BY <1>9 DEF ReadStart, Active
  <2> QED
    BY <1>1, <2>1, <2>2 DEF Ending, Delivering
<1>10. CASE RecvAgain
  <2>1. Returns("read_loop")
    BY <1>1, <1>10, HandlerSteps
  <2>2. eosIn = 0 \/ ~(eosIn > 0)
    BY <1>1, <2>1 DEF Ending, Delivering, Returns, Becomes, Runs
  <2>3. UNCHANGED <<eosIn, aborts>>
    BY <1>10 DEF RecvAgain
  <2> QED
    BY <1>1, <2>1, <2>2, <2>3 DEF Ending, Delivering, Returns, Becomes, Runs,
       Outermost
<1>11. CASE ReadLoopsDone
  <2>1. Returns("read_loop")
    BY <1>1, <1>11, HandlerSteps
  <2>2. eosIn = 0 \/ ~(eosIn > 0)
    BY <1>1, <2>1 DEF Ending, Delivering, Returns, Becomes, Runs
  <2>3. UNCHANGED <<eosIn, aborts>>
    BY <1>11 DEF ReadLoopsDone
  <2> QED
    BY <1>1, <2>1, <2>2, <2>3 DEF Ending, Delivering, Returns, Becomes, Runs,
       Outermost
<1>12. CASE RecvEof
  <2>1. Becomes("read_loop", {"shutdown_read"})
    BY <1>1, <1>12, HandlerSteps
  <2>2. eosIn = 0 \/ ~(eosIn > 0)
    BY <1>1, <2>1 DEF Ending, Delivering, Returns, Becomes, Runs
  <2>3. UNCHANGED <<eosIn, aborts>>
    BY <1>12 DEF RecvEof
  <2> QED
    BY <1>1, <2>1, <2>2, <2>3 DEF Ending, Delivering, Returns, Becomes, Runs,
       Outermost
<1>13. CASE RecvError
  <2>1. Becomes("read_loop", {"error", "shutdown_read"})
    BY <1>1, <1>13, HandlerSteps
  <2>2. eosIn = 0 \/ ~(eosIn > 0)
    BY <1>1, <2>1 DEF Ending, Delivering, Returns, Becomes, Runs
  <2>3. UNCHANGED <<eosIn, aborts>>
    BY <1>13 DEF RecvError
  <2> QED
    BY <1>1, <2>1, <2>2, <2>3 DEF Ending, Delivering, Returns, Becomes, Runs,
       Outermost
<1>14. ASSUME NEW k \in 1 .. VecSize, RecvData(k)
       PROVE  Ending'
  <2>1. /\ Active' \subseteq {"read_loop", "read:partial", "read:full"}
        /\ "read_loop" \in Active /\ UNCHANGED <<eosIn, aborts>>
    BY <1>1, <1>14, RecvDataSteps DEF Returns, Becomes, Runs, Outermost
  <2> QED
    BY <1>1, <2>1 DEF Ending, Delivering
<1>15. ASSUME NEW up \in BOOLEAN, PartialReturns(up)
       PROVE  Ending'
  <2>1. Returns("read:partial")
    BY <1>1, <1>15, HandlerSteps
  <2>2. "read:partial" \in Active /\ Active' = {}
    BY <2>1 DEF Returns, Runs, Outermost
  <2>3. UNCHANGED <<eosIn, aborts, readShutdown>>
    BY <1>15 DEF PartialReturns
  <2> QED
    BY <1>1, <2>1, <2>2, <2>3 DEF Ending, Delivering
<1>16. ASSUME NEW up \in BOOLEAN, FullReturns(up)
       PROVE  Ending'
  <2>1. IF "READ" \in readEvents THEN Becomes("read:full", {"read_loop"})
        ELSE Returns("read:full")
    BY <1>1, <1>16, HandlerSteps
  <2>2. /\ "read:full" \in Active /\ Active' \subseteq {"read_loop"}
        /\ "READ" \notin readEvents => Active' = {}
    BY <2>1 DEF Returns, Becomes, Runs, Outermost
  <2>3. UNCHANGED <<eosIn, aborts, readShutdown>>
    BY <1>16 DEF FullReturns
  <2> QED
    BY <1>1, <2>1, <2>2, <2>3 DEF Ending, Delivering
<1>17. CASE ShutdownRead
  <2>1. Becomes("shutdown_read", {IF readFrame.got > 0 THEN "read:last" ELSE "submit_eos"})
    BY <1>1, <1>17, HandlerSteps
  <2>2. /\ readFrame'.got = 0 /\ readShutdown' = TRUE /\ UNCHANGED <<eosIn, aborts>>
        /\ "READ" \notin readEvents'
    BY <1>2, <1>17 DEF ShutdownRead, ReadUnsetEvent
  <2>3. /\ "shutdown_read" \in Active /\ "read_loop" \notin Active'
        /\ Active' \subseteq {"read:last", "submit_eos"} \cup Active
        /\ "read:last" \in Active' => readFrame.got > 0 \/ "read:last" \in Active
    BY <2>1 DEF Becomes, Runs, Innermost
  <2>4. readFrame.got > 0 => ~Delivering
    BY <1>1, <1>2 DEF Bytes, Delivering
  <2> QED
    BY <1>1, <2>1, <2>2, <2>3, <2>4 DEF Ending, Delivering
<1>18. CASE LastReturns
  <2>1. Becomes("read:last", {"submit_eos"})
    BY <1>1, <1>18, HandlerSteps
  <2>2. /\ UNCHANGED <<eosIn, aborts, readFrame>>
        /\ UNCHANGED <<readEvents, readShutdown>>
    BY <1>18 DEF LastReturns
  <2>3. /\ "read:last" \in Active /\ Active' \subseteq {"submit_eos"} \cup Active
    BY <2>1 DEF Becomes, Runs
  <2> QED
    BY <1>1, <2>1, <2>2, <2>3 DEF Ending, Delivering
<1>19. CASE SubmitEos
  <2>1. Becomes("submit_eos", {"read:eos"})
    BY <1>1, <1>19, HandlerSteps
  <2>2. /\ "submit_eos" \in Active /\ Active' \subseteq {"read:eos"} \cup Active
        /\ "read_loop" \notin Active'
    BY <2>1 DEF Becomes, Runs, Innermost
  <2>3. /\ readFrame'.got = 0 /\ eosIn' > 0
        /\ UNCHANGED <<aborts, readEvents, readShutdown>>
    BY <1>1, <1>2, <2>2, <1>19 DEF SubmitEos, Bytes
  <2> QED
    BY <1>1, <2>1, <2>2, <2>3 DEF Ending, Delivering
<1>20. CASE Abort
  <2>1. Calls({"shutdown_read", "abort"})
    BY <1>1, <1>20, CallSteps
  <2>2. /\ aborts' = aborts + 1
        /\ UNCHANGED <<eosIn, readFrame, readEvents, readShutdown>>
    BY <1>20 DEF Abort
  <2>3. Active' = {"shutdown_read", "abort"} \cup Active
    BY <2>1 DEF Calls
  <2> QED
    BY <1>1, <1>2, <2>1, <2>2, <2>3 DEF Ending, Delivering
<1>21. CASE OnRead
  <2>1. Active' \subseteq {"read_loop"}
    BY <1>1, <1>21, ActiveAdds
  <2>2. ~(eosIn > 0)
    BY <1>1, <1>21, CallSteps DEF OnRead, Reading, Ending, Delivering
  <2>3. UNCHANGED <<eosIn, aborts>>
    BY <1>21 DEF OnRead
  <2> QED
    BY <1>1, <2>1, <2>2, <2>3 DEF Ending, Delivering
<1>22. CASE Fini
  BY <1>22 DEF Fini
<1> QED
  BY <1>1, <1>3, <1>4, <1>5, <1>6, <1>7, <1>8, <1>9, <1>10, <1>11, <1>12, <1>13,
     <1>14, <1>15, <1>16, <1>17, <1>18, <1>19, <1>20, <1>21, <1>22 DEF Next, Handler,
     EventLoop, Application, Network, Open

\* The connection: while it is pending nothing is read or written, so that no
\* handler meets the stream connecting, and no assertion fails.
LEMMA ConnectionStep ==
  ASSUME Inv, phase = "open", phase' # "fini", Next
  PROVE  Connection' /\ phase' = "open"
<1> USE DEF readVars, writeVars, connVars, netVars, readHist, writeHist
<1>1. phase = "open" /\ TypeOK /\ Shape /\ Reading /\ Connection
  BY DEF Inv
<1>2. /\ connecting \in BOOLEAN /\ failed \in BOOLEAN /\ writeReady \in BOOLEAN
      /\ writeWatch \in BOOLEAN /\ writeEvents \in SUBSET {"CONNECT", "WRITE"}
      /\ outbuf \in Nat /\ inbuf \in Nat /\ 0 < SndBuf /\ ~(0 > 0)
  BY <1>1, SizesAssumption DEF TypeOK
<1>3. CASE \/ ReadStart \/ ReadStop \/ ReadPause \/ ReadResume
           \/ (\E b \in BOOLEAN : SetPartial(b))
  <2>1. /\ UNCHANGED <<phase, conn, inbuf, peer, connecting, outbuf, shut, failed>>
        /\ UNCHANGED <<writeEvents, writeReady, writeWatch>>
    BY <1>3 DEF ReadStart, ReadStop, ReadPause, ReadResume, SetPartial
  <2>2. Active' = Active
    BY <1>3 DEF ReadStart, ReadStop, ReadPause, ReadResume, SetPartial, Active
  <2> QED
    BY <1>1, <2>1, <2>2 DEF Connection
<1>4. CASE \/ ReadNoFrame \/ RecvAgain \/ ReadLoopsDone \/ SubmitEosNoFrame
           \/ EosReturns \/ ConnectedReturns
           \/ (\E up \in BOOLEAN : PartialReturns(up))
  <2>1. /\ UNCHANGED <<phase, conn, inbuf, peer, connecting, outbuf, shut, failed>>
        /\ UNCHANGED <<writeEvents, writeReady, writeWatch>>
    BY <1>4 DEF ReadNoFrame, RecvAgain, ReadLoopsDone, SubmitEosNoFrame, EosReturns,
       PartialReturns, ConnectedReturns
  <2>2. Active' \subseteq Active
    BY <1>1, <1>4, ActiveAdds
  <2> QED
    BY <1>1, <2>1, <2>2 DEF Connection
<1>5. CASE \/ RecvEof \/ LastReturns \/ SubmitEos \/ ShutdownRead \/ OnWrite
           \/ Abort
  <2>1. /\ UNCHANGED <<phase, conn, inbuf, peer, connecting, outbuf, shut, failed>>
        /\ UNCHANGED <<writeEvents, writeReady, writeWatch>>
    BY <1>5 DEF RecvEof, LastReturns, SubmitEos, ShutdownRead, OnWrite, Abort
  <2>2. Active' \subseteq {"shutdown_read", "read:last", "submit_eos", "read:eos",
                        "on_write", "abort"} \cup Active
    BY <1>1, <1>5, ActiveGrows, HandlerSteps, CallSteps
  <2> QED
    BY <1>1, <2>1, <2>2 DEF Connection
<1>6. ASSUME NEW up \in BOOLEAN, FullReturns(up)
      PROVE  Connection' /\ phase' = "open"
  <2>1. /\ UNCHANGED <<phase, conn, inbuf, peer, connecting, outbuf, shut, failed>>
        /\ UNCHANGED <<writeEvents, writeReady, writeWatch>>
    BY <1>6 DEF FullReturns
  <2>2. ~connecting
    BY <1>1, <1>6, HandlerSteps DEF Returns, Becomes, Runs, Connection
  <2> QED
    BY <1>1, <2>1, <2>2 DEF Connection
<1>7. CASE RecvError
  <2>1. Becomes("read_loop", {"error", "shutdown_read"})
    BY <1>1, <1>7, HandlerSteps
  <2>2. ~connecting
    BY <1>1, <2>1 DEF Becomes, Runs, Connection
  <2> QED
    BY <1>1, <1>7, <2>1, <2>2 DEF RecvError, Error, Connection
<1>8. ASSUME NEW k \in 1 .. VecSize, RecvData(k)
      PROVE  Connection' /\ phase' = "open"
  <2>1. ~connecting
    BY <1>1, <1>8, RecvDataSteps DEF Returns, Becomes, Runs, Connection
  <2>2. UNCHANGED <<phase, conn, connecting, shut, failed>>
    BY <1>1, <1>8, RecvDataSteps
  <2> QED
    BY <1>1, <2>1, <2>2 DEF Connection
<1>9. CASE \/ WriteLoopDone \/ WriteLoopsExceeded \/ WriteEos \/ SendAgain
  <2>1. ~connecting
    BY <1>1, <1>9, HandlerSteps DEF Returns, Runs, Connection
  <2>2. /\ UNCHANGED <<phase, conn, connecting, failed>>
        /\ shut' \subseteq shut \cup {"wr"}
    BY <1>9 DEF WriteLoopDone, WriteLoopsExceeded, WriteEos, SendAgain
  <2> QED
    BY <1>1, <2>1, <2>2 DEF Connection
<1>10. CASE SendError
  <2>1. Becomes("write_loop", {"error"})
    BY <1>1, <1>10, HandlerSteps
  <2>2. ~connecting
    BY <1>1, <2>1 DEF Becomes, Runs, Connection
  <2> QED
    BY <1>1, <1>10, <2>1, <2>2 DEF SendError, Error, Connection
<1>11. ASSUME NEW k \in 1 .. VecSize, SendData(k)
       PROVE  Connection' /\ phase' = "open"
  <2>1. Returns("write_loop") \/ Becomes("write_loop", {"write_loop"})
    BY <1>1, <1>11, HandlerSteps
  <2>2. ~connecting
    BY <1>1, <2>1 DEF Becomes, Returns, Runs, Connection
  <2>3. UNCHANGED <<phase, conn, connecting, shut, failed>>
    BY <1>11 DEF SendData
  <2> QED
    BY <1>1, <2>1, <2>2, <2>3 DEF Connection
<1>12. CASE WriteEvent
  <2>1. ~connecting
    BY <1>1, <1>12, HandlerSteps DEF Becomes, Returns, Runs, Connection
  <2>2. UNCHANGED <<phase, conn, connecting, shut, failed>>
    BY <1>1, <2>1, <1>12 DEF WriteEvent
  <2> QED
    BY <1>1, <2>1, <2>2 DEF Connection
<1>13. CASE WriteDone
  <2>1. Active' \subseteq Active
    BY <1>1, <1>13, ActiveAdds
  <2> QED
    BY <1>1, <1>2, <1>13, <2>1 DEF WriteDone, WriteUnsetEvent, Connection
<1>14. CASE AbortWriting
  <2>1. Active' \subseteq Active
    BY <1>1, <1>14, ActiveAdds
  <2> QED
    BY <1>1, <1>2, <1>14, <2>1 DEF AbortWriting, WriteUnsetEvent, Connection
<1>15. CASE OnWriteQueue
  <2>1. /\ UNCHANGED <<phase, conn, inbuf, peer, connecting, outbuf, shut, failed>>
        /\ UNCHANGED <<writeEvents, writeReady, writeWatch>>
    BY <1>15 DEF OnWriteQueue
  <2>2. IF "WRITE" \in writeEvents THEN Becomes("on_write", {"write_event"})
        ELSE Returns("on_write")
    BY <1>1, <1>15, HandlerSteps
  <2> QED
    BY <1>1, <2>1, <2>2 DEF Connection, Returns, Becomes, Runs
<1>16. CASE ErrorReturns
  <2>1. Active' \subseteq Active /\ failed
    BY <1>1, <1>16, ActiveAdds, HandlerSteps DEF Reading, Returns, Runs
  <2> QED
    BY <1>1, <1>2, <1>16, <2>1 DEF ErrorReturns, Connection
<1>17. CASE OnRead
  <2>1. /\ UNCHANGED <<phase, conn, inbuf, peer, connecting, outbuf, shut, failed>>
        /\ UNCHANGED <<writeEvents, writeReady, writeWatch>>
    BY <1>17 DEF OnRead
  <2>2. Active = {} /\ Active' \subseteq {"read_loop"}
    BY <1>1, <1>17, ActiveAdds, CallSteps
  <2>3. ASSUME connecting
        PROVE  FALSE
    <3>1. ~failed /\ "CONNECT" \in writeEvents /\ writeWatch /\ outbuf = 0
      BY <1>1, <2>2, <2>3, <1>17 DEF OnRead, Reading, Connection
    <3>2. conn = "pending"
      BY <1>2, <3>1, <1>17 DEF OnRead, WriteFirst, Writable
    <3> QED
      BY <1>1, <1>2, <3>1, <3>2, <1>17 DEF OnRead, Readable, Connection
  <2> QED
    BY <1>1, <2>1, <2>2, <2>3 DEF Connection
<1>18. CASE Refused
  <2>1. Active = {} /\ Calls({"error", "on_write"})
    BY <1>1, <1>18, CallSteps
  <2> QED
    BY <1>1, <1>2, <1>18, <2>1 DEF Refused, Error, Calls, Connection
<1>19. CASE Connected
  BY <1>1, <1>19 DEF Connected, ConnectionUp, StartBoth, Connection
<1>20. ASSUME NEW kind \in {"data", "eos"}, Write(kind)
       PROVE  Connection' /\ phase' = "open"
  <2>1. Active' \subseteq {"write_loop"} \cup Active /\ (~writeReady => Active' = Active)
    BY <1>1, <1>20, ActiveAdds, ActiveGrows, CallSteps
  <2>2. UNCHANGED <<phase, conn, inbuf, peer, connecting, outbuf, shut, failed, writeReady>>
    BY <1>20 DEF Write
  <2>3. connecting => UNCHANGED <<writeEvents, writeWatch>>
    BY <1>1, <1>20 DEF Write, Connection
  <2> QED
    BY <1>1, <2>1, <2>2, <2>3 DEF Connection
<1>21. CASE WriteStart
  <2>1. Active' = Active
    BY <1>21 DEF WriteStart, Active
  <2> QED
    BY <1>1, <1>2, <1>21, <2>1 DEF WriteStart, WriteSetEvent, Connection
<1>22. CASE WriteStop
  <2>1. Active' = Active
    BY <1>22 DEF WriteStop, Active
  <2> QED
    BY <1>1, <1>2, <1>22, <2>1 DEF WriteStop, WriteUnsetEvent, Connection
<1>23. ASSUME NEW result \in {"ok", "refused"}, ConnectEnds(result)
       PROVE  Connection' /\ phase' = "open"
  <2>1. Active' = Active
    BY <1>23 DEF ConnectEnds, Active
  <2> QED
    BY <1>1, <1>2, <1>23, <2>1 DEF ConnectEnds, Connection
<1>24. CASE PeerSends
  <2>1. Active' = Active
    BY <1>24 DEF PeerSends, Active
  <2> QED
    BY <1>1, <1>2, <1>24, <2>1 DEF PeerSends, Connection
<1>25. CASE PeerReads
  <2>1. Active' = Active
    BY <1>25 DEF PeerReads, Active
  <2> QED
    BY <1>1, <1>2, <1>25, <2>1 DEF PeerReads, Connection
<1>26. CASE PeerCloses
  <2>1. Active' = Active
    BY <1>26 DEF PeerCloses, Active
  <2> QED
    BY <1>1, <1>2, <1>26, <2>1 DEF PeerCloses, Connection
<1>27. CASE PeerResets
  <2>1. Active' = Active
    BY <1>27 DEF PeerResets, Active
  <2> QED
    BY <1>1, <1>2, <1>27, <2>1 DEF PeerResets, Connection
<1>28. CASE Fini
  BY <1>28 DEF Fini
<1> QED
  BY <1>1, <1>3, <1>4, <1>5, <1>6, <1>7, <1>8, <1>9, <1>10, <1>11, <1>12, <1>13,
     <1>14, <1>15, <1>16, <1>17, <1>18, <1>19, <1>20, <1>21, <1>22, <1>23, <1>24,
     <1>25, <1>26, <1>27, <1>28 DEF Next, Handler, EventLoop, Application, Network,
     Open

\* The queue without its first frame.
LEMMA QueueTail ==
  ASSUME TypeOK, queue # <<>>
  PROVE  /\ Head(queue) = queue[1] /\ 1 \in DOMAIN queue /\ DOMAIN queue = 1 .. Len(queue)
         /\ Tail(queue) \in Seq(Chained) /\ Len(Tail(queue)) = Len(queue) - 1
         /\ DOMAIN Tail(queue) = 1 .. Len(queue) - 1
         /\ \A i \in DOMAIN Tail(queue) :
              i + 1 \in DOMAIN queue /\ Tail(queue)[i] = queue[i + 1]
BY DEF TypeOK

\* The write loop is never under another function.
LEMMA LoopIsTop ==
  ASSUME TypeOK, Shape
  PROVE  /\ "write_loop" \in Active => Top = "write_loop"
         /\ \A at : Returns(at) => "write_loop" \notin Active'
         /\ \A at, S : Becomes(at, S) /\ "write_loop" \notin S =>
              "write_loop" \notin Active'
         /\ Sound /\ "write_loop" \notin Active' => Top' # "write_loop"
<1>1. "write_loop" \in Active => Top = "write_loop"
  <2>1. stack = <<>> => Active = {}
    <3>1. stack = <<>> => DOMAIN stack = {}
      OBVIOUS
    <3> QED
      BY <3>1 DEF Active
  <2>2. stack # <<>> => (Active = {Top} \cup Below /\ "write_loop" \notin Below)
    BY InnermostRuns DEF Innermost
  <2> QED
    BY <2>1, <2>2
<1> QED
  BY <1>1 DEF Returns, Becomes, Runs, Sound, Innermost


\* The write watcher, the flags of the writing and the loop that runs.
LEMMA OutgoingStep ==
  ASSUME Inv, phase = "open", phase' = "open", Next
  PROVE  Outgoing'
<1> USE DEF readVars, writeVars, connVars, netVars, readHist, writeHist
<1>1. phase = "open" /\ TypeOK /\ Shape /\ Reading /\ Outgoing
  BY DEF Inv
<1>2. /\ connecting \in BOOLEAN /\ failed \in BOOLEAN /\ writeReady \in BOOLEAN
      /\ writeOpen \in BOOLEAN /\ writeShutdown \in BOOLEAN /\ stopped \in BOOLEAN
      /\ writeWatch \in BOOLEAN /\ writeEvents \in SUBSET {"CONNECT", "WRITE"}
  BY <1>1 DEF TypeOK
<1>3. CASE \/ ReadStart \/ ReadStop \/ ReadPause \/ ReadResume \/ PeerSends
           \/ PeerReads
           \/ (\E b \in BOOLEAN : SetPartial(b))
           \/ (\E result \in {"ok", "refused"} : ConnectEnds(result))
  <2>1. /\ UNCHANGED <<failed, peer, shut, connecting, stopped, queue>>
        /\ UNCHANGED <<writeOpen, writeShutdown, writeReady, writeWatch, writeEvents>>
    BY <1>3 DEF ReadStart, ReadStop, ReadPause, ReadResume, SetPartial, ConnectEnds,
       PeerSends, PeerReads
  <2>2. Active' = Active /\ Top' = Top /\ stack' = stack
    BY <1>3 DEF ReadStart, ReadStop, ReadPause, ReadResume, SetPartial, ConnectEnds,
       PeerSends, PeerReads, Active, Top
  <2> QED
    BY <1>1, <2>1, <2>2 DEF Outgoing, Broken
<1>4. CASE PeerCloses
  <2>1. Active' = Active /\ Top' = Top /\ stack' = stack
    BY <1>4 DEF PeerCloses, Active, Top
  <2> QED
    BY <1>1, <1>4, <2>1 DEF PeerCloses, Outgoing, Broken
<1>5. CASE PeerResets
  <2>1. Active' = Active /\ Top' = Top /\ stack' = stack
    BY <1>5 DEF PeerResets, Active, Top
  <2> QED
    BY <1>1, <1>5, <2>1 DEF PeerResets, Outgoing, Broken
<1>6. CASE \/ ReadNoFrame \/ RecvAgain \/ ReadLoopsDone \/ SubmitEosNoFrame
           \/ EosReturns \/ ConnectedReturns
           \/ (\E up \in BOOLEAN : PartialReturns(up))
  <2>1. /\ UNCHANGED <<failed, peer, shut, connecting, stopped, queue>>
        /\ UNCHANGED <<writeOpen, writeShutdown, writeReady, writeWatch, writeEvents>>
    BY <1>6 DEF ReadNoFrame, RecvAgain, ReadLoopsDone, SubmitEosNoFrame, EosReturns,
       PartialReturns, ConnectedReturns
  <2>2. Active' \cap {"error", "write_loop", "write_event"} =
          Active \cap {"error", "write_loop", "write_event"}
    BY <1>1, <1>6, OthersStay, HandlerSteps
  <2>3. "write_loop" \notin Active' /\ Top' # "write_loop"
    BY <1>1, <1>6, LoopIsTop, HandlerSteps DEF Returns, Becomes
  <2> QED
    BY <1>1, <2>1, <2>2, <2>3 DEF Outgoing, Broken
<1>7. CASE \/ RecvEof \/ LastReturns \/ SubmitEos \/ ShutdownRead
           \/ (\E up \in BOOLEAN : FullReturns(up))
  <2>1. /\ UNCHANGED <<failed, peer, shut, connecting, stopped, queue>>
        /\ UNCHANGED <<writeOpen, writeShutdown, writeReady, writeWatch, writeEvents>>
    BY <1>7 DEF RecvEof, LastReturns, SubmitEos, ShutdownRead, FullReturns
  <2>2. Active' \cap {"error", "write_loop", "write_event"} =
          Active \cap {"error", "write_loop", "write_event"}
    BY <1>1, <1>7, OthersStay, HandlerSteps
  <2>3. "write_loop" \notin Active' /\ Top' # "write_loop"
    BY <1>1, <1>7, LoopIsTop, HandlerSteps DEF Returns, Becomes
  <2> QED
    BY <1>1, <2>1, <2>2, <2>3 DEF Outgoing, Broken
<1>8. ASSUME NEW k \in 1 .. VecSize, RecvData(k)
      PROVE  Outgoing'
  <2>1. /\ UNCHANGED <<failed, peer, shut, connecting, stopped, queue>>
        /\ UNCHANGED <<writeOpen, writeShutdown, writeReady, writeWatch, writeEvents>>
    BY <1>1, <1>8, RecvDataSteps
  <2>2. Active' \cap {"error", "write_loop", "write_event"} =
          Active \cap {"error", "write_loop", "write_event"}
    BY <1>1, <1>8, OthersStay, RecvDataSteps
  <2>3. "write_loop" \notin Active' /\ Top' # "write_loop"
    BY <1>1, <1>8, LoopIsTop, RecvDataSteps DEF Returns, Becomes
  <2> QED
    BY <1>1, <2>1, <2>2, <2>3 DEF Outgoing, Broken
<1>9. CASE RecvError
  <2>1. Becomes("read_loop", {"error", "shutdown_read"})
    BY <1>1, <1>9, HandlerSteps
  <2>2. "write_loop" \notin Active' /\ Top' # "write_loop"
    BY <1>1, <2>1, LoopIsTop DEF Becomes
  <2> QED
    BY <1>1, <1>9, <2>1, <2>2 DEF RecvError, Error, Outgoing, Broken, Becomes
<1>10. CASE ErrorReturns
  <2>1. Returns("error")
    BY <1>1, <1>10, HandlerSteps
  <2>2. "write_loop" \notin Active' /\ Top' # "write_loop" /\ failed
    BY <1>1, <2>1, LoopIsTop DEF Reading, Returns, Runs
  <2> QED
    BY <1>1, <1>10, <2>1, <2>2 DEF ErrorReturns, Outgoing, Broken
<1>11. CASE WriteLoopDone
  <2>1. Returns("write_loop")
    BY <1>1, <1>11, HandlerSteps
  <2>2. /\ Top = "write_loop" /\ "write_loop" \notin Active' /\ Top' # "write_loop"
        /\ "error" \in Active' <=> "error" \in Active
    BY <1>1, <2>1, LoopIsTop, OthersStay DEF Returns, Runs
  <2> QED
    BY <1>1, <1>2, <1>11, <2>1, <2>2 DEF WriteLoopDone, Outgoing, Broken
<1>12. CASE WriteLoopsExceeded
  <2>1. Returns("write_loop")
    BY <1>1, <1>12, HandlerSteps
  <2>2. /\ Top = "write_loop" /\ "write_loop" \notin Active' /\ Top' # "write_loop"
        /\ "error" \in Active' <=> "error" \in Active
    BY <1>1, <2>1, LoopIsTop, OthersStay DEF Returns, Runs
  <2>3. ~failed
    BY <1>1, <2>2, LoopsAssumption, <1>12 DEF WriteLoopsExceeded, Writing, Outgoing
  <2> QED
    BY <1>1, <1>2, <1>12, <2>1, <2>2, <2>3 DEF WriteLoopsExceeded, WriteLater,
       WriteSetEvent, Outgoing, Broken
<1>13. CASE SendAgain
  <2>1. Returns("write_loop")
    BY <1>1, <1>13, HandlerSteps
  <2>2. /\ Top = "write_loop" /\ "write_loop" \notin Active' /\ Top' # "write_loop"
        /\ "error" \in Active' <=> "error" \in Active
    BY <1>1, <2>1, LoopIsTop, OthersStay DEF Returns, Runs
  <2>3. ~failed
    BY <1>1, <2>2, LoopsAssumption, <1>13 DEF SendAgain, Writing, Outgoing
  <2> QED
    BY <1>1, <1>2, <1>13, <2>1, <2>2, <2>3 DEF SendAgain, WriteLater, WriteSetEvent,
       Outgoing, Broken
<1>14. CASE WriteEos
  <2>1. Returns("write_loop")
    BY <1>1, <1>14, HandlerSteps
  <2>2. /\ "write_loop" \notin Active' /\ Top' # "write_loop"
        /\ "error" \in Active' <=> "error" \in Active
    BY <1>1, <2>1, LoopIsTop, OthersStay DEF Returns, Runs
  <2>3. \A i \in DOMAIN queue' : queue'[i].eos => ~writeOpen'
    BY <1>1, QueueTail, <1>14 DEF WriteEos, Writing, Outgoing
  <2>4. /\ UNCHANGED <<failed, writeOpen, peer>> /\ writeShutdown' /\ shut \subseteq shut'
        /\ writeWatch' => writeWatch
    BY <1>2, <1>14 DEF WriteEos, WriteUnsetEvent
  <2> QED
    BY <1>1, <2>1, <2>2, <2>3, <2>4 DEF Outgoing, Broken
<1>15. CASE SendError
  <2>1. Becomes("write_loop", {"error"})
    BY <1>1, <1>15, HandlerSteps
  <2>2. "error" \in Active' /\ "write_loop" \notin Active' /\ Top' # "write_loop"
    BY <1>1, <2>1, LoopIsTop DEF Becomes
  <2> QED
    BY <1>1, <1>15, <2>1, <2>2 DEF SendError, Error, Writing, Outgoing, Broken
<1>16. ASSUME NEW k \in 1 .. VecSize, SendData(k)
       PROVE  Outgoing'
  <2>1. Returns("write_loop") \/ Becomes("write_loop", {"write_loop"})
    BY <1>1, <1>16, HandlerSteps
  <2>2. /\ ~failed' /\ UNCHANGED <<writeOpen, writeShutdown, stopped, connecting>>
        /\ queue # <<>>
    BY <1>1, <1>16 DEF SendData, Writing, Outgoing
  <2>3. \A i \in DOMAIN queue' : queue'[i].eos => ~writeOpen'
    <3>1. \/ queue' = Tail(queue)
          \/ queue' = [queue EXCEPT ![1].left = @ - k]
          \/ queue' = [queue EXCEPT ![1].left = VecSize, ![1].vecs = @ - 1]
      BY <1>16 DEF SendData, DropHead
    <3>2. queue' = Tail(queue) \/ (DOMAIN queue' = DOMAIN queue
                                    /\ \A i \in DOMAIN queue : queue'[i].eos = queue[i].eos)
      BY <1>1, <2>2, <3>1, ItemTyped DEF Chained, TypeOK
    <3> QED
      BY <1>1, <2>2, <3>2, QueueTail DEF Outgoing
  <2>4. CASE WriteLater
    <3>1. Running("write_loop") /\ Return
      BY <2>4, <1>16 DEF SendData, Writing, WriteLater
    <3>2. "write_loop" \notin Active'
      BY <1>1, <3>1, NamesAre, ReturnReturns, LoopIsTop
    <3> QED
      BY <2>2, <2>3, <2>4, <3>2 DEF WriteLater, WriteSetEvent, Outgoing
  <2>5. CASE ~WriteLater
    <3>1. /\ Become(<<Act("write_loop", stack[1].n + 1, NoFrame)>>)
          /\ UNCHANGED writeReady
      BY <2>5, <1>16 DEF SendData
    <3>2. stack[1] \in Activation /\ "write_loop" \in Active
      BY <2>1 DEF Returns, Becomes, Runs
    <3>3. "write_loop" \in Active'
      <4>1. stack[1].n + 1 \in Int /\ Running("write_loop")
        BY <3>2, <1>16, ActivationTyped DEF SendData, Writing
      <4> QED
        BY <1>1, <3>1, <4>1, BecomeBecomes, NamesAre DEF Becomes, Outermost
    <3> QED
      BY <1>1, <2>2, <2>3, <3>1, <3>2, <3>3 DEF Outgoing
  <2> QED
    BY <2>1, <2>2, <2>3, <2>4, <2>5
<1>17. CASE WriteEvent
  <2>1. "error" \in Active' <=> "error" \in Active
    BY <1>1, <1>17, OthersStay, HandlerSteps
  <2>2. IF queue # <<>> THEN "write_loop" \in Active' /\ stack'[1].n = 0
        ELSE Top' # "write_loop"
    BY <1>1, <1>17, LoopIsTop, HandlerSteps DEF Returns, Becomes
  <2> QED
    BY <1>1, <1>2, <1>17, <2>1, <2>2 DEF WriteEvent, WriteUnsetEvent, Outgoing,
       Broken
<1>18. CASE WriteDone
  <2>1. Active' \cap {"error", "write_loop", "write_event"} =
          Active \cap {"error", "write_loop", "write_event"}
    BY <1>1, <1>18, OthersStay, HandlerSteps
  <2>2. "write_loop" \notin Active' /\ Top' # "write_loop"
    BY <1>1, <1>18, LoopIsTop, HandlerSteps DEF Returns, Becomes
  <2> QED
    BY <1>1, <1>2, <1>18, <2>1, <2>2 DEF WriteDone, WriteUnsetEvent, Outgoing,
       Broken
<1>19. CASE AbortWriting
  <2>1. Active' \cap {"error", "write_loop", "write_event"} =
          Active \cap {"error", "write_loop", "write_event"}
    BY <1>1, <1>19, OthersStay, HandlerSteps
  <2>2. "write_loop" \notin Active' /\ Top' # "write_loop"
    BY <1>1, <1>19, LoopIsTop, HandlerSteps DEF Returns, Becomes
  <2> QED
    BY <1>1, <1>2, <1>19, <2>1, <2>2 DEF AbortWriting, WriteUnsetEvent, Outgoing,
       Broken
<1>20. CASE OnWriteQueue
  <2>1. /\ UNCHANGED <<failed, peer, shut, connecting, stopped, queue>>
        /\ UNCHANGED <<writeOpen, writeShutdown, writeReady, writeWatch, writeEvents>>
    BY <1>20 DEF OnWriteQueue
  <2>2. IF "WRITE" \in writeEvents THEN Becomes("on_write", {"write_event"})
        ELSE Returns("on_write")
    BY <1>1, <1>20, HandlerSteps
  <2>3. "write_loop" \notin Active' /\ Top' # "write_loop"
    BY <1>1, <2>2, LoopIsTop DEF Returns, Becomes
  <2>4. ("error" \in Active' <=> "error" \in Active)
        /\ ("write_event" \in Active => "write_event" \in Active')
    BY <1>1, <2>2 DEF Returns, Becomes, Runs
  <2>5. "write_loop" \notin Active
    BY <1>1, <2>2, LoopIsTop DEF Returns, Becomes, Runs
  <2> QED
    BY <1>1, <2>1, <2>2, <2>3, <2>4, <2>5 DEF Outgoing, Broken
<1>21. CASE OnRead
  <2>1. /\ UNCHANGED <<failed, peer, shut, connecting, stopped, queue>>
        /\ UNCHANGED <<writeOpen, writeShutdown, writeReady, writeWatch, writeEvents>>
    BY <1>21 DEF OnRead
  <2>2. Active = {} /\ Active' \subseteq {"read_loop"} /\ Top' # "write_loop"
    BY <1>1, <1>21, ActiveAdds, CallSteps DEF Stays, Calls, Sound
  <2> QED
    BY <1>1, <2>1, <2>2 DEF Outgoing, Broken
<1>22. CASE OnWrite
  <2>1. /\ UNCHANGED <<failed, peer, shut, connecting, stopped, queue>>
        /\ UNCHANGED <<writeOpen, writeShutdown, writeReady, writeWatch, writeEvents>>
    BY <1>22 DEF OnWrite
  <2>2. Active = {} /\ Active' = {"on_write"} /\ Top' # "write_loop"
    BY <1>1, <1>22, CallSteps DEF Calls, Sound
  <2> QED
    BY <1>1, <2>1, <2>2 DEF Outgoing, Broken
<1>23. CASE Refused
  <2>1. Active' = {"error", "on_write"} /\ Top' # "write_loop"
    BY <1>1, <1>23, CallSteps DEF Calls, Sound
  <2> QED
    BY <1>1, <1>23, <2>1 DEF Refused, Error, Outgoing, Broken
<1>24. CASE Connected
  <2>1. /\ Active = {} /\ Active' = {"connected", "write_event", "on_write"}
        /\ Top' # "write_loop"
    BY <1>1, <1>24, CallSteps DEF Calls, Sound
  <2> QED
    BY <1>1, <1>2, <1>24, <2>1 DEF Connected, ConnectionUp, StartBoth, OnWriteEvent,
       Outgoing, Broken
<1>25. CASE Abort
  <2>1. /\ UNCHANGED <<failed, peer, shut, connecting, stopped, queue>>
        /\ UNCHANGED <<writeOpen, writeShutdown, writeReady, writeWatch, writeEvents>>
    BY <1>25 DEF Abort
  <2>2. Calls({"shutdown_read", "abort"})
    BY <1>1, <1>25, CallSteps
  <2>3. "write_loop" \notin Active
    BY <1>1, <1>25, LoopIsTop, AppIsCallback DEF Abort, AppMayShutdown, Innermost
  <2>4. Active' = {"shutdown_read", "abort"} \cup Active /\ Top' # "write_loop"
    BY <2>2, <2>3 DEF Calls, Sound
  <2> QED
    BY <1>1, <2>1, <2>2, <2>3, <2>4 DEF Outgoing, Broken
<1>26. ASSUME NEW kind \in {"data", "eos"}, Write(kind)
       PROVE  Outgoing'
  <2>1. /\ ~failed' /\ writeOpen
        /\ UNCHANGED <<connecting, stopped, writeReady, writeShutdown>>
    BY <1>1, <1>26 DEF Write, Outgoing
  <2>2. \A i \in DOMAIN queue' : queue'[i].eos => ~writeOpen'
    <3> DEFINE item == Item(Len(accepted) + 1, kind)
    <3>1. item.eos => ~writeOpen'
      BY <1>26 DEF Write, Item
    <3>2. queue' \in {<<item>>, Append(queue, item), queue}
      BY <1>26 DEF Write, Chain
    <3>3. \A i \in DOMAIN queue : ~queue[i].eos
      BY <1>1, <2>1 DEF Outgoing
    <3>4. queue \in Seq(Chained) /\ \A i \in DOMAIN queue : queue[i] \in Chained
      BY <1>1, ItemTyped DEF TypeOK
    <3> HIDE DEF item
    <3> QED
      BY <3>1, <3>2, <3>3, <3>4
  <2>3. IF writeReady THEN "write_loop" \in Active' ELSE Active' = Active /\ Top' = Top
    BY <1>1, <1>26, CallSteps DEF Calls, Stays, Top
  <2>4. IF writeReady \/ connecting THEN UNCHANGED <<writeEvents, writeWatch>>
        ELSE WriteSetEvent({"WRITE"})
    BY <1>1, <1>2, <1>26 DEF Write
  <2> QED
    BY <1>1, <1>2, <2>1, <2>2, <2>3, <2>4 DEF WriteSetEvent, Outgoing
<1>27. CASE WriteStart
  <2>1. Active' = Active /\ Top' = Top /\ stack' = stack
    BY <1>27 DEF WriteStart, Active, Top
  <2> QED
    BY <1>1, <1>2, <1>27, <2>1 DEF WriteStart, WriteSetEvent, Outgoing, Broken
<1>28. CASE WriteStop
  <2>1. Active' = Active /\ Top' = Top /\ stack' = stack
    BY <1>28 DEF WriteStop, Active, Top
  <2> QED
    BY <1>1, <1>2, <1>28, <2>1 DEF WriteStop, WriteUnsetEvent, Outgoing, Broken
<1>29. CASE Fini
  BY <1>29 DEF Fini
<1> QED
  BY <1>1, <1>3, <1>4, <1>5, <1>6, <1>7, <1>8, <1>9, <1>10, <1>11, <1>12, <1>13,
     <1>14, <1>15, <1>16, <1>17, <1>18, <1>19, <1>20, <1>21, <1>22, <1>23, <1>24,
     <1>25, <1>26, <1>27, <1>28, <1>29 DEF Next, Handler, EventLoop, Application,
     Network, Open

-----------------------------------------------------------------------------
\* "v" is "w" and k more bytes of frame x.
Extends(v, w, k, x) ==
  /\ v \in Seq(Nat) /\ Len(v) = Len(w) + k
  /\ \A b \in DOMAIN w : v[b] = w[b]
  /\ \A b \in (Len(w) + 1) .. (Len(w) + k) : v[b] = x

\* How many bytes of a frame are at the kernel.
LEMMA CountTyped ==
  ASSUME NEW w \in Seq(Nat), NEW n
  PROVE  /\ IsFiniteSet({b \in DOMAIN w : w[b] = n}) /\ Count(w, n) \in Nat
         /\ (\A b \in DOMAIN w : w[b] # n) => Count(w, n) = 0
<1>1. DOMAIN w = 1 .. Len(w) /\ Len(w) \in Nat
  OBVIOUS
<1>2. IsFiniteSet(1 .. Len(w))
  BY <1>1, FS_Interval
<1>3. IsFiniteSet({b \in DOMAIN w : w[b] = n})
  BY <1>1, <1>2, FS_Subset
<1>4. ASSUME \A b \in DOMAIN w : w[b] # n
      PROVE  {b \in DOMAIN w : w[b] = n} = {}
  BY <1>4
<1> QED
  BY <1>3, <1>4, FS_CardinalityType, FS_EmptySet DEF Count

\* Only the count of the frame that is being sent changes.
LEMMA CountExtends ==
  ASSUME NEW w \in Seq(Nat), NEW k \in Nat, NEW x, NEW v, Extends(v, w, k, x)
  PROVE  /\ Count(v, x) = Count(w, x) + k
         /\ \A n : n # x => Count(v, n) = Count(w, n)
<1> DEFINE Of(u, n) == {b \in DOMAIN u : u[b] = n}
           new == (Len(w) + 1) .. (Len(w) + k)
<1>1. /\ Len(w) \in Nat /\ DOMAIN w = 1 .. Len(w) /\ DOMAIN v = 1 .. (Len(w) + k)
      /\ DOMAIN v = DOMAIN w \cup new /\ DOMAIN w \cap new = {}
  BY DEF Extends
<1>2. IsFiniteSet(new) /\ Cardinality(new) = k
  BY <1>1, FS_Interval
<1>3. /\ \A b \in DOMAIN w : v[b] = w[b]
      /\ \A b \in new : v[b] = x
  BY DEF Extends
<1> HIDE DEF new
<1>4. Of(v, x) = Of(w, x) \cup new /\ Of(w, x) \cap new = {}
  BY <1>1, <1>3
<1>5. \A n : n # x => Of(v, n) = Of(w, n)
  BY <1>1, <1>3
<1>6. IsFiniteSet(Of(w, x)) /\ Count(w, x) \in Nat /\ Count(w, x) = Cardinality(Of(w, x))
  BY CountTyped DEF Count
<1>7. Count(v, x) = Cardinality(Of(w, x) \cup new)
  BY <1>4 DEF Count
<1>8. \A n : n # x => Count(v, n) = Count(w, n)
  BY <1>5 DEF Count
<1> HIDE DEF Of
<1>9. Cardinality(Of(w, x) \cup new) = Cardinality(Of(w, x)) + k - 0
  <2>1. Cardinality(Of(w, x) \cup new) =
          Cardinality(Of(w, x)) + Cardinality(new) - Cardinality(Of(w, x) \cap new)
    BY <1>2, <1>6, FS_Union
  <2>2. Cardinality(Of(w, x) \cap new) = 0
    BY <1>4, FS_EmptySet
  <2> QED
    BY <1>2, <2>1, <2>2
<1>10. Count(v, x) = Count(w, x) + k
  BY <1>6, <1>7, <1>9
<1> QED
  BY <1>8, <1>10

\* What a frame is of, and has left, is a number.
LEMMA SizesTyped ==
  ASSUME NEW acc, NEW n, NEW q \in Chained
  PROVE  SizeIn(acc, n) \in Nat /\ Left(q) \in Int
<1>1. VecSize \in Nat /\ MoreVecs \in Nat /\ q.left \in Int /\ q.vecs \in Nat
  BY SizesAssumption DEF Chained
<1>2. \A a, b \in Nat, c \in Int : a * (b + 1) \in Nat /\ c + a * b \in Int
  OBVIOUS
<1> QED
  BY <1>1, <1>2 DEF SizeIn, Left

\* More bytes of the first frame of the queue keep the order of the bytes.
LEMMA BytesInOrder ==
  ASSUME NEW acc \in Seq({"data", "eos"}), NEW q \in Seq(Chained), NEW w \in Seq(Nat),
         Ordered(acc, q, w), q # <<>>, NEW k \in Nat, NEW v,
         Extends(v, w, k, q[1].id)
  PROVE  /\ \A a, b \in DOMAIN v : a <= b => v[a] <= v[b]
         /\ \A b \in DOMAIN v : v[b] \in DOMAIN acc /\ v[b] <= q[1].id
<1>1. /\ Len(w) \in Nat /\ DOMAIN w = 1 .. Len(w) /\ DOMAIN v = 1 .. (Len(w) + k)
      /\ 1 \in DOMAIN q /\ q[1] \in Chained
  BY DEF Extends
<1>2. q[1].id \in Nat /\ q[1].id \in DOMAIN acc
  BY <1>1 DEF Ordered, Chained
<1>3. ASSUME NEW b \in DOMAIN v
      PROVE  \/ b \in DOMAIN w /\ v[b] = w[b] /\ v[b] \in Nat
             \/ b > Len(w) /\ v[b] = q[1].id
  BY <1>1 DEF Extends
<1>4. ASSUME NEW b \in DOMAIN v
      PROVE  v[b] \in DOMAIN acc /\ v[b] <= q[1].id
  <2>1. q[1].id <= q[1].id
    BY <1>2
  <2> QED
    BY <1>2, <1>3, <2>1 DEF Ordered
<1>5. ASSUME NEW a \in DOMAIN v, NEW b \in DOMAIN v, a <= b
      PROVE  v[a] <= v[b]
  <2>1. CASE b \in DOMAIN w
    <3>1. a \in DOMAIN w
      BY <1>1, <1>5, <2>1
    <3> QED
      BY <1>5, <2>1, <3>1 DEF Extends, Ordered
  <2>2. CASE b \notin DOMAIN w
    BY <1>3, <1>4, <2>2
  <2> QED
    BY <2>1, <2>2
<1> QED
  BY <1>4, <1>5

\* A part of the first frame of the queue is sent.
LEMMA PartSent ==
  ASSUME NEW acc \in Seq({"data", "eos"}), NEW q \in Seq(Chained), NEW w \in Seq(Nat),
         Ordered(acc, q, w), q # <<>>, NEW k \in Nat, NEW v,
         Extends(v, w, k, q[1].id),
         NEW x \in Chained, x.id = q[1].id, Left(x) = Left(q[1]) - k
  PROVE  Ordered(acc, [q EXCEPT ![1] = x], v)
<1> DEFINE p == [q EXCEPT ![1] = x]
<1>1. /\ 1 \in DOMAIN q /\ DOMAIN p = DOMAIN q /\ p # <<>> /\ Len(p) = Len(q)
      /\ p[1] = x /\ \A i \in DOMAIN q : i # 1 => p[i] = q[i]
      /\ \A i \in DOMAIN q : q[i] \in Chained
  OBVIOUS
<1> HIDE DEF p
<1>2. \A i \in DOMAIN q : p[i].id = q[i].id
  BY <1>1
<1>3. /\ Count(v, q[1].id) = Count(w, q[1].id) + k
      /\ \A n : n # q[1].id => Count(v, n) = Count(w, n)
  BY CountExtends
<1>4. ASSUME NEW i \in DOMAIN p
      PROVE  Count(v, p[i].id) + Left(p[i]) = SizeIn(acc, p[i].id)
  <2>1. CASE i = 1
    <3>1. Count(w, q[1].id) \in Nat /\ Left(q[1]) \in Int
      BY <1>1, CountTyped, SizesTyped
    <3>2. \A a, c \in Nat, b \in Int : (a + c) + (b - c) = a + b
      OBVIOUS
    <3>3. (Count(w, q[1].id) + k) + (Left(q[1]) - k) = Count(w, q[1].id) + Left(q[1])
      BY <3>1, <3>2
    <3> QED
      BY <1>1, <1>3, <2>1, <3>3 DEF Ordered
  <2>2. CASE i # 1
    <3>1. q[i].id # q[1].id
      <4>1. q[i].id = Len(acc) - Len(q) + i /\ q[1].id = Len(acc) - Len(q) + 1
        BY <1>1 DEF Ordered
      <4> QED
        BY <1>1, <2>2, <4>1
    <3> QED
      BY <1>1, <1>3, <2>2, <3>1 DEF Ordered
  <2> QED
    BY <2>1, <2>2
<1>5. ASSUME NEW n \in DOMAIN acc, \A i \in DOMAIN p : p[i].id # n
      PROVE  Count(v, n) = SizeIn(acc, n)
  BY <1>1, <1>2, <1>3, <1>5 DEF Ordered
<1>6. ASSUME NEW i \in DOMAIN p
      PROVE  /\ p[i].id = Len(acc) - Len(p) + i /\ p[i].id \in DOMAIN acc
             /\ i > 1 => Left(p[i]) = SizeIn(acc, p[i].id)
  <2>1. /\ q[i].id = Len(acc) - Len(q) + i /\ q[i].id \in DOMAIN acc
        /\ i > 1 => Left(q[i]) = SizeIn(acc, q[i].id)
    BY <1>1 DEF Ordered
  <2>2. i > 1 => i # 1
    BY <1>1
  <2> QED
    BY <1>1, <1>2, <2>1, <2>2
<1>7. /\ \A a, b \in DOMAIN v : a <= b => v[a] <= v[b]
      /\ \A b \in DOMAIN v : v[b] \in DOMAIN acc /\ v[b] <= p[1].id
  BY <1>1, BytesInOrder
<1> QED
  BY <1>4, <1>5, <1>6, <1>7 DEF Ordered, p

\* The rest of the first frame is sent, and the frame leaves the queue.
LEMMA FrameSent ==
  ASSUME NEW acc \in Seq({"data", "eos"}), NEW q \in Seq(Chained), NEW w \in Seq(Nat),
         Ordered(acc, q, w), q # <<>>, NEW k \in Nat, NEW v,
         Extends(v, w, k, q[1].id), Left(q[1]) = k
  PROVE  Ordered(acc, Tail(q), v)
<1> DEFINE p == Tail(q)
<1>1. /\ 1 \in DOMAIN q /\ Len(q) \in Nat /\ Len(p) = Len(q) - 1 /\ DOMAIN q = 1 .. Len(q)
      /\ DOMAIN p = 1 .. Len(q) - 1 /\ Len(acc) \in Nat
      /\ \A i \in DOMAIN p : i + 1 \in DOMAIN q /\ i + 1 > 1 /\ p[i] = q[i + 1]
      /\ p # <<>> => 1 \in DOMAIN p
      /\ \A i \in DOMAIN q : q[i] \in Chained
  OBVIOUS
<1> HIDE DEF p
<1>2. /\ Count(v, q[1].id) = Count(w, q[1].id) + k
      /\ \A n : n # q[1].id => Count(v, n) = Count(w, n)
  BY CountExtends
<1>3. ASSUME NEW i \in DOMAIN q
      PROVE  q[i].id = Len(acc) - Len(q) + i /\ q[i].id \in DOMAIN acc
  BY DEF Ordered
<1>4. ASSUME NEW i \in DOMAIN q, i > 1
      PROVE  /\ q[i].id > q[1].id /\ q[i].id # q[1].id
             /\ Left(q[i]) = SizeIn(acc, q[i].id)
             /\ Count(v, q[i].id) + Left(q[i]) = SizeIn(acc, q[i].id)
  <2>1. q[i].id = Len(acc) - Len(q) + i /\ q[1].id = Len(acc) - Len(q) + 1
    BY <1>1, <1>3
  <2>2. q[i].id > q[1].id /\ q[i].id # q[1].id
    BY <1>1, <1>4, <2>1
  <2> QED
    BY <1>2, <1>4, <2>2 DEF Ordered
<1>5. ASSUME NEW i \in DOMAIN p
      PROVE  /\ p[i].id = Len(acc) - Len(p) + i /\ p[i].id \in DOMAIN acc
             /\ Left(p[i]) = SizeIn(acc, p[i].id)
             /\ Count(v, p[i].id) + Left(p[i]) = SizeIn(acc, p[i].id)
  <2>1. i + 1 \in DOMAIN q /\ i + 1 > 1 /\ p[i] = q[i + 1]
    BY <1>1
  <2>2. p[i].id = Len(acc) - Len(q) + (i + 1) /\ p[i].id \in DOMAIN acc
    BY <1>3, <2>1
  <2>3. Len(acc) - Len(q) + (i + 1) = Len(acc) - Len(p) + i
    BY <1>1
  <2> QED
    BY <1>4, <2>1, <2>2, <2>3
<1>6. ASSUME NEW n \in DOMAIN acc, \A i \in DOMAIN p : p[i].id # n
      PROVE  Count(v, n) = SizeIn(acc, n)
  <2>1. CASE n = q[1].id
    BY <1>1, <1>2, <2>1 DEF Ordered
  <2>2. CASE n # q[1].id
    <3>1. ASSUME NEW i \in DOMAIN q
          PROVE  q[i].id # n
      <4>1. CASE i = 1
        BY <2>2, <4>1
      <4>2. CASE i # 1
        <5>1. i - 1 \in DOMAIN p /\ p[i - 1] = q[i]
          <6>1. i - 1 \in DOMAIN p /\ (i - 1) + 1 = i
            BY <1>1, <4>2
          <6> QED
            BY <1>1, <6>1
        <5> QED
          BY <1>6, <5>1
      <4> QED
        BY <4>1, <4>2
    <3> QED
      BY <1>2, <2>2, <3>1 DEF Ordered
  <2> QED
    BY <2>1, <2>2
<1>7. /\ \A a, b \in DOMAIN v : a <= b => v[a] <= v[b]
      /\ \A b \in DOMAIN v : v[b] \in DOMAIN acc /\ v[b] <= q[1].id
  BY BytesInOrder
<1>8. ASSUME NEW b \in DOMAIN v, p # <<>>
      PROVE  v[b] <= p[1].id
  <2>1. 1 \in DOMAIN p /\ p[1] = q[1 + 1] /\ 1 + 1 \in DOMAIN q /\ 1 + 1 > 1
    BY <1>1, <1>8
  <2>2. p[1].id > q[1].id
    BY <1>4, <2>1
  <2>3. v[b] \in Nat /\ q[1].id \in Nat /\ p[1].id \in Nat
    <3>1. \A u \in Seq(Nat) : \A d \in DOMAIN u : u[d] \in Nat
      OBVIOUS
    <3>2. v[b] \in Nat
      BY <3>1 DEF Extends
    <3>3. q[1] \in Chained /\ p[1] \in Chained
      BY <1>1, <2>1
    <3> QED
      BY <3>2, <3>3 DEF Chained
  <2> QED
    BY <1>7, <2>2, <2>3
<1> QED
  BY <1>5, <1>6, <1>7, <1>8 DEF Ordered, p

\* A frame is accepted at the end of the queue.
LEMMA FrameAccepted ==
  ASSUME NEW acc \in Seq({"data", "eos"}), NEW q \in Seq(Chained), NEW w \in Seq(Nat),
         Ordered(acc, q, w), NEW kind \in {"data", "eos"}
  PROVE  Ordered(Append(acc, kind), Append(q, Item(Len(acc) + 1, kind)), w)
<1> DEFINE n  == Len(acc) + 1
           x  == Item(n, kind)
           c  == Append(acc, kind)
           p  == Append(q, x)
<1>1. x.id = n /\ Left(x) = SizeIn(c, n)
  <2>1. c[n] = kind
    OBVIOUS
  <2>2. VecSize \in Nat /\ MoreVecs \in Nat
    BY SizesAssumption
  <2>3. VecSize + VecSize * MoreVecs = VecSize * (MoreVecs + 1)
    BY <2>2
  <2> QED
    BY <2>1, <2>3 DEF Item, Left, SizeIn
<1>2. /\ Len(acc) \in Nat /\ Len(c) = n /\ DOMAIN c = DOMAIN acc \cup {n}
      /\ n \notin DOMAIN acc /\ \A m \in DOMAIN acc : c[m] = acc[m]
      /\ DOMAIN acc = 1 .. Len(acc)
  OBVIOUS
<1>3. /\ Len(q) \in Nat /\ Len(p) = Len(q) + 1 /\ DOMAIN p = DOMAIN q \cup {Len(q) + 1}
      /\ p[Len(q) + 1] = x /\ \A i \in DOMAIN q : p[i] = q[i]
      /\ DOMAIN q = 1 .. Len(q)
      /\ p # <<>> /\ (q # <<>> => 1 \in DOMAIN q) /\ (q = <<>> => p[1] = x)
      /\ \A i \in DOMAIN q : q[i] \in Chained
  OBVIOUS
<1> HIDE DEF x, c, p
<1>4. \A m \in DOMAIN acc : SizeIn(c, m) = SizeIn(acc, m)
  BY <1>2 DEF SizeIn
<1>5. Count(w, n) = 0
  <2>1. \A b \in DOMAIN w : w[b] # n
    BY <1>2 DEF Ordered
  <2> HIDE DEF n
  <2> QED
    BY <2>1, CountTyped
<1>6. ASSUME NEW i \in DOMAIN p
      PROVE  /\ p[i].id = Len(c) - Len(p) + i /\ p[i].id \in DOMAIN c
             /\ i > 1 => Left(p[i]) = SizeIn(c, p[i].id)
             /\ Count(w, p[i].id) + Left(p[i]) = SizeIn(c, p[i].id)
  <2>1. CASE i \in DOMAIN q
    <3>1. /\ q[i].id = Len(acc) - Len(q) + i /\ q[i].id \in DOMAIN acc
          /\ i > 1 => Left(q[i]) = SizeIn(acc, q[i].id)
          /\ Count(w, q[i].id) + Left(q[i]) = SizeIn(acc, q[i].id)
      BY <2>1 DEF Ordered
    <3>2. Len(acc) - Len(q) + i = Len(c) - Len(p) + i
      BY <1>2, <1>3, <2>1
    <3> QED
      BY <1>2, <1>3, <1>4, <2>1, <3>1, <3>2
  <2>2. CASE i = Len(q) + 1
    <3>1. n = Len(c) - Len(p) + i
      BY <1>2, <1>3, <2>2
    <3>2. 0 + SizeIn(c, n) = SizeIn(c, n)
      BY <1>3, SizesAssumption DEF SizeIn
    <3> QED
      BY <1>1, <1>2, <1>3, <1>5, <2>2, <3>1, <3>2
  <2> QED
    BY <1>3, <2>1, <2>2
<1>7. ASSUME NEW m \in DOMAIN c, \A i \in DOMAIN p : p[i].id # m
      PROVE  Count(w, m) = SizeIn(c, m)
  <2>1. m # n
    BY <1>1, <1>3, <1>7
  <2>2. m \in DOMAIN acc
    BY <1>2, <2>1
  <2>3. \A i \in DOMAIN q : q[i].id # m
    BY <1>3, <1>7
  <2> QED
    BY <1>4, <2>2, <2>3 DEF Ordered
<1>8. ASSUME NEW b \in DOMAIN w
      PROVE  w[b] \in DOMAIN c /\ w[b] <= p[1].id
  <2>1. w[b] \in DOMAIN acc /\ (q # <<>> => w[b] <= q[1].id)
    BY DEF Ordered
  <2>2. w[b] <= n
    BY <1>2, <2>1
  <2> QED
    BY <1>1, <1>2, <1>3, <2>1, <2>2
<1>9. \A a, b \in DOMAIN w : a <= b => w[a] <= w[b]
  BY DEF Ordered
<1> QED
  BY <1>3, <1>6, <1>7, <1>8, <1>9 DEF Ordered, c, p, x
-----------------------------------------------------------------------------
\* The queue and the wire: a step accepts a frame, sends of the first one, or
\* leaves both alone.
LEMMA OrderStep ==
  ASSUME Inv, phase = "open", phase' = "open", Next
  PROVE  Order'
<1> USE DEF readVars, writeVars, connVars, netVars, readHist, writeHist
<1>1. phase = "open" /\ TypeOK /\ Outgoing /\ Order
  BY DEF Inv
<1>2. /\ accepted \in Seq({"data", "eos"}) /\ queue \in Seq(Chained) /\ wire \in Seq(Nat)
      /\ Ordered(accepted, queue, wire)
      /\ \A a, q, w : a = accepted' /\ q = queue' /\ w = wire' /\ Ordered(a, q, w)
           => Ordered(accepted, queue, wire)'
  BY <1>1 DEF TypeOK, Order
<1>3. CASE \/ ReadNoFrame \/ RecvAgain \/ RecvEof \/ RecvError \/ ReadLoopsDone
           \/ ShutdownRead \/ LastReturns \/ SubmitEos \/ SubmitEosNoFrame
           \/ EosReturns \/ ErrorReturns
           \/ (\E k \in 1 .. VecSize : RecvData(k))
           \/ (\E up \in BOOLEAN : PartialReturns(up))
           \/ (\E up \in BOOLEAN : FullReturns(up))
  <2>1. UNCHANGED <<accepted, queue, wire, tail>> /\ (~writeOpen' \/ UNCHANGED writeOpen)
    BY <1>3 DEF ReadNoFrame, RecvAgain, RecvEof, RecvError, RecvData,
       PartialReturns, FullReturns, ReadLoopsDone, ShutdownRead, LastReturns,
       SubmitEos, SubmitEosNoFrame, EosReturns, ErrorReturns, Error
  <2> QED
    BY <1>1, <2>1 DEF Order
<1>4. CASE \/ WriteLoopDone \/ WriteLoopsExceeded \/ SendAgain \/ SendError
           \/ WriteEvent \/ WriteDone \/ ConnectedReturns \/ OnWriteQueue
           \/ AbortWriting \/ OnRead \/ OnWrite \/ Refused \/ Connected
  <2>1. UNCHANGED <<accepted, queue, wire, tail>> /\ (~writeOpen' \/ UNCHANGED writeOpen)
    BY <1>4 DEF WriteLoopDone, WriteLoopsExceeded, SendAgain, SendError, WriteEvent,
       WriteDone, ConnectedReturns, OnWriteQueue, AbortWriting, OnRead, OnWrite,
       Refused, Connected, Error
  <2> QED
    BY <1>1, <2>1 DEF Order
<1>5. CASE \/ ReadStart \/ ReadStop \/ ReadPause \/ ReadResume \/ WriteStart
           \/ WriteStop \/ Abort \/ PeerSends \/ PeerReads \/ PeerCloses
           \/ PeerResets
           \/ (\E b \in BOOLEAN : SetPartial(b))
           \/ (\E result \in {"ok", "refused"} : ConnectEnds(result))
  <2>1. UNCHANGED <<accepted, queue, wire, tail>> /\ (~writeOpen' \/ UNCHANGED writeOpen)
    BY <1>5 DEF ReadStart, ReadStop, ReadPause, ReadResume, WriteStart, WriteStop,
       Abort, SetPartial, ConnectEnds, PeerSends, PeerReads, PeerCloses, PeerResets
  <2> QED
    BY <1>1, <2>1 DEF Order
<1>6. CASE WriteEos
  <2>1. /\ queue # <<>> /\ queue[1] \in Chained /\ queue[1].eos
        /\ queue' = Tail(queue) /\ wire' = Append(wire, queue[1].id)
        /\ UNCHANGED <<accepted, tail, writeOpen>> /\ 1 \in DOMAIN queue
    BY <1>1, ItemTyped, <1>6 DEF WriteEos, Writing
  <2>2. queue[1].id \in Nat
    BY <2>1 DEF Chained
  <2>3. Extends(wire', wire, 1, queue[1].id)
    BY <1>2, <2>1, <2>2 DEF Extends
  <2>4. Ordered(accepted', queue', wire')
    BY <1>2, <2>1, <2>3, FrameSent DEF Left
  <2>5. ~writeOpen'
    BY <1>1, <2>1 DEF Outgoing
  <2> QED
    BY <1>1, <1>2, <2>1, <2>2, <2>3, <2>4, <2>5 DEF Order
<1>7. ASSUME NEW k \in 1 .. VecSize, SendData(k)
       PROVE  Order'
  <2> DEFINE h == queue[1]
  <2>1. /\ queue # <<>> /\ h \in Chained /\ 1 \in DOMAIN queue /\ h = Head(queue)
        /\ ~h.eos
    BY <1>1, ItemTyped, <1>7 DEF SendData, Writing
  <2>2. /\ VecSize \in Nat /\ k \in Nat
        /\ h.id \in Nat /\ h.left \in Int /\ h.vecs \in Nat
    <3>1. VecSize \in Nat
      BY SizesAssumption
    <3> QED
      BY <2>1, <3>1 DEF Chained
  <2>3. Extends(wire', wire, k, h.id)
    <3>1. wire' = wire \o [b \in 1 .. k |-> h.id]
      BY <2>1, <1>7 DEF SendData
    <3>2. [b \in 1 .. k |-> h.id] \in Seq(Nat) /\ Len([b \in 1 .. k |-> h.id]) = k
      BY <2>2
    <3> QED
      BY <1>2, <2>2, <3>1, <3>2 DEF Extends
  <2>4. Left(h) = h.left + VecSize * h.vecs
    BY <2>1 DEF Left
  <2>5. /\ UNCHANGED <<accepted, writeOpen>>
        /\ \/ /\ queue' = [queue EXCEPT ![1] = [h EXCEPT !.left = h.left - k]]
              /\ UNCHANGED tail
           \/ /\ k = h.left /\ h.vecs > 0 /\ UNCHANGED tail
              /\ queue' = [queue EXCEPT ![1] =
                             [h EXCEPT !.left = VecSize, !.vecs = h.vecs - 1]]
           \/ k = h.left /\ ~(h.vecs > 0) /\ DropHead
    BY <1>2, <2>1, <1>7 DEF SendData
  <2>6. CASE queue' = [queue EXCEPT ![1] = [h EXCEPT !.left = h.left - k]] /\ UNCHANGED tail
    <3> DEFINE x == [h EXCEPT !.left = h.left - k]
    <3>1. x \in Chained /\ x.id = h.id /\ x.left = h.left - k /\ x.vecs = h.vecs /\ ~x.eos
      BY <2>1, <2>2 DEF Chained
    <3>2. Left(x) = Left(h) - k
      <4>1. VecSize * h.vecs \in Int
        BY <2>2
      <4>2. (h.left - k) + VecSize * h.vecs = (h.left + VecSize * h.vecs) - k
        BY <2>2, <4>1
      <4> QED
        BY <2>4, <3>1, <4>2 DEF Left
    <3> HIDE DEF x
    <3>3. Ordered(accepted, [queue EXCEPT ![1] = x], wire')
      BY <1>2, <2>1, <2>2, <2>3, <3>1, <3>2, PartSent
    <3>4. queue' = [queue EXCEPT ![1] = x] /\ queue' # <<>>
      BY <1>2, <2>1, <2>6 DEF x
    <3> QED
      BY <1>1, <1>2, <2>1, <2>5, <2>6, <3>3, <3>4 DEF Order
  <2>7. CASE /\ k = h.left /\ h.vecs > 0 /\ UNCHANGED tail
             /\ queue' = [queue EXCEPT ![1] =
                            [h EXCEPT !.left = VecSize, !.vecs = h.vecs - 1]]
    <3> DEFINE x == [h EXCEPT !.left = VecSize, !.vecs = h.vecs - 1]
    <3>1. /\ x \in Chained /\ x.id = h.id /\ x.left = VecSize /\ x.vecs = h.vecs - 1
          /\ ~x.eos
      <4>1. h.vecs - 1 \in Nat /\ VecSize \in Int
        BY <2>2, <2>7
      <4> QED
        BY <2>1, <4>1 DEF Chained
    <3>2. Left(x) = Left(h) - k
      <4>1. VecSize + VecSize * (h.vecs - 1) = VecSize * h.vecs
        BY <2>2
      <4>2. VecSize * h.vecs \in Int
        BY <2>2
      <4>3. (k + VecSize * h.vecs) - k = VecSize * h.vecs
        BY <2>2, <4>2
      <4> QED
        BY <2>4, <2>7, <3>1, <4>1, <4>3 DEF Left
    <3> HIDE DEF x
    <3>3. Ordered(accepted, [queue EXCEPT ![1] = x], wire')
      BY <1>2, <2>1, <2>2, <2>3, <3>1, <3>2, PartSent
    <3>4. queue' = [queue EXCEPT ![1] = x] /\ queue' # <<>>
      BY <1>2, <2>1, <2>7 DEF x
    <3> QED
      BY <1>1, <1>2, <2>1, <2>5, <2>7, <3>3, <3>4 DEF Order
  <2>8. CASE k = h.left /\ ~(h.vecs > 0) /\ DropHead
    <3>1. h.vecs = 0 /\ VecSize * 0 = 0
      BY <2>2, <2>8
    <3>2. Left(h) = k
      BY <2>2, <2>4, <2>8, <3>1
    <3>3. Ordered(accepted, Tail(queue), wire')
      BY <1>2, <2>1, <2>2, <2>3, <3>2, FrameSent
    <3> QED
      BY <1>1, <1>2, <2>1, <2>5, <2>8, <3>3 DEF DropHead, Order
  <2> QED
    BY <2>5, <2>6, <2>7, <2>8
<1>8. ASSUME NEW kind \in {"data", "eos"}, Write(kind)
       PROVE  Order'
  <2> DEFINE item == Item(Len(accepted) + 1, kind)
  <2>1. /\ accepted' = Append(accepted, kind) /\ writeOpen /\ UNCHANGED wire
        /\ Chain(item) /\ item.id = Len(accepted) + 1
    BY <1>8 DEF Write, Item
  <2>2. Len(accepted') = Len(accepted) + 1
    BY <1>2, <2>1
  <2> HIDE DEF item
  <2>3. queue' = Append(queue, item) /\ tail' = item.id
    <3>1. CASE queue = <<>>
      <4>1. tail = 0
        BY <1>1, <2>1, <3>1 DEF Order
      <4> QED
        BY <2>1, <3>1, <4>1 DEF Chain
    <3>2. CASE queue # <<>>
      <4>1. /\ Len(queue) \in DOMAIN queue /\ Len(queue) \in Nat /\ Len(accepted) \in Nat
            /\ Last(queue) = queue[Len(queue)]
        BY <1>2, <3>2 DEF Last
      <4>2. /\ Last(queue).id = Len(accepted) - Len(queue) + Len(queue)
            /\ Last(queue).id \in DOMAIN accepted
        BY <1>2, <4>1 DEF Ordered
      <4>3. Last(queue).id = Len(accepted) /\ Len(accepted) # 0
        BY <1>2, <4>1, <4>2
      <4>4. tail = Len(accepted)
        BY <1>1, <3>2 DEF Order
      <4> QED
        BY <2>1, <3>2, <4>3, <4>4 DEF Chain
    <3> QED
      BY <3>1, <3>2
  <2>4. Ordered(accepted', queue', wire')
    BY <1>2, <2>1, <2>3, FrameAccepted DEF item
  <2>5. queue' # <<>>
    BY <1>2, <2>3
  <2> QED
    BY <1>2, <2>1, <2>2, <2>3, <2>4, <2>5 DEF Order
<1>9. CASE Fini
  BY <1>9 DEF Fini
<1> QED
  BY <1>1, <1>3, <1>4, <1>5, <1>6, <1>7, <1>8, <1>9 DEF Next, Handler, EventLoop,
     Application, Network, Open
-----------------------------------------------------------------------------
\* No stream yet.
LEMMA InitInv ==
  ASSUME Init
  PROVE  Inv
<1>1. /\ stack \in Seq(Activation) /\ queue \in Seq(Chained)
      /\ accepted \in Seq({"data", "eos"}) /\ wire \in Seq(Nat)
  BY DEF Init
<1>2. readFrame \in Filled
  BY DEF Init, NoFrame, Filled
<1>3. TypeOK
  <2>1. /\ connecting \in BOOLEAN /\ sysErrno \in BOOLEAN /\ failed \in BOOLEAN
        /\ partial \in BOOLEAN /\ readShutdown \in BOOLEAN /\ noFrames \in BOOLEAN
        /\ writeOpen \in BOOLEAN /\ writeReady \in BOOLEAN
        /\ writeShutdown \in BOOLEAN /\ readWatch \in BOOLEAN
        /\ writeWatch \in BOOLEAN /\ stopped \in BOOLEAN
    BY DEF Init
  <2>2. /\ pauseLevel \in Nat /\ tail \in Nat /\ inbuf \in Nat /\ outbuf \in Nat
        /\ received \in Nat /\ offered \in Int /\ eosIn \in Nat /\ aborts \in Nat
    BY DEF Init
  <2>3. /\ phase \in {"none", "open", "fini", "assert"}
        /\ readEvents \in SUBSET {"READ"} /\ writeEvents \in SUBSET {"CONNECT", "WRITE"}
        /\ peer \in {"open", "closed", "reset", "gone"}
        /\ conn \in {"pending", "refused", "ok"} /\ shut \in SUBSET {"rd", "wr"}
    BY DEF Init
  <2> QED
    BY <1>1, <1>2, <2>1, <2>2, <2>3 DEF TypeOK
<1> QED
  BY <1>3 DEF Inv, Init

\* A stream opens, accepted or to be connected, with nothing running on it.
LEMMA OpenStep ==
  ASSUME Init, NEW connect \in BOOLEAN, Open(connect)
  PROVE  /\ phase' = "open"
         /\ Reading' /\ Bytes' /\ Ending' /\ Connection' /\ Outgoing' /\ Order'
<1>1. phase' = "open" /\ stack' = <<>>
  BY DEF Init, Open
<1>2. Active' = {} /\ Top' # "write_loop"
  <2>1. DOMAIN stack' = {}
    BY <1>1
  <2> QED
    BY <1>1, <2>1 DEF Active, Top
<1>3. /\ failed' = FALSE /\ readShutdown' = FALSE /\ pauseLevel' = 0
      /\ readFrame' = NoFrame /\ received' = 0 /\ offered' = 0 /\ eosIn' = 0
      /\ aborts' = 0 /\ writeReady' = FALSE /\ writeShutdown' = FALSE
      /\ inbuf' = 0 /\ outbuf' = 0 /\ peer' = "open" /\ shut' = {}
      /\ queue' = <<>> /\ tail' = 0 /\ accepted' = <<>> /\ wire' = <<>>
  BY DEF Init, Open, readHist, writeHist
<1>4. /\ connecting' = connect /\ (connect <=> conn' = "pending") /\ writeWatch'
      /\ readEvents' = (IF connect THEN {} ELSE {"READ"}) /\ (readWatch' <=> ~connect)
      /\ writeEvents' = (IF connect THEN {"CONNECT"} ELSE {"WRITE"})
  BY DEF Open
<1>5. Reading'
  BY <1>2, <1>3, <1>4 DEF Reading
<1>6. Bytes' /\ Ending'
  BY <1>2, <1>3 DEF Bytes, Ending, Delivering, NoFrame
<1>7. Connection'
  BY <1>2, <1>3, <1>4 DEF Connection
<1>8. DOMAIN queue' = {} /\ DOMAIN wire' = {} /\ DOMAIN accepted' = {}
  BY <1>3
<1>9. Outgoing'
  BY <1>2, <1>3, <1>8 DEF Outgoing
<1>10. Order'
  BY <1>3, <1>8 DEF Order, Ordered
<1> QED
  BY <1>1, <1>5, <1>6, <1>7, <1>9, <1>10

\* Every step keeps the invariant: it opens the stream, is one of an open stream,
\* part by part above, or finalises it.
LEMMA NextInv ==
  ASSUME Inv, [Next]_vars
  PROVE  Inv'
<1>1. CASE UNCHANGED vars
  <2>1. TypeOK' /\ (Shape <=> Shape') /\ (Init <=> Init')
    BY <1>1 DEF Inv, vars, readVars, writeVars, connVars, netVars, readHist,
       writeHist, TypeOK, Shape, Init
  <2>2. Active' = Active /\ Top' = Top
    BY <1>1 DEF vars, Active, Top
  <2>3. Reading => Reading'
    BY <1>1, <2>2 DEF vars, readVars, connVars, Reading
  <2>4. Bytes => Bytes'
    BY <1>1, <2>2 DEF vars, readVars, readHist, Bytes
  <2>5. Ending => Ending'
    BY <1>1, <2>2 DEF vars, readVars, readHist, Ending, Delivering
  <2>6. Connection => Connection'
    BY <1>1, <2>2 DEF vars, writeVars, connVars, netVars, Connection
  <2>7. Outgoing => Outgoing'
    BY <1>1, <2>2 DEF vars, writeVars, connVars, netVars, writeHist, Outgoing,
       Broken
  <2>8. Order => Order'
    BY <1>1 DEF vars, writeVars, writeHist, Order
  <2> QED
    BY <1>1, <2>1, <2>3, <2>4, <2>5, <2>6, <2>7, <2>8 DEF Inv, vars
<1>2. CASE Next
  <2>1. TypeOK' /\ (phase' = "open" => Shape')
    BY <1>2, TypeStep DEF Inv
  <2>2. CASE phase = "none" /\ \E connect \in BOOLEAN : Open(connect)
    BY <2>1, <2>2, OpenStep DEF Inv
  <2>3. CASE phase = "open" /\ phase' = "open"
    <3>1. Reading' /\ Bytes' /\ Ending'
      BY <1>2, <2>3, ReadingStep, BytesStep, EndingStep
    <3>2. Connection' /\ Outgoing' /\ Order'
      BY <1>2, <2>3, ConnectionStep, OutgoingStep, OrderStep
    <3> QED
      BY <2>1, <2>3, <3>1, <3>2 DEF Inv
  <2>4. CASE phase = "open" /\ Fini
    <3>1. stack = <<>>
      BY <2>4, StackIsSeq DEF Inv, Fini, Running, Top, Activation, Names, Callbacks
    <3> QED
      BY <2>1, <2>4, <3>1 DEF Inv, Fini
  <2>5. CASE phase = "open" /\ phase' = "assert"
    BY <1>2, <2>5, ConnectionStep
  <2> QED
    BY <1>2, <2>2, <2>3, <2>4, <2>5, Phases
<1> QED
  BY <1>1, <1>2

\* Every state the stream gets to satisfies the invariant; with it, for every
\* size of the frames and of the kernel's buffer, every number of loops and all
\* that the application may do, the properties below.
THEOREM InvHolds == Spec => []Inv
<1> QED
  BY InitInv, NextInv, PTL DEF Spec

\* In the event loop nothing runs.
LEMMA LoopIsEmpty ==
  ASSUME stack = <<>>
  PROVE  Active = {} /\ Top = "event_loop"
<1>1. DOMAIN stack = {}
  OBVIOUS
<1> QED
  BY <1>1 DEF Active, Top

\* The read watcher of every stream is exact: no reading that stalls for ever,
\* no readable descriptor that keeps the event loop spinning.
THEOREM ReadWatchIsExact == Spec => []ReadWatchExact
<1>1. ASSUME Inv
      PROVE  ReadWatchExact
  BY <1>1, LoopIsEmpty DEF Inv, InLoop, Reading, ReadWatchExact
<1> QED
  BY <1>1, InvHolds, PTL

\* A connected stream with frames to write waits to write them.
THEOREM WriteWatchIsSound == Spec => []WriteWatchSound
<1>1. ASSUME Inv
      PROVE  WriteWatchSound
  BY <1>1, LoopIsEmpty DEF Inv, InLoop, Outgoing, WriteWatchSound
<1> QED
  BY <1>1, InvHolds, PTL

\* A stream that has reported an error waits for nothing.
THEOREM ErrorsAreQuiet == Spec => []QuietAfterError
<1>1. ASSUME Inv
      PROVE  QuietAfterError
  BY <1>1, LoopIsEmpty DEF Inv, InLoop, Reading, Outgoing, QuietAfterError
<1> QED
  BY <1>1, InvHolds, PTL

\* Every byte received has been handed to the application or is in the read
\* frame.
THEOREM NothingIsDropped == Spec => []NothingDropped
<1>1. ASSUME Inv
      PROVE  NothingDropped
  BY <1>1 DEF Inv, Bytes, NothingDropped, Undelivered, NoFrame
<1> QED
  BY <1>1, InvHolds, PTL

\* The assertions of stream.c hold.
THEOREM AssertionsAlwaysHold == Spec => []AssertionsHold
<1>1. ASSUME Inv
      PROVE  AssertionsHold
  <2>1. CASE phase # "open"
    <3>1. stack = <<>>
      BY <1>1, <2>1 DEF Inv, TypeOK, Init
    <3> QED
      BY <1>1, <3>1, LoopIsEmpty DEF Inv, AssertionsHold
  <2>2. CASE phase = "open" /\ stack = <<>>
    BY <1>1, <2>2, LoopIsEmpty DEF Inv, AssertionsHold
  <2>3. CASE phase = "open" /\ stack # <<>>
    <3>1. Top \in Active
      BY <1>1, <2>3, InnermostRuns DEF Inv
    <3>2. Top = "write_loop" =>
            /\ queue # <<>> => 1 \in DOMAIN queue /\ Head(queue) = queue[1]
            /\ ~connecting /\ writeReady
      BY <1>1, <2>3, <3>1, QueueTail DEF Inv, Connection, Outgoing
    <3> QED
      BY <1>1, <2>3, <3>1, <3>2 DEF Inv, Connection, Outgoing, Bytes, AssertionsHold
  <2> QED
    BY <2>1, <2>2, <2>3
<1> QED
  BY <1>1, InvHolds, PTL

\* The kernel gets every frame written, whole, once and in the order
\* ft_stream_write accepted them in.
THEOREM FramesAreSentInOrder == Spec => []SentInOrder
<1>1. ASSUME Inv
      PROVE  SentInOrder
  <2>1. SUFFICES ASSUME phase = "open", Ordered(accepted, queue, wire)
                 PROVE  SentInOrder
    BY <1>1 DEF Inv, Order, SentInOrder
  <2>2. \A n : Sent(n) = Count(wire, n) /\ Size(n) = SizeIn(accepted, n)
    BY DEF Sent, Count, Size, SizeIn
  <2>3. \A n : n \notin Queued => \A i \in DOMAIN queue : queue[i].id # n
    BY DEF Queued
  <2> QED
    BY <2>1, <2>2, <2>3 DEF Ordered, SentInOrder
<1> QED
  BY <1>1, InvHolds, PTL

\* After the end of the stream the application is handed no more, and with it
\* all that was received: one step for every handler and callback that may hand
\* something over or take it back.
LEMMA DeliveredBefore ==
  ASSUME Inv, Next
  PROVE  /\ eosIn' > eosIn => offered' = received'
         /\ eosIn > 0 /\ aborts < 2 => offered' <= offered
<1> DEFINE Goal == /\ eosIn' > eosIn => offered' = received'
                   /\ eosIn > 0 /\ aborts < 2 => offered' <= offered
<1> USE DEF readHist
<1>1. eosIn \in Nat /\ offered \in Int /\ received \in Nat
  BY DEF Inv, TypeOK
<1>2. ASSUME UNCHANGED <<eosIn, offered>>
      PROVE  Goal
  BY <1>1, <1>2
<1>3. ASSUME phase = "open", stack # <<>>
      PROVE  /\ Shape /\ Bytes /\ Ending /\ Top \in Active
             /\ stack[1].frame.got \in Nat
  BY <1>3, InnermostRuns DEF Inv, Activation, Filled
<1>4. CASE \/ ReadNoFrame \/ RecvAgain \/ RecvEof \/ RecvError \/ ReadLoopsDone
           \/ LastReturns \/ SubmitEosNoFrame \/ EosReturns \/ ErrorReturns
           \/ WriteLoopDone \/ WriteLoopsExceeded \/ WriteEos \/ SendAgain
           \/ SendError \/ WriteEvent \/ WriteDone \/ ConnectedReturns
           \/ OnWriteQueue \/ AbortWriting
           \/ \E k \in 1 .. VecSize : SendData(k)
  BY <1>2, <1>4 DEF ReadNoFrame, RecvAgain, RecvEof, RecvError, ReadLoopsDone,
     LastReturns, SubmitEosNoFrame, EosReturns, ErrorReturns, WriteLoopDone,
     WriteLoopsExceeded, WriteEos, SendAgain, SendError, WriteEvent, WriteDone,
     ConnectedReturns, OnWriteQueue, AbortWriting, SendData
<1>5. CASE EventLoop \/ Application \/ Network
  <2>1. UNCHANGED <<eosIn, offered>>
    BY <1>5 DEF EventLoop, OnRead, OnWrite, Refused, Connected, Application, Write,
       ReadStart, ReadStop, ReadPause, ReadResume, WriteStart, WriteStop, Abort,
       Fini, SetPartial, Open, Network, ConnectEnds, PeerSends, PeerReads,
       PeerCloses, PeerResets
  <2> QED
    BY <1>2, <2>1
<1>6. ASSUME NEW k \in 1 .. VecSize, RecvData(k)
      PROVE  Goal
  <2>1. phase = "open" /\ stack # <<>> /\ Top = "read_loop" /\ UNCHANGED eosIn
    BY <1>6 DEF RecvData, Receiving, Running, Top
  <2>2. ~(eosIn > 0)
    BY <1>3, <2>1 DEF Ending
  <2> QED
    BY <1>1, <2>1, <2>2
<1>7. ASSUME NEW up \in BOOLEAN, PartialReturns(up) \/ FullReturns(up)
      PROVE  Goal
  <2>1. phase = "open" /\ stack # <<>> /\ UNCHANGED eosIn
    BY <1>7 DEF PartialReturns, FullReturns, Running, Top
  <2>2. offered' = offered \/ offered' = offered - stack[1].frame.got
    BY <1>7 DEF PartialReturns, FullReturns, TakeBack
  <2> QED
    BY <1>1, <1>3, <2>1, <2>2
<1>8. CASE ShutdownRead
  <2>1. phase = "open" /\ stack # <<>> /\ Top = "shutdown_read" /\ UNCHANGED eosIn
    BY <1>8 DEF ShutdownRead, Running, Top
  <2>2. eosIn > 0 /\ aborts < 2 => readFrame.got = 0
    BY <1>3, <2>1 DEF Ending
  <2>3. ~(readFrame.got > 0) => offered' = offered
    BY <1>8 DEF ShutdownRead
  <2> QED
    BY <1>1, <2>1, <2>2, <2>3
<1>9. CASE SubmitEos
  <2>1. /\ phase = "open" /\ stack # <<>> /\ Top = "submit_eos"
        /\ UNCHANGED <<offered, received>>
    BY <1>9 DEF SubmitEos, Running, Top
  <2>2. readFrame.got = 0 /\ received = offered + readFrame.got
    BY <1>3, <2>1 DEF Bytes
  <2> QED
    BY <1>1, <2>1, <2>2
<1> QED
  BY <1>4, <1>5, <1>6, <1>7, <1>8, <1>9 DEF Next, Handler

\* The end of the stream comes after all that was received, and no read callback
\* with data follows it.
THEOREM EosComesLast == Spec => EosIsLast
<1>1. ASSUME Inv, [Next]_vars
      PROVE  [/\ eosIn' > eosIn => offered' = received'
              /\ eosIn > 0 /\ aborts < 2 => offered' <= offered]_vars
  BY <1>1, DeliveredBefore
<1> QED
  BY <1>1, InvHolds, PTL DEF Spec, EosIsLast
=============================================================================
