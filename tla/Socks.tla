--------------------------------- MODULE Socks ---------------------------------
(***************************************************************************)
(* The SOCKS 4, 4A and 5 protocol on a stream (src/proto/socks.c), and the *)
(* relay built on it (examples/socks/main_socks.c): "in" is the stream of  *)
(* the client, "out" the one to the target the client has asked for.       *)
(*                                                                         *)
(* Of the streams only what they promise is kept (module Stream): bytes    *)
(* arrive in order, the vecs of a frame are filled one after the other, an *)
(* end of stream comes last, and is preceded by whatever is in the frame   *)
(* that is not full.  What the client sends is one of "Requests", cut into *)
(* segments anywhere; it waits for an answer before it goes on.            *)
(*                                                                         *)
(* An operator that is not reached from Next is the next definition with a *)
(* bug in it; the properties are known to catch it.                        *)
(***************************************************************************)
EXTENDS Frame, FiniteSets

CONSTANTS
  Requests,     \* what clients ask for, see Wire
  Payload,      \* the bytes a client sends once it is connected
  Answer,       \* the bytes a target sends
  Stale,        \* values the memory of a frame may have from its last use
  HostSize,     \* sizeof(host), the buffer a name is copied to
  MayRunDry,    \* whether the pool may run out of frames, once
  None

ASSUME StaleAssumption == Stale # {}
ASSUME HostAssumption == HostSize \in Nat /\ HostSize > 2

VARIABLES
  proto,        \* struct ft_proto_socks: the headers read so far
  delegate,     \* the delegate of "in": "socks", then "relay"
  frame, data,  \* the frame "in" is filling, or None, and the bytes in it
  stream,       \* both streams
  request,      \* what the client asks for
  sent, taken,  \* bytes sent to each stream, and bytes read from it
  closed,       \* peers that have closed their end
  got,          \* what each peer has received
  pool,         \* "full", "dry" for a while, then "refilled"
  relay,        \* "live"; "removed" from the list of relays; or "broken": an
                \* assertion has ended the process, or its memory is overwritten
  asked,        \* history: the targets delegate->connect was called with
  truncated,    \* history: the client closed before its request was complete
  unparsed      \* history: "in" does not read any more, for what it has read

client == <<request, sent, closed>>
history == <<asked, truncated, unparsed>>
vars == <<proto, delegate, frame, data, stream, request, sent, taken, closed,
          got, pool, relay, history>>

Side == {"in", "out"}
Other(s) == IF s = "in" THEN "out" ELSE "in"

-----------------------------------------------------------------------------
\* The messages of RFC 1928 and of SOCKS4.protocol and socks4a.protocol, to
\* which socks.c refers, in the order a client sends them.
Wire(r) ==
  IF r.vn = 5
  THEN << <<5, Len(r.methods)>> \o r.methods,
          <<5, r.cd, 0, r.atyp>>
            \o (IF r.atyp = 3 THEN <<Len(r.host)>> ELSE <<>>)
            \o r.host \o r.port >>
  ELSE << <<r.vn, r.cd>> \o r.port
            \o (IF r.atyp = 3 THEN <<0, 0, 0, 1>> \o r.user \o <<0>> \o r.host
                ELSE r.host \o r.user)
            \o <<0>> >>
Target(r) == [type |-> CASE r.atyp = 1 -> "4" [] r.atyp = 3 -> "D" [] OTHER -> "6",
              host |-> r.host, port |-> r.port]

\* What goes to a peer: answers, relayed bytes, the end of the stream.
Item(k, b) == [kind |-> k, bytes |-> b]
Eos == Item("eos", <<>>)
Positive(x) == x.kind \in {"method", "granted"}

\* The client sends the next message when the last one is answered.
ClientBytes ==
  LET w == Wire(request) \o <<Payload>>
      n == 1 + Len(SelectSeq(got["in"], Positive))
  IN  FlattenSeq(SubSeq(w, 1, n))
RequestLength == Len(FlattenSeq(Wire(request)))
Bytes(s) == IF s = "in" THEN ClientBytes ELSE Answer
Waiting(s) == SubSeq(Bytes(s), taken[s] + 1, sent[s])

-----------------------------------------------------------------------------
\* What the streams promise.
Unborn == [phase |-> "none", wopen |-> FALSE, wsd |-> FALSE, rsd |-> FALSE,
           reading |-> FALSE, paused |-> FALSE, queue |-> <<>>]
Open == [Unborn EXCEPT !.phase = "up", !.wopen = TRUE, !.reading = TRUE]
Down(x) == x.rsd /\ x.wsd                          \* ft_stream_is_shutdown

\* The memory of a relay comes from malloc(): until ft_stream_connect, "out" is
\* what was there before.  Its class may be NULL ("none") or not ("junk"), and
\* its flags may say that it has been shut down, as those of a relay that has
\* been removed do.
Uninitialised == {[Unborn EXCEPT !.phase = p, !.rsd = b, !.wsd = b] :
                    p \in {"none", "junk"}, b \in BOOLEAN}
\* ft_stream_connect has failed in connect(): initialised, never to be written to.
Stillborn == [Unborn EXCEPT !.phase = "stillborn", !.wopen = TRUE]

\* ft_stream_write and FT_STREAM_WRITE_SHUTDOWN.
WriteAhead(x, i) == IF ~x.wopen THEN x
                    ELSE [x EXCEPT !.queue = <<i>> \o @, !.wopen = i # Eos]
Write(x, i) == IF ~x.wopen THEN x
               ELSE [x EXCEPT !.queue = Append(@, i), !.wopen = i # Eos]
ShutDown(x) == IF x.wsd \/ pool = "dry" THEN x ELSE Write(x, Eos)
Fail(x) == [x EXCEPT !.wopen = FALSE, !.wsd = TRUE, !.rsd = TRUE, !.reading = FALSE]

\* on_error: both ends are shut down, "out" if its class is not NULL.  If that
\* class is not one of a stream the assertion of ft_stream_cntl fails; if it is
\* left from an earlier relay, its flags say that there is nothing to do.
OnError(st) ==
  [s \in Side |-> IF st[s].phase \in {"none", "junk"} THEN st[s] ELSE ShutDown(st[s])]
ErrorBreaks(st) == relay' \in IF st["out"].phase = "junk" THEN {"live", "broken"} ELSE {"live"}

-----------------------------------------------------------------------------
\* Byte k of the frame; what has not been received is left from its last use.
\* VecBytes is what a vec is taken to hold.
Byte(d, k, stale) == IF k \in DOMAIN d THEN d[k] ELSE stale
VecBytes(f, d, i, n, stale) ==
  [k \in 1 .. n |-> Byte(d, f.vecs[i].offset + k, stale)]
UpToNul(q) == LET Z == {i \in DOMAIN q : q[i] = 0} IN
              IF Z = {} THEN q ELSE SubSeq(q, 1, (CHOOSE i \in Z : \A j \in Z : i <= j) - 1)
Cut(q, n) == IF Len(q) > n THEN SubSeq(q, 1, n) ELSE q

\* DSTIP is 0.0.0.x with x # 0
Is4A(p) == p.vn = 4 /\ SubSeq(p.ip, 1, 3) = <<0, 0, 0>> /\ p.ip[4] # 0

\* The byte before ft_vec_ptr(): the last one read, if the vec is full.
LastRead(f, d, i, stale) ==
  Byte(d, f.vecs[i].offset + f.vecs[i].position, stale)
GrowLastTooLittle(f, n) == [vecs |-> [f.vecs EXCEPT ![Len(f.vecs)] = Grow(@, n - 1)],
                            at |-> PrevVec(f).at]
GrowLast(f, n) == [vecs |-> [f.vecs EXCEPT ![Len(f.vecs)] = Grow(@, n)],
                   at |-> PrevVec(f).at]

\* ft_frame_append_vec, the result of which is not looked at.
TryAppendVec(f, n) == IF Fits(f, n) THEN AppendVec(f, n) ELSE f

\* What reading a frame leads to: "more" bytes into the same frame, the
\* selection of a "method", a "request", or a "bad" message.
More(p, f) == [proto |-> p, frame |-> f, verdict |-> "more"]
Ends(p, f, v) == [proto |-> p, frame |-> f, verdict |-> v]

\* ft_proto_socks_4_on_read: the header, the user, the name.
Read4(p, f, d, stale) ==
  LET i == Len(f.vecs)
      ended == LastRead(f, d, i, stale) = 0 IN
  CASE i = 2 -> LET b == VecBytes(f, d, 2, 7, stale) IN
                More([p EXCEPT !.cd = b[1], !.port = SubSeq(b, 2, 3),
                               !.ip = SubSeq(b, 4, 7)],
                     TryAppendVec(f, 1))
    [] i = 3 -> IF ~ended THEN More(p, GrowLast(f, 1))
                ELSE IF Is4A(p) THEN More(p, TryAppendVec(f, 1))
                ELSE Ends(p, f, "request")
    [] i = 4 /\ Is4A(p) -> IF ended THEN Ends(p, f, "request")
                           ELSE More(p, GrowLast(f, 1))
    [] OTHER -> Ends(p, f, "bad")

\* ft_proto_socks_5_on_read
Read5Methods(p, f, d, stale) ==
  LET n == Byte(d, f.vecs[2].offset + 1, stale) IN
  CASE Len(f.vecs) = 2 /\ n # 0 -> More(p, TryAppendVec(f, n))
    [] Len(f.vecs) = 3 -> Ends(p, f, "method")
    [] OTHER -> Ends(p, f, "bad")
Room(atyp) == CASE atyp = 1 -> 4 [] atyp = 3 -> 1 [] atyp = 4 -> 16 [] OTHER -> 0
Read5Request(p, f, d, stale) ==
  LET i == Len(f.vecs) IN
  CASE i = 1 -> More(p, TryAppendVec(f, 3))
    [] i = 2 -> LET b == VecBytes(f, d, 2, 3, stale)
                    q == [p EXCEPT !.cd = b[1], !.atyp = b[3]]
                IN  IF Room(b[3]) = 0 THEN Ends(q, f, "bad")
                    ELSE More(q, TryAppendVec(f, Room(b[3])))
    [] i = 3 -> IF p.atyp = 3 /\ f.vecs[3].capacity = 1
                THEN More(p, GrowLast(f, LastRead(f, d, 3, stale)))
                ELSE More(p, TryAppendVec(f, 2))
    [] OTHER -> Ends([p EXCEPT !.port = VecBytes(f, d, 4, 2, stale)], f, "request")
Read5(p, f, d, stale) ==
  IF p.authorized THEN Read5Request(p, f, d, stale)
  ELSE IF p.selmethod = 255 /\ Len(f.vecs) > 1 THEN Read5Methods(p, f, d, stale)
  ELSE Ends(p, f, "bad")

\* ft_proto_socks_stream_delegate_read of a frame with data: the version first.
Read(p, f, d, stale) ==
  CASE p.vn = 0 /\ Len(f.vecs) = 1 ->
         LET v == Byte(d, 1, stale)
             q == [p EXCEPT !.vn = v]
         IN  CASE v = 4 -> More(q, TryAppendVec(f, 7))
               [] v = 5 -> More(q, TryAppendVec(f, 1))
               [] OTHER -> Ends(q, f, "bad")
    [] p.vn = 4 -> Read4(p, f, d, stale)
    [] p.vn = 5 -> Read5(p, f, d, stale)
    [] OTHER -> Ends(p, f, "bad")

\* The name of SOCKS 5 is behind its length, that of SOCKS 4A ends in a NUL.
\* snprintf is given a buffer one smaller than it is, and strncpy too.
NameWithLength(v) == Cut(UpToNul(v), HostSize - 2)
Name(v) == Cut(UpToNul(Tail(v)), HostSize - 2)
Name4A(v) == Cut(UpToNul(v), HostSize - 1)

\* The target ft_proto_socks_on_request hands to delegate->connect, or None
\* where it refuses: a command other than CONNECT, no name.
Requested(p, f, d, stale) ==
  LET vec(i) == VecBytes(f, d, i, f.vecs[i].capacity, stale)
      t == CASE Is4A(p) -> [type |-> "D", host |-> Name4A(vec(4)), port |-> p.port]
             [] p.vn = 4 -> [type |-> "4", host |-> p.ip, port |-> p.port]
             [] p.atyp = 1 -> [type |-> "4", host |-> vec(3), port |-> p.port]
             [] p.atyp = 3 -> [type |-> "D", host |-> Name(vec(3)), port |-> p.port]
             [] OTHER -> [type |-> "6", host |-> vec(3), port |-> p.port]
  IN  IF p.cd # 1 \/ t.host = <<>> THEN None ELSE t

-----------------------------------------------------------------------------
\* What the verdict on a frame may lead to, with the streams st.  (A frame that
\* is not kept is written back as the answer, or returned.)
Outcome(p, st, a, u) == [proto |-> p, stream |-> st, asked |-> a, unparsed |-> u]

\* sock_relay_on_socks5_method_selection_request
SelMethod(f, d, stale) ==
  IF \E k \in 1 .. f.vecs[3].position : Byte(d, f.vecs[3].offset + k, stale) = 0
  THEN 0 ELSE 255
Method(st, p, m) ==
  LET x == Write(st["in"], Item(IF m = 0 THEN "method" ELSE "nomethod", <<>>)) IN
  {Outcome([p EXCEPT !.selmethod = m, !.authorized = m = 0],
           [st EXCEPT !["in"] = IF m = 0 THEN x ELSE ShutDown(x)],
           asked, unparsed)}

\* ft_proto_socks_on_request: refused by it or by connect (for want of an address
\* or a socket, or by connect() itself), or the stream is connecting.
Refuse(st) == [st EXCEPT !["in"] = ShutDown(Write(@, Item("refused", <<>>)))]
Connect(st) == [st EXCEPT !["out"] = [Open EXCEPT !.phase = "connecting",
                                                 !.reading = FALSE]]
Request(st, p, t) ==
  IF t = None THEN {Outcome(p, Refuse(st), asked, unparsed)}
  ELSE {Outcome(p, x, Append(asked, t), unparsed) :
          x \in {Refuse(st), Refuse([st EXCEPT !["out"] = Stillborn]), Connect(st)}}

\* the end of ft_proto_socks_stream_delegate_read
Bad(st, p) == {Outcome(p, [st EXCEPT !["in"] = [ShutDown(@) EXCEPT !.reading = FALSE]],
                       asked, TRUE)}

Outcomes(st, r, d, stale) ==
  CASE r.verdict = "more" -> {Outcome(r.proto, st, asked, unparsed)}
    [] r.verdict = "method" -> Method(st, r.proto, SelMethod(r.frame, d, stale))
    [] r.verdict = "request" ->
         Request(st, r.proto, Requested(r.proto, r.frame, d, stale))
    [] r.verdict = "bad" -> Bad(st, r.proto)

-----------------------------------------------------------------------------
\* The read handler of "in" while it speaks SOCKS.  get_read_frame gives a frame
\* with a vec for the version.  One step reads what there is into the vec the
\* frame is at; the delegate is called when there is no further vec.
VersionFrame == AppendVec(FormatEmpty, 1)

\* There is room at the vec the frame is at.
Readable(f) == WellFormed(f) /\ ~AtEnd(f) /\ Remaining(GetVec(f)) > 0
CanRead == frame = None \/ Readable(frame)

\* The assertions before recv(): there is a vec, with room in it.  Where the last
\* vec has been grown over the vecs themselves, what happens is not defined.
ReadAsserts ==
  /\ relay = "live" /\ delegate = "socks" /\ stream["in"].reading
  /\ ~CanRead
  /\ relay' = "broken"
  /\ UNCHANGED <<proto, delegate, frame, data, stream, taken, got, pool, client, history>>

OutOfFrames(s) ==
  /\ relay = "live" /\ stream[s].reading /\ frame = None /\ pool = "dry"
  /\ Waiting(s) # <<>> \/ closed[s]
  /\ s = "in" \/ stream[s].phase = "up"
  /\ stream' = [stream EXCEPT ![s].reading = FALSE, ![s].paused = TRUE]
  /\ UNCHANGED <<proto, delegate, frame, data, taken, got, pool, relay, client, history>>

Lesser(a, b) == IF a < b THEN a ELSE b
\* The frame f has got bytes, which makes them e.
ReadBytes(f, e) ==
  IF Remaining(GetVec(f)) > 0
  THEN /\ frame' = f /\ data' = e
       /\ UNCHANGED <<proto, stream, asked, unparsed>>
  ELSE \E r \in {Read(proto, NextVec(f), e, 0)} :
       /\ \E o \in Outcomes(stream, r, e, 0) :
            /\ proto' = o.proto /\ stream' = o.stream
            /\ asked' = o.asked /\ unparsed' = o.unparsed
       /\ IF r.verdict = "more" THEN frame' = r.frame /\ data' = e
          ELSE frame' = None /\ data' = <<>>
SocksRead ==
  LET f == IF frame = None THEN VersionFrame ELSE frame
      d == IF frame = None THEN <<>> ELSE data
  IN
  /\ relay = "live" /\ delegate = "socks" /\ stream["in"].reading /\ CanRead
  /\ frame # None \/ pool # "dry"
  /\ \E n \in {Lesser(Len(Waiting("in")), Remaining(GetVec(f)))} :
       /\ n > 0
       /\ taken' = [taken EXCEPT !["in"] = @ + n]
       /\ ReadBytes([f EXCEPT !.vecs[f.at] = Advance(@, n)], d \o SubSeq(Waiting("in"), 1, n))
  /\ UNCHANGED <<delegate, got, pool, relay, client, truncated>>

\* _ft_stream_read_shutdown of "in": the frame that is not full is handed up as
\* if it were, then the end of the stream, which is written back.
EchoEos(st, empty) == IF pool = "dry" /\ ~empty THEN st
                      ELSE [st EXCEPT !["in"] = Write(@, Eos)]
SocksShutdown(failed) ==
  LET st == [failed EXCEPT !["in"].rsd = TRUE, !["in"].reading = FALSE]
      partial == frame # None /\ FramePos(frame) > 0
      O == IF ~partial THEN {Outcome(proto, st, asked, unparsed)}
           ELSE UNION {Outcomes(st, Read(proto, frame, data, stale), data, stale) :
                         stale \in Stale}
  IN
  /\ \E o \in O : /\ proto' = o.proto
                  /\ stream' = EchoEos(o.stream, frame # None /\ ~partial)
                  /\ asked' = o.asked /\ unparsed' = o.unparsed
  /\ frame' = None /\ data' = <<>>
  /\ truncated' = (truncated \/ taken["in"] < RequestLength)
  /\ UNCHANGED <<delegate, taken, got, pool, client>>

SocksEnd ==
  /\ relay = "live" /\ delegate = "socks" /\ stream["in"].reading /\ CanRead
  /\ closed["in"] /\ Waiting("in") = <<>>
  /\ frame # None \/ pool # "dry"
  /\ SocksShutdown(stream)
  /\ UNCHANGED relay

-----------------------------------------------------------------------------
\* The relay.  A frame read from one stream is flipped and written to the other,
\* the end of the stream like any other frame; it is dropped if that cannot be
\* written to any more.
RelayRead(s) ==
  LET room == IF s = "in" /\ frame # None THEN Remaining(GetVec(frame))
              ELSE FrameSize - VecSize
      n == Lesser(Len(Waiting(s)), room)
  IN
  /\ relay = "live" /\ stream[s].reading
  /\ s = "in" => delegate = "relay"
  /\ n > 0
  /\ (s = "in" /\ frame # None) \/ pool # "dry"
  /\ taken' = [taken EXCEPT ![s] = @ + n]
  /\ stream' = [stream EXCEPT ![Other(s)] =
                  Write(@, Item("data", SubSeq(Waiting(s), 1, n)))]
  /\ frame' = IF s = "in" THEN None ELSE frame
  /\ data' = IF s = "in" THEN <<>> ELSE data
  /\ UNCHANGED <<proto, delegate, got, pool, relay, client, history>>

RelayShutdown(s, st) ==
  /\ stream' = [st EXCEPT ![s].rsd = TRUE, ![s].reading = FALSE,
                          ![Other(s)] = IF pool = "dry" THEN @ ELSE Write(@, Eos)]
  /\ frame' = IF s = "in" THEN None ELSE frame
  /\ data' = IF s = "in" THEN <<>> ELSE data
  /\ UNCHANGED <<proto, delegate, taken, got, pool, client, history>>

RelayEnd(s) ==
  /\ relay = "live" /\ stream[s].reading
  /\ s = "in" => delegate = "relay"
  /\ closed[s] /\ Waiting(s) = <<>>
  /\ RelayShutdown(s, stream)
  /\ UNCHANGED relay

\* sock_relay_on_out_connected, with ft_proto_socks_stream_send_final_response
Granted(x) == IF pool = "dry" THEN x ELSE Write(x, Item("granted", <<>>))
OutConnected ==
  /\ relay = "live" /\ stream["out"].phase = "connecting"
  /\ stream' = [stream EXCEPT !["out"].phase = "up", !["out"].reading = TRUE,
                              !["in"] = Granted(@)]
  /\ delegate' = "relay"
  /\ UNCHANGED <<proto, frame, data, taken, got, pool, relay, client, history>>

\* A connection that is refused or breaks: _ft_stream_error with on_error, and
\* what the read handler does then.  (Of a stream that is being written to the
\* error ends with the first half.)
Failed(s) == OnError([stream EXCEPT ![s] = Fail(@)])
OutRefused ==
  /\ relay = "live" /\ stream["out"].phase = "connecting"
  /\ stream' = [Failed("out") EXCEPT !["out"].phase = "closed"]
  /\ UNCHANGED <<proto, delegate, frame, data, taken, got, pool, relay, client, history>>
ReadBreaks(s) ==
  /\ relay = "live" /\ stream[s].reading /\ ~stream[s].rsd
  /\ frame # None \/ pool # "dry"
  /\ ErrorBreaks(stream)
  /\ IF s = "in" /\ delegate = "socks" THEN CanRead /\ SocksShutdown(Failed(s))
     ELSE RelayShutdown(s, Failed(s))
WriteBreaks(s) ==
  /\ relay = "live" /\ stream[s].phase = "up" /\ stream[s].queue # <<>>
  /\ ~stream[s].wsd
  /\ stream' = [Failed(s) EXCEPT ![s].queue = <<>>]
  /\ ErrorBreaks(stream)
  /\ UNCHANGED <<proto, delegate, frame, data, taken, got, pool, client, history>>

\* The write handler: a frame leaves the queue.
Flush(s) ==
  LET x == Head(stream[s].queue) IN
  /\ relay = "live" /\ stream[s].phase = "up" /\ ~stream[s].wsd
  /\ stream[s].queue # <<>>
  /\ stream' = [stream EXCEPT ![s].queue = Tail(@), ![s].wsd = x = Eos]
  /\ got' = [got EXCEPT ![s] = Append(@, x)]
  /\ UNCHANGED <<proto, delegate, frame, data, taken, pool, relay, client, history>>

\* on_check_cb and sock_relays_on_remove, before each iteration of the loop.
\* ft_stream_fini of a stream that never was fails its assertions.
ToRemoveOut == Down(stream["out"])
ToRemove == Down(stream["in"]) \/ Down(stream["out"])
Check ==
  /\ relay = "live" /\ ToRemove
  /\ relay' = IF stream["out"].phase = "junk" THEN "broken" ELSE "removed"
  /\ UNCHANGED <<proto, delegate, frame, data, stream, taken, got, pool, client, history>>

-----------------------------------------------------------------------------
\* The peers and the pool.  A segment of many bytes is as many of one byte, with
\* no read between them.
PeerSends(s) ==
  /\ ~closed[s] /\ (s = "out" => stream["out"].phase = "up")
  /\ sent[s] < Len(Bytes(s))
  /\ sent' = [sent EXCEPT ![s] = @ + 1]
  /\ UNCHANGED <<proto, delegate, frame, data, stream, request, taken, closed, got,
                 pool, relay, history>>
PeerCloses(s) ==
  /\ ~closed[s] /\ (s = "out" => stream["out"].phase = "up")
  /\ closed' = [closed EXCEPT ![s] = TRUE]
  /\ UNCHANGED <<proto, delegate, frame, data, stream, request, sent, taken, got,
                 pool, relay, history>>
PoolChanges ==
  /\ MayRunDry /\ pool # "refilled"
  /\ pool' = IF pool = "full" THEN "dry" ELSE "refilled"
  /\ UNCHANGED <<proto, delegate, frame, data, stream, taken, got, relay, client, history>>

Init ==
  /\ proto = [vn |-> 0, cd |-> 0, port |-> <<0, 0>>, ip |-> <<0, 0, 0, 0>>,
              authorized |-> FALSE, selmethod |-> 255, atyp |-> 0]
  /\ delegate = "socks" /\ frame = None /\ data = <<>>
  /\ \E x \in Uninitialised : stream = [s \in Side |-> IF s = "in" THEN Open ELSE x]
  /\ request \in Requests
  /\ sent = [s \in Side |-> 0] /\ taken = [s \in Side |-> 0]
  /\ closed = [s \in Side |-> FALSE] /\ got = [s \in Side |-> <<>>]
  /\ pool = "full" /\ relay = "live"
  /\ asked = <<>> /\ truncated = FALSE /\ unparsed = FALSE

Loop == \/ SocksRead \/ SocksEnd \/ ReadAsserts \/ OutConnected \/ OutRefused \/ Check
        \/ \E s \in Side : RelayRead(s) \/ RelayEnd(s) \/ Flush(s) \/ OutOfFrames(s)
Next == \/ Loop \/ PoolChanges
        \/ \E s \in Side : ReadBreaks(s) \/ WriteBreaks(s) \/ PeerSends(s) \/ PeerCloses(s)

\* The loop goes on: connecting ends, what is ready is read and written.
Fairness == /\ WF_vars(SocksRead) /\ WF_vars(SocksEnd) /\ WF_vars(Check)
            /\ WF_vars(ReadAsserts)
            /\ WF_vars(OutConnected \/ OutRefused)
            /\ \A s \in Side : /\ WF_vars(RelayRead(s)) /\ WF_vars(RelayEnd(s))
                               /\ WF_vars(Flush(s))
Spec == Init /\ [][Next]_vars /\ Fairness
-----------------------------------------------------------------------------
\* What is read next has room in the frame (the assertions of stream.c where it
\* reads), if the request has: a name that is not empty, a user and a name that
\* fit the frame with the vecs.  With any other request the code breaks.
Vecs(r) == IF r.vn = 5 \/ r.atyp = 3 THEN 4 ELSE 3
RoomFor(r) ==
  /\ r.vn = 5 /\ r.atyp = 3 => r.host # <<>>
  /\ \A i \in DOMAIN Wire(r) : Len(Wire(r)[i]) + Vecs(r) * VecSize <= FrameSize
AlwaysRoom == RoomFor(request) /\ frame # None => Readable(frame)

\* However the client's message is cut into segments, the delegate is asked to
\* connect at most once, to the target the message says.  A name that does not
\* fit the buffer of the code, or with a NUL in it, is cut: to a target nobody
\* asked for, but never to anything but the beginning of the name.
NameFits(r) == r.atyp = 3 => /\ UpToNul(r.host) = r.host
                             /\ Len(r.host) <= HostSize - IF r.vn = 5 THEN 2 ELSE 1
Asks(t, u) == /\ t.type = u.type /\ t.port = u.port
              /\ IF NameFits(request) THEN t.host = u.host ELSE IsPrefix(t.host, u.host)
RequestExact ==
  /\ Len(asked) <= 1
  /\ ~truncated => \A i \in DOMAIN asked : Asks(asked[i], Target(request))

\* Each peer gets what it should in the order it should: the client the answer to
\* each of its messages, once, then the target's bytes; the target the client's
\* bytes behind the request; both the end of the stream last.
Relayed(s) == FlattenSeq([i \in DOMAIN got[s] |-> got[s][i].bytes])
Rank(x) == CASE x.kind \in {"method", "nomethod"} -> 1
             [] x.kind \in {"granted", "refused"} -> 2
             [] x.kind = "data" -> 3 [] x.kind = "eos" -> 4
Received(s, k) == \E i \in DOMAIN got[s] : got[s][i].kind = k
RelayInOrder ==
  /\ \A s \in Side : /\ IsPrefix(Relayed(s), IF s = "in" THEN Answer ELSE Payload)
                     /\ \A i, j \in DOMAIN got[s] : i < j =>
                          \/ Rank(got[s][i]) < Rank(got[s][j])
                          \/ got[s][i].kind = "data" /\ got[s][j].kind = "data"
  /\ Received("in", "data") /\ pool = "full" => Received("in", "granted")
  /\ Received("in", "granted") => ~Received("in", "refused")

\* When both peers have closed for good, the relay is removed in the end, unless it
\* does not read any more: for want of a frame, because it could not make out
\* the request, or because the process has been ended by one.
Gone == closed["in"] /\ (stream["out"].phase = "up" => closed["out"])
RelayEnds == <>[]Gone => <>(relay # "live" \/ unparsed \/ pool # "full")
=============================================================================
