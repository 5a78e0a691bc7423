------------------------ MODULE DawnConnectionProofs ------------------------
(***************************************************************************)
(* The two ends of a connection of DawnShard, for every number of clients, *)
(* set of requests, number of buffers and bound: the sessions of the store *)
(* and the references that the connections count go together, so that no   *)
(* pool in use is deleted, and client and shard agree on what is under     *)
(* way.                                                                    *)
(***************************************************************************)
EXTENDS DawnShard, TLAPS

\* What a client sends: a request, its first or last message, or a value.
Message == Request \cup {Hello, Bye, Value}

\* What the steps need to know of the form of the state, without the bounds.
HandlerShape ==
  [state : HandlerState, recv : Message \cup {NoMessage, Posted},
   send : {"null", "outstanding", "complete"}, value : Addr \cup {NoAddr},
   outstanding : BOOLEAN, free : Int, refs : Nat, msg : BOOLEAN, release : Addr \cup {NoAddr}]

\* The form of the state.
Shape ==
  /\ handler \in [Client -> HandlerShape]
  /\ toServer \in [Client -> Seq(Message)]
  /\ pool \in Pool
  /\ closing \subseteq Client
  /\ sessions \subseteq Client

\* SessionsMatch is kept by the steps because a connection that is being
\* closed has nothing pending: its requests are served before, or never.
Inv ==
  /\ Shape
  /\ SessionsMatch
  /\ \A c \in Client : handler[c].msg => c \notin closing

\* A program that has just started.
LEMMA InitInv == Init => Inv
<1> SUFFICES ASSUME Init PROVE Inv
  OBVIOUS
<1>1. NoHandler \in HandlerShape
  BY DEF NoHandler, HandlerShape, HandlerState
<1>2. NoPool \in Pool
  BY DEF NoPool, Pool
<1>3. Shape
  BY <1>1, <1>2 DEF Init, Shape
<1>4. \A c \in Client : handler[c].refs = 0 /\ handler[c].msg = FALSE
  BY DEF Init, NoHandler
<1> QED BY <1>3, <1>4 DEF Inv, SessionsMatch, Init

\* poll_completions receives into buffers; it changes neither references nor
\* what is pending.
LEMMA PolledShape ==
  ASSUME Inv, NEW c \in Client, NEW h \in Polled(c)
  PROVE  /\ h \in HandlerShape
         /\ h.refs = handler[c].refs /\ h.msg = handler[c].msg
         /\ Taken(c) \in [Client -> Seq(Message)]
<1>1. handler[c] \in HandlerShape /\ toServer[c] \in Seq(Message)
  BY DEF Inv, Shape
<1>2. toServer[c] # <<>> => Head(toServer[c]) \in Message /\ Tail(toServer[c]) \in Seq(Message)
  BY <1>1
<1> DEFINE come == toServer[c] # <<>>
           p == handler[c]
           r == IF AwaitsMessage(p) /\ come THEN Head(toServer[c]) ELSE p.recv
           s(sent) == IF p.send = "outstanding" /\ sent THEN "complete" ELSE p.send
           o(sent) == p.outstanding /\ ~(IF AwaitsValue(p) THEN come ELSE sent)
<1>3. r \in Message \cup {NoMessage, Posted}
  BY <1>1, <1>2 DEF HandlerShape
<1>4. \A sent \in BOOLEAN : s(sent) \in {"null", "outstanding", "complete"}
  BY <1>1 DEF HandlerShape
<1>5. \A sent \in BOOLEAN : o(sent) \in BOOLEAN
  BY Zenon
<1>6. PICK sent \in BOOLEAN :
        h = [p EXCEPT !.recv = IF AwaitsMessage(p) /\ come THEN Head(toServer[c]) ELSE @,
                      !.send = IF @ = "outstanding" /\ sent THEN "complete" ELSE @,
                      !.outstanding = @ /\ ~(IF AwaitsValue(p) THEN come ELSE sent)]
  BY Zenon DEF Polled
<1>7. h = [p EXCEPT !.recv = r, !.send = s(sent), !.outstanding = o(sent)]
  BY <1>1, <1>6 DEF HandlerShape
<1>8. Taken(c) \in [Client -> Seq(Message)]
  BY <1>2 DEF Taken, Inv, Shape
<1> HIDE DEF r, s, o
<1>9. PICK recv \in Message \cup {NoMessage, Posted}, send \in {"null", "outstanding", "complete"},
           out \in BOOLEAN :
        h = [handler[c] EXCEPT !.recv = recv, !.send = send, !.outstanding = out]
  BY <1>3, <1>4, <1>5, <1>7, Zenon
<1>10. h \in HandlerShape /\ h.refs = handler[c].refs /\ h.msg = handler[c].msg
  BY <1>1, <1>9, Zenon DEF HandlerShape
<1> QED BY <1>8, <1>10

\* A step that leaves the handlers, the sessions and the pool alone.
LEMMA Kept ==
  ASSUME Inv, handler' = handler, closing' = closing, sessions' = sessions, pool' = pool,
         toServer' \in [Client -> Seq(Message)]
  PROVE  Inv'
BY DEF Inv, Shape, SessionsMatch

\* A step of one connection that changes neither its references nor the
\* sessions, and leaves a request pending only when it is not being closed.
LEMMA HandlerStep ==
  ASSUME Inv, NEW c \in Client, NEW g \in HandlerShape,
         handler' = [handler EXCEPT ![c] = g],
         g.refs = handler[c].refs, g.msg => c \notin closing,
         closing' = closing, sessions' = sessions,
         pool' \in Pool, pool'.exists = pool.exists,
         toServer' \in [Client -> Seq(Message)]
  PROVE  Inv'
<1>1. Shape'
  BY ZenonT(30) DEF Inv, Shape
<1>2. \A d \in Client : /\ handler'[d].refs = handler[d].refs
                        /\ handler'[d].msg => d \notin closing
  BY DEF Inv, Shape
<1> QED BY <1>1, <1>2 DEF Inv, SessionsMatch

\* A request that leaves references and sessions in step: its connection is
\* not being closed.
LEMMA SessionStep ==
  ASSUME Inv, NEW c \in Client, NEW g \in HandlerShape,
         handler' = [handler EXCEPT ![c] = g],
         c \notin closing, ~g.msg, closing' = closing,
         sessions' = IF g.refs > 0 THEN sessions \cup {c} ELSE sessions \ {c},
         pool' \in Pool, sessions' # {} => pool'.exists,
         toServer' \in [Client -> Seq(Message)]
  PROVE  Inv'
<1>1. Shape'
  BY ZenonT(30) DEF Inv, Shape
<1>2. \A d \in Client : d # c => handler'[d] = handler[d]
  BY DEF Inv, Shape
<1>3. handler'[c] = g
  BY DEF Inv, Shape
<1> QED BY <1>1, <1>2, <1>3 DEF Inv, SessionsMatch

\* The end of the shard changes nothing else.
LEMMA StopInv ==
  ASSUME Inv, NEW how, Stop(how)
  PROVE  Inv'
BY Kept DEF Stop, shard, Inv, Shape

\* What clients do.
LEMMA ClientInv ==
  ASSUME Inv, NEW c \in Client,
         \/ Bootstrap(c) \/ (\E r \in Request : Call(c, r)) \/ GetReply(c) \/ ValueDone(c)
         \/ Shutdown(c) \/ Lose(c)
  PROVE  Inv'
<1>1. handler[c] \in HandlerShape /\ toServer \in [Client -> Seq(Message)] /\ pool \in Pool
  BY DEF Inv, Shape
<1>2. \A m \in Message : [toServer EXCEPT ![c] = Append(@, m)] \in [Client -> Seq(Message)]
  BY <1>1
<1>3. CASE Bootstrap(c)
  <2> DEFINE g == [handler[c] EXCEPT !.state = "queued"]
  <2>1. g \in HandlerShape /\ g.refs = handler[c].refs /\ g.msg = handler[c].msg
    BY ZenonT(30), <1>1 DEF HandlerShape, HandlerState
  <2>2. handler' = [handler EXCEPT ![c] = g]
    BY <1>3 DEF Bootstrap
  <2>3. [toServer EXCEPT ![c] = <<Hello>>] \in [Client -> Seq(Message)]
    BY <1>1 DEF Message
  <2>4. g.msg => c \notin closing
    BY ZenonT(30), <2>1 DEF Inv
  <2> HIDE DEF g
  <2> QED BY ZenonT(30), <1>1, <1>3, <2>1, <2>2, <2>3, <2>4, HandlerStep DEF Bootstrap
<1>4. CASE \E r \in Request : Call(c, r)
  <2>1. PICK r \in Request : Call(c, r)
    BY ZenonT(30), <1>4
  <2>2. toServer' \in [Client -> Seq(Message)]
    BY ZenonT(30), <1>2, <2>1 DEF Call, Message
  <2> QED BY ZenonT(30), <2>1, <2>2, Kept DEF Call, shard
<1>5. CASE GetReply(c)
  <2>1. toServer' \in [Client -> Seq(Message)]
    BY <1>1, <1>2, <1>5 DEF GetReply, Message
  <2> QED BY <2>1, <1>5, Kept DEF GetReply, shard
<1>6. CASE ValueDone(c)
  BY <1>1, <1>6, Kept DEF ValueDone, shard
<1>7. CASE Shutdown(c)
  BY <1>2, <1>7, Kept DEF Shutdown, shard, Message
<1>8. CASE Lose(c)
  <2>1. [toServer EXCEPT ![c] = <<>>] \in [Client -> Seq(Message)]
    BY <1>1
  <2> QED BY <2>1, <1>8, Kept DEF Lose, shard
<1> QED BY <1>3, <1>4, <1>5, <1>6, <1>7, <1>8

\* A tick that only moves a connection on: receiving, sending, waiting.  A
\* tick leaves a request pending only when the connection is not being closed.
LEMMA PlainTick ==
  ASSUME Inv, NEW c \in Client, c \notin closing, NEW h \in Polled(c),
         NEW g \in HandlerShape, g.refs = h.refs, Tick(c, g),
         closing' = closing, sessions' = sessions, pool' = pool
  PROVE  Inv'
BY ZenonT(30), PolledShape, HandlerStep DEF Tick, Inv, Shape

\* A connection that ends: its session is closed in the same step.
LEMMA CloseInv ==
  ASSUME Inv, NEW c \in Client, NEW g \in HandlerShape, g.refs = handler[c].refs, ~g.msg,
         CloseSession(c, g), Taken(c) \in [Client -> Seq(Message)]
  PROVE  Inv'
<1>1. Shape'
  BY ZenonT(30) DEF CloseSession, Tick, Inv, Shape
<1>2. \A d \in Client : /\ handler'[d].refs = handler[d].refs
                        /\ d # c => handler'[d] = handler[d]
                        /\ ~handler'[c].msg
  BY DEF CloseSession, Tick, Inv, Shape
<1>3. sessions' = sessions \ {c}
  BY DEF CloseSession, Inv, SessionsMatch, Shape, HandlerShape
<1> QED BY ZenonT(30), <1>1, <1>2, <1>3 DEF CloseSession, Inv, SessionsMatch

\* The ticks.
LEMMA TickInv ==
  ASSUME Inv, NEW c \in Client, TickAny(c)
  PROVE  Inv'
<1>1. c \notin closing /\ ~handler[c].msg
  BY ZenonT(30) DEF TickAny, TickInitialize, TickPost, TickHandshake, TickHandshakeDone, TickMessage,
         TickBye, TickDisconnect, TickValue, TickMiss, Ticks, BetweenHandlers
<1>2. \A h \in Polled(c) : /\ h \in HandlerShape
                           /\ h.refs = handler[c].refs /\ h.msg = handler[c].msg
                           /\ Taken(c) \in [Client -> Seq(Message)]
  BY PolledShape
<1>3. CASE TickInitialize(c)
  <2>1. PICK h \in Polled(c) : Tick(c, [h EXCEPT !.state = "POST_HANDSHAKE"])
    BY <1>3 DEF TickInitialize
  <2> DEFINE g == [h EXCEPT !.state = "POST_HANDSHAKE"]
  <2>2. g \in HandlerShape /\ g.refs = h.refs
    BY ZenonT(30), <1>2 DEF HandlerShape, HandlerState
  <2> HIDE DEF g
  <2> QED BY ZenonT(30), <1>1, <1>3, <2>1, <2>2, PlainTick DEF TickInitialize, g
<1>4. CASE TickPost(c)
  <2>1. PICK h \in Polled(c) :
          IF h.free = 0 THEN Stop("ended")
          ELSE /\ Tick(c, [h EXCEPT !.recv = Posted, !.free = @ - 1,
                             !.state = IF @ = "POST_HANDSHAKE" THEN "WAIT_HANDSHAKE"
                                       ELSE "WAIT_NEW_MSG_RECV"])
               /\ UNCHANGED <<client, toClient, closing, locked, tasks, index,
                              pool, sessions, run>>
    BY ZenonT(30), <1>4 DEF TickPost
  <2> DEFINE g == [h EXCEPT !.recv = Posted, !.free = @ - 1,
                            !.state = IF @ = "POST_HANDSHAKE" THEN "WAIT_HANDSHAKE"
                                      ELSE "WAIT_NEW_MSG_RECV"]
  <2>2. g \in HandlerShape /\ g.refs = h.refs
    <3>1. PICK f \in Int : f = h.free - 1
      BY <1>2 DEF HandlerShape
    <3>2. PICK st \in HandlerState :
            st = IF h.state = "POST_HANDSHAKE" THEN "WAIT_HANDSHAKE" ELSE "WAIT_NEW_MSG_RECV"
      BY DEF HandlerState
    <3>3. g = [h EXCEPT !.recv = Posted, !.free = f, !.state = st]
      BY <1>2, <3>1, <3>2 DEF HandlerShape
    <3> HIDE DEF g
    <3> QED BY ZenonT(30), <1>2, <3>3 DEF HandlerShape
  <2>3. CASE h.free = 0
    BY <2>1, <2>3, StopInv
  <2>4. CASE h.free # 0
    <3>1. Tick(c, g) /\ closing' = closing /\ sessions' = sessions /\ pool' = pool
      BY <2>1, <2>4
    <3> HIDE DEF g
    <3> QED BY <1>1, <2>2, <3>1, PlainTick
  <2> QED BY <2>3, <2>4
<1>5. CASE TickHandshake(c)
  <2>1. PICK h \in Polled(c) :
          IF h.free = 0 THEN Stop("ended")
          ELSE /\ Tick(c, [h EXCEPT !.state = "WAIT_HANDSHAKE_RESPONSE_COMPLETION"])
               /\ UNCHANGED <<client, closing, locked, tasks, index, pool, sessions, run>>
    BY <1>5 DEF TickHandshake
  <2> DEFINE g == [h EXCEPT !.state = "WAIT_HANDSHAKE_RESPONSE_COMPLETION"]
  <2>2. g \in HandlerShape /\ g.refs = h.refs
    BY ZenonT(30), <1>2 DEF HandlerShape, HandlerState
  <2>3. CASE h.free = 0
    BY <2>1, <2>3, StopInv
  <2>4. CASE h.free # 0
    <3>1. Tick(c, g) /\ closing' = closing /\ sessions' = sessions /\ pool' = pool
      BY <2>1, <2>4
    <3> HIDE DEF g
    <3> QED BY <1>1, <2>2, <3>1, PlainTick
  <2> QED BY <2>3, <2>4
<1>6. CASE TickHandshakeDone(c)
  <2>1. PICK h \in Polled(c) : Tick(c, [h EXCEPT !.state = "POST_MSG_RECV"])
    BY <1>6 DEF TickHandshakeDone
  <2> DEFINE g == [h EXCEPT !.state = "POST_MSG_RECV"]
  <2>2. g \in HandlerShape /\ g.refs = h.refs
    BY ZenonT(30), <1>2 DEF HandlerShape, HandlerState
  <2> HIDE DEF g
  <2> QED BY ZenonT(30), <1>1, <1>6, <2>1, <2>2, PlainTick DEF TickHandshakeDone, g
<1>7. CASE TickMessage(c)
  <2>1. PICK h \in Polled(c) :
          IF h.recv \notin Request THEN Stop("ended")
          ELSE /\ Tick(c, [h EXCEPT !.msg = TRUE, !.state = "POST_MSG_RECV"])
               /\ UNCHANGED <<client, toClient, closing, locked, tasks, index,
                              pool, sessions, run>>
    BY ZenonT(30), <1>7 DEF TickMessage
  <2> DEFINE g == [h EXCEPT !.msg = TRUE, !.state = "POST_MSG_RECV"]
  <2>2. g \in HandlerShape /\ g.refs = h.refs
    BY ZenonT(30), <1>2 DEF HandlerShape, HandlerState
  <2>3. CASE h.recv \notin Request
    BY <2>1, <2>3, StopInv
  <2>4. CASE h.recv \in Request
    <3>1. Tick(c, g) /\ closing' = closing /\ sessions' = sessions /\ pool' = pool
      BY <2>1, <2>4
    <3> HIDE DEF g
    <3> QED BY <1>1, <2>2, <3>1, PlainTick
  <2> QED BY <2>3, <2>4
<1>8. CASE TickBye(c)
  <2>1. PICK h \in Polled(c) : CloseSession(c, [h EXCEPT !.recv = NoMessage, !.free = @ + 1])
    BY ZenonT(30), <1>8 DEF TickBye
  <2> DEFINE g == [h EXCEPT !.recv = NoMessage, !.free = @ + 1]
  <2>2. g \in HandlerShape /\ g.refs = handler[c].refs /\ ~g.msg
    <3>1. PICK f \in Int : f = h.free + 1
      BY <1>2 DEF HandlerShape
    <3>2. g = [h EXCEPT !.recv = NoMessage, !.free = f]
      BY <3>1
    <3> HIDE DEF g
    <3> QED BY ZenonT(30), <1>1, <1>2, <3>2 DEF HandlerShape
  <2>3. CloseSession(c, g)
    BY <2>1
  <2> HIDE DEF g
  <2> QED BY <1>2, <2>2, <2>3, CloseInv
<1>9. CASE TickDisconnect(c)
  <2>1. handler[c] \in HandlerShape
    BY DEF Inv, Shape
  <2>2. PICK h : h \in Polled(c)
    BY DEF Polled
  <2>3. CASE Stop("ended")
    BY ZenonT(30), <2>3, StopInv
  <2>4. CASE CloseSession(c, handler[c])
    BY <1>1, <1>2, <2>1, <2>2, <2>4, CloseInv
  <2> QED BY ZenonT(30), <1>9, <2>3, <2>4 DEF TickDisconnect
<1>10. CASE TickValue(c)
  <2>1. PICK h \in Polled(c) :
          Tick(c, [h EXCEPT !.release = h.value, !.value = NoAddr, !.state = "POST_MSG_RECV"])
    BY ZenonT(30), <1>10 DEF TickValue
  <2> DEFINE g == [h EXCEPT !.release = h.value, !.value = NoAddr, !.state = "POST_MSG_RECV"]
  <2>2. g \in HandlerShape /\ g.refs = h.refs
    BY ZenonT(30), <1>2 DEF HandlerShape, HandlerState
  <2> HIDE DEF g
  <2> QED BY ZenonT(30), <1>1, <1>10, <2>1, <2>2, PlainTick DEF TickValue, g
<1>11. CASE TickMiss(c)
  <2>1. PICK h \in Polled(c) : Tick(c, h)
    BY <1>11 DEF TickMiss
  <2> QED BY <1>1, <1>2, <1>11, <2>1, PlainTick DEF TickMiss
<1> QED BY <1>3, <1>4, <1>5, <1>6, <1>7, <1>8, <1>9, <1>10, <1>11 DEF TickAny

\* What Respond makes of a handler: the request is done with.
Responded(h) == [h EXCEPT !.msg = FALSE, !.recv = NoMessage, !.free = @ + 1]

\* Responding keeps the references.
LEMMA RespondedShape ==
  ASSUME NEW h \in HandlerShape
  PROVE  Responded(h) \in HandlerShape /\ Responded(h).refs = h.refs /\ ~Responded(h).msg
<1>1. PICK f \in Int : f = h.free + 1
  BY DEF HandlerShape
<1>2. Responded(h) = [h EXCEPT !.msg = FALSE, !.recv = NoMessage, !.free = f]
  BY <1>1 DEF Responded
<1> QED BY ZenonT(30), <1>2 DEF HandlerShape

\* A posted response keeps the references as well.
LEMMA PostSendShape ==
  ASSUME NEW h \in HandlerShape
  PROVE  PostSend(h) \in HandlerShape /\ PostSend(h).refs = h.refs
<1>1. PICK f \in Int : f = h.free - 1
  BY DEF HandlerShape
<1>2. PostSend(h) = [h EXCEPT !.send = "outstanding", !.free = f]
  BY <1>1 DEF PostSend
<1> QED BY ZenonT(30), <1>2 DEF HandlerShape

\* A request that does not concern the pool as a whole.
LEMMA ServeStep ==
  ASSUME Inv, NEW c \in Client, NEW h \in HandlerShape, NEW ms, Respond(c, h, ms),
         h.refs = handler[c].refs,
         closing' = closing, sessions' = sessions,
         pool' \in Pool, pool'.exists = pool.exists, toServer' = toServer
  PROVE  Inv'
<1>1. handler' = [handler EXCEPT ![c] = Responded(h)]
  BY DEF Respond, Responded
<1>2. toServer' \in [Client -> Seq(Message)]
  BY DEF Inv, Shape
<1> QED BY ZenonT(30), <1>1, <1>2, RespondedShape, HandlerStep

\* A request that opens or closes a session.
LEMMA ServeSession ==
  ASSUME Inv, NEW c \in Client, handler[c].msg,
         NEW h \in HandlerShape, NEW ms, Respond(c, h, ms),
         sessions' = IF h.refs > 0 THEN sessions \cup {c} ELSE sessions \ {c},
         closing' = closing, pool' \in Pool, sessions' # {} => pool'.exists,
         toServer' = toServer
  PROVE  Inv'
<1>1. handler' = [handler EXCEPT ![c] = Responded(h)]
  BY DEF Respond, Responded
<1>2. toServer' \in [Client -> Seq(Message)] /\ c \notin closing
  BY DEF Inv, Shape
<1> QED BY ZenonT(30), <1>1, <1>2, RespondedShape, SessionStep

\* The store's operations on values and on its lock keep the pool in being.
LEMMA PoolKept ==
  ASSUME NEW p \in Pool, NEW k \in Key, NEW len \in Int
  PROVE  /\ \A q \in {lock_read(p), unlock(p), unlock(lock_read(p)), erase(p, k)} :
              q \in Pool /\ q.exists = p.exists
         /\ len \in Length => \A q \in put(p, k, len) \cup lock_write(p, k, len) :
                                q \in Pool /\ q.exists = p.exists
         /\ p.map[k].ptr \in Addr \cup {NoAddr}
<1>1. \A q \in Pool : /\ lock_read(q) \in Pool /\ lock_read(q).exists = q.exists
                           /\ unlock(q) \in Pool /\ unlock(q).exists = q.exists
  <2> SUFFICES ASSUME NEW q \in Pool
               PROVE  /\ lock_read(q) \in Pool /\ lock_read(q).exists = q.exists
                      /\ unlock(q) \in Pool /\ unlock(q).exists = q.exists
    OBVIOUS
  <2>1. PICK i \in Int, j \in Int : i = q.readers + 1 /\ j = q.readers - 1
    BY DEF Pool
  <2>2. /\ lock_read(q) = IF q.writer THEN q ELSE [q EXCEPT !.readers = i]
        /\ unlock(q) = IF q.writer THEN [q EXCEPT !.writer = FALSE]
                       ELSE [q EXCEPT !.readers = j]
    BY <2>1 DEF lock_read, unlock
  <2> QED BY ZenonT(30), <2>2 DEF Pool
<1>2. len \in Length => \A q \in put(p, k, len) : q \in Pool /\ q.exists = p.exists
  <2> SUFFICES ASSUME len \in Length, NEW q \in put(p, k, len), q # p
               PROVE  q \in Pool /\ q.exists = p.exists
    OBVIOUS
  <2> DEFINE len2 == IF Absent(p, k) THEN len ELSE p.map[k].len
  <2>1. PICK a \in Addr : q = [p EXCEPT !.map[k].ptr = a, !.map[k].len = len2]
    BY DEF put, scalable_malloc
  <2>2. p.map[k] \in [ptr : Addr, len : Length] \cup {NoValue}
    BY DEF Pool
  <2>3. len2 \in Length
    BY <2>2 DEF Absent
  <2> HIDE DEF len2
  <2>4. [p.map[k] EXCEPT !.ptr = a, !.len = len2] \in [ptr : Addr, len : Length]
    BY <2>2, <2>3 DEF NoValue
  <2>5. q = [p EXCEPT !.map = [p.map EXCEPT ![k] = [p.map[k] EXCEPT !.ptr = a, !.len = len2]]]
    BY <2>1, <2>2 DEF Pool
  <2>6. [p.map EXCEPT ![k] = [p.map[k] EXCEPT !.ptr = a, !.len = len2]]
          \in [Key -> [ptr : Addr, len : Length] \cup {NoValue}]
    BY ZenonT(30), <2>4 DEF Pool
  <2> QED BY ZenonT(30), <2>5, <2>6 DEF Pool
<1>3. len \in Length => \A q \in lock_write(p, k, len) : q \in Pool /\ q.exists = p.exists
  <2> SUFFICES ASSUME len \in Length, NEW q \in lock_write(p, k, len)
               PROVE  q \in Pool /\ q.exists = p.exists
    OBVIOUS
  <2>1. PICK r \in put(p, k, len) \cup {p} : q = [r EXCEPT !.writer = TRUE]
    BY DEF lock_write
  <2>2. r \in Pool /\ r.exists = p.exists
    BY <1>2
  <2> QED BY ZenonT(30), <2>1, <2>2 DEF Pool
<1>4. erase(p, k) \in Pool /\ erase(p, k).exists = p.exists
  <2>1. [p.map EXCEPT ![k] = NoValue] \in [Key -> [ptr : Addr, len : Length] \cup {NoValue}]
    BY DEF Pool
  <2> QED BY <2>1 DEF erase, Pool
<1>5. p.map[k].ptr \in Addr \cup {NoAddr}
  BY DEF Pool, NoValue
<1> QED BY <1>1, <1>2, <1>3, <1>4, <1>5

\* The requests on the pool as a whole: references and sessions change
\* together, and a pool is deleted only without sessions.
LEMMA PoolRequestInv ==
  ASSUME Inv, NEW c \in Client, Create(c) \/ Open(c) \/ Close(c) \/ Delete(c)
  PROVE  Inv'
<1> DEFINE h == handler[c]
<1>1. /\ h \in HandlerShape /\ h.refs \in Nat /\ h.msg /\ c \notin closing
      /\ pool \in Pool /\ sessions \subseteq Client
      /\ sessions # {} => pool.exists
      /\ c \in sessions <=> h.refs > 0
  BY DEF Create, Open, Close, Delete, Serves, Inv, Shape, HandlerShape, SessionsMatch
<1>2. \A n \in Nat : [h EXCEPT !.refs = n] \in HandlerShape /\ [h EXCEPT !.refs = n].refs = n
  BY <1>1 DEF HandlerShape
<1>3. create_pool(pool) \in Pool /\ create_pool(pool).exists
  BY ZenonT(30), <1>1 DEF create_pool, Pool
<1>4. NoPool \in Pool
  BY DEF NoPool, Pool, NoValue
<1>5. CASE Create(c)
  <2> DEFINE new == h.refs = 0 /\ ~pool.exists
             n == IF new \/ h.refs > 0 THEN h.refs + 1 ELSE h.refs
  <2>1. /\ pool' = IF new THEN create_pool(pool) ELSE pool
        /\ sessions' = IF new THEN sessions \cup {c} ELSE sessions
        /\ Respond(c, [h EXCEPT !.refs = n], <<IF new THEN OK ELSE Fail>>)
        /\ closing' = closing /\ toServer' = toServer
    BY <1>5 DEF Create
  <2>2. n \in Nat /\ (n > 0 <=> new \/ c \in sessions)
    BY <1>1
  <2>3. sessions' = IF n > 0 THEN sessions \cup {c} ELSE sessions \ {c}
    BY ZenonT(30), <1>1, <2>1, <2>2
  <2>4. pool' \in Pool /\ (sessions' # {} => pool'.exists)
    BY <1>1, <1>3, <2>1
  <2> HIDE DEF n, new
  <2> QED BY ZenonT(30), <1>1, <1>2, <2>1, <2>2, <2>3, <2>4, ServeSession
<1>6. CASE Open(c)
  <2> DEFINE ok == h.refs > 0 \/ pool.exists
             n == IF ok THEN h.refs + 1 ELSE h.refs
  <2>1. /\ sessions' = IF ok THEN sessions \cup {c} ELSE sessions
        /\ Respond(c, [h EXCEPT !.refs = n], <<IF ok THEN OK ELSE Fail>>)
        /\ closing' = closing /\ toServer' = toServer /\ pool' = pool
    BY <1>6 DEF Open
  <2>2. n \in Nat /\ (n > 0 <=> ok)
    BY <1>1
  <2>3. sessions' = IF n > 0 THEN sessions \cup {c} ELSE sessions \ {c}
    BY ZenonT(30), <1>1, <2>1, <2>2
  <2>4. pool' \in Pool /\ (sessions' # {} => pool'.exists)
    BY <1>1, <2>1
  <2> HIDE DEF n, ok
  <2> QED BY ZenonT(30), <1>1, <1>2, <2>1, <2>2, <2>3, <2>4, ServeSession
<1>7. CASE Close(c)
  <2>1. CASE h.refs = 0
    BY <1>7, <2>1, StopInv DEF Close
  <2>2. CASE h.refs # 0
    <3> DEFINE n == h.refs - 1
    <3>1. /\ sessions' = IF h.refs = 1 THEN sessions \ {c} ELSE sessions
          /\ Respond(c, [h EXCEPT !.refs = n], <<OK>>)
          /\ closing' = closing /\ toServer' = toServer /\ pool' = pool
      BY <1>7, <2>2 DEF Close
    <3>2. n \in Nat /\ (n > 0 <=> h.refs # 1)
      BY <1>1, <2>2
    <3>3. sessions' = IF n > 0 THEN sessions \cup {c} ELSE sessions \ {c}
      <4>1. c \in sessions
        BY <1>1, <2>2
      <4> HIDE DEF n, h
      <4> QED BY <4>1, <3>1, <3>2
    <3>4. pool' \in Pool /\ (sessions' # {} => pool'.exists)
      BY <1>1, <3>1
    <3> HIDE DEF n
    <3> QED BY ZenonT(30), <1>1, <1>2, <3>1, <3>2, <3>3, <3>4, ServeSession
  <2> QED BY <2>1, <2>2
<1>8. CASE Delete(c)
  <2>1. /\ pool' = IF h.refs = 0 /\ deletable(pool, sessions) THEN NoPool ELSE pool
        /\ \E ms : Respond(c, h, ms)
        /\ sessions' = sessions /\ closing' = closing /\ toServer' = toServer
    BY <1>8 DEF Delete
  <2>2. pool' \in Pool /\ (sessions' # {} => pool'.exists)
    BY <1>1, <1>4, <2>1 DEF deletable
  <2>3. sessions' = IF h.refs > 0 THEN sessions \cup {c} ELSE sessions \ {c}
    BY <1>1, <2>1
  <2> HIDE DEF h
  <2> QED BY ZenonT(30), <1>1, <2>1, <2>2, <2>3, ServeSession DEF h
<1> QED BY <1>5, <1>6, <1>7, <1>8

\* The other requests.
LEMMA ServeInv ==
  ASSUME Inv, NEW c \in Client, Serve(c)
  PROVE  Inv'
<1>1. handler[c] \in HandlerShape /\ pool \in Pool
  BY DEF Inv, Shape
<1>2. handler[c].recv \in Request => handler[c].recv.key \in Key /\ handler[c].recv.len \in Int
  BY DawnAssumption DEF Large
<1>16. /\ handler[c].recv \in Request /\ handler[c].recv.op = "put_advance"
           => handler[c].recv.len \in Length
       /\ handler[c].recv \in Request /\ handler[c].recv.len # 0 => handler[c].recv.len \in Length
  BY DawnAssumption DEF Length, Large
<1>3. CASE Create(c) \/ Open(c) \/ Close(c) \/ Delete(c)
  BY <1>3, PoolRequestInv
<1>4. ASSUME NEW op, Serves(c, op), op \notin {"HANDSHAKE", "CLOSE_SESSION", "value",
                                              "no_buffer", "posted"}
      PROVE  handler[c].recv \in Request
  <2>1. handler[c].recv \in Request \cup {Hello, Bye, Value, NoMessage, Posted}
    BY <1>1 DEF HandlerShape, Message
  <2>2. /\ Hello.op = "HANDSHAKE" /\ Bye.op = "CLOSE_SESSION" /\ Value.op = "value"
        /\ NoMessage.op = "no_buffer" /\ Posted.op = "posted"
    BY DEF Hello, Bye, Value, NoMessage, Posted
  <2>3. handler[c].recv.op = op
    BY <1>4 DEF Serves
  <2> QED BY <1>4, <2>1, <2>2, <2>3
<1>5. CASE PutAdvance(c)
  <2> DEFINE r == handler[c].recv
             g(a) == [handler[c] EXCEPT !.value = a, !.outstanding = TRUE,
                                        !.state = "WAIT_RECV_VALUE"]
  <2>2. CASE Stop("waiting") \/ Stop("ended")
    BY ZenonT(30), <2>2, StopInv
  <2>3. CASE ~Stop("waiting") /\ ~Stop("ended")
    <3>5. Serves(c, "put_advance")
      BY ZenonT(30), <1>5, <2>3 DEF PutAdvance, Serves
    <3>6. r.op = "put_advance" /\ r \in Request
      BY <1>4, <3>5 DEF Serves
    <3>7. r.key \in Key /\ r.len \in Int /\ r.len \in Length
      BY <1>2, <1>16, <3>6
    <3>1. /\ pool' \in lock_write(pool, r.key, r.len)
          /\ Respond(c, g(pool'.map[r.key].ptr), <<OK>>)
          /\ closing' = closing /\ sessions' = sessions /\ toServer' = toServer
      BY <1>5, <2>3 DEF PutAdvance
    <3>2. pool' \in Pool /\ pool'.exists = pool.exists
      BY <1>1, <3>1, <3>7, PoolKept
    <3>3. pool'.map[r.key].ptr \in Addr \cup {NoAddr}
      BY ZenonT(30), <3>2, <3>7, PoolKept
    <3>4. \A a \in Addr \cup {NoAddr} : g(a) \in HandlerShape /\ g(a).refs = handler[c].refs
      BY ZenonT(30), <1>1 DEF HandlerShape, HandlerState
    <3> HIDE DEF g
    <3> QED BY ZenonT(30), <3>1, <3>2, <3>3, <3>4, ServeStep
  <2> QED BY ZenonT(30), <2>2, <2>3
<1>6. CASE Put(c)
  <2>1. /\ handler[c].recv.key \in Key /\ handler[c].recv.len \in Int
        /\ handler[c].recv.len # 0 => handler[c].recv.len \in Length
    BY <1>2, <1>4, <1>6, <1>16 DEF Put, Serves
  <2>2. \/ pool' = pool
        \/ /\ pool' \in put(pool, handler[c].recv.key, handler[c].recv.len)
           /\ handler[c].recv.len # 0
    BY <1>6 DEF Put, put_refused
  <2>3. pool' \in Pool /\ pool'.exists = pool.exists
    BY <1>1, <2>1, <2>2, PoolKept
  <2> QED BY <1>1, <1>6, <2>3, ServeStep DEF Put
<1>7. CASE Get(c)
  <2> DEFINE v == pool.map[handler[c].recv.key]
             g1 == [handler[c] EXCEPT !.value = v.ptr]
             g2 == [handler[c] EXCEPT !.value = v.ptr, !.outstanding = TRUE,
                                      !.state = "WAIT_SEND_VALUE"]
  <2>1. handler[c].recv.key \in Key /\ handler[c].recv.len \in Int
    BY ZenonT(30), <1>2, <1>4, <1>7 DEF Get
  <2>2. CASE Stop("ended")
    BY <2>2, StopInv
  <2>3. CASE ~Stop("ended")
    <3>1. /\ pool' \in {unlock(lock_read(pool)), lock_read(pool)}
          /\ \E g \in {handler[c], PostSend(handler[c]), PostSend(g1), g2}, ms \in {<<Fail>>, <<OK>>,
                      <<[OK EXCEPT !.two_stage = TRUE], Value>>} : Respond(c, g, ms)
          /\ closing' = closing /\ sessions' = sessions /\ toServer' = toServer
      BY ZenonT(30), <1>7, <2>3 DEF Get
    <3>2. pool' \in Pool /\ pool'.exists = pool.exists
      BY <1>1, <2>1, <3>1, PoolKept
    <3>3. v.ptr \in Addr \cup {NoAddr}
      BY ZenonT(30), <1>1, <2>1, PoolKept
    <3>4. /\ g1 \in HandlerShape /\ g1.refs = handler[c].refs
          /\ g2 \in HandlerShape /\ g2.refs = handler[c].refs
      BY ZenonT(30), <1>1, <3>3 DEF HandlerShape, HandlerState
    <3> HIDE DEF g1, g2
    <3>5. \A g \in {handler[c], PostSend(handler[c]), PostSend(g1), g2} :
            g \in HandlerShape /\ g.refs = handler[c].refs
      BY <1>1, <3>4, PostSendShape
    <3> QED BY ZenonT(30), <3>1, <3>2, <3>5, ServeStep
  <2> QED BY <2>2, <2>3
<1>8. CASE Erase(c)
  <2>1. handler[c].recv.key \in Key /\ handler[c].recv.len \in Int
    BY <1>2, <1>4, <1>8 DEF Erase
  <2>2. pool' = erase(pool, handler[c].recv.key)
    BY <1>8 DEF Erase
  <2>3. pool' \in Pool /\ pool'.exists = pool.exists
    BY <1>1, <2>1, <2>2, PoolKept
  <2> QED BY <1>1, <1>8, <2>3, ServeStep DEF Erase
<1>9. CASE AddIndex(c)
  BY <1>1, <1>9, ServeStep DEF AddIndex
<1>10. CASE RemoveIndex(c)
  BY <1>1, <1>10, StopInv, ServeStep DEF RemoveIndex
<1>11. CASE FindTask(c)
  BY <1>1, <1>11, ServeStep DEF FindTask
<1>12. CASE FindRefused(c)
  BY <1>1, <1>12, PostSendShape, ServeStep DEF FindRefused
<1>13. CASE Info(c)
  BY <1>1, <1>13, ServeStep DEF Info
<1>14. CASE Crc32(c)
  <2>1. CASE Stop("ended")
    BY <2>1, StopInv
  <2>2. CASE ~Stop("ended")
    <3>1. pool' = unlock(lock_read(pool))
      BY <1>14, <2>2 DEF Crc32
    <3>2. handler[c].recv.key \in Key /\ handler[c].recv.len \in Int
      BY <1>2, <1>4, <1>14 DEF Crc32
    <3>3. pool' \in Pool /\ pool'.exists = pool.exists
      BY ZenonT(30), <1>1, <3>1, <3>2, PoolKept
    <3> QED BY <1>1, <1>14, <2>2, <3>3, ServeStep DEF Crc32
  <2> QED BY <2>1, <2>2
<1>15. CASE OutOfBuffers(c)
  BY <1>15, StopInv DEF OutOfBuffers
<1> QED BY <1>3, <1>5, <1>6, <1>7, <1>8, <1>9, <1>10, <1>11, <1>12, <1>13, <1>14, <1>15 DEF Serve

\* A task that is done leaves its handler as it is, but for the buffer that
\* a long response is sent from.
LEMMA TaskHandler ==
  ASSUME Inv, NEW c \in Client, TaskDone(c), ~Stop("ended")
  PROVE  \E g \in HandlerShape :
           /\ handler' = [handler EXCEPT ![c] = g]
           /\ g.state = handler[c].state /\ g.recv = handler[c].recv /\ g.refs = handler[c].refs
           /\ g.msg = handler[c].msg /\ g.release = handler[c].release
           /\ g.value = handler[c].value /\ g.outstanding = handler[c].outstanding
           /\ g.free \in {handler[c].free, handler[c].free - 1}
           /\ g.free # handler[c].free => handler[c].free > 0
<1>1. handler[c] \in HandlerShape /\ handler = [handler EXCEPT ![c] = handler[c]]
  BY DEF Inv, Shape
<1>2. CASE handler' = handler
  BY ZenonT(30), <1>1, <1>2
<1>3. CASE handler' # handler
  <2>1. handler' = [handler EXCEPT ![c] = PostSend(@)] /\ handler[c].free > 0
    BY <1>3 DEF TaskDone
  <2>2. PICK f \in Int : f = handler[c].free - 1
    BY <1>1 DEF HandlerShape
  <2>3. PICK g : g = [handler[c] EXCEPT !.send = "outstanding", !.free = f]
    OBVIOUS
  <2>4. handler' = [handler EXCEPT ![c] = g]
    BY ZenonT(30), <2>1, <2>2, <2>3 DEF PostSend
  <2>5. /\ g \in HandlerShape /\ g.free = f
        /\ g.state = handler[c].state /\ g.recv = handler[c].recv /\ g.refs = handler[c].refs
        /\ g.msg = handler[c].msg /\ g.release = handler[c].release
        /\ g.value = handler[c].value /\ g.outstanding = handler[c].outstanding
    BY ZenonT(30), <1>1, <2>3 DEF HandlerShape
  <2> QED BY ZenonT(30), <2>1, <2>2, <2>4, <2>5
<1> QED BY <1>2, <1>3

\* What else the shard does in a pass: accepting, releasing, tasks, deleting.
LEMMA PassInv ==
  ASSUME Inv,
         \/ \E c \in Client : Accept(c) \/ release_locked_value(c) \/ TaskDone(c)
         \/ DeleteHandlers
  PROVE  Inv'
<1>1. /\ \A c \in Client : handler[c] \in HandlerShape
      /\ pool \in Pool /\ toServer \in [Client -> Seq(Message)]
  BY DEF Inv, Shape
<1>2. ASSUME NEW c \in Client, Accept(c) PROVE Inv'
  <2>1. PICK f \in Int : f = BufferCount
    BY DawnAssumption
  <2> DEFINE g == [handler[c] EXCEPT !.state = "INITIALIZE", !.free = f]
  <2>2. g \in HandlerShape /\ g.refs = handler[c].refs /\ g.msg = handler[c].msg
    BY ZenonT(30), <1>1 DEF HandlerShape, HandlerState
  <2>3. handler' = [handler EXCEPT ![c] = g]
    BY ZenonT(30), <1>2, <2>1 DEF Accept
  <2>4. g.msg => c \notin closing
    BY <2>2 DEF Inv
  <2> HIDE DEF g
  <2> QED BY ZenonT(30), <1>1, <1>2, <2>2, <2>3, <2>4, HandlerStep DEF Accept
<1>3. ASSUME NEW c \in Client, release_locked_value(c) PROVE Inv'
  <2>1. CASE Stop("ended")
    BY <2>1, StopInv
  <2>2. CASE ~Stop("ended")
    <3> DEFINE g == [handler[c] EXCEPT !.release = NoAddr]
    <3>1. /\ handler' = [handler EXCEPT ![c] = g]
          /\ pool' \in {pool, unlock(pool)}
          /\ closing' = closing /\ sessions' = sessions /\ toServer' = toServer
      BY <1>3, <2>2 DEF release_locked_value
    <3>2. g \in HandlerShape /\ g.refs = handler[c].refs /\ g.msg = handler[c].msg
      BY ZenonT(30), <1>1 DEF HandlerShape
    <3>3. g.msg => c \notin closing
      BY <3>2 DEF Inv
    <3>4. unlock(pool) \in Pool /\ unlock(pool).exists = pool.exists
      <4>1. PICK j \in Int : j = pool.readers - 1
        BY <1>1 DEF Pool
      <4>2. unlock(pool) = IF pool.writer THEN [pool EXCEPT !.writer = FALSE]
                           ELSE [pool EXCEPT !.readers = j]
        BY <4>1 DEF unlock
      <4> QED BY ZenonT(30), <1>1, <4>2 DEF Pool
    <3> HIDE DEF g
    <3> QED BY ZenonT(30), <1>1, <3>1, <3>2, <3>3, <3>4, HandlerStep
  <2> QED BY <2>1, <2>2
<1>4. ASSUME NEW c \in Client, TaskDone(c) PROVE Inv'
  <2>1. CASE Stop("ended")
    BY ZenonT(30), <2>1, StopInv
  <2>2. CASE ~Stop("ended")
    <3>1. PICK g \in HandlerShape : /\ handler' = [handler EXCEPT ![c] = g]
                                    /\ g.refs = handler[c].refs /\ g.msg = handler[c].msg
      BY ZenonT(30), <1>4, <2>2, TaskHandler
    <3>2. g.msg => c \notin closing
      BY <3>1 DEF Inv
    <3>3. closing' = closing /\ sessions' = sessions /\ pool' = pool /\ toServer' = toServer
      BY <1>4, <2>2 DEF TaskDone
    <3> QED BY ZenonT(30), <1>1, <3>1, <3>2, <3>3, HandlerStep
  <2> QED BY <2>1, <2>2
<1>5. CASE DeleteHandlers
  <2>1. NoHandler \in HandlerShape /\ NoHandler.refs = 0 /\ ~NoHandler.msg
    BY DEF NoHandler, HandlerShape, HandlerState
  <2>2. Shape'
    BY <1>1, <1>5, <2>1 DEF DeleteHandlers, Inv, Shape
  <2>3. \A c \in Client : handler'[c] = IF c \in closing THEN NoHandler ELSE handler[c]
    BY <1>5 DEF DeleteHandlers
  <2> QED BY <1>5, <2>1, <2>2, <2>3 DEF DeleteHandlers, Inv, SessionsMatch
<1> QED BY <1>2, <1>3, <1>4, <1>5

\* No step of clients or shard breaks the invariant.
LEMMA NextInv == Inv /\ [Next]_vars => Inv'
<1> SUFFICES ASSUME Inv, [Next]_vars PROVE Inv'
  OBVIOUS
<1>1. CASE Next
  BY <1>1, ClientInv, TickInv, ServeInv, PassInv DEF Next
<1>2. CASE UNCHANGED vars
  BY <1>2, Kept DEF vars, shard, Inv, Shape
<1> QED BY <1>1, <1>2

\* In every run of a shard with any number of clients, a session of the store
\* is open exactly while its connection holds references to the pool and is
\* not being closed, and delete_pool never takes a pool that is open.
THEOREM SessionsKept == Spec => []SessionsMatch
<1>1. Inv => SessionsMatch
  BY DEF Inv
<1> QED BY <1>1, InitInv, NextInv, PTL DEF Spec
-----------------------------------------------------------------------------
\* A connection: where its one call, its one message and its one value are.

\* The states of a handler that transfers a value.
ValueState == {"WAIT_SEND_VALUE", "WAIT_RECV_VALUE"}

\* The states of a handler before its handshake is answered, and after it
\* while it does not take a value.
Early == {"queued", "INITIALIZE", "POST_HANDSHAKE", "WAIT_HANDSHAKE"}
Late == {"WAIT_HANDSHAKE_RESPONSE_COMPLETION", "POST_MSG_RECV", "WAIT_NEW_MSG_RECV",
         "WAIT_SEND_VALUE"}

\* A handler is in the state its buffers say it is in, and no buffer is freed
\* that was not allocated.
HandlerFits(h, closed) ==
  /\ closed \/ (h.recv = Posted <=> h.state \in {"WAIT_HANDSHAKE", "WAIT_NEW_MSG_RECV"})
  /\ h.outstanding <=> h.state \in ValueState
  /\ h.msg => h.recv \in Request /\ h.state = "POST_MSG_RECV" /\ ~closed
  /\ h.release # NoAddr => h.state = "POST_MSG_RECV" /\ ~h.msg
  /\ h.state \in {"none", "queued"} => h.recv = NoMessage
  /\ 0 <= h.free /\ h.free <= BufferCount
  /\ h.recv # NoMessage => h.free < BufferCount

\* The answers there are: one message, or one and the value that follows it.
Answers == {<<OK>>, <<Fail>>, <<[OK EXCEPT !.two_stage = TRUE], Value>>}

\* The answer out fits the request op and the handler's state st.
Fits(op, out, st) ==
  /\ out \in Answers
  /\ op = "put_advance" => out = <<OK>> /\ st = "WAIT_RECV_VALUE"
  /\ op # "put_advance" => st \in Late

\* What a client waits for: its request is on the way, or pending, or a task,
\* or answered.
Waits(k, in, out, h, task) ==
  \/ in = <<k.req>> /\ out = <<>> /\ ~h.msg /\ ~task /\ h.state \in Late
  \/ in = <<>> /\ out = <<>> /\ h.msg /\ h.recv = k.req /\ ~task
  \/ in = <<>> /\ out = <<>> /\ ~h.msg /\ task /\ k.req.op = "find" /\ h.state \in Late
  \/ in = <<>> /\ ~h.msg /\ ~task /\ Fits(k.req.op, out, h.state)

\* Both ends of a connection agree: client k, what is on the way in and out,
\* handler h, whether a task is there for it and whether it is being closed.
Linked(k, in, out, h, task, closed) ==
  \/ k.state = "lost" /\ in = <<>> /\ out = <<>>
  \/ /\ k.state = "STOPPED" /\ out = <<>> /\ ~h.msg /\ ~task
     /\ \/ in = <<Bye>> /\ ~closed /\ h.state \in Late
        \/ in = <<>> /\ (closed \/ h.state = "none")
  \/ k.state = "wait" /\ ~closed /\ k.req \in Request /\ Waits(k, in, out, h, task)
  \/ /\ ~h.msg /\ ~task /\ ~closed /\ k.req = NoRequest
     /\ \/ k.state = "off" /\ in = <<>> /\ out = <<>> /\ h = NoHandler
        \/ /\ k.state = "HANDSHAKE_GET_RESPONSE"
           /\ \/ in = <<Hello>> /\ out = <<>> /\ h.state \in Early
              \/ in = <<>> /\ out = <<OK>> /\ h.state \in Late
        \/ k.state = "READY" /\ in = <<>> /\ out = <<>> /\ h.state \in Late
        \/ k.state = "recv_value" /\ in = <<>> /\ out = <<Value>> /\ h.state \in Late
        \/ /\ k.state = "send_value" /\ out = <<>>
           /\ \/ in = <<Value>> /\ h.state = "WAIT_RECV_VALUE"
              \/ in = <<>> /\ h.state \in Late

\* A reference the client has given up but the handler still counts, or one
\* that the handler counts but the client does not know of yet.
InTransit(k, out) ==
  IF /\ k.state = "wait"
     /\ IF out = <<>> THEN k.req.op = "close"
        ELSE k.req.op \in {"create", "open"} /\ Head(out).ok
  THEN 1 ELSE 0

\* The client's handles are among the references that the handler counts.
Backed(k, out, h) ==
  /\ k.handles + InTransit(k, out) <= h.refs
  /\ k.state \in {"off", "HANDSHAKE_GET_RESPONSE", "STOPPED", "lost"} => k.handles = 0

\* All that holds of one connection.
Connected(c) ==
  /\ HandlerFits(handler[c], c \in closing)
  /\ Linked(client[c], toServer[c], toClient[c], handler[c], c \in tasks, c \in closing)
  /\ Backed(client[c], toClient[c], handler[c])

ClientShape ==
  [state : ClientState, req : Request \cup {NoRequest}, handles : Nat, made : Nat]

\* It holds of every connection.
Connections ==
  /\ client \in [Client -> ClientShape]
  /\ toClient \in [Client -> Seq(Reply \cup {Value})]
  /\ tasks \subseteq Client
  /\ \A c \in Client : Connected(c)

-----------------------------------------------------------------------------
\* The locked values.

\* An entry of _locked_values is there with a count, or is not there.
Entries ==
  locked \in [Addr -> [session : Client, count : Nat \ {0}] \cup {Unlocked}]

\* The counts of _locked_values are the transfers under way.
Counted == Entries /\ TransfersCounted

\* The index of the pools and the thread of the shard.
Rest ==
  /\ index \in [map : BOOLEAN, of : SUBSET Client]
  /\ run \in {"running", "waiting", "ended"}

-----------------------------------------------------------------------------
\* The kinds of messages are told apart.
LEMMA Distinct ==
  /\ Hello \notin Request /\ Bye \notin Request /\ Value \notin Request
  /\ Posted \notin Message /\ NoMessage \notin Message /\ NoMessage # Posted
  /\ Hello # Bye /\ Hello # Value /\ Bye # Value
  /\ Value \notin Reply /\ NoRequest.op = "none"
<1>1. \A r \in Request : DOMAIN r = {"op", "key", "len"}
  BY DawnAssumption
<1>2. \A m \in {Hello, Bye, Value, Posted, NoMessage} : DOMAIN m = {"op"}
  BY DEF Hello, Bye, Value, Posted, NoMessage
<1>3. \A m \in {Hello, Bye, Value, Posted, NoMessage} : m \notin Request
  BY <1>1, <1>2
<1>4. /\ Hello.op = "HANDSHAKE" /\ Bye.op = "CLOSE_SESSION" /\ Value.op = "value"
      /\ NoMessage.op = "no_buffer" /\ Posted.op = "posted" /\ NoRequest.op = "none"
  BY DEF Hello, Bye, Value, NoMessage, Posted, NoRequest
<1>5. \A m \in Reply : m.op = "reply"
  BY DEF Reply
<1> QED BY <1>3, <1>4, <1>5 DEF Message

\* What an answer consists of.
LEMMA AnswerParts ==
  /\ \A out \in Answers :
       /\ out # <<>> /\ out \in Seq(Reply \cup {Value})
       /\ Head(out) \in Reply
       /\ Tail(out) = IF Head(out).two_stage THEN <<Value>> ELSE <<>>
       /\ Head(out).two_stage => out # <<OK>>
  /\ Head(<<OK>>) = OK /\ OK.ok /\ ~OK.two_stage
  /\ Fail \in Reply /\ ~Fail.ok /\ ~Fail.two_stage /\ Head(<<Fail>>) = Fail
  /\ LET two == [OK EXCEPT !.two_stage = TRUE]
     IN  two \in Reply /\ two.ok /\ two.two_stage /\ Head(<<two, Value>>) = two
  /\ <<>> \notin Answers /\ <<Value>> \notin Answers
<1> DEFINE two == [OK EXCEPT !.two_stage = TRUE]
<1>1. OK \in Reply /\ OK.ok = TRUE /\ OK.two_stage = FALSE
  BY DEF OK, Reply
<1>2. Fail \in Reply /\ Fail.ok = FALSE /\ Fail.two_stage = FALSE
  BY ZenonT(30) DEF Fail, OK, Reply
<1>3. two \in Reply /\ two.ok = TRUE /\ two.two_stage = TRUE
  BY ZenonT(30) DEF OK, Reply
<1> HIDE DEF two
<1>4. /\ \A x : <<x>> # <<>> /\ Head(<<x>>) = x /\ Tail(<<x>>) = <<>>
      /\ \A x, y : <<x, y>> # <<>> /\ Head(<<x, y>>) = x /\ Tail(<<x, y>>) = <<y>>
  OBVIOUS
<1>5. /\ \A x \in Reply \cup {Value} : <<x>> \in Seq(Reply \cup {Value})
      /\ \A x, y \in Reply \cup {Value} : <<x, y>> \in Seq(Reply \cup {Value})
  OBVIOUS
<1>6. <<OK>> \in Seq(Reply \cup {Value}) /\ <<Fail>> \in Seq(Reply \cup {Value})
      /\ <<two, Value>> \in Seq(Reply \cup {Value})
  BY <1>1, <1>2, <1>3, <1>5
<1>7. Answers = {<<OK>>, <<Fail>>, <<two, Value>>}
  BY DEF Answers, two
<1>8. ASSUME NEW out \in Answers
      PROVE  /\ out # <<>> /\ out \in Seq(Reply \cup {Value})
             /\ Head(out) \in Reply
             /\ Tail(out) = IF Head(out).two_stage THEN <<Value>> ELSE <<>>
             /\ Head(out).two_stage => out # <<OK>>
  <2>1. CASE out = <<OK>>
    BY <2>1, <1>1, <1>4, <1>6, Zenon
  <2>2. CASE out = <<Fail>>
    BY <2>2, <1>2, <1>4, <1>6, Zenon
  <2>3. CASE out = <<two, Value>>
    <3>1. out # <<OK>>
      BY <2>3
    <3> QED BY <2>3, <3>1, <1>3, <1>4, <1>6, Zenon
  <2> QED BY <1>7, <2>1, <2>2, <2>3
<1>9. <<Value>> \notin Answers
  <2>1. <<Value>> # <<OK>> /\ <<Value>> # <<Fail>> /\ <<Value>> # <<two, Value>>
    BY <1>1, <1>2, Distinct
  <2> QED BY <2>1, <1>7
<1> QED BY <1>1, <1>2, <1>3, <1>4, <1>8, <1>9, Zenon DEF two

\* A connection just made, or none.
LEMMA NoHandlerFits == HandlerFits(NoHandler, FALSE) /\ HandlerFits([NoHandler EXCEPT !.state = "queued"], FALSE)
BY Distinct, DawnAssumption DEF HandlerFits, NoHandler, ValueState

\* Moving on within the handshake, or after it, is not seen at the other end.
LEMMA LinkedMove ==
  ASSUME NEW k, NEW in, NEW out, NEW h, NEW g, NEW task \in BOOLEAN, NEW closed \in BOOLEAN,
         Linked(k, in, out, h, task, closed), ~h.msg, ~g.msg,
         h.state \in Early => g.state \in Early,
         h.state \in Late => g.state \in Late,
         h.state = "WAIT_RECV_VALUE" => g.state = "WAIT_RECV_VALUE",
         h.state # "none"
  PROVE  Linked(k, in, out, g, task, closed)
<1>1. h # NoHandler /\ h.state # "none"
  BY DEF NoHandler
<1>2. ASSUME k.state = "wait", Waits(k, in, out, h, task) PROVE Waits(k, in, out, g, task)
  BY <1>2 DEF Waits, Fits
<1> QED BY <1>1, <1>2 DEF Linked

\* Short sequences.
LEMMA Single ==
  \A x : /\ Append(<<>>, x) = <<x>> /\ <<>> \o <<x>> = <<x>>
         /\ <<x>> # <<>> /\ Head(<<x>>) = x /\ Tail(<<x>>) = <<>>
         /\ \A y : <<>> \o <<x, y>> = <<x, y>>
OBVIOUS

\* Only a client that waits has a reference in transit.
LEMMA NothingInTransit ==
  ASSUME NEW k, NEW out, k.state # "wait"
  PROVE  InTransit(k, out) = 0
BY ZenonT(30) DEF InTransit

\* A step of one connection leaves the others alone.
Others(c) ==
  \A d \in Client \ {c} :
    /\ client'[d] = client[d] /\ toServer'[d] = toServer[d]
    /\ toClient'[d] = toClient[d] /\ handler'[d] = handler[d]
    /\ d \in tasks' <=> d \in tasks
    /\ d \in closing' <=> d \in closing

\* A step at one connection leaves the others as they are.
LEMMA OneMoves ==
  ASSUME Connections, NEW c \in Client, Others(c),
         client' \in [Client -> ClientShape],
         toClient' \in [Client -> Seq(Reply \cup {Value})],
         tasks' \subseteq Client,
         HandlerFits(handler'[c], c \in closing'),
         Linked(client'[c], toServer'[c], toClient'[c], handler'[c], c \in tasks', c \in closing'),
         Backed(client'[c], toClient'[c], handler'[c])
  PROVE  Connections'
<1>1. Connected(c)'
  BY ZenonT(30) DEF Connected
<1>2. ASSUME NEW d \in Client, d # c PROVE Connected(d)'
  <2>1. Connected(d)
    BY DEF Connections
  <2>2. /\ client'[d] = client[d] /\ toServer'[d] = toServer[d]
        /\ toClient'[d] = toClient[d] /\ handler'[d] = handler[d]
        /\ (d \in tasks') = (d \in tasks) /\ (d \in closing') = (d \in closing)
    BY <1>2 DEF Others
  <2> QED BY <2>1, <2>2 DEF Connected
<1> QED BY ZenonT(30), <1>1, <1>2 DEF Connections

\* Steps of a client: calls, replies, values, the end.
LEMMA ClientConnections ==
  ASSUME Inv, Connections, NEW c \in Client,
         \/ Bootstrap(c) \/ (\E r \in Request : Call(c, r)) \/ GetReply(c) \/ ValueDone(c)
         \/ Shutdown(c) \/ Lose(c)
  PROVE  Connections'
<1> DEFINE k == client[c]
           in == toServer[c]
           out == toClient[c]
           h == handler[c]
<1>1. /\ client \in [Client -> ClientShape] /\ toServer \in [Client -> Seq(Message)]
      /\ toClient \in [Client -> Seq(Reply \cup {Value})] /\ tasks \subseteq Client
      /\ handler \in [Client -> HandlerShape]
      /\ k \in ClientShape /\ h \in HandlerShape
  BY ZenonT(30) DEF Inv, Shape, Connections
<1>2. /\ HandlerFits(h, c \in closing)
      /\ Linked(k, in, out, h, c \in tasks, c \in closing)
      /\ Backed(k, out, h)
  BY DEF Connections, Connected
<1>3. CASE Bootstrap(c)
  <2>1. k.state = "off" /\ h = NoHandler /\ out = <<>> /\ k.req = NoRequest /\ c \notin tasks
        /\ c \notin closing
    BY <1>2, <1>3 DEF Linked, Bootstrap
  <2>2. /\ client' = [client EXCEPT ![c] = [k EXCEPT !.state = "HANDSHAKE_GET_RESPONSE"]]
        /\ toServer' = [toServer EXCEPT ![c] = <<Hello>>]
        /\ handler' = [handler EXCEPT ![c] = [NoHandler EXCEPT !.state = "queued"]]
        /\ toClient' = toClient /\ tasks' = tasks /\ closing' = closing
    BY <1>1, <1>3, <2>1 DEF Bootstrap
  <2>3. [k EXCEPT !.state = "HANDSHAKE_GET_RESPONSE"] \in ClientShape
    BY ZenonT(30), <1>1 DEF ClientShape, ClientState
  <2>4. Others(c)
    BY <1>1, <2>2 DEF Others
  <2>5. /\ client'[c].state = "HANDSHAKE_GET_RESPONSE" /\ client'[c].req = k.req
        /\ client'[c].handles = k.handles
        /\ toServer'[c] = <<Hello>> /\ toClient'[c] = <<>>
        /\ handler'[c] = [NoHandler EXCEPT !.state = "queued"]
    BY <1>1, <2>1, <2>2 DEF ClientShape
  <2>6. handler'[c].state = "queued" /\ handler'[c].msg = FALSE /\ handler'[c].refs = NoHandler.refs
    BY <2>5 DEF NoHandler
  <2>7. HandlerFits(handler'[c], c \in closing')
    BY <2>1, <2>2, <2>5, NoHandlerFits DEF HandlerFits
  <2>8. Linked(client'[c], toServer'[c], toClient'[c], handler'[c], c \in tasks', c \in closing')
    BY <2>1, <2>2, <2>5, <2>6 DEF Linked, Early
  <2>9. Backed(client'[c], toClient'[c], handler'[c])
    <3>1. k.handles = 0
      BY <1>2, <2>1 DEF Backed
    <3> QED BY <3>1, <2>5, <2>6 DEF Backed, InTransit, NoHandler
  <2> QED BY ZenonT(30), <1>1, <2>2, <2>3, <2>4, <2>7, <2>8, <2>9, OneMoves
<1>4. CASE \E r \in Request : Call(c, r)
  <2>1. PICK r \in Request : Call(c, r)
    BY <1>4
  <2>2. k.state = "READY" /\ in = <<>> /\ out = <<>> /\ h.state \in Late /\ ~h.msg
        /\ c \notin tasks /\ c \notin closing
    BY ZenonT(30), <1>2, <2>1 DEF Linked, Call
  <2>3. PICK n \in Nat, m \in Nat : n = (IF r.op = "close" THEN k.handles - 1 ELSE k.handles)
                                  /\ m = k.made + 1
    <3>1. k.handles \in Nat /\ k.made \in Nat
      BY ZenonT(30), <1>1 DEF ClientShape
    <3>2. r.op = "close" => k.handles > 0
      BY ZenonT(30), <2>1 DEF Call
    <3> QED BY <3>1, <3>2
  <2>4. /\ client' = [client EXCEPT ![c] = [k EXCEPT !.state = "wait", !.req = r, !.made = m,
                                                     !.handles = n]]
        /\ toServer' = [toServer EXCEPT ![c] = <<r>>]
        /\ toClient' = toClient /\ tasks' = tasks /\ closing' = closing /\ handler' = handler
    <3>1. client' = [client EXCEPT ![c] = [k EXCEPT !.state = "wait", !.req = r, !.made = m,
                                                    !.handles = n]]
      BY ZenonT(30), <1>1, <2>1, <2>3 DEF Call, ClientShape
    <3>2. toServer' = [toServer EXCEPT ![c] = Append(in, r)]
      BY ZenonT(30), <1>1, <2>1 DEF Call
    <3>3. Append(in, r) = <<r>>
      BY <2>2, Single, Zenon
    <3>4. toClient' = toClient /\ tasks' = tasks /\ closing' = closing /\ handler' = handler
      BY ZenonT(30), <2>1 DEF Call, shard
    <3> QED BY <3>1, <3>2, <3>3, <3>4, Zenon
  <2>5. [k EXCEPT !.state = "wait", !.req = r, !.made = m, !.handles = n] \in ClientShape
    BY ZenonT(30), <1>1 DEF ClientShape, ClientState
  <2>6. Others(c)
    BY <1>1, <2>4 DEF Others
  <2>7. /\ client'[c].state = "wait" /\ client'[c].req = r /\ client'[c].handles = n
        /\ toServer'[c] = <<r>> /\ toClient'[c] = <<>> /\ handler'[c] = h
    BY <1>1, <2>2, <2>4 DEF ClientShape
  <2>8. Linked(client'[c], toServer'[c], toClient'[c], handler'[c], c \in tasks', c \in closing')
    BY <2>2, <2>4, <2>7 DEF Linked, Waits
  <2>9. Backed(client'[c], toClient'[c], handler'[c])
    <3>1. k.handles <= h.refs /\ k.handles \in Nat /\ h.refs \in Nat
      BY <1>1, <1>2, <2>2 DEF Backed, InTransit, ClientShape, HandlerShape
    <3>2. InTransit(client'[c], toClient'[c]) = IF r.op = "close" THEN 1 ELSE 0
      BY ZenonT(30), <2>7 DEF InTransit
    <3> QED BY <2>3, <2>7, <3>1, <3>2 DEF Backed
  <2> QED BY ZenonT(30), <1>1, <1>2, <2>4, <2>5, <2>6, <2>7, <2>8, <2>9, OneMoves
<1>5. CASE GetReply(c)
  <2> DEFINE m == Head(out)
             got == k.req.op \in {"create", "open"} /\ m.ok
  <2>1. k.state \in {"HANDSHAKE_GET_RESPONSE", "wait"} /\ out # <<>>
    BY <1>5 DEF GetReply
  <2>2. /\ ~h.msg /\ c \notin tasks /\ c \notin closing /\ in = <<>>
        /\ \/ k.state = "HANDSHAKE_GET_RESPONSE" /\ k.req = NoRequest /\ out = <<OK>> /\ h.state \in Late
           \/ k.state = "wait" /\ Fits(k.req.op, out, h.state)
    BY ZenonT(30), <1>2, <2>1 DEF Linked, Waits
  <2>3. out \in Answers
    BY ZenonT(30), <2>2 DEF Fits, Answers
  <2>4. /\ m \in Reply
        /\ Tail(out) = IF m.two_stage THEN <<Value>> ELSE <<>>
        /\ m.two_stage => out # <<OK>>
        /\ out = <<OK>> => m.ok /\ ~m.two_stage
    BY <2>3, AnswerParts, Zenon
  <2>5. /\ k.req.op = "put_advance" => m.ok /\ ~m.two_stage /\ h.state = "WAIT_RECV_VALUE"
        /\ k.req.op # "put_advance" => h.state \in Late
    BY <2>2, <2>4, Distinct DEF Fits
  <2>6. AfterReply(c, m) = IF k.req.op = "put_advance" THEN "send_value"
                           ELSE IF m.two_stage THEN "recv_value" ELSE "READY"
    BY <2>5 DEF AfterReply
  <2>7. PICK st \in {"send_value", "recv_value", "READY"} : st = AfterReply(c, m)
    BY <2>6
  <2>8. PICK n \in Nat : n = IF got THEN k.handles + 1 ELSE k.handles
    <3>1. k.handles \in Nat
      BY <1>1 DEF ClientShape
    <3> HIDE DEF k, got
    <3>2. CASE got
      BY <3>1, <3>2
    <3>3. CASE ~got
      BY <3>1, <3>3
    <3> QED BY <3>2, <3>3
  <2>9. /\ client' = [client EXCEPT ![c] = [k EXCEPT !.state = st, !.req = NoRequest, !.handles = n]]
        /\ toServer' = [toServer EXCEPT ![c] = IF st = "send_value" THEN <<Value>> ELSE <<>>]
        /\ toClient' = [toClient EXCEPT ![c] = Tail(out)]
        /\ tasks' = tasks /\ closing' = closing /\ handler' = handler
    <3>1. client' = [client EXCEPT ![c] = [k EXCEPT !.state = st, !.req = NoRequest, !.handles = n]]
      BY ZenonT(30), <1>1, <1>5, <2>7, <2>8 DEF GetReply
    <3>2. toServer' = [toServer EXCEPT ![c] = IF st = "send_value" THEN <<Value>> ELSE <<>>]
      <4>1. toServer' = IF st = "send_value" THEN [toServer EXCEPT ![c] = Append(in, Value)]
                        ELSE toServer
        BY <1>1, <1>5, <2>7 DEF GetReply
      <4>2. toServer = [toServer EXCEPT ![c] = <<>>]
        BY <1>1, <2>2
      <4>3. Append(in, Value) = <<Value>>
        BY <2>2, Single, Zenon
      <4> HIDE DEF in
      <4> QED BY ZenonT(30), <4>1, <4>2, <4>3
    <3> QED BY <3>1, <3>2, <1>5 DEF GetReply, shard
  <2>10. [k EXCEPT !.state = st, !.req = NoRequest, !.handles = n] \in ClientShape
    BY ZenonT(30), <1>1 DEF ClientShape, ClientState
  <2>11. Others(c)
    BY <1>1, <2>9 DEF Others
  <2>12. /\ client'[c].state = st /\ client'[c].req = NoRequest /\ client'[c].handles = n
         /\ toServer'[c] = (IF st = "send_value" THEN <<Value>> ELSE <<>>)
         /\ toClient'[c] = Tail(out) /\ handler'[c] = h
    BY <1>1, <2>9 DEF ClientShape
  <2>13. toClient' \in [Client -> Seq(Reply \cup {Value})]
    <3>1. out \in Seq(Reply \cup {Value})
      BY <1>1
    <3>2. Tail(out) \in Seq(Reply \cup {Value})
      <4> HIDE DEF out, m
      <4> QED BY <2>1, <3>1
    <3> QED BY <1>1, <2>9, <3>2
  <2>14. Linked(client'[c], toServer'[c], toClient'[c], handler'[c], c \in tasks', c \in closing')
    <3> HIDE DEF m
    <3>1. CASE k.req.op = "put_advance"
      BY ZenonT(30), <3>1, <2>2, <2>4, <2>5, <2>6, <2>7, <2>9, <2>12 DEF Linked
    <3>2. CASE k.req.op # "put_advance" /\ m.two_stage
      BY ZenonT(30), <3>2, <2>2, <2>4, <2>5, <2>6, <2>7, <2>9, <2>12 DEF Linked
    <3>3. CASE k.req.op # "put_advance" /\ ~m.two_stage
      BY ZenonT(30), <3>3, <2>2, <2>4, <2>5, <2>6, <2>7, <2>9, <2>12 DEF Linked
    <3> QED BY <3>1, <3>2, <3>3
  <2>15. Backed(client'[c], toClient'[c], handler'[c])
    <3>1. n <= h.refs
      <4>1. k.handles \in Nat /\ h.refs \in Nat
        BY ZenonT(30), <1>1 DEF ClientShape, HandlerShape
      <4>2. got => InTransit(k, out) = 1
        BY ZenonT(30), <2>1, <2>2, Distinct DEF InTransit
      <4>3. InTransit(k, out) \in {0, 1} /\ k.handles + InTransit(k, out) <= h.refs
        BY <1>2 DEF InTransit, Backed
      <4>4. CASE got
        <5>1. n = k.handles + 1 /\ InTransit(k, out) = 1
          BY <2>8, <4>2, <4>4
        <5> HIDE DEF k, h, got, out
        <5> QED BY <4>1, <4>3, <5>1
      <4>5. CASE ~got
        <5>1. n = k.handles
          BY ZenonT(30), <2>8, <4>5
        <5> HIDE DEF k, h, got, out
        <5> QED BY <4>1, <4>3, <5>1
      <4> QED BY <4>4, <4>5
    <3>2. InTransit(client'[c], toClient'[c]) = 0
      BY <2>7, <2>12, NothingInTransit
    <3>3. n \in Nat /\ client'[c].state \in {"send_value", "recv_value", "READY"}
      BY <2>7, <2>12
    <3>4. n + InTransit(client'[c], toClient'[c]) <= h.refs
      BY <3>1, <3>2, <3>3
    <3> QED BY <2>12, <3>3, <3>4 DEF Backed
  <2> QED BY ZenonT(30), <1>1, <1>2, <2>9, <2>10, <2>11, <2>12, <2>13, <2>14, <2>15, OneMoves
<1>6. CASE ValueDone(c)
  <2>1. /\ ~h.msg /\ c \notin tasks /\ c \notin closing /\ in = <<>> /\ k.req = NoRequest
        /\ h.state \in Late
        /\ IF k.state = "recv_value" THEN out = <<Value>> ELSE out = <<>>
        /\ k.state \in {"recv_value", "send_value"}
    <3>1. k.state \in {"recv_value", "send_value"} /\ (k.state = "send_value" => in = <<>>)
      BY <1>6 DEF ValueDone
    <3> HIDE DEF k, in, out, h
    <3> QED BY <1>2, <3>1 DEF Linked
  <2>2. /\ client' = [client EXCEPT ![c] = [k EXCEPT !.state = "READY"]]
        /\ toServer' = toServer /\ toClient' = [toClient EXCEPT ![c] = <<>>]
        /\ tasks' = tasks /\ closing' = closing /\ handler' = handler
    <3>1. client' = [client EXCEPT ![c] = [k EXCEPT !.state = "READY"]]
      BY <1>1, <1>6 DEF ValueDone
    <3>2. toClient' = [toClient EXCEPT ![c] = IF k.state = "recv_value" THEN Tail(out) ELSE out]
      BY <1>1, <1>6 DEF ValueDone
    <3>3. (IF k.state = "recv_value" THEN Tail(out) ELSE out) = <<>>
      BY <2>1, Single, Zenon
    <3>4. toServer' = toServer /\ tasks' = tasks /\ closing' = closing /\ handler' = handler
      BY <1>6 DEF ValueDone, shard
    <3> QED BY <3>1, <3>2, <3>3, <3>4, Zenon
  <2>3. [k EXCEPT !.state = "READY"] \in ClientShape
    BY ZenonT(30), <1>1 DEF ClientShape, ClientState
  <2>4. Others(c)
    BY <1>1, <2>2 DEF Others
  <2>5. /\ client'[c].state = "READY" /\ client'[c].req = NoRequest
        /\ client'[c].handles = k.handles
        /\ toServer'[c] = <<>> /\ toClient'[c] = <<>> /\ handler'[c] = h
    BY <1>1, <2>1, <2>2 DEF ClientShape
  <2>6. Linked(client'[c], toServer'[c], toClient'[c], handler'[c], c \in tasks', c \in closing')
    BY <2>1, <2>2, <2>5 DEF Linked
  <2>7. Backed(client'[c], toClient'[c], handler'[c])
    <3>1. InTransit(client'[c], toClient'[c]) = 0 /\ InTransit(k, out) = 0
      BY ZenonT(30), <2>1, <2>5, NothingInTransit
    <3>2. k.handles + InTransit(k, out) <= h.refs
      BY <1>2 DEF Backed
    <3>3. k.handles + InTransit(client'[c], toClient'[c]) <= h.refs
      BY <3>1, <3>2
    <3> QED BY <2>5, <3>3 DEF Backed
  <2>8. toClient' \in [Client -> Seq(Reply \cup {Value})]
    BY <1>1, <2>2
  <2> QED BY ZenonT(30), <1>1, <1>2, <2>2, <2>3, <2>4, <2>5, <2>6, <2>7, <2>8, OneMoves
<1>7. CASE Shutdown(c)
  <2>1. k.state = "READY" /\ in = <<>> /\ out = <<>> /\ h.state \in Late /\ ~h.msg
        /\ c \notin tasks /\ c \notin closing
    BY <1>2, <1>7 DEF Linked, Shutdown
  <2>2. /\ client' = [client EXCEPT ![c] = [k EXCEPT !.state = "STOPPED", !.handles = 0]]
        /\ toServer' = [toServer EXCEPT ![c] = <<Bye>>]
        /\ toClient' = toClient /\ tasks' = tasks /\ closing' = closing /\ handler' = handler
    <3>1. client' = [client EXCEPT ![c] = [k EXCEPT !.state = "STOPPED", !.handles = 0]]
      BY ZenonT(30), <1>1, <1>7 DEF Shutdown
    <3>2. toServer' = [toServer EXCEPT ![c] = Append(in, Bye)]
      BY <1>1, <1>7 DEF Shutdown
    <3>3. Append(in, Bye) = <<Bye>>
      BY <2>1, Single, Zenon
    <3>4. toClient' = toClient /\ tasks' = tasks /\ closing' = closing /\ handler' = handler
      BY <1>7 DEF Shutdown, shard
    <3> QED BY <3>1, <3>2, <3>3, <3>4, Zenon
  <2>3. [k EXCEPT !.state = "STOPPED", !.handles = 0] \in ClientShape
    BY ZenonT(30), <1>1 DEF ClientShape, ClientState
  <2>4. Others(c)
    BY <1>1, <2>2 DEF Others
  <2>5. /\ client'[c].state = "STOPPED" /\ client'[c].handles = 0
        /\ toServer'[c] = <<Bye>> /\ toClient'[c] = <<>> /\ handler'[c] = h
    BY <1>1, <2>1, <2>2 DEF ClientShape
  <2>6. Linked(client'[c], toServer'[c], toClient'[c], handler'[c], c \in tasks', c \in closing')
    BY <2>1, <2>2, <2>5 DEF Linked
  <2>7. Backed(client'[c], toClient'[c], handler'[c])
    BY <1>1, <2>5 DEF Backed, InTransit, HandlerShape
  <2> QED BY ZenonT(30), <1>1, <1>2, <2>2, <2>3, <2>4, <2>5, <2>6, <2>7, OneMoves
<1>8. CASE Lose(c)
  <2>1. /\ client' = [client EXCEPT ![c] = [k EXCEPT !.state = "lost", !.req = NoRequest, !.handles = 0]]
        /\ toServer' = [toServer EXCEPT ![c] = <<>>] /\ toClient' = [toClient EXCEPT ![c] = <<>>]
        /\ tasks' = tasks /\ closing' = closing /\ handler' = handler
    BY ZenonT(30), <1>1, <1>8 DEF Lose, shard
  <2>2. [k EXCEPT !.state = "lost", !.req = NoRequest, !.handles = 0] \in ClientShape
    BY ZenonT(30), <1>1 DEF ClientShape, ClientState
  <2>3. Others(c)
    BY <1>1, <2>1 DEF Others
  <2>4. /\ client'[c].state = "lost" /\ client'[c].handles = 0
        /\ toServer'[c] = <<>> /\ toClient'[c] = <<>> /\ handler'[c] = h
    BY <1>1, <2>1 DEF ClientShape
  <2>5. Linked(client'[c], toServer'[c], toClient'[c], handler'[c], c \in tasks', c \in closing')
    BY ZenonT(30), <2>4 DEF Linked
  <2>6. Backed(client'[c], toClient'[c], handler'[c])
    <3>1. PICK q, o, g : q = client'[c] /\ o = toClient'[c] /\ g = handler'[c]
      BY ZenonT(30)
    <3>2. q.state = "lost" /\ q.handles = 0 /\ g \in HandlerShape
      BY <1>1, <2>4, <3>1
    <3>3. InTransit(q, o) = 0 /\ g.refs \in Nat
      BY ONLY <3>2, NothingInTransit DEF HandlerShape
    <3>4. q.handles + InTransit(q, o) <= g.refs
      BY ONLY <3>2, <3>3
    <3>5. Backed(q, o, g)
      BY ONLY <3>2, <3>4 DEF Backed
    <3> QED BY ONLY <3>1, <3>5
  <2>7. toClient' \in [Client -> Seq(Reply \cup {Value})]
    BY <1>1, <2>1
  <2> QED BY ZenonT(30), <1>1, <1>2, <2>1, <2>2, <2>3, <2>4, <2>5, <2>6, <2>7, OneMoves
<1> QED BY <1>3, <1>4, <1>5, <1>6, <1>7, <1>8

\* What poll_completions does to a handler and takes from the way.
LEMMA PolledAs ==
  ASSUME Inv, NEW c \in Client, NEW h \in Polled(c), NEW p, p = handler[c],
         NEW in, in = toServer[c]
  PROVE  /\ h \in HandlerShape /\ p \in HandlerShape
         /\ h.state = p.state /\ h.value = p.value /\ h.free = p.free /\ h.refs = p.refs
         /\ h.msg = p.msg /\ h.release = p.release
         /\ h.recv = IF p.recv = Posted /\ in # <<>> THEN Head(in) ELSE p.recv
         /\ h.outstanding => p.outstanding
         /\ AwaitsValue(p) => (h.outstanding <=> in = <<>>)
         /\ Taken(c) = [toServer EXCEPT ![c] =
              IF in # <<>> /\ (p.recv = Posted \/ AwaitsValue(p)) THEN Tail(in) ELSE in]
<1>1. p \in HandlerShape /\ toServer \in [Client -> Seq(Message)] /\ h \in HandlerShape
  BY PolledShape DEF Inv, Shape
<1>2. PICK sent \in BOOLEAN :
        h = [p EXCEPT !.recv = IF p.recv = Posted /\ in # <<>> THEN Head(in) ELSE @,
                      !.send = IF @ = "outstanding" /\ sent THEN "complete" ELSE @,
                      !.outstanding = @ /\ ~(IF AwaitsValue(p) THEN in # <<>> ELSE sent)]
  BY Zenon DEF Polled, AwaitsMessage
<1>3. /\ h.state = p.state /\ h.value = p.value /\ h.free = p.free /\ h.refs = p.refs
      /\ h.msg = p.msg /\ h.release = p.release
  BY <1>1, <1>2 DEF HandlerShape
<1>4. h.recv = IF p.recv = Posted /\ in # <<>> THEN Head(in) ELSE p.recv
  BY <1>1, <1>2 DEF HandlerShape
<1>5. h.outstanding = (p.outstanding /\ ~(IF AwaitsValue(p) THEN in # <<>> ELSE sent))
  BY <1>1, <1>2 DEF HandlerShape
<1>6. AwaitsValue(p) => p.outstanding
  BY DEF AwaitsValue
<1>7. Taken(c) = [toServer EXCEPT ![c] =
        IF in # <<>> /\ (p.recv = Posted \/ AwaitsValue(p)) THEN Tail(in) ELSE in]
  BY ZenonT(30), <1>1 DEF Taken, AwaitsMessage
<1> QED BY <1>1, <1>3, <1>4, <1>5, <1>6, <1>7, Zenon

\* A step of the shard that the client does not see.
LEMMA QuietStep ==
  ASSUME Inv, Connections, NEW c \in Client, NEW g \in HandlerShape,
         handler' = [handler EXCEPT ![c] = g], client' = client, toServer' = toServer,
         toClient' = toClient, tasks' = tasks, closing' = closing,
         ~handler[c].msg, ~g.msg, g.refs = handler[c].refs,
         HandlerFits(g, c \in closing),
         handler[c].state \in Early => g.state \in Early,
         handler[c].state \in Late => g.state \in Late,
         handler[c].state = "WAIT_RECV_VALUE" => g.state = "WAIT_RECV_VALUE",
         handler[c].state # "none"
  PROVE  Connections'
<1>1. /\ client' \in [Client -> ClientShape] /\ tasks' \subseteq Client
      /\ toClient' \in [Client -> Seq(Reply \cup {Value})]
      /\ Linked(client[c], toServer[c], toClient[c], handler[c], c \in tasks, c \in closing)
      /\ Backed(client[c], toClient[c], handler[c])
  BY ZenonT(30) DEF Connections, Connected
<1>2. Others(c) /\ handler'[c] = g
  BY ZenonT(30) DEF Others, Inv, Shape
<1>3. Linked(client[c], toServer[c], toClient[c], g, c \in tasks, c \in closing)
  <2> DEFINE task == c \in tasks
             closed == c \in closing
  <2>1. Linked(client[c], toServer[c], toClient[c], handler[c], task, closed)
    BY ZenonT(30), <1>1
  <2>2. task \in BOOLEAN /\ closed \in BOOLEAN
    OBVIOUS
  <2> HIDE DEF task, closed
  <2>3. Linked(client[c], toServer[c], toClient[c], g, task, closed)
    BY ZenonT(30), <2>1, <2>2, LinkedMove
  <2> QED BY ZenonT(30), <2>3 DEF task, closed
<1>4. Backed(client[c], toClient[c], g)
  BY ZenonT(30), <1>1 DEF Backed
<1> QED BY ZenonT(30), <1>1, <1>2, <1>3, <1>4, OneMoves

\* Nothing is seen of the end of the shard either.
LEMMA StopConnections ==
  ASSUME Connections, NEW how, Stop(how)
  PROVE  Connections'
BY ZenonT(30) DEF Stop, shard, Connections, Connected

\* What is common to the ticks.
LEMMA TickBasics ==
  ASSUME Inv, Connections, NEW c \in Client, Ticks(c)
  PROVE  /\ handler[c] \in HandlerShape /\ toServer[c] \in Seq(Message)
         /\ ~handler[c].msg /\ handler[c].release = NoAddr /\ c \notin closing
         /\ handler[c].state \notin {"none", "queued"}
         /\ HandlerFits(handler[c], FALSE)
         /\ Linked(client[c], toServer[c], toClient[c], handler[c], c \in tasks, FALSE)
         /\ Backed(client[c], toClient[c], handler[c])
<1>1. c \notin closing
  BY DEF Ticks
<1>2. (c \in closing) = FALSE
  BY <1>1
<1>3. /\ HandlerFits(handler[c], c \in closing)
      /\ Linked(client[c], toServer[c], toClient[c], handler[c], c \in tasks, c \in closing)
      /\ Backed(client[c], toClient[c], handler[c])
  BY ZenonT(30) DEF Connections, Connected
<1>4. /\ handler[c] \in HandlerShape /\ toServer[c] \in Seq(Message)
      /\ ~handler[c].msg /\ handler[c].release = NoAddr
      /\ handler[c].state \notin {"none", "queued"}
  BY DEF Inv, Shape, Ticks, BetweenHandlers
<1> QED BY ZenonT(30), <1>1, <1>2, <1>3, <1>4

\* A tick in a state that waits for nothing takes nothing from the way.
LEMMA TakesNothing ==
  ASSUME Inv, Connections, NEW c \in Client, Ticks(c), NEW h \in Polled(c),
         \/ handler[c].state \notin {"WAIT_HANDSHAKE", "WAIT_NEW_MSG_RECV", "WAIT_RECV_VALUE"}
         \/ handler[c].state \in {"WAIT_HANDSHAKE", "WAIT_NEW_MSG_RECV"} /\ h.recv = Posted
         \/ handler[c].state = "WAIT_RECV_VALUE" /\ h.outstanding
  PROVE  Taken(c) = toServer /\ h.recv = handler[c].recv
<1> DEFINE p == handler[c]
           in == toServer[c]
<1>1. /\ HandlerFits(p, FALSE) /\ in \in Seq(Message)
  BY ZenonT(30), TickBasics
<1>2. /\ h.recv = IF p.recv = Posted /\ in # <<>> THEN Head(in) ELSE p.recv
      /\ AwaitsValue(p) => (h.outstanding <=> in = <<>>)
      /\ Taken(c) = [toServer EXCEPT ![c] =
           IF in # <<>> /\ (p.recv = Posted \/ AwaitsValue(p)) THEN Tail(in) ELSE in]
  BY PolledAs
<1>3. toServer = [toServer EXCEPT ![c] = in]
  BY DEF Inv, Shape
<1>4. in # <<>> => Head(in) # Posted
  BY <1>1, Distinct
<1>5. ~(in # <<>> /\ (p.recv = Posted \/ AwaitsValue(p)))
  <2> HIDE DEF p, in
  <2>1. p.recv = Posted <=> p.state \in {"WAIT_HANDSHAKE", "WAIT_NEW_MSG_RECV"}
    BY <1>1 DEF HandlerFits
  <2>2. AwaitsValue(p) => p.state = "WAIT_RECV_VALUE" /\ (h.outstanding <=> in = <<>>)
    BY <1>2 DEF AwaitsValue
  <2>3. \/ p.state \notin {"WAIT_HANDSHAKE", "WAIT_NEW_MSG_RECV", "WAIT_RECV_VALUE"}
        \/ p.state \in {"WAIT_HANDSHAKE", "WAIT_NEW_MSG_RECV"} /\ h.recv = Posted
        \/ p.state = "WAIT_RECV_VALUE" /\ h.outstanding
    BY DEF p
  <2> QED BY ZenonT(30), <1>2, <1>4, <2>1, <2>2, <2>3
<1> QED BY ZenonT(30), <1>2, <1>3, <1>5

\* The ticks.
LEMMA TickConnections ==
  ASSUME Inv, Connections, NEW c \in Client, TickAny(c)
  PROVE  Connections'
<1> DEFINE k == client[c]
           in == toServer[c]
           out == toClient[c]
           p == handler[c]
<1>1. Ticks(c)
  BY ZenonT(30) DEF TickAny, TickInitialize, TickPost, TickHandshake, TickHandshakeDone, TickMessage,
         TickBye, TickDisconnect, TickValue, TickMiss
<1>2. /\ p \in HandlerShape /\ in \in Seq(Message)
      /\ ~p.msg /\ p.release = NoAddr /\ c \notin closing
      /\ p.state \notin {"none", "queued"}
      /\ HandlerFits(p, FALSE)
      /\ Linked(k, in, out, p, c \in tasks, FALSE)
      /\ Backed(k, out, p)
  BY ZenonT(30), <1>1, TickBasics
<1>3. /\ client \in [Client -> ClientShape] /\ tasks \subseteq Client
      /\ toClient \in [Client -> Seq(Reply \cup {Value})]
      /\ toServer \in [Client -> Seq(Message)] /\ handler \in [Client -> HandlerShape]
  BY DEF Connections, Inv, Shape
<1>4. \A h \in Polled(c) :
        /\ h \in HandlerShape
        /\ h.state = p.state /\ h.value = p.value /\ h.free = p.free /\ h.refs = p.refs
        /\ h.msg = p.msg /\ h.release = p.release
        /\ h.recv = IF p.recv = Posted /\ in # <<>> THEN Head(in) ELSE p.recv
        /\ h.outstanding => p.outstanding
        /\ AwaitsValue(p) => (h.outstanding <=> in = <<>>)
        /\ Taken(c) = [toServer EXCEPT ![c] =
             IF in # <<>> /\ (p.recv = Posted \/ AwaitsValue(p)) THEN Tail(in) ELSE in]
  BY PolledAs
<1>5. (c \in closing) = FALSE
  BY <1>2
<1>6. /\ p.recv = Posted <=> p.state \in {"WAIT_HANDSHAKE", "WAIT_NEW_MSG_RECV"}
      /\ p.outstanding <=> p.state \in ValueState
      /\ 0 <= p.free /\ p.free <= BufferCount
      /\ p.recv # NoMessage => p.free < BufferCount
      /\ p.free \in Int /\ BufferCount \in Nat
  BY ZenonT(30), <1>2, DawnAssumption DEF HandlerFits, HandlerShape
<1>7. CASE TickInitialize(c)
  <2>1. PICK h \in Polled(c) : Tick(c, [h EXCEPT !.state = "POST_HANDSHAKE"])
    BY <1>7 DEF TickInitialize
  <2>2. PICK g : g = [h EXCEPT !.state = "POST_HANDSHAKE"]
    BY ZenonT(30)
  <2>3. p.state = "INITIALIZE"
    BY <1>7 DEF TickInitialize
  <2>4. Taken(c) = toServer /\ h.recv = p.recv
    BY <1>1, <2>3, TakesNothing
  <2>5. /\ g \in HandlerShape /\ g.state = "POST_HANDSHAKE" /\ g.recv = p.recv
        /\ g.msg = p.msg /\ g.refs = p.refs /\ g.free = p.free /\ g.release = p.release
        /\ g.outstanding => p.outstanding
    BY <1>4, <2>2, <2>4 DEF HandlerShape, HandlerState
  <2>6. HandlerFits(g, FALSE)
    BY ZenonT(30), <1>2, <1>6, <2>3, <2>5 DEF HandlerFits, ValueState
  <2>7. handler' = [handler EXCEPT ![c] = g] /\ toServer' = toServer
    BY ZenonT(30), <2>1, <2>2, <2>4 DEF Tick
  <2>8. p.state \in Early /\ g.state \in Early /\ p.state \notin Late
    BY <2>3, <2>5 DEF Early, Late
  <2> QED BY ZenonT(30), <1>2, <1>5, <1>7, <2>3, <2>5, <2>6, <2>7, <2>8, QuietStep DEF TickInitialize
<1>8. CASE TickPost(c)
  <2>1. PICK h \in Polled(c) :
          IF h.free = 0 THEN Stop("ended")
          ELSE /\ Tick(c, [h EXCEPT !.recv = Posted, !.free = @ - 1,
                             !.state = IF @ = "POST_HANDSHAKE" THEN "WAIT_HANDSHAKE"
                                       ELSE "WAIT_NEW_MSG_RECV"])
               /\ UNCHANGED <<client, toClient, closing, locked, tasks, index,
                              pool, sessions, run>>
    BY ZenonT(30), <1>8 DEF TickPost
  <2>2. CASE h.free = 0
    BY <2>1, <2>2, StopConnections
  <2>3. CASE h.free # 0
    <3>1. p.state \in {"POST_HANDSHAKE", "POST_MSG_RECV"}
      BY <1>8 DEF TickPost
    <3>2. Taken(c) = toServer
      BY <1>1, <3>1, TakesNothing
    <3>3. PICK f \in Int : f = h.free - 1
      BY <1>4 DEF HandlerShape
    <3>4. PICK st \in HandlerState :
            st = IF p.state = "POST_HANDSHAKE" THEN "WAIT_HANDSHAKE" ELSE "WAIT_NEW_MSG_RECV"
      BY DEF HandlerState
    <3>5. PICK g : g = [h EXCEPT !.recv = Posted, !.free = f, !.state = st]
      OBVIOUS
    <3>6. handler' = [handler EXCEPT ![c] = g] /\ toServer' = toServer
      BY ZenonT(30), <1>4, <2>1, <2>3, <3>2, <3>3, <3>4, <3>5 DEF Tick, HandlerShape
    <3>7. /\ g \in HandlerShape /\ g.state = st /\ g.recv = Posted /\ g.free = f
          /\ g.msg = p.msg /\ g.refs = p.refs /\ g.release = p.release
          /\ g.outstanding => p.outstanding
      BY ZenonT(30), <1>4, <3>5 DEF HandlerShape
    <3>8. 0 <= f /\ f < BufferCount
      BY <1>4, <1>6, <2>3, <3>3
    <3>9. HandlerFits(g, FALSE)
      <4>1. /\ g.state \in {"WAIT_HANDSHAKE", "WAIT_NEW_MSG_RECV"}
            /\ ~g.outstanding /\ ~g.msg /\ g.release = NoAddr
        BY ZenonT(30), <1>2, <1>6, <3>1, <3>4, <3>7 DEF ValueState
      <4> QED BY <1>6, <3>7, <3>8, <4>1 DEF HandlerFits, ValueState
    <3>10. /\ p.state \in Early => g.state \in Early
           /\ p.state \in Late => g.state \in Late
      BY <3>1, <3>4, <3>7 DEF Early, Late
    <3> QED BY ZenonT(30), <1>2, <1>5, <2>1, <2>3, <3>1, <3>6, <3>7, <3>9, <3>10, QuietStep
  <2> QED BY ZenonT(30), <2>2, <2>3
<1>9. CASE TickHandshakeDone(c)
  <2>1. PICK h \in Polled(c) : Tick(c, [h EXCEPT !.state = "POST_MSG_RECV"])
    BY <1>9 DEF TickHandshakeDone
  <2>2. PICK g : g = [h EXCEPT !.state = "POST_MSG_RECV"]
    BY ZenonT(30)
  <2>3. p.state = "WAIT_HANDSHAKE_RESPONSE_COMPLETION"
    BY <1>9 DEF TickHandshakeDone
  <2>4. Taken(c) = toServer /\ h.recv = p.recv
    BY <1>1, <2>3, TakesNothing
  <2>5. /\ g \in HandlerShape /\ g.state = "POST_MSG_RECV" /\ g.recv = p.recv
        /\ g.msg = p.msg /\ g.refs = p.refs /\ g.free = p.free /\ g.release = p.release
        /\ g.outstanding => p.outstanding
    BY <1>4, <2>2, <2>4 DEF HandlerShape, HandlerState
  <2>6. HandlerFits(g, FALSE)
    BY ZenonT(30), <1>2, <1>6, <2>3, <2>5 DEF HandlerFits, ValueState
  <2>7. handler' = [handler EXCEPT ![c] = g] /\ toServer' = toServer
    BY <2>1, <2>2, <2>4 DEF Tick
  <2>8. p.state \in Late /\ g.state \in Late /\ p.state \notin Early
    BY ZenonT(30), <2>3, <2>5 DEF Early, Late
  <2> QED BY ZenonT(30), <1>2, <1>5, <1>9, <2>3, <2>5, <2>6, <2>7, <2>8, QuietStep DEF TickHandshakeDone
<1>10. CASE TickMiss(c)
  <2>1. PICK h \in Polled(c) :
          /\ \/ h.state \in {"WAIT_HANDSHAKE", "WAIT_NEW_MSG_RECV"} /\ h.recv = Posted
             \/ h.state \in {"WAIT_SEND_VALUE", "WAIT_RECV_VALUE"} /\ h.outstanding
          /\ Tick(c, h)
    BY <1>10 DEF TickMiss, AwaitsMessage
  <2>2. Taken(c) = toServer /\ h.recv = p.recv
    <3>1. h.state = p.state
      BY ZenonT(30), <1>4
    <3> QED BY ZenonT(30), <1>1, <2>1, <3>1, TakesNothing
  <2>3. /\ h \in HandlerShape /\ h.state = p.state /\ h.free = p.free /\ h.refs = p.refs
        /\ h.msg = p.msg /\ h.release = p.release /\ (h.outstanding => p.outstanding)
    BY ZenonT(30), <1>4
  <2>4. HandlerFits(h, FALSE)
    <3>1. h.outstanding <=> h.state \in ValueState
      BY <1>6, <2>1, <2>3 DEF ValueState
    <3> QED BY ZenonT(30), <1>2, <2>2, <2>3, <3>1 DEF HandlerFits
  <2>5. handler' = [handler EXCEPT ![c] = h] /\ toServer' = toServer
    BY ZenonT(30), <2>1, <2>2 DEF Tick
  <2> QED BY ZenonT(30), <1>2, <1>5, <1>10, <2>3, <2>4, <2>5, QuietStep DEF TickMiss
<1>11. CASE TickDisconnect(c)
  <2>9. CASE Stop("ended")
    BY ZenonT(30), <2>9, StopConnections
  <2> SUFFICES ASSUME ~Stop("ended") PROVE Connections'
    BY <2>9
  <2>1. k.state = "lost" /\ CloseSession(c, p)
    BY ZenonT(30), <1>11 DEF TickDisconnect
  <2>2. in = <<>>
    BY ZenonT(30), <1>2, <2>1 DEF Linked
  <2>3. PICK h : h \in Polled(c)
    BY DEF Polled
  <2>4. Taken(c) = toServer
    BY <1>3, <1>4, <2>2, <2>3
  <2>5. /\ handler' = handler /\ toServer' = toServer /\ closing' = closing \cup {c}
        /\ client' = client /\ toClient' = toClient /\ tasks' = tasks
    BY ZenonT(30), <1>3, <2>1, <2>4 DEF CloseSession, Tick
  <2>6. HandlerFits(p, TRUE)
    BY ZenonT(30), <1>2 DEF HandlerFits
  <2>7. Linked(k, in, out, p, c \in tasks, TRUE)
    BY ZenonT(30), <1>2, <2>1 DEF Linked
  <2>8. Others(c) /\ (c \in closing') = TRUE
    BY <2>5 DEF Others
  <2> QED BY ZenonT(30), <1>2, <1>3, <2>5, <2>6, <2>7, <2>8, OneMoves
<1>12. CASE TickBye(c)
  <2>1. PICK h \in Polled(c) :
          h.recv = Bye /\ CloseSession(c, [h EXCEPT !.recv = NoMessage, !.free = @ + 1])
    BY ZenonT(30), <1>12 DEF TickBye
  <2>2. p.state = "WAIT_NEW_MSG_RECV" /\ p.recv = Posted
    BY <1>6, <1>12 DEF TickBye
  <2>3. in # <<>> /\ Head(in) = Bye
    BY ZenonT(30), <1>4, <2>1, <2>2, Distinct DEF Message
  <2>4. k.state = "STOPPED" /\ in = <<Bye>> /\ out = <<>> /\ c \notin tasks
    <3> HIDE DEF k, in, out, p
    <3> QED BY ZenonT(30), <1>2, <2>2, <2>3, Single, Distinct DEF Linked, Waits, Early
  <2>5. Taken(c) = [toServer EXCEPT ![c] = <<>>]
    BY <1>4, <2>2, <2>4, Single
  <2>6. PICK f \in Int : f = h.free + 1
    BY <1>4 DEF HandlerShape
  <2>7. PICK g : g = [h EXCEPT !.recv = NoMessage, !.free = f]
    OBVIOUS
  <2>8. /\ handler' = [handler EXCEPT ![c] = g] /\ toServer' = [toServer EXCEPT ![c] = <<>>]
        /\ closing' = closing \cup {c}
        /\ client' = client /\ toClient' = toClient /\ tasks' = tasks
    BY <2>1, <2>5, <2>6, <2>7 DEF CloseSession, Tick
  <2>9. /\ g.state = p.state /\ g.recv = NoMessage /\ g.free = f /\ g.msg = p.msg
        /\ g.refs = p.refs /\ g.release = p.release /\ (g.outstanding => p.outstanding)
    BY ZenonT(30), <1>4, <2>7 DEF HandlerShape
  <2>10. HandlerFits(g, TRUE)
    <3>1. 0 <= f /\ f <= BufferCount
      BY <1>4, <1>6, <2>2, <2>6, Distinct
    <3>2. ~g.outstanding /\ ~g.msg /\ g.release = NoAddr /\ g.state = "WAIT_NEW_MSG_RECV"
      BY ZenonT(30), <1>2, <1>6, <2>2, <2>9 DEF ValueState
    <3> QED BY ZenonT(30), <2>9, <3>1, <3>2 DEF HandlerFits, ValueState
  <2>11. Linked(k, <<>>, out, g, c \in tasks, TRUE)
    BY ZenonT(30), <1>2, <2>4, <2>9 DEF Linked
  <2>12. Backed(k, out, g)
    BY <1>2, <2>9 DEF Backed
  <2>13. Others(c) /\ (c \in closing') = TRUE
    BY <1>3, <2>8 DEF Others
  <2>14. handler'[c] = g /\ toServer'[c] = <<>>
    BY <1>3, <2>8
  <2> QED BY ZenonT(30), <1>3, <2>8, <2>10, <2>11, <2>12, <2>13, <2>14, OneMoves
<1>13. CASE TickHandshake(c)
  <2>1. PICK h \in Polled(c) :
          /\ h.recv # Posted
          /\ IF h.free = 0 THEN Stop("ended")
             ELSE /\ Tick(c, [h EXCEPT !.state = "WAIT_HANDSHAKE_RESPONSE_COMPLETION"])
                  /\ Send(c, <<OK>>)
                  /\ UNCHANGED <<client, closing, locked, tasks, index, pool, sessions, run>>
    BY <1>13 DEF TickHandshake, AwaitsMessage
  <2>2. CASE h.free = 0
    BY <2>1, <2>2, StopConnections
  <2>3. CASE h.free # 0
    <3>1. p.state = "WAIT_HANDSHAKE" /\ p.recv = Posted
      BY <1>6, <1>13 DEF TickHandshake
    <3>2. in # <<>>
      BY <1>4, <2>1, <3>1
    <3>3. k.state = "HANDSHAKE_GET_RESPONSE" /\ in = <<Hello>> /\ out = <<>> /\ c \notin tasks
          /\ k.req = NoRequest
      <4> HIDE DEF k, in, out, p
      <4> QED BY <1>2, <3>1, <3>2 DEF Linked, Waits, Fits, Late
    <3>4. Taken(c) = [toServer EXCEPT ![c] = <<>>]
      BY <1>4, <3>1, <3>3, Single
    <3>5. h.recv = Hello
      BY <1>4, <3>1, <3>3, Single
    <3>6. PICK g : g = [h EXCEPT !.state = "WAIT_HANDSHAKE_RESPONSE_COMPLETION"]
      BY ZenonT(30)
    <3>7. toClient' = [toClient EXCEPT ![c] = <<OK>>]
      <4>1. toClient' = [toClient EXCEPT ![c] = out \o <<OK>>]
        BY <2>1, <2>3, <3>3 DEF Send
      <4> QED BY <3>3, <4>1, Single
    <3>8. /\ handler' = [handler EXCEPT ![c] = g] /\ toServer' = [toServer EXCEPT ![c] = <<>>]
          /\ closing' = closing /\ client' = client /\ tasks' = tasks
      BY <2>1, <2>3, <3>4, <3>6 DEF Tick
    <3>9. /\ g.state = "WAIT_HANDSHAKE_RESPONSE_COMPLETION" /\ g.recv = Hello /\ g.free = p.free
          /\ g.msg = p.msg /\ g.refs = p.refs /\ g.release = p.release
          /\ g.outstanding => p.outstanding
      BY <1>4, <3>5, <3>6 DEF HandlerShape
    <3>10. HandlerFits(g, FALSE)
      <4>1. Hello # Posted /\ Posted # NoMessage
        BY ZenonT(30), Distinct DEF Message
      <4>2. ~g.outstanding /\ ~g.msg /\ g.release = NoAddr
        BY <1>2, <1>6, <3>1, <3>9 DEF ValueState
      <4>3. 0 <= g.free /\ g.free < BufferCount
        BY ZenonT(30), <1>6, <3>1, <3>9, <4>1
      <4> QED BY <1>6, <3>9, <4>1, <4>2, <4>3 DEF HandlerFits, ValueState
    <3>11. Linked(k, <<>>, <<OK>>, g, c \in tasks, FALSE)
      BY ZenonT(30), <1>2, <3>3, <3>9 DEF Linked, Late
    <3>12. Backed(k, <<OK>>, g)
      <4>1. InTransit(k, <<OK>>) = 0 /\ InTransit(k, out) = 0
        BY <3>3, NothingInTransit
      <4> QED BY ZenonT(30), <1>2, <3>9, <4>1 DEF Backed
    <3>13. Others(c) /\ (c \in closing') = FALSE
      BY <1>3, <1>5, <3>7, <3>8 DEF Others
    <3>14. handler'[c] = g /\ toServer'[c] = <<>> /\ toClient'[c] = <<OK>>
      BY <1>3, <3>7, <3>8
    <3>15. toClient' \in [Client -> Seq(Reply \cup {Value})]
      BY <1>3, <3>7 DEF OK, Reply
    <3> QED BY ZenonT(30), <1>3, <3>8, <3>10, <3>11, <3>12, <3>13, <3>14, <3>15, OneMoves
  <2> QED BY <2>2, <2>3
<1>14. CASE TickMessage(c)
  <2>1. PICK h \in Polled(c) :
          /\ h.recv \notin {Posted, Bye}
          /\ IF h.recv \notin Request THEN Stop("ended")
             ELSE /\ Tick(c, [h EXCEPT !.msg = TRUE, !.state = "POST_MSG_RECV"])
                  /\ UNCHANGED <<client, toClient, closing, locked, tasks, index,
                                 pool, sessions, run>>
    BY ZenonT(30), <1>14 DEF TickMessage
  <2>2. CASE h.recv \notin Request
    BY <2>1, <2>2, StopConnections
  <2>3. CASE h.recv \in Request
    <3>1. p.state = "WAIT_NEW_MSG_RECV" /\ p.recv = Posted
      BY <1>6, <1>14 DEF TickMessage
    <3>2. in # <<>> /\ Head(in) = h.recv
      BY <1>4, <2>1, <3>1
    <3>3. k.state = "wait" /\ in = <<k.req>> /\ out = <<>> /\ c \notin tasks /\ k.req = h.recv
      <4> HIDE DEF k, in, out, p
      <4>1. in # <<Bye>>
        BY ZenonT(30), <2>1, <3>2, Single
      <4> QED BY <1>2, <3>1, <3>2, <4>1, Single DEF Linked, Waits, Early
    <3>4. Taken(c) = [toServer EXCEPT ![c] = <<>>]
      BY <1>4, <3>1, <3>3, Single
    <3>5. PICK g : g = [h EXCEPT !.msg = TRUE, !.state = "POST_MSG_RECV"]
      OBVIOUS
    <3>6. /\ handler' = [handler EXCEPT ![c] = g] /\ toServer' = [toServer EXCEPT ![c] = <<>>]
          /\ closing' = closing /\ client' = client /\ tasks' = tasks /\ toClient' = toClient
      BY <2>1, <2>3, <3>4, <3>5 DEF Tick
    <3>7. /\ g.state = "POST_MSG_RECV" /\ g.recv = h.recv /\ g.free = p.free
          /\ g.msg = TRUE /\ g.refs = p.refs /\ g.release = p.release
          /\ g.outstanding => p.outstanding
      BY <1>4, <3>5 DEF HandlerShape
    <3>8. HandlerFits(g, FALSE)
      <4>1. g.recv # Posted /\ Posted # NoMessage
        BY ZenonT(30), <2>1, <3>7, Distinct
      <4>2. ~g.outstanding /\ g.release = NoAddr
        BY ZenonT(30), <1>2, <1>6, <3>1, <3>7 DEF ValueState
      <4>3. 0 <= g.free /\ g.free < BufferCount
        BY ZenonT(30), <1>6, <3>1, <3>7, <4>1
      <4> QED BY <1>6, <2>3, <3>7, <4>1, <4>2, <4>3 DEF HandlerFits, ValueState
    <3>9. Linked(k, <<>>, out, g, c \in tasks, FALSE)
      BY ZenonT(30), <2>3, <3>3, <3>7 DEF Linked, Waits
    <3>10. Backed(k, out, g)
      BY <1>2, <3>7 DEF Backed
    <3>11. Others(c) /\ (c \in closing') = FALSE
      BY <1>3, <1>5, <3>6 DEF Others
    <3>12. handler'[c] = g /\ toServer'[c] = <<>>
      BY <1>3, <3>6
    <3> QED BY ZenonT(30), <1>3, <3>6, <3>8, <3>9, <3>10, <3>11, <3>12, OneMoves
  <2> QED BY ZenonT(30), <2>2, <2>3
<1>15. CASE TickValue(c)
  <2>1. PICK h \in Polled(c) :
          /\ ~h.outstanding
          /\ Tick(c, [h EXCEPT !.release = h.value, !.value = NoAddr, !.state = "POST_MSG_RECV"])
    BY ZenonT(30), <1>15 DEF TickValue
  <2>2. PICK g : g = [h EXCEPT !.release = h.value, !.value = NoAddr, !.state = "POST_MSG_RECV"]
    OBVIOUS
  <2>3. /\ g \in HandlerShape /\ g.state = "POST_MSG_RECV" /\ g.recv = h.recv /\ g.free = p.free
        /\ g.msg = p.msg /\ g.refs = p.refs /\ g.outstanding = h.outstanding
    BY ZenonT(30), <1>4, <2>2 DEF HandlerShape, HandlerState
  <2>4. p.state \in ValueState /\ p.recv # Posted /\ h.recv = p.recv
    BY <1>4, <1>6, <1>15 DEF TickValue, ValueState
  <2>5. HandlerFits(g, FALSE)
    BY <1>2, <1>6, <2>1, <2>3, <2>4 DEF HandlerFits, ValueState
  <2>6. handler' = [handler EXCEPT ![c] = g] /\ toServer' = Taken(c)
    BY <2>1, <2>2 DEF Tick
  <2>7. CASE p.state = "WAIT_SEND_VALUE"
    <3>1. Taken(c) = toServer
      BY <1>1, <2>7, TakesNothing
    <3>2. p.state \in Late /\ g.state \in Late /\ p.state \notin Early
      BY ZenonT(30), <2>3, <2>7 DEF Early, Late
    <3> QED BY ZenonT(30), <1>2, <1>5, <1>15, <2>3, <2>5, <2>6, <2>7, <3>1, <3>2, QuietStep DEF TickValue
  <2>8. CASE p.state = "WAIT_RECV_VALUE"
    <3>1. AwaitsValue(p) /\ in # <<>>
      BY ZenonT(30), <1>4, <1>6, <2>1, <2>8 DEF AwaitsValue, ValueState
    <3>2. k.state = "send_value" /\ in = <<Value>> /\ out = <<>> /\ c \notin tasks
          /\ k.req = NoRequest
      <4> HIDE DEF k, in, out, p
      <4> QED BY ZenonT(30), <1>2, <2>8, <3>1 DEF Linked, Waits, Early, Late
    <3>3. toServer' = [toServer EXCEPT ![c] = <<>>]
      <4>1. toServer' = [toServer EXCEPT ![c] = Tail(in)]
        BY ZenonT(30), <1>4, <2>6, <3>1
      <4>2. Tail(in) = <<>>
        BY <3>2, Single
      <4> QED BY ZenonT(30), <4>1, <4>2
    <3>4. closing' = closing /\ client' = client /\ tasks' = tasks /\ toClient' = toClient
      BY ZenonT(30), <1>15 DEF TickValue
    <3>5. Linked(k, <<>>, out, g, c \in tasks, FALSE)
      BY ZenonT(30), <1>2, <2>3, <3>2 DEF Linked, Late
    <3>6. Backed(k, out, g)
      BY ZenonT(30), <1>2, <2>3 DEF Backed
    <3>7. Others(c) /\ (c \in closing') = FALSE
      BY <1>3, <1>5, <2>6, <3>3, <3>4 DEF Others
    <3>8. handler'[c] = g /\ toServer'[c] = <<>>
      BY <1>3, <2>6, <3>3
    <3> QED BY ZenonT(30), <1>3, <2>5, <3>4, <3>5, <3>6, <3>7, <3>8, OneMoves
  <2> QED BY ZenonT(30), <2>4, <2>7, <2>8 DEF ValueState
<1> QED BY ZenonT(30), <1>7, <1>8, <1>9, <1>10, <1>11, <1>12, <1>13, <1>14, <1>15 DEF TickAny

\* An answer is all that is on the way to a client that waits.
LEMMA AnswerSent ==
  ASSUME NEW ms \in Answers \cup {<<>>}
  PROVE  ms \in Seq(Reply \cup {Value}) /\ <<>> \o ms = ms
<1>1. ms \in Seq(Reply \cup {Value})
  <2>1. CASE ms = <<>>
    BY <2>1
  <2>2. CASE ms \in Answers
    BY <2>2, AnswerParts, Zenon
  <2> QED BY <2>1, <2>2
<1> QED BY <1>1

\* A request is answered with ms, or becomes a task; refs says that the
\* references go with the answer.
LEMMA RespondConnections ==
  ASSUME Inv, Connections, NEW c \in Client, handler[c].msg,
         NEW h \in HandlerShape, NEW ms \in Answers \cup {<<>>}, Respond(c, h, ms),
         client' = client, toServer' = toServer, closing' = closing,
         h.release = handler[c].release, 0 <= h.free, h.free <= handler[c].free,
         h.state \in {"POST_MSG_RECV", "WAIT_SEND_VALUE", "WAIT_RECV_VALUE"},
         h.outstanding <=> h.state \in ValueState,
         NEW op, op = handler[c].recv.op,
         ms # <<>> => Fits(op, ms, h.state) /\ tasks' = tasks,
         ms = <<>> => op = "find" /\ h.state \in Late /\ tasks' = tasks \cup {c},
         NEW n \in Nat, NEW m \in Nat,
         n = (IF op = "close" THEN 1 ELSE 0),
         m = (IF op \in {"create", "open"} /\ Head(ms).ok THEN 1 ELSE 0),
         h.refs + n >= handler[c].refs + m
  PROVE  Connections'
<1> DEFINE k == client[c]
           in == toServer[c]
           out == toClient[c]
           p == handler[c]
<1>1. /\ client \in [Client -> ClientShape] /\ tasks \subseteq Client
      /\ toClient \in [Client -> Seq(Reply \cup {Value})]
      /\ toServer \in [Client -> Seq(Message)] /\ handler \in [Client -> HandlerShape]
      /\ p \in HandlerShape /\ k \in ClientShape
  BY ZenonT(30) DEF Connections, Inv, Shape
<1>2. /\ HandlerFits(p, c \in closing)
      /\ Linked(k, in, out, p, c \in tasks, c \in closing)
      /\ Backed(k, out, p)
  BY ZenonT(30) DEF Connections, Connected
<1>3. /\ p.recv \in Request /\ p.state = "POST_MSG_RECV" /\ c \notin closing
      /\ p.release = NoAddr /\ p.free < BufferCount
  BY ZenonT(30), <1>2, Distinct DEF HandlerFits, Message
<1>4. PICK f \in Int : f = h.free + 1
  BY ONLY h \in HandlerShape DEF HandlerShape
<1>5. PICK g : g = [h EXCEPT !.msg = FALSE, !.recv = NoMessage, !.free = f]
  OBVIOUS
<1>6. handler' = [handler EXCEPT ![c] = g]
  BY <1>4, <1>5 DEF Respond
<1>7. /\ g.state = h.state /\ g.outstanding = h.outstanding /\ g.release = NoAddr
      /\ g.msg = FALSE /\ g.recv = NoMessage /\ g.free = f /\ g.refs = h.refs
  BY <1>3, <1>5 DEF HandlerShape
<1>8. HandlerFits(g, FALSE)
  <2>1. 0 <= f /\ f <= BufferCount
    BY <1>1, <1>3, <1>4, DawnAssumption DEF HandlerShape
  <2> QED BY ZenonT(30), <1>7, <2>1, Distinct DEF HandlerFits, ValueState
<1>9. (c \in closing') = FALSE /\ (c \in closing) = FALSE
  BY ONLY <1>3, closing' = closing
<1>10. h.refs \in Nat /\ p.refs \in Nat /\ k.handles \in Nat
  BY ZenonT(30), <1>1 DEF HandlerShape, ClientShape
<1>11. handler'[c] = g
  BY ZenonT(30), <1>1, <1>6
<1>12. CASE k.state = "lost"
  <2>1. toClient' = toClient /\ in = <<>> /\ out = <<>>
    BY ZenonT(30), <1>2, <1>12 DEF Respond, Send, Linked
  <2>2. Others(c) /\ tasks' \subseteq Client
    BY ZenonT(30), <1>1, <1>6, <2>1 DEF Others
  <2>3. Linked(k, in, out, g, c \in tasks', FALSE)
    BY <1>12, <2>1 DEF Linked
  <2>4. Backed(k, out, g)
    <3>1. InTransit(k, out) = 0 /\ k.handles = 0
      BY ZenonT(30), <1>2, <1>12, NothingInTransit DEF Backed
    <3>2. k.handles + InTransit(k, out) <= g.refs /\ k.handles = 0
      BY ONLY <1>7, <1>10, <3>1
    <3> QED BY ONLY ZenonT(30), <3>2 DEF Backed
  <2> QED BY ZenonT(30), <1>1, <1>8, <1>9, <1>11, <2>1, <2>2, <2>3, <2>4, OneMoves
<1>13. CASE k.state # "lost"
  <2>1. /\ k.state = "wait" /\ k.req \in Request /\ in = <<>> /\ out = <<>>
        /\ p.recv = k.req /\ c \notin tasks
    <3>1. Linked(k, in, out, p, c \in tasks, FALSE) /\ p.msg
      BY ZenonT(30), <1>2, <1>9
    <3> HIDE DEF k, in, out, p
    <3> QED BY ZenonT(30), <1>13, <3>1 DEF Linked, Waits, Fits
  <2>2. toClient' = [toClient EXCEPT ![c] = ms]
    <3>1. toClient' = [toClient EXCEPT ![c] = out \o ms]
      BY <1>13 DEF Respond, Send
    <3>2. out \o ms = ms
      BY ZenonT(30), <2>1, AnswerSent
    <3> QED BY <3>1, <3>2
  <2>3. toClient' \in [Client -> Seq(Reply \cup {Value})] /\ toClient'[c] = ms
    <3>1. ms \in Seq(Reply \cup {Value})
      BY ZenonT(30), AnswerSent
    <3> QED BY ZenonT(30), <1>1, <2>2, <3>1
  <2>4. Others(c) /\ tasks' \subseteq Client
    BY ZenonT(30), <1>1, <1>6, <2>2 DEF Others
  <2>5. Waits(k, in, ms, g, c \in tasks')
    <3>1. CASE ms = <<>>
      BY ZenonT(30), <1>7, <2>1, <3>1 DEF Waits
    <3>2. CASE ms # <<>>
      BY ZenonT(30), <1>7, <2>1, <3>2 DEF Waits
    <3> QED BY ZenonT(30), <3>1, <3>2
  <2>6. Linked(k, in, ms, g, c \in tasks', FALSE)
    BY ZenonT(30), <2>1, <2>5 DEF Linked
  <2>7. Backed(k, ms, g)
    <3>1. InTransit(k, out) = n
      BY ZenonT(30), <2>1 DEF InTransit
    <3>2. InTransit(k, ms) = IF ms = <<>> THEN n ELSE m
      BY <2>1 DEF InTransit
    <3>3. ms = <<>> => n = 0
      BY ZenonT(30)
    <3>4. k.handles + n <= p.refs
      BY ZenonT(30), <1>2, <3>1 DEF Backed
    <3>5. k.handles + InTransit(k, ms) <= h.refs
      BY <1>10, <3>2, <3>3, <3>4
    <3> QED BY ZenonT(30), <1>7, <2>1, <3>5 DEF Backed
  <2> QED BY ZenonT(30), <1>1, <1>8, <1>9, <1>11, <2>3, <2>4, <2>6, <2>7, OneMoves
<1> QED BY ZenonT(30), <1>12, <1>13

\* The requests that are answered at once, and leave the references alone.
LEMMA AnswerConnections ==
  ASSUME Inv, Connections, NEW c \in Client, NEW op, Serves(c, op),
         NEW h \in HandlerShape, NEW ms \in {<<OK>>, <<Fail>>}, Respond(c, h, ms),
         client' = client, toServer' = toServer, closing' = closing, tasks' = tasks,
         h.release = handler[c].release, 0 <= h.free, h.free <= handler[c].free,
         h.state = handler[c].state, h.outstanding = handler[c].outstanding,
         op \notin {"put_advance", "create", "open"},
         h.refs + (IF op = "close" THEN 1 ELSE 0) = handler[c].refs
  PROVE  Connections'
<1>1. handler[c].msg /\ op = handler[c].recv.op
  BY DEF Serves
<1>2. HandlerFits(handler[c], c \in closing) /\ handler[c] \in HandlerShape
  BY ZenonT(30) DEF Connections, Connected, Inv, Shape
<1>3. h.state = "POST_MSG_RECV" /\ ~h.outstanding
  BY <1>1, <1>2 DEF HandlerFits, ValueState
<1>4. ms \in Answers /\ ms # <<>>
  BY ZenonT(30), AnswerParts DEF Answers
<1>5. Fits(op, ms, h.state)
  BY ZenonT(30), <1>3, <1>4 DEF Fits, Late
<1>6. PICK n \in Nat, m \in Nat : n = (IF op = "close" THEN 1 ELSE 0) /\ m = 0
  OBVIOUS
<1>7. m = (IF op \in {"create", "open"} /\ Head(ms).ok THEN 1 ELSE 0)
  BY <1>6
<1>8. h.refs + n >= handler[c].refs + m
  <2>1. h.refs \in Int /\ handler[c].refs \in Int
    BY ONLY <1>2, h \in HandlerShape DEF HandlerShape
  <2> QED BY ONLY <1>6, <2>1, h.refs + (IF op = "close" THEN 1 ELSE 0) = handler[c].refs
<1>9. h.outstanding <=> h.state \in ValueState
  BY <1>3 DEF ValueState
<1> QED BY ZenonT(30), <1>1, <1>3, <1>4, <1>5, <1>6, <1>7, <1>8, <1>9, RespondConnections

\* Requests for a pool.
LEMMA PoolConnections ==
  ASSUME Inv, Connections, NEW c \in Client, Create(c) \/ Open(c) \/ Close(c) \/ Delete(c)
  PROVE  Connections'
<1> DEFINE p == handler[c]
<1>1. p \in HandlerShape /\ HandlerFits(p, c \in closing)
  BY ZenonT(30) DEF Connections, Connected, Inv, Shape
<1>2. 0 <= p.free /\ p.refs \in Nat
  BY <1>1 DEF HandlerFits, HandlerShape
<1>3. ASSUME NEW op \in {"create", "open"}, Serves(c, op), NEW ok \in BOOLEAN, NEW r \in Nat,
             Respond(c, [p EXCEPT !.refs = r], <<IF ok THEN OK ELSE Fail>>),
             client' = client, toServer' = toServer, closing' = closing, tasks' = tasks,
             IF ok THEN r = p.refs + 1 ELSE r >= p.refs
      PROVE  Connections'
  <2>1. p.msg /\ op = p.recv.op
    BY <1>3 DEF Serves
  <2>2. PICK h : h = [p EXCEPT !.refs = r]
    BY ZenonT(30)
  <2>3. /\ h \in HandlerShape /\ h.release = p.release /\ h.free = p.free /\ h.state = p.state
        /\ h.outstanding = p.outstanding /\ h.refs = r
    BY <1>1, <2>2 DEF HandlerShape
  <2>4. h.state = "POST_MSG_RECV" /\ ~h.outstanding
    BY ZenonT(30), <1>1, <2>1, <2>3 DEF HandlerFits, ValueState
  <2>5. PICK ms : ms = <<IF ok THEN OK ELSE Fail>>
    BY ZenonT(30)
  <2>6. ms \in Answers /\ ms # <<>> /\ (Head(ms).ok <=> ok)
    <3>1. CASE ok
      <4>1. ms = <<OK>>
        BY <2>5, <3>1
      <4> QED BY <3>1, <4>1, AnswerParts DEF Answers
    <3>2. CASE ~ok
      <4>1. ms = <<Fail>>
        BY <2>5, <3>2
      <4> QED BY <3>2, <4>1, AnswerParts DEF Answers
    <3> QED BY <3>1, <3>2
  <2>7. Fits(op, ms, h.state)
    BY <2>4, <2>6 DEF Fits, Late
  <2>8. PICK n \in Nat, m \in Nat : n = 0 /\ m = (IF ok THEN 1 ELSE 0)
    OBVIOUS
  <2>9. /\ n = (IF op = "close" THEN 1 ELSE 0)
        /\ m = (IF op \in {"create", "open"} /\ Head(ms).ok THEN 1 ELSE 0)
    BY <2>6, <2>8
  <2>10. h.refs + n >= p.refs + m /\ 0 <= h.free /\ h.free <= p.free
    BY <1>1, <1>2, <1>3, <2>3, <2>8 DEF HandlerShape
  <2>11. h.outstanding <=> h.state \in ValueState
    BY <2>4 DEF ValueState
  <2>12. Respond(c, h, ms)
    BY <1>3, <2>2, <2>5
  <2> HIDE DEF p
  <2> QED BY <1>3, <2>1, <2>3, <2>4, <2>6, <2>7, <2>9, <2>10, <2>11, <2>12, RespondConnections DEF p
<1>4. CASE Create(c)
  <2>1. PICK ok \in BOOLEAN : ok = (p.refs = 0 /\ ~pool.exists)
    BY ZenonT(30)
  <2>2. PICK r \in Nat : r = IF ok \/ p.refs > 0 THEN p.refs + 1 ELSE p.refs
    BY <1>2
  <2>3. [p EXCEPT !.refs = IF ok \/ p.refs > 0 THEN @ + 1 ELSE @] = [p EXCEPT !.refs = r]
    BY <1>1, <2>2 DEF HandlerShape
  <2>4. /\ Respond(c, [p EXCEPT !.refs = r], <<IF ok THEN OK ELSE Fail>>)
        /\ client' = client /\ toServer' = toServer /\ closing' = closing /\ tasks' = tasks
        /\ Serves(c, "create")
    BY ZenonT(30), <1>4, <2>1, <2>3 DEF Create
  <2>5. IF ok THEN r = p.refs + 1 ELSE r >= p.refs
    BY <1>2, <2>2
  <2> HIDE DEF p
  <2> QED BY <1>3, <2>4, <2>5
<1>5. CASE Open(c)
  <2>1. PICK ok \in BOOLEAN : ok = (p.refs > 0 \/ pool.exists)
    BY ZenonT(30)
  <2>2. PICK r \in Nat : r = IF ok THEN p.refs + 1 ELSE p.refs
    BY <1>2
  <2>3. [p EXCEPT !.refs = IF ok THEN @ + 1 ELSE @] = [p EXCEPT !.refs = r]
    BY <1>1, <2>2 DEF HandlerShape
  <2>4. /\ Respond(c, [p EXCEPT !.refs = r], <<IF ok THEN OK ELSE Fail>>)
        /\ client' = client /\ toServer' = toServer /\ closing' = closing /\ tasks' = tasks
        /\ Serves(c, "open")
    BY ZenonT(30), <1>5, <2>1, <2>3 DEF Open
  <2>5. IF ok THEN r = p.refs + 1 ELSE r >= p.refs
    BY <1>2, <2>2
  <2> HIDE DEF p
  <2> QED BY <1>3, <2>4, <2>5
<1>6. CASE Close(c)
  <2>1. CASE p.refs = 0
    BY <1>6, <2>1, StopConnections DEF Close
  <2>2. CASE p.refs # 0
    <3>1. PICK r \in Nat : r = p.refs - 1
      BY <1>2, <2>2
    <3>2. PICK h : h = [p EXCEPT !.refs = r]
      BY ZenonT(30)
    <3>3. /\ h \in HandlerShape /\ h.release = p.release /\ h.free = p.free /\ h.state = p.state
          /\ h.outstanding = p.outstanding /\ h.refs = r
      BY <1>1, <3>2 DEF HandlerShape
    <3>4. [p EXCEPT !.refs = @ - 1] = h
      BY <1>1, <3>1, <3>2 DEF HandlerShape
    <3>5. /\ Respond(c, h, <<OK>>) /\ Serves(c, "close")
          /\ client' = client /\ toServer' = toServer /\ closing' = closing /\ tasks' = tasks
      BY <1>6, <2>2, <3>4 DEF Close
    <3>6. 0 <= h.free /\ h.free <= p.free /\ h.refs + 1 = p.refs
      BY ONLY <1>1, <1>2, <3>1, <3>3 DEF HandlerShape
    <3>7. /\ h.refs + (IF "close" = "close" THEN 1 ELSE 0) = p.refs
          /\ "close" \notin {"put_advance", "create", "open"} /\ <<OK>> \in {<<OK>>, <<Fail>>}
      BY ONLY <3>6
    <3>8. /\ h \in HandlerShape /\ h.release = handler[c].release /\ 0 <= h.free /\ h.free <= handler[c].free
          /\ h.state = handler[c].state /\ h.outstanding = handler[c].outstanding
          /\ h.refs + (IF "close" = "close" THEN 1 ELSE 0) = handler[c].refs
      BY ONLY <3>3, <3>6, <3>7
    <3> QED BY <3>5, <3>7, <3>8, AnswerConnections, ZenonT(30)
  <2> QED BY <2>1, <2>2
<1>7. CASE Delete(c)
  <2>1. PICK ms \in {<<OK>>, <<Fail>>} : Respond(c, p, ms)
    BY ZenonT(30), <1>7 DEF Delete
  <2>2. /\ Serves(c, "delete")
        /\ client' = client /\ toServer' = toServer /\ closing' = closing /\ tasks' = tasks
    BY <1>7 DEF Delete
  <2>3. p.free <= p.free /\ p.refs + 0 = p.refs
    BY ONLY <1>1 DEF HandlerShape
  <2>4. /\ p.refs + (IF "delete" = "close" THEN 1 ELSE 0) = p.refs
        /\ "delete" \notin {"put_advance", "create", "open"}
    BY ONLY <2>3
  <2>5. p \in HandlerShape /\ 0 <= p.free
    BY <1>1, <1>2
  <2> QED BY <2>1, <2>2, <2>3, <2>4, <2>5, AnswerConnections, ZenonT(30)
<1> QED BY <1>4, <1>5, <1>6, <1>7

=============================================================================
