-------------------------- MODULE DawnShardProofs ---------------------------
(***************************************************************************)
(* What DawnConnectionProofs says of the connections, and the count of     *)
(* transfers that each lock carries, make the properties of DawnShard:     *)
(* each request has its one answer, each value its frame, each transfer    *)
(* its lock.                                                               *)
(***************************************************************************)
EXTENDS DawnConnectionProofs, Counting, FiniteSetTheorems

\* Every finite set is Countable, which TicketLock assumes of its threads and
\* AtomicController of its keys.
THEOREM FiniteCountable == \A K : IsFiniteSet(K) => Countable(K)
<1> SUFFICES ASSUME NEW K, IsFiniteSet(K), NEW S \in SUBSET K
             PROVE  /\ Cardinality(S) \in Nat
                    /\ Cardinality(S) = 0 <=> S = {}
                    /\ \A k \in K \ S : Cardinality(S \cup {k}) = Cardinality(S) + 1
                    /\ S # K => Cardinality(S) < Cardinality(K)
  BY DEF Countable
<1>1. /\ IsFiniteSet(S)
      /\ Cardinality(S) <= Cardinality(K)
      /\ Cardinality(S) = Cardinality(K) => S = K
  BY FS_Subset
<1>2. Cardinality(S) \in Nat /\ Cardinality(K) \in Nat
  BY <1>1, FS_CardinalityType
<1>3. Cardinality(S) = 0 <=> S = {}
  BY <1>1, FS_EmptySet
<1>4. \A k \in K \ S : Cardinality(S \cup {k}) = Cardinality(S) + 1
  BY ZenonT(30), <1>1, FS_AddElement
<1>5. S # K => Cardinality(S) < Cardinality(K)
  BY ONLY <1>1, <1>2
<1> QED BY ONLY <1>2, <1>3, <1>4, <1>5

-----------------------------------------------------------------------------
\* The rest of the connections.

\* The requests.
LEMMA ServeConnections ==
  ASSUME Inv, Connections, NEW c \in Client, Serve(c)
  PROVE  Connections'
<1> DEFINE p == handler[c]
<1>1. p \in HandlerShape /\ HandlerFits(p, c \in closing)
  BY DEF Connections, Connected, Inv, Shape
<1>2. 0 <= p.free /\ p.refs \in Nat /\ p.free <= p.free /\ p.refs + 0 = p.refs /\ p.free \in Int
  BY <1>1 DEF HandlerFits, HandlerShape
<1>3. p.msg => p.state = "POST_MSG_RECV" /\ ~p.outstanding /\ p.recv \in Request
  BY <1>1 DEF HandlerFits, ValueState
<1>4. p.recv \in Request => p.recv.key \in Key /\ p.recv.len \in Int
  BY DawnAssumption DEF Large
<1>5. CASE Create(c) \/ Open(c) \/ Close(c) \/ Delete(c)
  BY <1>5, PoolConnections
<1>6. ASSUME NEW op, Serves(c, op), op \notin {"put_advance", "create", "open", "close"},
             NEW ms \in {<<OK>>, <<Fail>>}, Respond(c, p, ms),
             client' = client, toServer' = toServer, closing' = closing, tasks' = tasks
      PROVE  Connections'
  BY <1>1, <1>2, <1>6, AnswerConnections
<1>7. ASSUME NEW op, Serves(c, op), op \notin {"put_advance", "create", "open", "close"},
             NEW h \in HandlerShape, NEW ms \in {<<OK>>, <<Fail>>}, Respond(c, PostSend(h), ms),
             h.state = p.state, h.refs = p.refs, h.release = p.release, h.free = p.free,
             h.outstanding = p.outstanding,
             client' = client, toServer' = toServer, closing' = closing, tasks' = tasks
      PROVE  Connections'
  <2>1. PICK f \in Int : f = h.free - 1
    BY ONLY <1>7 DEF HandlerShape
  <2>2. PICK g : g = [h EXCEPT !.send = "outstanding", !.free = f]
    OBVIOUS
  <2>3. g = PostSend(h)
    BY <2>1, <2>2 DEF PostSend
  <2>4. /\ g \in HandlerShape /\ g.state = p.state /\ g.refs = p.refs /\ g.release = p.release
        /\ g.free = f /\ g.outstanding = p.outstanding
    BY ZenonT(30), <1>7, <2>2 DEF HandlerShape
  <2>5. p.free > 0
    BY <1>7 DEF Serves
  <2>6. 0 <= g.free /\ g.free <= p.free /\ g.refs + 0 = p.refs
    BY <1>2, <1>7, <2>1, <2>4, <2>5
  <2> HIDE DEF p
  <2> QED BY <1>7, <2>3, <2>4, <2>6, AnswerConnections DEF p
<1>8. CASE PutAdvance(c)
  <2> DEFINE r == p.recv
             a == pool'.map[r.key].ptr
             h == [p EXCEPT !.value = a, !.outstanding = TRUE, !.state = "WAIT_RECV_VALUE"]
  <2>1. CASE Stop("waiting") \/ Stop("ended")
    BY ZenonT(30), <2>1, StopConnections
  <2>2. CASE ~Stop("waiting") /\ ~Stop("ended")
    <3>0. Serves(c, "put_advance") /\ r.op # "put_advance_new"
      BY ZenonT(30), <1>8, <2>2 DEF PutAdvance, Serves
    <3>1. /\ Serves(c, "put_advance") /\ Respond(c, h, <<OK>>) /\ pool' \in lock_write(pool, r.key, r.len)
          /\ client' = client /\ toServer' = toServer /\ closing' = closing /\ tasks' = tasks
      BY ZenonT(60), <1>8, <2>2, <3>0 DEF PutAdvance
    <3>2. p.msg /\ r.op = "put_advance"
      BY ZenonT(30), <3>1 DEF Serves
    <3>3. a \in Addr \cup {NoAddr}
      <4>1. r.key \in Key /\ r.len \in Int /\ r.len \in Length
        BY <1>3, <1>4, <3>2, DawnAssumption
      <4>2. pool \in Pool
        BY DEF Inv, Shape
      <4>3. pool' \in Pool
        BY ZenonT(30), <3>1, <4>1, <4>2, PoolKept
      <4> QED BY ZenonT(30), <4>1, <4>3, PoolKept
    <3>4. /\ h \in HandlerShape /\ h.state = "WAIT_RECV_VALUE" /\ h.outstanding = TRUE
          /\ h.refs = p.refs /\ h.release = p.release /\ h.free = p.free
      BY ZenonT(30), <1>1, <3>3 DEF HandlerShape, HandlerState
    <3>5. PICK ms : ms = <<OK>>
      BY ZenonT(30)
    <3>6. ms \in Answers /\ ms # <<>>
      BY <3>5, Single DEF Answers
    <3>7. Fits(r.op, ms, h.state)
      BY <3>2, <3>4, <3>5, <3>6 DEF Fits
    <3>8. PICK n \in Nat : n = 0
      OBVIOUS
    <3>9. /\ n = (IF r.op = "close" THEN 1 ELSE 0)
          /\ n = (IF r.op \in {"create", "open"} /\ Head(ms).ok THEN 1 ELSE 0)
          /\ h.refs + n >= p.refs + n /\ 0 <= h.free /\ h.free <= p.free
      BY <1>2, <3>2, <3>4, <3>8
    <3>10. h.outstanding <=> h.state \in ValueState
      BY <3>4 DEF ValueState
    <3>11. r.op = p.recv.op /\ Respond(c, h, ms)
      BY <3>1, <3>5
    <3> HIDE DEF h, p, r
    <3> QED BY ZenonT(30), <3>1, <3>2, <3>4, <3>6, <3>7, <3>8, <3>9, <3>10, <3>11, RespondConnections DEF p
  <2> QED BY <2>1, <2>2
<1>9. CASE Put(c)
  <2>1. PICK op \in {"put", "put_new"} : Serves(c, op)
    BY <1>9 DEF Put
  <2>2. PICK ms \in {<<OK>>, <<Fail>>} : Respond(c, p, ms)
    BY <1>9 DEF Put
  <2> QED BY <1>6, <1>9, <2>1, <2>2 DEF Put
<1>10. CASE Get(c)
  <2> DEFINE v == pool.map[p.recv.key]
             two == <<[OK EXCEPT !.two_stage = TRUE], Value>>
             g1 == [p EXCEPT !.value = v.ptr]
             g2 == [p EXCEPT !.value = v.ptr, !.outstanding = TRUE, !.state = "WAIT_SEND_VALUE"]
  <2>1. CASE Stop("ended")
    BY ZenonT(30), <2>1, StopConnections
  <2>2. CASE ~Stop("ended")
    <3>1. PICK op \in {"get", "get_direct"} : Serves(c, op)
      BY ZenonT(30), <1>10 DEF Get
    <3>2. p.msg /\ p.recv.op = op
      BY ZenonT(30), <3>1 DEF Serves
    <3>3. /\ \/ \E ms \in {<<OK>>, <<Fail>>} : Respond(c, p, ms)
             \/ Respond(c, PostSend(p), <<OK>>) \/ Respond(c, PostSend(g1), <<OK>>)
             \/ Respond(c, g2, two)
          /\ client' = client /\ toServer' = toServer /\ closing' = closing /\ tasks' = tasks
      BY ZenonT(30), <1>10, <2>2 DEF Get
    <3>4. v.ptr \in Addr \cup {NoAddr}
      <4>1. pool \in Pool /\ p.recv.key \in Key /\ p.recv.len \in Int
        BY <1>3, <1>4, <3>2 DEF Inv, Shape
      <4> QED BY ZenonT(30), <4>1, PoolKept
    <3>5. /\ g1 \in HandlerShape /\ g1.state = p.state /\ g1.outstanding = p.outstanding
          /\ g1.refs = p.refs /\ g1.release = p.release /\ g1.free = p.free
      BY ZenonT(30), <1>1, <3>4 DEF HandlerShape
    <3>6. /\ g2 \in HandlerShape /\ g2.state = "WAIT_SEND_VALUE" /\ g2.outstanding = TRUE
          /\ g2.refs = p.refs /\ g2.release = p.release /\ g2.free = p.free
      BY ZenonT(30), <1>1, <3>4 DEF HandlerShape, HandlerState
    <3>7. CASE Respond(c, g2, two)
      <4>1. PICK ms : ms = two
        BY ZenonT(30)
      <4>2. ms \in Answers /\ ms # <<>>
        BY <4>1, AnswerParts DEF Answers
      <4>3. Fits(p.recv.op, ms, g2.state)
        BY <3>1, <3>2, <3>6, <4>2 DEF Fits, Late
      <4>4. PICK n \in Nat : n = 0
        OBVIOUS
      <4>5. /\ n = (IF p.recv.op = "close" THEN 1 ELSE 0)
            /\ n = (IF p.recv.op \in {"create", "open"} /\ Head(ms).ok THEN 1 ELSE 0)
            /\ g2.refs + n >= p.refs + n /\ 0 <= g2.free /\ g2.free <= p.free
        BY <1>2, <3>1, <3>2, <3>6, <4>4
      <4>6. g2.outstanding <=> g2.state \in ValueState
        BY <3>6 DEF ValueState
      <4>7. Respond(c, g2, ms)
        BY <3>7, <4>1
      <4> HIDE DEF g2, p
      <4> QED BY ZenonT(30), <3>2, <3>3, <3>6, <4>2, <4>3, <4>4, <4>5, <4>6, <4>7, RespondConnections DEF p
    <3>8. CASE \E ms \in {<<OK>>, <<Fail>>} : Respond(c, p, ms)
      BY ZenonT(30), <1>6, <3>1, <3>3, <3>8
    <3>9. CASE Respond(c, PostSend(p), <<OK>>)
      BY ZenonT(30), <1>1, <1>7, <3>1, <3>3, <3>9
    <3>10. CASE Respond(c, PostSend(g1), <<OK>>)
      <4> HIDE DEF g1
      <4> QED BY ZenonT(30), <1>7, <3>1, <3>3, <3>5, <3>10
    <3> QED BY ZenonT(30), <3>3, <3>7, <3>8, <3>9, <3>10
  <2> QED BY ZenonT(30), <2>1, <2>2
<1>11. CASE Erase(c)
  <2>1. PICK ms \in {<<OK>>, <<Fail>>} : Respond(c, p, ms)
    BY <1>11 DEF Erase
  <2> QED BY <1>6, <1>11, <2>1 DEF Erase
<1>12. CASE AddIndex(c)
  BY ZenonT(30), <1>6, <1>12 DEF AddIndex
<1>13. CASE RemoveIndex(c)
  <2>1. CASE Stop("ended")
    BY <2>1, StopConnections
  <2>2. CASE ~Stop("ended")
    <3>1. PICK ms \in {<<OK>>, <<Fail>>} : Respond(c, p, ms)
      BY ZenonT(30), <1>13, <2>2 DEF RemoveIndex
    <3> QED BY ZenonT(30), <1>6, <1>13, <2>2, <3>1 DEF RemoveIndex
  <2> QED BY <2>1, <2>2
<1>14. CASE FindTask(c)
  <2>1. PICK ms : ms = <<>>
    OBVIOUS
  <2>2. /\ p.msg /\ p.recv.op = "find" /\ Respond(c, p, ms) /\ tasks' = tasks \cup {c}
        /\ client' = client /\ toServer' = toServer /\ closing' = closing
    BY <1>14, <2>1 DEF FindTask
  <2>3. p.state \in Late /\ (p.outstanding <=> p.state \in ValueState) /\ p.state = "POST_MSG_RECV"
    BY <1>3, <2>2 DEF Late, ValueState
  <2>4. PICK n \in Nat : n = 0
    OBVIOUS
  <2>5. /\ n = (IF p.recv.op = "close" THEN 1 ELSE 0)
        /\ n = (IF p.recv.op \in {"create", "open"} /\ Head(ms).ok THEN 1 ELSE 0)
        /\ p.refs + n >= p.refs + n
    BY <1>2, <2>2, <2>4
  <2> HIDE DEF p
  <2> QED BY ZenonT(30), <1>1, <1>2, <2>1, <2>2, <2>3, <2>5, RespondConnections DEF p
<1>15. CASE FindRefused(c)
  BY <1>1, <1>7, <1>15 DEF FindRefused
<1>16. CASE Info(c)
  <2>1. PICK op \in {"info", "ado"} : Serves(c, op)
    BY <1>16 DEF Info
  <2>2. PICK ms \in {<<OK>>, <<Fail>>} : Respond(c, p, ms)
    BY <1>16 DEF Info
  <2> QED BY ZenonT(30), <1>6, <1>16, <2>1, <2>2 DEF Info
<1>17. CASE Crc32(c)
  <2>1. CASE Stop("ended")
    BY <2>1, StopConnections
  <2>2. CASE ~Stop("ended")
    BY <1>6, <1>17, <2>2 DEF Crc32
  <2> QED BY <2>1, <2>2
<1>18. CASE OutOfBuffers(c)
  BY <1>18, StopConnections DEF OutOfBuffers
<1> QED BY <1>5, <1>8, <1>9, <1>10, <1>11, <1>12, <1>13, <1>14, <1>15, <1>16, <1>17, <1>18 DEF Serve

\* What else the shard does in a pass: accepting, releasing, tasks, deleting.
LEMMA PassConnections ==
  ASSUME Inv, Connections,
         \/ \E c \in Client : Accept(c) \/ release_locked_value(c) \/ TaskDone(c)
         \/ DeleteHandlers
  PROVE  Connections'
<1>1. \A c \in Client :
        /\ handler[c] \in HandlerShape /\ HandlerFits(handler[c], c \in closing)
        /\ Linked(client[c], toServer[c], toClient[c], handler[c], c \in tasks, c \in closing)
        /\ Backed(client[c], toClient[c], handler[c])
  BY DEF Connections, Connected, Inv, Shape
<1>2. /\ client \in [Client -> ClientShape] /\ tasks \subseteq Client
      /\ toClient \in [Client -> Seq(Reply \cup {Value})]
  BY DEF Connections
<1>3. ASSUME NEW c \in Client, Accept(c) PROVE Connections'
  <2> DEFINE p == handler[c]
  <2>1. PICK f \in Int : f = BufferCount
    BY DawnAssumption
  <2>2. PICK g : g = [p EXCEPT !.state = "INITIALIZE", !.free = f]
    OBVIOUS
  <2>3. handler' = [handler EXCEPT ![c] = g] /\ p.state = "queued"
    BY ZenonT(30), <1>3, <2>1, <2>2 DEF Accept
  <2>4. /\ g \in HandlerShape /\ g.state = "INITIALIZE" /\ g.refs = p.refs /\ g.msg = p.msg
        /\ g.recv = p.recv /\ g.outstanding = p.outstanding /\ g.release = p.release /\ g.free = f
    BY ZenonT(30), <1>1, <2>2 DEF HandlerShape, HandlerState
  <2>5. /\ p.recv = NoMessage /\ ~p.msg /\ p.release = NoAddr /\ ~p.outstanding
    BY <1>1, <2>3 DEF HandlerFits, ValueState
  <2>6. HandlerFits(g, c \in closing)
    <3>1. 0 <= f /\ f <= BufferCount
      BY <2>1, DawnAssumption
    <3> QED BY <2>4, <2>5, <3>1, Distinct DEF HandlerFits, ValueState
  <2>7. g.state \in Early /\ p.state \notin Late
    BY ZenonT(30), <2>3, <2>4 DEF Early, Late
  <2> QED BY ZenonT(30), <1>3, <2>3, <2>4, <2>5, <2>6, <2>7, QuietStep DEF Accept
<1>4. ASSUME NEW c \in Client, release_locked_value(c) PROVE Connections'
  <2> DEFINE p == handler[c]
  <2>1. CASE Stop("ended")
    BY ZenonT(30), <2>1, StopConnections
  <2>2. CASE ~Stop("ended")
    <3>1. PICK g : g = [p EXCEPT !.release = NoAddr]
      BY ZenonT(30)
    <3>2. /\ handler' = [handler EXCEPT ![c] = g] /\ p.release # NoAddr
          /\ client' = client /\ toServer' = toServer /\ toClient' = toClient
          /\ tasks' = tasks /\ closing' = closing
      BY <1>4, <2>2, <3>1 DEF release_locked_value
    <3>3. /\ g \in HandlerShape /\ g.state = p.state /\ g.refs = p.refs /\ g.msg = p.msg
          /\ g.recv = p.recv /\ g.outstanding = p.outstanding /\ g.release = NoAddr
          /\ g.free = p.free
      BY <1>1, <3>1 DEF HandlerShape
    <3>4. p.state = "POST_MSG_RECV" /\ ~p.msg
      BY <1>1, <3>2 DEF HandlerFits
    <3>5. HandlerFits(p, c \in closing)
      BY ZenonT(30), <1>1
    <3>6. HandlerFits(g, c \in closing)
      BY ZenonT(30), <3>3, <3>4, <3>5 DEF HandlerFits
    <3> QED BY ZenonT(30), <3>2, <3>3, <3>4, <3>6, QuietStep
  <2> QED BY <2>1, <2>2
<1>5. ASSUME NEW c \in Client, TaskDone(c) PROVE Connections'
  <2> DEFINE k == client[c]
             in == toServer[c]
             out == toClient[c]
             p == handler[c]
  <2>1. CASE Stop("ended")
    BY <2>1, StopConnections
  <2>2. CASE ~Stop("ended")
    <3>1. /\ c \in tasks /\ tasks' = tasks \ {c} /\ closing' = closing
          /\ client' = client /\ toServer' = toServer
      BY <1>5, <2>2 DEF TaskDone
    <3>8. PICK g \in HandlerShape :
            /\ handler' = [handler EXCEPT ![c] = g]
            /\ g.state = p.state /\ g.recv = p.recv /\ g.refs = p.refs /\ g.msg = p.msg
            /\ g.release = p.release /\ g.outstanding = p.outstanding
            /\ g.free \in {p.free, p.free - 1} /\ (g.free # p.free => p.free > 0)
      BY ZenonT(30), <1>5, <2>2, TaskHandler
    <3>9. handler'[c] = g /\ \A d \in Client \ {c} : handler'[d] = handler[d]
      BY <3>8 DEF Inv, Shape
    <3>2. PICK m \in {OK, Fail} : Send(c, <<m>>)
      BY ZenonT(30), <1>5, <2>2 DEF TaskDone
    <3>3. (c \in tasks) = TRUE /\ (c \in tasks') = FALSE /\ (c \in closing') = (c \in closing)
      BY <3>1
    <3>4. Linked(k, in, out, p, TRUE, c \in closing)
      BY ZenonT(30), <1>1, <3>3
    <3>5. HandlerFits(g, c \in closing) /\ Backed(k, out, g)
      <4>1. HandlerFits(p, c \in closing) /\ Backed(k, out, p) /\ p \in HandlerShape
        BY <1>1
      <4>2. /\ 0 <= g.free /\ g.free <= BufferCount
            /\ p.recv # NoMessage => g.free < BufferCount
        <5>1. p.free \in Int
          BY <4>1 DEF HandlerShape
        <5>2. /\ 0 <= p.free /\ p.free <= BufferCount
              /\ p.recv # NoMessage => p.free < BufferCount
          BY ZenonT(30), <4>1 DEF HandlerFits
        <5> HIDE DEF p
        <5> QED BY <3>8, <5>1, <5>2, DawnAssumption
      <4>3. HandlerFits(g, c \in closing)
        <5> HIDE DEF p
        <5> QED BY ZenonT(30), <3>8, <4>1, <4>2 DEF HandlerFits
      <4>4. Backed(k, out, g)
        BY ZenonT(30), <3>8, <4>1 DEF Backed
      <4> QED BY <4>3, <4>4
    <3>6. CASE k.state = "lost"
      <4>1. toClient' = toClient /\ in = <<>> /\ out = <<>>
        BY ZenonT(30), <3>2, <3>4, <3>6 DEF Send, Linked
      <4>2. Linked(k, in, out, g, FALSE, c \in closing)
        BY <3>6, <4>1 DEF Linked
      <4>3. Others(c)
        BY ZenonT(30), <3>1, <3>9, <4>1 DEF Others
      <4> QED BY ZenonT(30), <1>2, <3>1, <3>3, <3>5, <3>9, <4>1, <4>2, <4>3, OneMoves
    <3>7. CASE k.state # "lost"
      <4>1. /\ k.state = "wait" /\ c \notin closing /\ k.req \in Request /\ in = <<>> /\ out = <<>>
            /\ ~p.msg /\ k.req.op = "find" /\ p.state \in Late
        <5> HIDE DEF k, in, out, p
        <5> QED BY <3>4, <3>7 DEF Linked, Waits
      <4>2. toClient' = [toClient EXCEPT ![c] = <<m>>]
        <5>1. toClient' = [toClient EXCEPT ![c] = out \o <<m>>]
          BY <3>2, <3>7 DEF Send
        <5> QED BY ZenonT(30), <4>1, <5>1, Single
      <4>3. <<m>> \in Answers /\ <<m>> \in Seq(Reply \cup {Value})
        <5>1. <<m>> \in Answers
          BY <3>2 DEF Answers
        <5> QED BY ZenonT(30), <5>1, AnswerSent
      <4>4. toClient' \in [Client -> Seq(Reply \cup {Value})] /\ toClient'[c] = <<m>>
        BY <1>2, <4>2, <4>3
      <4>5. Fits(k.req.op, <<m>>, g.state)
        BY ZenonT(30), <3>8, <4>1, <4>3 DEF Fits
      <4>6. Linked(k, in, <<m>>, g, FALSE, c \in closing)
        <5>1. Waits(k, in, <<m>>, g, FALSE)
          BY <3>8, <4>1, <4>5 DEF Waits
        <5> QED BY ZenonT(30), <4>1, <5>1 DEF Linked
      <4>7. Backed(k, <<m>>, g)
        <5>1. InTransit(k, out) = 0 /\ InTransit(k, <<m>>) = 0
          BY <4>1, Single DEF InTransit
        <5> QED BY <3>5, <5>1 DEF Backed
      <4>8. Others(c) /\ tasks' \subseteq Client
        BY ZenonT(30), <1>2, <3>1, <3>9, <4>2 DEF Others
      <4> QED BY ZenonT(30), <1>2, <3>1, <3>3, <3>5, <3>9, <4>4, <4>6, <4>7, <4>8, OneMoves
    <3> QED BY <3>6, <3>7
  <2> QED BY <2>1, <2>2 
<1>6. CASE DeleteHandlers
  <2>1. /\ client' = client /\ toServer' = toServer /\ toClient' = toClient /\ tasks' = tasks
        /\ closing' = {}
        /\ \A c \in Client : handler'[c] = IF c \in closing THEN NoHandler ELSE handler[c]
    BY <1>6 DEF DeleteHandlers
  <2>2. ASSUME NEW c \in Client PROVE Connected(c)'
    <3> DEFINE k == client[c]
               in == toServer[c]
               out == toClient[c]
               p == handler[c]
    <3>1. (c \in closing') = FALSE /\ (c \in tasks') = (c \in tasks)
      BY <2>1
    <3>2. CASE c \notin closing
      <4>1. handler'[c] = p /\ (c \in closing) = FALSE
        BY <2>1, <3>2
      <4>2. /\ HandlerFits(p, FALSE) /\ Linked(k, in, out, p, c \in tasks, FALSE)
            /\ Backed(k, out, p)
        BY ZenonT(30), <1>1, <4>1
      <4> QED BY ZenonT(30), <2>1, <3>1, <4>1, <4>2 DEF Connected
    <3>3. CASE c \in closing
      <4>1. handler'[c] = NoHandler /\ (c \in closing) = TRUE
        BY ZenonT(30), <2>1, <3>3
      <4>2. Linked(k, in, out, p, c \in tasks, TRUE) /\ Backed(k, out, p)
        BY ZenonT(30), <1>1, <4>1
      <4>3. NoHandler.state = "none" /\ NoHandler.msg = FALSE /\ NoHandler.refs = 0
        BY DEF NoHandler
      <4>4. k.state \in {"lost", "STOPPED"}
        BY <4>2 DEF Linked
      <4>5. Linked(k, in, out, NoHandler, c \in tasks, FALSE)
        BY ZenonT(30), <4>2, <4>3 DEF Linked
      <4>6. Backed(k, out, NoHandler)
        <5>1. InTransit(k, out) = 0
          BY <4>4, NothingInTransit
        <5>2. k.handles = 0
          BY ONLY <4>2, <4>4 DEF Backed
        <5>3. k.handles + InTransit(k, out) <= NoHandler.refs
          BY ONLY <4>3, <5>1, <5>2
        <5> QED BY ONLY ZenonT(30), <5>2, <5>3 DEF Backed
      <4> QED BY ZenonT(30), <2>1, <3>1, <4>1, <4>5, <4>6, NoHandlerFits DEF Connected
    <3> QED BY <3>2, <3>3
  <2> QED BY <1>2, <2>1, <2>2 DEF Connections
<1> QED BY <1>3, <1>4, <1>5, <1>6

\* Nothing is connected yet.
LEMMA InitConnections == Init => Connections
<1> SUFFICES ASSUME Init PROVE Connections
  OBVIOUS
<1> DEFINE k == [state |-> "off", req |-> NoRequest, handles |-> 0, made |-> 0]
<1>1. k \in ClientShape
  BY DEF ClientShape, ClientState
<1>2. ASSUME NEW c \in Client PROVE Connected(c)
  <2>1. /\ client[c] = k /\ toServer[c] = <<>> /\ toClient[c] = <<>> /\ handler[c] = NoHandler
        /\ (c \in tasks) = FALSE /\ (c \in closing) = FALSE
    BY DEF Init
  <2>2. k.state = "off" /\ k.req = NoRequest /\ k.handles = 0
    OBVIOUS
  <2>3. ~NoHandler.msg /\ NoHandler.refs = 0
    BY DEF NoHandler
  <2> HIDE DEF k
  <2>4. Linked(k, <<>>, <<>>, NoHandler, FALSE, FALSE)
    BY <2>2, <2>3 DEF Linked
  <2>5. Backed(k, <<>>, NoHandler)
    BY <2>2, <2>3, NothingInTransit DEF Backed
  <2> QED BY ZenonT(30), <2>1, <2>4, <2>5, NoHandlerFits DEF Connected
<1> QED BY <1>1, <1>2 DEF Connections, Init

\* No step of clients or shard breaks a connection.
LEMMA NextConnections == Inv /\ Connections /\ [Next]_vars => Connections'
<1> SUFFICES ASSUME Inv, Connections, [Next]_vars PROVE Connections'
  OBVIOUS
<1>1. CASE Next
  BY ZenonT(30), <1>1, ClientConnections, TickConnections, ServeConnections, PassConnections DEF Next
<1>2. CASE UNCHANGED vars
  BY ZenonT(30), <1>2 DEF vars, shard, Connections, Connected
<1> QED BY <1>1, <1>2

-----------------------------------------------------------------------------
\* Who transfers the value at a.
Transfers(hs, a) == {d \in Client : Transferred(hs[d]) = a}

\* The handler of c becomes g, and no other changes.
OneChanges(hs, now, c, g) == hs \in [Client -> HandlerShape] /\ now = [hs EXCEPT ![c] = g]

\* One connection changes: it joins, leaves or stays.
LEMMA TransferCount ==
  ASSUME NEW hs, NEW now, NEW c \in Client, NEW g, NEW a, OneChanges(hs, now, c, g)
  PROVE  /\ Cardinality(Transfers(hs, a)) \in Nat
         /\ Transferred(hs[c]) = a => Cardinality(Transfers(hs, a)) > 0
         /\ Transferred(hs[c]) # a /\ Transferred(g) = a =>
              Cardinality(Transfers(now, a)) = Cardinality(Transfers(hs, a)) + 1
         /\ Transferred(hs[c]) = a /\ Transferred(g) # a =>
              Cardinality(Transfers(now, a)) = Cardinality(Transfers(hs, a)) - 1
         /\ (Transferred(hs[c]) = a <=> Transferred(g) = a) =>
              Transfers(now, a) = Transfers(hs, a)
<1> DEFINE T == Transfers(hs, a)
           U == Transfers(now, a)
<1>1. now[c] = g /\ \A d \in Client : d # c => now[d] = hs[d]
  BY DEF OneChanges
<1>2. IsFiniteSet(T)
  <2>1. T \subseteq Client
    BY DEF Transfers
  <2> QED BY <2>1, FS_Subset, DawnAssumption
<1>3. /\ c \in T <=> Transferred(hs[c]) = a
      /\ Transferred(g) = a => U = T \cup {c}
      /\ Transferred(g) # a => U = T \ {c}
  BY <1>1 DEF Transfers
<1> HIDE DEF T, U
<1>4. /\ Cardinality(T) \in Nat /\ (Cardinality(T) = 0 <=> T = {})
      /\ c \notin T => Cardinality(T \cup {c}) = Cardinality(T) + 1
      /\ c \in T => Cardinality(T \ {c}) = Cardinality(T) - 1
  BY ZenonT(30), <1>2, FS_CardinalityType, FS_EmptySet, FS_AddElement, FS_RemoveElement
<1>5. c \in T => Cardinality(T) > 0
  BY <1>4
<1>6. (c \in T => T \cup {c} = T) /\ (c \notin T => T \ {c} = T)
  OBVIOUS
<1> QED BY ZenonT(30), <1>3, <1>4, <1>5, <1>6 DEF T, U

\* A step that moves no transfer: the count may only grow.
LEMMA SameTransfers ==
  ASSUME Inv, Counted, NEW c \in Client, NEW g, handler' = [handler EXCEPT ![c] = g],
         Transferred(g) = Transferred(handler[c]), locked' = locked
  PROVE  Counted'
<1>1. \A d \in Client : Transferred(handler'[d]) = Transferred(handler[d])
  BY DEF Inv, Shape
<1>2. ASSUME NEW a \in Addr
      PROVE  {d \in Client : Transferred(handler'[d]) = a}
               = {d \in Client : Transferred(handler[d]) = a}
  BY <1>1
<1>3. Entries'
  BY DEF Counted, Entries
<1>4. TransfersCounted'
  BY <1>2 DEF Counted, TransfersCounted
<1> QED BY <1>3, <1>4 DEF Counted

\* Nothing changes for the transfers.
LEMMA CountedKept ==
  ASSUME Counted, handler' = handler, locked' = locked
  PROVE  Counted'
BY DEF Counted, Entries, TransfersCounted

\* An entry of _locked_values, and what add_locked_value makes of it.
LEMMA AddLocked ==
  ASSUME Entries, NEW c \in Client, NEW a \in Addr \cup {NoAddr},
         NEW more, more = add_locked_value(c, a)
  PROVE  /\ more \in [Addr -> [session : Client, count : Nat \ {0}] \cup {Unlocked}]
         /\ \A b \in Addr : /\ locked[b].count \in Nat /\ more[b].count \in Nat
                           /\ more[b].count = locked[b].count + (IF a = b THEN 1 ELSE 0)
<1> DEFINE E == [session : Client, count : Nat \ {0}]
<1>1. \A b \in Addr : locked[b] \in E \cup {Unlocked}
  BY DEF Entries
<1>2. Unlocked.count = 0
  BY DEF Unlocked
<1>3. \A b \in Addr : locked[b].count \in Nat /\ (locked[b].count = 0 <=> locked[b] = Unlocked)
  BY <1>1, <1>2
<1>4. CASE a = NoAddr
  <2>1. more = locked
    BY <1>4, MapStoreAssumption DEF add_locked_value, Entries
  <2>2. \A b \in Addr : a # b
    BY <1>4, MapStoreAssumption
  <2> QED BY <1>3, <2>1, <2>2 DEF Entries
<1>5. CASE a \in Addr
  <2>1. PICK n \in Nat \ {0} : n = locked[a].count + 1
    BY <1>3, <1>5
  <2>2. PICK e : e = IF locked[a] = Unlocked THEN [session |-> c, count |-> 1]
                     ELSE [session |-> locked[a].session, count |-> n]
    BY ZenonT(30)
  <2>3. e \in E /\ e.count = n
    <3>1. CASE locked[a] = Unlocked
      <4>1. n = 1
        BY <1>2, <2>1, <3>1
      <4> QED BY <2>2, <3>1, <4>1
    <3>2. CASE locked[a] # Unlocked
      <4>1. locked[a] \in E
        BY <1>1, <1>5, <3>2
      <4> QED BY <2>2, <3>2, <4>1
    <3> QED BY <3>1, <3>2
  <2>4. more = [locked EXCEPT ![a] = e]
    <3>1. e = IF locked[a] = Unlocked THEN [session |-> c, count |-> 1]
              ELSE [session |-> locked[a].session, count |-> locked[a].count + 1]
      BY <2>1, <2>2
    <3> QED BY <3>1, Zenon DEF add_locked_value
  <2>5. more[a] = e /\ \A b \in Addr \ {a} : more[b] = locked[b]
    BY <1>5, <2>4 DEF Entries
  <2>6. more \in [Addr -> E \cup {Unlocked}]
    BY ZenonT(30), <2>3, <2>4 DEF Entries
  <2>7. ASSUME NEW b \in Addr
        PROVE  more[b].count \in Nat /\ more[b].count = locked[b].count + (IF a = b THEN 1 ELSE 0)
    <3>1. CASE b = a
      BY ZenonT(30), <1>3, <2>1, <2>3, <2>5, <3>1
    <3>2. CASE b # a
      BY <1>3, <2>5, <3>2
    <3> QED BY <3>1, <3>2
  <2> QED BY ZenonT(30), <1>3, <2>6, <2>7
<1> QED BY <1>4, <1>5

\* A transfer begins.
LEMMA TransferBegins ==
  ASSUME Inv, Counted, NEW c \in Client, NEW g, handler' = [handler EXCEPT ![c] = g],
         Transferred(handler[c]) = NoAddr, NEW a \in Addr \cup {NoAddr},
         Transferred(g) \in {a, NoAddr}, locked' = add_locked_value(c, a)
  PROVE  Counted'
<1>1. Entries /\ TransfersCounted /\ Shape
  BY ZenonT(30) DEF Counted, Inv
<1>2. /\ locked' \in [Addr -> [session : Client, count : Nat \ {0}] \cup {Unlocked}]
      /\ \A b \in Addr : /\ locked[b].count \in Nat /\ locked'[b].count \in Nat
                        /\ locked'[b].count = locked[b].count + (IF a = b THEN 1 ELSE 0)
  BY <1>1, AddLocked
<1>3. ASSUME NEW b \in Addr PROVE locked'[b].count >= Cardinality(Transfers(handler', b))
  <2> DEFINE t == Cardinality(Transfers(handler, b))
             u == Cardinality(Transfers(handler', b))
  <2>1. Transferred(handler[c]) # b /\ (Transferred(g) = b => a = b)
    BY ZenonT(30), MapStoreAssumption
  <2>2. t \in Nat /\ u = IF Transferred(g) = b THEN t + 1 ELSE t
    <3>1. PICK hs, now : hs = handler /\ now = handler'
      OBVIOUS
    <3>2. OneChanges(hs, now, c, g) /\ Transferred(hs[c]) # b
      BY <1>1, <2>1, <3>1 DEF Shape, OneChanges
    <3>3. t = Cardinality(Transfers(hs, b)) /\ u = Cardinality(Transfers(now, b))
      BY ZenonT(30), <3>1
    <3>4. /\ Cardinality(Transfers(hs, b)) \in Nat
          /\ Transferred(g) = b =>
               Cardinality(Transfers(now, b)) = Cardinality(Transfers(hs, b)) + 1
          /\ Transferred(g) # b => Transfers(now, b) = Transfers(hs, b)
      BY <3>2, TransferCount, SMTT(30)
    <3> HIDE DEF t, u
    <3> QED BY ZenonT(30), <3>3, <3>4
  <2>3. locked[b].count >= t
    BY <1>1 DEF TransfersCounted, Transfers
  <2> HIDE DEF t, u
  <2>4. locked'[b].count >= u
    BY <1>2, <2>1, <2>2, <2>3
  <2> QED BY ZenonT(30), <2>4 DEF u
<1> QED BY <1>2, <1>3 DEF Counted, Entries, TransfersCounted, Transfers

\* A transfer ends: release_locked_value takes the one that it stands for.
LEMMA TransferEnds ==
  ASSUME Inv, Connections, Counted, NEW c \in Client, release_locked_value(c)
  PROVE  Counted'
<1> DEFINE a == handler[c].release
<1>1. CASE Stop("ended")
  BY ZenonT(30), <1>1, CountedKept DEF Stop, shard
<1>2. CASE ~Stop("ended")
  <2>1. /\ a # NoAddr /\ locked[a] # Unlocked
        /\ handler' = [handler EXCEPT ![c] = [handler[c] EXCEPT !.release = NoAddr]]
        /\ locked' = [locked EXCEPT ![a] =
                        IF @.count = 1 THEN Unlocked
                        ELSE [session |-> @.session, count |-> @.count - 1]]
    BY <1>2 DEF release_locked_value
  <2>2. /\ handler[c] \in HandlerShape /\ HandlerFits(handler[c], c \in closing)
    BY DEF Inv, Shape, Connections, Connected
  <2>3. a \in Addr /\ handler[c].state = "POST_MSG_RECV"
    BY <2>1, <2>2 DEF HandlerShape, HandlerFits
  <2>4. PICK g : g = [handler[c] EXCEPT !.release = NoAddr]
    BY ZenonT(30)
  <2>5. g.release = NoAddr /\ g.state = "POST_MSG_RECV"
    BY <2>2, <2>3, <2>4 DEF HandlerShape
  <2>6. PICK x, y : x = Transferred(handler[c]) /\ y = Transferred(g) /\ x = a /\ y = NoAddr
    BY <2>3, <2>5 DEF Transferred
  <2>7. Entries /\ TransfersCounted /\ Shape
    BY DEF Counted, Inv
  <2> DEFINE E == [session : Client, count : Nat \ {0}]
  <2>8. locked[a] \in E /\ Unlocked.count = 0
    BY ZenonT(30), <2>1, <2>3, <2>7 DEF Entries, Unlocked
  <2>9. PICK n \in Nat : n = locked[a].count - 1
    BY <2>8
  <2>10. PICK e : e = IF n = 0 THEN Unlocked ELSE [session |-> locked[a].session, count |-> n]
    BY ZenonT(30)
  <2>11. e \in E \cup {Unlocked} /\ e.count = n
    <3>1. CASE n = 0
      BY <2>8, <2>10, <3>1
    <3>2. CASE n # 0
      BY ZenonT(30), <2>8, <2>10, <3>2
    <3> QED BY <3>1, <3>2
  <2>12. locked' = [locked EXCEPT ![a] = e]
    <3>1. locked[a].count = 1 <=> n = 0
      BY <2>8, <2>9
    <3>2. e = IF locked[a].count = 1 THEN Unlocked
              ELSE [session |-> locked[a].session, count |-> locked[a].count - 1]
      BY ZenonT(30), <2>9, <2>10, <3>1
    <3> QED BY <2>1, <3>2, Zenon
  <2>13. locked'[a] = e /\ \A b \in Addr \ {a} : locked'[b] = locked[b]
    BY ZenonT(30), <2>3, <2>7, <2>12 DEF Entries
  <2>14. Entries'
    BY ZenonT(30), <2>7, <2>11, <2>12 DEF Entries
  <2>15. ASSUME NEW b \in Addr PROVE locked'[b].count >= Cardinality(Transfers(handler', b))
    <3> DEFINE t == Cardinality(Transfers(handler, b))
               u == Cardinality(Transfers(handler', b))
    <3>1. y # b
      BY ZenonT(30), <2>6, MapStoreAssumption
    <3>2. t \in Nat /\ u = IF x = b THEN t - 1 ELSE t
      <4>1. PICK hs, now : hs = handler /\ now = handler'
        OBVIOUS
      <4>2. OneChanges(hs, now, c, g) /\ Transferred(g) # b /\ Transferred(hs[c]) = x
        BY ZenonT(30), <2>1, <2>4, <2>6, <2>7, <3>1, <4>1 DEF Shape, OneChanges
      <4>3. t = Cardinality(Transfers(hs, b)) /\ u = Cardinality(Transfers(now, b))
        BY <4>1
      <4>4. /\ Cardinality(Transfers(hs, b)) \in Nat
            /\ x = b => Cardinality(Transfers(now, b)) = Cardinality(Transfers(hs, b)) - 1
            /\ x # b => Transfers(now, b) = Transfers(hs, b)
        BY <4>2, TransferCount, SMTT(30)
      <4> HIDE DEF t, u
      <4> QED BY <4>3, <4>4
    <3>3. locked[b].count >= t
      BY <2>7 DEF TransfersCounted, Transfers
    <3> HIDE DEF t, u, a
    <3>4. CASE b = a
      <4>1. u = t - 1
        BY ZenonT(30), <2>6, <3>2, <3>4
      <4>2. locked[b].count \in Nat /\ locked'[b].count = locked[b].count - 1
        BY ZenonT(30), <2>8, <2>9, <2>11, <2>13, <3>4
      <4>3. locked'[b].count >= u
        BY <3>2, <3>3, <4>1, <4>2
      <4> QED BY <4>3 DEF u
    <3>5. CASE b # a
      <4>1. u = t
        BY <2>6, <3>2, <3>5
      <4> QED BY ZenonT(30), <2>13, <3>3, <3>5, <4>1 DEF u
    <3> QED BY <3>4, <3>5
  <2> QED BY ZenonT(30), <2>14, <2>15 DEF Counted, TransfersCounted, Transfers
<1> QED BY <1>1, <1>2

\* The ticks carry a transfer from the value to what is to be released.
LEMMA TickCounted ==
  ASSUME Inv, Connections, Counted, NEW c \in Client, TickAny(c)
  PROVE  Counted'
<1> DEFINE p == handler[c]
<1>1. Ticks(c)
  BY ZenonT(30) DEF TickAny, TickInitialize, TickPost, TickHandshake, TickHandshakeDone, TickMessage,
         TickBye, TickDisconnect, TickValue, TickMiss
<1>2. p \in HandlerShape /\ p.release = NoAddr
  BY ZenonT(30), <1>1, TickBasics
<1>3. \A h \in Polled(c) : /\ h \in HandlerShape /\ h.state = p.state /\ h.value = p.value
                           /\ h.release = p.release
  BY PolledAs
<1>4. ASSUME NEW how, Stop(how) PROVE Counted'
  BY ZenonT(30), <1>4, CountedKept DEF Stop, shard
<1>5. ASSUME NEW h \in Polled(c), NEW g, g.state \notin ValueState, g.release = h.release,
             p.state \notin ValueState,
             Tick(c, g), locked' = locked
      PROVE  Counted'
  <2>1. Transferred(g) = Transferred(p)
    BY <1>3, <1>5 DEF Transferred, ValueState
  <2> QED BY ZenonT(30), <1>5, <2>1, SameTransfers DEF Tick
<1>6. CASE TickInitialize(c)
  <2>1. PICK h \in Polled(c) : Tick(c, [h EXCEPT !.state = "POST_HANDSHAKE"])
    BY ZenonT(30), <1>6 DEF TickInitialize
  <2>2. PICK g : g = [h EXCEPT !.state = "POST_HANDSHAKE"]
    BY ZenonT(30)
  <2>3. g.state \notin ValueState /\ g.release = h.release
    BY <1>3, <2>2 DEF HandlerShape, ValueState
  <2> QED BY ZenonT(30), <1>5, <1>6, <2>1, <2>2, <2>3 DEF TickInitialize, ValueState
<1>7. CASE TickPost(c)
  <2>1. PICK h \in Polled(c) :
          IF h.free = 0 THEN Stop("ended")
          ELSE Tick(c, [h EXCEPT !.recv = Posted, !.free = @ - 1,
                          !.state = IF @ = "POST_HANDSHAKE" THEN "WAIT_HANDSHAKE"
                                    ELSE "WAIT_NEW_MSG_RECV"]) /\ locked' = locked
    BY ZenonT(30), <1>7 DEF TickPost
  <2>2. PICK g : g = [h EXCEPT !.recv = Posted, !.free = @ - 1,
                          !.state = IF @ = "POST_HANDSHAKE" THEN "WAIT_HANDSHAKE"
                                    ELSE "WAIT_NEW_MSG_RECV"]
    OBVIOUS
  <2>3. g.state \in {"WAIT_HANDSHAKE", "WAIT_NEW_MSG_RECV"} /\ g.release = h.release
    BY <1>3, <2>2 DEF HandlerShape
  <2> QED BY ZenonT(30), <1>4, <1>5, <1>7, <2>1, <2>2, <2>3 DEF TickPost, ValueState
<1>8. CASE TickHandshake(c)
  <2>1. PICK h \in Polled(c) :
          IF h.free = 0 THEN Stop("ended")
          ELSE Tick(c, [h EXCEPT !.state = "WAIT_HANDSHAKE_RESPONSE_COMPLETION"]) /\ locked' = locked
    BY <1>8 DEF TickHandshake
  <2>2. PICK g : g = [h EXCEPT !.state = "WAIT_HANDSHAKE_RESPONSE_COMPLETION"]
    BY ZenonT(30)
  <2>3. g.state \notin ValueState /\ g.release = h.release
    BY <1>3, <2>2 DEF HandlerShape, ValueState
  <2> QED BY ZenonT(30), <1>4, <1>5, <1>8, <2>1, <2>2, <2>3 DEF TickHandshake, ValueState
<1>9. CASE TickHandshakeDone(c)
  <2>1. PICK h \in Polled(c) : Tick(c, [h EXCEPT !.state = "POST_MSG_RECV"])
    BY <1>9 DEF TickHandshakeDone
  <2>2. PICK g : g = [h EXCEPT !.state = "POST_MSG_RECV"]
    BY ZenonT(30)
  <2>3. g.state \notin ValueState /\ g.release = h.release
    BY <1>3, <2>2 DEF HandlerShape, ValueState
  <2> QED BY ZenonT(30), <1>5, <1>9, <2>1, <2>2, <2>3 DEF TickHandshakeDone, ValueState
<1>10. CASE TickMessage(c)
  <2>1. PICK h \in Polled(c) :
          IF h.recv \notin Request THEN Stop("ended")
          ELSE Tick(c, [h EXCEPT !.msg = TRUE, !.state = "POST_MSG_RECV"]) /\ locked' = locked
    BY ZenonT(30), <1>10 DEF TickMessage
  <2>2. PICK g : g = [h EXCEPT !.msg = TRUE, !.state = "POST_MSG_RECV"]
    OBVIOUS
  <2>3. g.state \notin ValueState /\ g.release = h.release
    BY <1>3, <2>2 DEF HandlerShape, ValueState
  <2> QED BY ZenonT(30), <1>4, <1>5, <1>10, <2>1, <2>2, <2>3 DEF TickMessage, ValueState
<1>11. CASE TickBye(c)
  <2>1. PICK h \in Polled(c) : CloseSession(c, [h EXCEPT !.recv = NoMessage, !.free = @ + 1])
    BY ZenonT(30), <1>11 DEF TickBye
  <2>2. PICK g : g = [h EXCEPT !.recv = NoMessage, !.free = @ + 1]
    OBVIOUS
  <2>3. g.state = h.state /\ g.release = h.release
    BY <1>3, <2>2 DEF HandlerShape
  <2>4. p.state \notin ValueState /\ g.state \notin ValueState
    BY ZenonT(30), <1>3, <1>11, <2>3 DEF TickBye, ValueState
  <2> QED BY ZenonT(30), <1>5, <2>1, <2>2, <2>3, <2>4 DEF CloseSession
<1>12. CASE TickDisconnect(c)
  <2>1. CASE Stop("ended")
    BY <2>1, CountedKept DEF Stop, shard
  <2>2. CASE CloseSession(c, p)
    BY ZenonT(30), <2>2, SameTransfers DEF CloseSession, Tick
  <2> QED BY ZenonT(30), <1>12, <2>1, <2>2 DEF TickDisconnect
<1>13. CASE TickValue(c)
  <2>1. PICK h \in Polled(c) :
          Tick(c, [h EXCEPT !.release = h.value, !.value = NoAddr, !.state = "POST_MSG_RECV"])
    BY ZenonT(30), <1>13 DEF TickValue
  <2>2. PICK g : g = [h EXCEPT !.release = h.value, !.value = NoAddr, !.state = "POST_MSG_RECV"]
    OBVIOUS
  <2>3. g.state = "POST_MSG_RECV" /\ g.release = p.value
    BY <1>3, <2>2 DEF HandlerShape
  <2>4. Transferred(g) = Transferred(p)
    BY <1>13, <2>3 DEF TickValue, Transferred
  <2> QED BY ZenonT(30), <1>13, <2>1, <2>2, <2>4, SameTransfers DEF TickValue, Tick
<1>14. CASE TickMiss(c)
  <2>1. PICK h \in Polled(c) : Tick(c, h)
    BY <1>14 DEF TickMiss
  <2>2. Transferred(h) = Transferred(p)
    BY ZenonT(30), <1>3 DEF Transferred
  <2> QED BY ZenonT(30), <1>14, <2>1, <2>2, SameTransfers DEF TickMiss, Tick
<1> QED BY ZenonT(30), <1>6, <1>7, <1>8, <1>9, <1>10, <1>11, <1>12, <1>13, <1>14 DEF TickAny

\* A request is served while its connection transfers nothing, and an answer
\* without a transfer begins none.
LEMMA ServingTransfersNothing ==
  ASSUME Inv, Connections, NEW c \in Client, handler[c].msg
  PROVE  /\ Transferred(handler[c]) = NoAddr /\ handler[c].state = "POST_MSG_RECV"
         /\ handler[c].release = NoAddr /\ handler[c] \in HandlerShape
         /\ handler[c].recv \in Request
<1>1. HandlerFits(handler[c], c \in closing) /\ handler[c] \in HandlerShape
  BY DEF Connections, Connected, Inv, Shape
<1> QED BY <1>1 DEF HandlerFits, Transferred

\* Posting the answer neither begins nor ends a transfer.
LEMMA RespondedTransfer ==
  ASSUME NEW h \in HandlerShape
  PROVE  Transferred(Responded(h)) = Transferred(h)
<1>1. PICK f \in Int : f = h.free + 1
  BY DEF HandlerShape
<1>2. Responded(h) = [h EXCEPT !.msg = FALSE, !.recv = NoMessage, !.free = f]
  BY <1>1 DEF Responded
<1>3. /\ Responded(h).state = h.state /\ Responded(h).value = h.value
      /\ Responded(h).release = h.release
  BY <1>2 DEF HandlerShape
<1> QED BY <1>3 DEF Transferred

\* An answer that takes no lock leaves the counts right.
LEMMA RespondCounted ==
  ASSUME Inv, Connections, Counted, NEW c \in Client, handler[c].msg,
         NEW h \in HandlerShape, NEW ms, Respond(c, h, ms),
         h.state = handler[c].state, h.release = handler[c].release, locked' = locked
  PROVE  Counted'
<1>1. handler' = [handler EXCEPT ![c] = Responded(h)]
  BY DEF Respond, Responded
<1>2. Transferred(h) = Transferred(handler[c])
  BY ServingTransfersNothing DEF Transferred
<1> QED BY ZenonT(30), <1>1, <1>2, RespondedTransfer, SameTransfers

\* The answer begins a transfer, or takes a lock for nothing.
LEMMA RespondBegins ==
  ASSUME Inv, Connections, Counted, NEW c \in Client, handler[c].msg,
         NEW h \in HandlerShape, NEW ms, Respond(c, h, ms), NEW a \in Addr \cup {NoAddr},
         Transferred(h) \in {a, NoAddr}, locked' = add_locked_value(c, a)
  PROVE  Counted'
<1>1. handler' = [handler EXCEPT ![c] = Responded(h)]
  BY DEF Respond, Responded
<1> QED BY ZenonT(30), <1>1, ServingTransfersNothing, RespondedTransfer, TransferBegins

\* The requests.
LEMMA ServeCounted ==
  ASSUME Inv, Connections, Counted, NEW c \in Client, Serve(c)
  PROVE  Counted'
<1> DEFINE p == handler[c]
<1>1. ASSUME NEW how, Stop(how) PROVE Counted'
  BY <1>1, CountedKept DEF Stop, shard
<1>2. p \in HandlerShape /\ \A op : Serves(c, op) => p.msg
  BY DEF Inv, Shape, Serves
<1>3. p.msg => /\ p.state = "POST_MSG_RECV" /\ p.release = NoAddr
               /\ p.recv.key \in Key /\ p.recv.len \in Int
  BY ServingTransfersNothing, DawnAssumption DEF Large
<1>4. p.msg /\ p.recv.op = "put_advance" => p.recv.len \in Length
  BY ServingTransfersNothing, DawnAssumption
<1>5. ASSUME p.msg, NEW ms, Respond(c, p, ms), locked' = locked PROVE Counted'
  BY <1>2, <1>5, RespondCounted
<1>6. ASSUME p.msg, NEW r \in Nat, NEW ms, Respond(c, [p EXCEPT !.refs = r], ms), locked' = locked
      PROVE  Counted'
  <2>1. PICK h : h = [p EXCEPT !.refs = r]
    BY ZenonT(30)
  <2>2. h \in HandlerShape /\ h.state = p.state /\ h.release = p.release
    BY <1>2, <2>1 DEF HandlerShape
  <2> QED BY ZenonT(30), <1>6, <2>1, <2>2, RespondCounted
<1>7. CASE Create(c)
  <2> DEFINE new == p.refs = 0 /\ ~pool.exists
  <2>1. PICK r \in Nat : r = IF new \/ p.refs > 0 THEN p.refs + 1 ELSE p.refs
    BY <1>2 DEF HandlerShape
  <2>2. [p EXCEPT !.refs = IF new \/ p.refs > 0 THEN @ + 1 ELSE @] = [p EXCEPT !.refs = r]
    BY <1>2, <2>1 DEF HandlerShape
  <2>3. \E ms : Respond(c, [p EXCEPT !.refs = IF new \/ p.refs > 0 THEN @ + 1 ELSE @], ms)
    BY <1>7, Zenon DEF Create
  <2> HIDE DEF new
  <2> QED BY <1>2, <1>6, <1>7, <2>2, <2>3 DEF Create
<1>8. CASE Open(c)
  <2> DEFINE ok == p.refs > 0 \/ pool.exists
  <2>1. PICK r \in Nat : r = IF ok THEN p.refs + 1 ELSE p.refs
    BY <1>2 DEF HandlerShape
  <2>2. [p EXCEPT !.refs = IF ok THEN @ + 1 ELSE @] = [p EXCEPT !.refs = r]
    BY <1>2, <2>1 DEF HandlerShape
  <2>3. \E ms : Respond(c, [p EXCEPT !.refs = IF ok THEN @ + 1 ELSE @], ms)
    BY <1>8, Zenon DEF Open
  <2> HIDE DEF ok
  <2> QED BY ZenonT(30), <1>2, <1>6, <1>8, <2>2, <2>3 DEF Open
<1>9. CASE Close(c)
  <2>1. CASE Stop("ended")
    BY <1>1, <2>1
  <2>2. CASE ~Stop("ended")
    <3>1. PICK r \in Nat : r = p.refs - 1
      BY <1>2, <1>9, <2>2 DEF Close, HandlerShape
    <3>2. [p EXCEPT !.refs = @ - 1] = [p EXCEPT !.refs = r]
      BY ZenonT(30), <1>2, <3>1 DEF HandlerShape
    <3> QED BY <1>2, <1>6, <1>9, <2>2, <3>2 DEF Close
  <2> QED BY <2>1, <2>2
<1>10. CASE Delete(c)
  BY <1>2, <1>5, <1>10 DEF Delete
<1>11. CASE PutAdvance(c)
  <2> DEFINE r == p.recv
             a == pool'.map[r.key].ptr
             h == [p EXCEPT !.value = a, !.outstanding = TRUE, !.state = "WAIT_RECV_VALUE"]
  <2>1. CASE Stop("waiting") \/ Stop("ended")
    BY ZenonT(30), <1>1, <2>1
  <2>2. CASE ~Stop("waiting") /\ ~Stop("ended")
    <3>0. Serves(c, "put_advance") /\ r.op # "put_advance_new"
      BY ZenonT(30), <1>11, <2>2 DEF PutAdvance, Serves
    <3>1. /\ Serves(c, "put_advance") /\ Respond(c, h, <<OK>>)
          /\ pool' \in lock_write(pool, r.key, r.len)
          /\ locked' = add_locked_value(c, a)
      BY ZenonT(60), <1>11, <2>2, <3>0 DEF PutAdvance
    <3>2. p.msg /\ r.op = "put_advance"
      BY ZenonT(30), <3>1 DEF Serves
    <3>3. a \in Addr \cup {NoAddr}
      <4>1. r.key \in Key /\ r.len \in Int /\ r.len \in Length
        BY <1>3, <1>4, <3>2
      <4>2. pool \in Pool
        BY DEF Inv, Shape
      <4>3. pool' \in Pool
        BY ZenonT(30), <3>1, <4>1, <4>2, PoolKept
      <4> QED BY ZenonT(30), <4>1, <4>3, PoolKept
    <3>4. h \in HandlerShape /\ h.state = "WAIT_RECV_VALUE" /\ h.value = a
      BY ZenonT(30), <1>2, <3>3 DEF HandlerShape, HandlerState
    <3>5. Transferred(h) = a
      BY <3>4 DEF Transferred
    <3> HIDE DEF h, a
    <3> QED BY ZenonT(30), <3>1, <3>2, <3>3, <3>4, <3>5, RespondBegins
  <2> QED BY <2>1, <2>2
<1>12. CASE Put(c)
  BY <1>2, <1>5, <1>12 DEF Put
<1>13. CASE Get(c)
  <2> DEFINE v == pool.map[p.recv.key]
             two == <<[OK EXCEPT !.two_stage = TRUE], Value>>
             g1 == [p EXCEPT !.value = v.ptr]
             g2 == [p EXCEPT !.value = v.ptr, !.outstanding = TRUE, !.state = "WAIT_SEND_VALUE"]
  <2>1. CASE Stop("ended")
    BY <1>1, <2>1
  <2>2. CASE ~Stop("ended")
    <3>1. p.msg
      BY ZenonT(30), <1>2, <1>13 DEF Get
    <3>2. \/ locked' = locked /\ \E g \in {p, PostSend(p)}, ms \in {<<OK>>, <<Fail>>} : Respond(c, g, ms)
          \/ locked' = add_locked_value(c, v.ptr) /\ Respond(c, PostSend(g1), <<OK>>)
          \/ locked' = add_locked_value(c, v.ptr) /\ Respond(c, g2, two)
      BY ZenonT(30), <1>13, <2>2 DEF Get
    <3>3. v.ptr \in Addr \cup {NoAddr}
      <4>1. pool \in Pool /\ p.recv.key \in Key /\ p.recv.len \in Int
        BY ZenonT(30), <1>3, <3>1 DEF Inv, Shape
      <4> QED BY ZenonT(30), <4>1, PoolKept
    <3>4. /\ g1 \in HandlerShape /\ g1.state = p.state /\ g1.release = p.release
          /\ g2 \in HandlerShape /\ g2.state = "WAIT_SEND_VALUE" /\ g2.value = v.ptr
      BY ZenonT(30), <1>2, <3>3 DEF HandlerShape, HandlerState
    <3>5. \A g \in HandlerShape : /\ PostSend(g) \in HandlerShape /\ PostSend(g).state = g.state
                                 /\ PostSend(g).release = g.release
      <4> SUFFICES ASSUME NEW g \in HandlerShape
                   PROVE  /\ PostSend(g) \in HandlerShape /\ PostSend(g).state = g.state
                          /\ PostSend(g).release = g.release
        OBVIOUS
      <4>1. PICK f \in Int : f = g.free - 1
        BY DEF HandlerShape
      <4>2. PostSend(g) = [g EXCEPT !.send = "outstanding", !.free = f]
        BY <4>1 DEF PostSend
      <4> QED BY ZenonT(30), <4>2 DEF HandlerShape
    <3>6. /\ Transferred(PostSend(g1)) = NoAddr /\ Transferred(g2) = v.ptr
      BY ZenonT(30), <1>3, <3>1, <3>4, <3>5 DEF Transferred
    <3> HIDE DEF g1, g2, v, two
    <3>7. CASE locked' = locked /\ \E g \in {p, PostSend(p)}, ms \in {<<OK>>, <<Fail>>} : Respond(c, g, ms)
      BY ZenonT(30), <1>2, <3>1, <3>5, <3>7, RespondCounted
    <3>8. CASE locked' = add_locked_value(c, v.ptr) /\ Respond(c, PostSend(g1), <<OK>>)
      BY ZenonT(30), <3>1, <3>3, <3>4, <3>5, <3>6, <3>8, RespondBegins
    <3>9. CASE locked' = add_locked_value(c, v.ptr) /\ Respond(c, g2, two)
      BY ZenonT(30), <3>1, <3>3, <3>4, <3>6, <3>9, RespondBegins
    <3> QED BY ZenonT(30), <3>2, <3>7, <3>8, <3>9
  <2> QED BY <2>1, <2>2
<1>14. CASE Erase(c)
  BY ZenonT(30), <1>2, <1>5, <1>14 DEF Erase
<1>15. CASE AddIndex(c)
  BY ZenonT(30), <1>2, <1>5, <1>15 DEF AddIndex
<1>16. CASE RemoveIndex(c)
  BY ZenonT(30), <1>1, <1>2, <1>5, <1>16 DEF RemoveIndex
<1>17. CASE FindTask(c)
  BY ZenonT(30), <1>5, <1>17 DEF FindTask
<1>18. CASE FindRefused(c)
  <2>1. PICK f \in Int : f = p.free - 1
    BY <1>2 DEF HandlerShape
  <2>2. PICK h : h = [p EXCEPT !.send = "outstanding", !.free = f]
    OBVIOUS
  <2>3. h = PostSend(p)
    BY <2>1, <2>2 DEF PostSend
  <2>4. h \in HandlerShape /\ h.state = p.state /\ h.release = p.release
    BY ZenonT(30), <1>2, <2>2 DEF HandlerShape
  <2> QED BY ZenonT(30), <1>2, <1>18, <2>3, <2>4, RespondCounted DEF FindRefused
<1>19. CASE Info(c)
  BY <1>2, <1>5, <1>19 DEF Info
<1>20. CASE Crc32(c)
  BY ZenonT(30), <1>1, <1>2, <1>5, <1>20 DEF Crc32
<1>21. CASE OutOfBuffers(c)
  BY <1>1, <1>21 DEF OutOfBuffers
<1> QED BY <1>7, <1>8, <1>9, <1>10, <1>11, <1>12, <1>13, <1>14, <1>15, <1>16, <1>17, <1>18, <1>19,
           <1>20, <1>21 DEF Serve

\* The clients and the rest of the pass.  A handler that is deleted in the
\* middle of a transfer leaves its count behind.
LEMMA OtherCounted ==
  ASSUME Inv, Connections, Counted,
         \/ \E c \in Client :
              \/ Bootstrap(c) \/ (\E r \in Request : Call(c, r)) \/ GetReply(c) \/ ValueDone(c)
              \/ Shutdown(c) \/ Lose(c) \/ Accept(c) \/ TaskDone(c)
         \/ DeleteHandlers
  PROVE  Counted'
<1>1. ASSUME NEW c \in Client, Bootstrap(c) PROVE Counted'
  <2>1. PICK g : g = [handler[c] EXCEPT !.state = "queued"]
    BY ZenonT(30)
  <2>2. handler[c] \in HandlerShape /\ handler[c].state = "none"
    <3>1. Linked(client[c], toServer[c], toClient[c], handler[c], c \in tasks, c \in closing)
      BY ZenonT(30) DEF Connections, Connected
    <3>2. handler[c] = NoHandler
      BY <1>1, <3>1 DEF Bootstrap, Linked
    <3>3. NoHandler.state = "none"
      BY DEF NoHandler
    <3>4. handler[c] \in HandlerShape
      BY DEF Inv, Shape
    <3> QED BY <3>2, <3>3, <3>4
  <2>3. g.state = "queued" /\ g.release = handler[c].release
    BY ZenonT(30), <2>1, <2>2 DEF HandlerShape
  <2>4. Transferred(g) = Transferred(handler[c])
    BY <2>2, <2>3 DEF Transferred
  <2> QED BY ZenonT(30), <1>1, <2>1, <2>4, SameTransfers DEF Bootstrap
<1>2. ASSUME NEW c \in Client, Accept(c) PROVE Counted'
  <2>1. PICK g : g = [handler[c] EXCEPT !.state = "INITIALIZE", !.free = BufferCount]
    OBVIOUS
  <2>2. handler[c] \in HandlerShape /\ handler[c].state = "queued"
    BY <1>2 DEF Accept, Inv, Shape
  <2>3. g.state = "INITIALIZE" /\ g.release = handler[c].release
    BY <2>1, <2>2 DEF HandlerShape
  <2>4. Transferred(g) = Transferred(handler[c])
    BY <2>2, <2>3 DEF Transferred
  <2>5. handler' = [handler EXCEPT ![c] = g]
    BY ZenonT(30), <1>2, <2>1 DEF Accept
  <2> QED BY ZenonT(30), <1>2, <2>4, <2>5, SameTransfers DEF Accept
<1>3. ASSUME NEW c \in Client,
             \/ (\E r \in Request : Call(c, r)) \/ GetReply(c) \/ ValueDone(c)
             \/ Shutdown(c) \/ Lose(c)
      PROVE  Counted'
  <2>1. handler' = handler /\ locked' = locked
    BY ZenonT(30), <1>3 DEF Call, GetReply, ValueDone, Shutdown, Lose, shard
  <2> QED BY <2>1, CountedKept
<1>5. ASSUME NEW c \in Client, TaskDone(c) PROVE Counted'
  <2>1. CASE Stop("ended")
    BY <2>1, CountedKept DEF Stop, shard
  <2>2. CASE ~Stop("ended")
    <3>1. PICK g \in HandlerShape :
            /\ handler' = [handler EXCEPT ![c] = g] /\ g.state = handler[c].state
            /\ g.release = handler[c].release /\ g.value = handler[c].value
      BY ZenonT(30), <1>5, <2>2, TaskHandler
    <3>2. Transferred(g) = Transferred(handler[c]) /\ locked' = locked
      BY <1>5, <2>2, <3>1 DEF Transferred, TaskDone
    <3> QED BY ZenonT(30), <3>1, <3>2, SameTransfers
  <2> QED BY <2>1, <2>2
<1>4. CASE DeleteHandlers
  <2>1. /\ locked' = locked
        /\ \A c \in Client : handler'[c] = IF c \in closing THEN NoHandler ELSE handler[c]
    BY <1>4 DEF DeleteHandlers
  <2>2. Transferred(NoHandler) = NoAddr
    BY ZenonT(30) DEF Transferred, NoHandler
  <2>3. ASSUME NEW a \in Addr
        PROVE  locked'[a].count >= Cardinality(Transfers(handler', a))
    <3>1. PICK T, U : T = Transfers(handler, a) /\ U = Transfers(handler', a)
      BY ZenonT(30)
    <3>2. U \subseteq T /\ T \subseteq Client
      BY ZenonT(30), <2>1, <2>2, <3>1, MapStoreAssumption DEF Transfers
    <3>3. IsFiniteSet(T)
      BY <3>2, FS_Subset, DawnAssumption
    <3>4. IsFiniteSet(U) /\ Cardinality(U) <= Cardinality(T)
      BY <3>2, <3>3, FS_Subset
    <3>5. Cardinality(U) \in Nat /\ Cardinality(T) \in Nat
      BY ZenonT(30), <3>3, <3>4, FS_CardinalityType
    <3>6. locked[a].count >= Cardinality(T)
      BY <3>1 DEF Counted, TransfersCounted, Transfers
    <3>7. locked[a].count \in Nat
      BY DEF Counted, Entries, Unlocked
    <3>8. locked[a].count >= Cardinality(U)
      BY <3>4, <3>5, <3>6, <3>7
    <3> QED BY <2>1, <3>1, <3>8
  <2>4. Entries'
    BY <2>1 DEF Counted, Entries
  <2> QED BY <2>3, <2>4 DEF Counted, TransfersCounted, Transfers
<1> QED BY ZenonT(30), <1>1, <1>2, <1>3, <1>4, <1>5

\* Every transfer stays counted.
LEMMA NextCounted == Inv /\ Connections /\ Counted /\ [Next]_vars => Counted'
<1> SUFFICES ASSUME Inv, Connections, Counted, [Next]_vars PROVE Counted'
  OBVIOUS
<1>1. CASE Next
  BY <1>1, TickCounted, ServeCounted, TransferEnds, OtherCounted DEF Next
<1>2. CASE UNCHANGED vars
  BY <1>2, CountedKept DEF vars, shard
<1> QED BY <1>1, <1>2

\* At the start nothing is locked and nothing is transferred.
LEMMA InitCounted == Init => Counted
<1> SUFFICES ASSUME Init PROVE Counted
  OBVIOUS
<1>1. Entries /\ \A a \in Addr : locked[a].count = 0
  BY DEF Init, Entries, Unlocked
<1>2. ASSUME NEW a \in Addr PROVE Transfers(handler, a) = {}
  <2>1. Transferred(NoHandler) = NoAddr
    BY DEF Transferred, NoHandler
  <2>2. \A d \in Client : handler[d] = NoHandler
    BY DEF Init
  <2> QED BY <2>1, <2>2, MapStoreAssumption DEF Transfers
<1>3. ASSUME NEW a \in Addr PROVE Cardinality(Transfers(handler, a)) = 0
  BY <1>2, FS_EmptySet
<1> QED BY <1>1, <1>3 DEF Counted, TransfersCounted, Transfers

-----------------------------------------------------------------------------
\* What is left of the types: the index and the shard's thread.
LEMMA NextRest == Inv /\ Rest /\ [Next]_vars => Rest'
<1> SUFFICES ASSUME Inv, Rest, [Next]_vars PROVE Rest'
  OBVIOUS
<1>1. ASSUME Stop("ended") \/ Stop("waiting") PROVE Rest'
  BY <1>1 DEF Stop, shard, Rest
<1>2. ASSUME index' = index, run' = run PROVE Rest'
  BY ZenonT(30), <1>2 DEF Rest
<1>3. ASSUME NEW c \in Client,
             \/ Bootstrap(c) \/ (\E r \in Request : Call(c, r)) \/ GetReply(c) \/ ValueDone(c)
             \/ Shutdown(c) \/ Lose(c) \/ Accept(c) \/ TaskDone(c) \/ release_locked_value(c)
      PROVE  Rest'
  BY ZenonT(30), <1>1, <1>2, <1>3 DEF Bootstrap, Call, GetReply, ValueDone, Shutdown, Lose, Accept, TaskDone,
                          release_locked_value, shard
<1>4. ASSUME NEW c \in Client, TickAny(c) PROVE Rest'
  BY ZenonT(30), <1>1, <1>2, <1>4 DEF TickAny, TickInitialize, TickPost, TickHandshake, TickHandshakeDone,
                          TickMessage, TickBye, TickDisconnect, TickValue, TickMiss, CloseSession
<1>5. ASSUME NEW c \in Client,
             \/ Create(c) \/ Open(c) \/ Close(c) \/ Delete(c) \/ PutAdvance(c) \/ Put(c)
             \/ Erase(c) \/ FindTask(c) \/ FindRefused(c) \/ Info(c) \/ Crc32(c) \/ OutOfBuffers(c)
      PROVE  Rest'
  BY ZenonT(30), <1>1, <1>2, <1>5 DEF Create, Open, Close, Delete, PutAdvance, Put, Erase, FindTask,
                          FindRefused, Info, Crc32, OutOfBuffers
<1>6. ASSUME NEW c \in Client, Get(c) PROVE Rest'
  BY ZenonT(30), <1>1, <1>2, <1>6 DEF Get
<1>7. ASSUME NEW c \in Client, AddIndex(c) PROVE Rest'
  BY <1>7 DEF AddIndex, Rest
<1>8. ASSUME NEW c \in Client, RemoveIndex(c) PROVE Rest'
  BY <1>1, <1>8 DEF RemoveIndex, Rest
<1>9. ASSUME DeleteHandlers PROVE Rest'
  BY <1>2, <1>9 DEF DeleteHandlers
<1>10. CASE UNCHANGED vars
  BY ZenonT(30), <1>2, <1>10 DEF vars, shard
<1> QED BY ZenonT(30), <1>3, <1>4, <1>5, <1>6, <1>7, <1>8, <1>9, <1>10 DEF Next, Serve

\* At the start no index is kept, and the thread runs.
LEMMA InitRest == Init => Rest
BY DEF Init, Rest

-----------------------------------------------------------------------------
\* The inductive invariant.
IInv == Inv /\ Connections /\ Counted /\ Rest

\* The conjuncts are kept together: the ends of a connection by what they are
\* and by the form of the state, the counts by what both say of a handler.
THEOREM Invariance == Spec => []IInv
<1>1. Init => IInv
  BY InitInv, InitConnections, InitCounted, InitRest DEF IInv
<1>2. IInv /\ [Next]_vars => IInv'
  BY NextInv, NextConnections, NextCounted, NextRest DEF IInv
<1> QED BY <1>1, <1>2, PTL DEF Spec

\* What clients, shard and store hold in memory has its type; the free buffers
\* of a connection are never more than were allocated nor fewer than none:
\* Buffer_manager gets back what it gave, once.
THEOREM TypeCorrect == Spec => []TypeOK
<1>1. IInv => TypeOK
  <2> SUFFICES ASSUME IInv PROVE TypeOK
    OBVIOUS
  <2>1. handler \in [Client -> Handler]
    <3>1. handler \in [Client -> HandlerShape]
      BY DEF IInv, Inv, Shape
    <3>2. ASSUME NEW c \in Client PROVE handler[c] \in Handler
      <4>1. handler[c] \in HandlerShape /\ HandlerFits(handler[c], c \in closing)
        BY ZenonT(30), <3>1 DEF IInv, Connections, Connected
      <4>2. handler[c].free \in 0 .. BufferCount
        BY <4>1, DawnAssumption DEF HandlerFits, HandlerShape
      <4> QED BY <4>1, <4>2 DEF HandlerShape, Handler, Message
    <3> QED BY <3>1, <3>2
  <2>2. /\ client \in [Client -> [state : ClientState, req : Request \cup {NoRequest},
                                 handles : Nat, made : Nat]]
        /\ \A c \in Client : /\ toServer[c] \in Seq(Request \cup {Hello, Bye, Value})
                            /\ toClient[c] \in Seq(Reply \cup {Value})
        /\ closing \subseteq Client /\ tasks \subseteq Client
    BY DEF IInv, Inv, Shape, Connections, ClientShape, Message
  <2>3. /\ index \in [map : BOOLEAN, of : SUBSET Client]
        /\ pool \in Pool /\ sessions \subseteq Client
        /\ run \in {"running", "waiting", "ended"}
    BY DEF IInv, Inv, Shape, Rest
  <2>4. locked \in [Addr -> [session : Client, count : Nat] \cup {Unlocked}]
    BY DEF IInv, Counted, Entries
  <2> QED BY <2>1, <2>2, <2>3, <2>4 DEF TypeOK
<1> QED BY <1>1, Invariance, PTL

\* A value never lands in a message buffer nor a message in a value's memory,
\* at the shard or at a client, however many clients there are and whatever
\* they ask for: a two-stage put or get stays in step.
THEOREM FramesInStep == Spec => []FramesMatch
<1>1. IInv => FramesMatch
  <2> SUFFICES ASSUME IInv, NEW c \in Client
               PROVE  /\ toServer[c] # <<>> /\ c \notin closing =>
                           /\ AwaitsValue(handler[c]) => Head(toServer[c]) = Value
                           /\ AwaitsMessage(handler[c]) => Head(toServer[c]) # Value
                      /\ toClient[c] # <<>> =>
                           (client[c].state = "recv_value" <=> Head(toClient[c]) = Value)
    BY ZenonT(30) DEF FramesMatch
  <2> DEFINE k == client[c]
             in == toServer[c]
             out == toClient[c]
             h == handler[c]
  <2>1. Linked(k, in, out, h, c \in tasks, c \in closing) /\ HandlerFits(h, c \in closing)
    BY ZenonT(30) DEF IInv, Connections, Connected
  <2> HIDE DEF k, in, out, h
  <2>2. ASSUME in # <<>>, c \notin closing, AwaitsValue(h) PROVE Head(in) = Value
    BY ZenonT(30), <2>1, <2>2, Single DEF Linked, Waits, AwaitsValue, Early, Late
  <2>3. ASSUME in # <<>>, c \notin closing, AwaitsMessage(h) PROVE Head(in) # Value
    <3>1. h.state # "WAIT_RECV_VALUE"
      BY ZenonT(30), <2>1, <2>3 DEF HandlerFits, AwaitsMessage
    <3>2. in = <<Hello>> \/ in = <<Bye>> \/ (k.req \in Request /\ in = <<k.req>>)
      BY <2>1, <2>3, <3>1 DEF Linked, Waits
    <3> QED BY ZenonT(30), <3>2, Single, Distinct
  <2>4. ASSUME out # <<>> PROVE k.state = "recv_value" <=> Head(out) = Value
    <3>1. CASE k.state = "recv_value"
      BY <2>1, <3>1, Single DEF Linked
    <3>2. CASE k.state # "recv_value"
      <4>1. out \in Answers
        BY ZenonT(30), <2>1, <2>4, <3>2 DEF Linked, Waits, Fits, Answers
      <4> QED BY <3>2, <4>1, AnswerParts, Distinct
    <3> QED BY <3>1, <3>2
  <2> QED BY <2>2, <2>3, <2>4 DEF k, in, out, h
<1> QED BY <1>1, Invariance, PTL

\* release_locked_value finds the entry of every transfer that ends, whatever
\* other connections do to the value meanwhile.
THEOREM LocksCounted == Spec => []TransfersCounted
<1>1. IInv => TransfersCounted
  BY ZenonT(30) DEF IInv, Counted
<1> QED BY <1>1, Invariance, PTL

\* A pool handle that a client holds stands for a reference of its connection
\* to a pool that exists, also while opens, closes and answers are on the way.
THEOREM HandlesGood == Spec => []HandleValid
<1>1. IInv => HandleValid
  <2> SUFFICES ASSUME IInv, NEW c \in Client
               PROVE  /\ client[c].handles > 0 => c \in sessions /\ pool.exists
                      /\ client[c].handles <= handler[c].refs
    BY DEF HandleValid
  <2> DEFINE k == client[c]
             h == handler[c]
  <2>1. /\ Linked(k, toServer[c], toClient[c], h, c \in tasks, c \in closing)
        /\ Backed(k, toClient[c], h) /\ k \in ClientShape /\ h \in HandlerShape
    BY ZenonT(30) DEF IInv, Connections, Connected, Inv, Shape
  <2>2. k.handles \in Nat /\ h.refs \in Nat /\ InTransit(k, toClient[c]) \in {0, 1}
    BY ZenonT(30), <2>1 DEF ClientShape, HandlerShape, InTransit
  <2>3. k.handles <= h.refs
    BY <2>1, <2>2 DEF Backed
  <2>4. k.handles > 0 => c \notin closing
    <3>1. c \in closing => k.state \in {"lost", "STOPPED"}
      BY ZenonT(30), <2>1 DEF Linked
    <3>2. k.state \in {"lost", "STOPPED"} => k.handles = 0
      BY ZenonT(30), <2>1 DEF Backed
    <3> QED BY <2>2, <3>1, <3>2
  <2>5. k.handles > 0 => c \in sessions
    BY <2>2, <2>3, <2>4 DEF IInv, Inv, SessionsMatch
  <2> QED BY ZenonT(30), <2>3, <2>5 DEF IInv, Inv, SessionsMatch
<1> QED BY <1>1, Invariance, PTL

\* How many messages of a kind there are in the few sequences there are.
LEMMA Counts ==
  ASSUME NEW S
  PROVE  /\ Count(S, <<>>) = 0
         /\ \A x : Count(S, <<x>>) = IF x \in S THEN 1 ELSE 0
         /\ \A x, y : x \in S /\ y \notin S => Count(S, <<x, y>>) = 1
<1>1. Count(S, <<>>) = 0
  <2>1. {i \in DOMAIN <<>> : <<>>[i] \in S} = {}
    OBVIOUS
  <2> QED BY <2>1, FS_EmptySet DEF Count
<1>2. ASSUME NEW x PROVE Count(S, <<x>>) = IF x \in S THEN 1 ELSE 0
  <2>1. DOMAIN <<x>> = {1} /\ <<x>>[1] = x
    OBVIOUS
  <2>2. {i \in DOMAIN <<x>> : <<x>>[i] \in S} = IF x \in S THEN {1} ELSE {}
    BY <2>1
  <2>3. Cardinality({1}) = 1 /\ Cardinality({}) = 0
    BY ZenonT(30), FS_EmptySet, FS_Singleton
  <2> QED BY <2>2, <2>3 DEF Count
<1>3. ASSUME NEW x \in S, NEW y, y \notin S PROVE Count(S, <<x, y>>) = 1
  <2>1. DOMAIN <<x, y>> = {1, 2} /\ <<x, y>>[1] = x /\ <<x, y>>[2] = y
    OBVIOUS
  <2>2. {i \in DOMAIN <<x, y>> : <<x, y>>[i] \in S} = {1}
    BY ZenonT(30), <1>3, <2>1
  <2> QED BY <2>2, FS_Singleton DEF Count
<1> QED BY ZenonT(30), <1>1, <1>2, <1>3

\* A client that waits has exactly one call in the system and one that does
\* not wait has none: no answer is lost, given twice or taken for another,
\* with any number of clients, tasks and passes.
THEOREM EachAnswered == Spec => []OneAnswer
<1>1. IInv => OneAnswer
  <2> SUFFICES ASSUME IInv, NEW c \in Client
               PROVE  /\ client[c].state = "wait" => CallsOf(c) = 1
                      /\ client[c].state \in {"READY", "recv_value", "send_value", "STOPPED"}
                           => CallsOf(c) = 0
    BY DEF OneAnswer
  <2> DEFINE k == client[c]
             in == toServer[c]
             out == toClient[c]
             h == handler[c]
             task == c \in tasks
             closed == c \in closing
             n == Count(Request, in)
             m == Count(Reply, out)
             P == {x \in {1} : h.msg} \cup {x \in {2} : task}
  <2>1. Linked(k, in, out, h, task, closed) /\ h \in HandlerShape
    BY DEF IInv, Connections, Connected, Inv, Shape
  <2>2. CallsOf(c) = n + m + Cardinality(P)
    BY DEF CallsOf
  <2>3. /\ Cardinality({1}) = 1 /\ Cardinality({2}) = 1 /\ Cardinality({}) = 0
    BY ZenonT(30), FS_EmptySet, FS_Singleton
  <2>4. /\ h.msg /\ ~task => Cardinality(P) = 1
        /\ ~h.msg /\ task => Cardinality(P) = 1
        /\ ~h.msg /\ ~task => Cardinality(P) = 0
    <3>1. /\ h.msg /\ ~task => P = {1}
          /\ ~h.msg /\ task => P = {2}
          /\ ~h.msg /\ ~task => P = {}
      BY ZenonT(30)
    <3> HIDE DEF P
    <3> QED BY <2>3, <3>1
  <2>5. /\ in = <<>> => n = 0
        /\ in = <<Bye>> => n = 0
        /\ in = <<Value>> => n = 0
        /\ k.req \in Request /\ in = <<k.req>> => n = 1
    <3>1. Bye \notin Request /\ Value \notin Request
      BY ZenonT(30), Distinct
    <3>2. in = <<>> => n = 0
      BY ZenonT(30), Counts
    <3>3. ASSUME NEW x, in = <<x>> PROVE n = IF x \in Request THEN 1 ELSE 0
      BY <3>3, Counts
    <3> QED BY ZenonT(30), <3>1, <3>2, <3>3
  <2>6. /\ out = <<>> => m = 0
        /\ out = <<Value>> => m = 0
        /\ out \in Answers => m = 1
    <3>1. out = <<>> => m = 0
      BY Counts
    <3>2. out = <<Value>> => m = 0
      BY Counts, Distinct
    <3>3. out = <<OK>> \/ out = <<Fail>> => m = 1
      <4>1. OK \in Reply /\ Fail \in Reply
        BY ZenonT(30) DEF OK, Fail, Reply
      <4> QED BY ZenonT(30), <4>1, Counts
    <3>4. out = <<[OK EXCEPT !.two_stage = TRUE], Value>> => m = 1
      <4>1. [OK EXCEPT !.two_stage = TRUE] \in Reply
        BY ZenonT(30) DEF OK, Reply
      <4>2. Value \notin Reply
        BY Distinct
      <4>3. \A x, y : x \in Reply /\ y \notin Reply => Count(Reply, <<x, y>>) = 1
        BY Counts
      <4>4. Count(Reply, <<[OK EXCEPT !.two_stage = TRUE], Value>>) = 1
        BY ZenonT(30), <4>1, <4>2, <4>3
      <4> QED BY <4>4
    <3> QED BY ZenonT(30), <3>1, <3>2, <3>3, <3>4 DEF Answers
  <2> HIDE DEF k, in, out, h, task, closed, n, m, P
  <2>7. CASE k.state = "wait"
    <3>1. k.req \in Request /\ Waits(k, in, out, h, task)
      BY ZenonT(30), <2>1, <2>7 DEF Linked
    <3>2. \/ n = 1 /\ m = 0 /\ Cardinality(P) = 0
          \/ n = 0 /\ m = 0 /\ Cardinality(P) = 1
          \/ n = 0 /\ m = 1 /\ Cardinality(P) = 0
      BY ZenonT(30), <2>4, <2>5, <2>6, <3>1 DEF Waits, Fits
    <3>3. CallsOf(c) = 1
      BY <2>2, <3>2
    <3> QED BY <2>7, <3>3 DEF k
  <2>8. CASE k.state \in {"READY", "recv_value", "send_value", "STOPPED"}
    <3>1. n = 0 /\ m = 0 /\ Cardinality(P) = 0
      BY ZenonT(30), <2>1, <2>4, <2>5, <2>6, <2>8 DEF Linked
    <3>2. CallsOf(c) = 0
      BY <2>2, <3>1
    <3> QED BY ZenonT(30), <2>8, <3>2 DEF k
  <2> QED BY <2>7, <2>8 DEF k
<1> QED BY <1>1, Invariance, PTL

=============================================================================
