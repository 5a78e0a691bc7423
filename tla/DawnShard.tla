----------------------------- MODULE DawnShard ------------------------------
(***************************************************************************)
(* A dawn shard and its clients: the messages between them, the values     *)
(* that travel on their own after or before a message, the buffers of the  *)
(* connections and the store's locks that are held during a transfer.      *)
(* Source: servers/dawn/src/{shard.cpp,shard.h,shard_ado.cpp,              *)
(* connection_handler.cpp,connection_handler.h,fabric_connection_base.h,   *)
(* buffer_manager.h,pool_manager.h,task_key_find.h} and                    *)
(* components/client/dawn/src/{connection.cpp,client_fabric_transport.h}.  *)
(*                                                                         *)
(* A shard is one thread.  What it does for one connection in one pass of  *)
(* main_loop is here a tick, then the actions it left, then its messages;  *)
(* nothing else the shard does comes between them, but clients run.  A     *)
(* handler that stalls misses passes, so connections come in any order.    *)
(* The server is built with NDEBUG; ADO is not enabled.  The store is      *)
(* mapstore and all clients use one pool of it.                            *)
(***************************************************************************)
EXTENDS MapStore, Sequences

CONSTANTS Client,       \* clients; also their connections and store sessions
          Request,      \* the requests the clients make
          BufferCount,  \* DEFAULT_BUFFER_COUNT
          MaxRequest    \* bound: how many requests each client makes

ASSUME DawnAssumption ==
  /\ IsFiniteSet(Client)
  /\ Request \subseteq [op : STRING, key : Key, len : 0 .. Large]
  /\ \A r \in Request : r.op = "put_advance" => r.len \in Length
  /\ BufferCount \in Nat \ {0, 1}
  /\ MaxRequest \in [Client -> Nat]

VARIABLES client,    \* the clients: state, request in progress, handles to the pool
          toServer,  \* messages on the way to the shard
          toClient,  \* messages on the way to a client
          handler,   \* _handlers, and connections that wait to become handlers
          closing,   \* pending_close
          locked,    \* _locked_values: session and count, by address
          tasks,     \* _tasks: the connections they are for
          index,     \* _index_map: whether there is one, and the sessions in it
          pool, sessions,  \* the store
          run        \* whether the shard's thread runs, waits for ever or is gone

shard == <<handler, closing, locked, tasks, index>>
vars == <<client, toServer, toClient, shard, pool, sessions, run>>

Hello == [op |-> "HANDSHAKE"]
Bye == [op |-> "CLOSE_SESSION"]
Value == [op |-> "value"]
Reply == [op : {"reply"}, ok : BOOLEAN, two_stage : BOOLEAN]
OK == [op |-> "reply", ok |-> TRUE, two_stage |-> FALSE]
Fail == [OK EXCEPT !.ok = FALSE]
NoRequest == [op |-> "none"]
NoMessage == [op |-> "no_buffer"]
Posted == [op |-> "posted"]

ClientState == {"off", "HANDSHAKE_GET_RESPONSE", "READY", "wait", "recv_value", "send_value",
                "STOPPED", "lost"}
HandlerState == {"none", "queued", "INITIALIZE", "POST_HANDSHAKE", "WAIT_HANDSHAKE",
                 "WAIT_HANDSHAKE_RESPONSE_COMPLETION", "POST_MSG_RECV", "WAIT_NEW_MSG_RECV",
                 "WAIT_RECV_VALUE", "WAIT_SEND_VALUE"}

\* A handler: its state, the buffer posted to receive (or the message in it),
\* the buffer posted to send, the value posted and whether it is outstanding,
\* the free buffers, the pool's references, and what is pending.
NoHandler == [state |-> "none", recv |-> NoMessage, send |-> "null", value |-> NoAddr,
              outstanding |-> FALSE, free |-> 0, refs |-> 0, msg |-> FALSE, release |-> NoAddr]

Handler == [state : HandlerState, recv : Request \cup {Hello, Bye, Value, NoMessage, Posted},
            send : {"null", "outstanding", "complete"}, value : Addr \cup {NoAddr},
            outstanding : BOOLEAN, free : 0 .. BufferCount, refs : Nat,
            msg : BOOLEAN, release : Addr \cup {NoAddr}]

Unlocked == [session |-> NoAddr, count |-> 0]

\* The type of each variable: what the program can hold in it.
TypeOK ==
  /\ client \in [Client -> [state : ClientState, req : Request \cup {NoRequest},
                            handles : Nat, made : Nat]]
  /\ \A c \in Client : /\ toServer[c] \in Seq(Request \cup {Hello, Bye, Value})
                       /\ toClient[c] \in Seq(Reply \cup {Value})
  /\ handler \in [Client -> Handler]
  /\ closing \subseteq Client /\ tasks \subseteq Client
  /\ index \in [map : BOOLEAN, of : SUBSET Client]
  /\ locked \in [Addr -> [session : Client, count : Nat] \cup {Unlocked}]
  /\ pool \in Pool /\ sessions \subseteq Client
  /\ run \in {"running", "waiting", "ended"}

Init ==
  /\ client = [c \in Client |-> [state |-> "off", req |-> NoRequest, handles |-> 0, made |-> 0]]
  /\ toServer = [c \in Client |-> <<>>] /\ toClient = [c \in Client |-> <<>>]
  /\ handler = [c \in Client |-> NoHandler]
  /\ closing = {} /\ tasks = {} /\ index = [map |-> FALSE, of |-> {}]
  /\ locked = [a \in Addr |-> Unlocked]
  /\ pool = NoPool /\ sessions = {}
  /\ run = "running"

-----------------------------------------------------------------------------
\* The clients.

\* bootstrap: the connection reaches the server, and the handshake is sent.
Bootstrap(c) ==
  /\ client[c].state = "off"
  /\ client' = [client EXCEPT ![c].state = "HANDSHAKE_GET_RESPONSE"]
  /\ toServer' = [toServer EXCEPT ![c] = <<Hello>>]
  /\ handler' = [handler EXCEPT ![c].state = "queued"]
  /\ UNCHANGED <<toClient, closing, locked, tasks, index, pool, sessions, run>>

\* A call of the API by the one thread that has _api_lock.  Only the calls
\* on the pool by its name do without a handle; close_pool gives one up.
Call(c, r) ==
  /\ client[c].state = "READY"
  /\ client[c].made < MaxRequest[c]
  /\ r.op \in {"create", "open", "delete"} \/ client[c].handles > 0
  /\ client' = [client EXCEPT ![c].state = "wait", ![c].req = r, ![c].made = @ + 1,
                              ![c].handles = IF r.op = "close" THEN @ - 1 ELSE @]
  /\ toServer' = [toServer EXCEPT ![c] = Append(@, r)]
  /\ UNCHANGED <<toClient, shard, pool, sessions, run>>

\* What a client does next with a reply m.
AfterReply(c, m) ==
  CASE client[c].req.op = "put_advance" /\ m.ok -> "send_value"
    [] m.two_stage -> "recv_value"
    [] OTHER -> "READY"

\* wait_for_completion of the reply's buffer, and what follows it: two-stage
\* puts send the value, two-stage gets post a buffer for it.
GetReply(c) ==
  /\ client[c].state \in {"HANDSHAKE_GET_RESPONSE", "wait"}
  /\ toClient[c] # <<>>
  /\ LET m == Head(toClient[c])
     IN  /\ client' = [client EXCEPT ![c].state = AfterReply(c, m), ![c].req = NoRequest,
                         ![c].handles = IF client[c].req.op \in {"create", "open"} /\ m.ok
                                        THEN @ + 1 ELSE @]
         /\ toServer' = IF AfterReply(c, m) = "send_value"
                        THEN [toServer EXCEPT ![c] = Append(@, Value)] ELSE toServer
  /\ toClient' = [toClient EXCEPT ![c] = Tail(@)]
  /\ UNCHANGED <<shard, pool, sessions, run>>

\* The value of a two-stage get is there; that of a two-stage put has gone.
ValueDone(c) ==
  /\ \/ client[c].state = "recv_value" /\ toClient[c] # <<>>
     \/ client[c].state = "send_value" /\ toServer[c] = <<>>
  /\ client' = [client EXCEPT ![c].state = "READY"]
  /\ toClient' = [toClient EXCEPT ![c] = IF client[c].state = "recv_value" THEN Tail(@) ELSE @]
  /\ UNCHANGED <<toServer, shard, pool, sessions, run>>

\* shutdown.
Shutdown(c) ==
  /\ client[c].state = "READY"
  /\ client' = [client EXCEPT ![c].state = "STOPPED", ![c].handles = 0]
  /\ toServer' = [toServer EXCEPT ![c] = Append(@, Bye)]
  /\ UNCHANGED <<toClient, shard, pool, sessions, run>>

\* A client goes away, with what was on the way from and to it.
Lose(c) ==
  /\ client[c].state \notin {"off", "lost"}
  /\ client' = [client EXCEPT ![c].state = "lost", ![c].req = NoRequest, ![c].handles = 0]
  /\ toServer' = [toServer EXCEPT ![c] = <<>>] /\ toClient' = [toClient EXCEPT ![c] = <<>>]
  /\ UNCHANGED <<shard, pool, sessions, run>>

-----------------------------------------------------------------------------
\* The shard's thread, and a handler's tick.

\* An exception that main_loop does not catch, or a failed assertion of the
\* store, ends the shard; a lock of the store that nobody releases stops it.
Stop(how) == run' = how /\ UNCHANGED <<client, toServer, toClient, shard, pool, sessions>>

\* The pass over the handlers is between two of them.
BetweenHandlers ==
  run = "running" /\ \A c \in Client : ~handler[c].msg /\ handler[c].release = NoAddr

\* check_for_new_connections.
Accept(c) ==
  /\ BetweenHandlers
  /\ handler[c].state = "queued"
  /\ handler' = [handler EXCEPT ![c].state = "INITIALIZE", ![c].free = BufferCount]
  /\ UNCHANGED <<client, toServer, toClient, closing, locked, tasks, index, pool, sessions, run>>

Ticks(c) == BetweenHandlers /\ c \notin closing /\ handler[c].state \notin {"none", "queued"}

AwaitsValue(h) == h.outstanding /\ h.state = "WAIT_RECV_VALUE"
AwaitsMessage(h) == h.recv = Posted
Outstanding(h) == AwaitsMessage(h) \/ h.send = "outstanding" \/ h.outstanding

\* poll_completions: what the handler may be after it.  A buffer posted to
\* receive takes what has come.  A send may be complete at any time, and is
\* when the client has what was sent.
Polled(c) ==
  LET h == handler[c]
      come == toServer[c] # <<>>
  IN  {[h EXCEPT !.recv = IF AwaitsMessage(h) /\ come THEN Head(toServer[c]) ELSE @,
                 !.send = IF @ = "outstanding" /\ sent THEN "complete" ELSE @,
                 !.outstanding = @ /\ ~(IF AwaitsValue(h) THEN come ELSE sent)] :
         sent \in {TRUE, toClient[c] = <<>>}}

\* What poll_completions took is no longer on its way.
Taken(c) ==
  IF toServer[c] # <<>> /\ (AwaitsMessage(handler[c]) \/ AwaitsValue(handler[c]))
  THEN [toServer EXCEPT ![c] = Tail(@)] ELSE toServer

\* A tick that takes the handler, polled as h, to g.
Tick(c, g) ==
  /\ handler' = [handler EXCEPT ![c] = g]
  /\ toServer' = Taken(c)

\* INITIALIZE.
TickInitialize(c) ==
  /\ Ticks(c) /\ handler[c].state = "INITIALIZE"
  /\ \E h \in Polled(c) : Tick(c, [h EXCEPT !.state = "POST_HANDSHAKE"])
  /\ UNCHANGED <<client, toClient, closing, locked, tasks, index, pool, sessions, run>>

\* POST_HANDSHAKE, POST_MSG_RECV: a buffer to receive, if one is free.
TickPost(c) ==
  /\ Ticks(c) /\ handler[c].state \in {"POST_HANDSHAKE", "POST_MSG_RECV"}
  /\ \E h \in Polled(c) :
       IF h.free = 0 THEN Stop("ended")
       ELSE /\ Tick(c, [h EXCEPT !.recv = Posted, !.free = @ - 1,
                          !.state = IF @ = "POST_HANDSHAKE" THEN "WAIT_HANDSHAKE"
                                    ELSE "WAIT_NEW_MSG_RECV"])
            /\ UNCHANGED <<client, toClient, closing, locked, tasks, index, pool, sessions, run>>

\* A message to a client that is gone is lost.
Send(c, ms) ==
  toClient' = IF client[c].state = "lost" THEN toClient
              ELSE [toClient EXCEPT ![c] = @ \o ms]

\* WAIT_HANDSHAKE: the reply is short, so it is injected and its buffer is
\* free again; the buffer received in is not freed.
TickHandshake(c) ==
  /\ Ticks(c) /\ handler[c].state = "WAIT_HANDSHAKE"
  /\ \E h \in Polled(c) :
       /\ ~AwaitsMessage(h)
       /\ IF h.free = 0 THEN Stop("ended")
          ELSE /\ Tick(c, [h EXCEPT !.state = "WAIT_HANDSHAKE_RESPONSE_COMPLETION"])
               /\ Send(c, <<OK>>)
               /\ UNCHANGED <<client, closing, locked, tasks, index, pool, sessions, run>>

\* WAIT_HANDSHAKE_RESPONSE_COMPLETION: nothing was posted.
TickHandshakeDone(c) ==
  /\ Ticks(c) /\ handler[c].state = "WAIT_HANDSHAKE_RESPONSE_COMPLETION"
  /\ \E h \in Polled(c) : Tick(c, [h EXCEPT !.state = "POST_MSG_RECV"])
  /\ UNCHANGED <<client, toClient, closing, locked, tasks, index, pool, sessions, run>>

\* WAIT_NEW_MSG_RECV with a request, which is left pending.
TickMessage(c) ==
  /\ Ticks(c) /\ handler[c].state = "WAIT_NEW_MSG_RECV"
  /\ \E h \in Polled(c) :
       /\ h.recv \notin {Posted, Bye}
       /\ IF h.recv \notin Request THEN Stop("ended")
          ELSE /\ Tick(c, [h EXCEPT !.msg = TRUE, !.state = "POST_MSG_RECV"])
               /\ UNCHANGED <<client, toClient, closing, locked, tasks, index,
                              pool, sessions, run>>

\* TICK_RESPONSE_CLOSE: the store's session is closed at once, and the
\* handler deleted at the end of the pass.
CloseSession(c, h) ==
  /\ Tick(c, h)
  /\ closing' = closing \cup {c}
  /\ sessions' = IF h.refs > 0 THEN sessions \ {c} ELSE sessions
  /\ UNCHANGED <<client, toClient, locked, tasks, index, pool, run>>

\* WAIT_NEW_MSG_RECV with CLOSE_SESSION.
TickBye(c) ==
  /\ Ticks(c) /\ handler[c].state = "WAIT_NEW_MSG_RECV"
  /\ \E h \in Polled(c) :
       h.recv = Bye /\ CloseSession(c, [h EXCEPT !.recv = NoMessage, !.free = @ + 1])

\* poll_completions finds the client gone.  The transport says so with a
\* logic_error, which closes the session, or completes what is outstanding
\* with an error, which completion_callback throws and nobody catches.
TickDisconnect(c) ==
  /\ Ticks(c) /\ client[c].state = "lost"
  /\ Outstanding(handler[c])
  /\ CloseSession(c, handler[c]) \/ Stop("ended")

\* WAIT_SEND_VALUE, WAIT_RECV_VALUE: the value has gone or is there, and its
\* lock is left to be released.
TickValue(c) ==
  /\ Ticks(c) /\ handler[c].state \in {"WAIT_SEND_VALUE", "WAIT_RECV_VALUE"}
  /\ \E h \in Polled(c) :
       /\ ~h.outstanding
       /\ Tick(c, [h EXCEPT !.release = h.value, !.value = NoAddr, !.state = "POST_MSG_RECV"])
  /\ UNCHANGED <<client, toClient, closing, locked, tasks, index, pool, sessions, run>>

\* The other ticks: nothing has come that the state waits for.
TickMiss(c) ==
  /\ Ticks(c)
  /\ \E h \in Polled(c) :
       /\ \/ h.state \in {"WAIT_HANDSHAKE", "WAIT_NEW_MSG_RECV"} /\ AwaitsMessage(h)
          \/ h.state \in {"WAIT_SEND_VALUE", "WAIT_RECV_VALUE"} /\ h.outstanding
       /\ Tick(c, h)
  /\ UNCHANGED <<client, toClient, closing, locked, tasks, index, pool, sessions, run>>

\* main_loop's last step of a pass: what pending_close holds is deleted.
DeleteHandlers ==
  /\ BetweenHandlers /\ closing # {}
  /\ handler' = [c \in Client |-> IF c \in closing THEN NoHandler ELSE handler[c]]
  /\ closing' = {}
  /\ UNCHANGED <<client, toServer, toClient, locked, tasks, index, pool, sessions, run>>

-----------------------------------------------------------------------------
\* Values that are locked while they travel.

\* Mutant: a value that is locked already is entered anew.
add_locked_value_anew(c, a) == [locked EXCEPT ![a] = [session |-> c, count |-> 1]]

\* add_locked_value.
add_locked_value(c, a) ==
  [locked EXCEPT ![a] = IF @ = Unlocked THEN [session |-> c, count |-> 1]
                        ELSE [session |-> @.session, count |-> @.count + 1]]

\* release_locked_value, the one deferred action: the last release of the
\* value unlocks the pool, if the session it was locked in is still open.
release_locked_value(c) ==
  /\ run = "running" /\ handler[c].release # NoAddr
  /\ LET a == handler[c].release
     IN  IF locked[a] = Unlocked THEN Stop("ended")
         ELSE /\ locked' = [locked EXCEPT ![a] =
                              IF @.count = 1 THEN Unlocked
                              ELSE [session |-> @.session, count |-> @.count - 1]]
              /\ pool' = IF locked[a].count = 1 /\ locked[a].session \in sessions
                         THEN unlock(pool) ELSE pool
              /\ handler' = [handler EXCEPT ![c].release = NoAddr]
              /\ UNCHANGED <<client, toServer, toClient, closing, tasks, index, sessions, run>>

-----------------------------------------------------------------------------
\* The requests.

\* A request of kind op is pending, and the buffer for its response is there.
Serves(c, op) ==
  /\ run = "running"
  /\ handler[c].msg /\ handler[c].release = NoAddr
  /\ handler[c].recv.op = op
  /\ handler[c].free > 0

\* Buffer_manager::allocate throws when there is none.  (A find needs one if
\* it is refused.)
OutOfBuffers(c) ==
  /\ run = "running"
  /\ handler[c].msg /\ handler[c].release = NoAddr
  /\ handler[c].free = 0
  /\ Stop("ended")

\* Mutant: the buffer of an injected response is freed again by the caller.
RespondFreesTwice(c, h, ms) ==
  /\ handler' = [handler EXCEPT ![c] = [h EXCEPT !.msg = FALSE, !.recv = NoMessage,
                                                 !.free = @ + 2]]
  /\ Send(c, ms)

\* The messages ms are sent, and the request's buffer is freed.  A response
\* of up to 128 bytes is injected and its buffer is free at once.
Respond(c, h, ms) ==
  /\ handler' = [handler EXCEPT ![c] = [h EXCEPT !.msg = FALSE, !.recv = NoMessage,
                                                 !.free = @ + 1]]
  /\ Send(c, ms)

\* post_send_buffer of a longer response: its buffer stays posted.
PostSend(h) == [h EXCEPT !.send = "outstanding", !.free = @ - 1]

\* OP_CREATE: open in this connection already, it gains a reference, and the
\* response has no pool; otherwise the store creates it, unless it exists.
Create(c) ==
  /\ Serves(c, "create")
  /\ LET h == handler[c]
         new == h.refs = 0 /\ ~pool.exists
     IN  /\ pool' = IF new THEN create_pool(pool) ELSE pool
         /\ sessions' = IF new THEN sessions \cup {c} ELSE sessions
         /\ Respond(c, [h EXCEPT !.refs = IF new \/ h.refs > 0 THEN @ + 1 ELSE @],
                    <<IF new THEN OK ELSE Fail>>)
  /\ UNCHANGED <<client, toServer, closing, locked, tasks, index, run>>

\* Mutant: opening again does not count.
OpenUncounted(c) ==
  /\ Serves(c, "open")
  /\ LET ok == handler[c].refs > 0 \/ pool.exists
     IN  /\ sessions' = IF ok THEN sessions \cup {c} ELSE sessions
         /\ Respond(c, [handler[c] EXCEPT !.refs = IF ok THEN 1 ELSE @], <<IF ok THEN OK ELSE Fail>>)
  /\ UNCHANGED <<client, toServer, closing, locked, tasks, index, pool, run>>

\* OP_OPEN: open in this connection already, it gains a reference; otherwise
\* a session is opened, if the pool exists.
Open(c) ==
  /\ Serves(c, "open")
  /\ LET h == handler[c]
         ok == h.refs > 0 \/ pool.exists
     IN  /\ sessions' = IF ok THEN sessions \cup {c} ELSE sessions
         /\ Respond(c, [h EXCEPT !.refs = IF ok THEN @ + 1 ELSE @], <<IF ok THEN OK ELSE Fail>>)
  /\ UNCHANGED <<client, toServer, closing, locked, tasks, index, pool, run>>

\* OP_CLOSE: the last reference closes the session.
Close(c) ==
  /\ Serves(c, "close")
  /\ IF handler[c].refs = 0 THEN Stop("ended")
     ELSE /\ sessions' = IF handler[c].refs = 1 THEN sessions \ {c} ELSE sessions
          /\ Respond(c, [handler[c] EXCEPT !.refs = @ - 1], <<OK>>)
          /\ UNCHANGED <<client, toServer, closing, locked, tasks, index, pool, run>>

\* OP_DELETE: refused when it is open here, and by the store when it is open.
Delete(c) ==
  /\ Serves(c, "delete")
  /\ LET ok == handler[c].refs = 0 /\ deletable(pool, sessions)
     IN  /\ pool' = IF ok THEN NoPool ELSE pool
         /\ Respond(c, handler[c], <<IF ok THEN OK ELSE Fail>>)
  /\ UNCHANGED <<client, toServer, closing, locked, tasks, index, sessions, run>>

\* Mutant: set_pending_value does not set the state.
PutAdvanceStateless(c) ==
  /\ Serves(c, "put_advance") /\ ~write_lock_waits(pool) /\ ~write_lock_refused(pool)
  /\ LET r == handler[c].recv
     IN  /\ pool' \in lock_write(pool, r.key, r.len)
         /\ LET a == pool'.map[r.key].ptr
            IN  /\ locked' = add_locked_value(c, a)
                /\ Respond(c, [handler[c] EXCEPT !.value = a, !.outstanding = TRUE], <<OK>>)
  /\ UNCHANGED <<client, toServer, closing, tasks, index, sessions, run>>

\* OP_PUT_ADVANCE: the value is created if need be and locked, a buffer that
\* is the value itself is posted, and only then the client is told to send.
\* A refused lock, or a length that differs, leads to "operation not
\* implemented", and so does FLAGS_DONT_STOMP ("put_advance_new"); a lock that
\* others share is waited for.
PutAdvance(c) ==
  /\ Serves(c, "put_advance") \/ Serves(c, "put_advance_new")
  /\ LET r == handler[c].recv
     IN  IF r.op = "put_advance_new" THEN Stop("ended")
         ELSE IF write_lock_waits(pool) THEN Stop("waiting")
         ELSE IF write_lock_refused(pool) \/ pool.map[r.key].len \notin {0, r.len}
         THEN Stop("ended")
         ELSE /\ pool' \in lock_write(pool, r.key, r.len)
              /\ LET a == pool'.map[r.key].ptr
                 IN  /\ locked' = add_locked_value(c, a)
                     /\ Respond(c, [handler[c] EXCEPT !.value = a, !.outstanding = TRUE,
                                                      !.state = "WAIT_RECV_VALUE"], <<OK>>)
              /\ UNCHANGED <<client, toServer, closing, tasks, index, sessions, run>>

\* OP_PUT; "put_new" is a put with FLAGS_DONT_STOMP.
Put(c) ==
  /\ Serves(c, "put") \/ Serves(c, "put_new")
  /\ LET r == handler[c].recv
         refused == put_refused(pool, r.key, r.len, r.op = "put_new")
     IN  /\ pool' \in IF refused THEN {pool} ELSE put(pool, r.key, r.len)
         /\ Respond(c, handler[c], <<IF refused THEN Fail ELSE OK>>)
  /\ UNCHANGED <<client, toServer, closing, locked, tasks, index, sessions, run>>

\* OP_GET: the value is locked to be read (one that is absent fails an
\* assertion of the store).  A short one is copied and unlocked.  Otherwise
\* the client's space is checked; what fits the packet goes with the response,
\* and a larger one, or one asked for directly, follows it.
Get(c) ==
  /\ Serves(c, "get") \/ Serves(c, "get_direct")
  /\ LET h == handler[c]
         r == h.recv
         v == pool.map[r.key]
         copied == r.op = "get" /\ v.len <= Small
         refused == ~copied /\ r.len < v.len
         together == ~copied /\ ~refused /\ r.op = "get" /\ v.len <= Medium
         follows == ~copied /\ ~refused /\ ~together
     IN  IF Absent(pool, r.key) THEN Stop("ended")
         ELSE /\ pool' = IF copied \/ refused THEN unlock(lock_read(pool)) ELSE lock_read(pool)
              /\ locked' = IF copied \/ refused THEN locked ELSE add_locked_value(c, v.ptr)
              /\ \/ refused /\ Respond(c, h, <<Fail>>)
                 \/ copied /\ Respond(c, IF v.len = Tiny THEN h ELSE PostSend(h), <<OK>>)
                 \/ together /\ Respond(c, PostSend([h EXCEPT !.value = v.ptr]), <<OK>>)
                 \/ follows /\ Respond(c, [h EXCEPT !.value = v.ptr, !.outstanding = TRUE,
                                                    !.state = "WAIT_SEND_VALUE"],
                                       <<[OK EXCEPT !.two_stage = TRUE], Value>>)
              /\ UNCHANGED <<client, toServer, closing, tasks, index, sessions, run>>

\* OP_ERASE.
Erase(c) ==
  /\ Serves(c, "erase")
  /\ LET k == handler[c].recv.key
     IN  /\ pool' = erase(pool, k)
         /\ Respond(c, handler[c], <<IF Absent(pool, k) THEN Fail ELSE OK>>)
  /\ UNCHANGED <<client, toServer, closing, locked, tasks, index, sessions, run>>

\* OP_CONFIGURE with AddIndex::VolatileTree.
AddIndex(c) ==
  /\ Serves(c, "add_index")
  /\ index' = [map |-> TRUE, of |-> index.of \cup {c}]
  /\ Respond(c, handler[c], <<OK>>)
  /\ UNCHANGED <<client, toServer, closing, locked, tasks, pool, sessions, run>>

\* OP_CONFIGURE with RemoveIndex, which takes it that there is a map.
RemoveIndex(c) ==
  /\ Serves(c, "remove_index")
  /\ IF ~index.map THEN Stop("ended")
     ELSE /\ index' = [index EXCEPT !.of = @ \ {c}]
          /\ Respond(c, handler[c], <<IF c \in index.of THEN OK ELSE Fail>>)
          /\ UNCHANGED <<client, toServer, closing, locked, tasks, pool, sessions, run>>

\* Mutant: the task is not put on the list.
FindTaskForgotten(c) ==
  /\ run = "running"
  /\ handler[c].msg /\ handler[c].release = NoAddr
  /\ handler[c].recv.op = "find" /\ c \in index.of
  /\ Respond(c, handler[c], <<>>)
  /\ UNCHANGED <<client, toServer, closing, locked, tasks, index, pool, sessions, run>>

\* INFO_TYPE_FIND_KEY with an index: a task, and the response is not issued
\* straight away.
FindTask(c) ==
  /\ run = "running"
  /\ handler[c].msg /\ handler[c].release = NoAddr
  /\ handler[c].recv.op = "find" /\ c \in index.of
  /\ tasks' = tasks \cup {c}
  /\ Respond(c, handler[c], <<>>)
  /\ UNCHANGED <<client, toServer, closing, locked, index, pool, sessions, run>>

\* INFO_TYPE_FIND_KEY without, or with an expression that Key_find_task does not
\* know: the response's length is not set, so it is posted.
FindRefused(c) ==
  /\ Serves(c, "find")
  /\ Respond(c, PostSend(handler[c]), <<Fail>>)
  /\ UNCHANGED <<client, toServer, closing, locked, tasks, index, pool, sessions, run>>

\* Requests that get nothing but an answer.  Good: the other INFO requests, and
\* a put or get that MSG_RESVD_SCBE keeps from the store.  Bad: an ADO request,
\* and an OP_CONFIGURE with a command or an index that is not known.
Info(c) ==
  /\ Serves(c, "info") \/ Serves(c, "ado")
  /\ Respond(c, handler[c], <<IF handler[c].recv.op = "ado" THEN Fail ELSE OK>>)
  /\ UNCHANGED <<client, toServer, closing, locked, tasks, index, pool, sessions, run>>

\* The CRC32 attribute, which the store does not know, of a value that the
\* shard locks for it.
Crc32(c) ==
  /\ Serves(c, "crc32")
  /\ IF Absent(pool, handler[c].recv.key) THEN Stop("ended")
     ELSE /\ pool' = unlock(lock_read(pool))
          /\ Respond(c, handler[c], <<OK>>)
          /\ UNCHANGED <<client, toServer, closing, locked, tasks, index, sessions, run>>

\* Mutant: a task that is done is not erased.
TaskDoneKept(c) ==
  /\ BetweenHandlers /\ c \in tasks /\ handler[c].free > 0
  /\ Send(c, <<OK>>)
  /\ UNCHANGED <<client, toServer, shard, pool, sessions, run>>

\* process_tasks, when do_work has found the key or the end of the index.  The
\* response with a key found may be too long to be injected.  A task whose
\* handler is deleted uses it all the same.
TaskDone(c) ==
  /\ BetweenHandlers /\ c \in tasks
  /\ \/ handler[c].free = 0 /\ Stop("ended")
     \/ /\ handler[c].free > 0 \/ handler[c].state = "none"
        /\ tasks' = tasks \ {c}
        /\ \/ UNCHANGED handler /\ \E m \in {OK, Fail} : Send(c, <<m>>)
           \/ /\ handler[c].state # "none"
              /\ handler' = [handler EXCEPT ![c] = PostSend(@)]
              /\ Send(c, <<OK>>)
        /\ UNCHANGED <<client, toServer, closing, locked, index, pool, sessions, run>>

-----------------------------------------------------------------------------
Serve(c) ==
  \/ Create(c) \/ Open(c) \/ Close(c) \/ Delete(c)
  \/ PutAdvance(c) \/ Put(c) \/ Get(c) \/ Erase(c)
  \/ AddIndex(c) \/ RemoveIndex(c) \/ FindTask(c) \/ FindRefused(c) \/ Info(c) \/ Crc32(c)
  \/ OutOfBuffers(c)

TickAny(c) ==
  \/ TickInitialize(c) \/ TickPost(c) \/ TickHandshake(c) \/ TickHandshakeDone(c)
  \/ TickMessage(c) \/ TickBye(c) \/ TickDisconnect(c) \/ TickValue(c) \/ TickMiss(c)

Next ==
  \/ \E c \in Client :
       \/ Bootstrap(c) \/ (\E r \in Request : Call(c, r)) \/ GetReply(c) \/ ValueDone(c)
       \/ Shutdown(c) \/ Lose(c)
       \/ Accept(c) \/ TickAny(c) \/ release_locked_value(c) \/ Serve(c) \/ TaskDone(c)
  \/ DeleteHandlers

\* The shard polls for ever and comes to every connection; a client that has
\* called goes on with the call.  Nobody has to call, and clients may go.
Fairness ==
  /\ \A c \in Client : /\ WF_vars(GetReply(c)) /\ WF_vars(ValueDone(c))
                       /\ WF_vars(Accept(c)) /\ WF_vars(TickAny(c))
                       /\ WF_vars(release_locked_value(c)) /\ WF_vars(Serve(c))
                       /\ WF_vars(TaskDone(c))
  /\ WF_vars(DeleteHandlers)

Spec == Init /\ [][Next]_vars

FairSpec == Spec /\ Fairness

-----------------------------------------------------------------------------
\* Properties.

Count(S, seq) == Cardinality({i \in DOMAIN seq : seq[i] \in S})

\* Where a call of c can be: on its way, pending, a task or answered.
CallsOf(c) ==
  Count(Request, toServer[c]) + Count(Reply, toClient[c])
  + Cardinality({x \in {1} : handler[c].msg} \cup {x \in {2} : c \in tasks})

\* A client that waits for a response has exactly one call in the system,
\* whatever the pass over the handlers, a task or another client does; one
\* that does not wait has none, so no response can be taken for another's.
OneAnswer ==
  run = "running" =>
    \A c \in Client :
      /\ client[c].state = "wait" => CallsOf(c) = 1
      /\ client[c].state \in {"READY", "recv_value", "send_value", "STOPPED"} => CallsOf(c) = 0

\* The two ends agree on what comes next: a buffer that is a value's memory
\* takes a value, a message buffer a message, and so at the client.
FramesMatch ==
  \A c \in Client :
    /\ toServer[c] # <<>> /\ c \notin closing =>
         /\ AwaitsValue(handler[c]) => Head(toServer[c]) = Value
         /\ AwaitsMessage(handler[c]) => Head(toServer[c]) # Value
    /\ toClient[c] # <<>> =>
         (client[c].state = "recv_value" <=> Head(toClient[c]) = Value)

\* The value a connection transfers, or is to release.
Transferred(h) ==
  IF h.state \in {"WAIT_SEND_VALUE", "WAIT_RECV_VALUE"} THEN h.value ELSE h.release

\* _locked_values counts each transfer on an address, also when others put,
\* erase or lock the value meanwhile: release_locked_value finds its target.
TransfersCounted ==
  \A a \in Addr :
    locked[a].count >= Cardinality({c \in Client : Transferred(handler[c]) = a})

\* A session is open in the store exactly while its connection counts
\* references and is not being closed, and a pool with a session is not
\* deleted, whatever the order in which connections create, open, close,
\* delete, say goodbye or break.
SessionsMatch ==
  /\ sessions # {} => pool.exists
  /\ \A c \in Client : c \in sessions <=> handler[c].refs > 0 /\ c \notin closing

\* A pool handle that a client has is good: a session is open for it on a pool
\* that exists, and each handle is one of the connection's references, so
\* that closing one leaves the others usable.
HandleValid ==
  run = "running" =>
    \A c \in Client :
      /\ client[c].handles > 0 => c \in sessions /\ pool.exists
      /\ client[c].handles <= handler[c].refs

\* The lock that PUT_ADVANCE takes on the value is held while it travels.
LockCoversTransfer ==
  \A c \in Client :
    AwaitsValue(handler[c]) /\ run = "running" /\ c \notin closing => pool.writer

\* A client that waits gets on, unless it is lost or the shard stops.
CallEnds ==
  \A c \in Client :
    (client[c].state \in {"HANDSHAKE_GET_RESPONSE", "wait", "recv_value", "send_value"})
      ~> (client[c].state \in {"READY", "lost"} \/ run # "running")
=============================================================================
