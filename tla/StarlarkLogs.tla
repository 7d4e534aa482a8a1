---------------------------- MODULE StarlarkLogs ----------------------------
(***************************************************************************)
(* How the engine streams the output of a Starlark run to a client of its  *)
(* REST API (enclave_rest_api_handler.go, starlark_logs.go,                *)
(* streaming_pool_manager.go, websocket_api_handler.go).  A goroutine      *)
(* reads the API container's stream and offers each line on an unbuffered  *)
(* channel; a line nobody is waiting for is dropped.  The handler that     *)
(* started the run collects the lines itself, or leaves the streamer in a  *)
(* pool where a later request finds it by its UUID.                        *)
(***************************************************************************)
EXTENDS WebsocketPump, Sequences, FiniteSets

CONSTANTS
  Streamers,  \* the runs, each with its streamer
  Sockets,    \* the handlers whose client asks for a websocket
  PoolSize,   \* the size of the pool
  MaxLines    \* bound on the lines of a run

ASSUME LogsAssumption ==
  /\ PoolSize \in Nat \ {0} /\ MaxLines \in Nat
  /\ Sockets \subseteq Consumers

VARIABLES
  reader,   \* per streamer: AttachStream's goroutine, "none", "recv", "select", "done"
  line,     \* how many lines it has received
  closed,   \* has the streamer's context been cancelled?
  marked,   \* is it marked for consumption?
  pool,     \* the streamers in the pool, the least recently used first
  con,      \* per handler: where it is
  of,       \* the streamer it is about
  collects, \* does it collect the lines of the run it started?
  hand      \* how many lines it has been given

streamVars == <<reader, line, closed, marked>>
conVars    == <<con, of, collects, hand>>
vars == <<streamVars, pool, conVars, pumpVars>>

NoStreamer == "none"

Init ==
  /\ InitPumps
  /\ reader = [s \in Streamers |-> "none"] /\ line = [s \in Streamers |-> 0]
  /\ closed = [s \in Streamers |-> FALSE] /\ marked = [s \in Streamers |-> FALSE]
  /\ pool = <<>>
  /\ con = [c \in Consumers |-> "idle"]
  /\ of = [c \in Consumers |-> NoStreamer] /\ collects = [c \in Consumers |-> FALSE] /\ hand = [c \in Consumers |-> 0]

InPool(s) == \E i \in DOMAIN pool : pool[i] = s
Without(s) ==
  LET i == CHOOSE i \in DOMAIN pool : pool[i] = s
  IN SubSeq(pool, 1, i - 1) \o SubSeq(pool, i + 1, Len(pool))

(* The handlers that take s's lines from its channel, and the one that is  *)
(* waiting in it.                                                          *)
Consuming(s) == {c \in Consumers : of[c] = s /\ con[c] \in {"range", "waiting", "handle"}}
Waiting(s)   == {c \in Consumers : of[c] = s /\ con[c] = "waiting"}

-----------------------------------------------------------------------------
(* The pool's callback for a streamer that leaves it.                      *)
Evicted(s) == closed' = [closed EXCEPT ![s] = @ \/ ~marked[s]]

GoesTo(c, where) == con' = [con EXCEPT ![c] = where]

(* POST .../starlark/packages: the reader starts, and the streamer goes    *)
(* into the pool, from which the oldest may have to leave ...              *)
RunAsync(s) ==
  /\ reader[s] = "none"
  /\ reader' = [reader EXCEPT ![s] = "recv"]
  /\ IF Len(pool) < PoolSize
     THEN pool' = Append(pool, s) /\ UNCHANGED closed
     ELSE pool' = Append(Tail(pool), s) /\ Evicted(pool[1])
  /\ UNCHANGED <<line, marked, conVars, pumpVars>>

(* ... or the handler waits for all of its lines.                          *)
RunSync(s, c) ==
  /\ reader[s] = "none" /\ con[c] = "idle" /\ c \notin Sockets
  /\ reader' = [reader EXCEPT ![s] = "recv"]
  /\ of' = [of EXCEPT ![c] = s]
  /\ collects' = [collects EXCEPT ![c] = TRUE]
  /\ GoesTo(c, "range")
  /\ UNCHANGED <<line, closed, marked, pool, hand, pumpVars>>

(* A streamer expires in the pool.                                         *)
Expires(s) ==
  /\ InPool(s)
  /\ pool' = Without(s)
  /\ Evicted(s)
  /\ UNCHANGED <<reader, line, marked, conVars, pumpVars>>

-----------------------------------------------------------------------------
(* AttachStream.  The stream ends after any number of lines, or fails.     *)
Receive(s) ==
  /\ reader[s] = "recv" /\ line[s] < MaxLines
  /\ line' = [line EXCEPT ![s] = @ + 1]
  /\ reader' = [reader EXCEPT ![s] = "select"]
  /\ UNCHANGED <<closed, marked, pool, conVars, pumpVars>>

StreamEnds(s) ==
  /\ reader[s] = "recv"
  /\ reader' = [reader EXCEPT ![s] = "done"]
  /\ UNCHANGED <<line, closed, marked, pool, conVars, pumpVars>>

ReaderIsClosed(s) ==
  /\ reader[s] = "select" /\ closed[s]
  /\ reader' = [reader EXCEPT ![s] = "done"]
  /\ UNCHANGED <<line, closed, marked, pool, conVars, pumpVars>>

Deliver(s) ==
  /\ reader[s] = "select"
  /\ \E c \in Waiting(s) :
       /\ hand' = [hand EXCEPT ![c] = @ + 1]
       /\ GoesTo(c, "handle")
  /\ reader' = [reader EXCEPT ![s] = "recv"]
  /\ UNCHANGED <<line, closed, marked, pool, of, collects, pumpVars>>

(* mutant: no default branch, the reader waits for a consumer              *)
WaitsForAConsumer(s) ==
  /\ reader[s] = "select" /\ ~closed[s] /\ Waiting(s) = {}
  /\ UNCHANGED vars

(* The select's default: nobody waits for the line.                        *)
Drop(s) ==
  /\ reader[s] = "select" /\ ~closed[s] /\ Waiting(s) = {}
  /\ reader' = [reader EXCEPT ![s] = "recv"]
  /\ UNCHANGED <<line, closed, marked, pool, conVars, pumpVars>>

-----------------------------------------------------------------------------
(* GET .../executions/{uuid}/logs: is it in the pool?  A websocket is      *)
(* opened before it is taken.                                              *)
RequestLogs(c, s) ==
  /\ con[c] = "idle" /\ reader[s] # "none"
  /\ of' = [of EXCEPT ![c] = s]
  /\ IF ~InPool(s) THEN GoesTo(c, "ended") /\ UNCHANGED pumpVars
     ELSE /\ GoesTo(c, "get")
          /\ IF c \in Sockets THEN NewPump(c) ELSE UNCHANGED pumpVars
  /\ UNCHANGED <<streamVars, pool, collects, hand>>

(* The end of a handler: its defers.                                       *)
Ends(c) ==
  /\ GoesTo(c, "ended")
  /\ Cancel(c)
  /\ UNCHANGED <<pump, failed, out>>

(* StreamerPool.Consume: Get, which makes it the most recently used ...    *)
Get(c) ==
  LET s == of[c] IN
  /\ con[c] = "get"
  /\ IF InPool(s)
     THEN GoesTo(c, "mark") /\ pool' = Append(Without(s), s) /\ UNCHANGED pumpVars
     ELSE Ends(c) /\ UNCHANGED pool
  /\ UNCHANGED <<streamVars, of, collects, hand>>

(* mutant: the streamer is not marked for consumption                      *)
MarksNothing(c) ==
  /\ con[c] = "mark"
  /\ GoesTo(c, "remove")
  /\ UNCHANGED <<streamVars, pool, of, collects, hand, pumpVars>>

(* ... MarkForConsumption ...                                              *)
Mark(c) ==
  /\ con[c] = "mark"
  /\ marked' = [marked EXCEPT ![of[c]] = TRUE]
  /\ GoesTo(c, "remove")
  /\ UNCHANGED <<reader, line, closed, pool, of, collects, hand, pumpVars>>

(* mutant: the result of Remove is not looked at                           *)
ConsumesAnyway(c) ==
  LET s == of[c] IN
  /\ con[c] = "remove"
  /\ GoesTo(c, "range")
  /\ IF InPool(s) THEN pool' = Without(s) /\ Evicted(s) ELSE UNCHANGED <<pool, closed>>
  /\ UNCHANGED <<reader, line, marked, of, collects, hand, pumpVars>>

(* ... Remove: only who removed it consumes it.                            *)
Remove(c) ==
  LET s == of[c] IN
  /\ con[c] = "remove"
  /\ IF InPool(s)
     THEN GoesTo(c, "range") /\ pool' = Without(s) /\ Evicted(s) /\ UNCHANGED pumpVars
     ELSE Ends(c) /\ UNCHANGED <<pool, closed>>
  /\ UNCHANGED <<reader, line, marked, of, collects, hand>>

(* Close, when the consumption is over; a synchronous handler does not.    *)
ConsumeEnds(c) ==
  /\ IF collects[c] THEN UNCHANGED closed ELSE closed' = [closed EXCEPT ![of[c]] = TRUE]
  /\ Ends(c)

(* The loop over the channel: wait, or end when it is closed.              *)
Wait(c) ==
  /\ con[c] = "range"
  /\ GoesTo(c, "waiting")
  /\ UNCHANGED <<streamVars, pool, of, collects, hand, pumpVars>>

ChannelClosed(c) ==
  /\ con[c] = "waiting" /\ reader[of[c]] = "done"
  /\ ConsumeEnds(c)
  /\ UNCHANGED <<reader, line, marked, pool, of, collects, hand>>

(* The consumer passes the line on, or fails to.                           *)
Handle(c) ==
  /\ con[c] = "handle"
  /\ IF c \in Sockets THEN Pumped(c) ELSE Sent(c) /\ UNCHANGED <<pump, failed, cancelled>>
  /\ GoesTo(c, "range")
  /\ UNCHANGED <<streamVars, pool, of, collects, hand>>

HandleFails(c) ==
  /\ con[c] = "handle"
  /\ ~collects[c] /\ (c \in Sockets => PumpFails(c))
  /\ ConsumeEnds(c)
  /\ UNCHANGED <<reader, line, marked, pool, of, collects, hand>>

PumpAlone(c) ==
  /\ PumpStep(c)
  /\ UNCHANGED <<streamVars, pool, conVars>>

ClientAlone(c) ==
  /\ ClientCloses(c) \/ ConnectionLost(c)
  /\ UNCHANGED <<streamVars, pool, conVars>>

ReaderStep(s) == Receive(s) \/ StreamEnds(s) \/ ReaderIsClosed(s) \/ Deliver(s) \/ Drop(s)
HandlerStep(c) == Get(c) \/ Mark(c) \/ Remove(c) \/ Wait(c) \/ ChannelClosed(c) \/ Handle(c) \/ HandleFails(c)

Next ==
  \/ \E s \in Streamers :
       \/ RunAsync(s) \/ Expires(s) \/ ReaderStep(s)
       \/ \E c \in Consumers : RunSync(s, c) \/ RequestLogs(c, s)
  \/ \E c \in Consumers : HandlerStep(c) \/ PumpAlone(c) \/ ClientAlone(c)

Spec == Init /\ [][Next]_vars

(* Goroutines run, and a run ends some day; requests, expirations and      *)
(* closing clients need not come.                                          *)
FairSpec ==
  /\ Spec
  /\ \A s \in Streamers : WF_vars(ReaderStep(s))
  /\ \A c \in Consumers : WF_vars(HandlerStep(c)) /\ WF_vars(PumpAlone(c))
-----------------------------------------------------------------------------
(* The types of the variables; the pool holds no streamer twice and never  *)
(* more than its size (the limit handed to NewStreamerPool).               *)
TypeOK ==
  /\ reader \in [Streamers -> {"none", "recv", "select", "done"}]
  /\ line \in [Streamers -> 0..MaxLines]
  /\ closed \in [Streamers -> BOOLEAN] /\ marked \in [Streamers -> BOOLEAN]
  /\ con \in [Consumers -> {"idle", "get", "mark", "remove", "range", "waiting", "handle", "ended"}]
  /\ collects \in [Consumers -> BOOLEAN]
  /\ of \in [Consumers -> Streamers \cup {NoStreamer}] /\ hand \in [Consumers -> 0..MaxLines]
  /\ pump \in [Consumers -> {"none", "running", "leaving", "closed"}]
  /\ failed \in [Consumers -> BOOLEAN] /\ cancelled \in [Consumers -> BOOLEAN]
  /\ out \in [Consumers -> 0..MaxLines]
  /\ Len(pool) <= PoolSize
  /\ \A i, j \in DOMAIN pool : pool[i] = pool[j] => i = j

(* The lines of a run go to one handler only, however many requests ask    *)
(* for them at the same time: Consume's Get, mark and Remove are separate  *)
(* calls of the pool, and only the Remove decides.                         *)
ConsumedOnce ==
  \A s \in Streamers :
    Cardinality(Consuming(s) \cup {c \in Consumers : of[c] = s /\ hand[c] # 0}) <= 1

(* What a handler takes lines from is not closed under it, neither by its  *)
(* own removal from the pool nor by an eviction or an expiration that      *)
(* comes between the steps of Consume: its reader would stop at the next   *)
(* line and the client would see the run end.                              *)
InUseIsOpen == \A s \in Streamers : Consuming(s) # {} => ~closed[s]
PoolOK == TypeOK /\ InUseIsOpen

(* A run's reader, every request for its lines and every websocket opened  *)
(* for one come to an end, whether the client closes, the connection       *)
(* fails, the streamer is evicted or nobody ever asks for the lines.       *)
StreamingEnds == <>[]
  /\ \A s \in Streamers : reader[s] \in {"none", "done"}
  /\ \A c \in Consumers : con[c] \in {"idle", "ended"} /\ pump[c] \in {"none", "closed"}

(* Not so: a client that asks for all the lines of a run gets them (the    *)
(* lines that come while its handler is not waiting are dropped).          *)
SyncGetsAll ==
  \A c \in Consumers : collects[c] /\ con[c] = "ended" => out[c] = line[of[c]]

(* Not so: a streamer that left the pool and that nobody consumes has been *)
(* closed (it may expire between a request's mark and its Remove).         *)
LeftAreClosed ==
  \A s \in Streamers :
    /\ reader[s] # "none" /\ ~InPool(s)
    /\ \A c \in Consumers : of[c] = s => con[c] = "ended" /\ ~collects[c]
    => closed[s]
=============================================================================
