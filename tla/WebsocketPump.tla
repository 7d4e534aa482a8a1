--------------------------- MODULE WebsocketPump ----------------------------
(***************************************************************************)
(* The pump between a log stream and a client's websocket                  *)
(* (engine/streaming/websocket_pump.go): a goroutine that takes messages   *)
(* from an unbuffered channel and writes them, until the connection fails  *)
(* or it is cancelled, by the client's close frame or by its owner.  It    *)
(* then closes the channel and says so in the flag that PumpMessage reads. *)
(* Pings are a failing write that may come any time.                       *)
(***************************************************************************)
EXTENDS Naturals

CONSTANT Consumers   \* the handlers that stream to a client

VARIABLES
  pump,   \* per handler: its pump, "none", "running", "leaving" its loop, "closed"
  failed, \* does the pump hold a connection error?
  cancelled, \* has its context been cancelled?
  out     \* how many lines the client has been sent

pumpVars == <<pump, failed, cancelled, out>>

InitPumps ==
  /\ pump = [c \in Consumers |-> "none"]
  /\ failed = [c \in Consumers |-> FALSE] /\ cancelled = [c \in Consumers |-> FALSE]
  /\ out = [c \in Consumers |-> 0]

Sent(c) == out' = [out EXCEPT ![c] = @ + 1]

NewPump(c) ==
  /\ pump' = [pump EXCEPT ![c] = "running"]
  /\ UNCHANGED <<failed, cancelled, out>>

(* Close, by the handler's defer; the client's close frame does the same.  *)
Cancel(c) == cancelled' = [cancelled EXCEPT ![c] = TRUE]

ClientCloses(c) ==
  /\ pump[c] = "running" /\ ~cancelled[c]
  /\ Cancel(c)
  /\ UNCHANGED <<pump, failed, out>>

(* A write or a ping fails: the loop ends with a connection error.         *)
ConnectionLost(c) ==
  /\ pump[c] = "running"
  /\ pump' = [pump EXCEPT ![c] = "leaving"]
  /\ failed' = [failed EXCEPT ![c] = TRUE]
  /\ UNCHANGED <<cancelled, out>>

PumpStops(c) ==
  /\ pump[c] = "running" /\ cancelled[c]
  /\ pump' = [pump EXCEPT ![c] = "leaving"]
  /\ UNCHANGED <<failed, cancelled, out>>

(* The deferred function closes the channels and sets the flag.            *)
PumpCloses(c) ==
  /\ pump[c] = "leaving"
  /\ pump' = [pump EXCEPT ![c] = "closed"]
  /\ UNCHANGED <<failed, cancelled, out>>

(* PumpMessage returns without an error: the loop has taken the message,   *)
(* and writes it or fails to; or the pump was closed without an error, and *)
(* the message goes nowhere.                                               *)
Pumped(c) ==
  \/ pump[c] = "running" /\ Sent(c) /\ UNCHANGED <<pump, failed, cancelled>>
  \/ ConnectionLost(c)
  \/ pump[c] = "closed" /\ ~failed[c] /\ UNCHANGED pumpVars

(* PumpMessage returns an error, or panics when it sends on the closed     *)
(* channel: its handler unwinds either way.  The flag is read without a    *)
(* lock, so that it may still look unset.                                  *)
PumpFails(c) == pump[c] = "closed"

PumpStep(c) == PumpStops(c) \/ PumpCloses(c)
=============================================================================
