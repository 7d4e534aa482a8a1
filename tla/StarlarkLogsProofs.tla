-------------------------- MODULE StarlarkLogsProofs --------------------------
(***************************************************************************)
(* Streams of Starlark output, for any number of runs, handlers, lines and *)
(* any size of the pool: the lines of a run go to one handler, and nothing *)
(* closes the streamer that a handler is reading from.                     *)
(***************************************************************************)
EXTENDS StarlarkLogs, FiniteSetTheorems, TLAPS

USE LogsAssumption DEF LogsAssumption

-----------------------------------------------------------------------------
(* Sequences without repetition: what the pool's calls do to the members.  *)
Holds(q, t)  == \E i \in DOMAIN q : q[i] = t
Distinct(q)  == \A i, j \in DOMAIN q : q[i] = q[j] => i = j

LEMMA Appended ==
  ASSUME NEW S, NEW q \in Seq(S), NEW u \in S, Distinct(q), ~Holds(q, u)
  PROVE  /\ Append(q, u) \in Seq(S) /\ Distinct(Append(q, u)) /\ Len(Append(q, u)) = Len(q) + 1
         /\ \A t : Holds(Append(q, u), t) <=> t = u \/ Holds(q, t)
<1> DEFINE a == Append(q, u)
<1>1. /\ a \in Seq(S) /\ Len(q) \in Nat /\ DOMAIN q = 1..Len(q) /\ DOMAIN a = 1..(Len(q) + 1)
      /\ Len(a) = Len(q) + 1 /\ a[Len(q) + 1] = u /\ \A i \in 1..Len(q) : a[i] = q[i]
  OBVIOUS
<1> HIDE DEF a
<1>2. Distinct(a)
  BY <1>1 DEF Distinct, Holds
<1>3. ASSUME NEW t PROVE Holds(a, t) <=> t = u \/ Holds(q, t)
  <2>1. Len(q) + 1 \in DOMAIN a /\ \A i \in DOMAIN q : i \in DOMAIN a
    BY <1>1
  <2> QED
    BY <1>1, <2>1 DEF Holds
<1> QED
  BY <1>1, <1>2, <1>3 DEF a

LEMMA Shortened ==
  ASSUME NEW S, NEW q \in Seq(S), q # <<>>, Distinct(q)
  PROVE  /\ Tail(q) \in Seq(S) /\ Distinct(Tail(q)) /\ Len(Tail(q)) = Len(q) - 1
         /\ q[1] \in S /\ Holds(q, q[1])
         /\ \A t : Holds(Tail(q), t) <=> Holds(q, t) /\ t # q[1]
<1> DEFINE a == Tail(q)
<1>1. /\ a \in Seq(S) /\ Len(q) \in Nat \ {0} /\ DOMAIN q = 1..Len(q) /\ DOMAIN a = 1..(Len(q) - 1)
      /\ Len(a) = Len(q) - 1 /\ \A i \in 1..(Len(q) - 1) : a[i] = q[i + 1]
  OBVIOUS
<1> HIDE DEF a
<1>2. Distinct(a)
  BY <1>1 DEF Distinct
<1>3. q[1] \in S /\ 1 \in DOMAIN q
  BY <1>1
<1>4. ASSUME NEW t PROVE Holds(a, t) <=> Holds(q, t) /\ t # q[1]
  <2>1. ASSUME NEW i \in DOMAIN a, a[i] = t PROVE Holds(q, t) /\ t # q[1]
    <3>1. i + 1 \in DOMAIN q /\ q[i + 1] = t /\ i + 1 # 1
      BY <1>1, <2>1
    <3> QED
      BY <1>3, <3>1 DEF Holds, Distinct
  <2>2. ASSUME NEW i \in DOMAIN q, q[i] = t, t # q[1] PROVE Holds(a, t)
    <3>1. i - 1 \in DOMAIN a /\ a[i - 1] = q[(i - 1) + 1] /\ (i - 1) + 1 = i
      BY <1>1, <2>2
    <3> QED
      BY <2>2, <3>1 DEF Holds
  <2> QED
    BY <2>1, <2>2 DEF Holds
<1> QED
  BY <1>1, <1>2, <1>3, <1>4 DEF a, Holds

RemovedFrom(q, p) == SubSeq(q, 1, p - 1) \o SubSeq(q, p + 1, Len(q))

LEMMA RemovedIs ==
  ASSUME NEW S, NEW q \in Seq(S), NEW p \in DOMAIN q
  PROVE  /\ RemovedFrom(q, p) \in Seq(S) /\ Len(RemovedFrom(q, p)) = Len(q) - 1
         /\ \A i \in 1..(Len(q) - 1) : RemovedFrom(q, p)[i] = IF i < p THEN q[i] ELSE q[i + 1]
<1> DEFINE a == SubSeq(q, 1, p - 1)  b == SubSeq(q, p + 1, Len(q))
<1>1. Len(q) \in Nat /\ p \in 1..Len(q)
  OBVIOUS
<1>2. a \in Seq(S) /\ Len(a) = p - 1 /\ \A i \in 1..(p - 1) : a[i] = q[i]
  BY <1>1
<1>3. b \in Seq(S) /\ Len(b) = Len(q) - p /\ \A i \in 1..(Len(q) - p) : b[i] = q[p + i]
  BY <1>1
<1>4. RemovedFrom(q, p) = a \o b
  BY DEF RemovedFrom
<1> HIDE DEF a, b
<1>5. /\ a \o b \in Seq(S) /\ Len(a \o b) = Len(a) + Len(b)
      /\ \A i \in 1..(Len(a) + Len(b)) : (a \o b)[i] = IF i <= Len(a) THEN a[i] ELSE b[i - Len(a)]
  <2>1. a \in Seq(S) /\ b \in Seq(S)
    BY <1>2, <1>3
  <2> QED
    BY <2>1
<1>6. Len(a) + Len(b) = Len(q) - 1 /\ Len(a) = p - 1
  BY <1>1, <1>2, <1>3
<1>7. ASSUME NEW i \in 1..(Len(q) - 1) PROVE (a \o b)[i] = IF i < p THEN q[i] ELSE q[i + 1]
  <2>1. CASE i < p
    BY <1>1, <1>2, <1>5, <1>6, <2>1
  <2>2. CASE ~(i < p)
    <3>1. i - (p - 1) \in 1..(Len(q) - p) /\ p + (i - (p - 1)) = i + 1
      BY <1>1, <2>2
    <3>2. i \in 1..(Len(a) + Len(b)) /\ ~(i <= Len(a)) /\ i - Len(a) = i - (p - 1)
      BY <1>1, <1>6, <2>2
    <3>3. (a \o b)[i] = b[i - (p - 1)]
      BY <1>5, <3>2
    <3> QED
      BY <1>3, <2>2, <3>1, <3>3
  <2> QED
    BY <2>1, <2>2
<1> QED
  BY <1>4, <1>5, <1>6, <1>7

LEMMA Removed ==
  ASSUME NEW S, NEW q \in Seq(S), Distinct(q), NEW p \in DOMAIN q
  PROVE  LET a == RemovedFrom(q, p) IN
           /\ a \in Seq(S) /\ Distinct(a) /\ Len(a) = Len(q) - 1
           /\ \A t : Holds(a, t) <=> Holds(q, t) /\ t # q[p]
<1> DEFINE a == RemovedFrom(q, p)
<1>1. Len(q) \in Nat /\ p \in 1..Len(q) /\ DOMAIN q = 1..Len(q)
  OBVIOUS
<1>2. /\ a \in Seq(S) /\ Len(a) = Len(q) - 1 /\ DOMAIN a = 1..(Len(q) - 1)
      /\ \A i \in 1..(Len(q) - 1) : a[i] = IF i < p THEN q[i] ELSE q[i + 1]
  <2>1. /\ a \in Seq(S) /\ Len(a) = Len(q) - 1
        /\ \A i \in 1..(Len(q) - 1) : a[i] = IF i < p THEN q[i] ELSE q[i + 1]
    BY RemovedIs
  <2> HIDE DEF a
  <2> QED
    BY <1>1, <2>1
<1> HIDE DEF a
<1>3. Distinct(a)
  <2> SUFFICES ASSUME NEW i \in DOMAIN a, NEW j \in DOMAIN a, a[i] = a[j] PROVE i = j
    BY DEF Distinct
  <2> DEFINE x == IF i < p THEN i ELSE i + 1  y == IF j < p THEN j ELSE j + 1
  <2>1. x \in DOMAIN q /\ y \in DOMAIN q /\ q[x] = q[y]
    BY <1>1, <1>2
  <2> QED
    BY <1>1, <1>2, <2>1 DEF Distinct
<1>4. ASSUME NEW t PROVE Holds(a, t) <=> Holds(q, t) /\ t # q[p]
  <2>1. ASSUME NEW i \in DOMAIN a, a[i] = t PROVE Holds(q, t) /\ t # q[p]
    <3> DEFINE x == IF i < p THEN i ELSE i + 1
    <3>1. x \in DOMAIN q /\ q[x] = t /\ x # p
      BY <1>1, <1>2, <2>1
    <3> QED
      BY <3>1 DEF Holds, Distinct
  <2>2. ASSUME NEW i \in DOMAIN q, q[i] = t, t # q[p] PROVE Holds(a, t)
    <3> DEFINE x == IF i < p THEN i ELSE i - 1
    <3>0. i # p /\ i \in Int
      BY <1>1, <2>2
    <3>1. x \in DOMAIN a /\ a[x] = t
      BY <1>1, <1>2, <2>2, <3>0
    <3> QED
      BY <3>1 DEF Holds
  <2> QED
    BY <2>1, <2>2 DEF Holds
<1> QED
  BY <1>2, <1>3, <1>4 DEF a

-----------------------------------------------------------------------------
(* The inductive invariant.  Who reads s or has read from it.              *)
Reads(c, s) == of[c] = s /\ con[c] \in {"range", "waiting", "handle"}
Uses(c, s)  == Reads(c, s) \/ (of[c] = s /\ hand[c] # 0)

Typed ==
  /\ reader \in [Streamers -> {"none", "recv", "select", "done"}]
  /\ line \in [Streamers -> 0..MaxLines]
  /\ closed \in [Streamers -> BOOLEAN] /\ marked \in [Streamers -> BOOLEAN]
  /\ con \in [Consumers -> {"idle", "get", "mark", "remove", "range", "waiting", "handle", "ended"}]
  /\ collects \in [Consumers -> BOOLEAN]
  /\ of \in [Consumers -> Streamers \cup {NoStreamer}] /\ hand \in [Consumers -> 0..MaxLines]
  /\ pump \in [Consumers -> {"none", "running", "leaving", "closed"}]
  /\ failed \in [Consumers -> BOOLEAN] /\ cancelled \in [Consumers -> BOOLEAN]
  /\ out \in [Consumers -> 0..MaxLines]

PoolTyped == pool \in Seq(Streamers) /\ Distinct(pool) /\ Len(pool) <= PoolSize

(* A handler that has begun is about a run that has; nobody is given more  *)
(* lines than the run's reader has received, nor passes on more than it    *)
(* was given.                                                              *)
HandlerInv(c) ==
  /\ con[c] = "idle" => hand[c] = 0
  /\ con[c] # "idle" => /\ of[c] \in Streamers /\ reader[of[c]] # "none"
                        /\ hand[c] <= line[of[c]]
                        /\ reader[of[c]] = "select" => hand[c] < line[of[c]]
  /\ con[c] = "remove" => marked[of[c]]
  /\ out[c] <= hand[c] /\ (con[c] = "handle" => out[c] < hand[c])

(* A streamer in the pool, like one that does not exist yet, is open and   *)
(* nobody's; one that left it has at most one handler, and is open as long *)
(* as that one reads it.                                                   *)
StreamerInv(s) ==
  /\ InPool(s) \/ reader[s] = "none" => ~closed[s] /\ \A c \in Consumers : ~Uses(c, s)
  /\ InPool(s) => reader[s] # "none"
  /\ reader[s] = "select" => line[s] > 0
  /\ \A c, d \in Consumers : Uses(c, s) /\ Uses(d, s) => c = d
  /\ \A c \in Consumers : Reads(c, s) => ~closed[s]

Inv ==
  /\ Typed /\ PoolTyped
  /\ \A c \in Consumers : HandlerInv(c)
  /\ \A s \in Streamers : StreamerInv(s)

LEMMA InPoolIs == \A s : InPool(s) <=> Holds(pool, s)
  BY DEF InPool, Holds

LEMMA TakenOut ==
  ASSUME PoolTyped, NEW s \in Streamers, InPool(s)
  PROVE  /\ Without(s) \in Seq(Streamers) /\ Distinct(Without(s)) /\ Len(Without(s)) = Len(pool) - 1
         /\ Len(pool) \in Nat
         /\ \A t : Holds(Without(s), t) <=> InPool(t) /\ t # s
<1> DEFINE i == CHOOSE j \in DOMAIN pool : pool[j] = s
<1>1. i \in DOMAIN pool /\ pool[i] = s
  BY DEF InPool
<1>2. Without(s) = RemovedFrom(pool, i)
  BY DEF Without, RemovedFrom
<1> HIDE DEF i
<1>3. pool \in Seq(Streamers) /\ Distinct(pool)
  BY DEF PoolTyped
<1>4. Len(pool) \in Nat
  BY <1>3
<1> QED
  BY <1>1, <1>2, <1>3, <1>4, Removed, InPoolIs

LEMMA WithoutIt ==
  ASSUME PoolTyped, NEW s \in Streamers, InPool(s), pool' = Without(s)
  PROVE  PoolTyped' /\ \A t : InPool(t)' <=> InPool(t) /\ t # s
<1> DEFINE q == Without(s)
<1>1. /\ q \in Seq(Streamers) /\ Distinct(q) /\ Len(q) = Len(pool) - 1
      /\ Len(pool) \in Nat /\ \A t : Holds(q, t) <=> InPool(t) /\ t # s
  BY TakenOut
<1> HIDE DEF q
<1>2. Len(pool) <= PoolSize
  BY DEF PoolTyped
<1>3. PoolTyped'
  BY <1>1, <1>2 DEF PoolTyped, q
<1>4. \A t : InPool(t)' <=> Holds(pool', t)
  BY DEF InPool, Holds
<1> QED
  BY <1>1, <1>3, <1>4 DEF q

LEMMA Start == Init => Inv
<1> SUFFICES ASSUME Init PROVE Inv
  OBVIOUS
<1> USE DEF Init, InitPumps
<1>1. Typed
  BY DEF Typed
<1>2. PoolTyped
  BY DEF PoolTyped, Distinct
<1>3. \A s : ~InPool(s)
  BY DEF InPool
<1>4. \A c \in Consumers : HandlerInv(c)
  <2> SUFFICES ASSUME NEW c \in Consumers PROVE HandlerInv(c)
    OBVIOUS
  <2>1. con[c] = "idle" /\ hand[c] = 0 /\ out[c] = 0
    OBVIOUS
  <2> HIDE DEF Init
  <2> QED
    BY <2>1 DEF HandlerInv
<1>5. \A s \in Streamers : StreamerInv(s)
  BY <1>3 DEF StreamerInv, Uses, Reads
<1> QED
  BY <1>1, <1>2, <1>4, <1>5 DEF Inv

(* What the invariant says of a streamer depends on its handlers, on its   *)
(* place and on its context; of a handler, on what it is doing.            *)
LEMMA PoolStays == ASSUME pool' = pool PROVE \A s : InPool(s)' <=> InPool(s)
  BY DEF InPool

LEMMA RunAsyncKeeps == ASSUME Inv, NEW s \in Streamers, RunAsync(s) PROVE Inv'
<1> USE DEF Inv, RunAsync, conVars, pumpVars
<1>1. pool \in Seq(Streamers) /\ Distinct(pool) /\ ~Holds(pool, s) /\ Len(pool) \in Nat
  BY InPoolIs DEF PoolTyped, StreamerInv
<1>2. /\ PoolTyped' /\ InPool(s)' /\ \A t : InPool(t)' => InPool(t) \/ t = s
      /\ closed' \in [Streamers -> BOOLEAN]
      /\ \A t \in Streamers : closed'[t] # closed[t] => InPool(t) /\ ~InPool(t)'
  <2>1. CASE Len(pool) < PoolSize
    <3>1. pool' = Append(pool, s) /\ closed' = closed
      BY <2>1
    <3>2. \A t : Holds(pool', t) <=> t = s \/ Holds(pool, t)
      BY <1>1, <3>1, Appended
    <3>3. Distinct(pool') /\ pool' \in Seq(Streamers) /\ Len(pool') <= PoolSize
      BY <1>1, <2>1, <3>1, Appended
    <3> QED
      BY <3>1, <3>2, <3>3 DEF PoolTyped, Typed, InPool, Holds
  <2>2. CASE ~(Len(pool) < PoolSize)
    <3>0. pool # <<>> /\ Len(pool) = PoolSize
      BY <1>1, <2>2 DEF PoolTyped
    <3>1. pool' = Append(Tail(pool), s) /\ closed' = [closed EXCEPT ![pool[1]] = @ \/ ~marked[pool[1]]]
      BY <2>2 DEF Evicted
    <3>2. /\ Tail(pool) \in Seq(Streamers) /\ Distinct(Tail(pool)) /\ Len(Tail(pool)) = PoolSize - 1
          /\ pool[1] \in Streamers /\ Holds(pool, pool[1])
          /\ \A t : Holds(Tail(pool), t) <=> Holds(pool, t) /\ t # pool[1]
      BY <1>1, <3>0, Shortened
    <3>3. /\ Distinct(pool') /\ pool' \in Seq(Streamers) /\ Len(pool') <= PoolSize
          /\ \A t : Holds(pool', t) <=> t = s \/ Holds(Tail(pool), t)
      <4> DEFINE q == Tail(pool)
      <4>1. q \in Seq(Streamers) /\ Distinct(q) /\ Len(q) = PoolSize - 1 /\ ~Holds(q, s) /\ pool' = Append(q, s)
        BY <1>1, <3>1, <3>2
      <4> HIDE DEF q
      <4>2. /\ Append(q, s) \in Seq(Streamers) /\ Distinct(Append(q, s)) /\ Len(Append(q, s)) = Len(q) + 1
            /\ \A t : Holds(Append(q, s), t) <=> t = s \/ Holds(q, t)
        BY <4>1, Appended
      <4> QED
        BY <4>1, <4>2 DEF q
    <3>4. \A t : InPool(t)' <=> Holds(pool', t)
      BY DEF InPool, Holds
    <3>5. closed' \in [Streamers -> BOOLEAN] /\ \A t \in Streamers : closed'[t] # closed[t] => t = pool[1]
      BY <3>1, <3>2 DEF Typed
    <3> QED
      BY <1>1, <3>2, <3>3, <3>4, <3>5, InPoolIs DEF PoolTyped
  <2> QED
    BY <2>1, <2>2
<1>3. Typed'
  BY <1>2 DEF Typed
<1>4. \A c \in Consumers : HandlerInv(c)'
  BY DEF HandlerInv, Typed
<1>5. \A t \in Streamers : StreamerInv(t)'
  <2> SUFFICES ASSUME NEW t \in Streamers PROVE StreamerInv(t)'
    OBVIOUS
  <2>1. \A c \in Consumers : (Uses(c, t)' <=> Uses(c, t)) /\ (Reads(c, t)' <=> Reads(c, t))
    BY DEF Uses, Reads
  <2>2. reader'[t] = "none" => reader[t] = "none"
    BY DEF Typed
  <2>3. reader'[s] = "recv" /\ reader[s] = "none"
    BY DEF Typed
  <2> QED
    BY <1>2, <2>1, <2>2, <2>3 DEF StreamerInv, Uses
<1> QED
  BY <1>2, <1>3, <1>4, <1>5

LEMMA ExpiresKeeps == ASSUME Inv, NEW s \in Streamers, Expires(s) PROVE Inv'
<1> USE DEF Inv, Expires, conVars, pumpVars
<1>1. PoolTyped' /\ \A t : InPool(t)' <=> InPool(t) /\ t # s
  BY WithoutIt
<1>2. Typed' /\ \A t \in Streamers \ {s} : closed'[t] = closed[t]
  BY DEF Typed, Evicted
<1>3. \A c \in Consumers : HandlerInv(c)'
  BY DEF HandlerInv, Typed
<1>4. \A t \in Streamers : StreamerInv(t)'
  BY <1>1, <1>2 DEF StreamerInv, Uses, Reads, Typed
<1> QED
  BY <1>1, <1>2, <1>3, <1>4

LEMMA RunSyncKeeps ==
  ASSUME Inv, NEW s \in Streamers, NEW c \in Consumers, RunSync(s, c) PROVE Inv'
<1> USE DEF Inv, RunSync, GoesTo, pumpVars
<1>1. PoolTyped' /\ \A t : InPool(t)' <=> InPool(t)
  BY PoolStays DEF PoolTyped
<1>2. Typed'
  BY DEF Typed
<1>3. \A d \in Consumers : HandlerInv(d)'
  BY DEF HandlerInv, Typed
<1>4. \A t \in Streamers : StreamerInv(t)'
  BY <1>1 DEF StreamerInv, Uses, Reads, Typed, HandlerInv
<1> QED
  BY <1>1, <1>2, <1>3, <1>4

LEMMA ReaderKeeps == ASSUME Inv, NEW s \in Streamers, ReaderStep(s) PROVE Inv'
<1> USE DEF Inv, pumpVars, conVars
<1>1. PoolTyped' /\ \A t : InPool(t)' <=> InPool(t)
  BY PoolStays DEF PoolTyped, ReaderStep, Receive, StreamEnds, ReaderIsClosed, Deliver, Drop
<1>2. CASE Receive(s) \/ StreamEnds(s) \/ ReaderIsClosed(s) \/ Drop(s)
  <2> USE DEF Receive, StreamEnds, ReaderIsClosed, Drop
  <2>1. Typed'
    BY <1>2 DEF Typed
  <2>2. \A d \in Consumers : HandlerInv(d)'
    BY <1>2 DEF HandlerInv, Typed
  <2>3. \A t \in Streamers : StreamerInv(t)'
    BY <1>1, <1>2 DEF StreamerInv, Uses, Reads, Typed
  <2> QED
    BY <1>1, <2>1, <2>2, <2>3
<1>3. CASE Deliver(s)
  <2>1. PICK c \in Consumers : /\ of[c] = s /\ con[c] = "waiting" /\ reader[s] = "select"
                               /\ hand' = [hand EXCEPT ![c] = @ + 1]
                               /\ con' = [con EXCEPT ![c] = "handle"]
                               /\ reader' = [reader EXCEPT ![s] = "recv"]
                               /\ UNCHANGED <<line, closed, marked, pool, of, collects, pumpVars>>
    BY <1>3 DEF Deliver, Waiting, GoesTo
  <2>2. hand[c] < line[s] /\ line[s] \in 0..MaxLines /\ hand[c] \in Nat
    BY <2>1 DEF HandlerInv, Typed
  <2>3. Typed'
    BY <2>1, <2>2 DEF Typed
  <2>4. \A d \in Consumers : HandlerInv(d)'
    BY <2>1, <2>2 DEF HandlerInv, Typed
  <2>5. \A t \in Streamers : StreamerInv(t)'
    BY <1>1, <2>1, <2>2 DEF StreamerInv, Uses, Reads, Typed
  <2> QED
    BY <1>1, <2>3, <2>4, <2>5
<1> QED
  BY <1>2, <1>3 DEF ReaderStep

(* A handler's steps.  It is about one streamer, of[c]; no other handler   *)
(* and no other streamer is concerned.                                     *)
LEMMA RequestLogsKeeps ==
  ASSUME Inv, NEW s \in Streamers, NEW c \in Consumers, RequestLogs(c, s) PROVE Inv'
<1> USE DEF Inv, RequestLogs, GoesTo, streamVars
<1>1. PoolTyped' /\ \A t : InPool(t)' <=> InPool(t)
  BY PoolStays DEF PoolTyped
<1>2. /\ con[c] = "idle" /\ con' = [con EXCEPT ![c] = con'[c]] /\ con'[c] \in {"get", "ended"}
      /\ of' = [of EXCEPT ![c] = s] /\ out' = out /\ failed' = failed /\ cancelled' = cancelled
      /\ pump' \in [Consumers -> {"none", "running", "leaving", "closed"}]
  BY DEF NewPump, pumpVars, Typed
<1>3. Typed'
  BY <1>2 DEF Typed
<1>4. \A d \in Consumers : HandlerInv(d)'
  <2> SUFFICES ASSUME NEW d \in Consumers PROVE HandlerInv(d)'
    OBVIOUS
  <2>1. CASE d # c
    BY <1>2, <2>1 DEF HandlerInv, Typed
  <2>2. CASE d = c
    <3>1. of'[c] = s /\ con'[c] \in {"get", "ended"} /\ hand'[c] = 0 /\ out'[c] = out[c] /\ out[c] <= 0
      BY <1>2 DEF HandlerInv, Typed
    <3>2. reader'[s] # "none" /\ line'[s] \in Nat /\ (reader'[s] = "select" => line'[s] > 0)
      BY DEF StreamerInv, Typed
    <3> QED
      BY <2>2, <3>1, <3>2 DEF HandlerInv
  <2> QED
    BY <2>1, <2>2
<1>5. \A t \in Streamers : StreamerInv(t)'
  BY <1>1, <1>2 DEF StreamerInv, Uses, Reads, Typed, HandlerInv
<1> QED
  BY <1>1, <1>3, <1>4, <1>5

LEMMA GetKeeps == ASSUME Inv, NEW c \in Consumers, Get(c) PROVE Inv'
<1> USE DEF Inv, streamVars
<1> DEFINE s == of[c]
<1>0. con[c] = "get" /\ s \in Streamers /\ hand' = hand /\ of' = of /\ collects' = collects
      /\ UNCHANGED <<reader, line, closed, marked>>
  BY DEF Get, HandlerInv, Typed
<1>1. PoolTyped' /\ \A t : InPool(t)' <=> InPool(t)
  <2>1. CASE ~InPool(s)
    BY <1>0, <2>1, PoolStays DEF PoolTyped, Get
  <2>2. CASE InPool(s)
    <3> DEFINE q == Without(s)
    <3>1. /\ q \in Seq(Streamers) /\ Distinct(q) /\ Len(q) = Len(pool) - 1
          /\ Len(pool) \in Nat /\ \A t : Holds(q, t) <=> InPool(t) /\ t # s
      BY <1>0, <2>2, TakenOut
    <3>2. pool' = Append(q, s)
      BY <2>2 DEF Get
    <3> HIDE DEF q
    <3>3. ~Holds(q, s)
      BY <3>1
    <3>4. /\ Append(q, s) \in Seq(Streamers) /\ Distinct(Append(q, s)) /\ Len(Append(q, s)) = Len(q) + 1
          /\ \A t : Holds(Append(q, s), t) <=> t = s \/ Holds(q, t)
      BY <1>0, <3>1, <3>3, Appended
    <3>5. \A t : InPool(t)' <=> Holds(pool', t)
      BY DEF InPool, Holds
    <3> QED
      BY <2>2, <3>1, <3>2, <3>4, <3>5 DEF PoolTyped
  <2> QED
    BY <2>1, <2>2
<1>2. /\ con' = [con EXCEPT ![c] = con'[c]] /\ con'[c] \in {"mark", "ended"} /\ out' = out
      /\ cancelled' \in [Consumers -> BOOLEAN] /\ pump' = pump /\ failed' = failed
  BY DEF Get, Ends, GoesTo, Cancel, pumpVars, Typed
<1>3. Typed'
  BY <1>0, <1>2 DEF Typed
<1>4. \A d \in Consumers : HandlerInv(d)'
  BY <1>0, <1>2 DEF HandlerInv, Typed
<1>5. \A t \in Streamers : StreamerInv(t)'
  BY <1>0, <1>1, <1>2 DEF StreamerInv, Uses, Reads, Typed
<1> QED
  BY <1>1, <1>3, <1>4, <1>5

LEMMA MarkKeeps == ASSUME Inv, NEW c \in Consumers, Mark(c) PROVE Inv'
<1> USE DEF Inv, Mark, GoesTo, pumpVars
<1>1. PoolTyped' /\ \A t : InPool(t)' <=> InPool(t)
  BY PoolStays DEF PoolTyped
<1>2. Typed'
  BY DEF Typed
<1>3. \A d \in Consumers : HandlerInv(d)'
  BY DEF HandlerInv, Typed
<1>4. \A t \in Streamers : StreamerInv(t)'
  BY <1>1 DEF StreamerInv, Uses, Reads, Typed
<1> QED
  BY <1>1, <1>2, <1>3, <1>4

(* Who takes the streamer out of the pool is its only handler, and, having *)
(* marked it, takes it out open.                                           *)
LEMMA RemoveKeeps == ASSUME Inv, NEW c \in Consumers, Remove(c) PROVE Inv'
<1> USE DEF Inv
<1> DEFINE s == of[c]
<1>0. /\ con[c] = "remove" /\ s \in Streamers /\ marked[s]
      /\ UNCHANGED <<reader, line, marked, of, collects, hand>>
  BY DEF Remove, HandlerInv, Typed
<1>1. CASE InPool(s)
  <2>1. con' = [con EXCEPT ![c] = "range"] /\ UNCHANGED <<pump, failed, cancelled, out>>
    BY <1>1 DEF Remove, GoesTo, pumpVars
  <2>2. PoolTyped' /\ \A t : InPool(t)' <=> InPool(t) /\ t # s
    BY <1>0, <1>1, WithoutIt DEF Remove
  <2>3. closed' = closed
    BY <1>0, <1>1 DEF Remove, Evicted, Typed
  <2>4. Typed'
    BY <1>0, <2>1, <2>3 DEF Typed
  <2>5. \A d \in Consumers : HandlerInv(d)'
    BY <1>0, <2>1 DEF HandlerInv, Typed
  <2>6. \A t \in Streamers : StreamerInv(t)'
    <3> SUFFICES ASSUME NEW t \in Streamers PROVE StreamerInv(t)'
      OBVIOUS
    <3>1. ~closed[s] /\ reader[s] # "none" /\ \A d \in Consumers : ~Uses(d, s)
      BY <1>0, <1>1 DEF StreamerInv
    <3>2. \A d \in Consumers : d # c => (Uses(d, t)' <=> Uses(d, t)) /\ (Reads(d, t)' <=> Reads(d, t))
      BY <1>0, <2>1 DEF Uses, Reads, Typed
    <3>3. t # s => (Uses(c, t)' <=> Uses(c, t)) /\ (Reads(c, t)' <=> Reads(c, t))
      BY <1>0, <2>1 DEF Uses, Reads, Typed
    <3> QED
      BY <1>0, <2>2, <2>3, <3>1, <3>2, <3>3 DEF StreamerInv, Uses
  <2> QED
    BY <2>2, <2>4, <2>5, <2>6
<1>2. CASE ~InPool(s)
  <2>1. /\ con' = [con EXCEPT ![c] = "ended"] /\ UNCHANGED <<pump, failed, out, pool, closed>>
        /\ cancelled' \in [Consumers -> BOOLEAN]
    BY <1>2 DEF Remove, Ends, GoesTo, Cancel, Typed
  <2>2. PoolTyped' /\ \A t : InPool(t)' <=> InPool(t)
    BY <2>1, PoolStays DEF PoolTyped
  <2>3. Typed'
    BY <1>0, <2>1 DEF Typed
  <2>4. \A d \in Consumers : HandlerInv(d)'
    BY <1>0, <2>1 DEF HandlerInv, Typed
  <2>5. \A t \in Streamers : StreamerInv(t)'
    BY <1>0, <2>1, <2>2 DEF StreamerInv, Uses, Reads, Typed
  <2> QED
    BY <2>2, <2>3, <2>4, <2>5
<1> QED
  BY <1>1, <1>2

(* What closes a streamer that has left the pool is its only handler, when *)
(* it is through.                                                          *)
LEMMA EndKeeps ==
  ASSUME Inv, NEW c \in Consumers, con[c] \in {"waiting", "handle"}, ConsumeEnds(c),
         UNCHANGED <<reader, line, marked, pool, of, collects, hand>>
  PROVE  Inv'
<1> USE DEF Inv
<1> DEFINE s == of[c]
<1>0. /\ con' = [con EXCEPT ![c] = "ended"] /\ UNCHANGED <<pump, failed, out>>
      /\ cancelled' \in [Consumers -> BOOLEAN] /\ s \in Streamers /\ Reads(c, s)
      /\ closed' \in [Streamers -> BOOLEAN] /\ \A t \in Streamers \ {s} : closed'[t] = closed[t]
  BY DEF ConsumeEnds, Ends, GoesTo, Cancel, Typed, HandlerInv, Reads
<1>1. PoolTyped' /\ \A t : InPool(t)' <=> InPool(t)
  BY PoolStays DEF PoolTyped
<1>2. Typed'
  BY <1>0 DEF Typed
<1>3. \A d \in Consumers : HandlerInv(d)'
  BY <1>0 DEF HandlerInv, Typed
<1>4. \A t \in Streamers : StreamerInv(t)'
  <2> SUFFICES ASSUME NEW t \in Streamers PROVE StreamerInv(t)'
    OBVIOUS
  <2>1. /\ ~Reads(c, t)' /\ (Uses(c, t)' => Uses(c, t))
        /\ \A d \in Consumers \ {c} : (Uses(d, t)' <=> Uses(d, t)) /\ (Reads(d, t)' <=> Reads(d, t))
    BY <1>0 DEF Uses, Reads, Typed
  <2>2. ~InPool(s) /\ reader[s] # "none" /\ \A d \in Consumers : Reads(d, s) => d = c
    BY <1>0 DEF StreamerInv, Uses
  <2> QED
    BY <1>0, <1>1, <2>1, <2>2 DEF StreamerInv
<1> QED
  BY <1>1, <1>2, <1>3, <1>4

LEMMA LoopKeeps == ASSUME Inv, NEW c \in Consumers, Wait(c) \/ Handle(c) PROVE Inv'
<1> USE DEF Inv
<1>0. /\ UNCHANGED <<reader, line, closed, marked, pool, of, collects, hand>>
      /\ con[c] \in {"range", "handle"} /\ con' = [con EXCEPT ![c] = con'[c]]
      /\ con'[c] \in {"waiting", "range"}
      /\ pump' \in [Consumers -> {"none", "running", "leaving", "closed"}]
      /\ failed' \in [Consumers -> BOOLEAN] /\ cancelled' = cancelled
      /\ out' = out \/ (con[c] = "handle" /\ out' = [out EXCEPT ![c] = @ + 1])
  BY DEF Wait, Handle, GoesTo, pumpVars, streamVars, Pumped, Sent, ConnectionLost, Typed
<1>1. PoolTyped' /\ \A t : InPool(t)' <=> InPool(t)
  BY <1>0, PoolStays DEF PoolTyped
<1>2. /\ out' \in [Consumers -> 0..MaxLines]
      /\ \A d \in Consumers : out'[d] <= hand[d] /\ (con'[d] = "handle" => out'[d] < hand[d])
  <2>1. con[c] = "handle" => out[c] < hand[c] /\ hand[c] \in 0..MaxLines /\ out[c] \in Nat
    BY DEF HandlerInv, Typed
  <2> QED
    BY <1>0, <2>1 DEF HandlerInv, Typed
<1>3. Typed'
  <2>1. con' \in [Consumers -> {"idle", "get", "mark", "remove", "range", "waiting", "handle", "ended"}]
    BY <1>0 DEF Typed
  <2> QED
    BY <1>0, <1>2, <2>1 DEF Typed
<1>4. \A d \in Consumers : HandlerInv(d)'
  BY <1>0, <1>2 DEF HandlerInv, Typed
<1>5. \A t \in Streamers : StreamerInv(t)'
  BY <1>0, <1>1 DEF StreamerInv, Uses, Reads, Typed
<1> QED
  BY <1>1, <1>3, <1>4, <1>5

LEMMA PumpKeeps == ASSUME Inv, NEW c \in Consumers, PumpAlone(c) \/ ClientAlone(c) PROVE Inv'
<1> USE DEF Inv
<1>0. /\ UNCHANGED <<streamVars, pool, conVars, out>>
      /\ pump' \in [Consumers -> {"none", "running", "leaving", "closed"}]
      /\ failed' \in [Consumers -> BOOLEAN] /\ cancelled' \in [Consumers -> BOOLEAN]
  BY DEF PumpAlone, ClientAlone, PumpStep, PumpStops, PumpCloses, ClientCloses, ConnectionLost, Cancel, Typed
<1>1. PoolTyped' /\ \A t : InPool(t)' <=> InPool(t)
  BY <1>0, PoolStays DEF PoolTyped
<1>2. Typed'
  BY <1>0 DEF Typed, streamVars, conVars
<1>3. \A d \in Consumers : HandlerInv(d)'
  BY <1>0 DEF HandlerInv, streamVars, conVars
<1>4. \A t \in Streamers : StreamerInv(t)'
  BY <1>0, <1>1 DEF StreamerInv, Uses, Reads, streamVars, conVars
<1> QED
  BY <1>1, <1>2, <1>3, <1>4

LEMMA StepKeeps == Inv /\ [Next]_vars => Inv'
<1> SUFFICES ASSUME Inv, [Next]_vars PROVE Inv'
  OBVIOUS
<1>1. ASSUME NEW c \in Consumers, ChannelClosed(c) \/ HandleFails(c) PROVE Inv'
  BY <1>1, EndKeeps DEF ChannelClosed, HandleFails
<1>2. CASE UNCHANGED vars
  BY <1>2, PoolStays DEF vars, streamVars, conVars, pumpVars, Inv, Typed, PoolTyped, HandlerInv, StreamerInv,
     Uses, Reads
<1> QED
  BY <1>1, <1>2, RunAsyncKeeps, ExpiresKeeps, RunSyncKeeps, ReaderKeeps, RequestLogsKeeps, GetKeeps,
     MarkKeeps, RemoveKeeps, LoopKeeps, PumpKeeps DEF Next, HandlerStep

LEMMA InvAlways == Spec => []Inv
  BY Start, StepKeeps, PTL DEF Spec

-----------------------------------------------------------------------------
(* The types, and: neither an eviction, an expiration or another request   *)
(* between the steps of Consume, nor its own removal from the pool, closes *)
(* the streamer a handler reads from.                                      *)
THEOREM InUseStaysOpen == Spec => []PoolOK
<1>1. Inv => PoolOK
  BY DEF Inv, Typed, PoolTyped, Distinct, PoolOK, TypeOK, InUseIsOpen, Consuming, StreamerInv, Reads
<1> QED
  BY <1>1, InvAlways, PTL

(* The lines of a run go to one handler, however many requests ask for     *)
(* them at a time: only the one whose Remove finds the streamer goes on.   *)
THEOREM OneHandlerReads == Spec => []ConsumedOnce
<1>1. Inv => ConsumedOnce
  <2> SUFFICES ASSUME Inv, NEW s \in Streamers
               PROVE  Cardinality(Consuming(s) \cup {c \in Consumers : of[c] = s /\ hand[c] # 0}) <= 1
    BY DEF ConsumedOnce
  <2> DEFINE T == Consuming(s) \cup {c \in Consumers : of[c] = s /\ hand[c] # 0}
  <2>1. \A c, d \in T : c = d
    BY DEF Inv, StreamerInv, Uses, Reads, Consuming
  <2>2. T = {} \/ \E c : T = {c}
    BY <2>1
  <2> HIDE DEF T
  <2>3. Cardinality(T) \in {0, 1}
    BY <2>2, FS_EmptySet, FS_Singleton
  <2> QED
    BY <2>3 DEF T
<1> QED
  BY <1>1, InvAlways, PTL
=============================================================================
