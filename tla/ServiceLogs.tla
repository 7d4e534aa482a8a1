------------------------------ MODULE ServiceLogs ------------------------------
(***************************************************************************)
(* The logs of an enclave's services on the engine's volume: one file per  *)
(* service and week, written by the logs aggregator, created and removed   *)
(* by the two goroutines of the log file manager and by DestroyEnclave     *)
(* (log_file_manager.go, per_week_file_layout.go); and one request for     *)
(* them: a goroutine per service that reads the files and then follows the *)
(* last one, the sender they share, the goroutine that waits for them, and *)
(* the handler (per_week_stream_logs_strategy.go, logline_sender.go,       *)
(* persistent_volume_logs_database_client.go, the RPC and REST handlers).  *)
(* Lines are numbered by service; a line is written at once, passes the    *)
(* filters of the request, and has the week of its file.  The symbolic     *)
(* links by name and by short UUID are left out.                           *)
(***************************************************************************)
EXTENDS Naturals, Sequences, FiniteSets, SequencesExt

CONSTANTS
  Service,          \* the services of the enclave, all of them asked for
  Retention,        \* logRetentionPeriodInWeeks
  ChanSize,         \* logsChanBufferSize
  BatchLogsAmount,  \* batchLogsAmount
  NumLogLines,      \* numLogLines of a request that does not want all of them
  Requests,         \* the requests a client may make
  LastWeek,         \* bound on the weeks
  MaxLines,         \* bound on the lines written
  MaxEvents         \* bound on what happens around the request: weeks that pass, passes
                    \*   of the creator of files, the enclave's end, the client's leaving

ASSUME LogsAssumption ==
  /\ IsFiniteSet(Service) /\ "free" \notin Service /\ "waiter" \notin Service
  /\ Retention \in Nat \ {0} /\ ChanSize \in Nat \ {0} /\ BatchLogsAmount \in Nat \ {0}
  /\ NumLogLines \in Nat
  /\ Requests \subseteq [kind : {"rpc", "rest"}, follow : BOOLEAN, all : BOOLEAN]
  /\ LastWeek \in Nat /\ LastWeek >= Retention /\ MaxLines \in Nat /\ MaxEvents \in Nat

VARIABLES
  week,      \* time.Now(), to the week
  alive,     \* does the enclave exist (and its services)?
  file,      \* the inode of a service's file of a week; 0: no such file
  inode,     \* the lines of the inodes; one stays readable when its file is removed
  dirs,      \* the weeks in which the enclave has a directory
  written,   \* lines written so far, by service
  swept,     \* the last week in which the remover of old files made its pass
  toRemove,  \* its pathsToRemove
  maker,     \* the creator of files: the service and the week it works on,
  toMake,    \*   and the services after it
  toForget,  \* RemoveEnclaveLogs: the weeks whose directory it has still to remove
  events,    \* counts them
  req,       \* the request
  asked,     \* the lines written before it, by service
  client,    \* "there" or "left"
  pc,        \* where the goroutine of a service is
  path,      \* the weeks of the files it found, oldest first
  todo,      \* the inodes it has still to read
  pos,       \* lines read from the first of them
  out,       \* lines read and to be sent
  buffer,    \* logLineBuffer
  keys,      \* the services that have an entry in it
  mu,        \* who is flushing with sender.mu held; "free": nobody
  flush,     \* the entries still to flush
  chan,      \* logsChan
  waiter,    \* where the goroutine that waits for the others is
  handler,   \* "none", "loop", or what it returned: "end", "error", "gone"
  delivered  \* the lines written to the client, by service

volumeVars == <<week, alive, file, inode, dirs, written>>
keeperVars == <<swept, toRemove, maker, toMake, toForget, events>>
readVars   == <<path, todo, pos>>
sendVars   == <<buffer, keys, mu, flush, chan>>
askVars    == <<req, asked, client>>
streamVars == <<askVars, pc, readVars, out, sendVars, waiter, handler, delivered>>
vars       == <<volumeVars, keeperVars, streamVars>>

Week == 1..LastWeek
Exists(s, w) == w \in Week /\ file[s][w] # 0
NoWork == [s |-> "none", w |-> 0]

-----------------------------------------------------------------------------
Over    == handler \in {"end", "error", "gone"}
Happens == ~Over /\ events < MaxEvents /\ events' = events + 1

(* The clock.  The remover, which runs every six hours, makes a pass in     *)
(* each week; no step of the creator lasts more than a week.               *)
NextWeek ==
  /\ week < LastWeek /\ swept = week /\ toRemove = {}
  /\ maker = NoWork \/ maker.w = week
  /\ week' = week + 1
  /\ Happens
  /\ UNCHANGED <<alive, file, inode, dirs, written, swept, toRemove, maker, toMake, toForget, streamVars>>

NewFile(s, w, lines) ==
  /\ inode' = Append(inode, lines)
  /\ file' = [file EXCEPT ![s][w] = Len(inode) + 1]

Total(f) == FoldFunction(LAMBDA a, b : a + b, 0, f)

(* The aggregator appends to the file of the week and makes what is missing. *)
Write(s) ==
  /\ alive /\ ~Over /\ Total(written) < MaxLines
  /\ written' = [written EXCEPT ![s] = @ + 1]
  /\ LET line == [n |-> written[s] + 1, week |-> week] IN
       IF Exists(s, week)
       THEN inode' = [inode EXCEPT ![file[s][week]] = Append(@, line)] /\ UNCHANGED file
       ELSE NewFile(s, week, <<line>>)
  /\ dirs' = dirs \cup {week}
  /\ UNCHANGED <<week, alive, keeperVars, streamVars>>

(* RemoveLogsBeyondRetentionPeriod: for the services there are, the file of *)
(* the one week that has just left the period; then the removals.          *)
BeyondRetentionLess ==   \* mutant: one week too far
  {sw \in Service \X Week : sw[2] + Retention + 1 = week /\ Exists(sw[1], sw[2])}

BeyondRetention == {sw \in Service \X Week : sw[2] + Retention = week /\ Exists(sw[1], sw[2])}

KeeperList ==
  /\ toRemove = {} /\ swept < week
  /\ swept' = week
  /\ toRemove' = IF alive THEN BeyondRetention ELSE {}
  /\ UNCHANGED <<volumeVars, maker, toMake, toForget, events, streamVars>>

KeeperRemove ==
  \E sw \in toRemove :
    /\ toRemove' = toRemove \ {sw}
    /\ file' = [file EXCEPT ![sw[1]][sw[2]] = 0]
    /\ UNCHANGED <<week, alive, inode, dirs, written, swept, maker, toMake, toForget, events, streamVars>>

(* CreateLogFiles: a file that Stat does not find is created, which empties *)
(* one that has been made since; without the directory the pass ends.      *)
MakerList ==
  /\ maker = NoWork /\ toMake = {} /\ Happens
  /\ toMake' = IF alive THEN Service ELSE {}
  /\ UNCHANGED <<volumeVars, swept, toRemove, maker, toForget, streamVars>>

MakerStat ==
  \E s \in toMake :
    /\ maker = NoWork
    /\ toMake' = toMake \ {s}
    /\ maker' = IF Exists(s, week) THEN NoWork ELSE [s |-> s, w |-> week]
    /\ UNCHANGED <<volumeVars, swept, toRemove, toForget, events, streamVars>>

MakerCreate ==
  /\ maker # NoWork
  /\ \/ /\ maker.w \in dirs
        /\ IF Exists(maker.s, maker.w)
           THEN inode' = [inode EXCEPT ![file[maker.s][maker.w]] = <<>>] /\ UNCHANGED file
           ELSE NewFile(maker.s, maker.w, <<>>)
        /\ UNCHANGED toMake
     \/ /\ maker.w \notin dirs
        /\ toMake' = {}
        /\ UNCHANGED <<file, inode>>
  /\ maker' = NoWork
  /\ UNCHANGED <<week, alive, dirs, written, swept, toRemove, toForget, events, streamVars>>

(* DestroyEnclave, then RemoveEnclaveLogs: the directories of the weeks of  *)
(* the period, from this one back.                                         *)
DestroyEnclave ==
  /\ alive /\ alive' = FALSE
  /\ toForget' = {w \in Week : w + Retention > week /\ w <= week}
  /\ Happens
  /\ UNCHANGED <<week, file, inode, dirs, written, swept, toRemove, maker, toMake, streamVars>>

RemoveEnclaveLogs ==
  /\ toForget # {}
  /\ LET w == Max(toForget) IN
       /\ toForget' = toForget \ {w}
       /\ dirs' = dirs \ {w}
       /\ file' = [s \in Service |-> [file[s] EXCEPT ![w] = 0]]
  /\ UNCHANGED <<week, alive, inode, written, swept, toRemove, maker, toMake, events, streamVars>>

-----------------------------------------------------------------------------
(* A request: StreamUserServiceLogs starts a goroutine per service and one  *)
(* that waits for them.                                                    *)
Request ==
  /\ handler = "none"
  /\ req' \in Requests
  /\ asked' = written
  /\ pc' = [s \in Service |-> "list"]
  /\ waiter' = "wait" /\ handler' = "loop"
  /\ UNCHANGED <<volumeVars, keeperVars, client, readVars, out, sendVars, delivered>>

ClientLeaves ==
  /\ handler = "loop" /\ client = "there"
  /\ client' = "left"
  /\ Happens
  /\ UNCHANGED <<volumeVars, swept, toRemove, maker, toMake, toForget, req, asked, pc, readVars, out, sendVars, waiter, handler, delivered>>

(* The context of the stream.                                              *)
ctxOfServer == Over \/ waiter = "done"   \* mutant: not that of the request
ctxDone     == client = "left" \/ Over \/ waiter = "done"

Goto(s, l) == pc' = [pc EXCEPT ![s] = l]

(* What a reader has opened is of no use after it.                       *)
Finish(s, l) ==
  /\ Goto(s, l)
  /\ todo' = [todo EXCEPT ![s] = <<>>] /\ pos' = [pos EXCEPT ![s] = 0]
  /\ UNCHANGED path

StreamStays   == UNCHANGED <<volumeVars, keeperVars, askVars, handler, delivered>>
OutsideReader == StreamStays /\ UNCHANGED <<sendVars, waiter>>

(* getLogFilePathsFromNowTillRetentionPeriod: from the newest week that has *)
(* a file as far back as there are files without a gap, then reversed.     *)
Found(s) ==
  {w \in Week : /\ w + Retention > week /\ w <= week
                /\ \E v \in w..week : /\ \A x \in w..v : Exists(s, x)
                                      /\ \A x \in (v+1)..week : ~Exists(s, x)}
LogFilePaths(s) == [i \in 1..Cardinality(Found(s)) |-> Min(Found(s)) + i - 1]

ListFiles(s) ==
  /\ pc[s] = "list"
  /\ path' = [path EXCEPT ![s] = LogFilePaths(s)]
  /\ Goto(s, IF Found(s) = {} THEN "fail" ELSE "open")
  /\ OutsideReader /\ UNCHANGED <<todo, pos, out>>

(* getLogsReader: a file removed since it was found is an error.           *)
OpenFiles(s) ==
  /\ pc[s] = "open"
  /\ IF \A w \in Range(path[s]) : Exists(s, w)
     THEN /\ todo' = [todo EXCEPT ![s] = [i \in DOMAIN path[s] |-> file[s][path[s][i]]]]
          /\ Goto(s, "read")
     ELSE Goto(s, "fail") /\ UNCHANGED todo
  /\ OutsideReader /\ UNCHANGED <<path, pos, out>>

(* streamAllLogs hands every line on; streamTailLogs keeps the last ones    *)
(* and hands them on at the end.  Between two lines they look at the        *)
(* context: when it is done they stop, and StreamLogs goes on.             *)
KeepLast(lines) == IF Len(lines) > NumLogLines THEN Tail(lines) ELSE lines

ReadLine(s) ==
  /\ pc[s] = "read" /\ ~ctxDone
  /\ pos[s] < Len(inode[Head(todo[s])])
  /\ pos' = [pos EXCEPT ![s] = @ + 1]
  /\ LET line == inode[Head(todo[s])][pos[s] + 1] IN
       IF req.all
       THEN out' = [out EXCEPT ![s] = <<line>>] /\ Goto(s, "send")
       ELSE out' = [out EXCEPT ![s] = KeepLast(Append(@, line))] /\ UNCHANGED pc
  /\ OutsideReader /\ UNCHANGED <<path, todo>>

EndOfFile(s) ==
  /\ pc[s] = "read" /\ ~ctxDone
  /\ pos[s] >= Len(inode[Head(todo[s])])
  /\ todo' = [todo EXCEPT ![s] = Tail(@)]
  /\ pos' = [pos EXCEPT ![s] = 0]
  /\ IF Len(todo[s]) > 1 THEN UNCHANGED pc
     ELSE Goto(s, IF out[s] = <<>> THEN "flush" ELSE "send")
  /\ OutsideReader /\ UNCHANGED <<path, out>>

StopReading(s) ==
  /\ pc[s] = "read" /\ ctxDone
  /\ out' = [out EXCEPT ![s] = <<>>]
  /\ Goto(s, "flush")
  /\ OutsideReader /\ UNCHANGED readVars

-----------------------------------------------------------------------------
(* The sender.  Send holds the mutex for one channel operation, and waits   *)
(* for room with it held.                                                  *)
Batch(s, lines) == <<[s |-> s, lines |-> lines]>>

Send(s, line) ==
  LET lines == Append(buffer[s], line) IN
  /\ mu = "free"
  /\ keys' = keys \cup {s}
  /\ IF Len(lines) % BatchLogsAmount = 0
     THEN /\ Len(chan) < ChanSize
          /\ chan' = chan \o Batch(s, lines)
          /\ buffer' = [buffer EXCEPT ![s] = <<>>]
     ELSE /\ buffer' = [buffer EXCEPT ![s] = lines]
          /\ UNCHANGED chan
  /\ UNCHANGED <<mu, flush>>

(* sendJsonLogLine: a line that has left the retention period is dropped;   *)
(* of the week at its edge, some lines have.                               *)
AfterSend(s) ==
  IF pc[s] = "relay" THEN "follow"
  ELSE IF Len(out[s]) > 1 THEN "send"
  ELSE IF req.all THEN "read" ELSE "flush"

SendLine(s) ==
  /\ pc[s] \in {"send", "relay"}
  /\ LET line == Head(out[s]) IN
       \/ line.week + Retention >= week /\ Send(s, line)
       \/ line.week + Retention <= week /\ UNCHANGED sendVars
  /\ out' = [out EXCEPT ![s] = Tail(@)]
  /\ Goto(s, AfterSend(s))
  /\ StreamStays /\ UNCHANGED <<readVars, waiter>>

(* Flush, by a reader or by the goroutine that waits for them: one channel  *)
(* operation per service that ever sent a line, with the mutex held.       *)
ToFlush == IF mu = "free" THEN keys ELSE flush

FlushOne(who) ==
  \E s \in ToFlush :
    /\ mu \in {"free", who} /\ Len(chan) < ChanSize
    /\ chan' = chan \o Batch(s, buffer[s])
    /\ buffer' = [buffer EXCEPT ![s] = <<>>]
    /\ flush' = ToFlush \ {s}
    /\ mu' = IF flush' = {} THEN "free" ELSE who
    /\ UNCHANGED keys

FlushNothing == mu = "free" /\ keys = {} /\ UNCHANGED sendVars

Flush(who) == FlushOne(who) \/ FlushNothing

FlushBeforeFollowing(s) ==
  /\ pc[s] = "flush"
  /\ Flush(s)
  /\ IF mu' = s THEN UNCHANGED <<pc, readVars>> ELSE Finish(s, IF req.follow THEN "tail" ELSE "done")
  /\ StreamStays /\ UNCHANGED <<out, waiter>>

-----------------------------------------------------------------------------
(* followLogs: from the end of the newest file that was found.             *)
TailFile(s) ==
  /\ pc[s] = "tail"
  /\ LET ino == file[s][Last(path[s])] IN
       IF ino # 0
       THEN /\ todo' = [todo EXCEPT ![s] = <<ino>>]
            /\ pos' = [pos EXCEPT ![s] = Len(inode[ino])]
            /\ Goto(s, "follow")
       ELSE Goto(s, "fail") /\ UNCHANGED <<todo, pos>>
  /\ OutsideReader /\ UNCHANGED <<path, out>>

(* The tail library's next line; it starts over when the file is truncated. *)
FollowLine(s) ==
  /\ pc[s] = "follow"
  /\ pos[s] < Len(inode[Head(todo[s])])
  /\ pos' = [pos EXCEPT ![s] = @ + 1]
  /\ out' = [out EXCEPT ![s] = <<inode[Head(todo[s])][pos[s] + 1]>>]
  /\ Goto(s, "relay")
  /\ OutsideReader /\ UNCHANGED <<path, todo>>

FollowTruncated(s) ==
  /\ pc[s] = "follow"
  /\ pos[s] > Len(inode[Head(todo[s])])
  /\ pos' = [pos EXCEPT ![s] = 0]
  /\ OutsideReader /\ UNCHANGED <<pc, path, todo, out>>

StopFollowing(s) ==
  /\ pc[s] = "follow" /\ ctxDone
  /\ Finish(s, "done")
  /\ OutsideReader /\ UNCHANGED out

Reader(s) ==
  \/ ListFiles(s) \/ OpenFiles(s) \/ ReadLine(s) \/ EndOfFile(s) \/ StopReading(s)
  \/ SendLine(s) \/ FlushBeforeFollowing(s)
  \/ TailFile(s) \/ FollowLine(s) \/ FollowTruncated(s) \/ StopFollowing(s)

(* When every reader is through: flush, close the channels (and cancel).    *)
Waiter ==
  /\ \/ /\ waiter = "wait" /\ \A s \in Service : pc[s] = "done"
        /\ Flush("waiter")
        /\ waiter' = IF mu' = "waiter" THEN "wait" ELSE "closeLogs"
     \/ waiter = "closeLogs" /\ waiter' = "closeErrors" /\ UNCHANGED sendVars
     \/ waiter = "closeErrors" /\ waiter' = "done" /\ UNCHANGED sendVars
  /\ StreamStays /\ UNCHANGED <<pc, readVars, out>>

logsClosed   == waiter \in {"closeErrors", "done"}
errorsClosed == waiter = "done"

-----------------------------------------------------------------------------
(* The loop of the handler, GetServiceLogs or Consume.                     *)
HandlerReturns(what) ==
  /\ handler' = what
  /\ UNCHANGED <<volumeVars, keeperVars, askVars, out, buffer, keys, mu, flush, waiter>>

Receive ==
  /\ handler = "loop" /\ chan # <<>>
  /\ chan' = Tail(chan)
  /\ \/ /\ client = "there"
        /\ delivered' = [delivered EXCEPT ![Head(chan).s] = @ \o Head(chan).lines]
        /\ UNCHANGED <<volumeVars, keeperVars, askVars, pc, readVars, out, buffer, keys, mu, flush, waiter, handler>>
     \/ /\ client = "left"
        /\ HandlerReturns("gone") /\ UNCHANGED <<pc, readVars, delivered>>

(* Only the RPC's loop looks at the context; only it reports the error.    *)
SeeClientGone ==
  /\ handler = "loop" /\ req.kind = "rpc" /\ client = "left"
  /\ HandlerReturns("gone") /\ UNCHANGED <<pc, readVars, chan, delivered>>

ReceiveError(s) ==
  /\ handler = "loop" /\ pc[s] = "fail"
  /\ Finish(s, "done")
  /\ HandlerReturns(IF req.kind = "rpc" THEN "error" ELSE "end")
  /\ UNCHANGED <<chan, delivered>>

(* A closed channel: the RPC's loop goes on while lines are buffered.      *)
SeeClosedAtOnce ==   \* mutant: what is buffered is not looked at
  /\ handler = "loop"
  /\ errorsClosed \/ (logsClosed /\ chan = <<>>)
  /\ HandlerReturns("end") /\ UNCHANGED <<pc, readVars, chan, delivered>>

SeeClosed ==
  /\ handler = "loop"
  /\ \/ logsClosed /\ chan = <<>>
     \/ errorsClosed /\ (req.kind = "rest" \/ chan = <<>>)
  /\ HandlerReturns("end") /\ UNCHANGED <<pc, readVars, chan, delivered>>

Handler == Receive \/ SeeClientGone \/ SeeClosed \/ \E s \in Service : ReceiveError(s)

-----------------------------------------------------------------------------
(* A period is over; in each week of it a service wrote a line or nothing. *)
Init ==
  /\ week = Retention /\ alive = TRUE
  /\ \E wrote \in SUBSET (Service \X (1..(Retention - 1))) :
       LET earlier == SetToSeq(wrote)
           Nth(s, w) == Cardinality({v \in 1..w : <<s, v>> \in wrote}) IN
       /\ file = [s \in Service |-> [w \in Week |->
                    IF <<s, w>> \in wrote THEN CHOOSE i \in DOMAIN earlier : earlier[i] = <<s, w>> ELSE 0]]
       /\ inode = [i \in DOMAIN earlier |-> <<[n |-> Nth(earlier[i][1], earlier[i][2]), week |-> earlier[i][2]]>>]
       /\ dirs = {sw[2] : sw \in wrote}
       /\ written = [s \in Service |-> Nth(s, Retention - 1)]
  /\ swept = Retention /\ toRemove = {} /\ maker = NoWork /\ toMake = {} /\ events = 0
  /\ toForget = {}
  /\ req = [kind |-> "rpc", follow |-> FALSE, all |-> TRUE]
  /\ asked = [s \in Service |-> 0] /\ client = "there"
  /\ pc = [s \in Service |-> "none"]
  /\ path = [s \in Service |-> <<>>] /\ todo = [s \in Service |-> <<>>]
  /\ pos = [s \in Service |-> 0] /\ out = [s \in Service |-> <<>>]
  /\ buffer = [s \in Service |-> <<>>] /\ keys = {} /\ mu = "free" /\ flush = {} /\ chan = <<>>
  /\ waiter = "none" /\ handler = "none"
  /\ delivered = [s \in Service |-> <<>>]

Files == KeeperList \/ KeeperRemove \/ MakerList \/ MakerStat \/ MakerCreate
         \/ DestroyEnclave \/ RemoveEnclaveLogs

(* The handler has returned, or every reader waits for the next line.      *)
Waits(s) == pc[s] = "follow" /\ pos[s] = Len(inode[Head(todo[s])])

Quiet ==
  /\ Over \/ \A s \in Service : Waits(s)
  /\ UNCHANGED vars

Next ==
  \/ NextWeek \/ Files \/ (\E s \in Service : Write(s))
  \/ Request \/ ClientLeaves
  \/ (\E s \in Service : Reader(s)) \/ Waiter \/ Handler
  \/ Quiet

Spec == Init /\ [][Next]_vars

(* Goroutines are scheduled; nobody has to write, remove, ask or leave.    *)
Fairness ==
  /\ \A s \in Service : WF_vars(Reader(s))
  /\ WF_vars(Waiter) /\ WF_vars(Handler)

FairSpec == Spec /\ Fairness

-----------------------------------------------------------------------------
Line == [n : Nat \ {0}, week : Week]

(* Every variable holds a value of its type.                               *)
TypeOK ==
  /\ week \in Week /\ alive \in BOOLEAN
  /\ inode \in Seq(Seq(Line)) /\ file \in [Service -> [Week -> 0..Len(inode)]]
  /\ dirs \subseteq Week /\ written \in [Service -> Nat]
  /\ swept \in 0..week /\ toRemove \subseteq Service \X Week
  /\ maker = NoWork \/ maker \in [s : Service, w : Week]
  /\ toMake \subseteq Service /\ events \in 0..MaxEvents /\ toForget \subseteq Week
  /\ req \in [kind : {"rpc", "rest"}, follow : BOOLEAN, all : BOOLEAN]
  /\ asked \in [Service -> Nat] /\ client \in {"there", "left"}
  /\ \A s \in Service :
       /\ pc[s] \in {"none", "list", "open", "read", "send", "flush", "tail",
                     "follow", "relay", "fail", "done"}
       /\ path[s] \in Seq(Week) /\ todo[s] \in Seq(1..Len(inode)) /\ pos[s] \in Nat
       /\ pc[s] \in {"open", "tail"} => path[s] # <<>>
       /\ pc[s] \in {"read", "follow", "relay"} => todo[s] # <<>>
       /\ out[s] \in Seq(Line) /\ pc[s] \in {"send", "relay"} => out[s] # <<>>
       /\ buffer[s] \in Seq(Line) /\ delivered[s] \in Seq(Line)
  /\ keys \subseteq Service /\ flush \subseteq keys
  /\ mu \in Service \cup {"free", "waiter"}
  /\ chan \in Seq([s : Service, lines : Seq(Line)]) /\ Len(chan) <= ChanSize
  /\ waiter \in {"none", "wait", "closeLogs", "closeErrors", "done"}
  /\ handler \in {"none", "loop", "end", "error", "gone"}

(* Logs beyond the retention period go: after the pass of a week no service *)
(* of a living enclave has a file that old, whichever pass made the file,   *)
(* and each pass looks at one week only.                                   *)
RetentionKept ==
  alive /\ swept = week /\ toRemove = {} =>
    \A s \in Service : \A w \in Week : w + Retention <= week => ~Exists(s, w)

VolumeOK == TypeOK /\ RetentionKept

(* What a client got of a service is in the order of the writing, no line   *)
(* twice.  And an RPC that ended without an error, for all lines or for the *)
(* last ones, gave every line that was written before it and is still to be *)
(* had, or that many, and none older than the last ones: whatever the       *)
(* channel held when it was closed, and whoever flushed last.              *)
Increasing(lines) == \A i, j \in DOMAIN lines : i < j => lines[i].n < lines[j].n

Due(s) == UNION {{l \in Range(inode[file[s][w]]) : l.n <= asked[s]} :
                   w \in {v \in Week : Exists(s, v) /\ v + Retention > week}}

LinesDelivered ==
  \A s \in Service :
    /\ Increasing(delivered[s])
    /\ handler = "end" /\ req.kind = "rpc" /\ client = "there" =>
         LET missing == Due(s) \ Range(delivered[s]) IN
         IF req.all THEN missing = {}
         ELSE missing = {} \/ Len(delivered[s]) = NumLogLines

(* A request ends, unless it is to be followed and its client stays: then   *)
(* it keeps up, so that again and again every line appended to the files it *)
(* follows has been read, sent and received.  Errors, full channels, the    *)
(* shared mutex and files that are emptied or removed do not stop it.       *)
KeptUp == chan = <<>> /\ \A s \in Service : Waits(s)

StreamsEnd == []<>(handler # "loop" \/ (req.follow /\ client = "there" /\ KeptUp))

(* Not so: a request that is over leaves no goroutine behind.              *)
NoReaderLeft == Over ~> waiter = "done"

(* Not so: REST clients get all the lines as well.                         *)
RestGetsAll ==
  handler = "end" /\ req.kind = "rest" /\ req.all =>
    \A s \in Service : Due(s) \subseteq Range(delivered[s])

(* Not so: what a service wrote is kept as long as the retention period.    *)
LinesKept ==
  [][alive /\ week' = week =>
       \A s \in Service, w \in Week : w + Retention > week /\ Exists(s, w) =>
         file'[s][w] = file[s][w] /\ IsPrefix(inode[file[s][w]], inode'[file[s][w]])]_vars

(* Not so: nothing is left of the logs of an enclave that was destroyed.    *)
LogsForgotten ==
  ~alive /\ toForget = {} /\ maker = NoWork => \A s \in Service, w \in Week : ~Exists(s, w)

(* Not so: following continues where reading stopped.                      *)
FollowMissesNone ==
  [][\A s \in Service : pc[s] = "tail" /\ pc'[s] = "follow" =>
       \A l \in Range(inode'[Head(todo'[s])]) :
         l \in Range(delivered[s]) \/ \E b \in Range(chan) : l \in Range(b.lines)]_vars
=============================================================================
