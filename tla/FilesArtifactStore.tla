------------------------ MODULE FilesArtifactStore --------------------------
(***************************************************************************)
(* The files artifacts of an enclave (files_artifact_store.go,             *)
(* file_cache.go, file_artifacts_db.go) and those who use them: the        *)
(* instructions upload_files, render_templates and store_service_files,    *)
(* the API container's uploads and downloads.  The store's maps live in    *)
(* memory and are saved as a whole in the enclave database; the files are  *)
(* on the enclave's volume.  A writer holds the store's mutex over several *)
(* steps on the disk; the API container may die between any two.           *)
(*                                                                         *)
(* A content stands for its own MD5.  Failures of the database itself are  *)
(* left out.                                                               *)
(***************************************************************************)
EXTENDS Naturals, FiniteSets, SequencesExt

CONSTANTS
  Clients,      \* those who call the store
  Kinds,        \* the operations each of them makes
  Names,        \* artifact names
  Contents,     \* what is stored, and its MD5
  Short,        \* the shortened form of a UUID
  MaxUuid,      \* bound on the UUIDs handed out
  MaxRequests,  \* bound on the operations
  MaxCrashes,   \* bound on the crashes of the API container
  Failures,     \* what may fail: making a file, filling it, the service's copy
  NoFile, Torn, \* a path without a file; a file that was not written to its end
  NoHash, Empty \* no entry for the content's MD5; the empty MD5

Uuid == 1..MaxUuid
None == 0
Free == "free"      \* nobody holds the mutex
Shortened == {Short[u] : u \in Uuid}

ASSUME StoreAssumption ==
  /\ MaxUuid \in Nat /\ MaxRequests \in Nat /\ MaxCrashes \in Nat
  /\ Kinds \in [Clients -> SUBSET {"upload", "render", "copy", "send", "download"}]
  /\ Failures \subseteq {"create", "write", "backend"}
  /\ NoFile \notin Contents /\ Torn \notin Contents /\ NoFile # Torn
  /\ NoHash \notin Contents /\ Empty \notin Contents /\ NoHash # Empty
  /\ NoFile \notin [id : Uuid, content : Contents \cup {Torn}]
  /\ DOMAIN Short = Uuid /\ Free \notin Clients

(* UUIDs are random: no artifact has one, or the shortened form of one, as *)
(* its name.                                                               *)
ASSUME NameAssumption == Names \cap (Uuid \cup Shortened) = {}

VARIABLES
  mem,          \* the maps: UUID by name, UUIDs by shortened form, MD5 by UUID
  saved,        \* what the database has of them
  disk,         \* the files of the cache
  writer,       \* who holds the mutex over several steps
  op,           \* per client: its operation, and where it is in it
  uuids, requests, crashes,
  promised,     \* history: the content the last success under a name was about
  touched,      \* history: the UUIDs updated since the maps were saved
  suspect       \* history: those of them a crash has met

maps    == <<mem, saved>>
bounds  == <<uuids, requests, crashes>>
history == <<promised, touched, suspect>>
vars == <<maps, disk, writer, op, bounds, history>>

Idle == [at |-> "idle"]

Init ==
  /\ mem = [uuidOf |-> [n \in Names |-> None],
            full   |-> [s \in Shortened |-> <<>>],
            md5    |-> [u \in Uuid |-> NoHash]]
  /\ saved = mem
  /\ disk = [u \in Uuid |-> NoFile]
  /\ writer = Free
  /\ op = [c \in Clients |-> Idle]
  /\ uuids = 0 /\ requests = 0 /\ crashes = 0
  /\ promised = [n \in Names |-> NoFile]
  /\ touched = {} /\ suspect = {}

-----------------------------------------------------------------------------
(* The store's maps.                                                       *)

(* storeFilesToArtifactUuidUnlocked, once the file is there                *)
WithArtifact(m, n, u, md5) ==
  [uuidOf |-> [m.uuidOf EXCEPT ![n] = u],
   full   |-> [m.full EXCEPT ![Short[u]] = Append(@, u)],
   md5    |-> [m.md5 EXCEPT ![u] = md5]]

(* The place of a UUID among those of its shortened form: the last one     *)
(* that has it, or the first one of all when none does.                    *)
Place(s, u) == CHOOSE i \in DOMAIN s :
  \/ s[i] = u /\ \A j \in DOMAIN s : s[j] = u => j <= i
  \/ i = 1 /\ \A j \in DOMAIN s : s[j] # u

(* removeFileUnlocked, once the file is gone                               *)
WithoutArtifact(m, u) ==
  [uuidOf |-> [n \in Names |-> IF m.uuidOf[n] = u THEN None ELSE m.uuidOf[n]],
   full   |-> [m.full EXCEPT ![Short[u]] = IF @ = <<>> THEN @ ELSE RemoveAt(@, Place(@, u))],
   md5    |-> [m.md5 EXCEPT ![u] = IF \E n \in Names : m.uuidOf[n] = u THEN NoHash ELSE @]]

(* GetFile: an identifier is a UUID with an MD5 and a file, else a         *)
(* shortened UUID, else a name.  Several UUIDs of one shortened form, or   *)
(* one whose file is missing, are an error.                                *)
Known(u) == mem.md5[u] # NoHash /\ disk[u] # NoFile

Lookup(id) ==
  LET byShort == IF id \in DOMAIN mem.full THEN mem.full[id] ELSE <<>>
      byName  == IF id \in Names THEN mem.uuidOf[id] ELSE None
      at(u)   == IF Known(u) THEN [found |-> "yes", uuid |-> u] ELSE [found |-> "error"]
  IN IF id \in Uuid /\ Known(id) THEN at(id)
     ELSE IF Len(byShort) > 1 THEN [found |-> "error"]
     ELSE IF byShort # <<>> THEN at(byShort[1])
     ELSE IF byName # None THEN at(byName)
     ELSE [found |-> "no"]

(* Persist: the maps are saved as a whole                                  *)
Persist ==
  /\ saved' = mem'
  /\ touched' = {}

-----------------------------------------------------------------------------
(* What the caller gets.                                                   *)
Goes(c, where) == op' = [op EXCEPT ![c].at = where]
Ends(c) == op' = [op EXCEPT ![c] = Idle]

(* A success is a promise about the artifact; a failure promises nothing.  *)
Promise(n, x) == promised' = [promised EXCEPT ![n] = x]

(* Mutant: a copy from a service is stored under the MD5 of the whole.     *)
HashesCopies(o) == IF o.kind \in {"upload", "render", "copy"} THEN o.data ELSE Empty

(* The MD5 the caller passes along: those of render_templates and          *)
(* upload_files are known, everything else is stored with an empty one.    *)
Md5Of(r) == IF r.kind \in {"upload", "render"} THEN r.data ELSE Empty

(* upload_files and render_templates leave an artifact of the same MD5     *)
(* alone.                                                                  *)
Matches(o, u) == Md5Of(o) # Empty /\ mem.md5[u] = Md5Of(o)

(* What is stored comes whole, or through a pipe from a service: the copy  *)
(* may be "cut" short.                                                     *)
Request(c) ==
  /\ op[c].at = "idle" /\ requests < MaxRequests
  /\ requests' = requests + 1
  /\ \E k \in Kinds[c] :
       \/ /\ k # "download"
          /\ \E n \in Names, x \in Contents :
               op' = [op EXCEPT ![c] = [at |-> IF k = "send" THEN "store" ELSE "look", kind |-> k,
                                        name |-> n, data |-> x, uuid |-> None, cut |-> FALSE]]
       \/ /\ k = "download"
          /\ \E id \in Names \cup Uuid \cup DOMAIN mem.full :
               op' = [op EXCEPT ![c] = [at |-> "look", kind |-> k, name |-> id, uuid |-> None]]
  /\ UNCHANGED <<maps, disk, writer, uuids, crashes, history>>

(* GetFile under the read lock: one step.  Not finding an artifact saves   *)
(* the maps.                                                               *)
Look(c) ==
  LET o == op[c]  f == Lookup(o.name) IN
  /\ o.at = "look" /\ writer = Free
  /\ \/ /\ f.found = "error" \/ (f.found = "no" /\ o.kind = "download")
        /\ Ends(c)
        /\ UNCHANGED promised
     \/ /\ f.found = "yes" /\ o.kind # "download" /\ Matches(o, f.uuid)
        /\ IF f.uuid \in suspect THEN UNCHANGED promised ELSE Promise(o.name, o.data)
        /\ Ends(c)
     \/ /\ f.found = "yes" /\ (o.kind = "download" \/ ~Matches(o, f.uuid))
        /\ op' = [op EXCEPT ![c].uuid = f.uuid,
                            ![c].at = IF o.kind = "download" THEN "open" ELSE "update"]
        /\ UNCHANGED promised
     \/ /\ f.found = "no" /\ o.kind # "download"
        /\ Goes(c, "store")
        /\ UNCHANGED promised
  /\ UNCHANGED mem
  /\ IF f.found = "no" THEN Persist ELSE UNCHANGED <<saved, touched>>
  /\ UNCHANGED <<disk, writer, bounds, suspect>>

-----------------------------------------------------------------------------
(* A writer that fails before it has read what it is sent.  The goroutine  *)
(* that stores a service's files then waits to report, while its caller    *)
(* waits for it to read: both for ever.                                    *)
Fails(c) == IF op[c].kind = "copy" THEN Goes(c, "stuck") ELSE Ends(c)

(* Mutant: the name is not looked up again under the mutex.                *)
TrustsTheLookup(c) ==
  /\ op[c].at = "store" /\ writer = Free /\ uuids < MaxUuid
  /\ uuids' = uuids + 1
  /\ op' = [op EXCEPT ![c].uuid = uuids', ![c].at = "fill"]
  /\ disk' = [disk EXCEPT ![uuids'] = Torn]
  /\ writer' = c
  /\ UNCHANGED <<maps, requests, crashes, history>>

(* StoreFile takes the mutex, looks the name up and makes the file.        *)
StoreFile(c) ==
  /\ op[c].at = "store" /\ writer = Free
  /\ \/ /\ mem.uuidOf[op[c].name] # None \/ "create" \in Failures
        /\ Fails(c)
        /\ UNCHANGED <<disk, writer, uuids>>
     \/ /\ mem.uuidOf[op[c].name] = None /\ uuids < MaxUuid
        /\ uuids' = uuids + 1
        /\ op' = [op EXCEPT ![c].uuid = uuids', ![c].at = "fill"]
        /\ disk' = [disk EXCEPT ![uuids'] = Torn]
        /\ writer' = c
  /\ UNCHANGED <<maps, requests, crashes, history>>

(* UpdateFile takes the mutex and removes the artifact, file first.        *)
UpdateFile(c) ==
  LET u == op[c].uuid IN
  /\ op[c].at = "update" /\ writer = Free
  /\ \/ /\ disk[u] = NoFile
        /\ Fails(c)
        /\ UNCHANGED <<mem, disk, writer, promised, touched>>
     \/ /\ disk[u] # NoFile
        /\ disk' = [disk EXCEPT ![u] = NoFile]
        /\ mem' = WithoutArtifact(mem, u)
        /\ writer' = c
        /\ Goes(c, "make")
        /\ Promise(op[c].name, NoFile)
        /\ touched' = touched \cup {u}
  /\ UNCHANGED <<saved, bounds, suspect>>

(* ... and makes its file again.                                           *)
Make(c) ==
  /\ op[c].at = "make"
  /\ \/ /\ "create" \in Failures
        /\ Fails(c)
        /\ writer' = Free
        /\ UNCHANGED disk
     \/ /\ disk' = [disk EXCEPT ![op[c].uuid] = Torn]
        /\ Goes(c, "refill")
        /\ UNCHANGED writer
  /\ UNCHANGED <<maps, bounds, history>>

(* Mutant: the maps are not saved.                                         *)
FilledInMemory(c) ==
  LET o == op[c]  u == o.uuid IN
  /\ o.at \in {"fill", "refill"}
  /\ disk' = [disk EXCEPT ![u] = o.data]
  /\ mem' = WithArtifact(mem, o.name, u, Md5Of(o))
  /\ Promise(o.name, o.data)
  /\ writer' = Free
  /\ Ends(c)
  /\ UNCHANGED <<saved, bounds, touched, suspect>>

(* The content is there to its end, which is too early when the copy from  *)
(* the service was cut; the maps follow, and only StoreFile saves them.    *)
Filled(c) ==
  LET o == op[c]  u == o.uuid  content == IF o.cut THEN Torn ELSE o.data IN
  /\ o.at \in {"fill", "refill"}
  /\ disk' = [disk EXCEPT ![u] = content]
  /\ mem' = WithArtifact(mem, o.name, u, Md5Of(o))
  /\ IF o.at = "fill" THEN Persist ELSE UNCHANGED <<saved, touched>>
  /\ suspect' = suspect \ {u}
  /\ IF content = Torn THEN UNCHANGED promised ELSE Promise(o.name, o.data)
  /\ writer' = Free
  /\ Ends(c)
  /\ UNCHANGED bounds

(* Mutant: the failure returns with the mutex held.                        *)
KeepsTheMutex(c) ==
  /\ op[c].at \in {"fill", "refill"} /\ "write" \in Failures
  /\ disk' = [disk EXCEPT ![op[c].uuid] = NoFile]
  /\ Fails(c) \/ Ends(c)
  /\ UNCHANGED <<maps, writer, bounds, history>>

(* The copy into the file fails: AddFile removes what there is of it.      *)
(* Whether a service's copy had more to send decides if it is stuck.       *)
FillFails(c) ==
  /\ op[c].at \in {"fill", "refill"} /\ "write" \in Failures
  /\ disk' = [disk EXCEPT ![op[c].uuid] = NoFile]
  /\ writer' = Free
  /\ Fails(c) \/ Ends(c)
  /\ UNCHANGED <<maps, bounds, history>>

(* The backend's copy fails half-way: the pipe is closed as if it had      *)
(* ended.                                                                  *)
CopyCut(c) ==
  /\ op[c].at \in {"store", "update", "make", "fill", "refill"} /\ op[c].kind = "copy"
  /\ "backend" \in Failures
  /\ op' = [op EXCEPT ![c].cut = TRUE]
  /\ UNCHANGED <<maps, disk, writer, bounds, history>>

(* DownloadFilesArtifact opens the path it was given, without the mutex.   *)
Open(c) ==
  /\ op[c].at = "open"
  /\ Ends(c)
  /\ UNCHANGED <<maps, disk, writer, bounds, history>>

(* The API container dies and starts again: the maps are the saved ones.   *)
Crash ==
  /\ crashes < MaxCrashes
  /\ crashes' = crashes + 1
  /\ mem' = saved
  /\ writer' = Free
  /\ op' = [c \in Clients |-> Idle]
  /\ suspect' = suspect \cup touched
  /\ touched' = {}
  /\ UNCHANGED <<saved, disk, uuids, requests, promised>>

Step(c) ==
  Look(c) \/ StoreFile(c) \/ UpdateFile(c) \/ Make(c) \/ Filled(c) \/ FillFails(c) \/ Open(c)

Next == (\E c \in Clients : Request(c) \/ Step(c) \/ CopyCut(c)) \/ Crash

Spec == Init /\ [][Next]_vars

(* Goroutines are scheduled; requests, cuts and crashes need not come.     *)
FairSpec == Spec /\ \A c \in Clients : WF_vars(Step(c))

-----------------------------------------------------------------------------
Maps ==
  [uuidOf : [Names -> {None} \cup Uuid], full : [DOMAIN mem.full -> Seq(Uuid)],
   md5 : [Uuid -> Contents \cup {NoHash, Empty}]]

(* Every variable holds a value of its type, and every artifact of the     *)
(* maps is in all three: name, shortened UUID and MD5.                     *)
TypeOK ==
  /\ mem \in Maps /\ saved \in Maps
  /\ disk \in [Uuid -> Contents \cup {NoFile, Torn}]
  /\ writer \in Clients \cup {Free}
  /\ \A c \in Clients :
       \/ op[c] = Idle
       \/ op[c] \in [at : {"look", "open"}, kind : {"download"}, name : Names \cup Uuid \cup DOMAIN mem.full,
                    uuid : {None} \cup Uuid]
       \/ op[c] \in [at : {"look", "store", "update", "make", "fill", "refill", "stuck"},
                    kind : {"upload", "render", "copy", "send"}, name : Names, data : Contents,
                    uuid : {None} \cup Uuid, cut : BOOLEAN]
  /\ promised \in [Names -> Contents \cup {NoFile}]
  /\ \A u \in Uuid :
       LET count == IF mem.md5[u] = NoHash THEN 0 ELSE 1 IN
         /\ Cardinality({n \in Names : mem.uuidOf[n] = u}) = count
         /\ Cardinality({i \in DOMAIN mem.full[Short[u]] : mem.full[Short[u]][i] = u}) = count

(* The MD5 decides whether an instruction leaves an artifact alone:        *)
(* between writes it is that of the file, unless the process died after an *)
(* update whose MD5 was not saved.                                         *)
HashTellsContent ==
  writer = Free => \A u \in Uuid \ suspect : mem.md5[u] \in Contents => disk[u] = mem.md5[u]
StoreOK == TypeOK /\ HashTellsContent

(* What an instruction or a caller was told is stored is there, whatever   *)
(* others stored, failed to store or downloaded, and after every restart:  *)
(* until a replacement of it begins.  (What an instruction says of an      *)
(* artifact whose saved MD5 a crash left stale is no promise.)             *)
PromisesKept ==
  \A n \in Names : promised[n] # NoFile =>
    LET u == mem.uuidOf[n] IN u # None /\ disk[u] = promised[n] /\ Lookup(n).found = "yes"

(* No operation but a copy from a service waits for ever: every return,    *)
(* failures included, gives the mutex back.                                *)
OperationsEnd == \A c \in Clients : op[c].at # "idle" ~> (op[c].at = "idle" \/ op[c].kind = "copy")

(* Not so: a copy that could not be stored is reported as an error, so it  *)
(* ends (its goroutine and its caller wait for each other).                *)
CopiesEnd == \A c \in Clients : op[c].at # "idle" ~> op[c].at = "idle"

(* Not so: no reader sees a file that is being written (a download opens   *)
(* the path it was given after the mutex is released).                     *)
DownloadsAreWhole ==
  [][\A c \in Clients : op[c].at = "open" /\ op'[c].at = "idle" => disk[op[c].uuid] # Torn]_vars

-----------------------------------------------------------------------------
(* By its name, an artifact is what the maps and the disk say, and broken  *)
(* while it is replaced.                                                   *)
Replaced(n) == {c \in Clients : op[c].at \in {"make", "refill"} /\ op[c].name = n}

Artifact(n) ==
  LET ids == ({mem.uuidOf[n]} \cup {op[c].uuid : c \in Replaced(n)}) \ {None} IN
  IF ids = {} THEN NoFile
  ELSE LET u == CHOOSE i \in ids : TRUE
       IN [id |-> u, content |-> IF disk[u] \in Contents THEN disk[u] ELSE Torn]

Artifacts == [n \in Names |-> Artifact(n)]

Map == INSTANCE ArtifactMap WITH Ids <- Uuid, Broken <- Torn, Absent <- NoFile, art <- Artifacts

(* The store implements the map of whole artifacts.                        *)
ImplementsMap == Map!Spec
=============================================================================
