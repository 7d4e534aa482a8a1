------------------------- MODULE FilesArtifactProofs --------------------------
(***************************************************************************)
(* The files artifact store keeps its promises, for any number of clients, *)
(* names, contents and UUIDs, and whatever fails or dies: what was stored  *)
(* is there until it is replaced, the MD5s tell the contents, and by their *)
(* names artifacts are a map of things that are whole or known as broken.  *)
(***************************************************************************)
EXTENDS FilesArtifactStore, FiniteSetTheorems, TLAPS

(* The lists of UUIDs of one shortened form: a UUID is in its list once or *)
(* not at all, and appending or removing one does not disturb the others.  *)
Once(s, u)  == \E i \in DOMAIN s : \A j \in DOMAIN s : s[j] = u <=> j = i
Never(s, u) == \A j \in DOMAIN s : s[j] # u

LEMMA Appended ==
  ASSUME NEW S, NEW s \in Seq(S), NEW u \in S, Never(s, u), NEW t, t = Append(s, u)
  PROVE  /\ t \in Seq(S) /\ Once(t, u)
         /\ \A v \in S \ {u} : (Once(s, v) => Once(t, v)) /\ (Never(s, v) => Never(t, v))
<1>1. /\ t \in Seq(S) /\ Len(s) \in Nat /\ DOMAIN s = 1..Len(s) /\ DOMAIN t = 1..(Len(s) + 1)
      /\ t[Len(s) + 1] = u /\ \A i \in 1..Len(s) : t[i] = s[i]
  OBVIOUS
<1>2. Once(t, u)
  <2>1. Len(s) + 1 \in DOMAIN t /\ \A j \in DOMAIN t : t[j] = u <=> j = Len(s) + 1
    BY <1>1 DEF Never
  <2> QED
    BY <2>1 DEF Once
<1>3. ASSUME NEW v \in S \ {u}, Never(s, v) PROVE Never(t, v)
  BY <1>1, <1>3 DEF Never
<1>4. ASSUME NEW v \in S \ {u}, Once(s, v) PROVE Once(t, v)
  <2>1. PICK i \in DOMAIN s : \A j \in DOMAIN s : s[j] = v <=> j = i
    BY <1>4 DEF Once
  <2>2. i \in DOMAIN t /\ \A j \in DOMAIN t : t[j] = v <=> j = i
    BY <1>1, <2>1
  <2> QED
    BY <2>2 DEF Once
<1> QED
  BY <1>1, <1>2, <1>3, <1>4

LEMMA PlaceIs ==
  ASSUME NEW S, NEW s \in Seq(S), NEW u \in S, Once(s, u)
  PROVE  /\ Place(s, u) \in DOMAIN s /\ s[Place(s, u)] = u
         /\ \A j \in DOMAIN s : s[j] = u => j = Place(s, u)
<1>1. PICK i \in DOMAIN s : \A j \in DOMAIN s : s[j] = u <=> j = i
  BY DEF Once
<1>2. DOMAIN s = 1..Len(s) /\ Len(s) \in Nat
  OBVIOUS
<1>3. \A k \in DOMAIN s : (\/ s[k] = u /\ \A j \in DOMAIN s : s[j] = u => j <= k
                           \/ k = 1 /\ \A j \in DOMAIN s : s[j] # u) <=> k = i
  BY <1>1, <1>2
<1>4. Place(s, u) = i
  BY <1>3 DEF Place
<1> QED
  BY <1>1, <1>4

LEMMA RemoveAtIs ==
  ASSUME NEW S, NEW s \in Seq(S), NEW p \in DOMAIN s
  PROVE  /\ RemoveAt(s, p) \in Seq(S) /\ Len(RemoveAt(s, p)) = Len(s) - 1
         /\ \A i \in 1..(Len(s) - 1) : RemoveAt(s, p)[i] = IF i < p THEN s[i] ELSE s[i + 1]
<1>1. Len(s) \in Nat /\ p \in 1..Len(s)
  OBVIOUS
<1> DEFINE a == SubSeq(s, 1, p - 1)  b == SubSeq(s, p + 1, Len(s))
<1>2. a \in Seq(S) /\ Len(a) = p - 1 /\ \A i \in 1..(p - 1) : a[i] = s[i]
  BY <1>1
<1>3. b \in Seq(S) /\ Len(b) = Len(s) - p /\ \A i \in 1..(Len(s) - p) : b[i] = s[p + i]
  BY <1>1
<1>4. RemoveAt(s, p) = a \o b
  BY DEF RemoveAt
<1> HIDE DEF a, b
<1>5. /\ a \o b \in Seq(S) /\ Len(a \o b) = Len(s) - 1
      /\ \A i \in 1..(Len(s) - 1) : (a \o b)[i] = IF i < p THEN a[i] ELSE b[i - (p - 1)]
  <2>1. /\ a \o b \in Seq(S) /\ Len(a \o b) = Len(a) + Len(b)
        /\ \A i \in 1..(Len(a) + Len(b)) :
             (a \o b)[i] = IF i <= Len(a) THEN a[i] ELSE b[i - Len(a)]
    BY <1>2, <1>3
  <2>2. Len(a) + Len(b) = Len(s) - 1 /\ p \in Int /\ Len(s) \in Int /\ Len(a) = p - 1
    BY <1>1, <1>2, <1>3
  <2>3. \A i \in 1..(Len(s) - 1) : i <= p - 1 <=> i < p
    BY <2>2
  <2> QED
    BY <2>1, <2>2, <2>3
<1>6. \A i \in 1..(Len(s) - 1) : (a \o b)[i] = IF i < p THEN s[i] ELSE s[i + 1]
  <2> SUFFICES ASSUME NEW i \in 1..(Len(s) - 1) PROVE (a \o b)[i] = IF i < p THEN s[i] ELSE s[i + 1]
    OBVIOUS
  <2>1. CASE i < p
    BY <1>1, <1>2, <1>5, <2>1
  <2>2. CASE ~(i < p)
    <3>1. i - (p - 1) \in 1..(Len(s) - p) /\ p + (i - (p - 1)) = i + 1
      BY <1>1, <2>2
    <3> QED
      BY <1>3, <1>5, <2>2, <3>1
  <2> QED
    BY <2>1, <2>2
<1> QED
  BY <1>4, <1>5, <1>6

LEMMA Removed ==
  ASSUME NEW S, NEW s \in Seq(S), NEW u \in S, Once(s, u)
  PROVE  LET t == RemoveAt(s, Place(s, u)) IN
           /\ s # <<>> /\ t \in Seq(S) /\ Never(t, u)
           /\ \A v \in S \ {u} : (Once(s, v) => Once(t, v)) /\ (Never(s, v) => Never(t, v))
<1> DEFINE p == Place(s, u)  t == RemoveAt(s, p)
<1>1. Len(s) \in Nat /\ DOMAIN s = 1..Len(s)
  OBVIOUS
<1>2. p \in 1..Len(s) /\ s[p] = u /\ \A j \in 1..Len(s) : s[j] = u => j = p
  BY <1>1, PlaceIs
<1>3. s # <<>>
  BY <1>2
<1> HIDE DEF p
<1>4. /\ t \in Seq(S) /\ DOMAIN t = 1..(Len(s) - 1)
      /\ \A i \in 1..(Len(s) - 1) : t[i] = IF i < p THEN s[i] ELSE s[i + 1]
  BY <1>1, <1>2, RemoveAtIs
<1> HIDE DEF t
<1>5. Never(t, u)
  BY <1>1, <1>2, <1>4 DEF Never
<1>6. ASSUME NEW v \in S \ {u}, Never(s, v) PROVE Never(t, v)
  BY <1>1, <1>2, <1>4, <1>6 DEF Never
<1>7. ASSUME NEW v \in S \ {u}, Once(s, v) PROVE Once(t, v)
  <2>1. PICK i \in DOMAIN s : \A j \in DOMAIN s : s[j] = v <=> j = i
    BY <1>7 DEF Once
  <2>2. i # p
    BY <1>2, <2>1
  <2>3. CASE i < p
    <3>0. i \in DOMAIN t /\ t[i] = v
      BY <1>1, <1>2, <1>4, <2>1, <2>3
    <3>1. i \in DOMAIN t /\ \A j \in DOMAIN t : t[j] = v <=> j = i
      <4> SUFFICES ASSUME NEW j \in DOMAIN t, t[j] = v PROVE j = i
        BY <3>0
      <4>1. CASE j < p
        BY <1>1, <1>2, <1>4, <2>1, <4>1
      <4>2. CASE ~(j < p)
        <5>1. t[j] = s[j + 1] /\ j + 1 \in DOMAIN s /\ j \in Int
          BY <1>1, <1>2, <1>4, <4>2
        <5>2. s[j + 1] = v
          BY <5>1
        <5>3. j + 1 = i
          BY <2>1, <5>1, <5>2
        <5> QED
          BY <1>1, <1>2, <2>1, <2>3, <4>2, <5>1, <5>3
      <4> QED
        BY <4>1, <4>2
    <3> QED
      BY <3>1 DEF Once
  <2>4. CASE p < i
    <3>0. i - 1 \in DOMAIN t /\ t[i - 1] = v
      BY <1>1, <1>2, <1>4, <2>1, <2>4
    <3>1. i - 1 \in DOMAIN t /\ \A j \in DOMAIN t : t[j] = v <=> j = i - 1
      <4> SUFFICES ASSUME NEW j \in DOMAIN t, t[j] = v PROVE j = i - 1
        BY <3>0
      <4>1. CASE j < p
        BY <1>1, <1>2, <1>4, <2>1, <2>4, <4>1
      <4>2. CASE ~(j < p)
        <5>1. t[j] = s[j + 1] /\ j + 1 \in DOMAIN s /\ j \in Int
          BY <1>1, <1>2, <1>4, <4>2
        <5>2. s[j + 1] = v
          BY <5>1
        <5>3. j + 1 = i
          BY <2>1, <5>1, <5>2
        <5> QED
          BY <1>1, <1>2, <2>1, <2>4, <4>2, <5>1, <5>3
      <4> QED
        BY <4>1, <4>2
    <3> QED
      BY <3>1 DEF Once
  <2> QED
    BY <1>2, <2>2, <2>3, <2>4
<1> QED
  BY <1>3, <1>4, <1>5, <1>6, <1>7 DEF t, p

-----------------------------------------------------------------------------
USE StoreAssumption, NameAssumption DEF StoreAssumption, NameAssumption, Uuid, None, Free

(* Maps that agree: a UUID was handed out, belongs to one name, and has an *)
(* MD5 just when it belongs to one.                                        *)
Agree(m) ==
  /\ m = [uuidOf |-> m.uuidOf, full |-> m.full, md5 |-> m.md5]
  /\ m.uuidOf \in [Names -> {None} \cup Uuid]
  /\ DOMAIN m.full = Shortened
  /\ m.md5 \in [Uuid -> Contents \cup {NoHash, Empty}]
  /\ \A n \in Names : m.uuidOf[n] # None => m.uuidOf[n] \in 1..uuids
  /\ \A n1, n2 \in Names : m.uuidOf[n1] = m.uuidOf[n2] /\ m.uuidOf[n1] # None => n1 = n2
  /\ \A u \in Uuid : m.md5[u] # NoHash <=> \E n \in Names : m.uuidOf[n] = u

(* The database knows every artifact of the maps, under the same UUID;     *)
(* what it knows besides has no whole file.                                *)
SavedInv ==
  \A n \in Names :
    /\ mem.uuidOf[n] # None => saved.uuidOf[n] = mem.uuidOf[n]
    /\ saved.uuidOf[n] # None => \/ mem.uuidOf[n] = saved.uuidOf[n]
                                 \/ disk[saved.uuidOf[n]] \notin Contents

DiskInv ==
  /\ uuids \in 0..MaxUuid
  /\ disk \in [Uuid -> Contents \cup {NoFile, Torn}]

(* The MD5 of a UUID is that of its file; the saved one too, but for those *)
(* updated since.                                                          *)
HashInv ==
  \A u \in Uuid \ suspect :
    /\ mem.md5[u] \in Contents => disk[u] = mem.md5[u]
    /\ u \notin touched /\ saved.md5[u] \in Contents => disk[u] = saved.md5[u]

(* A download may look for any identifier, and opens the path of what it   *)
(* found.                                                                  *)
Downloads(r) ==
  /\ DOMAIN r = {"at", "kind", "name", "uuid"}
  /\ r.at \in {"look", "open"} /\ r.kind = "download"

Storing == [at : {"look", "store", "update", "make", "fill", "refill", "stuck"},
            kind : {"upload", "render", "copy", "send"}, name : Names, data : Contents,
            uuid : {None} \cup Uuid, cut : BOOLEAN]

OpType ==
  /\ DOMAIN op = Clients
  /\ \A c \in Clients : op[c] = Idle \/ Downloads(op[c]) \/ op[c] \in Storing

Writing == {"make", "fill", "refill"}

(* Who holds the mutex over several steps is the one who writes, and what  *)
(* it writes belongs to no name yet, or no longer.                         *)
WriterInv ==
  /\ writer \in Clients \cup {Free}
  /\ \A c \in Clients : op[c].at \in Writing <=> writer = c

FillInv ==
  \A c \in Clients : op[c].at \in Writing =>
    /\ op[c].uuid \in 1..uuids
    /\ mem.uuidOf[op[c].name] = None
    /\ IF op[c].at = "fill" THEN \A n \in Names : saved.uuidOf[n] # op[c].uuid
       ELSE saved.uuidOf[op[c].name] = op[c].uuid /\ op[c].uuid \in touched
    /\ disk[op[c].uuid] = IF op[c].at = "make" THEN NoFile ELSE Torn

(* Only the copy of a service is ever cut.                                 *)
CutInv == \A c \in Clients : op[c] \in Storing /\ op[c].cut => op[c].kind = "copy"

(* An update of a UUID that still has a file is about the artifact of that *)
(* name, in whoever's hands it is.                                         *)
Rewrites(c, u, n) == op[c].at \in {"make", "refill"} /\ op[c].uuid = u /\ op[c].name = n

UpdateInv ==
  \A c \in Clients : op[c].at = "update" =>
    LET u == op[c].uuid  n == op[c].name IN
      /\ u \in 1..uuids
      /\ \/ mem.uuidOf[n] = u
         \/ \E w \in Clients : Rewrites(w, u, n)
         \/ disk[u] = NoFile /\ \A w \in Clients : op[w].at \in Writing => op[w].uuid # u

PromiseInv ==
  /\ promised \in [Names -> Contents \cup {NoFile}]
  /\ \A n \in Names : promised[n] # NoFile =>
       mem.uuidOf[n] # None /\ disk[mem.uuidOf[n]] = promised[n]

StoreInv ==
  /\ Agree(mem) /\ Agree(saved) /\ SavedInv /\ DiskInv /\ HashInv
  /\ OpType /\ WriterInv /\ FillInv /\ CutInv /\ UpdateInv /\ PromiseInv

-----------------------------------------------------------------------------
(* What the operators of the store do, field by field.                     *)
LEMMA WithIs ==
  ASSUME NEW m, NEW n \in Names, NEW u \in Uuid, NEW h \in Contents \cup {Empty}, Agree(m),
         NEW w, w = WithArtifact(m, n, u, h)
  PROVE  /\ w = [uuidOf |-> w.uuidOf, full |-> w.full, md5 |-> w.md5]
         /\ w.uuidOf = [m.uuidOf EXCEPT ![n] = u]
         /\ w.md5 = [m.md5 EXCEPT ![u] = h]
         /\ DOMAIN w.full = Shortened
BY DEF WithArtifact, Agree, Shortened

LEMMA WithoutIs ==
  ASSUME NEW m, NEW u \in Uuid, Agree(m), NEW w, w = WithoutArtifact(m, u)
  PROVE  /\ w = [uuidOf |-> w.uuidOf, full |-> w.full, md5 |-> w.md5]
         /\ w.uuidOf = [n \in Names |-> IF m.uuidOf[n] = u THEN None ELSE m.uuidOf[n]]
         /\ w.md5 = [m.md5 EXCEPT ![u] = NoHash]
         /\ DOMAIN w.full = Shortened
<1>1. \/ \E n \in Names : m.uuidOf[n] = u
      \/ (~\E n \in Names : m.uuidOf[n] = u) /\ m.md5[u] = NoHash
  BY DEF Agree
<1> QED
  BY <1>1 DEF WithoutArtifact, Agree, Shortened

(* An artifact's name leads to it, for no UUID has that form.              *)
LEMMA NameLeads ==
  ASSUME NEW n \in Names, DOMAIN mem.full = Shortened
  PROVE  Lookup(n) = IF mem.uuidOf[n] = None THEN [found |-> "no"]
                     ELSE IF Known(mem.uuidOf[n]) THEN [found |-> "yes", uuid |-> mem.uuidOf[n]]
                     ELSE [found |-> "error"]
<1>1. n \notin Uuid /\ n \notin DOMAIN mem.full
  BY DEF Shortened
<1> QED
  BY <1>1 DEF Lookup

LEMMA GoesIs ==
  ASSUME OpType, NEW c \in Clients, op[c] \in Storing,
         NEW w \in {"look", "store", "update", "make", "fill", "refill", "stuck"}, Goes(c, w)
  PROVE  /\ op'[c] \in Storing /\ op'[c].at = w
         /\ op'[c].kind = op[c].kind /\ op'[c].name = op[c].name /\ op'[c].data = op[c].data
         /\ op'[c].uuid = op[c].uuid /\ op'[c].cut = op[c].cut
         /\ DOMAIN op' = Clients /\ \A d \in Clients \ {c} : op'[d] = op[d]
<1> DEFINE r == [op[c] EXCEPT !.at = w]
<1>1. op' = [op EXCEPT ![c] = r]
  BY DEF Goes
<1>2. /\ r \in Storing /\ r.at = w /\ r.kind = op[c].kind /\ r.name = op[c].name
      /\ r.data = op[c].data /\ r.uuid = op[c].uuid /\ r.cut = op[c].cut
  BY DEF Storing
<1> HIDE DEF r
<1> QED
  BY <1>1, <1>2 DEF OpType

LEMMA EndsIs ==
  ASSUME OpType, NEW c \in Clients, Ends(c)
  PROVE  /\ op'[c] = Idle /\ op'[c].at = "idle"
         /\ DOMAIN op' = Clients /\ \A d \in Clients \ {c} : op'[d] = op[d]
BY DEF OpType, Ends, Idle

(* Past its request, an operation that is not a download has its fields.   *)
LEMMA StoresWhat ==
  ASSUME OpType, NEW c \in Clients,
         op[c].at \in {"store", "update", "make", "fill", "refill", "stuck"}
  PROVE  op[c] \in Storing
BY DEF OpType, Idle, Downloads, Storing

-----------------------------------------------------------------------------
(* Steps that neither write nor remove: they may save the maps, when       *)
(* nobody writes, and lead an operation towards its end or to an update of *)
(* the artifact they found under its name.                                 *)
SameWork(c) ==
  /\ op[c].at = op'[c].at /\ op[c].uuid = op'[c].uuid /\ op[c].name = op'[c].name
  /\ op'[c] \in Storing

Leads(c) ==
  \/ op[c].at \notin Writing /\ op'[c].at \notin Writing \cup {"update"}
  \/ SameWork(c)
  \/ /\ op[c].at \notin Writing /\ op'[c].at = "update"
     /\ op'[c] \in Storing
     /\ mem.uuidOf[op'[c].name] = op'[c].uuid /\ op'[c].uuid # None

Saves ==
  \/ saved' = saved /\ touched' = touched
  \/ saved' = mem /\ touched' = {} /\ writer = Free

LEMMA QuietKeeps ==
  ASSUME StoreInv, NEW c \in Clients, Leads(c), Saves, OpType', CutInv', PromiseInv',
         \A d \in Clients \ {c} : op'[d] = op[d],
         UNCHANGED <<mem, disk, writer, uuids, suspect>>
  PROVE  StoreInv'
<1>1. Agree(mem)' /\ Agree(saved)'
  BY DEF StoreInv, Agree, Saves
<1>2. SavedInv'
  BY DEF StoreInv, SavedInv, Saves
<1>3. DiskInv'
  BY DEF StoreInv, DiskInv
<1>4. HashInv'
  BY DEF StoreInv, HashInv, Saves
<1>5. WriterInv'
  BY DEF StoreInv, WriterInv, Leads, SameWork, Writing
<1>6. FillInv'
  BY DEF StoreInv, FillInv, WriterInv, Leads, SameWork, Saves, Writing
<1>7. UpdateInv'
  <2> SUFFICES ASSUME NEW d \in Clients, op'[d].at = "update",
                      NEW u, NEW n, u = op'[d].uuid, n = op'[d].name
               PROVE  /\ u \in 1..uuids
                      /\ \/ mem.uuidOf[n] = u
                         \/ \E w \in Clients : op'[w].at \in {"make", "refill"} /\ op'[w].uuid = u /\ op'[w].name = n
                         \/ disk[u] = NoFile /\ \A w \in Clients : op'[w].at \in Writing => op'[w].uuid # u
    BY DEF UpdateInv, Rewrites
  <2>1. \A w \in Clients : op[w].at \in Writing \/ op'[w].at \in Writing =>
          op'[w].at = op[w].at /\ op'[w].uuid = op[w].uuid /\ op'[w].name = op[w].name
    BY DEF Leads, SameWork, Writing
  <2>2. CASE op[d].at = "update" /\ u = op[d].uuid /\ n = op[d].name
    <3>1. /\ u \in 1..uuids
          /\ \/ mem.uuidOf[n] = u
             \/ \E w \in Clients : op[w].at \in {"make", "refill"} /\ op[w].uuid = u /\ op[w].name = n
             \/ disk[u] = NoFile /\ \A w \in Clients : op[w].at \in Writing => op[w].uuid # u
      BY <2>2 DEF StoreInv, UpdateInv, Rewrites
    <3> QED
      BY <2>1, <3>1 DEF Writing
  <2>3. CASE d = c /\ mem.uuidOf[n] = u /\ u # None /\ op'[c] \in Storing
    <3>1. n \in Names
      BY <2>3 DEF Storing
    <3> QED
      BY <2>3, <3>1 DEF StoreInv, Agree
  <2> QED
    BY <2>2, <2>3 DEF Leads, SameWork
<1> QED
  BY <1>1, <1>2, <1>3, <1>4, <1>5, <1>6, <1>7 DEF StoreInv

LEMMA RequestKeeps == ASSUME StoreInv, NEW c \in Clients, Request(c) PROVE StoreInv'
<1>1. /\ op[c].at = "idle" /\ (Downloads(op'[c]) \/ op'[c] \in Storing) /\ op'[c].at \in {"look", "store"}
      /\ op'[c] \in Storing => ~op'[c].cut
      /\ DOMAIN op' = Clients /\ \A d \in Clients \ {c} : op'[d] = op[d]
      /\ UNCHANGED <<mem, saved, disk, writer, uuids, promised, touched, suspect>>
  <2>0. DOMAIN mem.full = Shortened /\ DOMAIN op = Clients
    BY DEF StoreInv, Agree, OpType
  <2>1. PICK k \in Kinds[c] :
       \/ /\ k # "download"
          /\ \E n \in Names, x \in Contents :
               op' = [op EXCEPT ![c] = [at |-> IF k = "send" THEN "store" ELSE "look", kind |-> k,
                                        name |-> n, data |-> x, uuid |-> None, cut |-> FALSE]]
       \/ /\ k = "download"
          /\ \E id \in Names \cup Uuid \cup DOMAIN mem.full :
               op' = [op EXCEPT ![c] = [at |-> "look", kind |-> k, name |-> id, uuid |-> None]]
    BY DEF Request
  <2>2. k \in {"upload", "render", "copy", "send", "download"}
    OBVIOUS
  <2>3. CASE k # "download"
    <3>1. PICK n \in Names, x \in Contents :
               op' = [op EXCEPT ![c] = [at |-> IF k = "send" THEN "store" ELSE "look", kind |-> k,
                                        name |-> n, data |-> x, uuid |-> None, cut |-> FALSE]]
      BY <2>1, <2>3
    <3> DEFINE r == [at |-> IF k = "send" THEN "store" ELSE "look", kind |-> k,
                                        name |-> n, data |-> x, uuid |-> None, cut |-> FALSE]
    <3>2. r \in Storing /\ r.at \in {"look", "store"} /\ ~r.cut
      BY <2>2, <2>3 DEF Storing
    <3>3. op' = [op EXCEPT ![c] = r]
      BY <3>1
    <3> HIDE DEF r
    <3> QED
      BY <2>0, <3>2, <3>3 DEF Request, maps, history
  <2>4. CASE k = "download"
    <3>1. PICK id \in Names \cup Uuid \cup DOMAIN mem.full :
               op' = [op EXCEPT ![c] = [at |-> "look", kind |-> k, name |-> id, uuid |-> None]]
      BY <2>1, <2>4
    <3> DEFINE r == [at |-> "look", kind |-> k, name |-> id, uuid |-> None]
    <3>2. Downloads(r) /\ r.at = "look" /\ r \notin Storing
      BY <2>0, <2>2, <2>4 DEF Storing, Downloads
    <3>3. op' = [op EXCEPT ![c] = r]
      BY <3>1
    <3> HIDE DEF r
    <3> QED
      BY <2>0, <3>2, <3>3 DEF Request, maps, history
  <2> QED
    BY <2>3, <2>4
<1>2. Leads(c) /\ Saves
  BY <1>1 DEF Leads, Writing, Saves
<1>3. OpType' /\ CutInv'
  BY <1>1 DEF StoreInv, OpType, CutInv
<1>4. PromiseInv'
  BY <1>1 DEF StoreInv, PromiseInv
<1> QED
  BY <1>1, <1>2, <1>3, <1>4, QuietKeeps

LEMMA CopyCutKeeps == ASSUME StoreInv, NEW c \in Clients, CopyCut(c) PROVE StoreInv'
<1>0. OpType /\ op[c] \in Storing /\ op[c].kind = "copy"
  BY StoresWhat DEF StoreInv, CopyCut
<1>1. /\ op'[c] \in Storing /\ SameWork(c) /\ op'[c].kind = "copy"
      /\ DOMAIN op' = Clients /\ \A d \in Clients \ {c} : op'[d] = op[d]
  <2> DEFINE r == [op[c] EXCEPT !.cut = TRUE]
  <2>1. /\ r \in Storing /\ r.at = op[c].at /\ r.uuid = op[c].uuid /\ r.name = op[c].name
        /\ r.kind = "copy"
    BY <1>0 DEF Storing
  <2>2. op' = [op EXCEPT ![c] = r]
    BY DEF CopyCut
  <2> HIDE DEF r
  <2> QED
    BY <1>0, <2>1, <2>2 DEF OpType, SameWork
<1>2. UNCHANGED <<mem, saved, disk, writer, uuids, promised, touched, suspect>>
  BY DEF CopyCut, maps, bounds, history
<1>3. OpType' /\ CutInv'
  BY <1>1 DEF StoreInv, OpType, CutInv
<1>4. PromiseInv'
  BY <1>2 DEF StoreInv, PromiseInv
<1> QED
  BY <1>1, <1>2, <1>3, <1>4, QuietKeeps DEF Leads, Saves

LEMMA OpenKeeps == ASSUME StoreInv, NEW c \in Clients, Open(c) PROVE StoreInv'
<1>1. /\ op[c].at = "open" /\ op'[c] = Idle /\ op'[c].at = "idle"
      /\ DOMAIN op' = Clients /\ \A d \in Clients \ {c} : op'[d] = op[d]
  BY EndsIs DEF StoreInv, Open
<1>2. UNCHANGED <<mem, saved, disk, writer, uuids, promised, touched, suspect>>
  BY DEF Open, maps, bounds, history
<1>3. OpType' /\ CutInv'
  BY <1>1 DEF StoreInv, OpType, CutInv, Storing
<1>4. PromiseInv'
  BY <1>2 DEF StoreInv, PromiseInv
<1> QED
  BY <1>1, <1>2, <1>3, <1>4, QuietKeeps DEF Leads, Saves, Writing

LEMMA LookKeeps == ASSUME StoreInv, NEW c \in Clients, Look(c) PROVE StoreInv'
<1> DEFINE f == Lookup(op[c].name)
<1>0. /\ OpType /\ DOMAIN op = Clients /\ op[c].at = "look" /\ writer = Free
      /\ UNCHANGED <<mem, disk, writer, uuids, suspect>>
      /\ Downloads(op[c]) \/ op[c] \in Storing
  BY DEF StoreInv, Look, bounds, OpType, Idle
<1>1. Saves
  BY <1>0 DEF Look, Saves, Persist
<1>2. op[c] \in Storing => f = IF mem.uuidOf[op[c].name] = None THEN [found |-> "no"]
                               ELSE IF Known(mem.uuidOf[op[c].name])
                                 THEN [found |-> "yes", uuid |-> mem.uuidOf[op[c].name]]
                                 ELSE [found |-> "error"]
  BY NameLeads DEF StoreInv, Agree, Storing
<1> HIDE DEF f
<1>3. \/ (f.found = "error" \/ f.found = "no") /\ Ends(c) /\ promised' = promised
      \/ /\ f.found = "yes" /\ op[c].kind # "download" /\ Matches(op[c], f.uuid)
         /\ IF f.uuid \in suspect THEN UNCHANGED promised ELSE Promise(op[c].name, op[c].data)
         /\ Ends(c)
      \/ /\ f.found = "yes"
         /\ op' = [op EXCEPT ![c].uuid = f.uuid,
                             ![c].at = IF op[c].kind = "download" THEN "open" ELSE "update"]
         /\ promised' = promised
      \/ /\ f.found = "no" /\ op[c].kind # "download" /\ Goes(c, "store") /\ promised' = promised
  BY DEF Look, f
<1>4. CASE Ends(c) /\ promised' = promised
  <2>1. PromiseInv'
    BY <1>0, <1>4 DEF StoreInv, PromiseInv
  <2> QED
    BY <1>0, <1>1, <1>4, <2>1, EndsIs, QuietKeeps DEF StoreInv, OpType, CutInv, Leads, Writing,
       Storing, Idle
<1>5. CASE /\ f.found = "yes" /\ op[c].kind # "download" /\ Matches(op[c], f.uuid) /\ f.uuid \notin suspect
           /\ Promise(op[c].name, op[c].data) /\ Ends(c)
  <2>1. op[c] \in Storing
    BY <1>0, <1>5 DEF Downloads
  <2>2. /\ f.uuid = mem.uuidOf[op[c].name] /\ f.uuid # None /\ op[c].name \in Names
        /\ op[c].data \in Contents
    BY <1>2, <1>5, <2>1 DEF Storing
  <2>3. mem.md5[f.uuid] = op[c].data
    BY <1>5 DEF Matches, Md5Of
  <2>4. f.uuid \in Uuid
    BY <2>2 DEF StoreInv, Agree
  <2>5. disk[f.uuid] = op[c].data
    BY <1>5, <2>2, <2>3, <2>4 DEF StoreInv, HashInv
  <2>6. PromiseInv'
    BY <1>0, <1>5, <2>2, <2>5 DEF StoreInv, PromiseInv, Promise
  <2> QED
    BY <1>0, <1>1, <1>5, <2>6, EndsIs, QuietKeeps DEF StoreInv, OpType, CutInv, Leads, Writing,
       Storing, Idle
<1>6. CASE /\ f.found = "yes" /\ op' = [op EXCEPT ![c].uuid = f.uuid,
                             ![c].at = IF op[c].kind = "download" THEN "open" ELSE "update"]
           /\ promised' = promised
  <2>1. PromiseInv'
    BY <1>0, <1>6 DEF StoreInv, PromiseInv
  <2>2. CASE Downloads(op[c])
    <3> DEFINE r == [op[c] EXCEPT !.uuid = f.uuid, !.at = "open"]
    <3>1. Downloads(r) /\ r.at = "open" /\ r \notin Storing
      BY <2>2 DEF Downloads, Storing
    <3>2. op' = [op EXCEPT ![c] = r]
      BY <1>6, <2>2 DEF Downloads
    <3> HIDE DEF r
    <3>3. /\ op'[c] = r /\ DOMAIN op' = Clients /\ \A d \in Clients \ {c} : op'[d] = op[d]
      BY <1>0, <3>2
    <3>4. OpType' /\ CutInv'
      BY <3>1, <3>3 DEF StoreInv, OpType, CutInv
    <3>5. Leads(c)
      BY <1>0, <3>1, <3>3 DEF Leads, Writing
    <3> QED
      BY <1>0, <1>1, <2>1, <3>3, <3>4, <3>5, QuietKeeps
  <2>3. CASE op[c] \in Storing
    <3> DEFINE r == [op[c] EXCEPT !.uuid = f.uuid, !.at = "update"]
    <3>0. f.uuid = mem.uuidOf[op[c].name] /\ f.uuid # None /\ op[c].name \in Names
      BY <1>2, <1>6, <2>3 DEF Storing
    <3>1. f.uuid \in Uuid
      BY <3>0 DEF StoreInv, Agree
    <3>2. /\ r \in Storing /\ r.at = "update" /\ r.name = op[c].name /\ r.uuid = f.uuid
          /\ r.cut = op[c].cut /\ r.kind = op[c].kind
      BY <2>3, <3>1 DEF Storing
    <3>3. op' = [op EXCEPT ![c] = r]
      BY <1>6, <2>3 DEF Storing
    <3> HIDE DEF r
    <3>4. /\ op'[c] = r /\ DOMAIN op' = Clients /\ \A d \in Clients \ {c} : op'[d] = op[d]
      BY <1>0, <3>3
    <3>5. OpType' /\ CutInv'
      BY <2>3, <3>2, <3>4 DEF StoreInv, OpType, CutInv
    <3>6. Leads(c)
      BY <1>0, <3>0, <3>2, <3>4 DEF Leads, Writing
    <3> QED
      BY <1>0, <1>1, <2>1, <3>4, <3>5, <3>6, QuietKeeps
  <2> QED
    BY <1>0, <2>2, <2>3
<1>7. CASE /\ f.found = "no" /\ op[c].kind # "download" /\ Goes(c, "store") /\ promised' = promised
  <2>1. PromiseInv'
    BY <1>0, <1>7 DEF StoreInv, PromiseInv
  <2>2. op[c] \in Storing
    BY <1>0, <1>7 DEF Downloads
  <2>3. /\ op'[c] \in Storing /\ op'[c].at = "store" /\ op'[c].cut = op[c].cut /\ op'[c].kind = op[c].kind
        /\ DOMAIN op' = Clients /\ \A d \in Clients \ {c} : op'[d] = op[d]
    BY <1>0, <1>7, <2>2, GoesIs
  <2>4. OpType' /\ CutInv'
    BY <2>2, <2>3 DEF StoreInv, OpType, CutInv
  <2>5. Leads(c)
    BY <1>0, <2>3 DEF Leads, Writing
  <2> QED
    BY <1>0, <1>1, <2>1, <2>3, <2>4, <2>5, QuietKeeps
<1> QED
  BY <1>3, <1>4, <1>5, <1>6, <1>7

-----------------------------------------------------------------------------
(* The steps of a writer.                                                  *)

(* What a failure leaves of an operation.                                  *)
LEMMA FailIs ==
  ASSUME OpType, CutInv, NEW c \in Clients, op[c] \in Storing, Fails(c) \/ Ends(c)
  PROVE  /\ OpType' /\ CutInv'
         /\ op'[c].at \in {"idle", "stuck"} /\ \A d \in Clients \ {c} : op'[d] = op[d]
<1>1. CASE Ends(c)
  BY <1>1, EndsIs DEF OpType, CutInv, Idle, Storing
<1>2. CASE Goes(c, "stuck")
  BY <1>2, GoesIs DEF OpType, CutInv
<1> QED
  BY <1>1, <1>2 DEF Fails

LEMMA MovesOn ==
  ASSUME OpType, CutInv, NEW c \in Clients, op[c] \in Storing, op'[c] \in Storing, DOMAIN op' = Clients,
         op'[c].kind = op[c].kind, op'[c].cut = op[c].cut, \A d \in Clients \ {c} : op'[d] = op[d]
  PROVE  OpType' /\ CutInv'
BY DEF OpType, CutInv

(* Nobody writes but the writer.                                           *)
LEMMA OnlyWriter ==
  ASSUME StoreInv, NEW c \in Clients, writer = c \/ writer = Free
  PROVE  \A d \in Clients \ {c} : op[d].at \notin Writing
BY DEF StoreInv, WriterInv

LEMMA StoreFileKeeps == ASSUME StoreInv, NEW c \in Clients, StoreFile(c) PROVE StoreInv'
<1>0. /\ OpType /\ CutInv /\ op[c] \in Storing /\ op[c].at = "store" /\ writer = Free
      /\ op[c].name \in Names
      /\ UNCHANGED <<mem, saved, promised, touched, suspect>>
  BY StoresWhat DEF StoreInv, StoreFile, maps, history, Storing
<1>1. CASE Fails(c) /\ UNCHANGED <<disk, writer, uuids>>
  <2>1. PromiseInv'
    BY <1>0, <1>1 DEF StoreInv, PromiseInv
  <2> QED
    BY <1>0, <1>1, <2>1, FailIs, QuietKeeps DEF Leads, Writing, Saves
<1>2. CASE /\ mem.uuidOf[op[c].name] = None /\ uuids < MaxUuid
           /\ uuids' = uuids + 1
           /\ op' = [op EXCEPT ![c].uuid = uuids', ![c].at = "fill"]
           /\ disk' = [disk EXCEPT ![uuids'] = Torn]
           /\ writer' = c
  <2> DEFINE r == [op[c] EXCEPT !.uuid = uuids', !.at = "fill"]
  <2>1. uuids' \in Uuid /\ uuids \in 0..MaxUuid
    BY <1>2 DEF StoreInv, DiskInv
  <2>2. /\ r \in Storing /\ r.at = "fill" /\ r.name = op[c].name /\ r.uuid = uuids'
        /\ r.cut = op[c].cut /\ r.kind = op[c].kind
    BY <1>0, <2>1 DEF Storing
  <2>3. op' = [op EXCEPT ![c] = r]
    BY <1>2, <1>0 DEF Storing
  <2> HIDE DEF r
  <2>4. /\ op'[c] = r /\ DOMAIN op' = Clients /\ \A d \in Clients \ {c} : op'[d] = op[d]
    BY <1>0, <2>3 DEF OpType
  <2>5. /\ disk'[uuids'] = Torn /\ \A u \in Uuid \ {uuids'} : disk'[u] = disk[u]
        /\ disk' \in [Uuid -> Contents \cup {NoFile, Torn}]
    BY <1>2, <2>1 DEF StoreInv, DiskInv
  <2>6. /\ \A n \in Names : mem.uuidOf[n] # uuids' /\ saved.uuidOf[n] # uuids'
        /\ mem.md5[uuids'] = NoHash /\ saved.md5[uuids'] = NoHash
    <3>1. \A n \in Names : mem.uuidOf[n] # uuids' /\ saved.uuidOf[n] # uuids'
      BY <1>2, <2>1 DEF StoreInv, Agree
    <3> QED
      BY <2>1, <3>1 DEF StoreInv, Agree
  <2>7. \A u \in 1..uuids : u \in Uuid \ {uuids'} /\ u \in 1..uuids'
    BY <1>2, <2>1
  <2>8. Agree(mem)' /\ Agree(saved)'
    BY <1>0, <2>7 DEF StoreInv, Agree
  <2>9. SavedInv'
    BY <1>0, <2>5, <2>6 DEF StoreInv, SavedInv, Agree
  <2>10. DiskInv'
    BY <1>2, <2>1, <2>5 DEF DiskInv
  <2>11. HashInv'
    BY <1>0, <2>5, <2>6 DEF StoreInv, HashInv
  <2>12. OpType' /\ CutInv'
    BY <1>0, <2>2, <2>4, MovesOn
  <2>13. WriterInv'
    BY <1>0, <1>2, <2>2, <2>4 DEF StoreInv, WriterInv, Writing
  <2>14. FillInv'
    <3>1. \A d \in Clients : op'[d].at \in Writing => d = c
      BY <1>0, <2>4, OnlyWriter
    <3>2. uuids' \in 1..uuids'
      BY <2>1
    <3> QED
      BY <1>0, <1>2, <2>2, <2>4, <2>5, <2>6, <3>1, <3>2 DEF FillInv, Writing
  <2>15. UpdateInv'
    <3> SUFFICES ASSUME NEW d \in Clients, op'[d].at = "update", NEW u, NEW n, u = op'[d].uuid, n = op'[d].name
                 PROVE  /\ u \in 1..uuids'
                        /\ \/ mem.uuidOf[n] = u
                           \/ disk'[u] = NoFile /\ \A w \in Clients : op'[w].at \in Writing => op'[w].uuid # u
      BY <1>0 DEF UpdateInv, Rewrites
    <3>1. op'[d] = op[d]
      BY <2>2, <2>4
    <3>2. \A w \in Clients : op[w].at \notin Writing
      BY <1>0, OnlyWriter DEF Writing
    <3>3. u \in 1..uuids /\ (mem.uuidOf[n] = u \/ disk[u] = NoFile)
      BY <3>1, <3>2 DEF StoreInv, UpdateInv, Rewrites, Writing
    <3> QED
      BY <2>2, <2>4, <2>5, <2>7, <3>2, <3>3
  <2>16. PromiseInv'
    BY <1>0, <2>5, <2>6 DEF StoreInv, PromiseInv, Agree
  <2> QED
    BY <2>8, <2>9, <2>10, <2>11, <2>12, <2>13, <2>14, <2>15, <2>16 DEF StoreInv
<1> QED
  BY <1>1, <1>2 DEF StoreFile

LEMMA UpdateFileKeeps == ASSUME StoreInv, NEW c \in Clients, UpdateFile(c) PROVE StoreInv'
<1> DEFINE x == op[c].uuid  y == op[c].name
<1>0. /\ OpType /\ CutInv /\ op[c] \in Storing /\ op[c].at = "update" /\ writer = Free
      /\ y \in Names /\ x \in Uuid /\ x \in 1..uuids
      /\ UNCHANGED <<saved, uuids, suspect>>
  <2>1. OpType /\ CutInv /\ op[c] \in Storing /\ op[c].at = "update" /\ writer = Free
    BY StoresWhat DEF StoreInv, UpdateFile
  <2> QED
    BY <2>1 DEF StoreInv, UpdateFile, bounds, Storing, UpdateInv, DiskInv
<1>1. CASE Fails(c) /\ UNCHANGED <<mem, disk, writer, promised, touched>>
  <2>1. PromiseInv'
    BY <1>0, <1>1 DEF StoreInv, PromiseInv
  <2> QED
    BY <1>0, <1>1, <2>1, FailIs, QuietKeeps DEF Leads, Writing, Saves
<1>2. CASE /\ disk[x] # NoFile
           /\ disk' = [disk EXCEPT ![x] = NoFile]
           /\ mem' = WithoutArtifact(mem, x)
           /\ writer' = c
           /\ Goes(c, "make")
           /\ Promise(y, NoFile)
           /\ touched' = touched \cup {x}
  <2>1. \A d \in Clients : op[d].at \notin Writing
    BY <1>0, OnlyWriter DEF Writing
  <2>2. mem.uuidOf[y] = x
    BY <1>0, <1>2, <2>1 DEF StoreInv, UpdateInv, Rewrites, Writing
  <2>3. \A n \in Names : mem.uuidOf[n] = x => n = y
    BY <1>0, <2>2 DEF StoreInv, Agree
  <2>4. /\ mem' = [uuidOf |-> mem'.uuidOf, full |-> mem'.full, md5 |-> mem'.md5]
        /\ mem'.uuidOf = [n \in Names |-> IF mem.uuidOf[n] = x THEN None ELSE mem.uuidOf[n]]
        /\ mem'.md5 = [mem.md5 EXCEPT ![x] = NoHash]
        /\ DOMAIN mem'.full = Shortened
    BY <1>0, <1>2, WithoutIs DEF StoreInv
  <2>5. /\ mem'.uuidOf[y] = None /\ \A n \in Names \ {y} : mem'.uuidOf[n] = mem.uuidOf[n] /\ mem.uuidOf[n] # x
        /\ mem'.md5[x] = NoHash /\ \A u \in Uuid \ {x} : mem'.md5[u] = mem.md5[u]
        /\ mem'.uuidOf \in [Names -> {None} \cup Uuid]
        /\ mem'.md5 \in [Uuid -> Contents \cup {NoHash, Empty}]
    BY <1>0, <2>2, <2>3, <2>4 DEF StoreInv, Agree
  <2>6. /\ disk'[x] = NoFile /\ \A u \in Uuid \ {x} : disk'[u] = disk[u]
        /\ disk' \in [Uuid -> Contents \cup {NoFile, Torn}]
    BY <1>0, <1>2 DEF StoreInv, DiskInv
  <2>7. saved.uuidOf[y] = x
    BY <1>0, <2>2 DEF StoreInv, SavedInv
  <2>8. /\ op'[c] \in Storing /\ op'[c].at = "make"
        /\ op'[c].kind = op[c].kind /\ op'[c].name = y /\ op'[c].uuid = x /\ op'[c].cut = op[c].cut
        /\ DOMAIN op' = Clients /\ \A d \in Clients \ {c} : op'[d] = op[d]
    BY <1>0, <1>2, GoesIs
  <2>9. Agree(saved)'
    BY <1>0 DEF StoreInv, Agree
  <2>10. Agree(mem)'
    BY <1>0, <2>2, <2>4, <2>5 DEF StoreInv, Agree
  <2>11. SavedInv'
    <3>1. \A n \in Names \ {y} : saved.uuidOf[n] # x
      BY <1>0, <2>7 DEF StoreInv, Agree
    <3>2. \A n \in Names \ {y} : saved.uuidOf[n] # None => disk'[saved.uuidOf[n]] = disk[saved.uuidOf[n]]
      BY <2>6, <3>1 DEF StoreInv, Agree
    <3>3. \A n \in Names \ {y} :
            /\ mem'.uuidOf[n] # None => saved.uuidOf[n] = mem'.uuidOf[n]
            /\ saved.uuidOf[n] # None => \/ mem'.uuidOf[n] = saved.uuidOf[n]
                                         \/ disk'[saved.uuidOf[n]] \notin Contents
      BY <2>5, <3>2 DEF StoreInv, SavedInv
    <3> QED
      BY <1>0, <2>5, <2>6, <2>7, <3>3 DEF SavedInv
  <2>12. DiskInv'
    BY <1>0, <2>6 DEF StoreInv, DiskInv
  <2>13. HashInv'
    BY <1>0, <1>2, <2>5, <2>6 DEF StoreInv, HashInv
  <2>14. OpType' /\ CutInv'
    BY <1>0, <2>8, MovesOn
  <2>15. WriterInv'
    BY <1>0, <1>2, <2>1, <2>8 DEF StoreInv, WriterInv, Writing
  <2>16. FillInv'
    <3>1. \A d \in Clients : op'[d].at \in Writing => d = c
      BY <2>1, <2>8
    <3>2. uuids' = uuids /\ x \in touched'
      BY <1>0, <1>2
    <3> QED
      BY <1>0, <2>5, <2>6, <2>7, <2>8, <3>1, <3>2 DEF FillInv
  <2>17. UpdateInv'
    <3> SUFFICES ASSUME NEW d \in Clients, op'[d].at = "update", NEW u, NEW n, u = op'[d].uuid, n = op'[d].name
                 PROVE  /\ u \in 1..uuids
                        /\ \/ mem'.uuidOf[n] = u
                           \/ \E w \in Clients : op'[w].at \in {"make", "refill"} /\ op'[w].uuid = u /\ op'[w].name = n
                           \/ disk'[u] = NoFile /\ \A w \in Clients : op'[w].at \in Writing => op'[w].uuid # u
      BY <1>0 DEF UpdateInv, Rewrites
    <3>1. op'[d] = op[d] /\ d # c
      BY <2>8
    <3>2. u \in 1..uuids /\ u \in Uuid /\ (mem.uuidOf[n] = u \/ disk[u] = NoFile)
      BY <2>1, <3>1 DEF StoreInv, UpdateInv, Rewrites, Writing, DiskInv
    <3>3. n \in Names
      BY <3>1, StoresWhat DEF StoreInv, Storing
    <3>4. CASE u # x
      BY <2>1, <2>5, <2>6, <2>8, <3>2, <3>3, <3>4, <2>2
    <3>5. CASE u = x
      <4>1. n = y
        BY <1>2, <2>3, <3>2, <3>3, <3>5
      <4> QED
        BY <2>8, <3>2, <3>5, <4>1
    <3> QED
      BY <3>4, <3>5
  <2>18. PromiseInv'
    <3>1. \A n \in Names \ {y} : mem'.uuidOf[n] # None => mem'.uuidOf[n] \in Uuid \ {x}
      BY <2>5
    <3>2. promised'[y] = NoFile /\ \A n \in Names \ {y} : promised'[n] = promised[n]
      BY <1>0, <1>2 DEF StoreInv, PromiseInv, Promise
    <3>3. promised' \in [Names -> Contents \cup {NoFile}]
      BY <1>0, <1>2 DEF StoreInv, PromiseInv, Promise
    <3> QED
      BY <1>0, <2>5, <2>6, <3>1, <3>2, <3>3 DEF StoreInv, PromiseInv
  <2> QED
    BY <2>9, <2>10, <2>11, <2>12, <2>13, <2>14, <2>15, <2>16, <2>17, <2>18 DEF StoreInv
<1> QED
  BY <1>1, <1>2 DEF UpdateFile

(* What is known of the one who writes.                                    *)
LEMMA WriterKnows ==
  ASSUME StoreInv, NEW c \in Clients, op[c].at \in Writing
  PROVE  /\ OpType /\ CutInv /\ op[c] \in Storing /\ writer = c
         /\ op[c].name \in Names /\ op[c].data \in Contents /\ op[c].uuid \in Uuid /\ op[c].uuid \in 1..uuids
         /\ mem.uuidOf[op[c].name] = None /\ mem.md5[op[c].uuid] = NoHash
         /\ \A n \in Names : mem.uuidOf[n] # op[c].uuid
         /\ \A n \in Names \ {op[c].name} : saved.uuidOf[n] # op[c].uuid
         /\ op[c].at = "fill" => saved.md5[op[c].uuid] = NoHash
         /\ op[c].at # "fill" => op[c].uuid \in touched
         /\ \A d \in Clients \ {c} : op[d].at \notin Writing
<1>1. OpType /\ CutInv /\ op[c] \in Storing /\ writer = c
  BY StoresWhat DEF StoreInv, WriterInv, Writing
<1>2. /\ op[c].name \in Names /\ op[c].data \in Contents /\ op[c].uuid \in Uuid /\ op[c].uuid \in 1..uuids
      /\ mem.uuidOf[op[c].name] = None
      /\ op[c].at # "fill" => op[c].uuid \in touched
  BY <1>1 DEF StoreInv, FillInv, Storing, DiskInv
<1>3. \A n \in Names \ {op[c].name} : saved.uuidOf[n] # op[c].uuid
  BY <1>2 DEF StoreInv, FillInv, Agree
<1>4. \A n \in Names : mem.uuidOf[n] # op[c].uuid
  BY <1>2, <1>3 DEF StoreInv, SavedInv
<1>5. mem.md5[op[c].uuid] = NoHash
  BY <1>2, <1>4 DEF StoreInv, Agree
<1>6. op[c].at = "fill" => saved.md5[op[c].uuid] = NoHash
  BY <1>2 DEF StoreInv, FillInv, Agree
<1> QED
  BY <1>1, <1>2, <1>3, <1>4, <1>5, <1>6, OnlyWriter

(* A writer that gives up leaves its UUID without a file and without a     *)
(* name.                                                                   *)
LEMMA GivingUpKeeps ==
  ASSUME StoreInv, NEW c \in Clients, op[c].at \in Writing, Fails(c) \/ Ends(c), writer' = Free,
         disk' = [disk EXCEPT ![op[c].uuid] = NoFile],
         UNCHANGED <<mem, saved, uuids, promised, touched, suspect>>
  PROVE  StoreInv'
<1> DEFINE x == op[c].uuid  y == op[c].name
<1>1. /\ disk'[x] = NoFile /\ \A u \in Uuid \ {x} : disk'[u] = disk[u]
      /\ disk' \in [Uuid -> Contents \cup {NoFile, Torn}]
  BY WriterKnows DEF StoreInv, DiskInv
<1>2. /\ OpType' /\ CutInv'
      /\ op'[c].at \in {"idle", "stuck"} /\ \A d \in Clients \ {c} : op'[d] = op[d]
  BY WriterKnows, FailIs
<1>3. \A d \in Clients : op'[d].at \notin Writing
  BY <1>2, WriterKnows DEF Writing
<1>4. Agree(mem)' /\ Agree(saved)'
  BY DEF StoreInv, Agree
<1>5. SavedInv'
  BY <1>1, WriterKnows DEF StoreInv, SavedInv, Agree
<1>6. DiskInv'
  BY <1>1 DEF StoreInv, DiskInv
<1>7. HashInv'
  BY <1>1, WriterKnows DEF StoreInv, HashInv
<1>8. WriterInv' /\ FillInv'
  BY <1>3 DEF WriterInv, FillInv
<1>9. UpdateInv'
  <2> SUFFICES ASSUME NEW d \in Clients, op'[d].at = "update", NEW u, NEW n, u = op'[d].uuid, n = op'[d].name
               PROVE  u \in 1..uuids /\ (mem.uuidOf[n] = u \/ disk'[u] = NoFile)
    BY <1>3 DEF UpdateInv, Rewrites
  <2>1. op'[d] = op[d]
    BY <1>2
  <2>2. /\ u \in 1..uuids /\ u \in Uuid
        /\ \/ mem.uuidOf[n] = u
           \/ u = x
           \/ disk[u] = NoFile
    BY <2>1, WriterKnows DEF StoreInv, UpdateInv, Rewrites, Writing, DiskInv
  <2> QED
    BY <1>1, <2>2
<1>10. PromiseInv'
  BY <1>1, WriterKnows DEF StoreInv, PromiseInv, Agree
<1> QED
  BY <1>2, <1>4, <1>5, <1>6, <1>7, <1>8, <1>9, <1>10 DEF StoreInv

LEMMA FillFailsKeeps == ASSUME StoreInv, NEW c \in Clients, FillFails(c) PROVE StoreInv'
BY GivingUpKeeps DEF FillFails, maps, bounds, history, Writing

LEMMA MakeKeeps == ASSUME StoreInv, NEW c \in Clients, Make(c) PROVE StoreInv'
<1> DEFINE x == op[c].uuid  y == op[c].name
<1>0. /\ op[c].at = "make" /\ op[c].at \in Writing /\ disk[x] = NoFile
      /\ x \in touched /\ saved.uuidOf[y] = x
      /\ UNCHANGED <<mem, saved, uuids, promised, touched, suspect>>
  BY DEF StoreInv, Make, maps, bounds, history, Writing, FillInv
<1>1. CASE Fails(c) /\ writer' = Free /\ UNCHANGED disk
  <2>1. disk' = [disk EXCEPT ![x] = NoFile]
    BY <1>0, <1>1 DEF StoreInv, DiskInv
  <2> QED
    BY <1>0, <1>1, <2>1, GivingUpKeeps
<1>2. CASE disk' = [disk EXCEPT ![x] = Torn] /\ Goes(c, "refill") /\ writer' = writer
  <2>0. /\ x \in Uuid /\ x \in 1..uuids /\ y \in Names /\ mem.uuidOf[y] = None /\ mem.md5[x] = NoHash
        /\ \A n \in Names : mem.uuidOf[n] # x
        /\ \A n \in Names \ {y} : saved.uuidOf[n] # x
        /\ OpType /\ CutInv /\ op[c] \in Storing /\ writer = c
        /\ \A d \in Clients \ {c} : op[d].at \notin Writing
    BY <1>0, WriterKnows
  <2>1. /\ disk'[x] = Torn /\ \A u \in Uuid \ {x} : disk'[u] = disk[u]
        /\ disk' \in [Uuid -> Contents \cup {NoFile, Torn}]
    BY <1>2, <2>0 DEF StoreInv, DiskInv
  <2>2. /\ op'[c] \in Storing /\ op'[c].at = "refill"
        /\ op'[c].kind = op[c].kind /\ op'[c].name = y /\ op'[c].uuid = x /\ op'[c].cut = op[c].cut
        /\ DOMAIN op' = Clients /\ \A d \in Clients \ {c} : op'[d] = op[d]
    BY <1>2, <2>0, GoesIs
  <2>3. Agree(mem)' /\ Agree(saved)'
    BY <1>0 DEF StoreInv, Agree
  <2>4. SavedInv'
    <3>1. \A n \in Names \ {y} : saved.uuidOf[n] # None => disk'[saved.uuidOf[n]] = disk[saved.uuidOf[n]]
      BY <2>0, <2>1 DEF StoreInv, Agree
    <3> QED
      BY <1>0, <2>0, <2>1, <3>1 DEF StoreInv, SavedInv
  <2>5. DiskInv'
    BY <1>0, <2>1 DEF StoreInv, DiskInv
  <2>6. HashInv'
    BY <1>0, <2>0, <2>1 DEF StoreInv, HashInv
  <2>7. OpType' /\ CutInv'
    BY <2>0, <2>2, MovesOn
  <2>8. WriterInv'
    BY <1>0, <1>2, <2>0, <2>2 DEF StoreInv, WriterInv, Writing
  <2>9. FillInv'
    <3>1. \A d \in Clients : op'[d].at \in Writing => d = c
      BY <2>0, <2>2
    <3> QED
      BY <1>0, <2>0, <2>1, <2>2, <3>1 DEF FillInv
  <2>10. UpdateInv'
    <3> SUFFICES ASSUME NEW d \in Clients, op'[d].at = "update", NEW u, NEW n, u = op'[d].uuid, n = op'[d].name
                 PROVE  /\ u \in 1..uuids
                        /\ \/ mem.uuidOf[n] = u
                           \/ \E w \in Clients : op'[w].at \in {"make", "refill"} /\ op'[w].uuid = u /\ op'[w].name = n
                           \/ disk'[u] = NoFile /\ \A w \in Clients : op'[w].at \in Writing => op'[w].uuid # u
      BY <1>0 DEF UpdateInv, Rewrites
    <3>1. op'[d] = op[d]
      BY <2>2
    <3>2. /\ u \in 1..uuids /\ u \in Uuid
          /\ \/ mem.uuidOf[n] = u
             \/ u = x /\ n = y
             \/ disk[u] = NoFile /\ u # x
      BY <1>0, <2>0, <3>1 DEF StoreInv, UpdateInv, Rewrites, Writing, DiskInv
    <3>3. \A w \in Clients : op'[w].at \in Writing => op'[w].uuid = x
      BY <2>0, <2>2
    <3> QED
      BY <2>1, <2>2, <3>2, <3>3
  <2>11. PromiseInv'
    <3>1. \A n \in Names : mem.uuidOf[n] # None => disk'[mem.uuidOf[n]] = disk[mem.uuidOf[n]]
      BY <2>0, <2>1 DEF StoreInv, Agree
    <3> QED
      BY <1>0, <3>1 DEF StoreInv, PromiseInv
  <2> QED
    BY <2>3, <2>4, <2>5, <2>6, <2>7, <2>8, <2>9, <2>10, <2>11 DEF StoreInv
<1> QED
  BY <1>1, <1>2 DEF Make

LEMMA FilledKeeps == ASSUME StoreInv, NEW c \in Clients, Filled(c) PROVE StoreInv'
<1> DEFINE x == op[c].uuid  y == op[c].name  h == Md5Of(op[c])
           content == IF op[c].cut THEN Torn ELSE op[c].data
<1>0. /\ op[c].at \in {"fill", "refill"} /\ op[c].at \in Writing
      /\ disk' = [disk EXCEPT ![x] = content]
      /\ mem' = WithArtifact(mem, y, x, h)
      /\ IF op[c].at = "fill" THEN saved' = mem' /\ touched' = {} ELSE UNCHANGED <<saved, touched>>
      /\ suspect' = suspect \ {x}
      /\ IF content = Torn THEN UNCHANGED promised ELSE Promise(y, op[c].data)
      /\ writer' = Free /\ Ends(c) /\ uuids' = uuids
  BY DEF Filled, Writing, Persist, bounds
<1>1. /\ x \in Uuid /\ x \in 1..uuids /\ y \in Names /\ mem.uuidOf[y] = None /\ mem.md5[x] = NoHash
      /\ op[c].data \in Contents
      /\ \A n \in Names : mem.uuidOf[n] # x
      /\ \A n \in Names \ {y} : saved.uuidOf[n] # x
      /\ OpType /\ CutInv /\ op[c] \in Storing /\ writer = c
      /\ \A d \in Clients \ {c} : op[d].at \notin Writing
  BY <1>0, WriterKnows
<1>2. h \in Contents \cup {Empty} /\ (h \in Contents => content = h) /\ h # NoHash
  BY <1>1 DEF Md5Of, CutInv
<1>3. content \in Contents \cup {NoFile, Torn} /\ (content = Torn \/ content = op[c].data)
  BY <1>1
<1> HIDE DEF h, content
<1>4. /\ disk'[x] = content /\ \A u \in Uuid \ {x} : disk'[u] = disk[u]
      /\ disk' \in [Uuid -> Contents \cup {NoFile, Torn}]
  BY <1>0, <1>1, <1>3 DEF StoreInv, DiskInv
<1>5. /\ mem' = [uuidOf |-> mem'.uuidOf, full |-> mem'.full, md5 |-> mem'.md5]
      /\ mem'.uuidOf = [mem.uuidOf EXCEPT ![y] = x]
      /\ mem'.md5 = [mem.md5 EXCEPT ![x] = h]
      /\ DOMAIN mem'.full = Shortened
  BY <1>0, <1>1, <1>2, WithIs DEF StoreInv
<1>6. /\ mem'.uuidOf[y] = x /\ \A n \in Names \ {y} : mem'.uuidOf[n] = mem.uuidOf[n]
      /\ mem'.md5[x] = h /\ \A u \in Uuid \ {x} : mem'.md5[u] = mem.md5[u]
      /\ mem'.uuidOf \in [Names -> {None} \cup Uuid]
      /\ mem'.md5 \in [Uuid -> Contents \cup {NoHash, Empty}]
  BY <1>1, <1>2, <1>5 DEF StoreInv, Agree
<1>7. /\ op'[c] = Idle /\ op'[c].at = "idle"
      /\ DOMAIN op' = Clients /\ \A d \in Clients \ {c} : op'[d] = op[d]
  BY <1>0, <1>1, EndsIs
<1>8. \A d \in Clients : op'[d].at \notin Writing
  BY <1>1, <1>7 DEF Writing
<1>9. Agree(mem)'
  <2>1. \A u \in Uuid : mem'.md5[u] # NoHash <=> \E n \in Names : mem'.uuidOf[n] = u
    <3> SUFFICES ASSUME NEW u \in Uuid
                 PROVE  mem'.md5[u] # NoHash <=> \E n \in Names : mem'.uuidOf[n] = u
      OBVIOUS
    <3>1. CASE u = x
      BY <1>1, <1>2, <1>6, <3>1
    <3>2. CASE u # x
      <4>1. \A n \in Names : mem'.uuidOf[n] = u <=> mem.uuidOf[n] = u
        BY <1>1, <1>6, <3>2
      <4> QED
        BY <1>6, <3>2, <4>1 DEF StoreInv, Agree
    <3> QED
      BY <3>1, <3>2
  <2> QED
    BY <1>0, <1>1, <1>5, <1>6, <2>1 DEF StoreInv, Agree
<1>10. Agree(saved)'
  BY <1>0, <1>9 DEF StoreInv, Agree
<1>11. SavedInv'
  <2>1. CASE op[c].at = "fill"
    BY <1>0, <2>1 DEF SavedInv
  <2>2. CASE op[c].at = "refill"
    <3>1. saved' = saved /\ saved.uuidOf[y] = x
      BY <1>0, <2>2 DEF StoreInv, FillInv
    <3>2. \A n \in Names \ {y} : saved.uuidOf[n] # None => disk'[saved.uuidOf[n]] = disk[saved.uuidOf[n]]
      BY <1>1, <1>4 DEF StoreInv, Agree
    <3> QED
      BY <1>1, <1>6, <3>1, <3>2 DEF StoreInv, SavedInv
  <2> QED
    BY <1>0, <2>1, <2>2
<1>12. DiskInv'
  BY <1>0, <1>4 DEF StoreInv, DiskInv
<1>13. HashInv'
  <2>1. \A u \in Uuid \ suspect' : mem'.md5[u] \in Contents => disk'[u] = mem'.md5[u]
    BY <1>0, <1>1, <1>2, <1>4, <1>6 DEF StoreInv, HashInv
  <2>2. CASE op[c].at = "fill"
    BY <1>0, <2>1, <2>2 DEF HashInv
  <2>3. CASE op[c].at = "refill"
    <3>1. saved' = saved /\ touched' = touched /\ x \in touched
      BY <1>0, <2>3, WriterKnows
    <3> QED
      BY <1>0, <1>1, <1>4, <2>1, <3>1 DEF StoreInv, HashInv
  <2> QED
    BY <1>0, <2>2, <2>3
<1>14. OpType' /\ CutInv'
  BY <1>1, <1>7, FailIs, <1>0
<1>15. WriterInv' /\ FillInv'
  BY <1>0, <1>8 DEF WriterInv, FillInv
<1>16. UpdateInv'
  <2> SUFFICES ASSUME NEW d \in Clients, op'[d].at = "update", NEW u, NEW n, u = op'[d].uuid, n = op'[d].name
               PROVE  u \in 1..uuids /\ (mem'.uuidOf[n] = u \/ disk'[u] = NoFile)
    BY <1>0, <1>8 DEF UpdateInv, Rewrites
  <2>1. op'[d] = op[d]
    BY <1>7
  <2>2. n \in Names
    BY <1>1, <2>1, StoresWhat DEF Storing
  <2>3. /\ u \in 1..uuids /\ u \in Uuid
        /\ \/ mem.uuidOf[n] = u
           \/ u = x /\ n = y
           \/ disk[u] = NoFile /\ u # x
    BY <1>0, <1>1, <2>1 DEF StoreInv, UpdateInv, Rewrites, Writing, DiskInv
  <2> QED
    BY <1>1, <1>4, <1>6, <2>2, <2>3
<1>17. PromiseInv'
  <2>1. promised[y] = NoFile
    BY <1>1 DEF StoreInv, PromiseInv
  <2>2. /\ promised' \in [Names -> Contents \cup {NoFile}]
        /\ \A n \in Names \ {y} : promised'[n] = promised[n]
        /\ promised'[y] = NoFile \/ promised'[y] = content
    BY <1>0, <1>1, <1>3, <2>1 DEF StoreInv, PromiseInv, Promise
  <2>3. \A n \in Names \ {y} : mem.uuidOf[n] # None => disk'[mem.uuidOf[n]] = disk[mem.uuidOf[n]]
    BY <1>1, <1>4 DEF StoreInv, Agree
  <2>4. \A n \in Names \ {y} : promised'[n] # NoFile =>
          mem'.uuidOf[n] # None /\ disk'[mem'.uuidOf[n]] = promised'[n]
    BY <1>6, <2>2, <2>3 DEF StoreInv, PromiseInv
  <2> QED
    BY <1>1, <1>4, <1>6, <2>2, <2>4 DEF PromiseInv
<1> QED
  BY <1>9, <1>10, <1>11, <1>12, <1>13, <1>14, <1>15, <1>16, <1>17 DEF StoreInv

LEMMA CrashKeeps == ASSUME StoreInv, Crash PROVE StoreInv'
<1>1. /\ mem' = saved /\ saved' = saved /\ disk' = disk /\ writer' = Free /\ uuids' = uuids
      /\ op' = [c \in Clients |-> Idle] /\ suspect' = suspect \cup touched /\ touched' = {}
      /\ promised' = promised
  BY DEF Crash
<1>2. Agree(mem)' /\ Agree(saved)'
  BY <1>1 DEF StoreInv, Agree
<1>3. SavedInv' /\ DiskInv' /\ HashInv'
  BY <1>1 DEF StoreInv, SavedInv, DiskInv, HashInv
<1>4. OpType' /\ CutInv' /\ WriterInv' /\ FillInv' /\ UpdateInv'
  BY <1>1 DEF OpType, CutInv, WriterInv, FillInv, UpdateInv, Idle, Storing, Writing
<1>5. PromiseInv'
  BY <1>1 DEF StoreInv, PromiseInv, SavedInv
<1> QED
  BY <1>2, <1>3, <1>4, <1>5 DEF StoreInv

-----------------------------------------------------------------------------
LEMMA InitStore == Init => StoreInv
<1> SUFFICES ASSUME Init PROVE StoreInv
  OBVIOUS
<1>1. Agree(mem) /\ Agree(saved)
  BY DEF Init, Agree, Shortened
<1>2. OpType /\ CutInv /\ WriterInv /\ FillInv /\ UpdateInv
  BY DEF Init, OpType, CutInv, WriterInv, FillInv, UpdateInv, Idle, Storing, Writing
<1>3. SavedInv /\ DiskInv /\ HashInv /\ PromiseInv
  BY DEF Init, SavedInv, DiskInv, HashInv, PromiseInv
<1> QED
  BY <1>1, <1>2, <1>3 DEF StoreInv

LEMMA NextStore == StoreInv /\ [Next]_vars => StoreInv'
<1> SUFFICES ASSUME StoreInv, [Next]_vars PROVE StoreInv'
  OBVIOUS
<1>1. CASE UNCHANGED vars
  BY <1>1 DEF vars, maps, bounds, history, StoreInv, Agree, SavedInv, DiskInv, HashInv, OpType,
              WriterInv, FillInv, CutInv, UpdateInv, Rewrites, PromiseInv
<1>2. CASE Next
  BY <1>2, RequestKeeps, LookKeeps, StoreFileKeeps, UpdateFileKeeps, MakeKeeps, FilledKeeps,
     FillFailsKeeps, OpenKeeps, CopyCutKeeps, CrashKeeps DEF Next, Step
<1> QED
  BY <1>1, <1>2

LEMMA StoreInvariant == Spec => []StoreInv
BY InitStore, NextStore, PTL DEF Spec

(* What an instruction or a caller was told is stored is there, whole and  *)
(* found under its name, until a replacement of it begins: whatever others *)
(* store, replace or fail to store, and across crashes that bring back the *)
(* maps the database has.                                                  *)
THEOREM StoredIsThere == Spec => []PromisesKept
<1>1. StoreInv => PromisesKept
  <2> SUFFICES ASSUME StoreInv, NEW n \in Names, promised[n] # NoFile
               PROVE  /\ mem.uuidOf[n] # None /\ disk[mem.uuidOf[n]] = promised[n]
                      /\ Lookup(n).found = "yes"
    BY DEF PromisesKept
  <2>1. mem.uuidOf[n] # None /\ disk[mem.uuidOf[n]] = promised[n]
    BY DEF StoreInv, PromiseInv
  <2>2. Known(mem.uuidOf[n])
    BY <2>1 DEF StoreInv, Agree, Known
  <2> QED
    BY <2>1, <2>2, NameLeads DEF StoreInv, Agree
<1> QED
  BY <1>1, StoreInvariant, PTL

-----------------------------------------------------------------------------
(* The artifact of a name is the one the maps have, else the one that is   *)
(* being replaced, else there is none.                                     *)
Replacing(c, n) == op[c].at \in {"make", "refill"} /\ op[c].name = n
Shown(u) == IF disk[u] \in Contents THEN disk[u] ELSE Torn

ArtifactsInv ==
  \A n \in Names :
    /\ mem.uuidOf[n] # None =>
         /\ Artifact(n) = [id |-> mem.uuidOf[n], content |-> Shown(mem.uuidOf[n])]
         /\ mem.uuidOf[n] \in Uuid
    /\ \A c \in Clients : Replacing(c, n) =>
         Artifact(n) = [id |-> op[c].uuid, content |-> Torn] /\ op[c].uuid \in Uuid
    /\ mem.uuidOf[n] = None /\ (\A c \in Clients : ~Replacing(c, n)) => Artifact(n) = NoFile

LEMMA ArtifactIs == StoreInv => ArtifactsInv
<1> SUFFICES ASSUME StoreInv, NEW n \in Names
             PROVE  /\ mem.uuidOf[n] # None =>
                         /\ Artifact(n) = [id |-> mem.uuidOf[n], content |-> Shown(mem.uuidOf[n])]
                         /\ mem.uuidOf[n] \in Uuid
                    /\ \A c \in Clients : Replacing(c, n) =>
                         Artifact(n) = [id |-> op[c].uuid, content |-> Torn] /\ op[c].uuid \in Uuid
                    /\ mem.uuidOf[n] = None /\ (\A c \in Clients : ~Replacing(c, n)) => Artifact(n) = NoFile
  BY DEF ArtifactsInv
<1> DEFINE ids == ({mem.uuidOf[n]} \cup {op[c].uuid : c \in Replaced(n)}) \ {None}
<1>1. \A c \in Clients : Replacing(c, n) =>
        /\ mem.uuidOf[n] = None /\ op[c].uuid \in Uuid /\ op[c].uuid # None
        /\ disk[op[c].uuid] \notin Contents
        /\ \A d \in Clients : Replacing(d, n) => d = c
  BY WriterKnows DEF Replacing, Writing, StoreInv, FillInv
<1>2. Replaced(n) = {c \in Clients : Replacing(c, n)}
  BY DEF Replaced, Replacing
<1>3. \A u : ids = {u} => Artifact(n) = [id |-> u, content |-> Shown(u)]
  <2> SUFFICES ASSUME NEW u, ids = {u} PROVE Artifact(n) = [id |-> u, content |-> Shown(u)]
    OBVIOUS
  <2>1. (CHOOSE i \in ids : TRUE) = u
    OBVIOUS
  <2>2. ids # {}
    OBVIOUS
  <2> HIDE DEF ids
  <2>3. Artifact(n) = IF ids = {} THEN NoFile
                      ELSE [id |-> CHOOSE i \in ids : TRUE, content |-> Shown(CHOOSE i \in ids : TRUE)]
    BY DEF Artifact, ids, Shown
  <2> QED
    BY <2>1, <2>2, <2>3
<1>4. ids = {} => Artifact(n) = NoFile
  BY DEF Artifact
<1>5. CASE mem.uuidOf[n] # None
  <2>1. Replaced(n) = {}
    BY <1>1, <1>2, <1>5
  <2>2. ids = {mem.uuidOf[n]}
    BY <1>5, <2>1
  <2>3. mem.uuidOf[n] \in Uuid
    BY <1>5 DEF StoreInv, Agree
  <2> HIDE DEF ids
  <2> QED
    BY <1>1, <1>3, <1>5, <2>2, <2>3
<1>6. ASSUME NEW c \in Clients, Replacing(c, n)
      PROVE  mem.uuidOf[n] = None /\ Artifact(n) = [id |-> op[c].uuid, content |-> Torn] /\ op[c].uuid \in Uuid
  <2>1. Replaced(n) = {c}
    BY <1>1, <1>2, <1>6
  <2>2. ids = {op[c].uuid}
    BY <1>1, <1>6, <2>1
  <2>3. Shown(op[c].uuid) = Torn
    BY <1>1, <1>6 DEF Shown
  <2> HIDE DEF ids
  <2> QED
    BY <1>1, <1>3, <1>6, <2>2, <2>3
<1>7. CASE mem.uuidOf[n] = None /\ (\A c \in Clients : ~Replacing(c, n))
  <2>1. Replaced(n) = {}
    BY <1>2, <1>7
  <2>2. ids = {}
    BY <1>7, <2>1
  <2> HIDE DEF ids
  <2> QED
    BY <1>4, <1>7, <2>2
<1> QED
  BY <1>5, <1>6, <1>7

(* An artifact that nothing touches stays what it is.                      *)
LEMMA Untouched ==
  ASSUME ArtifactsInv, ArtifactsInv', NEW n \in Names,
         mem'.uuidOf[n] = mem.uuidOf[n],
         mem.uuidOf[n] # None => disk'[mem.uuidOf[n]] = disk[mem.uuidOf[n]],
         \A c \in Clients : /\ Replacing(c, n)' <=> Replacing(c, n)
                            /\ Replacing(c, n) => op'[c].uuid = op[c].uuid
  PROVE  Artifact(n)' = Artifact(n)
<1>1. CASE mem.uuidOf[n] # None
  BY <1>1 DEF ArtifactsInv, Shown
<1>2. CASE \E c \in Clients : Replacing(c, n)
  BY <1>2 DEF ArtifactsInv
<1>3. CASE mem.uuidOf[n] = None /\ \A c \in Clients : ~Replacing(c, n)
  BY <1>3 DEF ArtifactsInv
<1> QED
  BY <1>1, <1>2, <1>3

LEMMA NothingTouched ==
  ASSUME \A n \in Names : Artifact(n)' = Artifact(n)
  PROVE  Artifacts' = Artifacts
BY DEF Artifacts

LEMMA OneTouched ==
  ASSUME NEW y \in Names, \A n \in Names \ {y} : Artifact(n)' = Artifact(n)
  PROVE  /\ Artifacts' = [Artifacts EXCEPT ![y] = Artifact(y)'] /\ Artifacts[y] = Artifact(y)
         /\ Artifact(y)' = Artifact(y) => Artifacts' = Artifacts
BY DEF Artifacts

(* Steps of an operation that is not being written leave every artifact.   *)
LEMMA QuietStutters ==
  ASSUME ArtifactsInv, ArtifactsInv', NEW c \in Clients, mem' = mem,
         \A n \in Names : mem.uuidOf[n] # None => disk'[mem.uuidOf[n]] = disk[mem.uuidOf[n]],
         op[c].at \notin {"make", "refill"}, op'[c].at \notin {"make", "refill"},
         \A d \in Clients \ {c} : op'[d] = op[d]
  PROVE  Artifacts' = Artifacts
<1>1. \A n \in Names : Artifact(n)' = Artifact(n)
  BY Untouched DEF Replacing
<1> QED
  BY <1>1, NothingTouched

(* Of a step of a writer, only the artifact it writes is touched.          *)
LEMMA OthersUntouched ==
  ASSUME StoreInv, ArtifactsInv, ArtifactsInv', NEW c \in Clients, NEW x \in Uuid, NEW y \in Names,
         op[c].at \notin {"make", "refill"} \/ op[c].name = y,
         op'[c].at \notin {"make", "refill"} \/ op'[c].name = y,
         \A d \in Clients \ {c} : op'[d] = op[d],
         \A n \in Names \ {y} : mem'.uuidOf[n] = mem.uuidOf[n] /\ mem.uuidOf[n] # x,
         \A u \in Uuid \ {x} : disk'[u] = disk[u]
  PROVE  /\ Artifacts' = [Artifacts EXCEPT ![y] = Artifact(y)'] /\ Artifacts[y] = Artifact(y)
         /\ Artifact(y)' = Artifact(y) => Artifacts' = Artifacts
<1>1. ASSUME NEW n \in Names \ {y} PROVE Artifact(n)' = Artifact(n)
  <2>1. mem.uuidOf[n] # None => disk'[mem.uuidOf[n]] = disk[mem.uuidOf[n]]
    BY DEF StoreInv, Agree
  <2>2. \A d \in Clients : (Replacing(d, n)' <=> Replacing(d, n)) /\ (Replacing(d, n) => op'[d].uuid = op[d].uuid)
    BY DEF Replacing
  <2> QED
    BY <2>1, <2>2, Untouched
<1> QED
  BY <1>1, OneTouched

LEMMA GivingUpLoses ==
  ASSUME StoreInv, ArtifactsInv, ArtifactsInv', NEW c \in Clients, op[c].at \in Writing,
         Fails(c) \/ Ends(c),
         disk' = [disk EXCEPT ![op[c].uuid] = NoFile], mem' = mem
  PROVE  [Map!Next]_Artifacts
<1> SUFFICES ASSUME NEW x, NEW y, x = op[c].uuid, y = op[c].name PROVE [Map!Next]_Artifacts
  OBVIOUS
<1>1. /\ x \in Uuid /\ y \in Names /\ mem.uuidOf[y] = None /\ \A n \in Names : mem.uuidOf[n] # x
      /\ \A d \in Clients \ {c} : op[d].at \notin Writing
  BY WriterKnows
<1>2. op'[c].at \in {"idle", "stuck"} /\ \A d \in Clients \ {c} : op'[d] = op[d]
  BY WriterKnows, FailIs
<1>3. \A u \in Uuid \ {x} : disk'[u] = disk[u]
  BY <1>1 DEF StoreInv, DiskInv
<1>4. /\ Artifacts' = [Artifacts EXCEPT ![y] = Artifact(y)']
      /\ Artifact(y)' = Artifact(y) => Artifacts' = Artifacts
  BY <1>1, <1>2, <1>3, OthersUntouched
<1>5. Artifact(y)' = NoFile
  BY <1>1, <1>2 DEF ArtifactsInv, Replacing, Writing
<1>6. CASE op[c].at = "fill"
  <2>1. Artifact(y) = NoFile
    BY <1>1, <1>6 DEF ArtifactsInv, Replacing, Writing
  <2> QED
    BY <1>4, <1>5, <2>1
<1>7. CASE op[c].at # "fill"
  <2>1. Artifact(y) = [id |-> x, content |-> Torn]
    BY <1>1, <1>7 DEF ArtifactsInv, Replacing, Writing
  <2>2. Artifacts[y] # NoFile /\ Artifacts[y].content = Torn
    BY <1>1, <2>1 DEF Artifacts
  <2> QED
    BY <1>1, <1>4, <1>5, <2>2 DEF Map!Next, Map!Lose
<1> QED
  BY <1>6, <1>7

LEMMA UpdateFileMaps ==
  ASSUME StoreInv, ArtifactsInv, ArtifactsInv', NEW c \in Clients, UpdateFile(c)
  PROVE  [Map!Next]_Artifacts
<1> SUFFICES ASSUME NEW x, NEW y, x = op[c].uuid, y = op[c].name PROVE [Map!Next]_Artifacts
  OBVIOUS
<1>0. /\ OpType /\ CutInv /\ op[c] \in Storing /\ op[c].at = "update" /\ writer = Free
      /\ y \in Names /\ x \in Uuid
  <2>1. OpType /\ CutInv /\ op[c] \in Storing /\ op[c].at = "update" /\ writer = Free
    BY StoresWhat DEF StoreInv, UpdateFile
  <2> QED
    BY <2>1 DEF StoreInv, Storing, UpdateInv, DiskInv
<1>1. CASE Fails(c) /\ UNCHANGED <<mem, disk>>
  BY <1>0, <1>1, FailIs, QuietStutters
<1>2. CASE /\ disk[x] # NoFile
           /\ disk' = [disk EXCEPT ![x] = NoFile]
           /\ mem' = WithoutArtifact(mem, x)
           /\ Goes(c, "make")
  <2>1. \A d \in Clients : op[d].at \notin Writing
    BY <1>0, OnlyWriter DEF Writing
  <2>2. mem.uuidOf[y] = x /\ x # None
    BY <1>0, <1>2, <2>1 DEF StoreInv, UpdateInv, Rewrites, Writing
  <2>3. /\ mem' = [uuidOf |-> mem'.uuidOf, full |-> mem'.full, md5 |-> mem'.md5]
        /\ mem'.uuidOf = [n \in Names |-> IF mem.uuidOf[n] = x THEN None ELSE mem.uuidOf[n]]
        /\ mem'.md5 = [mem.md5 EXCEPT ![x] = NoHash]
        /\ DOMAIN mem'.full = Shortened
    BY <1>0, <1>2, WithoutIs DEF StoreInv
  <2>4. \A n \in Names \ {y} : mem'.uuidOf[n] = mem.uuidOf[n] /\ mem.uuidOf[n] # x
    BY <1>0, <2>2, <2>3 DEF StoreInv, Agree
  <2>5. /\ op'[c].at = "make" /\ op'[c].name = y /\ op'[c].uuid = x
        /\ \A d \in Clients \ {c} : op'[d] = op[d]
    BY <1>0, <1>2, GoesIs
  <2>6. \A u \in Uuid \ {x} : disk'[u] = disk[u]
    BY <1>0, <1>2 DEF StoreInv, DiskInv
  <2>7. Artifacts' = [Artifacts EXCEPT ![y] = Artifact(y)']
    BY <1>0, <2>4, <2>5, <2>6, OthersUntouched
  <2>8. Artifact(y)' = [id |-> x, content |-> Torn]
    BY <1>0, <2>5 DEF ArtifactsInv, Replacing
  <2>9. Artifacts[y] = [id |-> x, content |-> Shown(x)] /\ Shown(x) \in Contents \cup {Torn}
    BY <1>0, <2>2 DEF ArtifactsInv, Artifacts, Shown
  <2>10. Artifact(y)' = [Artifacts[y] EXCEPT !.content = Torn] /\ Artifacts[y] # NoFile
    BY <1>0, <2>8, <2>9
  <2>11. Artifacts' = [Artifacts EXCEPT ![y].content = Torn]
    BY <1>0, <2>7, <2>10
  <2> QED
    BY <1>0, <2>10, <2>11 DEF Map!Next, Map!StartReplacing
<1> QED
  BY <1>1, <1>2 DEF UpdateFile

LEMMA MakeMaps ==
  ASSUME StoreInv, ArtifactsInv, ArtifactsInv', NEW c \in Clients, Make(c)
  PROVE  [Map!Next]_Artifacts
<1> SUFFICES ASSUME NEW x, NEW y, x = op[c].uuid, y = op[c].name PROVE [Map!Next]_Artifacts
  OBVIOUS
<1>0. op[c].at = "make" /\ op[c].at \in Writing /\ disk[x] = NoFile /\ mem' = mem
  BY DEF StoreInv, Make, maps, Writing, FillInv
<1>1. CASE Fails(c) /\ UNCHANGED disk
  <2>1. disk' = [disk EXCEPT ![x] = NoFile]
    BY <1>0, <1>1 DEF StoreInv, DiskInv
  <2> QED
    BY <1>0, <1>1, <2>1, GivingUpLoses
<1>2. CASE disk' = [disk EXCEPT ![x] = Torn] /\ Goes(c, "refill")
  <2>1. /\ x \in Uuid /\ y \in Names /\ \A n \in Names : mem.uuidOf[n] # x
        /\ OpType /\ op[c] \in Storing
    BY <1>0, WriterKnows
  <2>2. /\ op'[c].at = "refill" /\ op'[c].name = y /\ op'[c].uuid = x
        /\ \A d \in Clients \ {c} : op'[d] = op[d]
    BY <1>2, <2>1, GoesIs
  <2>3. \A u \in Uuid \ {x} : disk'[u] = disk[u]
    BY <1>2, <2>1 DEF StoreInv, DiskInv
  <2>4. Artifact(y)' = Artifact(y) => Artifacts' = Artifacts
    BY <1>0, <2>1, <2>2, <2>3, OthersUntouched
  <2>5. Artifact(y)' = [id |-> x, content |-> Torn] /\ Artifact(y) = [id |-> x, content |-> Torn]
    BY <1>0, <2>1, <2>2 DEF ArtifactsInv, Replacing
  <2> QED
    BY <2>4, <2>5
<1> QED
  BY <1>1, <1>2 DEF Make

LEMMA FilledMaps ==
  ASSUME StoreInv, ArtifactsInv, ArtifactsInv', NEW c \in Clients, Filled(c)
  PROVE  [Map!Next]_Artifacts
<1> SUFFICES ASSUME NEW x, NEW y, x = op[c].uuid, y = op[c].name PROVE [Map!Next]_Artifacts
  OBVIOUS
<1>0. /\ op[c].at \in {"fill", "refill"} /\ op[c].at \in Writing
      /\ disk' = [disk EXCEPT ![x] = IF op[c].cut THEN Torn ELSE op[c].data]
      /\ mem' = WithArtifact(mem, y, x, Md5Of(op[c]))
      /\ Ends(c)
  BY DEF Filled, Writing
<1>1. /\ x \in Uuid /\ x # None /\ y \in Names /\ mem.uuidOf[y] = None
      /\ op[c].data \in Contents
      /\ \A n \in Names : mem.uuidOf[n] # x
      /\ OpType /\ op[c] \in Storing
      /\ \A d \in Clients \ {c} : op[d].at \notin Writing
  BY <1>0, WriterKnows
<1>2. mem'.uuidOf = [mem.uuidOf EXCEPT ![y] = x]
  <2>1. PICK h \in Contents \cup {Empty} : mem' = WithArtifact(mem, y, x, h)
    BY <1>0, <1>1 DEF Md5Of
  <2>2. /\ mem' = [uuidOf |-> mem'.uuidOf, full |-> mem'.full, md5 |-> mem'.md5]
        /\ mem'.uuidOf = [mem.uuidOf EXCEPT ![y] = x]
        /\ mem'.md5 = [mem.md5 EXCEPT ![x] = h]
        /\ DOMAIN mem'.full = Shortened
    BY <1>1, <2>1, WithIs DEF StoreInv
  <2> QED
    BY <2>2
<1>3. mem'.uuidOf[y] = x /\ \A n \in Names \ {y} : mem'.uuidOf[n] = mem.uuidOf[n]
  BY <1>1, <1>2 DEF StoreInv, Agree
<1>4. op'[c].at = "idle" /\ \A d \in Clients \ {c} : op'[d] = op[d]
  BY <1>0, <1>1, EndsIs
<1>5. \A u \in Uuid \ {x} : disk'[u] = disk[u]
  BY <1>0, <1>1 DEF StoreInv, DiskInv
<1>6. /\ Artifacts' = [Artifacts EXCEPT ![y] = Artifact(y)'] /\ Artifacts[y] = Artifact(y)
      /\ Artifact(y)' = Artifact(y) => Artifacts' = Artifacts
  <2>1. /\ op[c].at \notin {"make", "refill"} \/ op[c].name = y
        /\ op'[c].at \notin {"make", "refill"} \/ op'[c].name = y
    BY <1>4
  <2>2. \A n \in Names \ {y} : mem'.uuidOf[n] = mem.uuidOf[n] /\ mem.uuidOf[n] # x
    BY <1>1, <1>3
  <2> QED
    BY <1>1, <1>4, <1>5, <2>1, <2>2, OthersUntouched
<1>7. PICK k \in Contents \cup {Torn} : Artifact(y)' = [id |-> x, content |-> k]
  <2>1. Artifact(y)' = [id |-> x, content |-> Shown(x)']
    BY <1>1, <1>3 DEF ArtifactsInv, Shown
  <2>2. Shown(x)' \in Contents \cup {Torn}
    BY DEF Shown
  <2> QED
    BY <2>1, <2>2
<1>8. CASE op[c].at = "fill"
  <2>1. Artifact(y) = NoFile
    BY <1>1, <1>8 DEF ArtifactsInv, Replacing, Writing
  <2>2. \A m \in Names : Artifacts[m] # NoFile => Artifacts[m].id # x
    <3> SUFFICES ASSUME NEW m \in Names, Artifacts[m] # NoFile PROVE Artifacts[m].id # x
      OBVIOUS
    <3>1. \A d \in Clients : ~Replacing(d, m)
      BY <1>1, <1>8 DEF Replacing, Writing
    <3>2. mem.uuidOf[m] # None
      BY <3>1 DEF ArtifactsInv, Artifacts
    <3>3. Artifacts[m] = [id |-> mem.uuidOf[m], content |-> Shown(mem.uuidOf[m])]
      BY <3>2 DEF ArtifactsInv, Artifacts
    <3> QED
      BY <1>1, <3>3
  <2>3. Map!Create(y)
    BY <1>1, <1>6, <1>7, <2>1, <2>2 DEF Map!Create
  <2> QED
    BY <1>1, <2>3 DEF Map!Next
<1>9. CASE op[c].at = "refill"
  <2>1. Artifacts[y] = [id |-> x, content |-> Torn]
    BY <1>1, <1>6, <1>9 DEF ArtifactsInv, Replacing
  <2>2. CASE k = Torn
    BY <1>6, <1>7, <2>1, <2>2
  <2>3. CASE k \in Contents
    <3>1. Artifact(y)' = [Artifacts[y] EXCEPT !.content = k] /\ Artifacts[y] # NoFile
      BY <1>1, <1>7, <2>1
    <3>2. Artifacts' = [Artifacts EXCEPT ![y].content = k]
      BY <1>6, <3>1
    <3>3. Artifacts[y].content = Torn
      BY <2>1
    <3>4. Map!EndReplacing(y)
      BY <2>3, <3>1, <3>2, <3>3 DEF Map!EndReplacing
    <3> QED
      BY <1>1, <3>4 DEF Map!Next
  <2> QED
    BY <2>2, <2>3
<1> QED
  BY <1>0, <1>8, <1>9

LEMMA CrashMaps ==
  ASSUME StoreInv, StoreInv', ArtifactsInv, ArtifactsInv', Crash
  PROVE  [Map!Next]_Artifacts
<1> DEFINE Back == {n \in Names : Artifacts[n] = NoFile /\ saved.uuidOf[n] # None}
<1>1. mem' = saved /\ disk' = disk /\ op' = [c \in Clients |-> Idle]
  BY DEF Crash
<1>2. \A n \in Names : Artifact(n)' = IF saved.uuidOf[n] = None THEN NoFile
                                      ELSE [id |-> saved.uuidOf[n], content |-> Shown(saved.uuidOf[n])]
  BY <1>1 DEF ArtifactsInv, Replacing, Idle, Shown
<1>3. \A n \in Names : saved.uuidOf[n] # None => saved.uuidOf[n] \in Uuid
  BY DEF StoreInv, Agree
<1>4. ASSUME NEW n \in Names PROVE Artifact(n)' = IF n \in Back THEN [id |-> saved.uuidOf[n], content |-> Torn]
                                                  ELSE Artifacts[n]
  <2>1. CASE mem.uuidOf[n] # None
    <3>1. saved.uuidOf[n] = mem.uuidOf[n]
      BY <2>1 DEF StoreInv, SavedInv
    <3>2. /\ Artifacts[n] = [id |-> mem.uuidOf[n], content |-> Shown(mem.uuidOf[n])]
          /\ mem.uuidOf[n] \in Uuid
      BY <2>1 DEF ArtifactsInv, Artifacts
    <3>3. Artifacts[n] # NoFile
      BY <3>2 DEF Shown
    <3> QED
      BY <1>2, <2>1, <3>1, <3>2, <3>3
  <2>2. CASE \E c \in Clients : Replacing(c, n)
    <3>1. PICK c \in Clients : Replacing(c, n)
      BY <2>2
    <3>2. /\ Artifacts[n] = [id |-> op[c].uuid, content |-> Torn] /\ op[c].uuid \in Uuid
          /\ saved.uuidOf[n] = op[c].uuid /\ disk[op[c].uuid] \notin Contents
      BY <3>1 DEF ArtifactsInv, Artifacts, StoreInv, FillInv, Replacing, Writing
    <3>3. Artifacts[n] # NoFile /\ op[c].uuid # None
      BY <3>2
    <3> QED
      BY <1>2, <3>2, <3>3 DEF Shown
  <2>3. CASE mem.uuidOf[n] = None /\ \A c \in Clients : ~Replacing(c, n)
    <3>1. Artifacts[n] = NoFile
      BY <2>3 DEF ArtifactsInv, Artifacts
    <3>2. saved.uuidOf[n] # None => Shown(saved.uuidOf[n]) = Torn
      BY <2>3 DEF StoreInv, SavedInv, Shown
    <3> QED
      BY <1>2, <3>1, <3>2
  <2> QED
    BY <2>1, <2>2, <2>3
<1>5. CASE Back = {}
  <2>1. \A n \in Names : Artifact(n)' = Artifacts[n]
    BY <1>4, <1>5
  <2> QED
    BY <2>1 DEF Artifacts
<1>6. CASE Back # {}
  <2>1. PICK m \in Back : TRUE
    BY <1>6
  <2> DEFINE i == [n \in Names |-> IF n \in Back THEN saved.uuidOf[n] ELSE saved.uuidOf[m]]
  <2>2. i \in [Names -> Uuid]
    BY <1>3
  <2>3. Back \in SUBSET {n \in Names : Artifacts[n] = NoFile}
    OBVIOUS
  <2>4. Artifacts' = [n \in Names |-> IF n \in Back THEN [id |-> i[n], content |-> Torn] ELSE Artifacts[n]]
    BY <1>4 DEF Artifacts
  <2> HIDE DEF Back, i
  <2> QED
    BY <2>2, <2>3, <2>4 DEF Map!Next, Map!Restart
<1> QED
  BY <1>5, <1>6

(* Every other step leaves the artifacts as they are.                      *)
LEMMA OthersStutter ==
  ASSUME StoreInv, StoreInv', ArtifactsInv, ArtifactsInv', NEW c \in Clients,
         Request(c) \/ CopyCut(c) \/ Look(c) \/ StoreFile(c) \/ Open(c)
  PROVE  Artifacts' = Artifacts
<1>0. DOMAIN op = Clients /\ mem' = mem
  BY DEF StoreInv, OpType, Request, CopyCut, Look, StoreFile, Open, maps
<1>1. CASE Request(c) \/ Look(c) \/ Open(c) \/ StoreFile(c)
  <2>1. \A d \in Clients \ {c} : op'[d] = op[d]
    BY <1>0, <1>1 DEF Request, Look, Open, StoreFile, Fails, Goes, Ends
  <2>2. op[c].at \notin Writing
    BY <1>1 DEF Request, Look, Open, StoreFile, Writing
  <2>3. writer # c
    BY <2>2 DEF StoreInv, WriterInv
  <2>4. op'[c].at \notin {"make", "refill"}
    <3>1. CASE writer' = writer
      BY <2>3, <3>1 DEF StoreInv, WriterInv, Writing
    <3>2. CASE StoreFile(c) /\ op' = [op EXCEPT ![c].uuid = uuids', ![c].at = "fill"]
      <4>1. op[c] \in Storing
        BY <3>2, StoresWhat DEF StoreInv, StoreFile
      <4>2. op'[c].at = "fill"
        BY <1>0, <3>2, <4>1 DEF Storing
      <4> QED
        BY <4>2
    <3> QED
      BY <1>1, <3>1, <3>2 DEF Request, Look, Open, StoreFile
  <2>5. \A n \in Names : mem.uuidOf[n] # None => disk'[mem.uuidOf[n]] = disk[mem.uuidOf[n]]
    <3>1. CASE disk' = disk
      BY <3>1
    <3>2. CASE uuids' = uuids + 1 /\ disk' = [disk EXCEPT ![uuids'] = Torn]
      <4>1. \A n \in Names : mem.uuidOf[n] # None => mem.uuidOf[n] \in Uuid /\ mem.uuidOf[n] # uuids'
        BY <3>2 DEF StoreInv, Agree, DiskInv
      <4> QED
        BY <3>2, <4>1 DEF StoreInv, DiskInv
    <3> QED
      BY <1>1, <3>1, <3>2 DEF Request, Look, Open, StoreFile
  <2> QED
    BY <1>0, <2>1, <2>2, <2>4, <2>5, QuietStutters DEF Writing
<1>2. CASE CopyCut(c)
  <2>1. op[c] \in Storing
    BY <1>2, StoresWhat DEF StoreInv, CopyCut
  <2>2. /\ op'[c].at = op[c].at /\ op'[c].name = op[c].name /\ op'[c].uuid = op[c].uuid
        /\ \A d \in Clients \ {c} : op'[d] = op[d]
    BY <1>0, <1>2, <2>1 DEF CopyCut, Storing
  <2>3. disk' = disk
    BY <1>2 DEF CopyCut
  <2>4. \A n \in Names : Artifact(n)' = Artifact(n)
    BY <1>0, <2>2, <2>3, Untouched DEF Replacing
  <2> QED
    BY <2>4, NothingTouched
<1> QED
  BY <1>1, <1>2

(* By their names, artifacts are whole or known as broken, keep their UUID *)
(* for as long as they exist, and survive every restart: the store, with   *)
(* its maps, files and the database that lags behind, implements the map.  *)
THEOREM ArtifactsAreAMap == Spec => ImplementsMap
<1>1. Init => Map!Init
  <2>1. Init => \A n \in Names : mem.uuidOf[n] = None /\ \A c \in Clients : ~Replacing(c, n)
    BY DEF Init, Replacing, Idle
  <2> QED
    BY <2>1, InitStore, ArtifactIs DEF ArtifactsInv, Artifacts, Map!Init
<1>2. StoreInv /\ StoreInv' /\ ArtifactsInv /\ ArtifactsInv' /\ [Next]_vars => [Map!Next]_Artifacts
  <2> SUFFICES ASSUME StoreInv, StoreInv', ArtifactsInv, ArtifactsInv', [Next]_vars
               PROVE  [Map!Next]_Artifacts
    OBVIOUS
  <2>1. ASSUME NEW c \in Clients, Request(c) \/ Step(c) \/ CopyCut(c)
        PROVE  [Map!Next]_Artifacts
    <3>1. CASE UpdateFile(c)
      BY <3>1, UpdateFileMaps
    <3>2. CASE Make(c)
      BY <3>2, MakeMaps
    <3>3. CASE Filled(c)
      BY <3>3, FilledMaps
    <3>4. CASE FillFails(c)
      BY <3>4, GivingUpLoses DEF FillFails, maps, Writing
    <3>5. CASE Request(c) \/ CopyCut(c) \/ Look(c) \/ StoreFile(c) \/ Open(c)
      BY <3>5, OthersStutter
    <3> QED
      BY <2>1, <3>1, <3>2, <3>3, <3>4, <3>5 DEF Step
  <2>2. CASE Crash
    BY <2>2, CrashMaps
  <2>3. CASE UNCHANGED vars
    BY <2>3 DEF vars, maps, Artifacts, Artifact, Replaced
  <2> QED
    BY <2>1, <2>2, <2>3 DEF Next
<1> QED
  BY <1>1, <1>2, StoreInvariant, ArtifactIs, PTL DEF Spec, ImplementsMap, Map!Spec

-----------------------------------------------------------------------------
(* The lists agree with the MD5s, and a download has found a UUID.         *)
Lists(m) ==
  /\ m.full \in [Shortened -> Seq(Uuid)]
  /\ \A u \in Uuid : IF m.md5[u] = NoHash THEN Never(m.full[Short[u]], u)
                                          ELSE Once(m.full[Short[u]], u)

Reading == [at : {"look", "open"}, kind : {"download"},
            name : Names \cup Uuid \cup Shortened, uuid : {None} \cup Uuid]

ReadingInv == \A c \in Clients : Downloads(op[c]) => op[c] \in Reading

ListsInv == Lists(mem) /\ Lists(saved) /\ ReadingInv

LEMMA ListChanges ==
  ASSUME NEW m, NEW u \in Uuid, NEW w, Agree(m), Lists(m), NEW l \in Seq(Uuid),
         w.full = [m.full EXCEPT ![Short[u]] = l], \A v \in Uuid \ {u} : w.md5[v] = m.md5[v],
         w.md5[u] = NoHash => Never(l, u), w.md5[u] # NoHash => Once(l, u),
         \A v \in Uuid \ {u} : Once(m.full[Short[u]], v) => Once(l, v),
         \A v \in Uuid \ {u} : Never(m.full[Short[u]], v) => Never(l, v)
  PROVE  Lists(w)
<1>1. Short[u] \in Shortened /\ \A v \in Uuid : Short[v] \in Shortened
  BY DEF Shortened
<1>2. w.full \in [Shortened -> Seq(Uuid)] /\ w.full[Short[u]] = l
      /\ \A s \in Shortened \ {Short[u]} : w.full[s] = m.full[s]
  BY <1>1 DEF Lists
<1>4. ASSUME NEW v \in Uuid
      PROVE  IF w.md5[v] = NoHash THEN Never(w.full[Short[v]], v) ELSE Once(w.full[Short[v]], v)
  <2>1. CASE v = u
    BY <1>2, <2>1
  <2>2. CASE v # u /\ Short[v] = Short[u]
    BY <1>2, <2>2 DEF Lists
  <2>3. CASE Short[v] # Short[u]
    BY <1>1, <1>2, <2>3 DEF Lists
  <2> QED
    BY <2>1, <2>2, <2>3
<1> QED
  BY <1>2, <1>4 DEF Lists

LEMMA WithLists ==
  ASSUME NEW m, NEW n \in Names, NEW u \in Uuid, NEW h \in Contents \cup {Empty}, Agree(m), Lists(m),
         m.md5[u] = NoHash, NEW w, w = WithArtifact(m, n, u, h)
  PROVE  Lists(w)
<1>1. PICK s : s = m.full[Short[u]]
  OBVIOUS
<1>2. s \in Seq(Uuid) /\ Never(s, u)
  BY <1>1 DEF Lists, Shortened
<1>3. PICK l : l = Append(s, u)
  OBVIOUS
<1>4. /\ l \in Seq(Uuid) /\ Once(l, u)
      /\ \A v \in Uuid \ {u} : (Once(s, v) => Once(l, v)) /\ (Never(s, v) => Never(l, v))
  BY <1>2, <1>3, Appended
<1>5. w.full = [m.full EXCEPT ![Short[u]] = l] /\ w.md5 = [m.md5 EXCEPT ![u] = h] /\ h # NoHash
  BY <1>1, <1>3 DEF WithArtifact
<1>6. w.md5[u] # NoHash /\ \A v \in Uuid \ {u} : w.md5[v] = m.md5[v]
  BY <1>5 DEF Agree
<1>7. /\ l \in Seq(Uuid) /\ Once(l, u)
      /\ \A v \in Uuid \ {u} : Once(m.full[Short[u]], v) => Once(l, v)
      /\ \A v \in Uuid \ {u} : Never(m.full[Short[u]], v) => Never(l, v)
  BY <1>1, <1>4, <1>5
<1> QED
  BY <1>5, <1>6, <1>7, ListChanges

LEMMA WithoutLists ==
  ASSUME NEW m, NEW u \in Uuid, Agree(m), Lists(m), m.md5[u] # NoHash, NEW w, w = WithoutArtifact(m, u)
  PROVE  Lists(w)
<1>1. m.full[Short[u]] \in Seq(Uuid) /\ Once(m.full[Short[u]], u)
  BY DEF Lists, Shortened
<1> DEFINE l == RemoveAt(m.full[Short[u]], Place(m.full[Short[u]], u))
<1>2. /\ m.full[Short[u]] # <<>> /\ l \in Seq(Uuid) /\ Never(l, u)
      /\ \A v \in Uuid \ {u} : Once(m.full[Short[u]], v) => Once(l, v)
      /\ \A v \in Uuid \ {u} : Never(m.full[Short[u]], v) => Never(l, v)
  BY <1>1, Removed
<1>3. w.full = [m.full EXCEPT ![Short[u]] = l]
  BY <1>2 DEF WithoutArtifact
<1>4. w.md5[u] = NoHash /\ \A v \in Uuid \ {u} : w.md5[v] = m.md5[v]
  <2>1. w.md5 = [m.md5 EXCEPT ![u] = NoHash]
    BY WithoutIs
  <2> QED
    BY <2>1 DEF Agree
<1> HIDE DEF l
<1> QED
  BY <1>2, <1>3, <1>4, ListChanges

LEMMA LookupFinds ==
  ASSUME StoreInv, ListsInv, NEW id \in Names \cup Uuid \cup Shortened, Lookup(id).found = "yes"
  PROVE  Lookup(id).uuid \in Uuid
<1> DEFINE byShort == IF id \in DOMAIN mem.full THEN mem.full[id] ELSE <<>>
           byName  == IF id \in Names THEN mem.uuidOf[id] ELSE None
           at(u)   == IF Known(u) THEN [found |-> "yes", uuid |-> u] ELSE [found |-> "error"]
<1>1. byShort \in Seq(Uuid)
  <2>1. <<>> \in Seq(Uuid)
    OBVIOUS
  <2>2. mem.full \in [Shortened -> Seq(Uuid)]
    BY DEF ListsInv, Lists
  <2> QED
    BY <2>1, <2>2
<1>2. byShort # <<>> => byShort[1] \in Uuid
  BY <1>1
<1>3. byName # None => byName \in Uuid
  BY DEF StoreInv, Agree
<1>4. \A u : at(u).found = "yes" => at(u).uuid = u
  OBVIOUS
<1>5. Lookup(id) = IF id \in Uuid /\ Known(id) THEN at(id)
                   ELSE IF Len(byShort) > 1 THEN [found |-> "error"]
                   ELSE IF byShort # <<>> THEN at(byShort[1])
                   ELSE IF byName # None THEN at(byName)
                   ELSE [found |-> "no"]
  BY DEF Lookup
<1> HIDE DEF byShort, byName, at
<1> QED
  BY <1>2, <1>3, <1>4, <1>5

LEMMA OpensIt ==
  ASSUME NEW r \in Reading, NEW u \in Uuid, NEW s, s = [r EXCEPT !.uuid = u, !.at = "open"]
  PROVE  s \in Reading
BY DEF Reading

(* Only a request and a look make or change a download.                    *)
LEMMA ReadingKept ==
  ASSUME StoreInv, ListsInv, [Next]_vars
  PROVE  ReadingInv'
<1> SUFFICES ASSUME NEW c \in Clients, Downloads(op[c])'
             PROVE  op'[c] \in Reading
  BY DEF ReadingInv
<1>0. OpType /\ DOMAIN op = Clients /\ DOMAIN mem.full = Shortened
  BY DEF StoreInv, OpType, Agree
<1>1. CASE op'[c] = op[c]
  BY <1>1 DEF ListsInv, ReadingInv, Downloads
<1>2. CASE Request(c)
  <2>1. PICK k \in Kinds[c] :
       \/ \E n \in Names, x \in Contents :
               op' = [op EXCEPT ![c] = [at |-> IF k = "send" THEN "store" ELSE "look", kind |-> k,
                                        name |-> n, data |-> x, uuid |-> None, cut |-> FALSE]]
       \/ \E id \in Names \cup Uuid \cup DOMAIN mem.full :
               op' = [op EXCEPT ![c] = [at |-> "look", kind |-> k, name |-> id, uuid |-> None]]
    BY <1>2 DEF Request
  <2> QED
    BY <1>0, <2>1 DEF Reading, Downloads
<1>3. CASE Look(c)
  <2>1. CASE Ends(c)
    BY <1>0, <2>1 DEF Ends, Idle, Downloads
  <2>2. CASE op[c] \in Storing /\ ~Ends(c)
    <3>1. \/ op' = [op EXCEPT ![c].uuid = Lookup(op[c].name).uuid, ![c].at = "update"]
          \/ Goes(c, "store")
      BY <1>3, <2>2 DEF Look, Storing
    <3>2. op'[c].kind = op[c].kind /\ op[c].kind # "download"
      BY <1>0, <2>2, <3>1 DEF Storing, Goes
    <3> QED
      BY <3>2 DEF Downloads
  <2>3. CASE Downloads(op[c]) /\ ~Ends(c)
    <3> DEFINE f == Lookup(op[c].name)
    <3>0. op[c].kind = "download"
      BY <2>3 DEF Downloads
    <3>1. f.found = "yes" /\ op' = [op EXCEPT ![c].uuid = f.uuid, ![c].at = "open"]
      BY <1>3, <2>3, <3>0 DEF Look
    <3>2. op[c] \in Reading
      BY <2>3 DEF ListsInv, ReadingInv
    <3>3. f.uuid \in Uuid
      BY <3>1, <3>2, LookupFinds DEF Reading
    <3> HIDE DEF f
    <3>4. op'[c] = [op[c] EXCEPT !.uuid = f.uuid, !.at = "open"]
      BY <1>0, <3>1
    <3> QED
      BY <3>2, <3>3, <3>4, OpensIt
  <2>4. op[c].at = "look"
    BY <1>3 DEF Look
  <2> QED
    BY <1>0, <2>1, <2>2, <2>3, <2>4 DEF OpType, Idle
<1>4. CASE Open(c)
  BY <1>0, <1>4 DEF Open, Ends, Idle, Downloads
<1>5. CASE StoreFile(c) \/ UpdateFile(c) \/ Make(c) \/ Filled(c) \/ FillFails(c) \/ CopyCut(c)
  <2>1. op[c] \in Storing
    BY <1>0, <1>5, StoresWhat DEF StoreFile, UpdateFile, Make, Filled, FillFails, CopyCut
  <2>2. CASE Ends(c)
    BY <1>0, <2>2 DEF Ends, Idle, Downloads
  <2>3. CASE ~Ends(c)
    <3>1. op'[c].kind = op[c].kind /\ op[c].kind # "download"
      BY <1>0, <1>5, <2>1, <2>3
         DEF Storing, Goes, Fails, StoreFile, UpdateFile, Make, Filled, FillFails, CopyCut
    <3> QED
      BY <3>1 DEF Downloads
  <2> QED
    BY <2>2, <2>3
<1>6. CASE Crash
  BY <1>6 DEF Crash, Idle, Downloads
<1>7. CASE UNCHANGED vars
  BY <1>1, <1>7 DEF vars
<1>8. ASSUME NEW d \in Clients \ {c}, Request(d) \/ Step(d) \/ CopyCut(d) PROVE op'[c] = op[c]
  BY <1>0, <1>8 DEF Request, Step, CopyCut, Look, StoreFile, UpdateFile, Make, Filled,
     FillFails, Open,
     Goes, Ends, Fails
<1> QED
  BY <1>1, <1>2, <1>3, <1>4, <1>5, <1>6, <1>7, <1>8 DEF Next, Step

LEMMA ListsKept ==
  ASSUME StoreInv, ListsInv, [Next]_vars
  PROVE  Lists(mem)' /\ Lists(saved)'
<1>1. CASE mem' = mem /\ (saved' = saved \/ saved' = mem)
  BY <1>1 DEF ListsInv, Lists
<1>2. ASSUME NEW c \in Clients, UpdateFile(c) PROVE Lists(mem)' /\ Lists(saved)'
  <2>1. CASE UNCHANGED mem
    BY <1>2, <2>1 DEF UpdateFile, ListsInv, Lists
  <2>2. CASE disk[op[c].uuid] # NoFile /\ mem' = WithoutArtifact(mem, op[c].uuid)
    <3> SUFFICES ASSUME NEW x, x = op[c].uuid PROVE Lists(mem)' /\ Lists(saved)'
      OBVIOUS
    <3>1. op[c] \in Storing /\ op[c].at = "update" /\ writer = Free
      BY <1>2, StoresWhat DEF UpdateFile, StoreInv
    <3>2. \A d \in Clients : op[d].at \notin Writing
      BY <3>1, OnlyWriter DEF Writing
    <3>3. x \in Uuid /\ op[c].name \in Names /\ mem.uuidOf[op[c].name] = x
      BY <2>2, <3>1, <3>2 DEF StoreInv, UpdateInv, Rewrites, Writing, DiskInv, Storing
    <3>4. mem.md5[x] # NoHash
      BY <3>3 DEF StoreInv, Agree
    <3>5. saved' = saved
      BY <1>2 DEF UpdateFile
    <3>6. \A m : m = mem' => Lists(m)
      BY <2>2, <3>3, <3>4, WithoutLists DEF StoreInv, ListsInv
    <3> QED
      BY <3>5, <3>6 DEF ListsInv, Lists
  <2> QED
    BY <1>2, <2>1, <2>2 DEF UpdateFile
<1>3. ASSUME NEW c \in Clients, Filled(c) PROVE Lists(mem)' /\ Lists(saved)'
  <2> SUFFICES ASSUME NEW x, NEW y, x = op[c].uuid, y = op[c].name PROVE Lists(mem)' /\ Lists(saved)'
    OBVIOUS
  <2>1. /\ op[c].at \in Writing /\ mem' = WithArtifact(mem, y, x, Md5Of(op[c]))
        /\ (saved' = saved \/ saved' = mem')
    BY <1>3 DEF Filled, Writing, Persist
  <2>2. x \in Uuid /\ y \in Names /\ mem.md5[x] = NoHash /\ op[c].data \in Contents
    BY <2>1, WriterKnows
  <2>3. PICK h \in Contents \cup {Empty} : mem' = WithArtifact(mem, y, x, h)
    BY <2>1, <2>2 DEF Md5Of
  <2>4. \A m : m = mem' => Lists(m)
    BY <2>2, <2>3, WithLists DEF StoreInv, ListsInv
  <2> QED
    BY <2>1, <2>4 DEF ListsInv, Lists
<1>4. CASE Crash
  BY <1>4 DEF Crash, ListsInv, Lists
<1>5. ASSUME NEW c \in Clients,
             Request(c) \/ CopyCut(c) \/ Look(c) \/ StoreFile(c) \/ Make(c) \/ FillFails(c) \/ Open(c)
      PROVE  mem' = mem /\ (saved' = saved \/ saved' = mem)
  BY <1>5 DEF Request, CopyCut, Look, StoreFile, Make, FillFails, Open, Persist, maps
<1> QED
  BY <1>1, <1>2, <1>3, <1>4, <1>5 DEF Next, Step, vars, maps

LEMMA ListsInvariant == Spec => [](StoreInv /\ ListsInv)
<1>1. Init => ListsInv
  <2> SUFFICES ASSUME Init PROVE ListsInv
    OBVIOUS
  <2>1. \A u \in Uuid : Short[u] \in Shortened
    BY DEF Shortened
  <2>2. <<>> \in Seq(Uuid) /\ \A u : Never(<<>>, u)
    BY DEF Never
  <2>3. Lists(mem) /\ Lists(saved)
    BY <2>1, <2>2 DEF Init, Lists
  <2>4. ReadingInv
    BY DEF Init, ReadingInv, Downloads, Idle
  <2> QED
    BY <2>3, <2>4 DEF ListsInv
<1>2. StoreInv /\ ListsInv /\ [Next]_vars => ListsInv'
  BY ReadingKept, ListsKept DEF ListsInv
<1> QED
  BY <1>1, <1>2, InitStore, NextStore, PTL DEF Spec

(* Every variable keeps its type; whatever was stored, replaced, lost or   *)
(* brought back by a restart, an artifact is in all three maps or in none, *)
(* once; and the MD5s by which instructions leave artifacts alone are      *)
(* right.                                                                  *)
THEOREM StoreIsRight == Spec => []StoreOK
<1>1. StoreInv /\ ListsInv => StoreOK
  <2> SUFFICES ASSUME StoreInv, ListsInv PROVE StoreOK
    OBVIOUS
  <2>1. mem \in Maps /\ saved \in Maps
    BY DEF StoreInv, ListsInv, Lists, Agree, Maps
  <2>2. \A c \in Clients :
       \/ op[c] = Idle
       \/ op[c] \in [at : {"look", "open"}, kind : {"download"}, name : Names \cup Uuid \cup DOMAIN mem.full,
                    uuid : {None} \cup Uuid]
       \/ op[c] \in [at : {"look", "store", "update", "make", "fill", "refill", "stuck"},
                    kind : {"upload", "render", "copy", "send"}, name : Names, data : Contents,
                    uuid : {None} \cup Uuid, cut : BOOLEAN]
    <3> SUFFICES ASSUME NEW c \in Clients, op[c] # Idle, op[c] \notin Storing
                 PROVE  op[c] \in [at : {"look", "open"}, kind : {"download"},
                                  name : Names \cup Uuid \cup DOMAIN mem.full, uuid : {None} \cup Uuid]
      BY DEF Storing
    <3>1. Downloads(op[c])
      BY DEF StoreInv, OpType
    <3>2. op[c] \in Reading
      BY <3>1 DEF ListsInv, ReadingInv
    <3> QED
      BY <3>2 DEF Reading, StoreInv, Agree
  <2>3. ASSUME NEW u \in Uuid
        PROVE  LET count == IF mem.md5[u] = NoHash THEN 0 ELSE 1 IN
                 /\ Cardinality({n \in Names : mem.uuidOf[n] = u}) = count
                 /\ Cardinality({i \in DOMAIN mem.full[Short[u]] : mem.full[Short[u]][i] = u}) = count
    <3> DEFINE names == {n \in Names : mem.uuidOf[n] = u}
               places == {i \in DOMAIN mem.full[Short[u]] : mem.full[Short[u]][i] = u}
    <3>1. CASE mem.md5[u] = NoHash
      <4>1. names = {} /\ places = {}
        BY <3>1 DEF StoreInv, Agree, ListsInv, Lists, Never
      <4> QED
        BY <3>1, <4>1, FS_EmptySet
    <3>2. CASE mem.md5[u] # NoHash
      <4>1. PICK n \in Names : names = {n}
        BY <3>2 DEF StoreInv, Agree
      <4>2. PICK i \in DOMAIN mem.full[Short[u]] : places = {i}
        <5>1. Once(mem.full[Short[u]], u)
          BY <3>2 DEF ListsInv, Lists
        <5>2. PICK i \in DOMAIN mem.full[Short[u]] : \A j \in DOMAIN mem.full[Short[u]] : mem.full[Short[u]][j] = u <=> j = i
          BY <5>1 DEF Once
        <5>3. places = {i}
          BY <5>2
        <5> QED
          BY <5>3
      <4> QED
        BY <3>2, <4>1, <4>2, FS_Singleton
    <3> QED
      BY <3>1, <3>2
  <2>4. disk \in [Uuid -> Contents \cup {NoFile, Torn}] /\ writer \in Clients \cup {Free}
        /\ promised \in [Names -> Contents \cup {NoFile}]
    BY DEF StoreInv, DiskInv, WriterInv, PromiseInv
  <2>5. HashTellsContent
    BY DEF StoreInv, HashInv, HashTellsContent
  <2> QED
    BY <2>1, <2>2, <2>3, <2>4, <2>5 DEF StoreOK, TypeOK
<1> QED
  BY <1>1, ListsInvariant, PTL
=============================================================================
