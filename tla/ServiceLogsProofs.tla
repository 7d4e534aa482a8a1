-------------------------- MODULE ServiceLogsProofs --------------------------
(***************************************************************************)
(* Service logs on the volume, for any services, retention, channel, batch *)
(* and number of lines: what the files hold, that logs go when their       *)
(* period is over, and that a request delivers what it was asked for.      *)
(***************************************************************************)
EXTENDS ServiceLogs, FiniteSetTheorems, WellFoundedInduction, TLAPS

-----------------------------------------------------------------------------
(* The volume.  Each inode was made for one service and week, own[i], and  *)
(* line n of service s was written in the week stamp[s][n].                *)
LinesAre(q, s, w, stamp, most) ==
  /\ \A j \in DOMAIN q : q[j].n <= most[s] /\ q[j].week = w /\ stamp[s][q[j].n] = w
  /\ Increasing(q)

FileInv(own, stamp) ==
  /\ own \in [1..Len(inode) -> Service \X Week]
  /\ stamp \in [Service -> [Nat -> Week]]
  /\ \A s \in Service : \A m, n \in 1..written[s] :
       stamp[s][n] <= week /\ (m <= n => stamp[s][m] <= stamp[s][n])
  /\ \A s \in Service : \A w \in Week : file[s][w] # 0 => own[file[s][w]] = <<s, w>>
  /\ \A i \in 1..Len(inode) : own[i][2] <= week /\ LinesAre(inode[i], own[i][1], own[i][2], stamp, written)

Disk ==
  /\ week \in Week /\ alive \in BOOLEAN
  /\ inode \in Seq(Seq(Line)) /\ file \in [Service -> [Week -> 0..Len(inode)]]
  /\ dirs \subseteq Week /\ written \in [Service -> Nat]

Work == [s : Service, w : Week]

Keeper ==
  /\ swept \in {week - 1, week} /\ toRemove \subseteq Service \X Week
  /\ maker = NoWork \/ (maker \in Work /\ maker.w \in {week - 1, week})
  /\ toMake \subseteq Service /\ events \in 0..MaxEvents /\ toForget \subseteq Week

VolumeTyped == Disk /\ Keeper

(* What is beyond the period is of the week that has just left it, and its *)
(* removal is to come.                                                     *)
SweepInv ==
  /\ \A sw \in toRemove : sw[2] + Retention = week
  /\ alive => \A s \in Service : \A w \in Week :
       file[s][w] # 0 /\ w + Retention <= week =>
         w + Retention = week /\ (swept < week \/ <<s, w>> \in toRemove)

(* The makers of the inodes when there is one more.                        *)
Extended(own, sw) == [i \in 1..(Len(inode) + 1) |-> IF i = Len(inode) + 1 THEN sw ELSE own[i]]

(* A new file: its inode comes last.                                       *)
Added(own, new, s, w, lines) ==
  /\ Len(inode') = Len(inode) + 1 /\ inode' \in Seq(Seq(Line))
  /\ \A i \in 1..Len(inode) : inode'[i] = inode[i] /\ new[i] = own[i]
  /\ inode'[Len(inode) + 1] = lines /\ new[Len(inode) + 1] = <<s, w>>
  /\ new \in [1..Len(inode') -> Service \X Week]
  /\ file' \in [Service -> [Week -> 0..Len(inode')]]
  /\ file'[s][w] = Len(inode) + 1
  /\ \A t \in Service : \A v \in Week : <<t, v>> # <<s, w>> => file'[t][v] = file[t][v]

(* What a step does to the volume, for one who has opened inodes: an inode *)
(* is emptied or gets a new line, a name is dropped or gets a new inode.   *)
Grows(own, new, stamp, later) ==
  /\ week <= week'
  /\ Len(inode) <= Len(inode')
  /\ \A i \in 1..Len(inode) :
       /\ new[i] = own[i]
       /\ \/ inode'[i] = inode[i] \/ inode'[i] = <<>>
          \/ \E l \in Line : written[own[i][1]] < l.n /\ inode'[i] = Append(inode[i], l)
  /\ \A s \in Service : written[s] <= written'[s] /\ \A n \in 1..written[s] : later[s][n] = stamp[s][n]
  /\ \A s \in Service : \A w \in Week :
       \/ file'[s][w] \in {0, file[s][w]}
       \/ \A j \in DOMAIN inode'[file'[s][w]] : written[s] < inode'[file'[s][w]][j].n

(* Types, one by one, as the steps need them.                              *)
LEMMA VolumeIs ==
  ASSUME VolumeTyped
  PROVE  /\ week \in Week /\ week \in Nat /\ week > 0
         /\ inode \in Seq(Seq(Line)) /\ Len(inode) \in Nat /\ DOMAIN inode = 1..Len(inode)
         /\ \A i \in 1..Len(inode) : inode[i] \in Seq(Line) /\ Len(inode[i]) \in Nat
                                     /\ DOMAIN inode[i] = 1..Len(inode[i])
         /\ \A s \in Service : file[s] \in [Week -> 0..Len(inode)] /\ written[s] \in Nat
         /\ \A s \in Service : \A w \in Week :
              file[s][w] \in 0..Len(inode) /\ (file[s][w] # 0 => file[s][w] \in 1..Len(inode))
<1>1. /\ week \in Week /\ inode \in Seq(Seq(Line)) /\ file \in [Service -> [Week -> 0..Len(inode)]]
      /\ written \in [Service -> Nat]
  BY DEF VolumeTyped, Disk
<1>2. week \in Nat /\ week > 0
  BY <1>1 DEF Week
<1>3. Len(inode) \in Nat /\ DOMAIN inode = 1..Len(inode)
  BY <1>1
<1>4. \A i \in 1..Len(inode) : inode[i] \in Seq(Line) /\ Len(inode[i]) \in Nat
                              /\ DOMAIN inode[i] = 1..Len(inode[i])
  BY <1>1
<1>5. \A s \in Service : file[s] \in [Week -> 0..Len(inode)] /\ written[s] \in Nat
  BY <1>1
<1>6. \A s \in Service : \A w \in Week :
        file[s][w] \in 0..Len(inode) /\ (file[s][w] # 0 => file[s][w] \in 1..Len(inode))
  BY <1>3, <1>5
<1> QED
  BY <1>1, <1>2, <1>3, <1>4, <1>5, <1>6

LEMMA FileIs ==
  ASSUME NEW own, NEW stamp, FileInv(own, stamp), VolumeTyped
  PROVE  /\ \A s \in Service : stamp[s] \in [Nat -> Week]
         /\ \A s \in Service : \A n \in Nat : stamp[s][n] \in Week /\ stamp[s][n] \in Nat
         /\ \A s \in Service : \A m, n \in 1..written[s] :
              stamp[s][n] <= week /\ (m <= n => stamp[s][m] <= stamp[s][n])
         /\ \A i \in 1..Len(inode) : /\ own[i] \in Service \X Week /\ own[i][1] \in Service
                                     /\ own[i][2] \in Week /\ own[i][2] \in Nat /\ own[i][2] <= week
                                     /\ LinesAre(inode[i], own[i][1], own[i][2], stamp, written)
         /\ \A s \in Service : \A w \in Week : file[s][w] # 0 => own[file[s][w]] = <<s, w>>
<1>1. stamp \in [Service -> [Nat -> Week]] /\ own \in [1..Len(inode) -> Service \X Week]
  BY DEF FileInv
<1>2. \A s \in Service : stamp[s] \in [Nat -> Week]
  BY <1>1
<1>3. Week \subseteq Nat
  BY DEF Week
<1>4. \A s \in Service : \A n \in Nat : stamp[s][n] \in Week /\ stamp[s][n] \in Nat
  BY <1>2, <1>3
<1>5. \A i \in 1..Len(inode) : own[i] \in Service \X Week /\ own[i][1] \in Service /\ own[i][2] \in Week
  BY <1>1
<1>6. \A i \in 1..Len(inode) : own[i][2] \in Nat
  BY <1>3, <1>5
<1> QED
  BY <1>2, <1>4, <1>5, <1>6 DEF FileInv

LEMMA LinesAt ==
  ASSUME NEW q \in Seq(Line)
  PROVE  /\ Len(q) \in Nat /\ DOMAIN q = 1..Len(q)
         /\ \A j \in DOMAIN q : /\ q[j] \in Line /\ q[j].n \in Nat /\ q[j].n > 0 /\ q[j].week \in Week
                                /\ q[j].week \in Nat
<1>1. \A l \in Line : l.n \in Nat /\ l.n > 0 /\ l.week \in Week /\ l.week \in Nat
  BY DEF Line, Week
<1>2. Len(q) \in Nat /\ DOMAIN q = 1..Len(q) /\ \A j \in DOMAIN q : q[j] \in Line
  OBVIOUS
<1> QED
  BY <1>1, <1>2

LEMMA Appending ==
  ASSUME NEW q \in Seq(Line), NEW l \in Line
  PROVE  /\ Append(q, l) \in Seq(Line) /\ Len(Append(q, l)) = Len(q) + 1
         /\ DOMAIN Append(q, l) = 1..(Len(q) + 1)
         /\ Append(q, l)[Len(q) + 1] = l /\ \A j \in DOMAIN q : Append(q, l)[j] = q[j]
OBVIOUS

LEMMA AppendIncreasing ==
  ASSUME NEW q \in Seq(Line), Increasing(q), NEW l \in Line, \A j \in DOMAIN q : q[j].n < l.n
  PROVE  Increasing(Append(q, l))
<1> DEFINE a == Append(q, l)
<1>1. /\ DOMAIN a = 1..(Len(q) + 1) /\ a[Len(q) + 1] = l /\ \A j \in DOMAIN q : a[j] = q[j]
      /\ DOMAIN q = 1..Len(q) /\ Len(q) \in Nat
  BY Appending
<1> HIDE DEF a
<1> SUFFICES ASSUME NEW i \in DOMAIN a, NEW j \in DOMAIN a, i < j PROVE a[i].n < a[j].n
  BY DEF Increasing, a
<1>2. i \in DOMAIN q
  BY <1>1
<1>3. CASE j \in DOMAIN q
  BY <1>1, <1>2, <1>3 DEF Increasing
<1>4. CASE j = Len(q) + 1
  BY <1>1, <1>2, <1>4
<1> QED
  BY <1>1, <1>3, <1>4

(* A step that leaves the inodes and the writing alone.                    *)
LEMMA NoNewFile ==
  ASSUME NEW own, NEW stamp, VolumeTyped, FileInv(own, stamp), VolumeTyped', week <= week',
         UNCHANGED <<inode, written>>,
         \A s \in Service : \A w \in Week : file'[s][w] \in {0, file[s][w]}
  PROVE  FileInv(own, stamp)' /\ Grows(own, own, stamp, stamp)
<1>2. week \in Nat /\ week' \in Nat /\ Len(inode) \in Nat /\ \A s \in Service : written[s] \in Nat
  BY VolumeIs DEF Week, VolumeTyped, Disk
<1>3. own \in [1..Len(inode) -> Service \X Week]
  BY DEF FileInv
<1>4. \A i \in 1..Len(inode) : own[i][2] \in Nat /\ (own[i][2] <= week => own[i][2] <= week')
  BY <1>2, <1>3 DEF Week
<1>5. \A s \in Service : \A n \in 1..written[s] :
        stamp[s][n] \in Nat /\ (stamp[s][n] <= week => stamp[s][n] <= week')
  BY <1>2, FileIs
<1>6. FileInv(own, stamp)'
  <2>1. /\ own \in [1..Len(inode') -> Service \X Week] /\ stamp \in [Service -> [Nat -> Week]]
    BY <1>3 DEF FileInv
  <2>2. \A s \in Service : \A m, n \in 1..written'[s] :
          stamp[s][n] <= week' /\ (m <= n => stamp[s][m] <= stamp[s][n])
    BY <1>5, FileIs
  <2>3. \A s \in Service : \A w \in Week : file'[s][w] # 0 => own[file'[s][w]] = <<s, w>>
    BY FileIs
  <2>4. \A i \in 1..Len(inode') : /\ own[i][2] <= week'
                                  /\ LinesAre(inode'[i], own[i][1], own[i][2], stamp, written')
    BY <1>4, FileIs
  <2> QED
    BY <2>1, <2>2, <2>3, <2>4 DEF FileInv
<1>7. Grows(own, own, stamp, stamp)
  BY <1>2 DEF Grows
<1> QED
  BY <1>6, <1>7

LEMMA OneMore ==
  ASSUME NEW own, NEW stamp, VolumeTyped, FileInv(own, stamp),
         NEW s \in Service, NEW w \in Week, NEW lines \in Seq(Line), NewFile(s, w, lines),
         NEW new, new = Extended(own, <<s, w>>)
  PROVE  Added(own, new, s, w, lines)
<1>1. /\ inode \in Seq(Seq(Line)) /\ Len(inode) \in Nat
      /\ inode' = Append(inode, lines) /\ file' = [file EXCEPT ![s][w] = Len(inode) + 1]
  BY DEF VolumeTyped, Disk, NewFile
<1>2. /\ inode' \in Seq(Seq(Line)) /\ Len(inode') = Len(inode) + 1
      /\ inode'[Len(inode) + 1] = lines /\ \A i \in 1..Len(inode) : inode'[i] = inode[i]
  BY <1>1
<1>3. own \in [1..Len(inode) -> Service \X Week] /\ <<s, w>> \in Service \X Week
  BY DEF FileInv
<1>4. /\ new \in [1..(Len(inode) + 1) -> Service \X Week] /\ new[Len(inode) + 1] = <<s, w>>
      /\ \A i \in 1..Len(inode) : new[i] = own[i]
  BY <1>1, <1>3 DEF Extended
<1>5. file \in [Service -> [Week -> 0..Len(inode)]]
  BY DEF VolumeTyped, Disk
<1>6. file' \in [Service -> [Week -> 0..(Len(inode) + 1)]]
  BY <1>1, <1>5
<1>7. /\ file'[s][w] = Len(inode) + 1
      /\ \A t \in Service : \A v \in Week : <<t, v>> # <<s, w>> => file'[t][v] = file[t][v]
  BY <1>1, <1>5
<1> QED
  BY <1>1, <1>2, <1>4, <1>6, <1>7 DEF Added

LEMMA WriteKeeps ==
  ASSUME NEW own, NEW stamp, VolumeTyped, FileInv(own, stamp),
         NEW s \in Service, Write(s)
  PROVE  /\ VolumeTyped'
         /\ \E new, later : FileInv(new, later)' /\ Grows(own, new, stamp, later)
<1> PICK n : n = written[s] + 1
  OBVIOUS
<1> PICK line : line = [n |-> n, week |-> week]
  OBVIOUS
<1> PICK later : later = [stamp EXCEPT ![s] = [@ EXCEPT ![n] = week]]
  OBVIOUS
<1>1. /\ week \in Week /\ week \in Nat /\ n \in Nat /\ n > 0 /\ line \in Line
      /\ line.n = n /\ line.week = week /\ written[s] \in Nat /\ n = written[s] + 1
      /\ Len(inode) \in Nat /\ \A t \in Service : written[t] \in Nat
  <2>1. /\ week \in Week /\ week \in Nat /\ week > 0 /\ written[s] \in Nat
        /\ Len(inode) \in Nat /\ \A t \in Service : written[t] \in Nat
    BY VolumeIs
  <2>2. n \in Nat /\ n > 0
    BY <2>1
  <2> QED
    BY <2>1, <2>2 DEF Line
<1>2. /\ written' = [written EXCEPT ![s] = n] /\ week' = week
      /\ written' \in [Service -> Nat] /\ written'[s] = n
      /\ \A t \in Service : t # s => written'[t] = written[t]
  BY <1>1 DEF Write, VolumeTyped, Disk
<1>3. /\ later \in [Service -> [Nat -> Week]] /\ later[s][n] = week
      /\ \A t \in Service : \A m \in Nat : m # n \/ t # s => later[t][m] = stamp[t][m]
  BY <1>1 DEF FileInv
<1>4. ASSUME NEW t \in Service, NEW k \in 1..written'[t], NEW m \in 1..written'[t]
      PROVE  later[t][m] <= week' /\ (k <= m => later[t][k] <= later[t][m])
  <2>1. k \in Nat /\ m \in Nat /\ stamp[t][m] \in Nat /\ stamp[t][k] \in Nat
    BY <1>1, <1>2, FileIs
  <2>2. CASE t # s
    BY <1>1, <1>2, <1>3, <2>1, <2>2, FileIs
  <2>3. CASE t = s
    <3>1. m = n \/ m \in 1..written[s]
      BY <1>1, <1>2, <2>3
    <3>2. k = n \/ k \in 1..written[s]
      BY <1>1, <1>2, <2>3
    <3> QED
      <4>1. m = n => later[t][m] = week
        BY <1>3, <2>3
      <4>2. m # n => /\ m \in 1..written[s] /\ later[t][m] = stamp[s][m] /\ stamp[s][m] <= week
                     /\ stamp[s][m] \in Nat
        BY <1>3, <2>1, <2>3, <3>1, FileIs
      <4>3. k = n => later[t][k] = week
        BY <1>3, <2>3
      <4>4. k # n => /\ k \in 1..written[s] /\ later[t][k] = stamp[s][k] /\ stamp[s][k] <= week
                     /\ stamp[s][k] \in Nat
        BY <1>3, <2>1, <2>3, <3>2, FileIs
      <4>5. later[t][m] <= week'
        BY <1>1, <1>2, <4>1, <4>2
      <4>6. ASSUME k <= m PROVE later[t][k] <= later[t][m]
        <5>1. CASE m = n
          BY <1>1, <4>1, <4>3, <4>4, <5>1
        <5>2. CASE m # n
          <6>1. k # n
            BY <1>1, <4>2, <4>6, <5>2
          <6> QED
            BY <4>2, <4>4, <4>6, <5>2, <6>1, FileIs
        <5> QED
          BY <5>1, <5>2
      <4> QED
        BY <4>5, <4>6
  <2> QED
    BY <2>2, <2>3
<1>5. \A t \in Service : written[t] <= written'[t] /\ \A m \in 1..written[t] : later[t][m] = stamp[t][m]
  BY <1>1, <1>2, <1>3
<1>6. ASSUME NEW q \in Seq(Line), NEW t \in Service, NEW v, LinesAre(q, t, v, stamp, written)
      PROVE  LinesAre(q, t, v, later, written')
  <2>1. \A j \in DOMAIN q : q[j].n \in Nat \ {0} /\ q[j].n <= written[t] /\ q[j].week = v
                            /\ stamp[t][q[j].n] = v
    BY <1>6, LinesAt DEF LinesAre
  <2>2. \A j \in DOMAIN q : q[j].n <= written'[t] /\ q[j].n \in 1..written[t]
    BY <1>1, <1>5, <2>1, <1>2
  <2> QED
    BY <1>5, <1>6, <2>1, <2>2 DEF LinesAre, Increasing
<1>7. CASE Exists(s, week)
  <2> PICK f : f = file[s][week]
    OBVIOUS
  <2>1. /\ f \in 1..Len(inode) /\ own[f] = <<s, week>> /\ inode[f] \in Seq(Line)
        /\ inode' = [inode EXCEPT ![f] = Append(inode[f], line)] /\ UNCHANGED file
    <3>1. f # 0 /\ f \in 1..Len(inode) /\ own[f] = <<s, week>>
      BY <1>1, <1>7, FileIs, VolumeIs DEF Exists
    <3>2. inode' = [inode EXCEPT ![file[s][week]] = Append(@, line)] /\ UNCHANGED file
      BY <1>7 DEF Write
    <3>3. inode' = [inode EXCEPT ![f] = Append(inode[f], line)]
      BY <3>2
    <3>4. inode[f] \in Seq(Line)
      BY <3>1, VolumeIs
    <3> QED
      BY <3>1, <3>2, <3>3, <3>4
  <2> PICK q : q = Append(inode[f], line)
    OBVIOUS
  <2>2. /\ inode' \in Seq(Seq(Line)) /\ Len(inode') = Len(inode) /\ inode'[f] = q
        /\ \A i \in 1..Len(inode) : i # f => inode'[i] = inode[i]
    BY <1>1, <2>1 DEF VolumeTyped, Disk
  <2>3. LinesAre(inode[f], s, week, stamp, written)
    BY <2>1 DEF FileInv
  <2>4. LinesAre(q, s, week, later, written')
    <3>1. LinesAre(inode[f], s, week, later, written')
      BY <1>6, <2>1, <2>3
    <3>2. /\ DOMAIN q = 1..(Len(inode[f]) + 1) /\ q[Len(inode[f]) + 1] = line
          /\ \A j \in 1..Len(inode[f]) : q[j] = inode[f][j]
          /\ DOMAIN inode[f] = 1..Len(inode[f]) /\ Len(inode[f]) \in Nat
      BY <1>1, <2>1
    <3>3. \A j \in DOMAIN inode[f] : inode[f][j].n \in Nat /\ inode[f][j].n <= written[s]
      BY <2>1, <2>3, LinesAt DEF LinesAre
    <3>4. \A j \in DOMAIN q : q[j].n <= written'[s] /\ q[j].week = week /\ later[s][q[j].n] = week
      <4> SUFFICES ASSUME NEW j \in DOMAIN q
                   PROVE  q[j].n <= written'[s] /\ q[j].week = week /\ later[s][q[j].n] = week
        OBVIOUS
      <4>1. CASE j = Len(inode[f]) + 1
        BY <1>1, <1>2, <1>3, <3>2, <4>1
      <4>2. CASE j \in DOMAIN inode[f]
        BY <3>1, <3>2, <4>2, SMTT(60) DEF LinesAre
      <4> QED
        BY <3>2, <4>1, <4>2
    <3>5. Increasing(q)
      <4>1. Increasing(inode[f]) /\ \A j \in DOMAIN inode[f] : inode[f][j].n < line.n
        BY <1>1, <3>1, <3>3 DEF LinesAre
      <4> QED
        BY <1>1, <2>1, <4>1, AppendIncreasing
    <3> QED
      BY <1>2, <3>4, <3>5 DEF LinesAre
  <2>5. \A i \in 1..Len(inode) : LinesAre(inode'[i], own[i][1], own[i][2], later, written')
    <3> SUFFICES ASSUME NEW i \in 1..Len(inode) PROVE LinesAre(inode'[i], own[i][1], own[i][2], later, written')
      OBVIOUS
    <3>1. CASE i = f
      <4>1. own[i][1] = s /\ own[i][2] = week
        BY <2>1, <3>1
      <4> QED
        BY <2>2, <2>4, <3>1, <4>1
    <3>2. CASE i # f
      <4>1. /\ inode[i] \in Seq(Line) /\ own[i][1] \in Service /\ LinesAre(inode[i], own[i][1], own[i][2], stamp, written)
        BY VolumeIs, FileIs
      <4>2. LinesAre(inode[i], own[i][1], own[i][2], later, written')
        BY <1>6, <4>1
      <4> QED
        BY <2>2, <3>2, <4>2
    <3> QED
      BY <3>1, <3>2
  <2>6. VolumeTyped'
    BY <1>1, <1>2, <2>1, <2>2 DEF VolumeTyped, Disk, Keeper, Write, keeperVars
  <2>7. FileInv(own, later)'
    <3>1. own \in [1..Len(inode') -> Service \X Week] /\ later \in [Service -> [Nat -> Week]]
      BY <1>3, <2>2 DEF FileInv
    <3>2. \A t \in Service : \A w \in Week : file'[t][w] # 0 => own[file'[t][w]] = <<t, w>>
      BY <2>1, FileIs
    <3>3. \A i \in 1..Len(inode') : own[i][2] <= week' /\ LinesAre(inode'[i], own[i][1], own[i][2], later, written')
      BY <1>2, <2>2, <2>5, FileIs
    <3> QED
      BY <1>4, <3>1, <3>2, <3>3 DEF FileInv
  <2>8. Grows(own, own, stamp, later)
    <3>1. \A i \in 1..Len(inode) :
            inode'[i] = inode[i] \/ \E l \in Line : written[own[i][1]] < l.n /\ inode'[i] = Append(inode[i], l)
      <4> SUFFICES ASSUME NEW i \in 1..Len(inode), i = f
                   PROVE  \E l \in Line : written[own[i][1]] < l.n /\ inode'[i] = Append(inode[i], l)
        BY <2>2
      <4>1. written[own[i][1]] < line.n /\ inode'[i] = Append(inode[i], line)
        BY <1>1, <2>1, <2>2
      <4> QED
        BY <1>1, <4>1
    <3>2. Len(inode) <= Len(inode') /\ week <= week'
      BY <1>1, <1>2, <2>2
    <3>3. \A t \in Service : \A w \in Week : file'[t][w] \in {0, file[t][w]}
      BY <2>1
    <3> QED
      BY <1>5, <3>1, <3>2, <3>3 DEF Grows
  <2> QED
    BY <2>6, <2>7, <2>8
<1>8. CASE ~Exists(s, week)
  <2> PICK new : new = Extended(own, <<s, week>>)
    OBVIOUS
  <2>1. NewFile(s, week, <<line>>) /\ <<line>> \in Seq(Line) /\ file[s][week] = 0
    BY <1>1, <1>8 DEF Exists, Write
  <2>9. Added(own, new, s, week, <<line>>)
    BY <1>1, <2>1, OneMore
  <2>2. /\ Len(inode') = Len(inode) + 1 /\ inode' \in Seq(Seq(Line))
        /\ \A i \in 1..Len(inode) : inode'[i] = inode[i] /\ new[i] = own[i]
        /\ inode'[Len(inode) + 1] = <<line>> /\ new[Len(inode) + 1] = <<s, week>>
        /\ new \in [1..Len(inode') -> Service \X Week]
        /\ file' \in [Service -> [Week -> 0..Len(inode')]]
        /\ file'[s][week] = Len(inode) + 1
        /\ \A t \in Service : \A v \in Week : <<t, v>> # <<s, week>> => file'[t][v] = file[t][v]
    BY <2>9 DEF Added
  <2>3. LinesAre(<<line>>, s, week, later, written')
    BY <1>1, <1>2, <1>3 DEF LinesAre, Increasing
  <2>4. \A i \in 1..Len(inode') : new[i][2] <= week' /\ LinesAre(inode'[i], new[i][1], new[i][2], later, written')
    <3> SUFFICES ASSUME NEW i \in 1..Len(inode')
                 PROVE  new[i][2] <= week' /\ LinesAre(inode'[i], new[i][1], new[i][2], later, written')
      OBVIOUS
    <3>1. CASE i = Len(inode) + 1
      <4>1. inode'[i] = <<line>> /\ new[i][1] = s /\ new[i][2] = week
        <5>1. inode'[i] = <<line>> /\ new[i] = <<s, week>>
          BY <2>2, <3>1
        <5> QED
          BY <5>1
      <4> QED
        BY <1>1, <1>2, <2>3, <4>1
    <3>2. CASE i \in 1..Len(inode)
      <4>1. /\ inode[i] \in Seq(Line) /\ own[i][1] \in Service /\ LinesAre(inode[i], own[i][1], own[i][2], stamp, written)
            /\ own[i][2] <= week
        BY <3>2, VolumeIs, FileIs
      <4>2. LinesAre(inode[i], own[i][1], own[i][2], later, written')
        BY <1>6, <4>1
      <4> QED
        BY <1>2, <2>2, <3>2, <4>1, <4>2
    <3>3. Len(inode') = Len(inode) + 1
      BY <2>2
    <3>4. i \in 1..Len(inode) \/ i = Len(inode) + 1
      BY <1>1, <3>3
    <3> QED
      BY <3>1, <3>2, <3>4
  <2>5. VolumeTyped'
    BY <1>1, <1>2, <2>2 DEF VolumeTyped, Disk, Keeper, Write, keeperVars
  <2>6. \A t \in Service : \A v \in Week : file'[t][v] # 0 => new[file'[t][v]] = <<t, v>>
    <3> SUFFICES ASSUME NEW t \in Service, NEW v \in Week, file'[t][v] # 0 PROVE new[file'[t][v]] = <<t, v>>
      OBVIOUS
    <3>1. CASE <<t, v>> = <<s, week>>
      BY <2>2, <3>1
    <3>2. CASE <<t, v>> # <<s, week>>
      <4>1. file'[t][v] = file[t][v] /\ file[t][v] \in 1..Len(inode) /\ own[file[t][v]] = <<t, v>>
        <5>1. file'[t][v] = file[t][v] /\ file[t][v] # 0
          BY <2>2, <3>2
        <5> QED
          BY <5>1, FileIs, VolumeIs
      <4> QED
        BY <2>2, <4>1
    <3> QED
      BY <3>1, <3>2
  <2>7. FileInv(new, later)'
    <3>1. new \in [1..Len(inode') -> Service \X Week] /\ later \in [Service -> [Nat -> Week]]
      BY <1>3, <2>2
    <3> QED
      BY <1>4, <2>4, <2>6, <3>1 DEF FileInv
  <2>8. Grows(own, new, stamp, later)
    <3>1. \A t \in Service : \A v \in Week :
            \/ file'[t][v] \in {0, file[t][v]}
            \/ \A j \in DOMAIN inode'[file'[t][v]] : written[t] < inode'[file'[t][v]][j].n
      <4> SUFFICES ASSUME NEW t \in Service, NEW v \in Week, file'[t][v] # file[t][v]
                   PROVE  \A j \in DOMAIN inode'[file'[t][v]] : written[t] < inode'[file'[t][v]][j].n
        OBVIOUS
      <4>1. t = s /\ v = week /\ inode'[file'[t][v]] = <<line>>
        BY <2>2
      <4> QED
        BY <1>1, <4>1
    <3> QED
      <4>1. Len(inode) <= Len(inode') /\ week <= week'
        BY <1>1, <1>2, <2>2
      <4> QED
        BY <1>5, <2>2, <3>1, <4>1 DEF Grows
  <2> QED
    BY <2>5, <2>7, <2>8
<1> QED
  BY <1>7, <1>8

LEMMA MakerCreateKeeps ==
  ASSUME NEW own, NEW stamp, VolumeTyped, FileInv(own, stamp), MakerCreate
  PROVE  /\ VolumeTyped'
         /\ \E new : FileInv(new, stamp)' /\ Grows(own, new, stamp, stamp)
<1> PICK s : s = maker.s
  OBVIOUS
<1> PICK w : w = maker.w
  OBVIOUS
<1>1. /\ s \in Service /\ w \in Week /\ w \in Nat /\ w <= week /\ week \in Nat
      /\ Len(inode) \in Nat /\ \A t \in Service : written[t] \in Nat
  <2>1. maker \in Work /\ w \in {week - 1, week}
    BY DEF VolumeTyped, Keeper, MakerCreate
  <2>2. s \in Service /\ w \in Week
    BY <2>1 DEF Work
  <2> QED
    BY <2>1, <2>2, VolumeIs DEF Week
<1>2. /\ week' = week /\ written' = written /\ maker' = NoWork
      /\ UNCHANGED <<alive, dirs, swept, toRemove, toForget, events>> /\ toMake' \subseteq Service
  BY DEF MakerCreate, VolumeTyped, Keeper
<1>9. Keeper'
  BY <1>2 DEF VolumeTyped, Keeper
<1>3. stamp \in [Service -> [Nat -> Week]]
      /\ \A t \in Service : \A m, n \in 1..written'[t] :
           stamp[t][n] <= week' /\ (m <= n => stamp[t][m] <= stamp[t][n])
  BY <1>2, FileIs DEF FileInv
<1>4. LinesAre(<<>>, s, w, stamp, written')
  BY DEF LinesAre, Increasing
<1>5. CASE UNCHANGED <<file, inode>>
  <2>1. VolumeTyped'
    BY <1>2, <1>5, <1>9 DEF VolumeTyped, Disk
  <2> QED
    BY <1>1, <1>2, <1>5, <2>1, NoNewFile
<1>6. CASE Exists(s, w) /\ inode' = [inode EXCEPT ![file[s][w]] = <<>>] /\ UNCHANGED file
  <2> PICK f : f = file[s][w]
    OBVIOUS
  <2>1. /\ f \in 1..Len(inode) /\ own[f] = <<s, w>>
        /\ inode' = [inode EXCEPT ![f] = <<>>] /\ UNCHANGED file
    BY <1>1, <1>6, FileIs, VolumeIs DEF Exists
  <2>2. /\ inode' \in Seq(Seq(Line)) /\ Len(inode') = Len(inode) /\ inode'[f] = <<>>
        /\ \A i \in 1..Len(inode) : i # f => inode'[i] = inode[i]
    BY <2>1, VolumeIs
  <2>3. VolumeTyped'
    BY <1>2, <1>9, <2>1, <2>2 DEF VolumeTyped, Disk
  <2>4. \A i \in 1..Len(inode') : own[i][2] <= week' /\ LinesAre(inode'[i], own[i][1], own[i][2], stamp, written')
    <3> SUFFICES ASSUME NEW i \in 1..Len(inode)
                 PROVE  own[i][2] <= week' /\ LinesAre(inode'[i], own[i][1], own[i][2], stamp, written')
      BY <2>2
    <3>1. CASE i = f
      <4>1. own[i][1] = s /\ own[i][2] = w
        BY <2>1, <3>1
      <4> QED
        BY <1>1, <1>2, <1>4, <2>2, <3>1, <4>1
    <3>2. CASE i # f
      BY <1>2, <2>2, <3>2, FileIs
    <3> QED
      BY <3>1, <3>2
  <2>5. FileInv(own, stamp)'
    <3>1. own \in [1..Len(inode') -> Service \X Week]
      BY <2>2 DEF FileInv
    <3>2. \A t \in Service : \A v \in Week : file'[t][v] # 0 => own[file'[t][v]] = <<t, v>>
      BY <2>1, FileIs
    <3> QED
      BY <1>3, <2>4, <3>1, <3>2 DEF FileInv
  <2>6. Grows(own, own, stamp, stamp)
    <3>1. \A i \in 1..Len(inode) : inode'[i] = inode[i] \/ inode'[i] = <<>>
      BY <2>2
    <3>2. Len(inode) <= Len(inode') /\ week <= week' /\ \A t \in Service : written[t] <= written'[t]
      BY <1>1, <1>2, <2>2
    <3> QED
      BY <2>1, <3>1, <3>2 DEF Grows
  <2> QED
    BY <2>3, <2>5, <2>6
<1>7. CASE NewFile(s, w, <<>>)
  <2> PICK new : new = Extended(own, <<s, w>>)
    OBVIOUS
  <2>1. Added(own, new, s, w, <<>>)
    BY <1>1, <1>7, <<>> \in Seq(Line), OneMore
  <2>2. /\ Len(inode') = Len(inode) + 1 /\ inode' \in Seq(Seq(Line))
        /\ \A i \in 1..Len(inode) : inode'[i] = inode[i] /\ new[i] = own[i]
        /\ inode'[Len(inode) + 1] = <<>> /\ new[Len(inode) + 1] = <<s, w>>
        /\ new \in [1..Len(inode') -> Service \X Week]
        /\ file' \in [Service -> [Week -> 0..Len(inode')]]
        /\ file'[s][w] = Len(inode) + 1
        /\ \A t \in Service : \A v \in Week : <<t, v>> # <<s, w>> => file'[t][v] = file[t][v]
    BY <2>1 DEF Added
  <2>3. VolumeTyped'
    BY <1>2, <1>9, <2>2 DEF VolumeTyped, Disk
  <2>4. \A i \in 1..Len(inode') : new[i][2] <= week' /\ LinesAre(inode'[i], new[i][1], new[i][2], stamp, written')
    <3> SUFFICES ASSUME NEW i \in 1..Len(inode')
                 PROVE  new[i][2] <= week' /\ LinesAre(inode'[i], new[i][1], new[i][2], stamp, written')
      OBVIOUS
    <3>1. CASE i = Len(inode) + 1
      <4>1. inode'[i] = <<>> /\ new[i] = <<s, w>>
        BY <2>2, <3>1
      <4>2. new[i][1] = s /\ new[i][2] = w
        BY <4>1
      <4> QED
        BY <1>1, <1>2, <1>4, <4>1, <4>2
    <3>2. CASE i \in 1..Len(inode)
      BY <1>2, <2>2, <3>2, FileIs
    <3>3. i \in 1..Len(inode) \/ i = Len(inode) + 1
      BY <1>1, <2>2
    <3> QED
      BY <3>1, <3>2, <3>3
  <2>5. \A t \in Service : \A v \in Week : file'[t][v] # 0 => new[file'[t][v]] = <<t, v>>
    <3> SUFFICES ASSUME NEW t \in Service, NEW v \in Week, file'[t][v] # 0 PROVE new[file'[t][v]] = <<t, v>>
      OBVIOUS
    <3>1. CASE <<t, v>> = <<s, w>>
      BY <2>2, <3>1
    <3>2. CASE <<t, v>> # <<s, w>>
      <4>1. file'[t][v] = file[t][v] /\ file[t][v] # 0
        BY <2>2, <3>2
      <4>2. file[t][v] \in 1..Len(inode) /\ own[file[t][v]] = <<t, v>>
        BY <4>1, FileIs, VolumeIs
      <4> QED
        BY <2>2, <4>1, <4>2
    <3> QED
      BY <3>1, <3>2
  <2>6. FileInv(new, stamp)'
    BY <1>3, <2>2, <2>4, <2>5 DEF FileInv
  <2>7. Grows(own, new, stamp, stamp)
    <3>1. \A t \in Service : \A v \in Week :
            \/ file'[t][v] \in {0, file[t][v]}
            \/ \A j \in DOMAIN inode'[file'[t][v]] : written[t] < inode'[file'[t][v]][j].n
      <4> SUFFICES ASSUME NEW t \in Service, NEW v \in Week, file'[t][v] # file[t][v]
                   PROVE  \A j \in DOMAIN inode'[file'[t][v]] : written[t] < inode'[file'[t][v]][j].n
        OBVIOUS
      <4>1. inode'[file'[t][v]] = <<>>
        BY <2>2
      <4> QED
        BY <4>1
    <3>2. Len(inode) <= Len(inode') /\ week <= week'
      BY <1>1, <1>2, <2>2
    <3>3. \A t \in Service : written[t] <= written'[t]
      BY <1>1, <1>2
    <3> QED
      BY <2>2, <3>3, <3>1, <3>2 DEF Grows
  <2> QED
    BY <2>3, <2>6, <2>7
<1> QED
  BY <1>5, <1>6, <1>7 DEF MakerCreate

(* The steps that make no file.                                            *)
LEMMA OtherVolumeKeeps ==
  ASSUME NEW own, NEW stamp, VolumeTyped, FileInv(own, stamp), LogsAssumption,
         NextWeek \/ KeeperList \/ KeeperRemove \/ MakerList \/ MakerStat \/ DestroyEnclave \/ RemoveEnclaveLogs
  PROVE  VolumeTyped' /\ FileInv(own, stamp)' /\ Grows(own, own, stamp, stamp)
<1>1. /\ week \in Nat /\ week - 1 # week /\ Len(inode) \in Nat
      /\ file \in [Service -> [Week -> 0..Len(inode)]]
  BY VolumeIs DEF VolumeTyped, Disk
<1>2. SUFFICES /\ Disk' /\ Keeper' /\ week <= week' /\ UNCHANGED <<inode, written>>
               /\ \A s \in Service : \A w \in Week : file'[s][w] \in {0, file[s][w]}
  BY NoNewFile DEF VolumeTyped
<1>3. CASE NextWeek
  <2>1. week' = week + 1 /\ week' \in Week /\ week' - 1 = week
    BY <1>1, <1>3 DEF NextWeek, Week, LogsAssumption
  <2>2. events' \in 0..MaxEvents
    BY <1>3 DEF NextWeek, Happens, VolumeTyped, Keeper, LogsAssumption
  <2>3. Disk'
    BY <1>3, <2>1 DEF NextWeek, VolumeTyped, Disk
  <2>4. Keeper'
    BY <1>1, <1>3, <2>1, <2>2 DEF NextWeek, VolumeTyped, Keeper
  <2> QED
    BY <1>1, <1>3, <2>1, <2>3, <2>4 DEF NextWeek
<1> DEFINE DiskStays == UNCHANGED volumeVars
<1>10. ASSUME DiskStays
       PROVE  /\ Disk' /\ week <= week' /\ UNCHANGED <<inode, written>>
              /\ \A s \in Service : \A w \in Week : file'[s][w] \in {0, file[s][w]}
  BY <1>1, <1>10 DEF volumeVars, VolumeTyped, Disk
<1>4. CASE KeeperList
  <2>1. Keeper'
    BY <1>4 DEF KeeperList, VolumeTyped, Keeper, BeyondRetention, volumeVars
  <2> QED
    BY <1>4, <1>10, <2>1 DEF KeeperList
<1>5. CASE KeeperRemove
  <2> PICK sw \in toRemove : /\ toRemove' = toRemove \ {sw} /\ file' = [file EXCEPT ![sw[1]][sw[2]] = 0]
                             /\ UNCHANGED <<week, alive, inode, dirs, written, swept, maker, toMake, toForget, events>>
    BY <1>5 DEF KeeperRemove
  <2>1. /\ \A s \in Service : \A w \in Week : file'[s][w] \in {0, file[s][w]}
        /\ file' \in [Service -> [Week -> 0..Len(inode)]]
    <3> PICK a : a = sw[1]
      OBVIOUS
    <3> PICK b : b = sw[2]
      OBVIOUS
    <3>1. file' = [file EXCEPT ![a][b] = 0] /\ 0 \in 0..Len(inode) /\ a \in Service /\ b \in Week
      BY <1>1 DEF VolumeTyped, Keeper
    <3> QED
      BY <1>1, <3>1
  <2>2. Disk'
    BY <2>1 DEF VolumeTyped, Disk
  <2>3. Keeper'
    BY DEF VolumeTyped, Keeper
  <2> QED
    BY <1>1, <2>1, <2>2, <2>3
<1>6. CASE MakerList
  <2>1. events' \in 0..MaxEvents
    BY <1>6 DEF MakerList, Happens, VolumeTyped, Keeper, LogsAssumption
  <2>2. Keeper'
    BY <1>6, <2>1 DEF MakerList, VolumeTyped, Keeper, volumeVars
  <2> QED
    BY <1>6, <1>10, <2>2 DEF MakerList
<1>7. CASE MakerStat
  <2> PICK s \in toMake : /\ toMake' = toMake \ {s}
                          /\ maker' = IF Exists(s, week) THEN NoWork ELSE [s |-> s, w |-> week]
                          /\ UNCHANGED <<volumeVars, swept, toRemove, toForget, events>>
    BY <1>7 DEF MakerStat
  <2>1. s \in Service /\ toMake' \subseteq Service
    BY DEF VolumeTyped, Keeper
  <2>2. [s |-> s, w |-> week] \in Work /\ [s |-> s, w |-> week].w = week
    BY <2>1, VolumeIs DEF Work
  <2>3. maker' = NoWork \/ (maker' \in Work /\ maker'.w \in {week - 1, week})
    <3>1. CASE maker' = NoWork
      BY <3>1
    <3>2. CASE maker' = [s |-> s, w |-> week]
      BY <2>2, <3>2
    <3> QED
      BY <3>1, <3>2
  <2>4. Keeper'
    BY <2>1, <2>3 DEF VolumeTyped, Keeper, volumeVars
  <2> QED
    BY <1>10, <2>4
<1>8. CASE DestroyEnclave
  <2>1. events' \in 0..MaxEvents
    BY <1>8 DEF DestroyEnclave, Happens, VolumeTyped, Keeper, LogsAssumption
  <2>2. Keeper'
    BY <1>8, <2>1 DEF DestroyEnclave, VolumeTyped, Keeper
  <2>3. Disk'
    BY <1>8 DEF DestroyEnclave, VolumeTyped, Disk
  <2> QED
    BY <1>1, <1>8, <2>2, <2>3 DEF DestroyEnclave
<1>9. CASE RemoveEnclaveLogs
  <2> PICK w : w = Max(toForget)
    OBVIOUS
  <2>1. /\ toForget' \subseteq toForget /\ dirs' \subseteq dirs
        /\ file' = [s \in Service |-> [file[s] EXCEPT ![w] = 0]]
        /\ UNCHANGED <<week, alive, inode, written, swept, toRemove, maker, toMake, events>>
    BY <1>9 DEF RemoveEnclaveLogs
  <2>2. ASSUME NEW s \in Service
        PROVE  /\ file'[s] \in [Week -> 0..Len(inode)]
               /\ \A v \in Week : file'[s][v] \in {0, file[s][v]}
    <3>1. file'[s] = [file[s] EXCEPT ![w] = 0] /\ 0 \in 0..Len(inode)
      BY <1>1, <2>1
    <3> QED
      BY <1>1, <3>1
  <2>3. file' \in [Service -> [Week -> 0..Len(inode)]]
    BY <2>1, <2>2
  <2>4. Disk'
    BY <2>1, <2>3 DEF VolumeTyped, Disk
  <2>5. Keeper'
    BY <2>1 DEF VolumeTyped, Keeper
  <2> QED
    BY <1>1, <2>1, <2>2, <2>4, <2>5
<1> QED
  BY <1>3, <1>4, <1>5, <1>6, <1>7, <1>8, <1>9

LEMMA VolumeStepKeeps ==
  ASSUME NEW own, NEW stamp, VolumeTyped, FileInv(own, stamp), LogsAssumption,
         NextWeek \/ Files \/ \E s \in Service : Write(s)
  PROVE  /\ VolumeTyped'
         /\ \E new, later : FileInv(new, later)' /\ Grows(own, new, stamp, later)
<1>1. CASE \E s \in Service : Write(s)
  BY <1>1, WriteKeeps
<1>2. CASE MakerCreate
  BY <1>2, MakerCreateKeeps
<1>3. CASE NextWeek \/ KeeperList \/ KeeperRemove \/ MakerList \/ MakerStat \/ DestroyEnclave \/ RemoveEnclaveLogs
  BY <1>3, OtherVolumeKeeps
<1> QED
  BY <1>1, <1>2, <1>3 DEF Files

-----------------------------------------------------------------------------
(* At first: a period of logs, in each week of it a line or none.          *)
LEMMA Enumerated ==
  ASSUME NEW S, IsFiniteSet(S)
  PROVE  /\ Cardinality(S) \in Nat
         /\ SetToSeq(S) \in [1..Cardinality(S) -> S]
         /\ \A x \in S : \E i \in 1..Cardinality(S) : SetToSeq(S)[i] = x
<1> PICK n : n = Cardinality(S)
  OBVIOUS
<1>1. n \in Nat /\ ExistsBijection(1..n, S)
  BY FS_CardinalityType
<1>2. PICK f \in [1..n -> S] : IsInjective(f)
  BY <1>1 DEF ExistsBijection, Bijection, Injection, IsInjective
<1>3. SetToSeq(S) \in [1..n -> S] /\ IsInjective(SetToSeq(S))
  BY <1>2 DEF SetToSeq
<1> PICK g : g = SetToSeq(S)
  OBVIOUS
<1>4. g \in Injection(1..n, S)
  BY <1>3 DEF Injection, IsInjective
<1>5. Cardinality(1..n) = n
  BY <1>1, FS_Interval
<1>6. g \in Surjection(1..n, S)
  BY <1>4, <1>5, FS_Injection
<1>7. \A x \in S : \E i \in 1..n : g[i] = x
  BY <1>6 DEF Surjection
<1> QED
  BY <1>1, <1>3, <1>7

(* The lines of a service up to a week, and the week of the n-th.          *)
UpTo(wrote, s, w)   == Cardinality({v \in 1..w : <<s, v>> \in wrote})
WeekOf(wrote, s, n) == 1 + Cardinality({v \in 1..(Retention - 1) : UpTo(wrote, s, v) < n})

LEMMA UpToIs ==
  ASSUME NEW wrote, NEW s, NEW v \in Nat, NEW w \in Nat, v <= w
  PROVE  /\ UpTo(wrote, s, v) \in Nat /\ UpTo(wrote, s, w) \in Nat /\ UpTo(wrote, s, v) <= UpTo(wrote, s, w)
         /\ <<s, w>> \in wrote /\ v < w => UpTo(wrote, s, v) < UpTo(wrote, s, w)
<1> DEFINE V == {x \in 1..v : <<s, x>> \in wrote}
           W == {x \in 1..w : <<s, x>> \in wrote}
<1>1. IsFiniteSet(1..w) /\ IsFiniteSet(1..v)
  BY FS_Interval
<1>2. IsFiniteSet(W) /\ IsFiniteSet(V) /\ V \in SUBSET W
  <2>1. W \in SUBSET (1..w) /\ V \in SUBSET (1..v) /\ V \in SUBSET W
    OBVIOUS
  <2> QED
    BY <1>1, <2>1, FS_Subset
<1>3. <<s, w>> \in wrote /\ v < w => V # W
  <2>1. ASSUME <<s, w>> \in wrote, v < w PROVE w \in W /\ w \notin V
    BY <2>1
  <2> QED
    BY <2>1
<1> HIDE DEF V, W
<1>4. Cardinality(V) <= Cardinality(W) /\ (Cardinality(W) = Cardinality(V) => W = V)
  BY <1>2, FS_Subset
<1>5. Cardinality(V) \in Nat /\ Cardinality(W) \in Nat
  BY <1>2, FS_CardinalityType
<1>6. /\ Cardinality(V) \in Nat /\ Cardinality(W) \in Nat /\ Cardinality(V) <= Cardinality(W)
      /\ <<s, w>> \in wrote /\ v < w => Cardinality(V) < Cardinality(W)
  BY <1>3, <1>4, <1>5
<1> QED
  BY <1>6 DEF UpTo, V, W

LEMMA WeekOfIs ==
  ASSUME LogsAssumption, NEW wrote, NEW s, NEW m \in Nat, NEW n \in Nat
  PROVE  /\ WeekOf(wrote, s, n) \in 1..Retention
         /\ m <= n => WeekOf(wrote, s, m) <= WeekOf(wrote, s, n)
         /\ \A w \in 1..(Retention - 1) :
              <<s, w>> \in wrote /\ n = UpTo(wrote, s, w) => WeekOf(wrote, s, n) = w
<1> PICK r : r = Retention - 1
  OBVIOUS
<1>1. r \in Nat /\ Retention = r + 1
  BY DEF LogsAssumption
<1> DEFINE M == {v \in 1..r : UpTo(wrote, s, v) < m}
           N == {v \in 1..r : UpTo(wrote, s, v) < n}
<1>2. IsFiniteSet(1..r) /\ Cardinality(1..r) = r
  <2>1. 1 \in Int /\ r \in Int
    BY <1>1
  <2>2. Cardinality(1..r) = IF 1 > r THEN 0 ELSE r - 1 + 1
    BY <2>1, FS_Interval
  <2> QED
    BY <1>1, <2>1, <2>2, FS_Interval
<1>3. \A v \in 1..r : UpTo(wrote, s, v) \in Nat
  <2> SUFFICES ASSUME NEW v \in 1..r PROVE UpTo(wrote, s, v) \in Nat
    OBVIOUS
  <2>1. v \in Nat /\ v <= v
    BY <1>1
  <2> QED
    BY <2>1, UpToIs
<1>4. /\ N \in SUBSET (1..r) /\ M \in SUBSET (1..r)
      /\ m <= n => M \in SUBSET N
  BY <1>3
<1>5. ASSUME NEW w \in 1..r, <<s, w>> \in wrote, n = UpTo(wrote, s, w)
      PROVE  N = 1..(w - 1)
  <2>1. \A v \in 1..r : v < w => UpTo(wrote, s, v) < n
    BY <1>1, <1>5, UpToIs
  <2>2. \A v \in 1..r : w <= v => n <= UpTo(wrote, s, v)
    <3> SUFFICES ASSUME NEW v \in 1..r, w <= v PROVE n <= UpTo(wrote, s, v)
      OBVIOUS
    <3>1. w \in Nat /\ v \in Nat
      BY <1>1
    <3>2. UpTo(wrote, s, w) <= UpTo(wrote, s, v)
      BY <3>1, UpToIs
    <3> QED
      BY <1>5, <3>2
  <2> QED
    BY <1>1, <1>3, <1>5, <2>1, <2>2
<1> HIDE DEF M, N
<1>6. /\ IsFiniteSet(N) /\ IsFiniteSet(M) /\ Cardinality(N) <= r
      /\ m <= n => Cardinality(M) <= Cardinality(N)
  <2>1. IsFiniteSet(N) /\ IsFiniteSet(M) /\ Cardinality(N) <= r
    <3>1. IsFiniteSet(N) /\ Cardinality(N) <= Cardinality(1..r)
      BY <1>2, <1>4, FS_Subset
    <3>2. IsFiniteSet(M)
      BY <1>2, <1>4, FS_Subset
    <3> QED
      BY <1>2, <3>1, <3>2
  <2>2. ASSUME m <= n PROVE Cardinality(M) <= Cardinality(N)
    <3>1. M \in SUBSET N
      BY <1>4, <2>2
    <3> QED
      BY <2>1, <3>1, FS_Subset
  <2> QED
    BY <2>1, <2>2
<1>7. Cardinality(N) \in Nat /\ Cardinality(M) \in Nat
  BY <1>6, FS_CardinalityType
<1>8. \A w \in 1..r : <<s, w>> \in wrote /\ n = UpTo(wrote, s, w) => Cardinality(N) = w - 1
  <2> SUFFICES ASSUME NEW w \in 1..r, <<s, w>> \in wrote, n = UpTo(wrote, s, w) PROVE Cardinality(N) = w - 1
    OBVIOUS
  <2>1. N = 1..(w - 1)
    BY <1>5
  <2>2. Cardinality(1..(w - 1)) = w - 1
    BY <1>1, FS_Interval
  <2> QED
    BY <2>1, <2>2
<1>9. WeekOf(wrote, s, n) = 1 + Cardinality(N) /\ WeekOf(wrote, s, m) = 1 + Cardinality(M)
  BY DEF WeekOf, N, M
<1> QED
  BY <1>1, <1>6, <1>7, <1>8, <1>9

LEMMA VolumeStarts ==
  ASSUME LogsAssumption, Init
  PROVE  VolumeTyped /\ \E own, stamp : FileInv(own, stamp)
<1>1. PICK wrote \in SUBSET (Service \X (1..(Retention - 1))) :
        LET earlier == SetToSeq(wrote)
            Nth(s, w) == Cardinality({v \in 1..w : <<s, v>> \in wrote}) IN
        /\ file = [s \in Service |-> [w \in Week |->
                     IF <<s, w>> \in wrote THEN CHOOSE i \in DOMAIN earlier : earlier[i] = <<s, w>> ELSE 0]]
        /\ inode = [i \in DOMAIN earlier |-> <<[n |-> Nth(earlier[i][1], earlier[i][2]), week |-> earlier[i][2]]>>]
        /\ dirs = {sw[2] : sw \in wrote}
        /\ written = [s \in Service |-> Nth(s, Retention - 1)]
  BY DEF Init
<1> PICK earlier : earlier = SetToSeq(wrote)
  OBVIOUS
<1> PICK size : size = Cardinality(wrote)
  OBVIOUS
<1>2. IsFiniteSet(wrote)
  <2>1. IsFiniteSet(1..(Retention - 1)) /\ IsFiniteSet(Service)
    BY FS_Interval DEF LogsAssumption
  <2>2. IsFiniteSet(Service \X (1..(Retention - 1)))
    BY <2>1, FS_Product
  <2> QED
    BY <2>2, FS_Subset
<1>3. /\ size \in Nat /\ earlier \in [1..size -> wrote] /\ DOMAIN earlier = 1..size
      /\ \A x \in wrote : \E i \in 1..size : earlier[i] = x
  BY <1>2, Enumerated
<1>4. /\ file = [s \in Service |-> [w \in Week |->
                     IF <<s, w>> \in wrote THEN CHOOSE i \in 1..size : earlier[i] = <<s, w>> ELSE 0]]
      /\ inode = [i \in 1..size |-> <<[n |-> UpTo(wrote, earlier[i][1], earlier[i][2]), week |-> earlier[i][2]]>>]
      /\ dirs = {sw[2] : sw \in wrote}
      /\ written = [s \in Service |-> UpTo(wrote, s, Retention - 1)]
  BY <1>1, <1>3 DEF UpTo
<1>5. /\ Retention \in Nat /\ Retention - 1 \in Nat /\ Retention > 0 /\ Retention \in Week
      /\ 1..(Retention - 1) \subseteq Week /\ 1..Retention \subseteq Week
  BY DEF LogsAssumption, Week
<1>6. ASSUME NEW i \in 1..size
      PROVE  /\ earlier[i] \in Service \X (1..(Retention - 1)) /\ earlier[i] \in wrote
             /\ earlier[i][1] \in Service /\ earlier[i][2] \in 1..(Retention - 1)
             /\ earlier[i] = <<earlier[i][1], earlier[i][2]>>
  BY <1>3
<1> DEFINE L(i) == [n |-> UpTo(wrote, earlier[i][1], earlier[i][2]), week |-> earlier[i][2]]
<1>7. ASSUME NEW i \in 1..size
      PROVE  /\ L(i) \in Line /\ L(i).n = UpTo(wrote, earlier[i][1], earlier[i][2]) /\ L(i).week = earlier[i][2]
             /\ L(i).n <= written[earlier[i][1]] /\ L(i).n \in Nat
             /\ WeekOf(wrote, earlier[i][1], L(i).n) = earlier[i][2]
  <2> PICK s : s = earlier[i][1]
    OBVIOUS
  <2> PICK w : w = earlier[i][2]
    OBVIOUS
  <2>1. s \in Service /\ w \in 1..(Retention - 1) /\ <<s, w>> \in wrote /\ w \in Nat /\ w <= Retention - 1
    BY <1>5, <1>6
  <2>2. UpTo(wrote, s, w) \in Nat /\ UpTo(wrote, s, w) <= UpTo(wrote, s, Retention - 1)
    BY <1>5, <2>1, UpToIs
  <2>3. UpTo(wrote, s, 0) \in Nat /\ UpTo(wrote, s, 0) < UpTo(wrote, s, w)
    BY <1>5, <2>1, UpToIs
  <2>4. UpTo(wrote, s, w) \in Nat \ {0}
    BY <2>2, <2>3
  <2>5. WeekOf(wrote, s, UpTo(wrote, s, w)) = w
    BY <2>1, <2>2, WeekOfIs
  <2>6. written[s] = UpTo(wrote, s, Retention - 1)
    BY <1>4, <2>1
  <2>7. w \in Week
    BY <1>5, <2>1
  <2>8. L(i) = [n |-> UpTo(wrote, s, w), week |-> w]
    OBVIOUS
  <2> HIDE DEF L
  <2>9. L(i).n = UpTo(wrote, s, w) /\ L(i).week = w /\ L(i) \in Line
    BY <2>4, <2>7, <2>8 DEF Line
  <2>10. L(i).n <= written[s] /\ L(i).n \in Nat
    BY <2>2, <2>6, <2>9
  <2>11. WeekOf(wrote, s, L(i).n) = w
    BY <2>5, <2>9
  <2> QED
    BY <2>9, <2>10, <2>11
<1>8. inode = [i \in 1..size |-> <<L(i)>>]
  BY <1>4
<1> HIDE DEF L
<1>9. /\ \A i \in 1..size : inode[i] = <<L(i)>> /\ inode[i] \in Seq(Line)
      /\ inode \in Seq(Seq(Line)) /\ Len(inode) = size
  <2>1. \A i \in 1..size : inode[i] = <<L(i)>> /\ inode[i] \in Seq(Line)
    BY <1>7, <1>8
  <2>2. inode \in [1..size -> Seq(Line)]
    BY <1>8, <2>1
  <2> QED
    BY <1>3, <2>1, <2>2
<1>10. ASSUME NEW s \in Service, NEW w \in Week
       PROVE  file[s][w] \in 0..size /\ (file[s][w] # 0 => file[s][w] \in 1..size /\ earlier[file[s][w]] = <<s, w>>)
  <2>1. file[s][w] = IF <<s, w>> \in wrote THEN CHOOSE i \in 1..size : earlier[i] = <<s, w>> ELSE 0
    BY <1>4
  <2>2. CASE <<s, w>> \in wrote
    <3>1. \E i \in 1..size : earlier[i] = <<s, w>>
      BY <1>3, <2>2
    <3>2. file[s][w] \in 1..size /\ earlier[file[s][w]] = <<s, w>>
      BY <2>1, <2>2, <3>1
    <3> QED
      BY <1>3, <3>2
  <2>3. CASE <<s, w>> \notin wrote
    <3>1. file[s][w] = 0
      BY <2>1, <2>3
    <3> QED
      BY <1>3, <3>1
  <2> QED
    BY <2>2, <2>3
<1>11. Disk
  <2>1. file \in [Service -> [Week -> 0..Len(inode)]]
    <3>1. \A s \in Service : file[s] \in [Week -> 0..Len(inode)]
      <4> SUFFICES ASSUME NEW s \in Service PROVE file[s] \in [Week -> 0..Len(inode)]
        OBVIOUS
      <4>1. file[s] = [w \in Week |->
                         IF <<s, w>> \in wrote THEN CHOOSE i \in 1..size : earlier[i] = <<s, w>> ELSE 0]
        BY <1>4
      <4>2. \A w \in Week : file[s][w] \in 0..Len(inode)
        BY <1>9, <1>10
      <4> QED
        BY <4>1, <4>2
    <3>2. DOMAIN file = Service /\ file = [s \in Service |-> file[s]]
      BY <1>4
    <3> QED
      BY <3>1, <3>2
  <2>2. \A s \in Service : UpTo(wrote, s, Retention - 1) \in Nat
    <3>1. Retention - 1 \in Nat /\ Retention - 1 <= Retention - 1
      BY <1>5
    <3> QED
      BY <3>1, UpToIs
  <2>3. written \in [Service -> Nat]
    BY <1>4, <2>2
  <2>4. dirs \subseteq Week
    BY <1>4, <1>5
  <2>5. week \in Week /\ alive \in BOOLEAN
    BY <1>5 DEF Init
  <2> QED
    BY <1>9, <2>1, <2>3, <2>4, <2>5 DEF Disk
<1>12. Keeper
  <2>1. 0 \in 0..MaxEvents
    BY DEF LogsAssumption
  <2> QED
    BY <2>1 DEF Init, Keeper
<1> PICK stamp : stamp = [s \in Service |-> [n \in Nat |-> WeekOf(wrote, s, n)]]
  OBVIOUS
<1>13. FileInv(earlier, stamp)
  <2>1. earlier \in [1..Len(inode) -> Service \X Week]
    BY <1>3, <1>5, <1>6, <1>9
  <2>2. \A s \in Service : \A n \in Nat : stamp[s][n] = WeekOf(wrote, s, n) /\ stamp[s][n] \in 1..Retention
    BY WeekOfIs
  <2>3. stamp \in [Service -> [Nat -> Week]]
    BY <1>5, <2>2
  <2>4. \A s \in Service : \A m, n \in 1..written[s] :
          stamp[s][n] <= week /\ (m <= n => stamp[s][m] <= stamp[s][n])
    <3>1. week = Retention
      BY DEF Init
    <3> SUFFICES ASSUME NEW s \in Service, NEW m \in 1..written[s], NEW n \in 1..written[s]
                 PROVE  stamp[s][n] <= week /\ (m <= n => stamp[s][m] <= stamp[s][n])
      OBVIOUS
    <3>2. m \in Nat /\ n \in Nat
      BY <1>11 DEF Disk
    <3>3. /\ WeekOf(wrote, s, n) \in 1..Retention
          /\ m <= n => WeekOf(wrote, s, m) <= WeekOf(wrote, s, n)
      BY <3>2, WeekOfIs
    <3> QED
      BY <1>5, <2>2, <3>1, <3>2, <3>3
  <2>5. \A s \in Service : \A w \in Week : file[s][w] # 0 => earlier[file[s][w]] = <<s, w>>
    BY <1>10
  <2>6. \A i \in 1..Len(inode) : /\ earlier[i][2] <= week
                                 /\ LinesAre(inode[i], earlier[i][1], earlier[i][2], stamp, written)
    <3> SUFFICES ASSUME NEW i \in 1..size
                 PROVE  /\ earlier[i][2] <= week
                        /\ LinesAre(inode[i], earlier[i][1], earlier[i][2], stamp, written)
      BY <1>9
    <3>1. earlier[i][2] <= week
      BY <1>5, <1>6 DEF Init
    <3>2. /\ L(i).n <= written[earlier[i][1]] /\ L(i).week = earlier[i][2]
          /\ stamp[earlier[i][1]][L(i).n] = earlier[i][2]
      BY <1>6, <1>7, <2>2
    <3>3. DOMAIN inode[i] = {1} /\ inode[i][1] = L(i)
      <4> PICK l : l = L(i)
        OBVIOUS
      <4>1. inode[i] = <<l>>
        BY <1>9
      <4> QED
        BY <4>1
    <3> QED
      BY <3>1, <3>2, <3>3 DEF LinesAre, Increasing
  <2> QED
    BY <2>1, <2>3, <2>4, <2>5, <2>6 DEF FileInv
<1> QED
  BY <1>11, <1>12, <1>13 DEF VolumeTyped

-----------------------------------------------------------------------------
(* The request and the volume leave each other's state alone.              *)
LEMMA StreamLeavesVolume ==
  ASSUME Request \/ ClientLeaves \/ (\E s \in Service : Reader(s)) \/ Waiter \/ Handler \/ Quiet
  PROVE  UNCHANGED volumeVars /\ UNCHANGED <<swept, toRemove, maker, toMake, toForget>>
         /\ (events' = events \/ (events < MaxEvents /\ events' = events + 1))
<1>1. CASE Request \/ ClientLeaves \/ Quiet
  BY <1>1 DEF Request, ClientLeaves, Quiet, vars, keeperVars, Happens
<1>2. CASE \E s \in Service : Reader(s)
  <2> PICK s \in Service : Reader(s)
    BY <1>2
  <2>1. UNCHANGED <<volumeVars, keeperVars>>
    BY DEF Reader, ListFiles, OpenFiles, ReadLine, EndOfFile, StopReading, SendLine, FlushBeforeFollowing,
           TailFile, FollowLine, FollowTruncated, StopFollowing, OutsideReader, StreamStays
  <2> QED
    BY <2>1 DEF keeperVars
<1>3. CASE Waiter
  BY <1>3 DEF Waiter, StreamStays, keeperVars
<1>4. CASE Handler
  BY <1>4 DEF Handler, Receive, SeeClientGone, SeeClosed, ReceiveError, HandlerReturns, keeperVars
<1> QED
  BY <1>1, <1>2, <1>3, <1>4

LEMMA VolumeLeavesStream ==
  ASSUME NextWeek \/ Files \/ \E s \in Service : Write(s)
  PROVE  UNCHANGED streamVars
BY DEF NextWeek, Files, Write, KeeperList, KeeperRemove, MakerList, MakerStat, MakerCreate,
       DestroyEnclave, RemoveEnclaveLogs

-----------------------------------------------------------------------------
(* With a period of more than a week the remover keeps up with the creator: *)
(* a file that is made is never as old as what it removes.                 *)
LEMMA NewFileAt ==
  ASSUME VolumeTyped, NEW s \in Service, NEW w \in Week, NEW i,
         file' = [file EXCEPT ![s][w] = i]
  PROVE  \A t \in Service : \A v \in Week : file'[t][v] = IF t = s /\ v = w THEN i ELSE file[t][v]
<1>1. file \in [Service -> [Week -> 0..Len(inode)]]
  BY DEF VolumeTyped, Disk
<1> QED
  BY <1>1

LEMMA SweepStays ==
  ASSUME LogsAssumption, VolumeTyped, SweepInv, week' = week, alive' => alive, toRemove' = toRemove,
         swept' = swept,
         \A s \in Service : \A w \in Week :
           file'[s][w] # 0 => file[s][w] # 0 \/ ~alive' \/ w + Retention > week
  PROVE  SweepInv'
<1>1. \A sw \in toRemove' : sw[2] + Retention = week'
  BY DEF SweepInv
<1>2. ASSUME alive', NEW s \in Service, NEW w \in Week, file'[s][w] # 0, w + Retention <= week'
      PROVE  w + Retention = week' /\ (swept' < week' \/ <<s, w>> \in toRemove')
  <2>1. w \in Nat /\ Retention \in Nat /\ week \in Nat
    BY VolumeIs DEF Week, LogsAssumption
  <2>2. file[s][w] # 0
    BY <1>2, <2>1
  <2> QED
    BY <1>2, <2>2 DEF SweepInv
<1> QED
  BY <1>1, <1>2 DEF SweepInv

LEMMA SweepKeeps ==
  ASSUME LogsAssumption, Retention > 1, VolumeTyped, SweepInv, [Next]_vars
  PROVE  SweepInv'
<1>0. /\ Retention \in Nat /\ week \in Nat /\ \A w \in Week : w \in Nat
      /\ \A s \in Service : \A w \in Week : file[s][w] \in Nat
  BY VolumeIs DEF LogsAssumption, Week
<1>1. CASE NextWeek
  <2>1. /\ week' = week + 1 /\ swept' = week /\ toRemove' = {} /\ toRemove = {} /\ swept = week
        /\ alive' = alive /\ file' = file
    BY <1>1 DEF NextWeek
  <2>2. ASSUME alive', NEW s \in Service, NEW w \in Week, file'[s][w] # 0, w + Retention <= week'
        PROVE  w + Retention = week' /\ swept' < week'
    <3>1. w \in Nat
      BY <1>0
    <3>2. ~(w + Retention <= week)
      BY <1>0, <2>1, <2>2 DEF SweepInv
    <3> QED
      BY <1>0, <2>1, <2>2, <3>1, <3>2
  <2> QED
    BY <2>1, <2>2 DEF SweepInv
<1>2. CASE KeeperList
  <2>1. /\ swept' = week /\ toRemove' = IF alive THEN BeyondRetention ELSE {}
        /\ toRemove = {} /\ swept < week /\ week' = week /\ alive' = alive /\ file' = file
    BY <1>2 DEF KeeperList, volumeVars
  <2>2. \A sw \in toRemove' : sw[2] + Retention = week'
    BY <2>1 DEF BeyondRetention
  <2>3. ASSUME alive', NEW s \in Service, NEW w \in Week, file'[s][w] # 0, w + Retention <= week'
        PROVE  w + Retention = week' /\ <<s, w>> \in toRemove'
    <3>1. w + Retention = week
      BY <2>1, <2>3 DEF SweepInv
    <3>2. Exists(s, w)
      BY <2>1, <2>3 DEF Exists
    <3> QED
      BY <2>1, <2>3, <3>1, <3>2 DEF BeyondRetention
  <2> QED
    BY <2>2, <2>3 DEF SweepInv
<1>3. CASE KeeperRemove
  <2>1. PICK sw \in toRemove : toRemove' = toRemove \ {sw} /\ file' = [file EXCEPT ![sw[1]][sw[2]] = 0]
    BY <1>3 DEF KeeperRemove
  <2>2. week' = week /\ alive' = alive /\ swept' = swept
    BY <1>3 DEF KeeperRemove
  <2>3. sw \in Service \X Week
    BY DEF VolumeTyped, Keeper
  <2> PICK a \in Service, b \in Week : sw = <<a, b>>
    BY <2>3
  <2>4. file' = [file EXCEPT ![a][b] = 0]
    BY <2>1
  <2>5. \A t \in Service : \A v \in Week : file'[t][v] = IF t = a /\ v = b THEN 0 ELSE file[t][v]
    <3>1. file \in [Service -> [Week -> 0..Len(inode)]]
      BY DEF VolumeTyped, Disk
    <3> QED
      BY <2>4, <3>1
  <2>6. ASSUME alive', NEW s \in Service, NEW w \in Week, file'[s][w] # 0, w + Retention <= week'
        PROVE  w + Retention = week' /\ (swept' < week' \/ <<s, w>> \in toRemove')
    <3>1. file[s][w] # 0 /\ <<s, w>> # sw
      BY <2>5, <2>6
    <3>2. w + Retention = week /\ (swept < week \/ <<s, w>> \in toRemove)
      BY <2>2, <2>6, <3>1 DEF SweepInv
    <3> QED
      BY <2>1, <2>2, <3>1, <3>2
  <2>7. \A x \in toRemove' : x[2] + Retention = week'
    BY <2>1, <2>2 DEF SweepInv
  <2> QED
    BY <2>6, <2>7 DEF SweepInv
<1>4. CASE \E s \in Service : Write(s)
  <2> PICK s \in Service : Write(s)
    BY <1>4
  <2>1. /\ week' = week /\ alive' = alive /\ swept' = swept /\ toRemove' = toRemove
        /\ file' = file \/ file' = [file EXCEPT ![s][week] = Len(inode) + 1]
    BY DEF Write, NewFile, keeperVars
  <2>2. week \in Week
    BY VolumeIs
  <2>3. \A t \in Service : \A v \in Week : file'[t][v] # 0 => file[t][v] # 0 \/ v + Retention > week
    <3>1. CASE file' = file
      BY <3>1
    <3>2. CASE file' = [file EXCEPT ![s][week] = Len(inode) + 1]
      BY <1>0, <2>2, <3>2, NewFileAt
    <3> QED
      BY <2>1, <3>1, <3>2
  <2> QED
    BY <2>1, <2>3, SweepStays
<1>5. CASE MakerCreate
  <2>1. /\ week' = week /\ alive' = alive /\ swept' = swept /\ toRemove' = toRemove
        /\ maker # NoWork
        /\ file' = file \/ file' = [file EXCEPT ![maker.s][maker.w] = Len(inode) + 1]
    BY <1>5 DEF MakerCreate, NewFile
  <2>2. maker.s \in Service /\ maker.w \in Week /\ maker.w >= week - 1
    BY <1>0, <2>1 DEF VolumeTyped, Keeper, Work
  <2> PICK s \in Service, u \in Week : s = maker.s /\ u = maker.w
    BY <2>2
  <2>3. \A t \in Service : \A v \in Week : file'[t][v] # 0 => file[t][v] # 0 \/ v + Retention > week
    <3>1. CASE file' = file
      BY <3>1
    <3>2. CASE file' = [file EXCEPT ![s][u] = Len(inode) + 1]
      <4>1. u + Retention > week
        BY <1>0, <2>2
      <4> QED
        BY <3>2, <4>1, NewFileAt
    <3> QED
      BY <2>1, <3>1, <3>2
  <2> QED
    BY <2>1, <2>3, SweepStays
<1>6. CASE RemoveEnclaveLogs
  <2>1. /\ week' = week /\ alive' = alive /\ swept' = swept /\ toRemove' = toRemove
        /\ file' = [s \in Service |-> [file[s] EXCEPT ![Max(toForget)] = 0]]
    BY <1>6 DEF RemoveEnclaveLogs
  <2> PICK u : u = Max(toForget)
    OBVIOUS
  <2>2. \A s \in Service : \A w \in Week : file'[s][w] # 0 => file[s][w] # 0
    <3> SUFFICES ASSUME NEW s \in Service, NEW w \in Week, file'[s][w] # 0 PROVE file[s][w] # 0
      OBVIOUS
    <3>1. file'[s] = [file[s] EXCEPT ![u] = 0] /\ file[s] \in [Week -> 0..Len(inode)]
      BY <2>1, VolumeIs
    <3> QED
      BY <3>1
  <2> QED
    BY <2>1, <2>2, SweepStays
<1>7. CASE UNCHANGED <<week, swept, toRemove, file>> /\ (alive' => alive)
  BY <1>7, SweepStays
<1>8. ASSUME MakerList \/ MakerStat \/ DestroyEnclave \/ UNCHANGED vars
      PROVE  UNCHANGED <<week, swept, toRemove, file>> /\ (alive' => alive)
  BY <1>8 DEF MakerList, MakerStat, DestroyEnclave, vars, volumeVars, keeperVars
<1>9. ASSUME Request \/ ClientLeaves \/ (\E s \in Service : Reader(s)) \/ Waiter \/ Handler \/ Quiet
      PROVE  UNCHANGED <<week, swept, toRemove, file>> /\ (alive' => alive)
  BY <1>9, StreamLeavesVolume DEF volumeVars, keeperVars
<1> QED
  BY <1>1, <1>2, <1>3, <1>4, <1>5, <1>6, <1>7, <1>8, <1>9 DEF Next, Files
-----------------------------------------------------------------------------
(* Lines on their way.  Of service s, the lines of d were delivered, those *)
(* of its batches in c wait in the channel, and those of b are buffered.   *)
Before(A, B) == \A l \in A, m \in B : l.n < m.n

Batched == [s : Service, lines : Seq(Line)]

LinesOf(s, d, c, b) ==
  Range(d) \cup Range(b) \cup {l \in Line : \E i \in DOMAIN c : c[i].s = s /\ l \in Range(c[i].lines)}

InOrder(s, d, c, b) ==
  /\ Increasing(d) /\ Increasing(b) /\ Before(Range(d), Range(b))
  /\ \A i \in DOMAIN c : c[i].s = s =>
       /\ Increasing(c[i].lines)
       /\ Before(Range(d), Range(c[i].lines)) /\ Before(Range(c[i].lines), Range(b))
       /\ \A j \in DOMAIN c : c[j].s = s /\ i < j => Before(Range(c[i].lines), Range(c[j].lines))

LEMMA RangeOf ==
  ASSUME NEW q \in Seq(Line)
  PROVE  /\ Range(q) \in SUBSET Line /\ \A j \in DOMAIN q : q[j] \in Range(q)
         /\ \A l \in Range(q) : \E j \in DOMAIN q : q[j] = l
BY DEF Range

LEMMA NoLines == Range(<<>>) = {} /\ Increasing(<<>>) /\ <<>> \in Seq(Line)
BY DEF Range, Increasing

LEMMA OneLine ==
  ASSUME NEW l \in Line
  PROVE  Range(<<l>>) = {l} /\ Increasing(<<l>>) /\ <<l>> \in Seq(Line) /\ Len(<<l>>) = 1 /\ <<l>>[1] = l
<1>1. /\ <<l>> \in Seq(Line) /\ DOMAIN <<l>> = 1..1 /\ <<l>>[1] = l /\ Len(<<l>>) = 1
  OBVIOUS
<1>2. Range(<<l>>) = {l}
  BY <1>1 DEF Range
<1>3. Increasing(<<l>>)
  BY <1>1 DEF Increasing
<1> QED
  BY <1>1, <1>2, <1>3

LEMMA RangeAppended ==
  ASSUME NEW q \in Seq(Line), NEW l \in Line
  PROVE  Range(Append(q, l)) = Range(q) \cup {l}
<1> PICK a : a = Append(q, l)
  OBVIOUS
<1>1. /\ DOMAIN a = 1..(Len(q) + 1) /\ a[Len(q) + 1] = l /\ \A j \in DOMAIN q : a[j] = q[j]
      /\ DOMAIN q = 1..Len(q) /\ Len(q) \in Nat
  BY Appending
<1>2. Range(a) = Range(q) \cup {l}
  BY <1>1 DEF Range
<1> QED
  BY <1>2

LEMMA Appended ==
  ASSUME NEW q \in Seq(Line), Increasing(q), NEW l \in Line, Before(Range(q), {l})
  PROVE  Increasing(Append(q, l))
<1>1. \A j \in DOMAIN q : q[j].n < l.n
  BY RangeOf DEF Before
<1> QED
  BY <1>1, AppendIncreasing

LEMMA Joined ==
  ASSUME NEW q \in Seq(Line), NEW r \in Seq(Line)
  PROVE  /\ q \o r \in Seq(Line) /\ Range(q \o r) = Range(q) \cup Range(r)
         /\ Increasing(q) /\ Increasing(r) /\ Before(Range(q), Range(r)) => Increasing(q \o r)
<1> PICK a : a = q \o r
  OBVIOUS
<1>1. /\ a \in Seq(Line) /\ Len(q) \in Nat /\ Len(r) \in Nat
      /\ DOMAIN q = 1..Len(q) /\ DOMAIN r = 1..Len(r) /\ DOMAIN a = 1..(Len(q) + Len(r))
      /\ \A j \in DOMAIN a : a[j] = IF j <= Len(q) THEN q[j] ELSE r[j - Len(q)]
  OBVIOUS
<1>2. Range(a) = Range(q) \cup Range(r)
  <2>1. \A j \in DOMAIN q : j \in DOMAIN a /\ a[j] = q[j]
    BY <1>1
  <2>2. \A j \in DOMAIN r : j + Len(q) \in DOMAIN a /\ a[j + Len(q)] = r[j]
    BY <1>1
  <2>3. \A j \in DOMAIN a : j \in DOMAIN q \/ j - Len(q) \in DOMAIN r
    BY <1>1
  <2>4. Range(q) \subseteq Range(a)
    BY <2>1 DEF Range
  <2>5. Range(r) \subseteq Range(a)
    BY <2>2 DEF Range
  <2>6. Range(a) \subseteq Range(q) \cup Range(r)
    <3> SUFFICES ASSUME NEW j \in DOMAIN a PROVE a[j] \in Range(q) \cup Range(r)
      BY DEF Range
    <3>1. CASE j <= Len(q)
      BY <1>1, <3>1 DEF Range
    <3>2. CASE ~(j <= Len(q))
      <4>1. a[j] = r[j - Len(q)] /\ j - Len(q) \in DOMAIN r
        BY <1>1, <3>2
      <4> QED
        BY <4>1 DEF Range
    <3> QED
      BY <3>1, <3>2
  <2> QED
    BY <2>4, <2>5, <2>6
<1>3. ASSUME Increasing(q), Increasing(r), Before(Range(q), Range(r)) PROVE Increasing(a)
  <2> SUFFICES ASSUME NEW i \in DOMAIN a, NEW j \in DOMAIN a, i < j PROVE a[i].n < a[j].n
    BY DEF Increasing
  <2>1. CASE j <= Len(q)
    BY <1>1, <1>3, <2>1 DEF Increasing
  <2>2. CASE i > Len(q)
    <3>1. /\ i - Len(q) \in DOMAIN r /\ j - Len(q) \in DOMAIN r /\ i - Len(q) < j - Len(q)
          /\ a[i] = r[i - Len(q)] /\ a[j] = r[j - Len(q)]
      BY <1>1, <2>2
    <3> QED
      BY <1>3, <3>1 DEF Increasing
  <2>3. CASE i <= Len(q) /\ j > Len(q)
    <3>1. /\ i \in DOMAIN q /\ a[i] = q[i] /\ j - Len(q) \in DOMAIN r /\ a[j] = r[j - Len(q)]
      BY <1>1, <2>3
    <3>2. q[i] \in Range(q) /\ r[j - Len(q)] \in Range(r)
      BY <3>1 DEF Range
    <3> QED
      BY <1>3, <3>1, <3>2 DEF Before
  <2> QED
    BY <1>1, <2>1, <2>2, <2>3
<1> QED
  BY <1>1, <1>2, <1>3

LEMMA HeadFirst ==
  ASSUME NEW q \in Seq(Line), q # <<>>
  PROVE  /\ Head(q) \in Line /\ Tail(q) \in Seq(Line) /\ Len(Tail(q)) = Len(q) - 1 /\ Len(q) > 0
         /\ Range(q) = {Head(q)} \cup Range(Tail(q))
         /\ Increasing(q) => Increasing(Tail(q)) /\ Before({Head(q)}, Range(Tail(q)))
<1> PICK h, t : h = Head(q) /\ t = Tail(q)
  OBVIOUS
<1>1. /\ h \in Line /\ t \in Seq(Line) /\ Len(q) \in Nat /\ Len(q) > 0 /\ h = q[1] /\ Len(t) = Len(q) - 1
      /\ DOMAIN q = 1..Len(q) /\ DOMAIN t = 1..(Len(q) - 1) /\ \A j \in DOMAIN t : t[j] = q[j + 1]
  OBVIOUS
<1>2. Range(q) = {h} \cup Range(t)
  <2>1. h \in Range(q)
    BY <1>1 DEF Range
  <2>2. ASSUME NEW j \in DOMAIN t PROVE t[j] \in Range(q)
    <3>1. j + 1 \in DOMAIN q /\ t[j] = q[j + 1]
      BY <1>1
    <3> QED
      BY <3>1 DEF Range
  <2>3. ASSUME NEW j \in DOMAIN q PROVE q[j] \in {h} \cup Range(t)
    <3>1. CASE j = 1
      BY <1>1, <3>1
    <3>2. CASE j # 1
      <4>1. j - 1 \in DOMAIN t /\ t[j - 1] = q[j]
        BY <1>1, <3>2
      <4> QED
        BY <4>1 DEF Range
    <3> QED
      BY <3>1, <3>2
  <2> QED
    BY <2>1, <2>2, <2>3 DEF Range
<1>3. ASSUME Increasing(q) PROVE Increasing(t) /\ Before({h}, Range(t))
  <2>1. ASSUME NEW i \in DOMAIN t, NEW j \in DOMAIN t, i < j PROVE t[i].n < t[j].n
    <3>1. i + 1 \in DOMAIN q /\ j + 1 \in DOMAIN q /\ i + 1 < j + 1 /\ t[i] = q[i + 1] /\ t[j] = q[j + 1]
      BY <1>1, <2>1
    <3> QED
      BY <1>3, <3>1 DEF Increasing
  <2>2. ASSUME NEW j \in DOMAIN t PROVE h.n < t[j].n
    <3>1. 1 \in DOMAIN q /\ j + 1 \in DOMAIN q /\ 1 < j + 1 /\ h = q[1] /\ t[j] = q[j + 1]
      BY <1>1
    <3> QED
      BY <1>3, <3>1 DEF Increasing
  <2> QED
    BY <2>1, <2>2 DEF Increasing, Before, Range
<1> QED
  BY <1>1, <1>2, <1>3

LEMMA BatchesAt ==
  ASSUME NEW c \in Seq(Batched)
  PROVE  /\ Len(c) \in Nat /\ DOMAIN c = 1..Len(c)
         /\ \A i \in DOMAIN c : c[i] \in Batched /\ c[i].s \in Service /\ c[i].lines \in Seq(Line)
                                /\ Range(c[i].lines) \in SUBSET Line
<1>1. \A x \in Batched : x.s \in Service /\ x.lines \in Seq(Line)
  BY DEF Batched
<1>2. Len(c) \in Nat /\ DOMAIN c = 1..Len(c) /\ \A i \in DOMAIN c : c[i] \in Batched
  OBVIOUS
<1> QED
  BY <1>1, <1>2, RangeOf

(* A line that comes after the others joins the buffer.                    *)
LEMMA Buffered ==
  ASSUME NEW s, NEW d \in Seq(Line), NEW c \in Seq(Batched), NEW b \in Seq(Line), NEW l \in Line,
         InOrder(s, d, c, b), Before(LinesOf(s, d, c, b), {l})
  PROVE  InOrder(s, d, c, Append(b, l)) /\ LinesOf(s, d, c, Append(b, l)) = LinesOf(s, d, c, b) \cup {l}
<1> PICK a : a = Append(b, l)
  OBVIOUS
<1>1. Range(a) = Range(b) \cup {l}
  BY RangeAppended
<1>2. Range(d) \subseteq LinesOf(s, d, c, b) /\ Range(b) \subseteq LinesOf(s, d, c, b)
  BY DEF LinesOf
<1>3. \A i \in DOMAIN c : c[i].s = s => Range(c[i].lines) \subseteq LinesOf(s, d, c, b)
  BY BatchesAt DEF LinesOf
<1>4. Before(Range(b), {l}) /\ Before(Range(d), {l})
  BY <1>2 DEF Before
<1>5. \A i \in DOMAIN c : c[i].s = s => Before(Range(c[i].lines), {l})
  BY <1>3 DEF Before
<1>6. Increasing(a)
  BY <1>4, Appended DEF InOrder
<1>7. Before(Range(d), Range(a)) /\ \A i \in DOMAIN c : c[i].s = s => Before(Range(c[i].lines), Range(a))
  BY <1>1, <1>4, <1>5 DEF InOrder, Before
<1>8. InOrder(s, d, c, a)
  BY <1>6, <1>7 DEF InOrder
<1>9. LinesOf(s, d, c, a) = LinesOf(s, d, c, b) \cup {l}
  BY <1>1 DEF LinesOf
<1> QED
  BY <1>8, <1>9

(* A batch at the end of the channel: what it says of the batches there.   *)
LEMMA BatchLast ==
  ASSUME NEW c \in Seq(Batched), NEW x \in Batched
  PROVE  /\ Append(c, x) \in Seq(Batched) /\ DOMAIN Append(c, x) = 1..(Len(c) + 1)
         /\ Append(c, x)[Len(c) + 1] = x /\ \A i \in DOMAIN c : Append(c, x)[i] = c[i] /\ i \in DOMAIN Append(c, x)
         /\ \A i \in DOMAIN Append(c, x) : i \in DOMAIN c \/ i = Len(c) + 1
         /\ Len(Append(c, x)) = Len(c) + 1
OBVIOUS

(* The buffer goes to the channel.                                         *)
LEMMA HandedOn ==
  ASSUME NEW s, NEW d \in Seq(Line), NEW c \in Seq(Batched), NEW b \in Seq(Line), NEW x \in Batched,
         x.s = s, x.lines = b, InOrder(s, d, c, b)
  PROVE  InOrder(s, d, Append(c, x), <<>>) /\ LinesOf(s, d, Append(c, x), <<>>) = LinesOf(s, d, c, b)
<1> PICK e : e = Append(c, x)
  OBVIOUS
<1> PICK k : k = Len(c) + 1
  OBVIOUS
<1>1. /\ e \in Seq(Batched) /\ k \in DOMAIN e /\ e[k] = x
      /\ \A i \in DOMAIN c : e[i] = c[i] /\ i \in DOMAIN e
      /\ \A i \in DOMAIN e : i \in DOMAIN c \/ i = k
      /\ k \in Nat /\ \A i \in DOMAIN c : i < k /\ i \in Nat
  BY BatchLast, BatchesAt
<1>2. Range(b) \in SUBSET Line
  BY RangeOf
<1>3. LinesOf(s, d, e, <<>>) = LinesOf(s, d, c, b)
  BY <1>1, <1>2, NoLines DEF LinesOf
<1>4. \A i \in DOMAIN e : e[i].s = s =>
        /\ Increasing(e[i].lines) /\ Before(Range(d), Range(e[i].lines)) /\ Before(Range(e[i].lines), Range(<<>>))
  BY <1>1, NoLines DEF InOrder, Before
<1>5. \A i \in DOMAIN e : e[i].s = s => \A j \in DOMAIN e : e[j].s = s /\ i < j =>
        Before(Range(e[i].lines), Range(e[j].lines))
  <2> SUFFICES ASSUME NEW i \in DOMAIN e, e[i].s = s, NEW j \in DOMAIN e, e[j].s = s, i < j
               PROVE  Before(Range(e[i].lines), Range(e[j].lines))
    OBVIOUS
  <2>1. CASE j \in DOMAIN c
    <3>1. i \in DOMAIN c
      BY <1>1, <2>1
    <3> QED
      BY <1>1, <2>1, <3>1 DEF InOrder
  <2>2. CASE j = k
    <3>1. i \in DOMAIN c
      BY <1>1, <2>2
    <3> QED
      BY <1>1, <2>2, <3>1 DEF InOrder
  <2> QED
    BY <1>1, <2>1, <2>2
<1>6. InOrder(s, d, e, <<>>)
  BY <1>4, <1>5, NoLines DEF InOrder, Before
<1> QED
  BY <1>3, <1>6

LEMMA HandedOnByOther ==
  ASSUME NEW s, NEW d \in Seq(Line), NEW c \in Seq(Batched), NEW b \in Seq(Line), NEW x \in Batched,
         x.s # s, InOrder(s, d, c, b)
  PROVE  InOrder(s, d, Append(c, x), b) /\ LinesOf(s, d, Append(c, x), b) = LinesOf(s, d, c, b)
<1> PICK e : e = Append(c, x)
  OBVIOUS
<1> PICK k : k = Len(c) + 1
  OBVIOUS
<1>1. /\ k \in DOMAIN e /\ e[k].s # s
      /\ \A i \in DOMAIN c : e[i] = c[i] /\ i \in DOMAIN e
      /\ \A i \in DOMAIN e : i \in DOMAIN c \/ i = k
  BY BatchLast, BatchesAt
<1>2. \A i \in DOMAIN e : e[i].s = s => i \in DOMAIN c
  BY <1>1
<1>3. LinesOf(s, d, e, b) = LinesOf(s, d, c, b)
  BY <1>1, <1>2 DEF LinesOf
<1>4. InOrder(s, d, e, b)
  BY <1>1, <1>2 DEF InOrder
<1> QED
  BY <1>3, <1>4

(* The oldest batch is delivered.                                          *)
LEMMA BatchFirst ==
  ASSUME NEW c \in Seq(Batched), c # <<>>
  PROVE  /\ Head(c) \in Batched /\ Head(c).s \in Service /\ Head(c).lines \in Seq(Line)
         /\ Tail(c) \in Seq(Batched) /\ Len(Tail(c)) = Len(c) - 1 /\ Len(c) > 0
         /\ Head(c) = c[1] /\ 1 \in DOMAIN c
         /\ \A i \in DOMAIN Tail(c) : Tail(c)[i] = c[i + 1] /\ i + 1 \in DOMAIN c /\ i \in Nat /\ i > 0
         /\ \A i \in DOMAIN c : i = 1 \/ (i - 1 \in DOMAIN Tail(c) /\ Tail(c)[i - 1] = c[i])
<1> PICK h, t : h = Head(c) /\ t = Tail(c)
  OBVIOUS
<1>1. /\ h \in Batched /\ t \in Seq(Batched) /\ Len(c) \in Nat /\ Len(c) > 0 /\ h = c[1] /\ Len(t) = Len(c) - 1
      /\ DOMAIN c = 1..Len(c) /\ DOMAIN t = 1..(Len(c) - 1) /\ \A i \in DOMAIN t : t[i] = c[i + 1]
  OBVIOUS
<1>2. h.s \in Service /\ h.lines \in Seq(Line)
  BY <1>1 DEF Batched
<1>3. 1 \in DOMAIN c /\ \A i \in DOMAIN t : i + 1 \in DOMAIN c /\ i \in Nat /\ i > 0
  BY <1>1
<1>4. \A i \in DOMAIN c : i = 1 \/ (i - 1 \in DOMAIN t /\ t[i - 1] = c[i])
  BY <1>1
<1> QED
  BY <1>1, <1>2, <1>3, <1>4

LEMMA Received ==
  ASSUME NEW s, NEW d \in Seq(Line), NEW c \in Seq(Batched), NEW b \in Seq(Line), c # <<>>,
         InOrder(s, d, c, b)
  PROVE  IF Head(c).s = s
         THEN /\ InOrder(s, d \o Head(c).lines, Tail(c), b) /\ d \o Head(c).lines \in Seq(Line)
              /\ LinesOf(s, d \o Head(c).lines, Tail(c), b) = LinesOf(s, d, c, b)
         ELSE InOrder(s, d, Tail(c), b) /\ LinesOf(s, d, Tail(c), b) = LinesOf(s, d, c, b)
<1> PICK h, t : h = Head(c) /\ t = Tail(c)
  OBVIOUS
<1>1. /\ h \in Batched /\ h.lines \in Seq(Line) /\ t \in Seq(Batched) /\ h = c[1] /\ 1 \in DOMAIN c
      /\ \A i \in DOMAIN t : t[i] = c[i + 1] /\ i + 1 \in DOMAIN c /\ i \in Nat /\ i > 0
      /\ \A i \in DOMAIN c : i = 1 \/ (i - 1 \in DOMAIN t /\ t[i - 1] = c[i])
  BY BatchFirst
<1>2. \A i, j \in DOMAIN t : i < j => i + 1 < j + 1
  BY <1>1
<1>3. /\ Increasing(d) /\ Increasing(b) /\ Before(Range(d), Range(b))
      /\ \A i \in DOMAIN t : t[i].s = s =>
           /\ Increasing(t[i].lines)
           /\ Before(Range(d), Range(t[i].lines)) /\ Before(Range(t[i].lines), Range(b))
           /\ \A j \in DOMAIN t : t[j].s = s /\ i < j => Before(Range(t[i].lines), Range(t[j].lines))
  BY <1>1, <1>2 DEF InOrder
<1>4. CASE h.s = s
  <2> PICK e : e = d \o h.lines
    OBVIOUS
  <2>1. Increasing(h.lines) /\ Before(Range(d), Range(h.lines)) /\ Before(Range(h.lines), Range(b))
    BY <1>1, <1>4 DEF InOrder
  <2>2. e \in Seq(Line) /\ Range(e) = Range(d) \cup Range(h.lines) /\ Increasing(e)
    BY <1>1, <1>3, <2>1, Joined
  <2>3. \A i \in DOMAIN t : t[i].s = s => Before(Range(h.lines), Range(t[i].lines))
    <3> SUFFICES ASSUME NEW i \in DOMAIN t, t[i].s = s PROVE Before(Range(h.lines), Range(t[i].lines))
      OBVIOUS
    <3>1. 1 < i + 1 /\ i + 1 \in DOMAIN c /\ c[i + 1] = t[i]
      BY <1>1
    <3> QED
      BY <1>1, <1>4, <3>1 DEF InOrder
  <2>4. Before(Range(e), Range(b)) /\ \A i \in DOMAIN t : t[i].s = s => Before(Range(e), Range(t[i].lines))
    BY <1>3, <2>1, <2>2, <2>3 DEF Before
  <2>5. InOrder(s, e, t, b)
    BY <1>3, <2>2, <2>4 DEF InOrder
  <2>6. Range(h.lines) \in SUBSET Line
    BY <1>1, RangeOf
  <2>7. LinesOf(s, e, t, b) = LinesOf(s, d, c, b)
    <3>1. LinesOf(s, e, t, b) \subseteq LinesOf(s, d, c, b)
      BY <1>1, <1>4, <2>2, <2>6 DEF LinesOf
    <3>2. ASSUME NEW l \in Line, NEW i \in DOMAIN c, c[i].s = s, l \in Range(c[i].lines)
          PROVE  l \in LinesOf(s, e, t, b)
      <4>1. CASE i = 1
        BY <1>1, <2>2, <3>2, <4>1 DEF LinesOf
      <4>2. CASE i - 1 \in DOMAIN t /\ t[i - 1] = c[i]
        BY <3>2, <4>2 DEF LinesOf
      <4> QED
        BY <1>1, <4>1, <4>2
    <3>3. Range(d) \subseteq LinesOf(s, e, t, b) /\ Range(b) \subseteq LinesOf(s, e, t, b)
      BY <2>2 DEF LinesOf
    <3>4. LinesOf(s, d, c, b) \subseteq LinesOf(s, e, t, b)
      BY <3>2, <3>3 DEF LinesOf
    <3> QED
      BY <3>1, <3>4
  <2> QED
    BY <1>4, <2>2, <2>5, <2>7
<1>5. CASE h.s # s
  <2>1. InOrder(s, d, t, b)
    BY <1>3 DEF InOrder
  <2>2. \A i \in DOMAIN c : c[i].s = s => i - 1 \in DOMAIN t /\ t[i - 1] = c[i]
    BY <1>1, <1>5
  <2>3. LinesOf(s, d, t, b) = LinesOf(s, d, c, b)
    <3>1. LinesOf(s, d, t, b) \subseteq LinesOf(s, d, c, b)
      BY <1>1 DEF LinesOf
    <3>2. LinesOf(s, d, c, b) \subseteq LinesOf(s, d, t, b)
      BY <2>2 DEF LinesOf
    <3> QED
      BY <3>1, <3>2
  <2> QED
    BY <1>5, <2>1, <2>3
<1> QED
  BY <1>4, <1>5

(* When nothing is on its way any more, the lines are those delivered; and *)
(* lines in their order are as many as their number.                       *)
LEMMA AllDelivered ==
  ASSUME NEW s, NEW d \in Seq(Line)
  PROVE  LinesOf(s, d, <<>>, <<>>) = Range(d)
<1>1. \A i : i \notin DOMAIN <<>>
  OBVIOUS
<1> QED
  BY <1>1, NoLines DEF LinesOf

LEMMA AsMany ==
  ASSUME NEW q \in Seq(Line), Increasing(q)
  PROVE  IsFiniteSet(Range(q)) /\ Cardinality(Range(q)) = Len(q)
<1> PICK n : n = Len(q)
  OBVIOUS
<1>1. /\ n \in Nat /\ DOMAIN q = 1..n /\ q \in [1..n -> Range(q)]
      /\ \A j \in 1..n : q[j].n \in Nat
  BY LinesAt DEF Range
<1>2. \A i, j \in 1..n : q[i] = q[j] => i = j
  <2> SUFFICES ASSUME NEW i \in 1..n, NEW j \in 1..n, q[i] = q[j], i # j PROVE FALSE
    OBVIOUS
  <2>1. CASE i < j
    BY <1>1, <2>1 DEF Increasing
  <2>2. CASE j < i
    BY <1>1, <2>2 DEF Increasing
  <2> QED
    <3>1. i < j \/ j < i
      BY <1>1
    <3> QED
      BY <2>1, <2>2, <3>1
<1>3. \A x \in Range(q) : \E j \in 1..n : q[j] = x
  BY <1>1 DEF Range
<1>4. q \in Bijection(1..n, Range(q))
  BY <1>1, <1>2, <1>3 DEF Bijection, Injection, Surjection, IsInjective
<1>5. IsFiniteSet(1..n) /\ Cardinality(1..n) = n
  <2>1. 1 \in Int /\ n \in Int
    BY <1>1
  <2>2. IsFiniteSet(1..n) /\ Cardinality(1..n) = IF 1 > n THEN 0 ELSE n - 1 + 1
    BY <2>1, FS_Interval
  <2>3. CASE n = 0
    BY <2>2, <2>3
  <2>4. CASE n > 0
    <3>1. ~(1 > n) /\ n - 1 + 1 = n
      BY <1>1, <2>4
    <3> QED
      BY <2>2, <3>1
  <2> QED
    BY <1>1, <2>3, <2>4
<1>6. IsFiniteSet(Range(q)) /\ Cardinality(Range(q)) = Cardinality(1..n)
  BY <1>4, <1>5, FS_Bijection DEF ExistsBijection
<1> QED
  BY <1>5, <1>6
-----------------------------------------------------------------------------
(* The request, with the inodes it has opened.                             *)
Place == {"none", "list", "open", "read", "send", "flush", "tail", "follow", "relay", "fail", "done"}

Climbs(weeks) == \A k, m \in DOMAIN weeks : k < m => weeks[k] < weeks[m]

AskTyped ==
  /\ req \in [kind : {"rpc", "rest"}, follow : BOOLEAN, all : BOOLEAN]
  /\ asked \in [Service -> Nat] /\ (\A s \in Service : asked[s] <= written[s])
  /\ client \in {"there", "left"}
  /\ waiter \in {"none", "wait", "closeLogs", "closeErrors", "done"}
  /\ handler \in {"none", "loop", "end", "error", "gone"}

ReadersTyped ==
  /\ pc \in [Service -> Place] /\ path \in [Service -> Seq(Week)] /\ todo \in [Service -> Seq(1..Len(inode))]
  /\ pos \in [Service -> Nat] /\ out \in [Service -> Seq(Line)]

SenderTyped ==
  /\ buffer \in [Service -> Seq(Line)] /\ delivered \in [Service -> Seq(Line)]
  /\ keys \subseteq Service /\ flush \subseteq keys /\ mu \in Service \cup {"free", "waiter"}
  /\ chan \in Seq(Batched) /\ Len(chan) <= ChanSize

RequestTyped == AskTyped /\ ReadersTyped /\ SenderTyped

Live == handler = "loop" /\ client = "there"

Sent(s) == LinesOf(s, delivered[s], chan, buffer[s])

(* What a reader holds at each place.                                      *)
Placed(s) ==
  /\ pc[s] \in {"open", "read", "send", "flush", "tail"} => path[s] # <<>>
  /\ pc[s] \in {"read", "follow", "relay"} \/ (pc[s] = "send" /\ req.all) => todo[s] # <<>>
  /\ pc[s] \in {"send", "relay"} => out[s] # <<>>
  /\ pc[s] \notin {"read", "send", "relay"} \/ (pc[s] = "read" /\ req.all) => out[s] = <<>>
  /\ pc[s] = "relay" \/ (pc[s] = "send" /\ req.all) => Len(out[s]) = 1
  /\ pc[s] = "read" /\ ~req.all => Len(out[s]) <= NumLogLines
  /\ pc[s] \in {"none", "list", "open"} => todo[s] = <<>> /\ pos[s] = 0
  /\ pc[s] \in {"none", "list", "open"} \/ (pc[s] = "read" /\ ~req.all) => Sent(s) = {}
  /\ pc[s] \in {"tail", "follow", "relay"} => req.follow
  /\ Live /\ pc[s] = "done" => ~req.follow
  /\ Live /\ (pc[s] \in {"flush", "done"} \/ (pc[s] = "send" /\ ~req.all)) => todo[s] = <<>>
  /\ Climbs(path[s])

(* What is buffered is still to be flushed by whoever holds the mutex, and *)
(* nothing is when the channels are closed.                                *)
Control ==
  /\ handler = "none" => waiter = "none" /\ \A s \in Service : pc[s] = "none"
  /\ \A s \in Service : buffer[s] # <<>> => s \in keys /\ (mu # "free" => s \in flush)
  /\ waiter \in {"closeLogs", "closeErrors", "done"} => \A s \in Service : pc[s] = "done" /\ buffer[s] = <<>>

(* The inodes that a reader of s has opened, and the lines it has not read. *)
(* When the first was emptied, all that it holds now has come since.       *)
Opened(own, s, inodes) ==
  \A k \in DOMAIN inodes :
    own[inodes[k]][1] = s /\ \A m \in DOMAIN inodes : k < m => own[inodes[k]][2] < own[inodes[m]][2]

Unread(q, inodes, p) ==
  {l \in Line : \E k \in DOMAIN inodes : \E j \in DOMAIN q[inodes[k]] :
                   q[inodes[k]][j] = l /\ (k = 1 => j > p \/ p > Len(q[inodes[k]]))}

Known(s, l, stamp) == l \in Line /\ l.n <= written[s] /\ l.week = stamp[s][l.n]

Ordered(s, own, stamp) ==
  /\ InOrder(s, delivered[s], chan, buffer[s]) /\ IsFiniteSet(Sent(s))
  /\ Opened(own, s, todo[s])
  /\ Increasing(out[s]) /\ Before(Sent(s), Range(out[s]))
  /\ Before(Sent(s) \cup Range(out[s]), Unread(inode, todo[s], pos[s]))
  /\ \A l \in Sent(s) \cup Range(out[s]) : Known(s, l, stamp)

ReaderInv(s, own, stamp) == Placed(s) /\ Ordered(s, own, stamp)

LogsInv(own, stamp) ==
  /\ VolumeTyped /\ FileInv(own, stamp) /\ RequestTyped /\ Control
  /\ \A s \in Service : ReaderInv(s, own, stamp)

LEMMA ReaderIs ==
  ASSUME RequestTyped, NEW s \in Service
  PROVE  /\ pc[s] \in Place /\ path[s] \in Seq(Week) /\ todo[s] \in Seq(1..Len(inode))
         /\ pos[s] \in Nat /\ out[s] \in Seq(Line) /\ buffer[s] \in Seq(Line) /\ delivered[s] \in Seq(Line)
         /\ asked[s] \in Nat /\ req.all \in BOOLEAN /\ req.follow \in BOOLEAN
         /\ Len(todo[s]) \in Nat /\ DOMAIN todo[s] = 1..Len(todo[s])
         /\ \A k \in DOMAIN todo[s] : todo[s][k] \in 1..Len(inode)
         /\ chan \in Seq(Batched)
<1>1. todo[s] \in Seq(1..Len(inode))
  BY DEF RequestTyped, ReadersTyped
<1>2. req.all \in BOOLEAN /\ req.follow \in BOOLEAN
  BY DEF RequestTyped, AskTyped
<1>3. /\ pc[s] \in Place /\ path[s] \in Seq(Week)
      /\ pos[s] \in Nat /\ out[s] \in Seq(Line) /\ buffer[s] \in Seq(Line) /\ delivered[s] \in Seq(Line)
      /\ asked[s] \in Nat /\ chan \in Seq(Batched)
  BY DEF RequestTyped, AskTyped, ReadersTyped, SenderTyped
<1>4. Len(todo[s]) \in Nat /\ DOMAIN todo[s] = 1..Len(todo[s]) /\ \A k \in DOMAIN todo[s] : todo[s][k] \in 1..Len(inode)
  BY <1>1
<1> QED
  BY <1>1, <1>2, <1>3, <1>4

LEMMA SentIs ==
  ASSUME RequestTyped, NEW s \in Service
  PROVE  Sent(s) \subseteq Line
<1>1. Range(delivered[s]) \subseteq Line /\ Range(buffer[s]) \subseteq Line
  BY ReaderIs, RangeOf
<1> QED
  BY <1>1 DEF Sent, LinesOf

(* A set of numbers has a least one.                                       *)
LEMMA LeastNumber ==
  ASSUME NEW T \in SUBSET Nat, T # {}
  PROVE  \E m \in T : \A k \in T : m <= k
<1> DEFINE R == OpToRel(<, Nat)
<1>1. IsWellFoundedOn(R, Nat)
  BY NatLessThanWellFounded
<1>2. \A x, y \in Nat : y < x => <<y, x>> \in R
  BY DEF OpToRel
<1> HIDE DEF R
<1>3. PICK x \in T : \A y \in T : ~(<<y, x>> \in R)
  BY <1>1, WFMin
<1>4. ASSUME NEW y \in T PROVE x <= y
  <2>1. x \in Nat /\ y \in Nat /\ ~(y < x)
    BY <1>2, <1>3
  <2> QED
    BY <2>1
<1> QED
  BY <1>4

(* The files found are those of a run of weeks.                            *)
LEMMA PathsFound ==
  ASSUME LogsAssumption, VolumeTyped, NEW s \in Service
  PROVE  /\ LogFilePaths(s) \in Seq(Week) /\ Climbs(LogFilePaths(s)) /\ Range(LogFilePaths(s)) = Found(s)
         /\ Found(s) # {} => LogFilePaths(s) # <<>>
<1>0. /\ Retention \in Nat /\ week \in Week /\ week \in Nat /\ LastWeek \in Nat
      /\ Week \subseteq Nat /\ Found(s) \subseteq Week
  BY VolumeIs DEF LogsAssumption, Week, Found
<1> PICK F : F = Found(s)
  OBVIOUS
<1>1. CASE F = {}
  <2>1. Cardinality(F) = 0
    BY <1>1, FS_EmptySet
  <2>2. LogFilePaths(s) = [i \in 1..0 |-> Min(F) + i - 1]
    BY <2>1 DEF LogFilePaths
  <2>3. LogFilePaths(s) = <<>>
    BY <2>2
  <2> QED
    BY <1>1, <2>3 DEF Climbs, Range
<1>2. CASE F # {}
  <2>1. PICK m \in F : \A x \in F : m <= x
    <3>1. F \in SUBSET Nat
      BY <1>0
    <3> QED
      BY <1>2, <3>1, LeastNumber
  <2>2. m \in Nat /\ m \in Week /\ m + Retention > week /\ m <= week
    BY <1>0 DEF Found
  <2>3. PICK v \in m..week : /\ \A x \in m..v : Exists(s, x)
                             /\ \A x \in (v+1)..week : ~Exists(s, x)
    BY DEF Found
  <2>4. v \in Nat /\ m <= v /\ v <= week
    BY <1>0, <2>2
  <2>5. F = m..v
    <3>1. ASSUME NEW x \in m..v PROVE x \in F
      <4>1. x \in Nat /\ m <= x /\ x <= v
        BY <2>2, <2>4
      <4>2. x \in Week /\ x + Retention > week /\ x <= week
        BY <1>0, <2>2, <2>4, <4>1 DEF Week
      <4>3. v \in x..week /\ \A y \in x..v : Exists(s, y)
        BY <1>0, <2>2, <2>3, <2>4, <4>1
      <4> QED
        BY <2>3, <4>2, <4>3 DEF Found
    <3>2. ASSUME NEW x \in F PROVE x \in m..v
      <4>1. x \in Nat /\ m <= x /\ x <= week
        BY <1>0, <2>1 DEF Found
      <4>2. PICK u \in x..week : \A y \in x..u : Exists(s, y)
        BY DEF Found
      <4>3. Exists(s, x)
        BY <1>0, <4>1, <4>2
      <4>4. ~(x \in (v+1)..week)
        BY <2>3, <4>3
      <4> QED
        BY <1>0, <2>4, <4>1, <4>4
    <3> QED
      BY <3>1, <3>2
  <2>6. Cardinality(F) = v - m + 1
    <3>1. m \in Int /\ v \in Int /\ ~(m > v)
      BY <2>2, <2>4
    <3>2. Cardinality(m..v) = IF m > v THEN 0 ELSE v - m + 1
      BY <3>1, FS_Interval
    <3> QED
      BY <2>5, <3>1, <3>2
  <2>7. Min(F) = m
    <3>1. \A x \in F : x \in Nat
      BY <1>0
    <3>2. \A x \in F : (\A y \in F : x <= y) => x = m
      BY <2>1, <3>1
    <3> QED
      BY <2>1, <3>2 DEF Min
  <2> PICK k : k = v - m + 1
    OBVIOUS
  <2> PICK p : p = LogFilePaths(s)
    OBVIOUS
  <2>8. k \in Nat /\ k > 0
    BY <2>2, <2>4
  <2>9. p = [i \in 1..k |-> m + i - 1]
    BY <2>6, <2>7 DEF LogFilePaths
  <2>10. \A i \in 1..k : m + i - 1 \in m..v /\ p[i] = m + i - 1
    BY <2>2, <2>4, <2>8, <2>9
  <2>11. p \in [1..k -> Week] /\ DOMAIN p = 1..k
    BY <1>0, <2>5, <2>9, <2>10
  <2>12. p \in Seq(Week) /\ p # <<>>
    BY <2>8, <2>11
  <2>13. Climbs(p)
    BY <2>2, <2>8, <2>10, <2>11 DEF Climbs
  <2>14. Range(p) = F
    <3>1. \A x \in m..v : x - m + 1 \in 1..k /\ p[x - m + 1] = x
      BY <2>2, <2>4, <2>8, <2>10
    <3> QED
      BY <2>5, <2>10, <2>11, <3>1 DEF Range
  <2> QED
    BY <2>12, <2>13, <2>14
<1> QED
  BY <1>1, <1>2
-----------------------------------------------------------------------------
(* What a step of the request has to show of a reader.                     *)
LEMMA OrderedStays ==
  ASSUME NEW own, NEW stamp, NEW s \in Service, Ordered(s, own, stamp), Sent(s)' \subseteq Sent(s),
         InOrder(s, delivered'[s], chan', buffer'[s]), Opened(own, s, todo'[s]), written' = written,
         out'[s] = out[s] \/ out'[s] = <<>>,
         Unread(inode', todo'[s], pos'[s]) \subseteq Unread(inode, todo[s], pos[s])
  PROVE  Ordered(s, own, stamp)'
<1>1. Range(out'[s]) \subseteq Range(out[s]) /\ Increasing(out'[s])
  BY NoLines DEF Ordered
<1>2. Before(Sent(s)', Range(out'[s]))
  BY <1>1 DEF Ordered, Before
<1>3. Before(Sent(s)' \cup Range(out'[s]), Unread(inode', todo'[s], pos'[s]))
  BY <1>1 DEF Ordered, Before
<1>4. \A l \in Sent(s)' \cup Range(out'[s]) : Known(s, l, stamp)'
  BY <1>1 DEF Ordered, Known
<1>5. IsFiniteSet(Sent(s)')
  BY FS_Subset DEF Ordered
<1> QED
  BY <1>1, <1>2, <1>3, <1>4, <1>5 DEF Ordered

LEMMA ReaderStays ==
  ASSUME NEW own, NEW stamp, NEW s \in Service, ReaderInv(s, own, stamp), Sent(s)' \subseteq Sent(s),
         InOrder(s, delivered'[s], chan', buffer'[s]), Live' => Live,
         UNCHANGED <<inode, written, req, pc[s], path[s], todo[s], pos[s], out[s]>>
  PROVE  ReaderInv(s, own, stamp)'
<1>1. Placed(s) /\ Ordered(s, own, stamp)
  BY DEF ReaderInv
<1>2. Placed(s)'
  BY <1>1 DEF Placed
<1>3. Ordered(s, own, stamp)'
  <2>1. Opened(own, s, todo'[s])
    BY <1>1 DEF Ordered
  <2> QED
    BY <1>1, <2>1, OrderedStays
<1> QED
  BY <1>2, <1>3 DEF ReaderInv

(* The sender.  What is sent stays sent, in its order; some of it is lost  *)
(* when the client is gone.                                                *)
LessSent ==
  \A s \in Service : InOrder(s, delivered'[s], chan', buffer'[s]) /\ Sent(s)' \subseteq Sent(s)

SameSent ==
  \A s \in Service : InOrder(s, delivered'[s], chan', buffer'[s]) /\ Sent(s)' = Sent(s)

LEMMA SenderRests ==
  ASSUME NEW own, NEW stamp, LogsInv(own, stamp), UNCHANGED <<buffer, chan, delivered>>
  PROVE  SameSent
BY DEF LogsInv, ReaderInv, Ordered, SameSent, Sent

LEMMA BatchIs ==
  ASSUME NEW s \in Service, NEW b \in Seq(Line), NEW c \in Seq(Batched)
  PROVE  /\ [s |-> s, lines |-> b] \in Batched /\ [s |-> s, lines |-> b].s = s /\ [s |-> s, lines |-> b].lines = b
         /\ c \o Batch(s, b) = Append(c, [s |-> s, lines |-> b])
<1> PICK x : x = [s |-> s, lines |-> b]
  OBVIOUS
<1>1. x \in Batched /\ x.s = s /\ x.lines = b
  BY DEF Batched
<1>2. Batch(s, b) = <<x>>
  BY DEF Batch
<1>3. c \o <<x>> = Append(c, x)
  BY <1>1
<1> QED
  BY <1>1, <1>2, <1>3

LEMMA FlushKeeps ==
  ASSUME LogsAssumption, NEW own, NEW stamp, LogsInv(own, stamp),
         NEW who \in Service \cup {"waiter"}, Flush(who), delivered' = delivered
  PROVE  /\ SenderTyped' /\ SameSent
         /\ \A t \in Service : buffer'[t] # <<>> => t \in keys' /\ buffer'[t] = buffer[t] /\ (mu' # "free" => t \in flush')
         /\ mu' # who => \A t \in Service : buffer'[t] = <<>>
<1>0. /\ RequestTyped /\ SenderTyped /\ who # "free"
      /\ \A t \in Service : InOrder(t, delivered[t], chan, buffer[t])
      /\ \A t \in Service : buffer[t] # <<>> => t \in keys /\ (mu # "free" => t \in flush)
  BY DEF LogsInv, RequestTyped, ReaderInv, Ordered, Control, LogsAssumption
<1>1. CASE FlushNothing
  <2>1. mu = "free" /\ keys = {} /\ UNCHANGED sendVars
    BY <1>1 DEF FlushNothing
  <2>2. SameSent
    BY <2>1, SenderRests DEF sendVars
  <2> QED
    BY <1>0, <2>1, <2>2 DEF SenderTyped, sendVars
<1>2. CASE FlushOne(who)
  <2>1. PICK s \in ToFlush :
          /\ mu \in {"free", who} /\ Len(chan) < ChanSize
          /\ chan' = chan \o Batch(s, buffer[s])
          /\ buffer' = [buffer EXCEPT ![s] = <<>>]
          /\ flush' = ToFlush \ {s}
          /\ mu' = IF flush' = {} THEN "free" ELSE who
          /\ UNCHANGED keys
    BY <1>2 DEF FlushOne
  <2>2. s \in Service /\ ToFlush \subseteq keys
    BY <1>0 DEF ToFlush, SenderTyped
  <2> PICK x : x = [s |-> s, lines |-> buffer[s]]
    OBVIOUS
  <2>3. /\ buffer[s] \in Seq(Line) /\ chan \in Seq(Batched) /\ x \in Batched /\ x.s = s /\ x.lines = buffer[s]
        /\ chan' = Append(chan, x)
    BY <1>0, <2>1, <2>2, ReaderIs, BatchIs
  <2>4. \A t \in Service : buffer'[t] = IF t = s THEN <<>> ELSE buffer[t]
    BY <1>0, <2>1 DEF SenderTyped
  <2>5. SameSent
    <3> SUFFICES ASSUME NEW t \in Service
                 PROVE  InOrder(t, delivered'[t], chan', buffer'[t]) /\ Sent(t)' = Sent(t)
      BY DEF SameSent
    <3>1. delivered[t] \in Seq(Line) /\ buffer[t] \in Seq(Line) /\ delivered'[t] = delivered[t]
      BY <1>0, ReaderIs
    <3>2. CASE t = s
      <4>1. InOrder(t, delivered[t], Append(chan, x), <<>>)
            /\ LinesOf(t, delivered[t], Append(chan, x), <<>>) = LinesOf(t, delivered[t], chan, buffer[t])
        <5>1. /\ x \in Batched /\ x.s = t /\ x.lines = buffer[t] /\ chan \in Seq(Batched)
              /\ InOrder(t, delivered[t], chan, buffer[t])
          BY <1>0, <2>3, <3>2
        <5> QED
          BY ONLY <3>1, <5>1, HandedOn
      <4> QED
        BY <2>3, <2>4, <3>1, <3>2, <4>1 DEF Sent
    <3>3. CASE t # s
      <4>1. InOrder(t, delivered[t], Append(chan, x), buffer[t])
            /\ LinesOf(t, delivered[t], Append(chan, x), buffer[t]) = LinesOf(t, delivered[t], chan, buffer[t])
        BY <1>0, <2>3, <3>1, <3>3, HandedOnByOther
      <4> QED
        BY <2>3, <2>4, <3>1, <3>3, <4>1 DEF Sent
    <3> QED
      BY <3>2, <3>3
  <2>6. SenderTyped'
    <3>1. chan' \in Seq(Batched) /\ Len(chan') = Len(chan) + 1
      BY <2>3, BatchLast
    <3>2. Len(chan') <= ChanSize
      BY <2>1, <2>3, <3>1, BatchesAt DEF LogsAssumption
    <3>3. buffer' \in [Service -> Seq(Line)]
      BY <1>0, <2>1, NoLines DEF SenderTyped
    <3>4. flush' \subseteq keys' /\ mu' \in Service \cup {"free", "waiter"}
      BY <2>1, <2>2
    <3> QED
      BY <1>0, <2>1, <3>1, <3>2, <3>3, <3>4 DEF SenderTyped
  <2>7. \A t \in Service : buffer'[t] # <<>> => t \in ToFlush /\ t # s /\ t \in keys' /\ buffer'[t] = buffer[t]
    BY <1>0, <2>1, <2>4 DEF ToFlush
  <2>8. \A t \in Service : buffer'[t] # <<>> => t \in flush'
    BY <2>1, <2>7
  <2>9. mu' # who => flush' = {}
    BY <2>1
  <2> QED
    BY <2>5, <2>6, <2>7, <2>8, <2>9
<1> QED
  BY <1>1, <1>2 DEF Flush

LEMMA SendKeeps ==
  ASSUME LogsAssumption, NEW own, NEW stamp, LogsInv(own, stamp),
         NEW s \in Service, NEW l \in Line, Before(Sent(s), {l}), Send(s, l), delivered' = delivered
  PROVE  /\ SenderTyped' /\ Sent(s)' = Sent(s) \cup {l} /\ InOrder(s, delivered'[s], chan', buffer'[s])
         /\ \A t \in Service : t # s => Sent(t)' = Sent(t) /\ InOrder(t, delivered'[t], chan', buffer'[t])
         /\ mu' = "free" /\ \A t \in Service : buffer'[t] # <<>> => t \in keys'
         /\ \A t \in Service : t # s => buffer'[t] = buffer[t]
<1>0. /\ RequestTyped /\ SenderTyped
      /\ \A t \in Service : InOrder(t, delivered[t], chan, buffer[t])
      /\ \A t \in Service : buffer[t] # <<>> => t \in keys
  BY DEF LogsInv, RequestTyped, ReaderInv, Ordered, Control
<1>1. /\ buffer[s] \in Seq(Line) /\ delivered[s] \in Seq(Line) /\ chan \in Seq(Batched)
      /\ delivered'[s] = delivered[s]
  BY <1>0, ReaderIs
<1> PICK a : a = Append(buffer[s], l)
  OBVIOUS
<1>2. a \in Seq(Line)
  BY <1>1, Appending
<1>3. InOrder(s, delivered[s], chan, a) /\ LinesOf(s, delivered[s], chan, a) = Sent(s) \cup {l}
  <2>1. InOrder(s, delivered[s], chan, buffer[s]) /\ Before(LinesOf(s, delivered[s], chan, buffer[s]), {l})
    BY <1>0 DEF Sent
  <2>2. /\ InOrder(s, delivered[s], chan, Append(buffer[s], l))
        /\ LinesOf(s, delivered[s], chan, Append(buffer[s], l)) = LinesOf(s, delivered[s], chan, buffer[s]) \cup {l}
    <3>1. l \in Line
      OBVIOUS
    <3> QED
      BY ONLY <1>1, <2>1, <3>1, Buffered
  <2> QED
    BY <2>2 DEF Sent
<1>4. /\ mu = "free" /\ mu' = mu /\ flush' = flush /\ keys' = keys \cup {s}
      /\ \/ /\ Len(chan) < ChanSize /\ chan' = chan \o Batch(s, a)
            /\ buffer' = [buffer EXCEPT ![s] = <<>>]
         \/ buffer' = [buffer EXCEPT ![s] = a] /\ chan' = chan
  BY DEF Send
<1>5. flush' \subseteq keys' /\ keys' \subseteq Service
  BY <1>0, <1>4 DEF SenderTyped
<1>6. CASE Len(chan) < ChanSize /\ chan' = chan \o Batch(s, a) /\ buffer' = [buffer EXCEPT ![s] = <<>>]
  <2> PICK x : x = [s |-> s, lines |-> a]
    OBVIOUS
  <2>1. x \in Batched /\ x.s = s /\ x.lines = a /\ chan' = Append(chan, x)
    BY <1>1, <1>2, <1>6, BatchIs
  <2>2. \A t \in Service : buffer'[t] = IF t = s THEN <<>> ELSE buffer[t]
    BY <1>0, <1>6 DEF SenderTyped
  <2>3. /\ InOrder(s, delivered[s], Append(chan, x), <<>>)
        /\ LinesOf(s, delivered[s], Append(chan, x), <<>>) = Sent(s) \cup {l}
    <3>1. /\ InOrder(s, delivered[s], Append(chan, x), <<>>)
          /\ LinesOf(s, delivered[s], Append(chan, x), <<>>) = LinesOf(s, delivered[s], chan, a)
      BY ONLY <1>1, <1>2, <1>3, <2>1, HandedOn
    <3> QED
      BY <1>3, <3>1
  <2>4. InOrder(s, delivered'[s], chan', buffer'[s]) /\ Sent(s)' = Sent(s) \cup {l}
    BY <1>1, <2>1, <2>2, <2>3 DEF Sent
  <2>5. ASSUME NEW t \in Service, t # s
        PROVE  Sent(t)' = Sent(t) /\ InOrder(t, delivered'[t], chan', buffer'[t])
    <3>1. delivered[t] \in Seq(Line) /\ buffer[t] \in Seq(Line) /\ delivered'[t] = delivered[t]
      BY <1>0, ReaderIs
    <3>2. InOrder(t, delivered[t], Append(chan, x), buffer[t])
          /\ LinesOf(t, delivered[t], Append(chan, x), buffer[t]) = LinesOf(t, delivered[t], chan, buffer[t])
      BY <1>0, <1>1, <2>1, <2>5, <3>1, HandedOnByOther
    <3> QED
      BY <2>1, <2>2, <2>5, <3>1, <3>2 DEF Sent
  <2>6. chan' \in Seq(Batched) /\ Len(chan') <= ChanSize
    <3>1. chan' \in Seq(Batched) /\ Len(chan') = Len(chan) + 1 /\ Len(chan) \in Nat
      BY <1>1, <2>1, BatchLast, BatchesAt
    <3> QED
      BY <1>6, <3>1 DEF LogsAssumption
  <2>7. buffer' \in [Service -> Seq(Line)]
    BY <1>0, <1>6, NoLines DEF SenderTyped
  <2>8. SenderTyped'
    BY <1>0, <1>4, <1>5, <2>6, <2>7 DEF SenderTyped
  <2>9. /\ mu' = "free" /\ \A t \in Service : buffer'[t] # <<>> => t \in keys'
        /\ \A t \in Service : t # s => buffer'[t] = buffer[t]
    BY <1>0, <1>4, <2>2
  <2> QED
    BY <2>4, <2>5, <2>8, <2>9
<1>7. CASE buffer' = [buffer EXCEPT ![s] = a] /\ chan' = chan
  <2>1. \A t \in Service : buffer'[t] = IF t = s THEN a ELSE buffer[t]
    BY <1>0, <1>7 DEF SenderTyped
  <2>2. InOrder(s, delivered'[s], chan', buffer'[s]) /\ Sent(s)' = Sent(s) \cup {l}
    BY <1>1, <1>3, <1>7, <2>1 DEF Sent
  <2>3. \A t \in Service : t # s => Sent(t)' = Sent(t) /\ InOrder(t, delivered'[t], chan', buffer'[t])
    BY <1>0, <1>7, <2>1 DEF Sent
  <2>4. buffer' \in [Service -> Seq(Line)]
    BY <1>0, <1>2, <1>7 DEF SenderTyped
  <2>5. SenderTyped'
    BY <1>0, <1>4, <1>5, <1>7, <2>4 DEF SenderTyped
  <2>6. /\ mu' = "free" /\ \A t \in Service : buffer'[t] # <<>> => t \in keys'
        /\ \A t \in Service : t # s => buffer'[t] = buffer[t]
    BY <1>0, <1>4, <2>1
  <2> QED
    BY <2>2, <2>3, <2>5, <2>6
<1> QED
  BY <1>4, <1>6, <1>7

LEMMA ReceiptKeeps ==
  ASSUME LogsAssumption, NEW own, NEW stamp, LogsInv(own, stamp), chan # <<>>, chan' = Tail(chan),
         delivered' = [delivered EXCEPT ![Head(chan).s] = @ \o Head(chan).lines],
         UNCHANGED <<buffer, keys, mu, flush>>
  PROVE  SenderTyped' /\ SameSent
<1>0. /\ RequestTyped /\ SenderTyped /\ chan \in Seq(Batched)
      /\ \A t \in Service : InOrder(t, delivered[t], chan, buffer[t])
  BY DEF LogsInv, RequestTyped, ReaderInv, Ordered, SenderTyped
<1> PICK h : h = Head(chan)
  OBVIOUS
<1>1. /\ h \in Batched /\ h.s \in Service /\ h.lines \in Seq(Line) /\ chan' \in Seq(Batched)
      /\ Len(chan') = Len(chan) - 1 /\ Len(chan) \in Nat
  BY <1>0, BatchFirst, BatchesAt
<1>2. delivered[h.s] \o h.lines \in Seq(Line)
  BY <1>0, <1>1, ReaderIs, Joined
<1>3. /\ delivered' \in [Service -> Seq(Line)]
      /\ \A t \in Service : delivered'[t] = IF t = h.s THEN delivered[t] \o h.lines ELSE delivered[t]
  BY <1>0, <1>1, <1>2 DEF SenderTyped
<1>4. SameSent
  <2> SUFFICES ASSUME NEW t \in Service
               PROVE  InOrder(t, delivered'[t], chan', buffer'[t]) /\ Sent(t)' = Sent(t)
    BY DEF SameSent
  <2>1. delivered[t] \in Seq(Line) /\ buffer[t] \in Seq(Line) /\ buffer'[t] = buffer[t]
    BY <1>0, ReaderIs
  <2>2. IF h.s = t
        THEN /\ InOrder(t, delivered[t] \o h.lines, chan', buffer[t])
             /\ LinesOf(t, delivered[t] \o h.lines, chan', buffer[t]) = LinesOf(t, delivered[t], chan, buffer[t])
        ELSE InOrder(t, delivered[t], chan', buffer[t])
             /\ LinesOf(t, delivered[t], chan', buffer[t]) = LinesOf(t, delivered[t], chan, buffer[t])
    <3>1. /\ delivered[t] \in Seq(Line) /\ buffer[t] \in Seq(Line) /\ chan \in Seq(Batched) /\ chan # <<>>
          /\ InOrder(t, delivered[t], chan, buffer[t])
      BY <1>0, <2>1
    <3>2. IF Head(chan).s = t
          THEN /\ InOrder(t, delivered[t] \o Head(chan).lines, Tail(chan), buffer[t])
               /\ LinesOf(t, delivered[t] \o Head(chan).lines, Tail(chan), buffer[t])
                  = LinesOf(t, delivered[t], chan, buffer[t])
          ELSE /\ InOrder(t, delivered[t], Tail(chan), buffer[t])
               /\ LinesOf(t, delivered[t], Tail(chan), buffer[t]) = LinesOf(t, delivered[t], chan, buffer[t])
      BY ONLY <3>1, Received
    <3> QED
      BY <3>2
  <2> QED
    BY <1>3, <2>1, <2>2 DEF Sent
<1>5. Len(chan') <= ChanSize
  BY <1>0, <1>1 DEF SenderTyped, LogsAssumption
<1>6. SenderTyped'
  BY <1>0, <1>1, <1>3, <1>5 DEF SenderTyped
<1> QED
  BY <1>4, <1>6

LEMMA LossKeeps ==
  ASSUME LogsAssumption, NEW own, NEW stamp, LogsInv(own, stamp), chan # <<>>, chan' = Tail(chan),
         UNCHANGED <<buffer, keys, mu, flush, delivered>>
  PROVE  SenderTyped' /\ LessSent
<1>0. /\ SenderTyped /\ chan \in Seq(Batched)
      /\ \A t \in Service : InOrder(t, delivered[t], chan, buffer[t])
  BY DEF LogsInv, RequestTyped, ReaderInv, Ordered, SenderTyped
<1> PICK c : c = Tail(chan)
  OBVIOUS
<1>1. /\ c \in Seq(Batched) /\ Len(c) = Len(chan) - 1 /\ Len(chan) \in Nat
      /\ \A i \in DOMAIN c : c[i] = chan[i + 1] /\ i + 1 \in DOMAIN chan
      /\ \A i, j \in DOMAIN c : i < j => i + 1 < j + 1
  BY <1>0, BatchFirst, BatchesAt
<1>2. LessSent
  <2> SUFFICES ASSUME NEW t \in Service
               PROVE  InOrder(t, delivered[t], c, buffer[t])
                      /\ LinesOf(t, delivered[t], c, buffer[t]) \subseteq LinesOf(t, delivered[t], chan, buffer[t])
    BY DEF LessSent, Sent
  <2>1. InOrder(t, delivered[t], c, buffer[t])
    BY <1>0, <1>1 DEF InOrder
  <2>2. LinesOf(t, delivered[t], c, buffer[t]) \subseteq LinesOf(t, delivered[t], chan, buffer[t])
    BY <1>1 DEF LinesOf
  <2> QED
    BY <2>1, <2>2
<1>3. SenderTyped'
  BY <1>0, <1>1 DEF SenderTyped, LogsAssumption
<1> QED
  BY <1>2, <1>3

(* A step of the reader of s, or of the handler with its error.            *)
OthersRest(s) ==
  \A t \in Service : t # s => UNCHANGED <<pc[t], path[t], todo[t], pos[t], out[t]>>

BuffersHeld == \A t \in Service : buffer'[t] # <<>> => t \in keys' /\ (mu' # "free" => t \in flush')

LEMMA ReaderStep ==
  ASSUME NEW own, NEW stamp, LogsInv(own, stamp),
         NEW s \in Service, pc[s] \notin {"none", "done"},
         UNCHANGED <<volumeVars, keeperVars, askVars, waiter>>,
         handler' = handler \/ handler' \in {"end", "error"},
         SenderTyped', ReadersTyped', BuffersHeld, OthersRest(s),
         \A t \in Service : t # s => InOrder(t, delivered'[t], chan', buffer'[t]) /\ Sent(t)' \subseteq Sent(t),
         ReaderInv(s, own, stamp)'
  PROVE  LogsInv(own, stamp)'
<1>1. VolumeTyped' /\ FileInv(own, stamp)'
  BY DEF LogsInv, VolumeTyped, Disk, Keeper, FileInv, volumeVars, keeperVars
<1>2. AskTyped'
  BY DEF LogsInv, RequestTyped, AskTyped, askVars, volumeVars
<1>3. handler # "none" /\ waiter \notin {"closeLogs", "closeErrors", "done"}
  BY DEF LogsInv, Control
<1>4. Control'
  BY <1>3 DEF Control, BuffersHeld
<1>5. Live' => Live
  BY DEF Live, askVars
<1>6. ASSUME NEW t \in Service, t # s PROVE ReaderInv(t, own, stamp)'
  <2>1. UNCHANGED <<inode, written, req, pc[t], path[t], todo[t], pos[t], out[t]>>
    BY <1>6 DEF OthersRest, volumeVars, askVars
  <2>2. ReaderInv(t, own, stamp)
    BY DEF LogsInv
  <2> QED
    BY <1>5, <1>6, <2>1, <2>2, ReaderStays
<1>7. \A t \in Service : ReaderInv(t, own, stamp)'
  BY <1>6
<1>8. RequestTyped'
  BY <1>2 DEF RequestTyped
<1> QED
  BY <1>1, <1>4, <1>7, <1>8 DEF LogsInv

(* ... that leaves the sender alone.                                       *)
LEMMA QuietSender ==
  ASSUME NEW own, NEW stamp, LogsInv(own, stamp), UNCHANGED <<sendVars, delivered>>
  PROVE  SenderTyped' /\ BuffersHeld /\ SameSent
<1>1. UNCHANGED <<buffer, keys, mu, flush, chan, delivered>>
  BY DEF sendVars
<1>2. SenderTyped'
  BY <1>1 DEF LogsInv, RequestTyped, SenderTyped
<1>3. BuffersHeld
  BY <1>1 DEF LogsInv, Control, BuffersHeld
<1> QED
  BY <1>1, <1>2, <1>3, SenderRests

LEMMA QuietStep ==
  ASSUME NEW own, NEW stamp, LogsInv(own, stamp), NEW s \in Service, pc[s] \notin {"none", "done"},
         UNCHANGED <<volumeVars, keeperVars, askVars, waiter, sendVars, delivered>>,
         handler' = handler \/ handler' \in {"end", "error"},
         ReadersTyped', OthersRest(s), Placed(s)',
         Opened(own, s, todo'[s]), out'[s] = out[s] \/ out'[s] = <<>>,
         Unread(inode, todo'[s], pos'[s]) \subseteq Unread(inode, todo[s], pos[s])
  PROVE  LogsInv(own, stamp)'
<1>1. SenderTyped' /\ BuffersHeld /\ SameSent
  BY QuietSender
<1>2. InOrder(s, delivered'[s], chan', buffer'[s]) /\ Sent(s)' \subseteq Sent(s)
  BY <1>1 DEF SameSent
<1>3. Ordered(s, own, stamp) /\ inode' = inode /\ written' = written
  BY DEF LogsInv, ReaderInv, volumeVars
<1>4. Ordered(s, own, stamp)'
  <2>1. Unread(inode', todo'[s], pos'[s]) \subseteq Unread(inode, todo[s], pos[s])
    BY <1>3
  <2> QED
    BY <1>2, <1>3, <2>1, OrderedStays
<1>5. ReaderInv(s, own, stamp)'
  BY <1>4 DEF ReaderInv
<1>6. \A t \in Service : InOrder(t, delivered'[t], chan', buffer'[t]) /\ Sent(t)' \subseteq Sent(t)
  BY <1>1 DEF SameSent
<1> QED
  BY <1>1, <1>5, <1>6, ReaderStep

(* Only the context of a client that is there is not done.                 *)
LEMMA Canceled ==
  ASSUME NEW own, NEW stamp, LogsInv(own, stamp), NEW s \in Service, pc[s] # "done", ctxDone,
         UNCHANGED <<askVars, handler>>
  PROVE  ~Live'
<1>1. waiter # "done"
  BY DEF LogsInv, Control
<1> QED
  BY <1>1 DEF ctxDone, Over, Live, askVars

LEMMA ListFilesKeeps ==
  ASSUME LogsAssumption, NEW own, NEW stamp, LogsInv(own, stamp), NEW s \in Service, ListFiles(s)
  PROVE  LogsInv(own, stamp)'
<1>1. RequestTyped /\ ReadersTyped /\ VolumeTyped /\ Placed(s) /\ Ordered(s, own, stamp)
  BY DEF LogsInv, RequestTyped, ReaderInv
<1> PICK p : p = LogFilePaths(s)
  OBVIOUS
<1>2. /\ pc[s] = "list" /\ path' = [path EXCEPT ![s] = p]
      /\ pc' = [pc EXCEPT ![s] = IF Found(s) = {} THEN "fail" ELSE "open"]
      /\ UNCHANGED <<volumeVars, keeperVars, askVars, handler, delivered, sendVars, waiter, todo, pos, out>>
  BY DEF ListFiles, OutsideReader, StreamStays, Goto
<1>3. p \in Seq(Week) /\ Climbs(p) /\ (Found(s) # {} => p # <<>>)
  BY <1>1, PathsFound
<1>4. ReadersTyped' /\ OthersRest(s) /\ path'[s] = p /\ pc'[s] = IF Found(s) = {} THEN "fail" ELSE "open"
  BY <1>1, <1>2, <1>3 DEF ReadersTyped, OthersRest, Place, volumeVars
<1>5. Sent(s)' = Sent(s)
  BY <1>2 DEF Sent, sendVars
<1>6. Placed(s)'
  BY <1>1, <1>2, <1>3, <1>4, <1>5 DEF Placed
<1>7. Opened(own, s, todo'[s])
  BY <1>1, <1>2 DEF Ordered
<1> QED
  BY <1>2, <1>4, <1>6, <1>7, QuietStep

LEMMA OpenFilesKeeps ==
  ASSUME LogsAssumption, NEW own, NEW stamp, LogsInv(own, stamp), NEW s \in Service, OpenFiles(s)
  PROVE  LogsInv(own, stamp)'
<1>1. /\ RequestTyped /\ ReadersTyped /\ VolumeTyped /\ Placed(s) /\ Ordered(s, own, stamp)
      /\ FileInv(own, stamp)
  BY DEF LogsInv, RequestTyped, ReaderInv
<1>2. /\ pc[s] = "open" /\ UNCHANGED <<path, pos, out>>
      /\ UNCHANGED <<volumeVars, keeperVars, askVars, handler, delivered, sendVars, waiter>>
  BY DEF OpenFiles, OutsideReader, StreamStays
<1>3. Sent(s)' = Sent(s) /\ Sent(s) = {} /\ out[s] = <<>> /\ path[s] # <<>> /\ pos[s] = 0
  BY <1>1, <1>2 DEF Sent, sendVars, Placed
<1>4. CASE pc' = [pc EXCEPT ![s] = "fail"] /\ UNCHANGED todo
  <2>1. ReadersTyped' /\ OthersRest(s) /\ pc'[s] = "fail"
    BY <1>1, <1>2, <1>4 DEF ReadersTyped, OthersRest, Place, volumeVars
  <2>2. Placed(s)'
    BY <1>1, <1>2, <1>3, <1>4, <2>1 DEF Placed
  <2>3. Opened(own, s, todo'[s])
    BY <1>1, <1>4 DEF Ordered
  <2> QED
    BY <1>2, <1>4, <2>1, <2>2, <2>3, QuietStep
<1>5. CASE /\ \A w \in Range(path[s]) : Exists(s, w)
           /\ todo' = [todo EXCEPT ![s] = [i \in DOMAIN path[s] |-> file[s][path[s][i]]]]
           /\ pc' = [pc EXCEPT ![s] = "read"]
  <2> PICK p : p = path[s]
    OBVIOUS
  <2> PICK d : d = [i \in DOMAIN p |-> file[s][p[i]]]
    OBVIOUS
  <2>1. p \in Seq(Week) /\ p # <<>> /\ Climbs(p) /\ DOMAIN p = 1..Len(p) /\ Len(p) \in Nat
    BY <1>1, <1>3, ReaderIs DEF Placed
  <2>2. \A i \in DOMAIN p : /\ p[i] \in Week /\ file[s][p[i]] \in 1..Len(inode)
                            /\ own[file[s][p[i]]] = <<s, p[i]>> /\ d[i] = file[s][p[i]]
    <3> SUFFICES ASSUME NEW i \in DOMAIN p
                 PROVE  /\ p[i] \in Week /\ file[s][p[i]] \in 1..Len(inode)
                        /\ own[file[s][p[i]]] = <<s, p[i]>> /\ d[i] = file[s][p[i]]
      OBVIOUS
    <3>1. p[i] \in Range(path[s]) /\ p[i] \in Week
      BY <2>1 DEF Range
    <3>2. file[s][p[i]] # 0
      BY <1>5, <3>1 DEF Exists
    <3> QED
      BY <1>1, <3>1, <3>2, VolumeIs, FileIs
  <2>3. d \in Seq(1..Len(inode)) /\ DOMAIN d = DOMAIN p /\ d # <<>>
    <3>1. d \in [1..Len(p) -> 1..Len(inode)]
      BY <2>1, <2>2
    <3>2. Len(p) > 0
      BY <2>1
    <3> QED
      BY <2>1, <3>1, <3>2
  <2>4. Opened(own, s, d)
    <3>1. \A k \in DOMAIN d : own[d[k]] = <<s, p[k]>>
      BY <2>2, <2>3
    <3>2. \A k \in DOMAIN d : own[d[k]][1] = s /\ own[d[k]][2] = p[k]
      BY <3>1
    <3>3. \A k, m \in DOMAIN d : k < m => p[k] < p[m]
      BY <2>1, <2>3 DEF Climbs
    <3> QED
      BY <3>2, <3>3 DEF Opened
  <2>5. todo'[s] = d /\ pc'[s] = "read" /\ ReadersTyped' /\ OthersRest(s)
    BY <1>1, <1>2, <1>5, <2>3 DEF ReadersTyped, OthersRest, Place, volumeVars
  <2>6. Placed(s)'
    <3>1. Len(<<>>) = 0 /\ 0 <= NumLogLines
      BY DEF LogsAssumption
    <3> QED
      BY <1>1, <1>2, <1>3, <2>1, <2>3, <2>5, <3>1 DEF Placed
  <2>7. SenderTyped' /\ BuffersHeld /\ SameSent
    BY <1>2, QuietSender
  <2>8. Ordered(s, own, stamp)'
    <3>1. Range(out'[s]) = {} /\ Increasing(out'[s])
      BY <1>2, <1>3, NoLines
    <3>2. InOrder(s, delivered'[s], chan', buffer'[s])
      BY <2>7 DEF SameSent
    <3>3. IsFiniteSet(Sent(s)')
      BY <1>1, <1>3 DEF Ordered
    <3>4. \A l : l \notin Sent(s)' \cup Range(out'[s])
      BY <1>3, <3>1
    <3>5. Opened(own, s, todo'[s])
      BY <2>4, <2>5
    <3> QED
      BY <3>1, <3>2, <3>3, <3>4, <3>5 DEF Ordered, Before
  <2>9. ReaderInv(s, own, stamp)'
    BY <2>6, <2>8 DEF ReaderInv
  <2>10. \A t \in Service : InOrder(t, delivered'[t], chan', buffer'[t]) /\ Sent(t)' \subseteq Sent(t)
    BY <2>7 DEF SameSent
  <2> QED
    BY <1>2, <2>5, <2>7, <2>9, <2>10, ReaderStep
<1> QED
  BY <1>4, <1>5 DEF OpenFiles, Goto

(* The next line comes after what was read and before what is left.        *)
LEMMA NextLine ==
  ASSUME NEW own, NEW stamp, LogsInv(own, stamp), NEW s \in Service, todo[s] # <<>>,
         NEW l, l = inode[Head(todo[s])][pos[s] + 1], pos[s] < Len(inode[Head(todo[s])])
  PROVE  /\ l \in Line /\ Known(s, l, stamp) /\ l \in Unread(inode, todo[s], pos[s])
         /\ Unread(inode, todo[s], pos[s] + 1) \subseteq Unread(inode, todo[s], pos[s])
         /\ Before({l}, Unread(inode, todo[s], pos[s] + 1))
<1>1. /\ RequestTyped /\ VolumeTyped /\ FileInv(own, stamp) /\ Opened(own, s, todo[s])
  BY DEF LogsInv, ReaderInv, Ordered
<1> PICK d, p : d = todo[s] /\ p = pos[s]
  OBVIOUS
<1>2. /\ Len(d) \in Nat /\ DOMAIN d = 1..Len(d) /\ p \in Nat /\ d # <<>> /\ Head(d) = d[1] /\ 1 \in DOMAIN d
      /\ \A k \in DOMAIN d : /\ d[k] \in 1..Len(inode) /\ k \in Nat
                             /\ own[d[k]][1] = s /\ own[d[k]][2] \in Nat
                             /\ LinesAre(inode[d[k]], s, own[d[k]][2], stamp, written)
                             /\ inode[d[k]] \in Seq(Line)
  <2>1. d \in Seq(1..Len(inode)) /\ p \in Nat
    BY <1>1, ReaderIs
  <2>2. \A k \in DOMAIN d : d[k] \in 1..Len(inode) /\ k \in Nat
    BY <2>1
  <2>3. \A k \in DOMAIN d : own[d[k]][1] = s
    BY <1>1 DEF Opened
  <2>4. \A k \in DOMAIN d : own[d[k]][2] \in Nat /\ LinesAre(inode[d[k]], s, own[d[k]][2], stamp, written)
    BY <1>1, <2>2, <2>3, FileIs
  <2>5. \A k \in DOMAIN d : inode[d[k]] \in Seq(Line)
    BY <1>1, <2>2, VolumeIs
  <2>6. Len(d) \in Nat /\ DOMAIN d = 1..Len(d) /\ Head(d) = d[1] /\ 1 \in DOMAIN d
    BY <2>1
  <2> QED
    BY <2>1, <2>2, <2>3, <2>4, <2>5, <2>6
<1> PICK q : q = inode[d[1]]
  OBVIOUS
<1>3. q \in Seq(Line) /\ Len(q) \in Nat /\ DOMAIN q = 1..Len(q) /\ l = q[p + 1] /\ p < Len(q) /\ p + 1 \in DOMAIN q
  BY <1>2, LinesAt
<1>4. l \in Line /\ l.n \in Nat /\ l.n > 0
  BY <1>3, LinesAt
<1>5. Known(s, l, stamp)
  <2>1. l.n <= written[s] /\ l.week = own[d[1]][2] /\ stamp[s][l.n] = own[d[1]][2]
    BY <1>2, <1>3 DEF LinesAre
  <2> QED
    BY <1>4, <2>1 DEF Known
<1>6. l \in Unread(inode, d, p)
  BY <1>2, <1>3, <1>4 DEF Unread
<1>7. Unread(inode, d, p + 1) \subseteq Unread(inode, d, p)
  <2> SUFFICES ASSUME NEW m \in Line, NEW k \in DOMAIN d, NEW j \in DOMAIN inode[d[k]], inode[d[k]][j] = m,
                      k = 1 => j > p + 1 \/ p + 1 > Len(inode[d[k]])
               PROVE  k = 1 => j > p \/ p > Len(inode[d[k]])
    BY DEF Unread
  <2> SUFFICES ASSUME k = 1 PROVE j > p
    OBVIOUS
  <2>1. j \in DOMAIN q /\ (j > p + 1 \/ p + 1 > Len(q))
    OBVIOUS
  <2> QED
    BY <1>2, <1>3, <2>1
<1>8. Before({l}, Unread(inode, d, p + 1))
  <2> SUFFICES ASSUME NEW m \in Line, NEW k \in DOMAIN d, NEW j \in DOMAIN inode[d[k]], inode[d[k]][j] = m,
                      k = 1 => j > p + 1 \/ p + 1 > Len(inode[d[k]])
               PROVE  l.n < m.n
    BY DEF Unread, Before
  <2>1. CASE k = 1
    <3>1. j \in DOMAIN q /\ q[j] = m /\ (j > p + 1 \/ p + 1 > Len(q)) /\ Increasing(q)
      BY <1>2, <2>1 DEF LinesAre
    <3>2. j > p + 1
      BY <1>2, <1>3, <3>1
    <3> QED
      BY <1>3, <3>1, <3>2 DEF Increasing
  <2>2. CASE k # 1
    <3>1. own[d[1]][2] < own[d[k]][2]
      <4>1. 1 < k
        BY <1>2, <2>2
      <4> QED
        BY <1>1, <1>2, <4>1 DEF Opened
    <3>2. m.n <= written[s] /\ stamp[s][m.n] = own[d[k]][2] /\ m.n \in Nat /\ m.n > 0
      <4>1. inode[d[k]] \in Seq(Line)
        BY <1>2
      <4>2. m.n \in Nat /\ m.n > 0
        BY <4>1, LinesAt
      <4> QED
        BY <1>2, <4>2 DEF LinesAre
    <3>3. l.n <= written[s] /\ stamp[s][l.n] = own[d[1]][2]
      BY <1>2, <1>3 DEF LinesAre
    <3>4. written[s] \in Nat
      BY <1>1, VolumeIs
    <3>5. m.n \in 1..written[s] /\ l.n \in 1..written[s]
      BY <1>4, <3>2, <3>3, <3>4
    <3>6. m.n <= l.n => stamp[s][m.n] <= stamp[s][l.n]
      BY <1>1, <3>5, FileIs
    <3>7. own[d[1]][2] \in Nat /\ own[d[k]][2] \in Nat
      BY <1>2
    <3> QED
      BY <1>4, <3>1, <3>2, <3>3, <3>6, <3>7
  <2> QED
    BY <2>1, <2>2
<1> QED
  BY <1>4, <1>5, <1>6, <1>7, <1>8

(* It is read: what is kept of the lines read so far has it at its end.    *)
LEMMA LineRead ==
  ASSUME NEW own, NEW stamp, LogsInv(own, stamp), NEW s \in Service, todo[s] # <<>>,
         pc[s] \notin {"none", "done"},
         NEW l, l = inode[Head(todo[s])][pos[s] + 1], pos[s] < Len(inode[Head(todo[s])]),
         UNCHANGED <<volumeVars, keeperVars, askVars, waiter, sendVars, delivered, handler>>,
         ReadersTyped', OthersRest(s), Placed(s)',
         pos'[s] = pos[s] + 1, todo'[s] = todo[s],
         Increasing(out'[s]), Range(out'[s]) \subseteq Range(out[s]) \cup {l}
  PROVE  LogsInv(own, stamp)'
<1>1. SenderTyped' /\ BuffersHeld /\ SameSent
  BY QuietSender
<1>2. /\ InOrder(s, delivered'[s], chan', buffer'[s]) /\ Sent(s)' = Sent(s)
      /\ inode' = inode /\ written' = written
  BY <1>1 DEF SameSent, volumeVars
<1>3. Ordered(s, own, stamp)
  BY DEF LogsInv, ReaderInv
<1>4. /\ Known(s, l, stamp) /\ l \in Unread(inode, todo[s], pos[s])
      /\ Unread(inode, todo[s], pos[s] + 1) \subseteq Unread(inode, todo[s], pos[s])
      /\ Before({l}, Unread(inode, todo[s], pos[s] + 1))
  BY NextLine
<1>5. Before(Sent(s), {l})
  BY <1>3, <1>4 DEF Ordered, Before
<1>6. Before(Sent(s), Range(out'[s]))
  BY <1>3, <1>5 DEF Ordered, Before
<1>7. Before(Sent(s) \cup Range(out'[s]), Unread(inode, todo[s], pos[s] + 1))
  BY <1>3, <1>4 DEF Ordered, Before
<1>8. \A x \in Sent(s) \cup Range(out'[s]) : Known(s, x, stamp)
  BY <1>3, <1>4 DEF Ordered
<1>9. Ordered(s, own, stamp)'
  <2>1. IsFiniteSet(Sent(s)) /\ Opened(own, s, todo'[s])
    BY <1>3 DEF Ordered
  <2>2. \A x \in Sent(s)' \cup Range(out'[s]) : Known(s, x, stamp)'
    BY <1>2, <1>8 DEF Known
  <2> QED
    BY <1>2, <1>6, <1>7, <2>1, <2>2 DEF Ordered
<1>10. ReaderInv(s, own, stamp)'
  BY <1>9 DEF ReaderInv
<1>11. \A t \in Service : InOrder(t, delivered'[t], chan', buffer'[t]) /\ Sent(t)' \subseteq Sent(t)
  BY <1>1 DEF SameSent
<1> QED
  BY <1>1, <1>10, <1>11, ReaderStep

LEMMA KeptLast ==
  ASSUME LogsAssumption, NEW q \in Seq(Line), Increasing(q), NEW most, most = NumLogLines, Len(q) <= most + 1
  PROVE  /\ KeepLast(q) \in Seq(Line) /\ Increasing(KeepLast(q)) /\ Range(KeepLast(q)) \subseteq Range(q)
         /\ Len(KeepLast(q)) <= NumLogLines
<1>0. NumLogLines \in Nat /\ Len(q) \in Nat
  BY LinesAt DEF LogsAssumption
<1>1. CASE Len(q) > NumLogLines
  <2>1. q # <<>>
    BY <1>0, <1>1
  <2> PICK t : t = Tail(q)
    OBVIOUS
  <2>2. t \in Seq(Line) /\ Len(t) = Len(q) - 1 /\ Range(t) \subseteq Range(q) /\ Increasing(t)
    BY <2>1, HeadFirst
  <2>3. KeepLast(q) = t
    BY <1>1 DEF KeepLast
  <2> QED
    BY <1>0, <2>2, <2>3
<1>2. CASE ~(Len(q) > NumLogLines)
  BY <1>0, <1>2 DEF KeepLast
<1> QED
  BY <1>1, <1>2

LEMMA ReadLineKeeps ==
  ASSUME LogsAssumption, NEW own, NEW stamp, LogsInv(own, stamp), NEW s \in Service, ReadLine(s)
  PROVE  LogsInv(own, stamp)'
<1>1. RequestTyped /\ ReadersTyped /\ VolumeTyped /\ Placed(s) /\ Ordered(s, own, stamp)
  BY DEF LogsInv, RequestTyped, ReaderInv
<1> PICK l : l = inode[Head(todo[s])][pos[s] + 1]
  OBVIOUS
<1>2. /\ pc[s] = "read" /\ UNCHANGED <<path, todo>> /\ pos' = [pos EXCEPT ![s] = @ + 1]
      /\ pos[s] < Len(inode[Head(todo[s])])
      /\ UNCHANGED <<volumeVars, keeperVars, askVars, handler, delivered, sendVars, waiter>>
      /\ IF req.all
         THEN out' = [out EXCEPT ![s] = <<l>>] /\ pc' = [pc EXCEPT ![s] = "send"]
         ELSE out' = [out EXCEPT ![s] = KeepLast(Append(@, l))] /\ UNCHANGED pc
  BY DEF ReadLine, OutsideReader, StreamStays, Goto
<1>3. Sent(s)' = Sent(s) /\ todo[s] # <<>> /\ pos[s] \in Nat /\ todo'[s] = todo[s] /\ pos'[s] = pos[s] + 1
  BY <1>1, <1>2 DEF Sent, sendVars, Placed, ReadersTyped
<1>4. l \in Line /\ l \in Unread(inode, todo[s], pos[s])
  BY <1>2, <1>3, NextLine
<1>5. CASE req.all
  <2> PICK o : o = <<l>>
    OBVIOUS
  <2>1. Range(o) = {l} /\ Increasing(o) /\ o \in Seq(Line) /\ Len(o) = 1 /\ o # <<>>
    BY <1>4, OneLine
  <2>2. out'[s] = o /\ pc'[s] = "send" /\ ReadersTyped' /\ OthersRest(s)
    <3>1. out' = [out EXCEPT ![s] = o] /\ pc' = [pc EXCEPT ![s] = "send"]
      BY <1>2, <1>5
    <3>2. UNCHANGED <<path, todo, inode>> /\ pos' = [pos EXCEPT ![s] = pos[s] + 1] /\ pos[s] + 1 \in Nat
      BY <1>2, <1>3 DEF volumeVars
    <3> QED
      BY <1>1, <2>1, <3>1, <3>2 DEF ReadersTyped, OthersRest, Place
  <2>3. Placed(s)'
    BY <1>1, <1>2, <1>3, <1>5, <2>1, <2>2 DEF Placed, askVars
  <2>4. Increasing(out'[s]) /\ Range(out'[s]) \subseteq Range(out[s]) \cup {l}
    BY <2>1, <2>2
  <2> QED
    BY <1>2, <1>3, <2>2, <2>3, <2>4, LineRead
<1>6. CASE ~req.all
  <2> PICK q : q = Append(out[s], l)
    OBVIOUS
  <2> PICK o : o = KeepLast(q)
    OBVIOUS
  <2>1. /\ q \in Seq(Line) /\ Range(q) = Range(out[s]) \cup {l} /\ Increasing(q) /\ Len(q) = Len(out[s]) + 1
    <3>1. out[s] \in Seq(Line) /\ Increasing(out[s]) /\ Before(Range(out[s]), {l})
      BY <1>1, <1>4, ReaderIs DEF Ordered, Before
    <3>2. q \in Seq(Line) /\ Len(q) = Len(out[s]) + 1 /\ Range(q) = Range(out[s]) \cup {l}
      BY <1>4, <3>1, Appending, RangeAppended
    <3>3. Increasing(q)
      BY <1>4, <3>1, Appended
    <3> QED
      BY <3>2, <3>3
  <2>2. Len(out[s]) <= NumLogLines /\ Len(out[s]) \in Nat
    <3>1. out[s] \in Seq(Line)
      BY <1>1, ReaderIs
    <3> QED
      BY <1>1, <1>2, <1>6, <3>1, LinesAt DEF Placed
  <2>3. Len(q) <= NumLogLines + 1
    BY <2>1, <2>2 DEF LogsAssumption
  <2>4. o \in Seq(Line) /\ Increasing(o) /\ Range(o) \subseteq Range(q) /\ Len(o) <= NumLogLines
    BY <2>1, <2>3, KeptLast
  <2>5. out'[s] = o /\ pc'[s] = "read" /\ ReadersTyped' /\ OthersRest(s)
    <3>1. out' = [out EXCEPT ![s] = o] /\ pc' = pc
      BY <1>2, <1>6
    <3>2. UNCHANGED <<path, todo, inode>> /\ pos' = [pos EXCEPT ![s] = pos[s] + 1] /\ pos[s] + 1 \in Nat
      BY <1>2, <1>3 DEF volumeVars
    <3> QED
      BY <1>1, <1>2, <2>4, <3>1, <3>2, SMTT(60) DEF ReadersTyped, OthersRest
  <2>6. Placed(s)'
    BY <1>1, <1>2, <1>3, <1>6, <2>4, <2>5 DEF Placed, askVars
  <2>7. Increasing(out'[s]) /\ Range(out'[s]) \subseteq Range(out[s]) \cup {l}
    BY <2>1, <2>4, <2>5
  <2> QED
    BY <1>2, <1>3, <2>5, <2>6, <2>7, LineRead
<1> QED
  BY <1>5, <1>6

LEMMA FollowLineKeeps ==
  ASSUME NEW own, NEW stamp, LogsInv(own, stamp), NEW s \in Service, FollowLine(s)
  PROVE  LogsInv(own, stamp)'
<1>1. RequestTyped /\ ReadersTyped /\ VolumeTyped /\ Placed(s) /\ Ordered(s, own, stamp)
  BY DEF LogsInv, RequestTyped, ReaderInv
<1> PICK l : l = inode[Head(todo[s])][pos[s] + 1]
  OBVIOUS
<1>2. /\ pc[s] = "follow" /\ UNCHANGED <<path, todo>> /\ pos' = [pos EXCEPT ![s] = @ + 1]
      /\ pos[s] < Len(inode[Head(todo[s])])
      /\ UNCHANGED <<volumeVars, keeperVars, askVars, handler, delivered, sendVars, waiter>>
      /\ out' = [out EXCEPT ![s] = <<l>>] /\ pc' = [pc EXCEPT ![s] = "relay"]
  BY DEF FollowLine, OutsideReader, StreamStays, Goto
<1>3. Sent(s)' = Sent(s) /\ todo[s] # <<>> /\ pos[s] \in Nat /\ todo'[s] = todo[s] /\ pos'[s] = pos[s] + 1
  BY <1>1, <1>2 DEF Sent, sendVars, Placed, ReadersTyped
<1>4. l \in Line
  BY <1>2, <1>3, NextLine
<1> PICK o : o = <<l>>
  OBVIOUS
<1>5. Range(o) = {l} /\ Increasing(o) /\ o \in Seq(Line) /\ Len(o) = 1 /\ o # <<>>
  BY <1>4, OneLine
<1>6. out'[s] = o /\ pc'[s] = "relay" /\ ReadersTyped' /\ OthersRest(s)
  BY <1>1, <1>2, <1>5 DEF ReadersTyped, OthersRest, Place, volumeVars
<1>7. Placed(s)'
  BY <1>1, <1>2, <1>3, <1>5, <1>6 DEF Placed, askVars
<1>8. Increasing(out'[s]) /\ Range(out'[s]) \subseteq Range(out[s]) \cup {l}
  BY <1>5, <1>6
<1> QED
  BY <1>2, <1>3, <1>6, <1>7, <1>8, LineRead

LEMMA NoneUnread ==
  ASSUME NEW q, NEW p
  PROVE  Unread(q, <<>>, p) = {} /\ \A own, s : Opened(own, s, <<>>)
<1>1. \A k : k \notin DOMAIN <<>>
  OBVIOUS
<1> QED
  BY <1>1 DEF Unread, Opened

LEMMA TailUnread ==
  ASSUME RequestTyped, NEW own, NEW s \in Service, todo[s] # <<>>, Opened(own, s, todo[s])
  PROVE  /\ Unread(inode, Tail(todo[s]), 0) \subseteq Unread(inode, todo[s], pos[s])
         /\ Opened(own, s, Tail(todo[s])) /\ Tail(todo[s]) \in Seq(1..Len(inode))
         /\ (Tail(todo[s]) = <<>> <=> ~(Len(todo[s]) > 1))
<1> PICK d, t : d = todo[s] /\ t = Tail(todo[s])
  OBVIOUS
<1>1. d \in Seq(1..Len(inode)) /\ d # <<>>
  BY ReaderIs
<1>2. /\ t \in Seq(1..Len(inode)) /\ \A k \in DOMAIN t : t[k] = d[k + 1] /\ k + 1 \in DOMAIN d /\ k + 1 # 1 /\ k \in Nat
      /\ Len(t) = Len(d) - 1 /\ Len(d) \in Nat
  <2>1. t = Tail(d)
    OBVIOUS
  <2>2. /\ t \in Seq(1..Len(inode)) /\ Len(t) = Len(d) - 1 /\ Len(d) \in Nat
        /\ DOMAIN t = 1..Len(t) /\ DOMAIN d = 1..Len(d)
    <3> PICK S : S = 1..Len(inode)
      OBVIOUS
    <3>1. d \in Seq(S) /\ d # <<>>
      BY <1>1
    <3>2. /\ t \in Seq(S) /\ Len(t) = Len(d) - 1 /\ Len(d) \in Nat
          /\ DOMAIN t = 1..Len(t) /\ DOMAIN d = 1..Len(d)
      BY ONLY <2>1, <3>1
    <3> QED
      BY <3>2
  <2>3. \A k \in 1..Len(t) : t[k] = d[k + 1]
    BY <1>1, <2>1, <2>2
  <2>4. \A k \in DOMAIN t : k + 1 \in DOMAIN d /\ k + 1 # 1 /\ k \in Nat
    BY <2>2
  <2> QED
    BY <2>2, <2>3, <2>4
<1>3. Unread(inode, t, 0) \subseteq Unread(inode, d, pos[s])
  <2> SUFFICES ASSUME NEW m \in Line, NEW k \in DOMAIN t, NEW j \in DOMAIN inode[t[k]], inode[t[k]][j] = m
               PROVE  m \in Unread(inode, d, pos[s])
    BY DEF Unread
  <2> PICK e : e = k + 1
    OBVIOUS
  <2>1. e \in DOMAIN d /\ e # 1 /\ j \in DOMAIN inode[d[e]] /\ inode[d[e]][j] = m
    BY <1>2
  <2> QED
    BY <2>1 DEF Unread
<1>4. Opened(own, s, t)
  <2>1. \A k, m \in DOMAIN t : k < m => k + 1 < m + 1
    BY <1>2
  <2> QED
    BY <1>2, <2>1 DEF Opened
<1>5. t = <<>> <=> ~(Len(d) > 1)
  BY <1>2
<1> QED
  BY <1>2, <1>3, <1>4, <1>5

LEMMA EndOfFileKeeps ==
  ASSUME NEW own, NEW stamp, LogsInv(own, stamp), NEW s \in Service, EndOfFile(s)
  PROVE  LogsInv(own, stamp)'
<1>1. RequestTyped /\ ReadersTyped /\ VolumeTyped /\ Placed(s) /\ Ordered(s, own, stamp)
  BY DEF LogsInv, RequestTyped, ReaderInv
<1> PICK t : t = Tail(todo[s])
  OBVIOUS
<1> PICK l : l = IF Len(todo[s]) > 1 THEN "read" ELSE IF out[s] = <<>> THEN "flush" ELSE "send"
  OBVIOUS
<1>2. /\ pc[s] = "read" /\ UNCHANGED <<path, out>> /\ todo' = [todo EXCEPT ![s] = t] /\ pos' = [pos EXCEPT ![s] = 0]
      /\ UNCHANGED <<volumeVars, keeperVars, askVars, handler, delivered, sendVars, waiter>>
      /\ pc' = IF Len(todo[s]) > 1 THEN pc ELSE [pc EXCEPT ![s] = l]
  BY DEF EndOfFile, OutsideReader, StreamStays, Goto
<1>3. pc' = [pc EXCEPT ![s] = l]
  BY <1>1, <1>2 DEF ReadersTyped
<1>4. Sent(s)' = Sent(s) /\ todo[s] # <<>> /\ path[s] # <<>>
  BY <1>1, <1>2 DEF Sent, sendVars, Placed
<1>5. /\ Unread(inode, t, 0) \subseteq Unread(inode, todo[s], pos[s]) /\ Opened(own, s, t)
      /\ t \in Seq(1..Len(inode)) /\ (t = <<>> <=> ~(Len(todo[s]) > 1))
  BY <1>1, <1>4, TailUnread DEF Ordered
<1>6. /\ todo'[s] = t /\ pos'[s] = 0 /\ pc'[s] = l /\ out'[s] = out[s] /\ path'[s] = path[s]
      /\ ReadersTyped' /\ OthersRest(s)
  <2>1. UNCHANGED inode
    BY <1>2 DEF volumeVars
  <2> QED
    BY <1>1, <1>2, <1>3, <1>5, <2>1 DEF ReadersTyped, OthersRest, Place
<1>7. UNCHANGED <<req, handler, client>>
  BY <1>2 DEF askVars
<1>8. Placed(s)'
  <2>1. CASE Len(todo[s]) > 1
    BY <1>1, <1>2, <1>4, <1>5, <1>6, <1>7, <2>1 DEF Placed
  <2>2. CASE ~(Len(todo[s]) > 1) /\ out[s] = <<>>
    <3>1. pc'[s] = "flush" /\ todo'[s] = <<>> /\ out'[s] = <<>> /\ path'[s] # <<>>
      BY <1>4, <1>5, <1>6, <2>2
    <3>2. Climbs(path'[s])
      BY <1>1, <1>6 DEF Placed
    <3> QED
      BY <3>1, <3>2 DEF Placed
  <2>3. CASE ~(Len(todo[s]) > 1) /\ out[s] # <<>>
    <3>1. pc'[s] = "send" /\ todo'[s] = <<>> /\ out'[s] # <<>> /\ path'[s] # <<>>
      BY <1>4, <1>5, <1>6, <2>3
    <3>2. Climbs(path'[s]) /\ ~req'.all
      BY <1>1, <1>2, <1>6, <1>7, <2>3 DEF Placed
    <3> QED
      BY <3>1, <3>2 DEF Placed
  <2> QED
    BY <2>1, <2>2, <2>3
<1> QED
  BY <1>2, <1>5, <1>6, <1>8, QuietStep

LEMMA StopReadingKeeps ==
  ASSUME NEW own, NEW stamp, LogsInv(own, stamp), NEW s \in Service, StopReading(s)
  PROVE  LogsInv(own, stamp)'
<1>1. RequestTyped /\ ReadersTyped /\ VolumeTyped /\ Placed(s) /\ Ordered(s, own, stamp)
  BY DEF LogsInv, RequestTyped, ReaderInv
<1>2. /\ pc[s] = "read" /\ ctxDone /\ UNCHANGED <<path, todo, pos>> /\ out' = [out EXCEPT ![s] = <<>>]
      /\ UNCHANGED <<volumeVars, keeperVars, askVars, handler, delivered, sendVars, waiter>>
      /\ pc' = [pc EXCEPT ![s] = "flush"]
  BY DEF StopReading, OutsideReader, StreamStays, Goto, readVars
<1>3. Sent(s)' = Sent(s) /\ path[s] # <<>> /\ ~Live' /\ UNCHANGED <<inode, req>>
  BY <1>1, <1>2, Canceled DEF Sent, sendVars, Placed, volumeVars, askVars
<1>4. ReadersTyped' /\ OthersRest(s) /\ out'[s] = <<>> /\ pc'[s] = "flush"
  BY <1>1, <1>2, <1>3, NoLines DEF ReadersTyped, OthersRest, Place
<1>5. Placed(s)'
  BY <1>1, <1>2, <1>3, <1>4 DEF Placed
<1>6. Opened(own, s, todo'[s]) /\ Unread(inode, todo'[s], pos'[s]) \subseteq Unread(inode, todo[s], pos[s])
  BY <1>1, <1>2 DEF Ordered
<1> QED
  BY <1>2, <1>4, <1>5, <1>6, QuietStep

LEMMA TailFileKeeps ==
  ASSUME NEW own, NEW stamp, LogsInv(own, stamp), NEW s \in Service, TailFile(s)
  PROVE  LogsInv(own, stamp)'
<1>1. /\ RequestTyped /\ ReadersTyped /\ VolumeTyped /\ Placed(s) /\ Ordered(s, own, stamp)
      /\ FileInv(own, stamp)
  BY DEF LogsInv, RequestTyped, ReaderInv
<1> PICK i : i = file[s][Last(path[s])]
  OBVIOUS
<1>2. /\ pc[s] = "tail" /\ UNCHANGED <<path, out>>
      /\ UNCHANGED <<volumeVars, keeperVars, askVars, handler, delivered, sendVars, waiter>>
      /\ \/ /\ i # 0 /\ todo' = [todo EXCEPT ![s] = <<i>>] /\ pos' = [pos EXCEPT ![s] = Len(inode[i])]
            /\ pc' = [pc EXCEPT ![s] = "follow"]
         \/ pc' = [pc EXCEPT ![s] = "fail"] /\ UNCHANGED <<todo, pos>>
  BY DEF TailFile, OutsideReader, StreamStays, Goto
<1>3. /\ Sent(s)' = Sent(s) /\ path[s] # <<>> /\ out[s] = <<>> /\ UNCHANGED <<inode, req>> /\ req.follow
      /\ Climbs(path[s])
  BY <1>1, <1>2 DEF Sent, sendVars, Placed, volumeVars, askVars
<1>4. CASE pc' = [pc EXCEPT ![s] = "fail"] /\ UNCHANGED <<todo, pos>>
  <2>1. ReadersTyped' /\ OthersRest(s) /\ pc'[s] = "fail"
    BY <1>1, <1>2, <1>3, <1>4 DEF ReadersTyped, OthersRest, Place
  <2>2. Placed(s)'
    BY <1>1, <1>2, <1>3, <1>4, <2>1 DEF Placed
  <2>3. Opened(own, s, todo'[s]) /\ Unread(inode, todo'[s], pos'[s]) \subseteq Unread(inode, todo[s], pos[s])
    BY <1>1, <1>4 DEF Ordered
  <2> QED
    BY <1>2, <2>1, <2>2, <2>3, QuietStep
<1>5. CASE /\ i # 0 /\ todo' = [todo EXCEPT ![s] = <<i>>] /\ pos' = [pos EXCEPT ![s] = Len(inode[i])]
           /\ pc' = [pc EXCEPT ![s] = "follow"]
  <2> PICK w : w = Last(path[s])
    OBVIOUS
  <2>1. w \in Week
    <3>1. path[s] \in Seq(Week) /\ path[s] # <<>>
      BY <1>1, <1>3, ReaderIs
    <3> QED
      BY <3>1 DEF Last
  <2>2. i \in 1..Len(inode) /\ own[i] = <<s, w>>
    BY <1>1, <1>5, <2>1, VolumeIs, FileIs
  <2> PICK d : d = <<i>>
    OBVIOUS
  <2>3. d \in Seq(1..Len(inode)) /\ d # <<>> /\ DOMAIN d = {1} /\ d[1] = i
    BY <2>2
  <2>4. own[d[1]][1] = s
    BY <2>2, <2>3
  <2>5. Opened(own, s, d)
    BY <2>3, <2>4 DEF Opened
  <2>6. Len(inode[i]) \in Nat /\ DOMAIN inode[i] = 1..Len(inode[i])
    BY <1>1, <2>2, VolumeIs
  <2>7. Unread(inode, d, Len(inode[i])) = {}
    BY <2>3, <2>6 DEF Unread
  <2>8. todo'[s] = d /\ pos'[s] = Len(inode[i]) /\ pc'[s] = "follow" /\ ReadersTyped' /\ OthersRest(s)
    BY <1>1, <1>2, <1>3, <1>5, <2>3, <2>6 DEF ReadersTyped, OthersRest, Place
  <2>9. Placed(s)'
    BY <1>1, <1>2, <1>3, <2>3, <2>8 DEF Placed
  <2>10. Opened(own, s, todo'[s]) /\ Unread(inode, todo'[s], pos'[s]) \subseteq Unread(inode, todo[s], pos[s])
    BY <2>5, <2>7, <2>8
  <2> QED
    BY <1>2, <2>8, <2>9, <2>10, QuietStep
<1> QED
  BY <1>2, <1>4, <1>5

LEMMA FollowTruncatedKeeps ==
  ASSUME NEW own, NEW stamp, LogsInv(own, stamp), NEW s \in Service, FollowTruncated(s)
  PROVE  LogsInv(own, stamp)'
<1>1. RequestTyped /\ ReadersTyped /\ VolumeTyped /\ Placed(s) /\ Ordered(s, own, stamp)
  BY DEF LogsInv, RequestTyped, ReaderInv
<1>2. /\ pc[s] = "follow" /\ UNCHANGED <<pc, path, todo, out>> /\ pos' = [pos EXCEPT ![s] = 0]
      /\ pos[s] > Len(inode[Head(todo[s])])
      /\ UNCHANGED <<volumeVars, keeperVars, askVars, handler, delivered, sendVars, waiter>>
  BY DEF FollowTruncated, OutsideReader, StreamStays
<1>3. Sent(s)' = Sent(s) /\ todo[s] # <<>> /\ UNCHANGED <<inode, req, handler, client>>
  BY <1>1, <1>2 DEF Sent, sendVars, Placed, volumeVars, askVars
<1>4. ReadersTyped' /\ OthersRest(s) /\ pos'[s] = 0
  BY <1>1, <1>2, <1>3 DEF ReadersTyped, OthersRest
<1>5. Placed(s)'
  BY <1>1, <1>2, <1>3, <1>4 DEF Placed
<1>6. Opened(own, s, todo'[s])
  BY <1>1, <1>2 DEF Ordered
<1>7. Unread(inode, todo'[s], pos'[s]) \subseteq Unread(inode, todo[s], pos[s])
  <2> PICK d : d = todo[s]
    OBVIOUS
  <2>1. Head(d) = d[1] /\ pos[s] > Len(inode[d[1]]) /\ todo'[s] = d
    <3>1. d \in Seq(1..Len(inode)) /\ d # <<>>
      BY <1>1, <1>3, ReaderIs
    <3>2. Head(d) = d[1]
      BY <3>1
    <3> QED
      BY <1>2, <3>2
  <2> QED
    BY <2>1 DEF Unread
<1> QED
  BY <1>2, <1>4, <1>5, <1>6, <1>7, QuietStep

(* A reader is through with what it has opened.                            *)
LEMMA Finished ==
  ASSUME NEW own, NEW stamp, LogsInv(own, stamp), NEW s \in Service, NEW l \in Place,
         Finish(s, l), UNCHANGED out
  PROVE  /\ (inode' = inode => ReadersTyped') /\ OthersRest(s) /\ pc'[s] = l
         /\ todo'[s] = <<>> /\ pos'[s] = 0 /\ path'[s] = path[s] /\ Opened(own, s, todo'[s])
         /\ Unread(inode, todo'[s], pos'[s]) \subseteq Unread(inode, todo[s], pos[s])
<1>1. ReadersTyped
  BY DEF LogsInv, RequestTyped
<1>2. /\ pc' = [pc EXCEPT ![s] = l] /\ path' = path
      /\ todo' = [todo EXCEPT ![s] = <<>>] /\ pos' = [pos EXCEPT ![s] = 0]
  BY DEF Finish, Goto
<1>3. /\ inode' = inode => ReadersTyped'
      /\ OthersRest(s) /\ pc'[s] = l /\ todo'[s] = <<>> /\ pos'[s] = 0 /\ path'[s] = path[s]
  BY <1>1, <1>2 DEF ReadersTyped, OthersRest
<1> QED
  BY <1>3, NoneUnread

LEMMA StopFollowingKeeps ==
  ASSUME NEW own, NEW stamp, LogsInv(own, stamp), NEW s \in Service, StopFollowing(s)
  PROVE  LogsInv(own, stamp)'
<1>1. RequestTyped /\ Placed(s)
  BY DEF LogsInv, ReaderInv
<1>2. /\ pc[s] = "follow" /\ ctxDone /\ Finish(s, "done") /\ UNCHANGED out
      /\ UNCHANGED <<volumeVars, keeperVars, askVars, handler, delivered, sendVars, waiter>>
  BY DEF StopFollowing, OutsideReader, StreamStays
<1>3. /\ ReadersTyped' /\ OthersRest(s) /\ pc'[s] = "done" /\ todo'[s] = <<>> /\ path'[s] = path[s]
      /\ Opened(own, s, todo'[s]) /\ Unread(inode, todo'[s], pos'[s]) \subseteq Unread(inode, todo[s], pos[s])
  BY <1>2, Finished DEF Place, volumeVars
<1>4. ~Live' /\ out'[s] = <<>>
  BY <1>1, <1>2, Canceled DEF Placed
<1>5. Placed(s)'
  BY <1>1, <1>3, <1>4 DEF Placed
<1> QED
  BY <1>2, <1>3, <1>5, QuietStep

LEMMA ReceiveErrorKeeps ==
  ASSUME NEW own, NEW stamp, LogsInv(own, stamp), NEW s \in Service, ReceiveError(s)
  PROVE  LogsInv(own, stamp)'
<1>1. RequestTyped /\ Placed(s)
  BY DEF LogsInv, ReaderInv
<1>2. /\ pc[s] = "fail" /\ Finish(s, "done") /\ UNCHANGED out /\ handler' \in {"end", "error"}
      /\ UNCHANGED <<volumeVars, keeperVars, askVars, delivered, sendVars, waiter>>
  BY DEF ReceiveError, HandlerReturns, sendVars
<1>3. /\ ReadersTyped' /\ OthersRest(s) /\ pc'[s] = "done" /\ todo'[s] = <<>> /\ path'[s] = path[s]
      /\ Opened(own, s, todo'[s]) /\ Unread(inode, todo'[s], pos'[s]) \subseteq Unread(inode, todo[s], pos[s])
  BY <1>2, Finished DEF Place, volumeVars
<1>4. ~Live' /\ out'[s] = <<>>
  BY <1>1, <1>2 DEF Placed, Live
<1>5. Placed(s)'
  BY <1>1, <1>3, <1>4 DEF Placed
<1> QED
  BY <1>2, <1>3, <1>5, QuietStep

LEMMA SendLineKeeps ==
  ASSUME LogsAssumption, NEW own, NEW stamp, LogsInv(own, stamp), NEW s \in Service, SendLine(s)
  PROVE  LogsInv(own, stamp)'
<1>1. RequestTyped /\ ReadersTyped /\ VolumeTyped /\ Placed(s) /\ Ordered(s, own, stamp)
  BY DEF LogsInv, RequestTyped, ReaderInv
<1> PICK l, t : l = Head(out[s]) /\ t = Tail(out[s])
  OBVIOUS
<1> PICK to : to = AfterSend(s)
  OBVIOUS
<1>2. /\ pc[s] \in {"send", "relay"} /\ UNCHANGED <<path, todo, pos>> /\ out' = [out EXCEPT ![s] = t]
      /\ UNCHANGED <<volumeVars, keeperVars, askVars, handler, delivered, waiter>>
      /\ Send(s, l) \/ UNCHANGED sendVars
      /\ pc' = [pc EXCEPT ![s] = to]
  BY DEF SendLine, StreamStays, Goto, readVars
<1>3. /\ l \in Line /\ t \in Seq(Line) /\ Len(t) = Len(out[s]) - 1 /\ Len(out[s]) \in Nat
      /\ Range(out[s]) = {l} \cup Range(t) /\ Increasing(t) /\ Before({l}, Range(t)) /\ out[s] # <<>>
  <2>1. out[s] \in Seq(Line) /\ out[s] # <<>> /\ Increasing(out[s])
    BY <1>1, <1>2, ReaderIs DEF Placed, Ordered
  <2> QED
    BY <2>1, HeadFirst, LinesAt
<1>4. Before(Sent(s), {l})
  BY <1>1, <1>3 DEF Ordered, Before
<1>5. /\ SenderTyped' /\ BuffersHeld /\ InOrder(s, delivered'[s], chan', buffer'[s])
      /\ Sent(s)' \subseteq Sent(s) \cup {l}
      /\ \A u \in Service : u # s => InOrder(u, delivered'[u], chan', buffer'[u]) /\ Sent(u)' \subseteq Sent(u)
  <2>1. CASE Send(s, l)
    BY <1>2, <1>3, <1>4, <2>1, SendKeeps DEF BuffersHeld
  <2>2. CASE UNCHANGED sendVars
    BY <1>2, <2>2, QuietSender DEF SameSent
  <2> QED
    BY <1>2, <2>1, <2>2
<1>6. /\ to \in {"follow", "send", "read", "flush"} /\ UNCHANGED <<inode, req, handler, client, written>>
      /\ to = "follow" <=> pc[s] = "relay"
      /\ to = "send" <=> pc[s] = "send" /\ Len(out[s]) > 1
      /\ to = "read" <=> pc[s] = "send" /\ ~(Len(out[s]) > 1) /\ req.all
  BY <1>2 DEF AfterSend, volumeVars, askVars
<1>7. ReadersTyped' /\ OthersRest(s) /\ out'[s] = t /\ pc'[s] = to
  BY <1>1, <1>2, <1>3, <1>6 DEF ReadersTyped, OthersRest, Place
<1>8. Placed(s)'
  <2>1. t = <<>> <=> ~(Len(out[s]) > 1)
    BY <1>3
  <2>2. path'[s] = path[s] /\ todo'[s] = todo[s]
    BY <1>2
  <2>3. CASE to = "follow"
    <3>1. pc[s] = "relay"
      BY <1>6, <2>3
    <3>2. Len(out[s]) = 1 /\ todo[s] # <<>> /\ req.follow /\ Climbs(path[s])
      BY <1>1, <3>1 DEF Placed
    <3>3. pc'[s] = "follow" /\ out'[s] = <<>> /\ todo'[s] # <<>> /\ req'.follow /\ Climbs(path'[s])
      BY <1>6, <1>7, <2>1, <2>2, <2>3, <3>2
    <3> QED
      BY <3>3 DEF Placed
  <2>4. CASE to = "send"
    <3>1. ~req.all
      <4>1. pc[s] = "send" /\ Len(out[s]) > 1
        BY <1>6, <2>4
      <4> SUFFICES ASSUME req.all PROVE FALSE
        OBVIOUS
      <4>2. Len(out[s]) = 1
        BY <1>1, <4>1 DEF Placed
      <4>3. ~(1 > 1)
        OBVIOUS
      <4> QED
        BY <4>1, <4>2, <4>3
    <3> QED
      BY <1>1, <1>2, <1>6, <1>7, <2>1, <2>2, <2>4, <3>1 DEF Placed, Live
  <2>5. CASE to = "read"
    BY <1>1, <1>2, <1>6, <1>7, <2>1, <2>2, <2>5 DEF Placed
  <2>6. CASE to = "flush"
    <3>1. pc[s] = "send" /\ ~(Len(out[s]) > 1) /\ ~req.all
      BY <1>2, <1>6, <2>6
    <3> QED
      BY <1>1, <1>2, <1>6, <1>7, <2>1, <2>2, <2>6, <3>1 DEF Placed, Live
  <2> QED
    BY <1>6, <2>3, <2>4, <2>5, <2>6
<1>9. Ordered(s, own, stamp)'
  <2>1. IsFiniteSet(Sent(s)')
    <3>1. IsFiniteSet(Sent(s) \cup {l})
      BY <1>1, FS_AddElement DEF Ordered
    <3> QED
      BY <1>5, <3>1, FS_Subset
  <2>2. Before(Sent(s)', Range(t))
    BY <1>1, <1>3, <1>5 DEF Ordered, Before
  <2>3. Sent(s)' \cup Range(t) \subseteq Sent(s) \cup Range(out[s])
    BY <1>3, <1>5
  <2>4. Before(Sent(s)' \cup Range(t), Unread(inode, todo[s], pos[s]))
    BY <1>1, <2>3 DEF Ordered, Before
  <2>5. \A x \in Sent(s)' \cup Range(t) : Known(s, x, stamp)'
    BY <1>1, <1>6, <2>3 DEF Ordered, Known
  <2>6. Opened(own, s, todo[s])
    BY <1>1 DEF Ordered
  <2>7. Unread(inode', todo'[s], pos'[s]) = Unread(inode, todo[s], pos[s]) /\ todo'[s] = todo[s]
    BY <1>2, <1>6
  <2> QED
    BY <1>3, <1>5, <1>7, <2>1, <2>2, <2>4, <2>5, <2>6, <2>7 DEF Ordered
<1>10. ReaderInv(s, own, stamp)'
  BY <1>8, <1>9 DEF ReaderInv
<1> QED
  BY <1>2, <1>5, <1>7, <1>10, ReaderStep

LEMMA FlushBeforeFollowingKeeps ==
  ASSUME LogsAssumption, NEW own, NEW stamp, LogsInv(own, stamp), NEW s \in Service, FlushBeforeFollowing(s)
  PROVE  LogsInv(own, stamp)'
<1>1. RequestTyped /\ ReadersTyped /\ VolumeTyped /\ Placed(s) /\ Ordered(s, own, stamp)
  BY DEF LogsInv, RequestTyped, ReaderInv
<1> PICK l : l = IF req.follow THEN "tail" ELSE "done"
  OBVIOUS
<1>2. /\ pc[s] = "flush" /\ Flush(s) /\ UNCHANGED out
      /\ UNCHANGED <<volumeVars, keeperVars, askVars, handler, delivered, waiter>>
      /\ UNCHANGED <<pc, path, todo, pos>> \/ Finish(s, l)
  BY DEF FlushBeforeFollowing, StreamStays, readVars
<1>3. SenderTyped' /\ BuffersHeld /\ SameSent
  BY <1>2, FlushKeeps DEF BuffersHeld
<1>4. UNCHANGED <<inode, req, handler, client, written>> /\ req.follow \in BOOLEAN
  BY <1>1, <1>2, ReaderIs DEF volumeVars, askVars
<1>5. /\ ReadersTyped' /\ OthersRest(s) /\ Opened(own, s, todo'[s]) /\ path'[s] = path[s] /\ out'[s] = out[s]
      /\ Unread(inode, todo'[s], pos'[s]) \subseteq Unread(inode, todo[s], pos[s])
      /\ \/ pc'[s] = pc[s] /\ todo'[s] = todo[s]
         \/ pc'[s] = l /\ todo'[s] = <<>>
  <2>1. CASE UNCHANGED <<pc, path, todo, pos>>
    <3>1. ReadersTyped'
      BY <1>1, <1>2, <1>4, <2>1 DEF ReadersTyped
    <3>2. OthersRest(s)
      BY <1>2, <2>1 DEF OthersRest
    <3>3. Opened(own, s, todo'[s])
      BY <1>1, <2>1 DEF Ordered
    <3> QED
      BY <1>2, <2>1, <3>1, <3>2, <3>3
  <2>2. CASE Finish(s, l)
    <3>1. l \in Place
      BY DEF Place
    <3> QED
      BY <1>2, <1>4, <2>2, <3>1, Finished
  <2> QED
    BY <1>2, <2>1, <2>2
<1>6. /\ InOrder(s, delivered'[s], chan', buffer'[s]) /\ Sent(s)' = Sent(s)
      /\ \A t \in Service : t # s => InOrder(t, delivered'[t], chan', buffer'[t]) /\ Sent(t)' \subseteq Sent(t)
  BY <1>3 DEF SameSent
<1>7. Placed(s)'
  <2>1. path[s] # <<>> /\ Climbs(path[s]) /\ out[s] = <<>> /\ (Live => todo[s] = <<>>)
    BY <1>1, <1>2 DEF Placed
  <2>2. CASE pc'[s] = pc[s] /\ todo'[s] = todo[s]
    BY <1>2, <1>4, <1>5, <2>1, <2>2 DEF Placed, Live
  <2>3. CASE pc'[s] = l /\ todo'[s] = <<>>
    BY <1>4, <1>5, <2>1, <2>3 DEF Placed
  <2> QED
    BY <1>5, <2>2, <2>3
<1>8. Ordered(s, own, stamp)'
  <2>1. Unread(inode', todo'[s], pos'[s]) \subseteq Unread(inode, todo[s], pos[s])
    BY <1>4, <1>5
  <2> QED
    BY <1>1, <1>4, <1>5, <1>6, <2>1, OrderedStays
<1>9. ReaderInv(s, own, stamp)'
  BY <1>7, <1>8 DEF ReaderInv
<1> QED
  BY <1>2, <1>3, <1>5, <1>6, <1>9, ReaderStep

LEMMA ReaderKeeps ==
  ASSUME LogsAssumption, NEW own, NEW stamp, LogsInv(own, stamp), NEW s \in Service, Reader(s)
  PROVE  LogsInv(own, stamp)'
BY ListFilesKeeps, OpenFilesKeeps, ReadLineKeeps, EndOfFileKeeps, StopReadingKeeps, SendLineKeeps,
   FlushBeforeFollowingKeeps, TailFileKeeps, FollowLineKeeps, FollowTruncatedKeeps, StopFollowingKeeps
DEF Reader

(* A step that leaves the readers where they are.                          *)
LEMMA ReadersRest ==
  ASSUME NEW own, NEW stamp, LogsInv(own, stamp), UNCHANGED volumeVars, Keeper',
         UNCHANGED <<pc, path, todo, pos, out, req>>, Live' => Live,
         AskTyped', SenderTyped', Control', LessSent
  PROVE  LogsInv(own, stamp)'
<1>1. VolumeTyped' /\ FileInv(own, stamp)'
  BY DEF LogsInv, VolumeTyped, Disk, FileInv, volumeVars
<1>2. RequestTyped'
  BY DEF LogsInv, RequestTyped, ReadersTyped, volumeVars
<1>3. ASSUME NEW t \in Service PROVE ReaderInv(t, own, stamp)'
  <2>1. UNCHANGED <<inode, written, req, pc[t], path[t], todo[t], pos[t], out[t]>>
    BY DEF volumeVars
  <2>2. ReaderInv(t, own, stamp)
    BY DEF LogsInv
  <2>3. InOrder(t, delivered'[t], chan', buffer'[t]) /\ Sent(t)' \subseteq Sent(t)
    BY DEF LessSent
  <2> QED
    BY <2>1, <2>2, <2>3, ReaderStays
<1> QED
  BY <1>1, <1>2, <1>3 DEF LogsInv

LEMMA WaiterKeeps ==
  ASSUME LogsAssumption, NEW own, NEW stamp, LogsInv(own, stamp), Waiter
  PROVE  LogsInv(own, stamp)'
<1>1. /\ UNCHANGED <<volumeVars, keeperVars, askVars, handler, delivered, pc, path, todo, pos, out>>
      /\ \/ /\ waiter = "wait" /\ (\A s \in Service : pc[s] = "done") /\ Flush("waiter")
            /\ waiter' = IF mu' = "waiter" THEN "wait" ELSE "closeLogs"
         \/ waiter = "closeLogs" /\ waiter' = "closeErrors" /\ UNCHANGED sendVars
         \/ waiter = "closeErrors" /\ waiter' = "done" /\ UNCHANGED sendVars
  BY DEF Waiter, StreamStays, readVars
<1>2. /\ SenderTyped' /\ SameSent /\ BuffersHeld /\ waiter' # "none"
      /\ waiter' \in {"closeLogs", "closeErrors", "done"} => \A s \in Service : pc[s] = "done" /\ buffer'[s] = <<>>
  <2>1. CASE /\ waiter = "wait" /\ (\A s \in Service : pc[s] = "done") /\ Flush("waiter")
             /\ waiter' = IF mu' = "waiter" THEN "wait" ELSE "closeLogs"
    <3>1. /\ SenderTyped' /\ SameSent /\ BuffersHeld
          /\ mu' # "waiter" => \A s \in Service : buffer'[s] = <<>>
      BY <1>1, <2>1, FlushKeeps DEF BuffersHeld
    <3> QED
      BY <2>1, <3>1
  <2>2. CASE waiter \in {"closeLogs", "closeErrors"} /\ waiter' \in {"closeErrors", "done"} /\ UNCHANGED sendVars
    BY <1>1, <2>2, QuietSender DEF LogsInv, Control, sendVars
  <2> QED
    BY <1>1, <2>1, <2>2
<1>3. waiter # "none" /\ waiter' \in {"none", "wait", "closeLogs", "closeErrors", "done"}
  BY <1>1
<1>4. AskTyped'
  BY <1>1, <1>3 DEF LogsInv, RequestTyped, AskTyped, askVars, volumeVars
<1>5. Control'
  <2>1. handler # "none"
    BY <1>3 DEF LogsInv, Control
  <2> QED
    BY <1>1, <1>2, <2>1 DEF Control, BuffersHeld
<1>6. LessSent /\ (Live' => Live) /\ UNCHANGED req
  BY <1>1, <1>2 DEF LessSent, SameSent, Live, askVars
<1>7. Keeper'
  BY <1>1 DEF LogsInv, VolumeTyped, Keeper, volumeVars, keeperVars
<1> QED
  BY <1>1, <1>2, <1>4, <1>5, <1>6, <1>7, ReadersRest

LEMMA HandlerKeeps ==
  ASSUME LogsAssumption, NEW own, NEW stamp, LogsInv(own, stamp), Handler
  PROVE  LogsInv(own, stamp)'
<1>1. CASE \E s \in Service : ReceiveError(s)
  BY <1>1, ReceiveErrorKeeps
<1>2. CASE Receive \/ SeeClientGone \/ SeeClosed
  <2>1. /\ UNCHANGED <<volumeVars, keeperVars, askVars, pc, path, todo, pos, out, waiter, buffer, keys, mu, flush>>
        /\ handler = "loop" /\ handler' \in {"loop", "gone", "end"}
        /\ \/ /\ chan # <<>> /\ chan' = Tail(chan)
              /\ delivered' = [delivered EXCEPT ![Head(chan).s] = @ \o Head(chan).lines]
           \/ chan # <<>> /\ chan' = Tail(chan) /\ UNCHANGED delivered
           \/ UNCHANGED <<chan, delivered>>
    BY <1>2 DEF Receive, SeeClientGone, SeeClosed, HandlerReturns, readVars
  <2>2. SenderTyped' /\ LessSent
    <3>1. CASE /\ chan # <<>> /\ chan' = Tail(chan)
               /\ delivered' = [delivered EXCEPT ![Head(chan).s] = @ \o Head(chan).lines]
      BY <2>1, <3>1, ReceiptKeeps DEF SameSent, LessSent
    <3>2. CASE chan # <<>> /\ chan' = Tail(chan) /\ UNCHANGED delivered
      BY <2>1, <3>2, LossKeeps
    <3>3. CASE UNCHANGED <<chan, delivered>>
      BY <2>1, <3>3, QuietSender DEF sendVars, SameSent, LessSent
    <3> QED
      BY <2>1, <3>1, <3>2, <3>3
  <2>3. Control'
    BY <2>1 DEF LogsInv, Control
  <2>4. AskTyped'
    BY <2>1 DEF LogsInv, RequestTyped, AskTyped, askVars, volumeVars
  <2>5. (Live' => Live) /\ UNCHANGED req
    BY <2>1 DEF Live, askVars
  <2>6. Keeper'
    BY <2>1 DEF LogsInv, VolumeTyped, Keeper, volumeVars, keeperVars
  <2> QED
    BY <2>1, <2>2, <2>3, <2>4, <2>5, <2>6, ReadersRest
<1> QED
  BY <1>1, <1>2 DEF Handler

LEMMA ClientLeavesKeeps ==
  ASSUME LogsAssumption, NEW own, NEW stamp, LogsInv(own, stamp), ClientLeaves
  PROVE  LogsInv(own, stamp)'
<1>1. /\ UNCHANGED <<volumeVars, swept, toRemove, maker, toMake, toForget, pc, path, todo, pos, out, req, asked>>
      /\ UNCHANGED <<sendVars, waiter, handler, delivered>> /\ client' = "left"
      /\ events < MaxEvents /\ events' = events + 1
  BY DEF ClientLeaves, Happens, readVars
<1>2. SenderTyped' /\ LessSent
  BY <1>1, QuietSender DEF SameSent, LessSent
<1>3. Control'
  BY <1>1 DEF LogsInv, Control, sendVars
<1>4. AskTyped'
  BY <1>1 DEF LogsInv, RequestTyped, AskTyped, volumeVars
<1>5. Live' => Live
  BY <1>1 DEF Live
<1>6. Keeper'
  <2>1. Keeper
    BY DEF LogsInv, VolumeTyped
  <2>2. events' \in 0..MaxEvents
    BY <1>1, <2>1 DEF Keeper, LogsAssumption
  <2> QED
    BY <1>1, <2>1, <2>2 DEF Keeper, volumeVars
<1> QED
  BY <1>1, <1>2, <1>3, <1>4, <1>5, <1>6, ReadersRest

LEMMA RequestKeeps ==
  ASSUME LogsAssumption, NEW own, NEW stamp, LogsInv(own, stamp), Request
  PROVE  LogsInv(own, stamp)'
<1>1. /\ handler = "none" /\ req' \in Requests /\ asked' = written /\ pc' = [s \in Service |-> "list"]
      /\ waiter' = "wait" /\ handler' = "loop"
      /\ UNCHANGED <<volumeVars, keeperVars, client, path, todo, pos, out, sendVars, delivered>>
  BY DEF Request, readVars
<1>2. VolumeTyped' /\ FileInv(own, stamp)'
  BY <1>1 DEF LogsInv, VolumeTyped, Disk, Keeper, FileInv, volumeVars, keeperVars
<1>3. SenderTyped' /\ SameSent /\ BuffersHeld
  BY <1>1, QuietSender
<1>4. AskTyped'
  <2>1. written \in [Service -> Nat] /\ written' = written
    BY <1>1 DEF LogsInv, VolumeTyped, Disk, volumeVars
  <2>2. asked' \in [Service -> Nat] /\ \A s \in Service : asked'[s] <= written'[s]
    BY <1>1, <2>1
  <2>3. req' \in [kind : {"rpc", "rest"}, follow : BOOLEAN, all : BOOLEAN]
    BY <1>1 DEF LogsAssumption
  <2> QED
    BY <1>1, <2>2, <2>3 DEF LogsInv, RequestTyped, AskTyped
<1>5. ReadersTyped'
  BY <1>1 DEF LogsInv, RequestTyped, ReadersTyped, Place, volumeVars
<1>6. Control'
  BY <1>1, <1>3 DEF Control, BuffersHeld
<1>7. ASSUME NEW s \in Service PROVE ReaderInv(s, own, stamp)'
  <2>1. Placed(s) /\ Ordered(s, own, stamp) /\ pc[s] = "none"
    BY <1>1 DEF LogsInv, ReaderInv, Control
  <2>2. /\ pc'[s] = "list" /\ UNCHANGED <<path[s], todo[s], pos[s], out[s], inode, written>>
        /\ InOrder(s, delivered'[s], chan', buffer'[s]) /\ Sent(s)' = Sent(s)
    BY <1>1, <1>3 DEF SameSent, volumeVars
  <2>3. Placed(s)'
    BY <2>1, <2>2 DEF Placed
  <2>4. Opened(own, s, todo'[s])
    BY <2>1, <2>2 DEF Ordered
  <2>5. Ordered(s, own, stamp)'
    BY <2>1, <2>2, <2>4, OrderedStays
  <2> QED
    BY <2>3, <2>5 DEF ReaderInv
<1> QED
  BY <1>2, <1>3, <1>4, <1>5, <1>6, <1>7 DEF LogsInv, RequestTyped

(* The volume under a request: what comes is newer than all that was read. *)
LEMMA NewLinesUnread ==
  ASSUME NEW own, NEW stamp, NEW new, NEW later, LogsInv(own, stamp), Grows(own, new, stamp, later),
         VolumeTyped', NEW s \in Service, NEW m \in Unread(inode', todo[s], pos[s])
  PROVE  m \in Unread(inode, todo[s], pos[s]) \/ written[s] < m.n
<1>1. RequestTyped /\ VolumeTyped /\ Opened(own, s, todo[s])
  BY DEF LogsInv, ReaderInv, Ordered
<1> PICK d, p : d = todo[s] /\ p = pos[s]
  OBVIOUS
<1>2. p \in Nat /\ \A k \in DOMAIN d : d[k] \in 1..Len(inode) /\ own[d[k]][1] = s
  BY <1>1, ReaderIs DEF Opened
<1>10. PICK k \in DOMAIN d : \E j \in DOMAIN inode'[d[k]] :
        inode'[d[k]][j] = m /\ (k = 1 => j > p \/ p > Len(inode'[d[k]]))
  BY DEF Unread
<1>3. PICK j \in DOMAIN inode'[d[k]] :
        inode'[d[k]][j] = m /\ (k = 1 => j > p \/ p > Len(inode'[d[k]]))
  BY <1>10
<1>4. m \in Line
  BY DEF Unread
<1> PICK i : i = d[k]
  OBVIOUS
<1>5. /\ i \in 1..Len(inode) /\ own[i][1] = s
      /\ \/ inode'[i] = inode[i] \/ inode'[i] = <<>>
         \/ \E l \in Line : written[s] < l.n /\ inode'[i] = Append(inode[i], l)
  BY <1>2 DEF Grows
<1>6. inode[i] \in Seq(Line) /\ Len(inode[i]) \in Nat /\ DOMAIN inode[i] = 1..Len(inode[i])
  BY <1>1, <1>5, VolumeIs
<1>7. CASE inode'[i] = inode[i]
  BY <1>3, <1>4, <1>7 DEF Unread
<1>8. CASE inode'[i] = <<>>
  BY <1>3, <1>8
<1>9. CASE \E l \in Line : written[s] < l.n /\ inode'[i] = Append(inode[i], l)
  <2> PICK l \in Line : written[s] < l.n /\ inode'[i] = Append(inode[i], l)
    BY <1>9
  <2> PICK q : q = Append(inode[i], l)
    OBVIOUS
  <2>1. /\ DOMAIN q = 1..(Len(inode[i]) + 1) /\ q[Len(inode[i]) + 1] = l /\ Len(q) = Len(inode[i]) + 1
        /\ \A x \in DOMAIN inode[i] : q[x] = inode[i][x]
    BY <1>6, Appending
  <2>2. j \in DOMAIN q /\ q[j] = m /\ (k = 1 => j > p \/ p > Len(q))
    BY <1>3
  <2>3. CASE j = Len(inode[i]) + 1
    BY <2>1, <2>2, <2>3
  <2>4. CASE j \in DOMAIN inode[i]
    <3>1. inode[i][j] = m /\ (k = 1 => j > p \/ p > Len(inode[i]))
      BY <1>2, <1>6, <2>1, <2>2, <2>4
    <3> QED
      BY <1>4, <2>4, <3>1 DEF Unread
  <2>5. j = Len(inode[i]) + 1 \/ j \in DOMAIN inode[i]
    BY <1>6, <2>1, <2>2
  <2> QED
    BY <2>3, <2>4, <2>5
<1> QED
  BY <1>5, <1>7, <1>8, <1>9

LEMMA Wider ==
  ASSUME NEW A, NEW B, A \subseteq B, NEW q \in Seq(A)
  PROVE  q \in Seq(B)
<1>1. Len(q) \in Nat /\ DOMAIN q = 1..Len(q) /\ q \in [1..Len(q) -> A]
  OBVIOUS
<1>2. q \in [1..Len(q) -> B]
  BY <1>1
<1> QED
  BY <1>1, <1>2

LEMMA VolumeKeeps ==
  ASSUME LogsAssumption, NEW own, NEW stamp, LogsInv(own, stamp),
         NextWeek \/ Files \/ \E s \in Service : Write(s)
  PROVE  \E new, later : LogsInv(new, later)' /\ Grows(own, new, stamp, later)
<1>1. VolumeTyped /\ FileInv(own, stamp) /\ RequestTyped /\ AskTyped /\ ReadersTyped /\ SenderTyped
  BY DEF LogsInv, RequestTyped
<1>2. UNCHANGED <<req, asked, client, pc, path, todo, pos, out, buffer, keys, mu, flush, chan, waiter, handler, delivered>>
  BY VolumeLeavesStream DEF streamVars, askVars, readVars, sendVars
<1>3. VolumeTyped'
  BY <1>1, VolumeStepKeeps
<1>4. PICK new, later : FileInv(new, later)' /\ Grows(own, new, stamp, later)
  BY <1>1, VolumeStepKeeps
<1>5. /\ Len(inode) \in Nat /\ Len(inode') \in Nat /\ Len(inode) <= Len(inode')
      /\ \A s \in Service : /\ written[s] \in Nat /\ written'[s] \in Nat /\ written[s] <= written'[s]
                            /\ asked[s] \in Nat /\ asked[s] <= written[s]
                            /\ \A n \in 1..written[s] : later[s][n] = stamp[s][n]
  <2>1. Len(inode) \in Nat /\ \A s \in Service : written[s] \in Nat
    BY <1>1, VolumeIs
  <2>2. Len(inode') \in Nat /\ \A s \in Service : written'[s] \in Nat
    BY <1>3 DEF VolumeTyped, Disk
  <2>3. \A s \in Service : asked[s] \in Nat /\ asked[s] <= written[s]
    BY <1>1 DEF AskTyped
  <2> QED
    BY <1>4, <2>1, <2>2, <2>3 DEF Grows
<1>6. AskTyped'
  BY <1>1, <1>2, <1>5 DEF AskTyped
<1>7. ReadersTyped'
  <2>1. todo \in [Service -> Seq(1..Len(inode'))]
    <3>1. 1..Len(inode) \subseteq 1..Len(inode')
      BY <1>5
    <3>2. \A s \in Service : todo[s] \in Seq(1..Len(inode'))
      BY <1>1, <3>1, Wider DEF ReadersTyped
    <3> QED
      BY <1>1, <3>2 DEF ReadersTyped
  <2> QED
    BY <1>1, <1>2, <2>1 DEF ReadersTyped
<1>8. SenderTyped' /\ Control'
  BY <1>1, <1>2 DEF SenderTyped, LogsInv, Control
<1>9. ASSUME NEW s \in Service PROVE ReaderInv(s, new, later)'
  <2>1. Placed(s) /\ Ordered(s, own, stamp)
    BY DEF LogsInv, ReaderInv
  <2>2. Sent(s)' = Sent(s) /\ (Live' <=> Live)
    BY <1>2 DEF Sent, Live
  <2>3. Placed(s)'
    BY <1>2, <2>1, <2>2 DEF Placed
  <2>4. Opened(new, s, todo[s])
    <3>1. \A k \in DOMAIN todo[s] : todo[s][k] \in 1..Len(inode)
      BY <1>1, ReaderIs
    <3>2. \A k \in DOMAIN todo[s] : new[todo[s][k]] = own[todo[s][k]]
      BY <1>4, <3>1 DEF Grows
    <3> QED
      BY <2>1, <3>2 DEF Ordered, Opened
  <2>5. \A l \in Sent(s) \cup Range(out[s]) : l \in Line /\ l.n \in 1..written[s] /\ l.week = stamp[s][l.n]
    <3>1. \A l \in Line : l.n \in Nat /\ l.n > 0
      BY DEF Line
    <3> QED
      BY <1>5, <2>1, <3>1 DEF Ordered, Known
  <2>6. \A l \in Sent(s) \cup Range(out[s]) : Known(s, l, later)'
    <3> SUFFICES ASSUME NEW l \in Sent(s) \cup Range(out[s]) PROVE Known(s, l, later)'
      OBVIOUS
    <3>1. l \in Line /\ l.n \in Nat /\ l.n <= written'[s] /\ l.week = later[s][l.n]
      BY <1>5, <2>5
    <3> QED
      BY <3>1 DEF Known
  <2>7. Before(Sent(s) \cup Range(out[s]), Unread(inode', todo[s], pos[s]))
    <3> SUFFICES ASSUME NEW l \in Sent(s) \cup Range(out[s]), NEW m \in Unread(inode', todo[s], pos[s])
                 PROVE  l.n < m.n
      BY DEF Before
    <3>1. CASE m \in Unread(inode, todo[s], pos[s])
      BY <2>1, <3>1 DEF Ordered, Before
    <3>2. CASE written[s] < m.n
      <4>1. m.n \in Nat
        BY DEF Unread, Line
      <4>2. l.n \in 1..written[s]
        BY <2>5
      <4> QED
        BY <1>5, <3>2, <4>1, <4>2
    <3> QED
      BY <1>3, <1>4, <3>1, <3>2, NewLinesUnread
  <2>8. Ordered(s, new, later)'
    BY <1>2, <2>1, <2>2, <2>4, <2>6, <2>7 DEF Ordered
  <2> QED
    BY <2>3, <2>8 DEF ReaderInv
<1>10. LogsInv(new, later)'
  BY <1>3, <1>4, <1>6, <1>7, <1>8, <1>9 DEF LogsInv, RequestTyped
<1> QED
  BY <1>4, <1>10

LEMMA StreamKeeps ==
  ASSUME LogsAssumption, NEW own, NEW stamp, LogsInv(own, stamp),
         Request \/ ClientLeaves \/ (\E s \in Service : Reader(s)) \/ Waiter \/ Handler
  PROVE  LogsInv(own, stamp)'
BY RequestKeeps, ClientLeavesKeeps, ReaderKeeps, WaiterKeeps, HandlerKeeps

LEMMA NothingKeeps ==
  ASSUME NEW own, NEW stamp, LogsInv(own, stamp), UNCHANGED vars
  PROVE  LogsInv(own, stamp)'
<1>1. UNCHANGED <<volumeVars, keeperVars, askVars, pc, path, todo, pos, out, sendVars, waiter, handler, delivered>>
  BY DEF vars, streamVars, readVars
<1>2. SenderTyped' /\ SameSent /\ BuffersHeld
  BY <1>1, QuietSender
<1>3. AskTyped'
  BY <1>1 DEF LogsInv, RequestTyped, AskTyped, askVars, volumeVars
<1>4. Control'
  BY <1>1 DEF LogsInv, Control, sendVars
<1>5. LessSent /\ (Live' => Live) /\ UNCHANGED req
  BY <1>1, <1>2 DEF LessSent, SameSent, Live, askVars
<1>6. Keeper'
  BY <1>1 DEF LogsInv, VolumeTyped, Keeper, volumeVars, keeperVars
<1> QED
  BY <1>1, <1>2, <1>3, <1>4, <1>5, <1>6, ReadersRest

LEMMA LogsStart ==
  ASSUME LogsAssumption, Init
  PROVE  \E own, stamp : LogsInv(own, stamp)
<1>1. VolumeTyped
  BY VolumeStarts
<1>2. PICK own, stamp : FileInv(own, stamp)
  BY VolumeStarts
<1>3. /\ req = [kind |-> "rpc", follow |-> FALSE, all |-> TRUE]
      /\ asked = [s \in Service |-> 0] /\ client = "there"
      /\ pc = [s \in Service |-> "none"]
      /\ path = [s \in Service |-> <<>>] /\ todo = [s \in Service |-> <<>>]
      /\ pos = [s \in Service |-> 0] /\ out = [s \in Service |-> <<>>]
      /\ buffer = [s \in Service |-> <<>>] /\ keys = {} /\ mu = "free" /\ flush = {} /\ chan = <<>>
      /\ waiter = "none" /\ handler = "none"
      /\ delivered = [s \in Service |-> <<>>]
  BY DEF Init
<1>4. AskTyped
  <2>1. asked \in [Service -> Nat] /\ \A s \in Service : asked[s] = 0
    BY <1>3
  <2>2. \A s \in Service : asked[s] <= written[s]
    BY <1>1, <2>1, VolumeIs
  <2> QED
    BY <1>3, <2>1, <2>2 DEF AskTyped
<1>5. ReadersTyped
  <2>1. <<>> \in Seq(Week) /\ <<>> \in Seq(1..Len(inode)) /\ <<>> \in Seq(Line)
    OBVIOUS
  <2> QED
    BY <1>3, <2>1 DEF ReadersTyped, Place
<1>6. SenderTyped
  <2>1. <<>> \in Seq(Batched) /\ Len(<<>>) <= ChanSize
    BY DEF LogsAssumption
  <2> QED
    BY <1>3, <2>1, NoLines DEF SenderTyped
<1>7. Control
  BY <1>3 DEF Control
<1>8. ASSUME NEW s \in Service PROVE ReaderInv(s, own, stamp)
  <2>1. /\ pc[s] = "none" /\ path[s] = <<>> /\ todo[s] = <<>> /\ pos[s] = 0 /\ out[s] = <<>> /\ handler = "none"
        /\ delivered[s] = <<>> /\ chan = <<>> /\ buffer[s] = <<>>
    BY <1>3
  <2>2. Sent(s) = {}
    BY <2>1, AllDelivered, NoLines DEF Sent
  <2>3. \A i : i \notin DOMAIN <<>>
    OBVIOUS
  <2>4. Placed(s)
    BY <2>1, <2>2, <2>3 DEF Placed, Live, Climbs
  <2>5. InOrder(s, <<>>, <<>>, <<>>)
    BY <2>3, NoLines DEF InOrder, Before
  <2>6. Ordered(s, own, stamp)
    BY <2>1, <2>2, <2>5, NoLines, NoneUnread, FS_EmptySet DEF Ordered, Before
  <2> QED
    BY <2>4, <2>6 DEF ReaderInv
<1> QED
  BY <1>1, <1>2, <1>4, <1>5, <1>6, <1>7, <1>8 DEF LogsInv, RequestTyped

-----------------------------------------------------------------------------
(* The invariant of the system, and what follows from it.                  *)
InvariantHolds == \E own, stamp : LogsInv(own, stamp)

LEMMA StepKeeps ==
  ASSUME LogsAssumption, InvariantHolds, [Next]_vars
  PROVE  InvariantHolds'
<1> PICK own, stamp : LogsInv(own, stamp)
  BY DEF InvariantHolds
<1>1. CASE NextWeek \/ Files \/ \E s \in Service : Write(s)
  BY <1>1, VolumeKeeps DEF InvariantHolds
<1>2. CASE Request \/ ClientLeaves \/ (\E s \in Service : Reader(s)) \/ Waiter \/ Handler
  BY <1>2, StreamKeeps DEF InvariantHolds
<1>3. CASE UNCHANGED vars
  BY <1>3, NothingKeeps DEF InvariantHolds
<1> QED
  BY <1>1, <1>2, <1>3 DEF Next, Quiet

LEMMA Typed ==
  ASSUME NEW own, NEW stamp, LogsInv(own, stamp)
  PROVE  TypeOK
<1>1. Disk /\ Keeper /\ VolumeTyped /\ RequestTyped /\ AskTyped /\ ReadersTyped /\ SenderTyped
  BY DEF LogsInv, VolumeTyped, RequestTyped
<1>2. swept \in 0..week
  <2>1. week \in Nat /\ week > 0 /\ swept \in {week - 1, week}
    BY <1>1, VolumeIs DEF Keeper
  <2> QED
    BY <2>1
<1>3. \A s \in Service :
        /\ pc[s] \in Place
        /\ path[s] \in Seq(Week) /\ todo[s] \in Seq(1..Len(inode)) /\ pos[s] \in Nat
        /\ out[s] \in Seq(Line) /\ buffer[s] \in Seq(Line) /\ delivered[s] \in Seq(Line)
  BY <1>1, ReaderIs
<1>4. \A s \in Service :
        /\ pc[s] \in {"open", "tail"} => path[s] # <<>>
        /\ pc[s] \in {"read", "follow", "relay"} => todo[s] # <<>>
        /\ pc[s] \in {"send", "relay"} => out[s] # <<>>
  BY DEF LogsInv, ReaderInv, Placed
<1> QED
  BY <1>1, <1>2, <1>3, <1>4 DEF TypeOK, Disk, Keeper, AskTyped, SenderTyped, Place, Work, Batched

(* Every variable holds a value of its type, with any number of requests'  *)
(* lines on their way.                                                     *)
THEOREM LogsTyped == Spec => []TypeOK
<1>1. Init => InvariantHolds
  BY LogsAssumption, LogsStart DEF InvariantHolds
<1>2. InvariantHolds /\ [Next]_vars => InvariantHolds'
  BY LogsAssumption, StepKeeps
<1>3. InvariantHolds => TypeOK
  BY Typed DEF InvariantHolds
<1> QED
  BY <1>1, <1>2, <1>3, PTL DEF Spec

(* A client gets the lines of a service in the order in which they were    *)
(* written, and none twice, whatever the retention period is, however the  *)
(* readers and the goroutine that waits for them take turns at the sender, *)
(* and though files are emptied, removed and made under them.              *)
THEOREM LinesInOrder == Spec => [](\A s \in Service : Increasing(delivered[s]))
<1>1. Init => InvariantHolds
  BY LogsAssumption, LogsStart DEF InvariantHolds
<1>2. InvariantHolds /\ [Next]_vars => InvariantHolds'
  BY LogsAssumption, StepKeeps
<1>3. InvariantHolds => \A s \in Service : Increasing(delivered[s])
  BY DEF InvariantHolds, LogsInv, ReaderInv, Ordered, InOrder
<1> QED
  BY <1>1, <1>2, <1>3, PTL DEF Spec

LEMMA SweepStarts ==
  ASSUME LogsAssumption, Init
  PROVE  SweepInv
<1>1. week = Retention /\ toRemove = {} /\ Retention \in Nat
  BY DEF Init, LogsAssumption
<1>2. ASSUME NEW s \in Service, NEW w \in Week, file[s][w] # 0 PROVE ~(w + Retention <= week)
  BY <1>1 DEF Week
<1> QED
  BY <1>1, <1>2 DEF SweepInv

(* With a retention period of more than a week, the logs beyond it are gone *)
(* after the pass of a week: the remover, which looks at one week in each   *)
(* pass, misses no file, whichever the creator and the aggregator made      *)
(* since.                                                                   *)
THEOREM LogsGoInTime ==
  ASSUME Retention > 1
  PROVE  Spec => []VolumeOK
<1> DEFINE I == InvariantHolds /\ SweepInv
<1>1. Init => I
  BY LogsAssumption, LogsStart, SweepStarts DEF InvariantHolds
<1>2. I /\ [Next]_vars => I'
  <2> SUFFICES ASSUME InvariantHolds, SweepInv, [Next]_vars PROVE InvariantHolds' /\ SweepInv'
    BY DEF I
  <2>1. VolumeTyped
    BY DEF InvariantHolds, LogsInv
  <2> QED
    BY <2>1, LogsAssumption, StepKeeps, SweepKeeps
<1>3. I => VolumeOK
  <2> SUFFICES ASSUME InvariantHolds, SweepInv PROVE VolumeOK
    BY DEF I
  <2>1. TypeOK
    BY Typed DEF InvariantHolds
  <2>2. RetentionKept
    <3> SUFFICES ASSUME alive, swept = week, toRemove = {}, NEW s \in Service, NEW w \in Week,
                        w + Retention <= week, file[s][w] # 0
                 PROVE  FALSE
      BY DEF RetentionKept, Exists
    <3>1. swept < week
      BY DEF SweepInv
    <3>2. week \in Nat
      BY <2>1 DEF TypeOK, Week
    <3> QED
      BY <3>1, <3>2
  <2> QED
    BY <2>1, <2>2 DEF VolumeOK
<1> QED
  <2> HIDE DEF I
  <2> QED
    BY <1>1, <1>2, <1>3, PTL DEF Spec

-----------------------------------------------------------------------------
(* What a request has gathered, for a client that is there: each line of   *)
(* the last two weeks that was written before it and is still to be had is *)
(* sent, held or still to be read; or lines enough come after it.          *)
Pending(s, w, i, j, l) ==
  /\ file[s][w] = i /\ w + Retention > week /\ w + 2 > week
  /\ j \in DOMAIN inode[i] /\ inode[i][j] = l /\ l.n <= asked[s]

Enough(s) == Cardinality(Sent(s)) + Len(out[s]) = NumLogLines

Held(s, w, i, j, l) ==
  \/ pc[s] = "list"
  \/ pc[s] = "open" /\ w \in Range(path[s])
  \/ l \in Sent(s) \cup Range(out[s])
  \/ \E k \in DOMAIN todo[s] : todo[s][k] = i /\ (k = 1 => j > pos[s])
  \/ ~req.all /\ Enough(s) /\ Before({l}, Range(out[s]))

Gathering == {"list", "open", "read", "send", "flush", "done"}

Gathered(s) ==
  Live /\ pc[s] \in Gathering =>
    \A w \in Week, i \in Nat \ {0}, j \in Nat, l \in Line : Pending(s, w, i, j, l) => Held(s, w, i, j, l)

Satisfied(s) ==
  handler = "end" /\ req.kind = "rpc" /\ client = "there" =>
    \/ \A w \in Week, i \in Nat \ {0}, j \in Nat, l \in Line : Pending(s, w, i, j, l) => l \in Range(delivered[s])
    \/ ~req.all /\ Len(delivered[s]) = NumLogLines

LEMMA PendingIs ==
  ASSUME LogsAssumption, NEW own, NEW stamp, LogsInv(own, stamp), NEW s \in Service, NEW w \in Week,
         NEW i \in Nat \ {0}, NEW j \in Nat, NEW l \in Line, Pending(s, w, i, j, l)
  PROVE  /\ i \in 1..Len(inode) /\ j \in DOMAIN inode[i] /\ inode[i][j] = l /\ file[s][w] = i /\ own[i] = <<s, w>>
         /\ l.n \in Nat /\ l.n > 0 /\ l.n <= written[s] /\ l.week = w /\ l.week = stamp[s][l.n]
         /\ w \in Nat /\ week \in Nat /\ w <= week /\ w + Retention > week /\ w + 2 > week /\ Retention \in Nat
<1>1. VolumeTyped /\ FileInv(own, stamp) /\ RequestTyped /\ AskTyped
  BY DEF LogsInv, RequestTyped
<1>2. file[s][w] = i /\ w + Retention > week /\ w + 2 > week /\ j \in DOMAIN inode[i] /\ inode[i][j] = l /\ l.n <= asked[s]
  BY DEF Pending
<1>3. i \in 1..Len(inode) /\ own[i] = <<s, w>> /\ week \in Nat /\ written[s] \in Nat
  <2>1. file[s][w] # 0
    BY <1>2
  <2>2. i \in 1..Len(inode) /\ week \in Nat /\ written[s] \in Nat
    BY <1>1, <1>2, <2>1, VolumeIs
  <2> QED
    BY <1>1, <1>2, <2>1, <2>2, FileIs
<1>4. own[i][1] = s /\ own[i][2] = w
  BY <1>3
<1>5. w \in Nat /\ w <= week /\ LinesAre(inode[i], s, w, stamp, written)
  BY <1>1, <1>3, <1>4, FileIs
<1>6. l.week = w /\ stamp[s][l.n] = w /\ l.n <= written[s]
  BY <1>2, <1>5 DEF LinesAre
<1>7. l.n \in Nat /\ l.n > 0
  BY DEF Line
<1> QED
  BY <1>2, <1>3, <1>5, <1>6, <1>7 DEF LogsAssumption

(* What is to be had after a step on the volume was to be had before it.   *)
LEMMA PendingBefore ==
  ASSUME LogsAssumption, NEW own, NEW stamp, NEW new, NEW later, LogsInv(own, stamp), LogsInv(new, later)',
         Grows(own, new, stamp, later), asked' = asked,
         NEW s \in Service, NEW w \in Week, NEW i \in Nat \ {0}, NEW j \in Nat, NEW l \in Line,
         Pending(s, w, i, j, l)'
  PROVE  Pending(s, w, i, j, l)
<1>1. VolumeTyped /\ FileInv(own, stamp) /\ AskTyped /\ VolumeTyped'
  BY DEF LogsInv, RequestTyped
<1>2. /\ file'[s][w] = i /\ w + Retention > week' /\ w + 2 > week' /\ j \in DOMAIN inode'[i] /\ inode'[i][j] = l
      /\ l.n <= asked[s]
  BY DEF Pending
<1>3. /\ w \in Nat /\ Retention \in Nat /\ week \in Nat /\ week' \in Nat /\ week <= week'
      /\ written[s] \in Nat /\ asked[s] \in Nat /\ asked[s] <= written[s] /\ l.n \in Nat
  <2>1. week' \in Nat
    BY <1>1 DEF VolumeTyped, Disk, Week
  <2>2. week <= week'
    BY DEF Grows
  <2> QED
    BY <1>1, <2>1, <2>2, VolumeIs DEF Week, LogsAssumption, AskTyped, Line
<1>4. ~(written[s] < l.n)
  BY <1>2, <1>3
<1>5. file[s][w] = i
  <2>1. file'[s][w] \in {0, file[s][w]} \/ \A k \in DOMAIN inode'[i] : written[s] < inode'[i][k].n
    BY <1>2 DEF Grows
  <2> QED
    BY <1>2, <1>4, <2>1
<1>6. i \in 1..Len(inode) /\ own[i] = <<s, w>> /\ inode[i] \in Seq(Line)
  <2>1. file[s][w] # 0
    BY <1>5
  <2>2. i \in 1..Len(inode)
    BY <1>1, <1>5, <2>1, VolumeIs
  <2>3. own[i] = <<s, w>>
    BY <1>1, <1>5, <2>1, FileIs
  <2> QED
    BY <1>1, <2>2, <2>3, VolumeIs
<1>7. own[i][1] = s
  BY <1>6
<1>8. \/ inode'[i] = inode[i] \/ inode'[i] = <<>>
      \/ \E m \in Line : written[s] < m.n /\ inode'[i] = Append(inode[i], m)
  BY <1>6, <1>7 DEF Grows
<1>9. j \in DOMAIN inode[i] /\ inode[i][j] = l
  <2>1. CASE inode'[i] = inode[i]
    BY <1>2, <2>1
  <2>2. CASE inode'[i] = <<>>
    BY <1>2, <2>2
  <2>3. CASE \E m \in Line : written[s] < m.n /\ inode'[i] = Append(inode[i], m)
    <3> PICK m \in Line : written[s] < m.n /\ inode'[i] = Append(inode[i], m)
      BY <2>3
    <3> PICK q : q = Append(inode[i], m)
      OBVIOUS
    <3>1. /\ DOMAIN q = 1..(Len(inode[i]) + 1) /\ q[Len(inode[i]) + 1] = m
          /\ \A x \in DOMAIN inode[i] : q[x] = inode[i][x]
          /\ DOMAIN inode[i] = 1..Len(inode[i]) /\ Len(inode[i]) \in Nat
      BY <1>6, Appending
    <3>2. j \in DOMAIN q /\ q[j] = l
      BY <1>2
    <3>3. j # Len(inode[i]) + 1
      BY <1>4, <3>1, <3>2
    <3> QED
      BY <3>1, <3>2, <3>3
  <2> QED
    BY <1>8, <2>1, <2>2, <2>3
<1>10. w + Retention > week /\ w + 2 > week
  BY <1>2, <1>3
<1> QED
  BY <1>2, <1>5, <1>9, <1>10 DEF Pending

PendingSame(s) ==
  \A w \in Week, i \in Nat \ {0}, j \in Nat, l \in Line : Pending(s, w, i, j, l)' => Pending(s, w, i, j, l)

LEMMA GatheredStays ==
  ASSUME NEW s \in Service, Gathered(s), PendingSame(s), Live' => Live, Live' => Sent(s)' = Sent(s),
         UNCHANGED <<pc[s], path[s], todo[s], pos[s], out[s], req>>
  PROVE  Gathered(s)'
<1> SUFFICES ASSUME Live', pc'[s] \in Gathering, NEW w \in Week, NEW i \in Nat \ {0}, NEW j \in Nat, NEW l \in Line,
                    Pending(s, w, i, j, l)'
             PROVE  Held(s, w, i, j, l)'
  BY DEF Gathered
<1>1. Held(s, w, i, j, l)
  BY DEF Gathered, PendingSame
<1> QED
  BY <1>1 DEF Held, Enough

LEMMA SatisfiedStays ==
  ASSUME NEW s \in Service, Satisfied(s), PendingSame(s), handler' = "end" => handler = "end",
         UNCHANGED <<req, client, delivered[s]>>
  PROVE  Satisfied(s)'
BY DEF Satisfied, PendingSame

LEMMA PendingRests ==
  ASSUME NEW s, UNCHANGED <<volumeVars, asked>>
  PROVE  PendingSame(s)
BY DEF PendingSame, Pending, volumeVars

(* A reader's step, for the other readers.                                 *)
LEMMA OthersStay ==
  ASSUME LogsAssumption, NEW own, NEW stamp, LogsInv(own, stamp), NEW s \in Service, Reader(s)
  PROVE  /\ UNCHANGED <<volumeVars, askVars, handler, delivered>> /\ OthersRest(s)
         /\ \A t \in Service : t # s => Sent(t)' = Sent(t)
<1>1. RequestTyped /\ ReadersTyped /\ Placed(s) /\ Ordered(s, own, stamp)
  BY DEF LogsInv, RequestTyped, ReaderInv
<1>2. UNCHANGED <<volumeVars, askVars, handler, delivered>>
  BY DEF Reader, ListFiles, OpenFiles, ReadLine, EndOfFile, StopReading, SendLine, FlushBeforeFollowing, TailFile,
         FollowLine, FollowTruncated, StopFollowing, OutsideReader, StreamStays
<1>3. OthersRest(s)
  <2>1. CASE ListFiles(s) \/ OpenFiles(s) \/ EndOfFile(s) \/ StopReading(s)
    BY <1>1, <2>1 DEF OthersRest, ReadersTyped, ListFiles, OpenFiles, EndOfFile, StopReading, Goto, readVars
  <2>2. CASE ReadLine(s)
    BY <1>1, <2>2 DEF OthersRest, ReadersTyped, ReadLine, Goto
  <2>3. CASE SendLine(s) \/ FlushBeforeFollowing(s)
    BY <1>1, <2>3 DEF OthersRest, ReadersTyped, SendLine, FlushBeforeFollowing, Finish, Goto, readVars
  <2>4. CASE TailFile(s) \/ FollowLine(s) \/ FollowTruncated(s) \/ StopFollowing(s)
    BY <1>1, <2>4 DEF OthersRest, ReadersTyped, TailFile, FollowLine, FollowTruncated, StopFollowing, Finish, Goto
  <2> QED
    BY <2>1, <2>2, <2>3, <2>4 DEF Reader
<1>4. ASSUME NEW t \in Service, t # s PROVE Sent(t)' = Sent(t)
  <2>1. CASE UNCHANGED sendVars
    BY <1>2, <2>1, QuietSender DEF SameSent
  <2>2. CASE SendLine(s)
    <3> PICK l : l = Head(out[s])
      OBVIOUS
    <3>1. Send(s, l) \/ UNCHANGED sendVars
      BY <2>2 DEF SendLine
    <3>2. l \in Line /\ Before(Sent(s), {l})
      <4>1. out[s] \in Seq(Line) /\ out[s] # <<>>
        BY <1>1, <2>2, ReaderIs DEF Placed, SendLine
      <4>2. l \in Line /\ l \in Range(out[s])
        BY <4>1, HeadFirst
      <4> QED
        BY <1>1, <4>2 DEF Ordered, Before
    <3>3. CASE Send(s, l)
      BY <1>2, <1>4, <3>2, <3>3, SendKeeps
    <3> QED
      BY <2>1, <3>1, <3>3
  <2>3. CASE FlushBeforeFollowing(s)
    BY <1>2, <2>3, FlushKeeps DEF FlushBeforeFollowing, SameSent
  <2> QED
    BY <2>1, <2>2, <2>3 DEF Reader, ListFiles, OpenFiles, ReadLine, EndOfFile, StopReading, TailFile,
       FollowLine, FollowTruncated, StopFollowing, OutsideReader
<1> QED
  BY <1>2, <1>3, <1>4

(* The files of the last two weeks are found, when the period has them.    *)
LEMMA AllFound ==
  ASSUME LogsAssumption, VolumeTyped, NEW s \in Service, NEW w \in Week, file[s][w] # 0,
         w <= week, w + Retention > week, w + 2 > week
  PROVE  w \in Found(s)
<1>1. w \in Nat /\ week \in Nat /\ week \in Week /\ Retention \in Nat /\ w \in Week /\ LastWeek \in Nat
  BY VolumeIs DEF LogsAssumption, Week
<1>2. Exists(s, w)
  BY DEF Exists
<1>3. CASE w = week
  <2>1. week \in w..week /\ (\A x \in w..week : x = w) /\ \A x \in (week + 1)..week : FALSE
    BY <1>1, <1>3
  <2> QED
    BY <1>2, <2>1 DEF Found
<1>4. CASE w + 1 = week
  <2>1. w \in w..week /\ week \in w..week /\ \A x \in w..week : x = w \/ x = week
    BY <1>1, <1>4
  <2>2. CASE Exists(s, week)
    <3>1. (\A x \in w..week : Exists(s, x)) /\ \A x \in (week + 1)..week : ~Exists(s, x)
      BY <1>1, <1>2, <2>1, <2>2
    <3> QED
      BY <2>1, <3>1 DEF Found
  <2>3. CASE ~Exists(s, week)
    <3>1. (\A x \in w..w : Exists(s, x)) /\ \A x \in (w + 1)..week : ~Exists(s, x)
      BY <1>1, <1>2, <1>4, <2>3
    <3> QED
      BY <2>1, <3>1 DEF Found
  <2> QED
    BY <2>2, <2>3
<1> QED
  BY <1>1, <1>3, <1>4

LEMMA ListFilesGathers ==
  ASSUME LogsAssumption, NEW own, NEW stamp, LogsInv(own, stamp), NEW s \in Service, ListFiles(s)
  PROVE  Gathered(s)'
<1>1. VolumeTyped /\ ReadersTyped
  BY DEF LogsInv, RequestTyped
<1> PICK p : p = LogFilePaths(s)
  OBVIOUS
<1>2. /\ path' = [path EXCEPT ![s] = p] /\ UNCHANGED <<volumeVars, askVars>>
      /\ pc' = [pc EXCEPT ![s] = IF Found(s) = {} THEN "fail" ELSE "open"]
  BY DEF ListFiles, OutsideReader, StreamStays, Goto
<1>3. path'[s] = p /\ pc'[s] \in {"open", "fail"} /\ Range(p) = Found(s)
  BY <1>1, <1>2, PathsFound DEF ReadersTyped
<1> SUFFICES ASSUME pc'[s] \in Gathering, NEW w \in Week, NEW i \in Nat \ {0}, NEW j \in Nat, NEW l \in Line,
                    Pending(s, w, i, j, l)'
             PROVE  Held(s, w, i, j, l)'
  BY DEF Gathered
<1>4. Pending(s, w, i, j, l)
  BY <1>2, PendingRests DEF PendingSame, askVars
<1>5. file[s][w] # 0 /\ w <= week /\ w + Retention > week /\ w + 2 > week
  BY <1>4, PendingIs
<1>6. w \in Range(path'[s])
  BY <1>1, <1>3, <1>5, AllFound
<1>7. pc'[s] = "open"
  BY <1>3 DEF Gathering
<1> QED
  BY <1>6, <1>7 DEF Held

LEMMA OpenFilesGathers ==
  ASSUME LogsAssumption, NEW own, NEW stamp, LogsInv(own, stamp), NEW s \in Service, Gathered(s), OpenFiles(s)
  PROVE  Gathered(s)'
<1>1. ReadersTyped /\ Placed(s) /\ RequestTyped
  BY DEF LogsInv, RequestTyped, ReaderInv
<1>2. /\ pc[s] = "open" /\ UNCHANGED <<path, pos, out>>
      /\ UNCHANGED <<volumeVars, askVars, handler, delivered, sendVars>>
  BY DEF OpenFiles, OutsideReader, StreamStays
<1>3. Sent(s)' = Sent(s) /\ pos[s] = 0 /\ todo[s] = <<>>
  BY <1>1, <1>2 DEF Sent, sendVars, Placed
<1>4. CASE pc' = [pc EXCEPT ![s] = "fail"] /\ UNCHANGED todo
  BY <1>1, <1>4 DEF ReadersTyped, Gathered, Gathering
<1>5. CASE /\ todo' = [todo EXCEPT ![s] = [k \in DOMAIN path[s] |-> file[s][path[s][k]]]]
           /\ pc' = [pc EXCEPT ![s] = "read"]
  <2> PICK d : d = [k \in DOMAIN path[s] |-> file[s][path[s][k]]]
    OBVIOUS
  <2>1. todo'[s] = d /\ DOMAIN d = DOMAIN path[s] /\ \A k \in DOMAIN d : d[k] = file[s][path[s][k]]
    BY <1>1, <1>5 DEF ReadersTyped
  <2> SUFFICES ASSUME Live', NEW w \in Week, NEW i \in Nat \ {0}, NEW j \in Nat, NEW l \in Line,
                      Pending(s, w, i, j, l)'
               PROVE  Held(s, w, i, j, l)'
    BY DEF Gathered
  <2>2. Pending(s, w, i, j, l) /\ Live
    BY <1>2, PendingRests DEF PendingSame, askVars, Live
  <2>3. Held(s, w, i, j, l)
    BY <1>2, <2>2 DEF Gathered, Gathering
  <2>4. i \in 1..Len(inode) /\ j \in DOMAIN inode[i] /\ file[s][w] = i
    BY <2>2, PendingIs
  <2>5. CASE w \in Range(path[s])
    <3>1. PICK k \in DOMAIN d : path[s][k] = w
      BY <2>1, <2>5 DEF Range
    <3>2. d[k] = i
      BY <2>1, <2>4, <3>1
    <3>3. j > pos'[s]
      <4>1. VolumeTyped
        BY DEF LogsInv
      <4>2. j > 0
        BY <2>4, <4>1, VolumeIs
      <4> QED
        BY <1>2, <1>3, <4>2
    <3> QED
      BY <2>1, <3>2, <3>3 DEF Held
  <2>6. CASE l \in Sent(s) \cup Range(out[s])
    BY <1>2, <1>3, <2>6 DEF Held
  <2>7. CASE ~req.all /\ Enough(s) /\ Before({l}, Range(out[s]))
    BY <1>2, <1>3, <2>7 DEF Held, Enough, askVars
  <2>8. \A k : k \notin DOMAIN todo[s]
    BY <1>3
  <2> QED
    BY <1>2, <2>3, <2>5, <2>6, <2>7, <2>8 DEF Held
<1> QED
  BY <1>4, <1>5 DEF OpenFiles, Goto

(* The lines kept of those read: all, or the last ones.                    *)
LEMMA LinesKeptLast ==
  ASSUME LogsAssumption, NEW q \in Seq(Line), Increasing(q), NEW most, most = NumLogLines, Len(q) <= most + 1,
         NEW l \in Range(q), l \notin Range(KeepLast(q))
  PROVE  Len(KeepLast(q)) = NumLogLines /\ Before({l}, Range(KeepLast(q)))
<1>0. NumLogLines \in Nat /\ Len(q) \in Nat
  BY LinesAt DEF LogsAssumption
<1>1. Len(q) > NumLogLines /\ KeepLast(q) = Tail(q)
  BY <1>0 DEF KeepLast
<1>2. q # <<>>
  BY <1>0, <1>1
<1> PICK h, t : h = Head(q) /\ t = Tail(q)
  OBVIOUS
<1>3. Len(t) = Len(q) - 1 /\ Range(q) = {h} \cup Range(t) /\ Before({h}, Range(t))
  BY <1>2, HeadFirst
<1>4. l = h
  BY <1>1, <1>3
<1> QED
  BY <1>0, <1>1, <1>3, <1>4

LEMMA ReadLineGathers ==
  ASSUME LogsAssumption, NEW own, NEW stamp, LogsInv(own, stamp), NEW s \in Service, Gathered(s), ReadLine(s)
  PROVE  Gathered(s)'
<1>1. RequestTyped /\ ReadersTyped /\ VolumeTyped /\ Placed(s) /\ Ordered(s, own, stamp)
  BY DEF LogsInv, RequestTyped, ReaderInv
<1> PICK m : m = inode[Head(todo[s])][pos[s] + 1]
  OBVIOUS
<1>2. /\ pc[s] = "read" /\ UNCHANGED <<path, todo>> /\ pos' = [pos EXCEPT ![s] = @ + 1]
      /\ pos[s] < Len(inode[Head(todo[s])])
      /\ UNCHANGED <<volumeVars, askVars, handler, delivered, sendVars>>
      /\ IF req.all
         THEN out' = [out EXCEPT ![s] = <<m>>]
         ELSE out' = [out EXCEPT ![s] = KeepLast(Append(@, m))]
  BY DEF ReadLine, OutsideReader, StreamStays, Goto
<1>3. /\ Sent(s)' = Sent(s) /\ todo[s] # <<>> /\ pos[s] \in Nat /\ todo'[s] = todo[s] /\ pos'[s] = pos[s] + 1
      /\ UNCHANGED req
  BY <1>1, <1>2 DEF Sent, sendVars, Placed, ReadersTyped, askVars
<1>4. m \in Line /\ m \in Unread(inode, todo[s], pos[s])
  BY <1>2, <1>3, NextLine
<1> SUFFICES ASSUME Live', NEW w \in Week, NEW i \in Nat \ {0}, NEW j \in Nat, NEW l \in Line,
                    Pending(s, w, i, j, l)'
             PROVE  Held(s, w, i, j, l)'
  BY DEF Gathered
<1>5. Pending(s, w, i, j, l) /\ Live
  BY <1>2, PendingRests DEF PendingSame, askVars, Live
<1>6. /\ \/ l \in Sent(s) \cup Range(out[s])
         \/ \E k \in DOMAIN todo[s] : todo[s][k] = i /\ (k = 1 => j > pos[s])
         \/ ~req.all /\ Enough(s) /\ Before({l}, Range(out[s]))
  BY <1>2, <1>5 DEF Gathered, Gathering, Held
<1>7. (\E k \in DOMAIN todo[s] : todo[s][k] = i /\ (k = 1 => j > pos[s])) => l = m \/ Held(s, w, i, j, l)'
  <2> SUFFICES ASSUME NEW k \in DOMAIN todo[s], todo[s][k] = i, k = 1 => j > pos[s]
               PROVE  l = m \/ Held(s, w, i, j, l)'
    OBVIOUS
  <2>1. j \in Nat /\ pos[s] \in Nat /\ inode[i][j] = l
    BY <1>3, <1>5, PendingIs
  <2>2. CASE k # 1 \/ j > pos[s] + 1
    BY <1>3, <2>2 DEF Held
  <2>3. CASE k = 1 /\ j = pos[s] + 1
    <3>1. Head(todo[s]) = todo[s][1]
      BY <1>1, <1>3, ReaderIs
    <3> QED
      BY <2>1, <2>3, <3>1
  <2> QED
    BY <2>1, <2>2, <2>3
<1>8. CASE req.all
  <2>1. out'[s] = <<m>> /\ out[s] = <<>>
    BY <1>1, <1>2, <1>8 DEF ReadersTyped, Placed
  <2>2. Range(out'[s]) = {m} /\ Range(out[s]) = {}
    BY <1>4, <2>1, OneLine, NoLines
  <2>3. l \in Sent(s) \/ l = m => Held(s, w, i, j, l)'
    BY <1>3, <2>2 DEF Held
  <2> QED
    BY <1>6, <1>7, <1>8, <2>2, <2>3
<1>9. CASE ~req.all
  <2> PICK q : q = Append(out[s], m)
    OBVIOUS
  <2> PICK o : o = KeepLast(q)
    OBVIOUS
  <2>1. /\ out[s] \in Seq(Line) /\ Increasing(out[s]) /\ Before(Range(out[s]), {m})
        /\ Len(out[s]) \in Nat /\ Len(out[s]) <= NumLogLines /\ NumLogLines \in Nat
    BY <1>1, <1>2, <1>4, <1>9, ReaderIs, LinesAt DEF Ordered, Before, Placed, LogsAssumption
  <2>2. /\ q \in Seq(Line) /\ Len(q) = Len(out[s]) + 1 /\ Range(q) = Range(out[s]) \cup {m} /\ Increasing(q)
    BY <1>4, <2>1, Appending, RangeAppended, Appended
  <2>3. out'[s] = o /\ Cardinality(Sent(s)') = 0 /\ o \in Seq(Line) /\ Len(o) \in Nat /\ Range(o) \subseteq Range(q)
    <3>1. Sent(s) = {}
      BY <1>1, <1>2, <1>9 DEF Placed
    <3>2. Len(q) <= NumLogLines + 1
      BY <2>1, <2>2
    <3>3. o \in Seq(Line) /\ Range(o) \subseteq Range(q)
      BY <2>2, <3>2, KeptLast
    <3>4. out'[s] = o
      BY <1>1, <1>2, <1>9 DEF ReadersTyped
    <3> QED
      BY <1>3, <3>1, <3>3, <3>4, FS_EmptySet, LinesAt
  <2>4. Len(o) = NumLogLines /\ Before({l}, Range(o)) => Held(s, w, i, j, l)'
    BY <1>3, <1>9, <2>1, <2>3 DEF Held, Enough
  <2>5. l \in Range(o) => Held(s, w, i, j, l)'
    BY <2>3 DEF Held
  <2>6. l \in Range(q) => Held(s, w, i, j, l)'
    <3>1. Len(q) <= NumLogLines + 1
      BY <2>1, <2>2
    <3> QED
      BY <2>2, <2>4, <2>5, <3>1, LinesKeptLast
  <2>7. Enough(s) /\ Before({l}, Range(out[s])) => Held(s, w, i, j, l)'
    <3> SUFFICES ASSUME Enough(s), Before({l}, Range(out[s]))
                 PROVE  Len(o) = NumLogLines /\ Before({l}, Range(o))
      BY <2>4
    <3>1. Len(out[s]) = NumLogLines
      BY <1>3, <2>1, <2>3 DEF Enough
    <3>2. o = Tail(q) /\ q # <<>>
      BY <2>1, <2>2, <3>1 DEF KeepLast
    <3>3. Len(o) = NumLogLines
      <4>1. Len(Tail(q)) = Len(q) - 1
        BY <2>2, <3>2, HeadFirst
      <4> QED
        BY <2>1, <2>2, <3>1, <3>2, <4>1
    <3>4. l.n \in Nat /\ m.n \in Nat /\ \A x \in Range(out[s]) : x.n \in Nat
      <4>1. \A x \in Line : x.n \in Nat
        BY DEF Line
      <4> QED
        BY <1>4, <2>1, <4>1, RangeOf
    <3>5. out[s] # <<>> => l.n < m.n
      <4> SUFFICES ASSUME out[s] # <<>> PROVE l.n < m.n
        OBVIOUS
      <4> PICK h : h = Head(out[s])
        OBVIOUS
      <4>1. h \in Range(out[s])
        BY <2>1, HeadFirst
      <4>2. l.n < h.n /\ h.n < m.n
        BY <2>1, <4>1 DEF Before
      <4> QED
        BY <3>4, <4>1, <4>2
    <3>6. out[s] = <<>> => Range(o) = {}
      <4> SUFFICES ASSUME out[s] = <<>> PROVE Range(o) = {}
        OBVIOUS
      <4>1. Len(o) = 0
        BY <3>1, <3>3
      <4> QED
        BY <2>3, <4>1, LinesAt DEF Range
    <3>7. ASSUME NEW x \in Range(o) PROVE l.n < x.n
      <4>1. x \in Range(out[s]) \/ x = m
        BY <2>2, <2>3
      <4>2. out[s] # <<>>
        BY <3>6, <3>7
      <4> QED
        BY <3>5, <4>1, <4>2 DEF Before
    <3> QED
      BY <3>3, <3>7 DEF Before
  <2>8. l \notin Sent(s)
    BY <1>1, <1>2, <1>9 DEF Placed
  <2>9. l \in Range(out[s]) \/ l = m => l \in Range(q)
    BY <2>2
  <2> QED
    BY <1>6, <1>7, <2>6, <2>7, <2>8, <2>9
<1> QED
  BY <1>8, <1>9

LEMMA EndOfFileGathers ==
  ASSUME LogsAssumption, NEW own, NEW stamp, LogsInv(own, stamp), NEW s \in Service, Gathered(s), EndOfFile(s)
  PROVE  Gathered(s)'
<1>1. RequestTyped /\ ReadersTyped /\ VolumeTyped /\ Placed(s)
  BY DEF LogsInv, RequestTyped, ReaderInv
<1>2. /\ pc[s] = "read" /\ UNCHANGED <<path, out>> /\ todo' = [todo EXCEPT ![s] = Tail(@)] /\ pos' = [pos EXCEPT ![s] = 0]
      /\ pos[s] >= Len(inode[Head(todo[s])])
      /\ UNCHANGED <<volumeVars, askVars, handler, delivered, sendVars>>
  BY DEF EndOfFile, OutsideReader, StreamStays
<1> PICK d, t : d = todo[s] /\ t = Tail(todo[s])
  OBVIOUS
<1>3. /\ Sent(s)' = Sent(s) /\ pos[s] \in Nat /\ todo'[s] = t /\ pos'[s] = 0 /\ UNCHANGED req
      /\ d \in Seq(1..Len(inode)) /\ d # <<>>
  BY <1>1, <1>2 DEF Sent, sendVars, Placed, ReadersTyped, askVars
<1>4. /\ Head(d) = d[1] /\ DOMAIN d = 1..Len(d) /\ Len(d) \in Nat /\ DOMAIN t = 1..(Len(d) - 1)
      /\ \A k \in DOMAIN t : t[k] = d[k + 1]
  BY <1>3
<1> SUFFICES ASSUME Live', NEW w \in Week, NEW i \in Nat \ {0}, NEW j \in Nat, NEW l \in Line,
                    Pending(s, w, i, j, l)'
             PROVE  Held(s, w, i, j, l)'
  BY DEF Gathered
<1>5. Pending(s, w, i, j, l) /\ Live
  BY <1>2, PendingRests DEF PendingSame, askVars, Live
<1>6. \/ l \in Sent(s) \cup Range(out[s])
      \/ \E k \in DOMAIN d : d[k] = i /\ (k = 1 => j > pos[s])
      \/ ~req.all /\ Enough(s) /\ Before({l}, Range(out[s]))
  BY <1>2, <1>5 DEF Gathered, Gathering, Held
<1>7. CASE \E k \in DOMAIN d : d[k] = i /\ (k = 1 => j > pos[s])
  <2> PICK k \in DOMAIN d : d[k] = i /\ (k = 1 => j > pos[s])
    BY <1>7
  <2>1. i \in 1..Len(inode) /\ j \in DOMAIN inode[i]
    BY <1>5, PendingIs
  <2>2. j \in 1..Len(inode[i]) /\ Len(inode[i]) \in Nat
    BY <1>1, <2>1, VolumeIs
  <2>3. k # 1
    BY <1>2, <1>3, <1>4, <2>2
  <2>4. k - 1 \in DOMAIN t /\ t[k - 1] = i /\ j > 0
    <3>1. k - 1 \in DOMAIN t /\ k - 1 + 1 = k
      BY <1>4, <2>3
    <3> QED
      BY <1>4, <2>2, <3>1
  <2> QED
    BY <1>3, <2>4 DEF Held
<1>8. CASE l \in Sent(s) \cup Range(out[s])
  BY <1>2, <1>3, <1>8 DEF Held
<1>9. CASE ~req.all /\ Enough(s) /\ Before({l}, Range(out[s]))
  BY <1>2, <1>3, <1>9 DEF Held, Enough
<1> QED
  BY <1>6, <1>7, <1>8, <1>9

(* A line that has left the period is dropped; so had those before it.     *)
LEMMA SendLineGathers ==
  ASSUME LogsAssumption, NEW own, NEW stamp, LogsInv(own, stamp), NEW s \in Service, Gathered(s), SendLine(s)
  PROVE  Gathered(s)'
<1>1. RequestTyped /\ ReadersTyped /\ VolumeTyped /\ Placed(s) /\ Ordered(s, own, stamp) /\ FileInv(own, stamp)
  BY DEF LogsInv, RequestTyped, ReaderInv
<1> PICK m, t : m = Head(out[s]) /\ t = Tail(out[s])
  OBVIOUS
<1> PICK to : to = AfterSend(s)
  OBVIOUS
<1>2. /\ pc[s] \in {"send", "relay"} /\ UNCHANGED <<path, todo, pos>> /\ out' = [out EXCEPT ![s] = t]
      /\ UNCHANGED <<volumeVars, askVars, handler, delivered>>
      /\ Send(s, m) \/ (m.week + Retention <= week /\ UNCHANGED sendVars)
      /\ pc' = [pc EXCEPT ![s] = to]
  BY DEF SendLine, StreamStays, Goto, readVars
<1>3. /\ m \in Line /\ t \in Seq(Line) /\ Len(t) = Len(out[s]) - 1 /\ Len(out[s]) \in Nat /\ Len(t) \in Nat
      /\ Range(out[s]) = {m} \cup Range(t) /\ Before({m}, Range(t))
  <2>1. out[s] \in Seq(Line) /\ out[s] # <<>> /\ Increasing(out[s])
    BY <1>1, <1>2, ReaderIs DEF Placed, Ordered
  <2> QED
    BY <2>1, HeadFirst, LinesAt
<1>4. Before(Sent(s), {m}) /\ m \notin Sent(s) /\ Known(s, m, stamp) /\ IsFiniteSet(Sent(s))
  <2>1. Before(Sent(s), {m}) /\ Known(s, m, stamp) /\ IsFiniteSet(Sent(s))
    BY <1>1, <1>3 DEF Ordered, Before
  <2>2. m.n \in Nat
    BY <1>3 DEF Line
  <2> QED
    BY <2>1, <2>2 DEF Before
<1>5. out'[s] = t /\ pc'[s] = to /\ UNCHANGED req
  BY <1>1, <1>2 DEF ReadersTyped, askVars
<1> SUFFICES ASSUME Live', pc'[s] \in Gathering,
                    NEW w \in Week, NEW i \in Nat \ {0}, NEW j \in Nat, NEW l \in Line, Pending(s, w, i, j, l)'
             PROVE  Held(s, w, i, j, l)'
  BY DEF Gathered
<1>6. pc[s] = "send"
  BY <1>2, <1>5 DEF AfterSend, Gathering
<1>7. Pending(s, w, i, j, l) /\ Live
  BY <1>2, PendingRests DEF PendingSame, askVars, Live
<1>8. \/ l \in Sent(s) \cup Range(out[s])
      \/ \E k \in DOMAIN todo[s] : todo[s][k] = i /\ (k = 1 => j > pos[s])
      \/ ~req.all /\ Enough(s) /\ Before({l}, Range(out[s]))
  BY <1>6, <1>7 DEF Gathered, Gathering, Held
<1>9. CASE \E k \in DOMAIN todo[s] : todo[s][k] = i /\ (k = 1 => j > pos[s])
  BY <1>2, <1>9 DEF Held
<1>10. CASE Send(s, m)
  <2>1. Sent(s)' = Sent(s) \cup {m}
    BY <1>2, <1>3, <1>4, <1>10, SendKeeps
  <2>2. CASE l \in Sent(s) \cup Range(out[s])
    BY <1>3, <1>5, <2>1, <2>2 DEF Held
  <2>3. CASE ~req.all /\ Enough(s) /\ Before({l}, Range(out[s]))
    <3>1. Cardinality(Sent(s)') = Cardinality(Sent(s)) + 1 /\ Cardinality(Sent(s)) \in Nat
      BY <1>4, <2>1, FS_AddElement, FS_CardinalityType
    <3>2. Enough(s)'
      BY <1>3, <1>5, <2>3, <3>1 DEF Enough
    <3>3. Before({l}, Range(out'[s]))
      BY <1>3, <1>5, <2>3 DEF Before
    <3> QED
      BY <1>5, <2>3, <3>2, <3>3 DEF Held
  <2> QED
    BY <1>8, <1>9, <2>2, <2>3
<1>11. CASE m.week + Retention <= week /\ UNCHANGED sendVars
  <2>1. Sent(s)' = Sent(s)
    BY <1>2, <1>11 DEF Sent, sendVars
  <2>2. /\ l.n \in Nat /\ l.n > 0 /\ l.n <= written[s] /\ l.week = w /\ l.week = stamp[s][l.n]
        /\ w \in Nat /\ week \in Nat /\ w + Retention > week /\ Retention \in Nat
    BY <1>7, PendingIs
  <2>3. l # m
    BY <1>11, <2>2
  <2>4. CASE l \in Sent(s) \cup Range(out[s])
    BY <1>3, <1>5, <2>1, <2>3, <2>4 DEF Held
  <2>5. ~Before({l}, Range(out[s]))
    <3> SUFFICES ASSUME Before({l}, Range(out[s])) PROVE FALSE
      OBVIOUS
    <3>1. m.n \in Nat /\ m.n <= written[s] /\ m.week = stamp[s][m.n] /\ written[s] \in Nat /\ m.week \in Nat
      BY <1>1, <1>3, <1>4, VolumeIs DEF Known, Line, Week
    <3>2. l.n < m.n
      BY <1>3 DEF Before
    <3>3. l.n \in 1..written[s] /\ m.n \in 1..written[s] /\ l.n <= m.n
      BY <2>2, <3>1, <3>2
    <3>4. stamp[s][l.n] <= stamp[s][m.n]
      BY <1>1, <3>3, FileIs
    <3> QED
      BY <1>11, <2>2, <3>1, <3>4
  <2> QED
    BY <1>8, <1>9, <2>4, <2>5
<1> QED
  BY <1>2, <1>10, <1>11

LEMMA FlushGathers ==
  ASSUME LogsAssumption, NEW own, NEW stamp, LogsInv(own, stamp), NEW s \in Service, Gathered(s),
         FlushBeforeFollowing(s)
  PROVE  Gathered(s)'
<1>1. RequestTyped /\ ReadersTyped /\ Placed(s)
  BY DEF LogsInv, RequestTyped, ReaderInv
<1>2. /\ pc[s] = "flush" /\ Flush(s) /\ UNCHANGED <<path, out>>
      /\ UNCHANGED <<volumeVars, askVars, handler, delivered>>
      /\ UNCHANGED <<todo, pos>> \/ todo' = [todo EXCEPT ![s] = <<>>]
  BY DEF FlushBeforeFollowing, StreamStays, Finish, readVars
<1>3. Sent(s)' = Sent(s) /\ UNCHANGED req
  BY <1>2, FlushKeeps DEF SameSent, askVars
<1> SUFFICES ASSUME Live', NEW w \in Week, NEW i \in Nat \ {0}, NEW j \in Nat, NEW l \in Line,
                    Pending(s, w, i, j, l)'
             PROVE  Held(s, w, i, j, l)'
  BY DEF Gathered
<1>4. Pending(s, w, i, j, l) /\ Live
  BY <1>2, PendingRests DEF PendingSame, askVars, Live
<1>5. \A k : k \notin DOMAIN todo[s]
  BY <1>1, <1>2, <1>4 DEF Placed
<1>6. \/ l \in Sent(s) \cup Range(out[s])
      \/ ~req.all /\ Enough(s) /\ Before({l}, Range(out[s]))
  BY <1>2, <1>4, <1>5 DEF Gathered, Gathering, Held
<1> QED
  BY <1>2, <1>3, <1>6 DEF Held, Enough

LEMMA ReaderGathers ==
  ASSUME LogsAssumption, NEW own, NEW stamp, LogsInv(own, stamp), NEW s \in Service, Gathered(s), Reader(s)
  PROVE  Gathered(s)'
<1>1. CASE StopReading(s) \/ StopFollowing(s)
  <2>1. pc[s] # "done" /\ ctxDone /\ UNCHANGED <<askVars, handler>>
    BY <1>1 DEF StopReading, StopFollowing, OutsideReader, StreamStays
  <2> QED
    BY <2>1, Canceled DEF Gathered
<1>2. CASE TailFile(s) \/ FollowLine(s) \/ FollowTruncated(s)
  <2>1. ReadersTyped
    BY DEF LogsInv, RequestTyped
  <2>2. pc'[s] \in {"follow", "fail", "relay"}
    BY <1>2, <2>1 DEF TailFile, FollowLine, FollowTruncated, Goto, ReadersTyped
  <2> QED
    BY <2>2 DEF Gathered, Gathering
<1> QED
  BY <1>1, <1>2, ListFilesGathers, OpenFilesGathers, ReadLineGathers, EndOfFileGathers, SendLineGathers, FlushGathers
  DEF Reader

(* When the channels are closed and empty, what was sent was delivered.    *)
LEMMA SeeClosedSatisfies ==
  ASSUME LogsAssumption, NEW own, NEW stamp, LogsInv(own, stamp), NEW s \in Service, Gathered(s), SeeClosed
  PROVE  Satisfied(s)'
<1>1. RequestTyped /\ Placed(s) /\ Ordered(s, own, stamp) /\ Control
  BY DEF LogsInv, ReaderInv
<1>2. /\ handler = "loop" /\ UNCHANGED <<volumeVars, askVars, delivered>>
      /\ waiter \in {"closeErrors", "done"} /\ (chan = <<>> \/ req.kind = "rest")
  BY DEF SeeClosed, HandlerReturns, logsClosed, errorsClosed
<1>3. pc[s] = "done" /\ buffer[s] = <<>> /\ delivered[s] \in Seq(Line)
  BY <1>1, <1>2, ReaderIs DEF Control
<1> SUFFICES ASSUME req'.kind = "rpc", client' = "there"
             PROVE  \/ \A w \in Week, i \in Nat \ {0}, j \in Nat, l \in Line :
                         Pending(s, w, i, j, l)' => l \in Range(delivered'[s])
                    \/ ~req'.all /\ Len(delivered'[s]) = NumLogLines
  BY DEF Satisfied
<1>4. UNCHANGED <<req, client, asked>> /\ chan = <<>> /\ Live
  BY <1>2 DEF askVars, Live
<1>5. Sent(s) = Range(delivered[s]) /\ Cardinality(Sent(s)) = Len(delivered[s])
  <2>1. Increasing(delivered[s])
    BY <1>1 DEF Ordered, InOrder
  <2> QED
    BY <1>3, <1>4, <2>1, AllDelivered, AsMany DEF Sent
<1>6. out[s] = <<>> /\ todo[s] = <<>>
  BY <1>1, <1>3, <1>4 DEF Placed
<1>7. Range(out[s]) = {} /\ (\A k : k \notin DOMAIN todo[s]) /\ Len(out[s]) = 0 /\ Len(delivered[s]) \in Nat
  BY <1>3, <1>6, NoLines, LinesAt
<1>8. CASE ~req.all /\ Enough(s)
  BY <1>2, <1>4, <1>5, <1>7, <1>8 DEF Enough
<1>9. CASE ~(~req.all /\ Enough(s))
  <2> SUFFICES ASSUME NEW w \in Week, NEW i \in Nat \ {0}, NEW j \in Nat, NEW l \in Line, Pending(s, w, i, j, l)'
               PROVE  l \in Range(delivered'[s])
    OBVIOUS
  <2>1. Pending(s, w, i, j, l)
    BY <1>2, <1>4, PendingRests DEF PendingSame
  <2>2. Held(s, w, i, j, l)
    BY <1>3, <1>4, <2>1 DEF Gathered, Gathering
  <2>3. l \in Sent(s)
    BY <1>3, <1>7, <1>9, <2>2 DEF Held
  <2> QED
    BY <1>2, <1>5, <2>3
<1> QED
  BY <1>8, <1>9

Delivers == \A s \in Service : Gathered(s) /\ Satisfied(s)

LEMMA VolumeDelivers ==
  ASSUME LogsAssumption, NEW own, NEW stamp, LogsInv(own, stamp), Delivers,
         NextWeek \/ Files \/ \E s \in Service : Write(s)
  PROVE  Delivers'
<1>1. PICK new, later : LogsInv(new, later)' /\ Grows(own, new, stamp, later)
  BY VolumeKeeps
<1>2. UNCHANGED <<req, asked, client, pc, path, todo, pos, out, buffer, chan, handler, delivered>>
  BY VolumeLeavesStream DEF streamVars, askVars, readVars, sendVars
<1>3. ASSUME NEW s \in Service PROVE Gathered(s)' /\ Satisfied(s)'
  <2>1. PendingSame(s)
    BY <1>1, <1>2, PendingBefore DEF PendingSame
  <2>2. Sent(s)' = Sent(s) /\ (Live' => Live)
    BY <1>2 DEF Sent, Live
  <2>3. Gathered(s)'
    BY <1>2, <2>1, <2>2, GatheredStays DEF Delivers
  <2>4. Satisfied(s)'
    BY <1>2, <2>1, SatisfiedStays DEF Delivers
  <2> QED
    BY <2>3, <2>4
<1> QED
  BY <1>3 DEF Delivers

LEMMA RestDelivers ==
  ASSUME Delivers, UNCHANGED <<volumeVars, askVars, pc, path, todo, pos, out>>, handler' = handler,
         \A s \in Service : Sent(s)' = Sent(s), handler = "end" => delivered' = delivered
  PROVE  Delivers'
<1>1. UNCHANGED <<req, asked, client>>
  BY DEF askVars
<1>2. ASSUME NEW s \in Service PROVE Gathered(s)' /\ Satisfied(s)'
  <2>1. PendingSame(s) /\ (Live' => Live)
    BY <1>1, PendingRests DEF Live
  <2>2. Gathered(s)'
    BY <1>1, <2>1, GatheredStays DEF Delivers
  <2>3. Satisfied(s)'
    BY <1>1, <2>1 DEF Delivers, Satisfied, PendingSame
  <2> QED
    BY <2>2, <2>3
<1> QED
  BY <1>2 DEF Delivers

LEMMA HandlerDelivers ==
  ASSUME LogsAssumption, NEW own, NEW stamp, LogsInv(own, stamp), Delivers, Handler
  PROVE  Delivers'
<1>1. CASE Receive /\ client = "there"
  <2>1. /\ chan # <<>> /\ chan' = Tail(chan) /\ handler = "loop"
        /\ delivered' = [delivered EXCEPT ![Head(chan).s] = @ \o Head(chan).lines]
        /\ UNCHANGED <<volumeVars, askVars, pc, path, todo, pos, out, handler, buffer, keys, mu, flush>>
    BY <1>1 DEF Receive, readVars
  <2>2. SameSent
    BY <2>1, ReceiptKeeps
  <2> QED
    BY <2>1, <2>2, RestDelivers DEF SameSent
<1>2. CASE (Receive /\ client = "left") \/ SeeClientGone
  <2>1. handler' = "gone"
    BY <1>2 DEF Receive, SeeClientGone, HandlerReturns
  <2> QED
    BY <2>1 DEF Delivers, Gathered, Satisfied, Live
<1>3. CASE SeeClosed
  <2>1. handler' = "end"
    BY <1>3 DEF SeeClosed, HandlerReturns
  <2>2. ASSUME NEW s \in Service PROVE Gathered(s)' /\ Satisfied(s)'
    <3>1. Gathered(s)'
      BY <2>1 DEF Gathered, Live
    <3> QED
      BY <1>3, <3>1, SeeClosedSatisfies DEF Delivers
  <2> QED
    BY <2>2 DEF Delivers
<1>4. CASE \E s \in Service : ReceiveError(s)
  <2>1. handler' = IF req.kind = "rpc" THEN "error" ELSE "end"
    BY <1>4 DEF ReceiveError, HandlerReturns
  <2>2. UNCHANGED req
    BY <1>4 DEF ReceiveError, HandlerReturns, askVars
  <2> QED
    BY <2>1, <2>2 DEF Delivers, Gathered, Satisfied, Live
<1>5. Receive => client \in {"there", "left"}
  BY DEF Receive
<1> QED
  BY <1>1, <1>2, <1>3, <1>4, <1>5 DEF Handler

LEMMA StepDelivers ==
  ASSUME LogsAssumption, InvariantHolds, Delivers, [Next]_vars
  PROVE  Delivers'
<1> PICK own, stamp : LogsInv(own, stamp)
  BY DEF InvariantHolds
<1>1. CASE NextWeek \/ Files \/ \E s \in Service : Write(s)
  BY <1>1, VolumeDelivers
<1>2. CASE Request
  <2>1. handler' = "loop" /\ pc' = [s \in Service |-> "list"]
    BY <1>2 DEF Request
  <2>2. \A s \in Service : pc'[s] = "list"
    BY <2>1
  <2> QED
    BY <2>1, <2>2 DEF Delivers, Gathered, Satisfied, Held
<1>3. CASE ClientLeaves
  <2>1. client' = "left"
    BY <1>3 DEF ClientLeaves
  <2> QED
    BY <2>1 DEF Delivers, Gathered, Satisfied, Live
<1>4. ASSUME NEW t \in Service, Reader(t) PROVE Delivers'
  <2>1. /\ UNCHANGED <<volumeVars, askVars, handler, delivered>> /\ OthersRest(t)
        /\ \A s \in Service : s # t => Sent(s)' = Sent(s)
    BY <1>4, OthersStay
  <2>2. UNCHANGED <<req, asked, client>>
    BY <2>1 DEF askVars
  <2>3. ASSUME NEW s \in Service PROVE Gathered(s)' /\ Satisfied(s)'
    <3>1. PendingSame(s) /\ (Live' => Live)
      BY <2>1, <2>2, PendingRests DEF Live
    <3>2. Satisfied(s)'
      BY <2>1, <2>2, <3>1, SatisfiedStays DEF Delivers
    <3>3. CASE s = t
      BY <1>4, <3>2, <3>3, ReaderGathers DEF Delivers
    <3>4. CASE s # t
      <4>1. UNCHANGED <<pc[s], path[s], todo[s], pos[s], out[s]>>
        BY <2>1, <3>4 DEF OthersRest
      <4> QED
        BY <2>1, <2>2, <3>1, <3>2, <3>4, <4>1, GatheredStays DEF Delivers
    <3> QED
      BY <3>3, <3>4
  <2> QED
    BY <2>3 DEF Delivers
<1>5. CASE Waiter
  <2>1. /\ UNCHANGED <<volumeVars, askVars, handler, delivered, pc, path, todo, pos, out>>
        /\ Flush("waiter") \/ UNCHANGED sendVars
    BY <1>5 DEF Waiter, StreamStays, readVars
  <2>2. SameSent
    BY <2>1, FlushKeeps, QuietSender
  <2> QED
    BY <2>1, <2>2, RestDelivers DEF SameSent
<1>6. CASE Handler
  BY <1>6, HandlerDelivers
<1>7. CASE UNCHANGED vars
  <2>1. UNCHANGED <<volumeVars, askVars, pc, path, todo, pos, out, handler, delivered, sendVars>>
    BY <1>7 DEF vars, streamVars, readVars
  <2>2. \A s \in Service : Sent(s)' = Sent(s)
    BY <2>1 DEF Sent, sendVars
  <2> QED
    BY <2>1, <2>2, RestDelivers
<1> QED
  BY <1>1, <1>2, <1>3, <1>4, <1>5, <1>6, <1>7 DEF Next, Quiet

LEMMA DeliveriesStart ==
  ASSUME LogsAssumption, Init
  PROVE  InvariantHolds /\ Delivers
<1>1. handler = "none"
  BY DEF Init
<1>2. Delivers
  BY <1>1 DEF Delivers, Gathered, Satisfied, Live
<1> QED
  BY <1>2, LogsStart DEF InvariantHolds

(* What was asked for and is of the last two weeks.                        *)
RecentlyDue(s) == {l \in Due(s) : l.week + 2 > week}

RecentDelivered ==
  \A s \in Service :
    handler = "end" /\ req.kind = "rpc" /\ client = "there" =>
      \/ RecentlyDue(s) \subseteq Range(delivered[s])
      \/ ~req.all /\ Len(delivered[s]) = NumLogLines

LEMMA DueIsPending ==
  ASSUME NEW own, NEW stamp, LogsInv(own, stamp), NEW s \in Service, NEW l \in RecentlyDue(s)
  PROVE  l \in Line /\ \E w \in Week, i \in Nat \ {0}, j \in Nat : Pending(s, w, i, j, l)
<1>1. PICK w \in Week : /\ file[s][w] # 0 /\ w + Retention > week
                        /\ l \in Range(inode[file[s][w]]) /\ l.n <= asked[s]
  BY DEF RecentlyDue, Due, Exists
<1> PICK i : i = file[s][w]
  OBVIOUS
<1>2. VolumeTyped /\ FileInv(own, stamp)
  BY DEF LogsInv
<1>3. i \in 1..Len(inode) /\ Len(inode) \in Nat /\ inode[i] \in Seq(Line) /\ own[i] = <<s, w>>
  BY <1>1, <1>2, VolumeIs, FileIs
<1>4. PICK j \in DOMAIN inode[i] : inode[i][j] = l
  BY <1>1 DEF Range
<1>5. j \in Nat /\ l \in Line /\ i \in Nat \ {0}
  BY <1>3, <1>4, LinesAt
<1>6. l.week = w
  <2>1. own[i][2] = w
    BY <1>3
  <2> QED
    BY <1>2, <1>3, <1>4, <2>1, FileIs DEF LinesAre
<1>7. w + 2 > week
  BY <1>6 DEF RecentlyDue
<1>8. Pending(s, w, i, j, l)
  BY <1>1, <1>4, <1>7 DEF Pending
<1> QED
  BY <1>5, <1>8

LEMMA RecentOK ==
  ASSUME InvariantHolds, Delivers
  PROVE  RecentDelivered
<1> PICK own, stamp : LogsInv(own, stamp)
  BY DEF InvariantHolds
<1> SUFFICES ASSUME NEW s \in Service, handler = "end", req.kind = "rpc", client = "there"
             PROVE  \/ RecentlyDue(s) \subseteq Range(delivered[s])
                    \/ ~req.all /\ Len(delivered[s]) = NumLogLines
  BY DEF RecentDelivered
<1>1. \/ \A w \in Week, i \in Nat \ {0}, j \in Nat, l \in Line : Pending(s, w, i, j, l) => l \in Range(delivered[s])
      \/ ~req.all /\ Len(delivered[s]) = NumLogLines
  BY DEF Delivers, Satisfied
<1>2. \A l \in RecentlyDue(s) : l \in Line /\ \E w \in Week, i \in Nat \ {0}, j \in Nat : Pending(s, w, i, j, l)
  BY DueIsPending
<1> QED
  BY <1>1, <1>2

(* An RPC that ended without an error delivered every line of the last two  *)
(* weeks that was written before it and is still to be had, or as many of   *)
(* the last ones as were asked for: whatever the retention period is, and   *)
(* although the readers share one sender, whose buffers the last of them    *)
(* flushes, and files are emptied, removed and made meanwhile.              *)
THEOREM RecentLinesDelivered == Spec => []RecentDelivered
<1> DEFINE I == InvariantHolds /\ Delivers
<1>1. Init => I
  BY LogsAssumption, DeliveriesStart
<1>2. I /\ [Next]_vars => I'
  BY LogsAssumption, StepKeeps, StepDelivers
<1>3. I => RecentDelivered
  BY RecentOK
<1> QED
  <2> HIDE DEF I
  <2> QED
    BY <1>1, <1>2, <1>3, PTL DEF Spec

LEMMA DeliveryOK ==
  ASSUME LogsAssumption, Retention <= 2, InvariantHolds, Delivers
  PROVE  LinesDelivered
<1> PICK own, stamp : LogsInv(own, stamp)
  BY DEF InvariantHolds
<1> SUFFICES ASSUME NEW s \in Service
             PROVE  /\ Increasing(delivered[s])
                    /\ handler = "end" /\ req.kind = "rpc" /\ client = "there" =>
                         LET missing == Due(s) \ Range(delivered[s]) IN
                         IF req.all THEN missing = {}
                         ELSE missing = {} \/ Len(delivered[s]) = NumLogLines
  BY DEF LinesDelivered
<1>1. Increasing(delivered[s])
  BY DEF LogsInv, ReaderInv, Ordered, InOrder
<1>2. ASSUME NEW l \in Due(s) PROVE l \in RecentlyDue(s)
  <2>1. PICK w \in Week : /\ file[s][w] # 0 /\ w + Retention > week /\ l \in Range(inode[file[s][w]])
    BY DEF Due, Exists
  <2> PICK i : i = file[s][w]
    OBVIOUS
  <2>2. VolumeTyped /\ FileInv(own, stamp)
    BY DEF LogsInv
  <2>3. i \in 1..Len(inode) /\ own[i] = <<s, w>> /\ week \in Nat /\ w \in Nat /\ Retention \in Nat
    <3>1. i \in 1..Len(inode) /\ week \in Nat
      BY <2>1, <2>2, VolumeIs
    <3>2. own[i] = <<s, w>>
      BY <2>1, <2>2, FileIs
    <3> QED
      BY <3>1, <3>2 DEF Week, LogsAssumption
  <2>4. own[i][2] = w
    BY <2>3
  <2>5. l.week = w
    BY <2>1, <2>2, <2>3, <2>4, FileIs DEF LinesAre, Range
  <2> QED
    BY <2>1, <2>3, <2>5 DEF RecentlyDue
<1>3. ASSUME handler = "end", req.kind = "rpc", client = "there"
      PROVE  Due(s) \ Range(delivered[s]) = {} \/ (~req.all /\ Len(delivered[s]) = NumLogLines)
  <2>1. \/ RecentlyDue(s) \subseteq Range(delivered[s])
        \/ ~req.all /\ Len(delivered[s]) = NumLogLines
    BY <1>3, RecentOK DEF RecentDelivered
  <2> QED
    BY <1>2, <2>1
<1> QED
  BY <1>1, <1>3

(* ... and every line that is still to be had, when the retention period is *)
(* at most two weeks: of a longer one, a week without a file hides the ones *)
(* before it.  The lines come in their order, as always.                    *)
THEOREM RequestsSatisfied ==
  ASSUME Retention <= 2
  PROVE  Spec => []LinesDelivered
<1> DEFINE I == InvariantHolds /\ Delivers
<1>1. Init => I
  BY LogsAssumption, DeliveriesStart
<1>2. I /\ [Next]_vars => I'
  BY LogsAssumption, StepKeeps, StepDelivers
<1>3. I => LinesDelivered
  BY LogsAssumption, DeliveryOK
<1> QED
  <2> HIDE DEF I
  <2> QED
    BY <1>1, <1>2, <1>3, PTL DEF Spec
=============================================================================
