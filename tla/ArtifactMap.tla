---------------------------- MODULE ArtifactMap -----------------------------
(***************************************************************************)
(* What the files artifact store promises to those who know an artifact by *)
(* its name: it appears whole or not at all, keeps its UUID for as long as *)
(* it exists, changes only by being replaced, and a restart leaves it as   *)
(* it was.  What it does not promise is that a replacement ends: while it  *)
(* goes on, and for ever if it is cut, the artifact is broken, and one     *)
(* whose replacement failed may come back broken after a restart.          *)
(***************************************************************************)
CONSTANTS Names, Ids, Contents, Broken, Absent

VARIABLE art    \* the artifact of a name: its UUID and its content

Artifact == [id : Ids, content : Contents \cup {Broken}] \cup {Absent}

Init == art = [n \in Names |-> Absent]

(* A new artifact, under a UUID no artifact of another name has.  Its      *)
(* content is broken when what was sent of it was cut short.               *)
Create(n) ==
  /\ art[n] = Absent
  /\ \E i \in Ids, c \in Contents \cup {Broken} :
       /\ \A m \in Names : art[m] # Absent => art[m].id # i
       /\ art' = [art EXCEPT ![n] = [id |-> i, content |-> c]]

StartReplacing(n) ==
  /\ art[n] # Absent
  /\ art' = [art EXCEPT ![n].content = Broken]

EndReplacing(n) ==
  /\ art[n] # Absent /\ art[n].content = Broken
  /\ \E c \in Contents : art' = [art EXCEPT ![n].content = c]

(* A replacement that fails loses the artifact.                            *)
Lose(n) ==
  /\ art[n] # Absent /\ art[n].content = Broken
  /\ art' = [art EXCEPT ![n] = Absent]

Restart ==
  \E Back \in SUBSET {n \in Names : art[n] = Absent}, i \in [Names -> Ids] :
    art' = [n \in Names |-> IF n \in Back THEN [id |-> i[n], content |-> Broken] ELSE art[n]]

Next ==
  \/ \E n \in Names : Create(n) \/ StartReplacing(n) \/ EndReplacing(n) \/ Lose(n)
  \/ Restart

Spec == Init /\ [][Next]_art
=============================================================================
