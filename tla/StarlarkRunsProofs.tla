------------------------- MODULE StarlarkRunsProofs -------------------------
(***************************************************************************)
(* The search for what a script has in common with the enclave's plan is   *)
(* right, and skipping it invisible, for plans and scripts of any length:  *)
(* inductions over the slots of a mask and over the attempts of the search.*)
(*                                                                         *)
(* For any number of runs, any scripts, failures, clients and crashes: the *)
(* executor's mutex keeps executors apart, only its holder changes the     *)
(* enclave, the plan holds only what was run, and between runs the database*)
(* holds the executor's plan.  For clients that take turns: every one is   *)
(* told its run's end, the plan describes the enclave between runs, and a  *)
(* run that succeeds leaves what its whole script would have left.         *)
(***************************************************************************)
EXTENDS StarlarkRuns, PlanOverlap, WellFoundedInduction, NaturalsInduction, TLAPS

(* Induction, over the members of a set of numbers.                        *)
LEMMA LeastNumber ==
  ASSUME NEW T \in SUBSET Nat, T # {}
  PROVE  \E m \in T : \A k \in T : m <= k
<1> DEFINE R == OpToRel(<, Nat)
<1>1. IsWellFoundedOn(R, Nat)
  BY NatLessThanWellFounded
<1>2. \A x, y \in Nat : y < x => <<y, x>> \in R
  BY DEF OpToRel
<1> HIDE DEF R
<1>3. PICK x \in T : \A y \in T : ~(<<y, x>> \in R)
  BY <1>1, WFMin
<1>4. ASSUME NEW y \in T PROVE x <= y
  <2>1. x \in Nat /\ y \in Nat /\ ~(y < x)
    BY <1>2, <1>3
  <2> QED
    BY <2>1
<1> QED
  BY <1>4

LEMMA FromTo ==
  ASSUME NEW m \in Nat, NEW n \in Nat, NEW G, m \in G,
         \A k \in m + 1 .. n : k - 1 \in G => k \in G
  PROVE  \A k \in m .. n : k \in G
<1> DEFINE Bad == {k \in m .. n : k \notin G}
<1> SUFFICES ASSUME Bad # {} PROVE FALSE
  OBVIOUS
<1>1. Bad \in SUBSET Nat
  OBVIOUS
<1>2. PICK k \in Bad : \A j \in Bad : k <= j
  BY <1>1, LeastNumber
<1>3. k \in m + 1 .. n /\ k \notin G
  OBVIOUS
<1>4. k - 1 \in m .. n /\ k - 1 \notin Bad
  BY <1>2, <1>3
<1> QED
  BY <1>3, <1>4

(* A function given by its value at m and by each value from the one before. *)
Iterates(it, T, b, m, n, step) ==
  /\ it \in [m .. n -> T] /\ it[m] = b
  /\ \A k \in m + 1 .. n : it[k] = step[<<it[k - 1], k>>]

LEMMA Iteration ==
  ASSUME NEW T, NEW b \in T, NEW m \in Nat, NEW n \in Nat, m <= n,
         NEW step \in [T \X Nat -> T]
  PROVE  \E it : Iterates(it, T, b, m, n, step)
<1> DEFINE Ok(it, j) == it[m] = b /\ \A k \in m + 1 .. j : it[k] = step[<<it[k - 1], k>>]
           G == {j \in m .. n : \E it \in [m .. j -> T] : Ok(it, j)}
<1>1. m \in G
  <2>1. Ok([k \in m .. m |-> b], m) /\ [k \in m .. m |-> b] \in [m .. m -> T]
    OBVIOUS
  <2> QED
    BY <2>1
<1>2. ASSUME NEW j \in m + 1 .. n, j - 1 \in G PROVE j \in G
  <2>1. PICK it \in [m .. j - 1 -> T] : Ok(it, j - 1)
    BY <1>2
  <2>2. step[<<it[j - 1], j>>] \in T
    BY <2>1
  <2> DEFINE f == [k \in m .. j |-> IF k = j THEN step[<<it[j - 1], j>>] ELSE it[k]]
  <2>3. f \in [m .. j -> T]
    BY <2>1, <2>2
  <2>4. Ok(f, j)
    <3>1. f[m] = b
      BY <2>1
    <3>2. ASSUME NEW k \in m + 1 .. j PROVE f[k] = step[<<f[k - 1], k>>]
      <4>1. k - 1 \in m .. j - 1 /\ f[k - 1] = it[k - 1]
        BY <3>2
      <4>2. CASE k = j
        <5>1. j \in m .. j /\ f[j] = step[<<it[j - 1], j>>]
          BY <3>2
        <5>2. f[j - 1] = it[j - 1]
          BY <4>1, <4>2
        <5> HIDE DEF f
        <5> QED
          BY <4>2, <5>1, <5>2
      <4>3. CASE k # j
        <5>1. k \in m + 1 .. j - 1 /\ k \in m .. j
          BY <3>2, <4>3
        <5>2. f[k] = it[k] /\ it[k] = step[<<it[k - 1], k>>]
          BY <2>1, <4>3, <5>1
        <5> QED
          BY <4>1, <5>2
      <4> QED
        BY <4>2, <4>3
    <3> QED
      BY <3>1, <3>2
  <2> HIDE DEF f
  <2> QED
    BY <2>3, <2>4
<1>3. \A k \in m .. n : k \in G
  <2> HIDE DEF G
  <2> QED
    BY <1>1, <1>2, FromTo
<1> QED
  BY <1>3 DEF Iterates

-----------------------------------------------------------------------------
(* What an interpretation schedules.                                       *)
Entries(S) == [instr : S, executed : BOOLEAN]

Accumulator(S, U) == [updated : SUBSET U, seq : Seq(Entries(S)), valid : BOOLEAN]

(* A slot holds the instruction's like, whatever else has been updated.    *)
Like(i, other) ==
  \/ i = other
  \/ i.type \notin {"exec", "run_sh"} /\ SameName(i, other)

(* The components whose changes are marked.                                *)
Tracks(S) == {i.name : i \in {j \in S : Tracked(j)}}

LEMMA Resolution ==
  ASSUME NEW i, i.type \in Types, NEW other, NEW updated
  PROVE  LET status == Resolve(i, other, updated)
         IN /\ status \in {"abort", "unknown", "update", "equal"}
            /\ status = "abort" <=> i.type = "remove_service"
            /\ i.type # "remove_service" => (status = "unknown" <=> other = NoInstruction \/ ~Like(i, other))
            /\ status = "equal" => other # NoInstruction /\ i = other
<1>1. CASE i.type = "remove_service"
  BY <1>1 DEF Resolve, NotResolvable
<1>2. CASE other = NoInstruction /\ i.type # "remove_service"
  BY <1>2 DEF Resolve, NotResolvable
<1>3. CASE other # NoInstruction /\ i.type = "add_service"
  BY <1>3 DEF Resolve, NotResolvable, ResolveService, SameName, Like
<1>4. CASE other # NoInstruction /\ i.type \in {"add_services", "upload_files"}
  BY <1>4 DEF Resolve, NotResolvable, ResolveNamed, SameName, Like
<1>6. CASE other # NoInstruction /\ i.type = "run_sh"
  BY <1>6 DEF Resolve, NotResolvable, ResolveTask, SameName, Like
<1>5. CASE other # NoInstruction /\ i.type = "exec"
  BY <1>5 DEF Resolve, NotResolvable, ResolveExec, Like
<1> QED
  BY <1>1, <1>2, <1>3, <1>4, <1>5, <1>6 DEF Types

(* What becomes of the accumulator at one slot.                            *)
Fits(i, other) == i.type # "remove_service" /\ (other = NoInstruction \/ Like(i, other))

LEMMA OneSlot ==
  ASSUME NEW S, NEW U, NEW i \in S, i.type \in Types, Tracked(i) => i.name \in U, NEW other,
         NEW acc \in Accumulator(S, U)
  PROVE  /\ Laid(acc, i, other) \in Accumulator(S, U)
         /\ \E entry \in Entries(S) :
              /\ Laid(acc, i, other).seq = Append(acc.seq, entry) /\ entry.instr = i
              /\ entry.executed => i = other /\ other # NoInstruction
         /\ Laid(acc, i, other).valid <=> acc.valid /\ Fits(i, other)
<1> DEFINE status == Resolve(i, other, acc.updated)
           entry == [instr |-> i, executed |-> status = "equal"]
<1>1. /\ Laid(acc, i, other).seq = Append(acc.seq, entry)
      /\ Laid(acc, i, other).updated = Marked(i, status, acc.updated)
      /\ Laid(acc, i, other).valid = (acc.valid /\ Accepts(status, other))
      /\ Laid(acc, i, other) = [updated |-> Laid(acc, i, other).updated, seq |-> Laid(acc, i, other).seq,
                               valid |-> Laid(acc, i, other).valid]
  BY DEF Laid
<1>2. /\ status \in {"abort", "unknown", "update", "equal"}
      /\ status = "abort" <=> i.type = "remove_service"
      /\ i.type # "remove_service" => (status = "unknown" <=> other = NoInstruction \/ ~Like(i, other))
      /\ status = "equal" => other # NoInstruction /\ i = other
  BY Resolution
<1> HIDE DEF status
<1>3. Marked(i, status, acc.updated) \in SUBSET U
  BY DEF Marked, Accumulator
<1>4. entry \in Entries(S) /\ entry.instr = i /\ (entry.executed => status = "equal")
  BY DEF Entries
<1> HIDE DEF entry
<1>8. Append(acc.seq, entry) \in Seq(Entries(S))
  BY <1>4 DEF Accumulator
<1>5. (acc.valid /\ Accepts(status, other)) \in BOOLEAN
  BY DEF Accumulator, Accepts
<1>6. Accepts(status, other) <=> Fits(i, other)
  BY <1>2 DEF Accepts, Fits
<1>7. Laid(acc, i, other) \in Accumulator(S, U)
  BY <1>1, <1>3, <1>5, <1>8 DEF Accumulator
<1>9. entry.executed => i = other /\ other # NoInstruction
  BY <1>2, <1>4
<1>10. Laid(acc, i, other).valid <=> acc.valid /\ Fits(i, other)
  BY <1>1, <1>6
<1> QED
  BY <1>1, <1>4, <1>7, <1>9, <1>10

LaidFrom(laid, S, U, new, old, from, updated) ==
  /\ laid \in [0 .. Len(new) -> Accumulator(S, U)]
  /\ laid[0] = [updated |-> updated, seq |-> <<>>, valid |-> TRUE]
  /\ \A k \in 1 .. Len(new) : laid[k] = Laid(laid[k - 1], new[k], MaskAt(old, from, k))
  /\ Interpretation(new, old, from, updated) = laid[Len(new)]

LEMMA InterpretationIterates ==
  ASSUME NEW S, \A i \in S : i.type \in Types, NEW U, \A i \in S : Tracked(i) => i.name \in U,
         NEW new \in Seq(S), NEW old, NEW from, NEW updated \in SUBSET U
  PROVE  \E laid : LaidFrom(laid, S, U, new, old, from, updated)
<1> DEFINE n == Len(new)
           T == Accumulator(S, U)
           b == [updated |-> updated, seq |-> <<>>, valid |-> TRUE]
           D(f) == [k \in 0 .. n |-> IF k = 0 THEN b
                                     ELSE Laid(f[k - 1], new[k], MaskAt(old, from, k))]
           step == [p \in T \X Nat |->
                      IF p[2] \in 1 .. n THEN Laid(p[1], new[p[2]], MaskAt(old, from, p[2]))
                                         ELSE p[1]]
<1>1. n \in Nat /\ b \in T /\ \A k \in 1 .. n : new[k] \in S
  BY DEF Accumulator
<1>2. step \in [T \X Nat -> T]
  <2>1. ASSUME NEW p \in T \X Nat, p[2] \in 1 .. n
        PROVE  Laid(p[1], new[p[2]], MaskAt(old, from, p[2])) \in T
    BY <1>1, <2>1, OneSlot
  <2> QED
    BY <2>1
<1>3. PICK it \in [0 .. n -> T] : it[0] = b /\ \A k \in 1 .. n : it[k] = step[<<it[k - 1], k>>]
  <2> HIDE DEF n, T, b, D, step
  <2>1. 0 \in Nat /\ 0 <= n /\ n \in Nat /\ b \in T /\ 0 + 1 = 1
    BY <1>1
  <2>2. \E it : Iterates(it, T, b, 0, n, step)
    BY <1>2, <2>1, Iteration
  <2> QED
    BY <2>1, <2>2 DEF Iterates
<1>4. \A k \in 1 .. n : it[k] = Laid(it[k - 1], new[k], MaskAt(old, from, k))
  <2> SUFFICES ASSUME NEW k \in 1 .. n
               PROVE  it[k] = Laid(it[k - 1], new[k], MaskAt(old, from, k))
    OBVIOUS
  <2>1. k - 1 \in 0 .. n /\ k \in Nat
    BY <1>1
  <2>2. <<it[k - 1], k>> \in T \X Nat
    BY <1>3, <2>1
  <2>3. it[k] = step[<<it[k - 1], k>>]
    BY <1>3
  <2> QED
    BY <2>2, <2>3
<1>5. D(it) = it
  BY <1>1, <1>3, <1>4
<1> DEFINE laid == CHOOSE f : f = D(f)
<1>6. laid = D(laid)
  BY <1>5
<1>7. Interpretation(new, old, from, updated) = laid[n]
  BY DEF Interpretation
<1>8. laid[n] = it[n]
  <2> HIDE DEF laid
  <2> DEFINE G == {k \in 0 .. n : laid[k] = it[k]}
  <2>1. 0 \in G
    BY <1>1, <1>3, <1>6
  <2>2. ASSUME NEW k \in 0 + 1 .. n, k - 1 \in G PROVE k \in G
    <3>1. k \in 1 .. n /\ laid[k - 1] = it[k - 1]
      BY <2>2
    <3>2. laid[k] = Laid(laid[k - 1], new[k], MaskAt(old, from, k))
      <4>1. D(laid)[k] = Laid(laid[k - 1], new[k], MaskAt(old, from, k))
        BY <1>1, <3>1
      <4> HIDE DEF D
      <4> QED
        BY <1>6, <4>1
    <3> QED
      BY <1>1, <1>4, <3>1, <3>2
  <2>3. \A k \in 0 .. n : k \in G
    <3> HIDE DEF G, n
    <3> QED
      BY <1>1, <2>1, <2>2, FromTo
  <2> QED
    BY <1>1, <2>3
<1> QED
  BY <1>3, <1>4, <1>7, <1>8 DEF LaidFrom

(* The first n instructions of a script are scheduled, each once and in    *)
(* their order; those skipped are in the plan, past the index.             *)
Schedules(seq, S, new, n) ==
  /\ seq \in Seq(Entries(S)) /\ Len(seq) = n
  /\ \A k \in 1 .. n : seq[k].instr = new[k]

SkipsEqual(seq, new, old, from, n) ==
  \A k \in 1 .. n : seq[k].executed =>
    MaskAt(old, from, k) = new[k] /\ MaskAt(old, from, k) # NoInstruction

FitsAll(new, old, from, n) == \A k \in 1 .. n : Fits(new[k], MaskAt(old, from, k))

LEMMA Grown ==
  ASSUME NEW T, NEW s \in Seq(T), NEW entry \in T
  PROVE  /\ Len(Append(s, entry)) = Len(s) + 1 /\ Append(s, entry)[Len(s) + 1] = entry
         /\ \A k \in 1 .. Len(s) : Append(s, entry)[k] = s[k]
  OBVIOUS

LEMMA ScheduledMore ==
  ASSUME NEW S, NEW new, NEW old, NEW from, NEW n \in Nat, NEW s, NEW entry \in Entries(S),
         Schedules(s, S, new, n), SkipsEqual(s, new, old, from, n),
         entry.instr = new[n + 1],
         entry.executed => MaskAt(old, from, n + 1) = new[n + 1] /\ MaskAt(old, from, n + 1) # NoInstruction
  PROVE  /\ Schedules(Append(s, entry), S, new, n + 1)
         /\ SkipsEqual(Append(s, entry), new, old, from, n + 1)
<1>1. s \in Seq(Entries(S)) /\ Len(s) = n /\ Append(s, entry) \in Seq(Entries(S))
  BY DEF Schedules
<1> PICK t : t = Append(s, entry)
  OBVIOUS
<1>2. Len(t) = n + 1 /\ t[n + 1] = entry /\ \A k \in 1 .. n : t[k] = s[k]
  BY <1>1, Grown
<1>3. \A k \in 1 .. n + 1 : k \in 1 .. n \/ k = n + 1
  OBVIOUS
<1>4. Schedules(t, S, new, n + 1)
  <2>1. ASSUME NEW k \in 1 .. n + 1 PROVE t[k].instr = new[k]
    <3>1. CASE k \in 1 .. n
      BY <1>2, <3>1 DEF Schedules
    <3>2. CASE k = n + 1
      BY <1>2, <3>2
    <3> QED
      BY <1>3, <3>1, <3>2
  <2> QED
    BY <1>1, <1>2, <2>1 DEF Schedules
<1>5. SkipsEqual(t, new, old, from, n + 1)
  <2> SUFFICES ASSUME NEW k \in 1 .. n + 1, t[k].executed
               PROVE  MaskAt(old, from, k) = new[k] /\ MaskAt(old, from, k) # NoInstruction
    BY DEF SkipsEqual
  <2>1. CASE k \in 1 .. n
    BY <1>2, <2>1 DEF SkipsEqual
  <2>2. CASE k = n + 1
    BY <1>2, <2>2
  <2> QED
    BY <1>3, <2>1, <2>2
<1> QED
  BY <1>4, <1>5

LEMMA OneMore ==
  ASSUME NEW S, NEW U, NEW new \in Seq(S), NEW n \in Nat, n + 1 \in 1 .. Len(new),
         new[n + 1].type \in Types, Tracked(new[n + 1]) => new[n + 1].name \in U, NEW old, NEW from,
         NEW acc \in Accumulator(S, U),
         Schedules(acc.seq, S, new, n), SkipsEqual(acc.seq, new, old, from, n),
         acc.valid <=> FitsAll(new, old, from, n),
         NEW r, r = Laid(acc, new[n + 1], MaskAt(old, from, n + 1))
  PROVE  /\ Schedules(r.seq, S, new, n + 1) /\ SkipsEqual(r.seq, new, old, from, n + 1)
         /\ r.valid <=> FitsAll(new, old, from, n + 1)
<1> DEFINE i == new[n + 1]
           other == MaskAt(old, from, n + 1)
<1>1. i \in S
  OBVIOUS
<1> HIDE DEF i, other
<1>2. /\ r \in Accumulator(S, U)
      /\ \E entry \in Entries(S) : r.seq = Append(acc.seq, entry) /\ entry.instr = i
                                /\ (entry.executed => i = other /\ other # NoInstruction)
      /\ r.valid <=> acc.valid /\ Fits(i, other)
  BY <1>1, OneSlot DEF i, other
<1>3. PICK entry \in Entries(S) : r.seq = Append(acc.seq, entry) /\ entry.instr = i
                               /\ (entry.executed => i = other /\ other # NoInstruction)
  BY <1>2
<1>6. \A k \in 1 .. n + 1 : k \in 1 .. n \/ k = n + 1
  OBVIOUS
<1>7. Schedules(r.seq, S, new, n + 1) /\ SkipsEqual(r.seq, new, old, from, n + 1)
  <2>1. entry.instr = new[n + 1]
        /\ (entry.executed =>
               MaskAt(old, from, n + 1) = new[n + 1] /\ MaskAt(old, from, n + 1) # NoInstruction)
    BY <1>3 DEF i, other
  <2>2. /\ Schedules(Append(acc.seq, entry), S, new, n + 1)
        /\ SkipsEqual(Append(acc.seq, entry), new, old, from, n + 1)
    BY <2>1, ScheduledMore
  <2> QED
    BY <1>3, <2>2
<1>9. FitsAll(new, old, from, n + 1) <=> FitsAll(new, old, from, n) /\ Fits(i, other)
  BY <1>6 DEF FitsAll, i, other
<1> QED
  BY <1>2, <1>7, <1>9

LEMMA InterpretationOf ==
  ASSUME NEW S, \A i \in S : i.type \in Types, NEW U, \A i \in S : Tracked(i) => i.name \in U,
         NEW new \in Seq(S), NEW old, NEW from, NEW updated \in SUBSET U
  PROVE  LET r == Interpretation(new, old, from, updated)
         IN /\ r \in Accumulator(S, U)
            /\ Schedules(r.seq, S, new, Len(new))
            /\ SkipsEqual(r.seq, new, old, from, Len(new))
            /\ r.valid <=> FitsAll(new, old, from, Len(new))
<1>1. PICK laid : LaidFrom(laid, S, U, new, old, from, updated)
  BY InterpretationIterates
<1> USE <1>1 DEF LaidFrom
<1> DEFINE Ok(k) == /\ Schedules(laid[k].seq, S, new, k)
                    /\ SkipsEqual(laid[k].seq, new, old, from, k)
                    /\ laid[k].valid <=> FitsAll(new, old, from, k)
           G == {k \in 0 .. Len(new) : Ok(k)}
<1>2. 0 \in G
  <2>1. /\ laid[0].seq = <<>> /\ laid[0].valid /\ 1 .. 0 = {} /\ <<>> \in Seq(Entries(S))
        /\ Len(<<>>) = 0
    BY <1>1
  <2>2. Ok(0)
    BY <2>1 DEF Schedules, SkipsEqual, FitsAll
  <2> QED
    BY <2>2
<1>3. ASSUME NEW k \in 0 + 1 .. Len(new), k - 1 \in G PROVE k \in G
  <2>1. /\ k - 1 \in Nat /\ (k - 1) + 1 \in 1 .. Len(new) /\ (k - 1) + 1 = k
        /\ laid[k - 1] \in Accumulator(S, U) /\ new[k] \in S
    BY <1>1
  <2>2. new[k].type \in Types /\ (Tracked(new[k]) => new[k].name \in U)
    BY <2>1
  <2>3. laid[k] = Laid(laid[k - 1], new[k], MaskAt(old, from, k)) /\ Ok(k - 1)
    BY <1>1, <1>3, <2>1
  <2>4. PICK n \in Nat : n = k - 1 /\ n + 1 = k
    BY <2>1
  <2>5. /\ Schedules(laid[n + 1].seq, S, new, n + 1)
        /\ SkipsEqual(laid[n + 1].seq, new, old, from, n + 1)
        /\ (laid[n + 1].valid <=> FitsAll(new, old, from, n + 1))
    BY <2>1, <2>2, <2>3, <2>4, OneMore
  <2>6. Ok(k)
    BY <2>4, <2>5
  <2> QED
    BY <2>1, <2>6
<1>4. \A k \in 0 .. Len(new) : k \in G
  <2> HIDE DEF G
  <2>1. 0 \in Nat /\ Len(new) \in Nat
    OBVIOUS
  <2> QED
    BY <1>2, <1>3, <2>1, FromTo
<1>5. Ok(Len(new)) /\ laid[Len(new)] \in Accumulator(S, U)
  BY <1>1, <1>4
<1> QED
  BY <1>1, <1>5

-----------------------------------------------------------------------------
(* The search: after the attempts from every minimum index below min, none *)
(* of those indices fits, or the least that does has been found.           *)
Tried(S, U, old) ==
  [found : BOOLEAN, index : 0 .. Len(old), seq : Seq(Entries(S)), updated : SUBSET U]

Least(new, old, index) ==
  /\ index >= FirstPossible(new, old)
  /\ index < Len(old) => FitsAll(new, old, index, Len(new))
  /\ \A f \in FirstPossible(new, old) .. index - 1 : ~FitsAll(new, old, f, Len(new))

(* Where the result's sequence comes from.                                 *)
Origin(seq, new, old, index, U) ==
  \/ index = Len(old) /\ seq = Unresolved(new)
  \/ /\ index >= FirstPossible(new, old) /\ FitsAll(new, old, index, Len(new))
     /\ \E u \in SUBSET U : seq = Interpretation(new, old, index, u).seq

SearchOk(acc, S, U, new, old, min) ==
  IF acc.found
  THEN /\ Schedules(acc.seq, S, new, Len(new))
       /\ SkipsEqual(acc.seq, new, old, acc.index, Len(new))
       /\ Origin(acc.seq, new, old, acc.index, U)
       /\ new # <<>> => Least(new, old, acc.index)
  ELSE /\ min <= Len(old)
       /\ \A f \in FirstPossible(new, old) .. min - 1 : ~FitsAll(new, old, f, Len(new))

LEMMA MinOf ==
  ASSUME NEW T \in SUBSET Nat, T # {}
  PROVE  Min(T) \in T /\ \A k \in T : Min(T) <= k
<1>1. \E m \in T : \A k \in T : m <= k
  BY LeastNumber
<1> QED
  BY <1>1 DEF Min

LEMMA Nothing ==
  ASSUME NEW S, NEW new \in Seq(S)
  PROVE  /\ Schedules(Unresolved(new), S, new, Len(new))
         /\ \A old, from : SkipsEqual(Unresolved(new), new, old, from, Len(new))
<1>1. /\ DOMAIN new = 1 .. Len(new) /\ Len(new) \in Nat
      /\ \A k \in 1 .. Len(new) : new[k] \in S
  OBVIOUS
<1>2. Unresolved(new) \in [1 .. Len(new) -> Entries(S)]
  BY <1>1 DEF Unresolved, Entries
<1>3. Unresolved(new) \in Seq(Entries(S)) /\ Len(Unresolved(new)) = Len(new)
  BY <1>1, <1>2
<1>4. \A k \in 1 .. Len(new) : Unresolved(new)[k].instr = new[k] /\ ~Unresolved(new)[k].executed
  BY <1>1 DEF Unresolved
<1> QED
  BY <1>3, <1>4 DEF Schedules, SkipsEqual

(* A fit is a match of the first instruction, so that the search skips none. *)
LEMMA FitMatches ==
  ASSUME NEW S, \A i \in S : i.type \in Types, NEW new \in Seq(S), new # <<>>,
         NEW old, Len(old) \in Nat, NEW min \in Nat,
         \A k \in 1 .. Len(old) : old[k] # NoInstruction,
         NEW f \in min .. Len(old) - 1, FitsAll(new, old, f, Len(new))
  PROVE  f \in Matches(new, old, min)
<1>1. 1 \in 1 .. Len(new) /\ new[1] \in S
  OBVIOUS
<1>2. f + 1 \in 1 .. Len(old) /\ MaskAt(old, f, 1) = old[f + 1]
  BY DEF MaskAt
<1>3. Fits(new[1], old[f + 1])
  BY <1>1, <1>2 DEF FitsAll
<1>4. /\ new[1].type # "remove_service" /\ Like(new[1], old[f + 1])
      /\ old[f + 1] # NoInstruction
  BY <1>2, <1>3 DEF Fits
<1> DEFINE status == Resolve(new[1], old[f + 1], {})
<1>5. /\ status \in {"abort", "unknown", "update", "equal"}
      /\ status = "abort" <=> new[1].type = "remove_service"
      /\ new[1].type # "remove_service" =>
           (status = "unknown" <=> old[f + 1] = NoInstruction \/ ~Like(new[1], old[f + 1]))
  BY <1>1, Resolution
<1>6. status \in {"equal", "update"}
  BY <1>4, <1>5
<1> QED
  BY <1>6 DEF Matches

LEMMA OneAttempt ==
  ASSUME NEW S, \A i \in S : i.type \in Types, NEW U, \A i \in S : Tracked(i) => i.name \in U,
         NEW new \in Seq(S), NEW old, Len(old) \in Nat,
         \A k \in 1 .. Len(old) : old[k] # NoInstruction,
         NEW min \in FirstPossible(new, old) .. Len(old), FirstPossible(new, old) \in Nat,
         NEW acc \in Tried(S, U, old)
  PROVE  /\ Attempt(new, old, acc, min) \in Tried(S, U, old)
         /\ SearchOk(acc, S, U, new, old, min)
              => SearchOk(Attempt(new, old, acc, min), S, U, new, old, min + 1)
<1> DEFINE M == Matches(new, old, min)
           from == IF M = {} THEN Len(old) ELSE Min(M)
           try == Interpretation(new, old, from, acc.updated)
           first == FirstPossible(new, old)
           n == Len(new)
           ok == SearchOk(acc, S, U, new, old, min)
<1>1. CASE acc.found
  BY <1>1 DEF Attempt, SearchOk
<1>2. M \in SUBSET (min .. Len(old) - 1) /\ M \in SUBSET Nat
  BY DEF Matches
<1>3. M # {} => from \in M /\ \A k \in M : from <= k
  BY <1>2, MinOf
<1>4. from \in min .. Len(old) /\ from \in 0 .. Len(old)
      /\ (from = Len(old) <=> M = {})
  BY <1>2, <1>3
<1>5. new # <<>> => \A f \in min .. from - 1 : ~FitsAll(new, old, f, n)
  <2> SUFFICES ASSUME new # <<>>, NEW f \in min .. from - 1, FitsAll(new, old, f, n)
               PROVE  FALSE
    OBVIOUS
  <2>1. f \in min .. Len(old) - 1 /\ min \in Nat /\ f < from
    BY <1>4
  <2>2. f \in M
    BY <2>1, FitMatches
  <2> HIDE DEF M, from
  <2>3. from <= f /\ f \in Nat /\ from \in Nat
    BY <1>3, <1>4, <2>1, <2>2
  <2> QED
    BY <2>1, <2>3
<1>6. ok /\ ~acc.found /\ new # <<>> => \A f \in first .. from - 1 : ~FitsAll(new, old, f, n)
  BY <1>4, <1>5 DEF SearchOk
<1>7. CASE ~acc.found /\ M = {}
  <2>1. Attempt(new, old, acc, min)
          = [found |-> TRUE, index |-> Len(old), seq |-> Unresolved(new), updated |-> acc.updated]
    BY <1>4, <1>7 DEF Attempt
  <2> PICK r : r = Attempt(new, old, acc, min)
    OBVIOUS
  <2>2. /\ Schedules(Unresolved(new), S, new, n)
        /\ SkipsEqual(Unresolved(new), new, old, Len(old), n)
        /\ Unresolved(new) \in Seq(Entries(S))
    BY Nothing DEF Schedules
  <2>3. r \in Tried(S, U, old) /\ r.found /\ r.index = Len(old) /\ r.seq = Unresolved(new)
    <3> HIDE DEF M, from, try
    <3>1. acc.updated \in SUBSET U
      BY DEF Tried
    <3>2. r.found = TRUE /\ r.index = Len(old) /\ r.seq = Unresolved(new)
      BY <2>1
    <3> QED
      BY <2>1, <2>2, <3>1, <3>2 DEF Tried
  <2>4. ok /\ new # <<>> => Least(new, old, Len(old))
    BY <1>4, <1>6, <1>7 DEF Least
  <2>5. Origin(r.seq, new, old, r.index, U)
    BY <2>3 DEF Origin
  <2> QED
    BY <2>2, <2>3, <2>4, <2>5 DEF SearchOk
<1>8. CASE ~acc.found /\ M # {}
  <2>1. acc.updated \in SUBSET U
    BY DEF Tried
  <2> HIDE DEF from
  <2>2. /\ try \in Accumulator(S, U)
        /\ Schedules(try.seq, S, new, n) /\ SkipsEqual(try.seq, new, old, from, n)
        /\ try.valid <=> FitsAll(new, old, from, n)
    BY <2>1, InterpretationOf
  <2>3. Attempt(new, old, acc, min)
          = [found |-> try.valid, index |-> from, seq |-> try.seq, updated |-> try.updated]
    BY <1>4, <1>8 DEF Attempt, from
  <2> HIDE DEF try
  <2> PICK r : r = Attempt(new, old, acc, min)
    OBVIOUS
  <2>4. r.index = from /\ r.seq = try.seq /\ (r.found <=> FitsAll(new, old, from, n))
    BY <2>2, <2>3
  <2>5. r \in Tried(S, U, old)
    BY <1>4, <2>2, <2>3 DEF Tried, Accumulator
  <2>6. ok /\ new # <<>> /\ r.found => Least(new, old, from)
    <3>1. from >= first /\ (ok /\ new # <<>> => \A f \in first .. from - 1 : ~FitsAll(new, old, f, n))
      BY <1>4, <1>6, <1>8
    <3> QED
      BY <2>4, <3>1 DEF Least
  <2>8. r.found => Origin(r.seq, new, old, r.index, U)
    BY <1>4, <2>1, <2>4 DEF Origin, try
  <2>7. ASSUME ok, ~r.found
        PROVE  min + 1 <= Len(old) /\ \A f \in first .. (min + 1) - 1 : ~FitsAll(new, old, f, n)
    <3>1. new # <<>> /\ from < Len(old) /\ min <= from /\ ~FitsAll(new, old, from, n)
      BY <1>4, <1>8, <2>4, <2>7 DEF Matches
    <3>2. \A f \in first .. (min + 1) - 1 : f \in first .. from - 1 \/ f = from
      BY <1>4, <3>1
    <3> QED
      BY <1>4, <1>6, <1>8, <2>7, <3>1, <3>2
  <2> QED
    BY <2>2, <2>4, <2>5, <2>6, <2>7, <2>8 DEF SearchOk
<1> QED
  BY <1>1, <1>7, <1>8

LEMMA FirstIs ==
  ASSUME NEW new, NEW old, Len(old) \in Nat, Len(new) \in Nat
  PROVE  /\ FirstPossible(new, old) \in 0 .. Len(old)
         /\ FirstPossible(new, old) >= Len(old) - Len(new)
         /\ \A f \in 0 .. FirstPossible(new, old) - 1 : Len(old) - f > Len(new)
BY DEF FirstPossible

(* InterpretAndOptimizePlan, of every plan and every script: the script's  *)
(* instructions are scheduled, those skipped are in the plan past the      *)
(* index, and the index is the least that fits.                            *)
LEMMA Search ==
  ASSUME NEW S, \A i \in S : i.type \in Types, NEW new \in Seq(S), NEW old, Len(old) \in Nat,
         \A k \in 1 .. Len(old) : old[k] # NoInstruction
  PROVE  LET r == OptimizedPlan(new, old)
         IN /\ r.index \in 0 .. Len(old)
            /\ Schedules(r.seq, S, new, Len(new))
            /\ SkipsEqual(r.seq, new, old, r.index, Len(new))
            /\ Origin(r.seq, new, old, r.index, Tracks(S))
            /\ new # <<>> => Least(new, old, r.index)
<1> DEFINE U == Tracks(S)
           T == Tried(S, U, old)
           first == FirstPossible(new, old)
           end == Len(old) + 1
           b == [found |-> FALSE, index |-> 0, seq |-> <<>>, updated |-> {}]
           D(f) == [min \in first .. end |-> IF min = first THEN b
                                            ELSE Attempt(new, old, f[min - 1], min - 1)]
           step == [p \in T \X Nat |->
                      IF p[2] \in first + 1 .. end THEN Attempt(new, old, p[1], p[2] - 1) ELSE p[1]]
<1>1. /\ first \in Nat /\ end \in Nat /\ first <= end /\ first <= Len(old) /\ b \in T
      /\ \A i \in S : Tracked(i) => i.name \in U
  BY FirstIs DEF Tried, Tracks
<1>0. U = Tracks(S)
  OBVIOUS
<1> HIDE DEF U
<1>2. ASSUME NEW acc \in T, NEW min \in first .. Len(old)
      PROVE  /\ Attempt(new, old, acc, min) \in T
             /\ SearchOk(acc, S, U, new, old, min)
                  => SearchOk(Attempt(new, old, acc, min), S, U, new, old, min + 1)
  BY <1>1, OneAttempt
<1>3. step \in [T \X Nat -> T]
  <2>1. ASSUME NEW p \in T \X Nat, p[2] \in first + 1 .. end
        PROVE  Attempt(new, old, p[1], p[2] - 1) \in T
    <3>1. p[1] \in T /\ p[2] - 1 \in first .. Len(old)
      BY <1>1, <2>1
    <3> HIDE DEF T, first, end
    <3> QED
      BY <1>2, <3>1
  <2> HIDE DEF T, first, end
  <2> QED
    BY <2>1
<1>4. PICK it : Iterates(it, T, b, first, end, step)
  <2> HIDE DEF T, first, end, b, step, D
  <2> QED
    BY <1>1, <1>3, Iteration
<1>5. /\ it \in [first .. end -> T] /\ it[first] = b
      /\ \A min \in first + 1 .. end : it[min] = Attempt(new, old, it[min - 1], min - 1)
  <2>1. /\ it \in [first .. end -> T] /\ it[first] = b
        /\ \A k \in first + 1 .. end : it[k] = step[<<it[k - 1], k>>]
    BY <1>4 DEF Iterates
  <2> SUFFICES ASSUME NEW min \in first + 1 .. end
               PROVE  it[min] = Attempt(new, old, it[min - 1], min - 1)
    BY <2>1
  <2>2. min - 1 \in first .. end /\ min \in Nat
    BY <1>1
  <2>3. <<it[min - 1], min>> \in T \X Nat
    BY <2>1, <2>2
  <2>4. it[min] = step[<<it[min - 1], min>>]
    BY <2>1
  <2> QED
    BY <2>3, <2>4
<1> HIDE DEF step, T
<1>6. D(it) = it
  <2>1. \A k \in first .. end :
          it[k] = IF k = first THEN b ELSE Attempt(new, old, it[k - 1], k - 1)
    <3>1. ASSUME NEW k \in first .. end, k # first PROVE k \in first + 1 .. end
      BY <1>1, <3>1
    <3> HIDE DEF first, end, b, D
    <3> QED
      BY <1>5, <3>1
  <2>2. it \in [first .. end -> T]
    BY <1>5
  <2> HIDE DEF first, end, b
  <2> QED
    BY <2>1, <2>2
<1> DEFINE tried == CHOOSE f : f = D(f)
<1>7. tried = D(tried)
  BY <1>6
<1>8. OptimizedPlan(new, old) = [index |-> tried[end].index, seq |-> tried[end].seq]
  BY DEF OptimizedPlan
<1> HIDE DEF tried
<1>9. \A k \in first .. end : k \in {j \in first .. end : tried[j] = it[j]}
  <2> DEFINE G == {j \in first .. end : tried[j] = it[j]}
  <2>1. first \in G
    BY <1>1, <1>5, <1>7
  <2>2. ASSUME NEW k \in first + 1 .. end, k - 1 \in G PROVE k \in G
    <3>1. k \in first .. end /\ k # first /\ tried[k - 1] = it[k - 1]
      BY <1>1, <2>2
    <3>2. D(tried)[k] = Attempt(new, old, tried[k - 1], k - 1)
      BY <1>1, <3>1
    <3>3. tried[k] = Attempt(new, old, tried[k - 1], k - 1)
      <4> HIDE DEF D
      <4> QED
        BY <1>7, <3>2
    <3> QED
      BY <1>5, <3>1, <3>3
  <2> HIDE DEF G, first, end
  <2> QED
    BY <1>1, <2>1, <2>2, FromTo DEF G
<1>10. \A k \in first .. end : k \in {j \in first .. end : SearchOk(it[j], S, U, new, old, j)}
  <2> DEFINE G == {j \in first .. end : SearchOk(it[j], S, U, new, old, j)}
  <2>1. first \in G
    BY <1>1, <1>5 DEF SearchOk
  <2>2. ASSUME NEW k \in first + 1 .. end, k - 1 \in G PROVE k \in G
    <3>1. k \in first .. end /\ k - 1 \in first .. Len(old) /\ it[k - 1] \in T /\ (k - 1) + 1 = k
      BY <1>1, <1>5
    <3> HIDE DEF first, end
    <3>2. SearchOk(it[k - 1], S, U, new, old, k - 1)
      BY <2>2
    <3>3. SearchOk(Attempt(new, old, it[k - 1], k - 1), S, U, new, old, (k - 1) + 1)
      BY <1>2, <3>1, <3>2
    <3> QED
      BY <1>5, <3>1, <3>3
  <2> HIDE DEF G, first, end
  <2> QED
    BY <1>1, <2>1, <2>2, FromTo DEF G
<1>11. PICK acc : acc = it[end]
  OBVIOUS
<1>12. acc \in T /\ SearchOk(acc, S, U, new, old, end) /\ tried[end] = acc
  BY <1>1, <1>5, <1>9, <1>10, <1>11
<1>13. acc.found
  BY <1>12 DEF SearchOk
<1>14. acc.index \in 0 .. Len(old)
  BY <1>12 DEF T, Tried
<1>15. /\ Schedules(acc.seq, S, new, Len(new))
       /\ SkipsEqual(acc.seq, new, old, acc.index, Len(new))
       /\ Origin(acc.seq, new, old, acc.index, U)
       /\ new # <<>> => Least(new, old, acc.index)
  BY <1>12, <1>13 DEF SearchOk
<1>16. Origin(acc.seq, new, old, acc.index, Tracks(S))
  BY <1>0, <1>15
<1> PICK r : r = OptimizedPlan(new, old)
  OBVIOUS
<1>17. r.index = acc.index /\ r.seq = acc.seq
  BY <1>8, <1>12
<1> QED
  BY <1>14, <1>15, <1>16, <1>17

-----------------------------------------------------------------------------
(* What replaying instructions makes of an enclave, one instruction at a   *)
(* time.                                                                   *)
Instrs(S) ==
  /\ \A i \in S : i.type \in Types /\ i.name \in Names /\ i.files \subseteq Names
  /\ TasksApart(S)

Args(S) == {i.arg : i \in S}
Configs(S) == Args(S) \cup {"missing", "broken"}
Mounts(S) == SUBSET (Names \X Configs(S))
Components(S) == [config : Configs(S), mounts : Mounts(S), execs : SUBSET Args(S)]
States(S) == [Names -> Components(S)]

LEMMA NewEnclaveIs == ASSUME NEW S PROVE NewEnclave \in States(S)
BY DEF NewEnclave, States, Components, Missing, Component, Configs, Mounts

LEMMA ComponentIs ==
  ASSUME NEW S, NEW config \in Configs(S), NEW mounts \in Mounts(S), NEW execs \in SUBSET Args(S)
  PROVE  Component(config, mounts, execs) \in Components(S)
BY DEF Component, Components

LEMMA ComponentOf ==
  ASSUME NEW S, NEW x \in Components(S)
  PROVE  /\ x = Component(x.config, x.mounts, x.execs)
         /\ x.config \in Configs(S) /\ x.mounts \in Mounts(S) /\ x.execs \in SUBSET Args(S)
BY DEF Components, Component

(* What one instruction does: to the component it names, and to no other.  *)
Effect(r, s, i, made) ==
  /\ \A c \in Names \ {i.name} : r[c] = s[c]
  /\ i.type \notin {"remove_service", "exec"} => r[i.name] = Component(i.arg, made, {})
  /\ i.type = "remove_service" => r[i.name] = Missing
  /\ i.type = "exec" /\ ~Runs(s, i.name) => r[i.name] = s[i.name]
  /\ i.type = "exec" /\ Runs(s, i.name) =>
       r[i.name] = Component(s[i.name].config, s[i.name].mounts, s[i.name].execs \cup {i.arg})

Makings(s, i) == IF i.type = "upload_files" THEN {} ELSE Mounted(s, i)

LEMMA AppliedTo ==
  ASSUME NEW S, NEW s \in States(S),
         NEW i, i.type \in Types, i.name \in Names, i.files \subseteq Names, i.arg \in Args(S)
  PROVE  Applied(s, i) \in States(S) /\ Effect(Applied(s, i), s, i, Makings(s, i))
<1> DEFINE C == Components(S)
<1>2. s \in [Names -> C]
  BY DEF States
<1>4. i.arg \in Configs(S) /\ {} \in Mounts(S) /\ {} \in SUBSET Args(S)
  BY DEF Configs, Mounts
<1>5. Makings(s, i) \in Mounts(S)
  <2>1. ASSUME NEW f \in i.files PROVE s[f].config \in Configs(S) /\ s[f].mounts \in Mounts(S)
    <3>1. s[f] \in Components(S)
      BY <1>2
    <3> QED
      BY <3>1, ComponentOf
  <2>2. {<<f, s[f].config>> : f \in i.files} \in Mounts(S)
    BY <2>1 DEF Mounts
  <2>3. UNION {s[f].mounts : f \in i.files} \in Mounts(S)
    BY <2>1 DEF Mounts
  <2> QED
    BY <1>4, <2>2, <2>3 DEF Makings, Mounted, Mounts
<1>6. CASE i.type \notin {"remove_service", "exec"}
  <2> DEFINE x == Component(i.arg, Makings(s, i), {})
  <2>1. x \in C
    BY <1>4, <1>5, ComponentIs
  <2>2. Applied(s, i) = [s EXCEPT ![i.name] = x]
    <3>1. CASE i.type \in {"add_service", "add_services"}
      BY <3>1 DEF Applied, ServiceAdded, Makings
    <3>2. CASE i.type = "upload_files"
      BY <3>2 DEF Applied, FilesUploaded, Makings
    <3>3. CASE i.type = "run_sh"
      BY <3>3 DEF Applied, FilesStored, Makings
    <3> QED
      BY <1>6, <3>1, <3>2, <3>3 DEF Types
  <2> HIDE DEF x
  <2>3. /\ Applied(s, i) \in States(S) /\ Applied(s, i)[i.name] = x
        /\ \A c \in Names \ {i.name} : Applied(s, i)[c] = s[c]
    BY <1>2, <2>1, <2>2 DEF States
  <2> QED
    BY <1>6, <2>3 DEF Effect, x
<1>7. CASE i.type = "remove_service"
  <2>1. Missing \in C
    BY <1>4, ComponentIs DEF Missing, Configs
  <2>2. Applied(s, i) = [s EXCEPT ![i.name] = Missing]
    BY <1>7 DEF Applied, ServiceRemoved
  <2>3. /\ Applied(s, i) \in States(S) /\ Applied(s, i)[i.name] = Missing
        /\ \A c \in Names \ {i.name} : Applied(s, i)[c] = s[c]
    BY <1>2, <2>1, <2>2 DEF States
  <2> QED
    BY <1>7, <2>3 DEF Effect
<1>8. CASE i.type = "exec" /\ ~Runs(s, i.name)
  BY <1>8 DEF Applied, CommandRun, Effect
<1>9. CASE i.type = "exec" /\ Runs(s, i.name)
  <2> PICK y : y = s[i.name]
    OBVIOUS
  <2> DEFINE x == Component(y.config, y.mounts, y.execs \cup {i.arg})
  <2>1. y \in C
    BY <1>2
  <2>2. x \in C
    BY <2>1, ComponentIs, ComponentOf
  <2>3. [y EXCEPT !.execs = @ \cup {i.arg}] = x
    BY <2>1 DEF Component, Components
  <2>4. Applied(s, i) = [s EXCEPT ![i.name] = x]
    BY <1>9, <2>3 DEF Applied, CommandRun
  <2>5. x = Component(s[i.name].config, s[i.name].mounts, s[i.name].execs \cup {i.arg})
    OBVIOUS
  <2> HIDE DEF x
  <2>6. /\ Applied(s, i) \in States(S) /\ Applied(s, i)[i.name] = x
        /\ \A c \in Names \ {i.name} : Applied(s, i)[c] = s[c]
    BY <1>2, <2>2, <2>4 DEF States
  <2> QED
    BY <1>9, <2>5, <2>6 DEF Effect
<1> QED
  BY <1>6, <1>7, <1>8, <1>9

(* The same, but for what the components that may be stale are made from:  *)
(* of those an instruction is taken to mount nothing.                      *)
Shown(S, s) == Seen(s, MayBeStale(S))

Bare(S, i) == [type |-> i.type, name |-> i.name, arg |-> i.arg,
               files |-> IF i.name \in MayBeStale(S) THEN {} ELSE i.files]

MadeFrom(S, s, i) == Makings(s, Bare(S, i))

Done(S, s, i) == Applied(s, Bare(S, i))

LEMMA DoneTo ==
  ASSUME NEW S, Instrs(S), NEW s \in States(S), NEW i \in S
  PROVE  Done(S, s, i) \in States(S) /\ Effect(Done(S, s, i), s, i, MadeFrom(S, s, i))
<1> PICK j : j = Bare(S, i)
  OBVIOUS
<1>1. /\ j.type = i.type /\ j.name = i.name /\ j.arg = i.arg
      /\ j.type \in Types /\ j.name \in Names /\ j.files \subseteq Names /\ j.arg \in Args(S)
  BY DEF Bare, Instrs, Args
<1>2. Applied(s, j) \in States(S) /\ Effect(Applied(s, j), s, j, Makings(s, j))
  BY <1>1, AppliedTo
<1> QED
  BY <1>1, <1>2 DEF Done, MadeFrom, Effect

LEMMA StaleSpreads ==
  ASSUME NEW S, Instrs(S), NEW i \in S, Heedless(i) \/ i.files \cap MayBeStale(S) # {}
  PROVE  i.name \in MayBeStale(S)
<1>1. i.name \in Names
  BY DEF Instrs
<1>2. ASSUME NEW T \in SUBSET Names, Spreads(T, S) PROVE i.name \in T
  <2>1. MayBeStale(S) \subseteq T
    BY <1>2 DEF MayBeStale
  <2> QED
    BY <1>2, <2>1 DEF Spreads
<1> QED
  BY <1>1, <1>2 DEF MayBeStale

(* A task, and services added together, are not looked at for what they    *)
(* are made from; what others are is the same where what they mount is.    *)
LEMMA MadeOfNothing ==
  ASSUME NEW S, Instrs(S), NEW i \in S, i.type \in {"add_services", "run_sh"}, NEW s
  PROVE  MadeFrom(S, s, i) = {}
<1>1. Bare(S, i).files = {}
  <2>1. CASE i.files = {}
    BY <2>1 DEF Bare
  <2>2. CASE i.files # {}
    BY <2>2, StaleSpreads DEF Bare, Heedless
  <2> QED
    BY <2>1, <2>2
<1> QED
  BY <1>1 DEF MadeFrom, Makings, Mounted

LEMMA MadeAlike ==
  ASSUME NEW S, NEW i \in S, NEW x, NEW y,
         \A f \in i.files : x[f].config = y[f].config /\ x[f].mounts = y[f].mounts
  PROVE  MadeFrom(S, x, i) = MadeFrom(S, y, i)
<1> PICK j : j = Bare(S, i)
  OBVIOUS
<1>1. \A f \in j.files : x[f].config = y[f].config /\ x[f].mounts = y[f].mounts
  BY DEF Bare
<1>2. {<<f, x[f].config>> : f \in j.files} = {<<f, y[f].config>> : f \in j.files}
  BY <1>1
<1>3. {x[f].mounts : f \in j.files} = {y[f].mounts : f \in j.files}
  BY <1>1
<1> QED
  BY <1>2, <1>3 DEF MadeFrom, Makings, Mounted

LEMMA ShownIs ==
  ASSUME NEW S, NEW s \in States(S)
  PROVE  /\ Shown(S, s) \in States(S)
         /\ \A c \in Names : Shown(S, s)[c] = IF c \in MayBeStale(S)
                                              THEN Component(s[c].config, {}, s[c].execs) ELSE s[c]
         /\ \A c \in Names : Runs(Shown(S, s), c) <=> Runs(s, c)
<1>1. ASSUME NEW c \in Names
      PROVE  /\ s[c] \in Components(S)
             /\ [s[c] EXCEPT !.mounts = {}] = Component(s[c].config, {}, s[c].execs)
             /\ Component(s[c].config, {}, s[c].execs) \in Components(S)
  <2>1. s[c] \in Components(S)
    BY DEF States
  <2>2. PICK x \in Components(S) : x = s[c]
    BY <2>1
  <2>3. [x EXCEPT !.mounts = {}] = Component(x.config, {}, x.execs)
    BY DEF Components, Component
  <2>4. {} \in Mounts(S)
    BY DEF Mounts
  <2> QED
    BY <2>2, <2>3, <2>4, ComponentOf, ComponentIs
<1>2. \A c \in Names : Shown(S, s)[c] = IF c \in MayBeStale(S)
                                        THEN Component(s[c].config, {}, s[c].execs) ELSE s[c]
  BY <1>1 DEF Shown, Seen
<1>3. Shown(S, s) = [c \in Names |-> Shown(S, s)[c]]
  BY DEF Shown, Seen
<1>4. Shown(S, s) \in States(S)
  BY <1>1, <1>2, <1>3 DEF States
<1>5. ASSUME NEW c \in Names PROVE Shown(S, s)[c].config = s[c].config
  <2>1. Component(s[c].config, {}, s[c].execs).config = s[c].config
    BY DEF Component
  <2> QED
    BY <1>2, <2>1
<1> QED
  BY <1>2, <1>4, <1>5 DEF Runs

LEMMA ShownAgain ==
  ASSUME NEW S PROVE Shown(S, NewEnclave) = NewEnclave
<1>1. ASSUME NEW c \in Names PROVE Shown(S, NewEnclave)[c] = NewEnclave[c]
  <2>1. NewEnclave[c] = Missing
    BY DEF NewEnclave
  <2>2. Component(Missing.config, {}, Missing.execs) = Missing
    BY DEF Missing, Component
  <2>3. Shown(S, NewEnclave)[c] = IF c \in MayBeStale(S)
          THEN Component(NewEnclave[c].config, {}, NewEnclave[c].execs) ELSE NewEnclave[c]
    BY NewEnclaveIs, ShownIs
  <2> QED
    BY <2>1, <2>2, <2>3
<1> QED
  BY <1>1, NewEnclaveIs, ShownIs DEF States

(* Instructions do to what is shown of an enclave what is shown of what    *)
(* they do to it.                                                          *)
LEMMA ShownDone ==
  ASSUME NEW S, Instrs(S), NEW s \in States(S), NEW i \in S
  PROVE  /\ Applied(s, i) \in States(S)
         /\ Shown(S, Applied(s, i)) = Done(S, Shown(S, s), i)
<1> PICK t : t = Shown(S, s)
  OBVIOUS
<1> PICK r : r = Applied(s, i)
  OBVIOUS
<1> PICK d : d = Done(S, t, i)
  OBVIOUS
<1> PICK stale : stale = MayBeStale(S)
  OBVIOUS
<1>1. i.type \in Types /\ i.name \in Names /\ i.files \subseteq Names /\ i.arg \in Args(S)
  BY DEF Instrs, Args
<1>2. r \in States(S) /\ Effect(r, s, i, Makings(s, i))
  BY <1>1, AppliedTo
<1>3. /\ t \in States(S) /\ \A c \in Names : Runs(t, c) <=> Runs(s, c)
      /\ \A c \in Names : t[c] = IF c \in stale THEN Component(s[c].config, {}, s[c].execs) ELSE s[c]
  BY ShownIs
<1>4. d \in States(S) /\ Effect(d, t, i, MadeFrom(S, t, i))
  BY <1>3, DoneTo
<1>5. /\ Shown(S, r) \in States(S)
      /\ \A c \in Names :
           Shown(S, r)[c] = IF c \in stale THEN Component(r[c].config, {}, r[c].execs) ELSE r[c]
  BY <1>2, ShownIs
<1>6. \A config, mounts, execs :
        /\ Component(config, mounts, execs).config = config
        /\ Component(config, mounts, execs).mounts = mounts
        /\ Component(config, mounts, execs).execs = execs
  BY DEF Component
<1>7. ASSUME NEW c \in Names, c # i.name PROVE Shown(S, r)[c] = d[c]
  <2>1. r[c] = s[c] /\ d[c] = t[c]
    BY <1>2, <1>4, <1>7 DEF Effect
  <2> QED
    BY <1>3, <1>5, <2>1
<1> PICK c \in Names : c = i.name
  BY <1>1
<1> SUFFICES Shown(S, r)[c] = d[c]
  BY <1>2, <1>4, <1>5, <1>7 DEF States
<1>8. CASE i.type \notin {"remove_service", "exec"}
  <2>1. r[c] = Component(i.arg, Makings(s, i), {}) /\ d[c] = Component(i.arg, MadeFrom(S, t, i), {})
    BY <1>2, <1>4, <1>8 DEF Effect
  <2>2. CASE c \in stale
    <3>1. MadeFrom(S, t, i) = {}
      BY <2>2 DEF MadeFrom, Makings, Mounted, Bare
    <3>2. Shown(S, r)[c] = Component(i.arg, {}, {})
      BY <1>5, <1>6, <2>1, <2>2
    <3> QED
      BY <1>7, <2>1, <3>1, <3>2
  <2>3. CASE c \notin stale
    <3>1. i.files \cap stale = {}
      BY <2>3, StaleSpreads
    <3>2. \A f \in i.files : t[f] = s[f]
      BY <1>1, <1>3, <3>1
    <3>3. MadeFrom(S, t, i) = MadeFrom(S, s, i)
      BY <3>2, MadeAlike
    <3>4. MadeFrom(S, s, i) = Makings(s, i)
      BY <2>3 DEF MadeFrom, Makings, Mounted, Bare
    <3> QED
      BY <1>5, <2>1, <2>3, <3>3, <3>4
  <2> QED
    BY <2>2, <2>3
<1>9. CASE i.type = "remove_service"
  <2>1. r[c] = Missing /\ d[c] = Missing
    BY <1>2, <1>4, <1>9 DEF Effect
  <2>2. Component(r[c].config, {}, r[c].execs) = Missing
    BY <1>6, <2>1 DEF Missing
  <2> QED
    BY <1>5, <2>1, <2>2
<1>10. CASE i.type = "exec" /\ ~Runs(s, c)
  <2>1. r[c] = s[c] /\ d[c] = t[c]
    BY <1>2, <1>3, <1>4, <1>10 DEF Effect
  <2> QED
    BY <1>3, <1>5, <2>1
<1>11. CASE i.type = "exec" /\ Runs(s, c)
  <2>1. /\ r[c] = Component(s[c].config, s[c].mounts, s[c].execs \cup {i.arg})
        /\ d[c] = Component(t[c].config, t[c].mounts, t[c].execs \cup {i.arg})
    BY <1>2, <1>3, <1>4, <1>11 DEF Effect
  <2>2. CASE c \in stale
    <3>1. t[c] = Component(s[c].config, {}, s[c].execs)
      BY <1>3, <2>2
    <3>2. t[c].config = s[c].config /\ t[c].mounts = {} /\ t[c].execs = s[c].execs
      BY <1>6, <3>1
    <3>3. Shown(S, r)[c] = Component(r[c].config, {}, r[c].execs)
      BY <1>5, <2>2
    <3>4. r[c].config = s[c].config /\ r[c].execs = s[c].execs \cup {i.arg}
      BY <1>6, <2>1
    <3> QED
      BY <2>1, <3>2, <3>3, <3>4
  <2>3. CASE c \notin stale
    <3>1. t[c] = s[c] /\ Shown(S, r)[c] = r[c]
      BY <1>3, <1>5, <2>3
    <3> QED
      BY <2>1, <3>1
  <2> QED
    BY <2>2, <2>3
<1> QED
  BY <1>8, <1>9, <1>10, <1>11

(* The enclaves a replay, and a plan's run, show on their way.             *)
Replayed(a, S, instrs, world) ==
  /\ a \in [0 .. Len(instrs) -> States(S)] /\ a[0] = world
  /\ \A k \in 1 .. Len(instrs) : a[k] = Done(S, a[k - 1], instrs[k])

LEMMA ReplayIterates ==
  ASSUME NEW S, Instrs(S), NEW instrs \in Seq(S), NEW world \in States(S)
  PROVE  /\ Replay(instrs, world) \in States(S)
         /\ \E a : /\ Replayed(a, S, instrs, Shown(S, world))
                   /\ a[Len(instrs)] = Shown(S, Replay(instrs, world))
<1> DEFINE n == Len(instrs)
           T == States(S)
           D(f) == [k \in 0 .. n |-> IF k = 0 THEN world ELSE Applied(f[k - 1], instrs[k])]
           step == [p \in T \X Nat |-> IF p[2] \in 1 .. n THEN Applied(p[1], instrs[p[2]]) ELSE p[1]]
<1>1. n \in Nat /\ \A k \in 1 .. n : instrs[k] \in S
  OBVIOUS
<1>2. step \in [T \X Nat -> T]
  <2>1. ASSUME NEW p \in T \X Nat, p[2] \in 1 .. n PROVE Applied(p[1], instrs[p[2]]) \in T
    BY <1>1, <2>1, ShownDone
  <2> HIDE DEF T, n
  <2> QED
    BY <2>1
<1>3. PICK it \in [0 .. n -> T] : it[0] = world /\ \A k \in 1 .. n : it[k] = step[<<it[k - 1], k>>]
  <2> HIDE DEF n, T, D, step
  <2>1. 0 \in Nat /\ 0 <= n /\ n \in Nat /\ 0 + 1 = 1
    BY <1>1
  <2>2. world \in T
    BY DEF T
  <2>3. \E it : Iterates(it, T, world, 0, n, step)
    BY <1>2, <2>1, <2>2, Iteration
  <2> QED
    BY <2>1, <2>3 DEF Iterates
<1>4. \A k \in 1 .. n : it[k] = Applied(it[k - 1], instrs[k])
  <2> SUFFICES ASSUME NEW k \in 1 .. n PROVE it[k] = Applied(it[k - 1], instrs[k])
    OBVIOUS
  <2>1. k - 1 \in 0 .. n /\ k \in Nat
    BY <1>1
  <2>2. <<it[k - 1], k>> \in T \X Nat
    BY <1>3, <2>1
  <2>3. it[k] = step[<<it[k - 1], k>>]
    BY <1>3
  <2> QED
    BY <2>2, <2>3
<1>5. D(it) = it
  BY <1>1, <1>3, <1>4
<1> DEFINE after == CHOOSE f : f = D(f)
<1>6. after = D(after)
  BY <1>5
<1>7. Replay(instrs, world) = after[n]
  BY DEF Replay
<1>8. after[n] = it[n]
  <2> HIDE DEF after
  <2> DEFINE G == {k \in 0 .. n : after[k] = it[k]}
  <2>1. 0 \in G
    BY <1>1, <1>3, <1>6
  <2>2. ASSUME NEW k \in 0 + 1 .. n, k - 1 \in G PROVE k \in G
    <3>1. k \in 1 .. n /\ after[k - 1] = it[k - 1]
      BY <2>2
    <3>2. after[k] = Applied(after[k - 1], instrs[k])
      <4>1. D(after)[k] = Applied(after[k - 1], instrs[k])
        BY <1>1, <3>1
      <4> HIDE DEF D
      <4> QED
        BY <1>6, <4>1
    <3> QED
      BY <1>1, <1>4, <3>1, <3>2
  <2>3. \A k \in 0 .. n : k \in G
    <3> HIDE DEF G, n
    <3> QED
      BY <1>1, <2>1, <2>2, FromTo
  <2> QED
    BY <1>1, <2>3
<1>9. Replay(instrs, world) = it[n] /\ it[n] \in States(S)
  BY <1>1, <1>3, <1>7, <1>8
<1> HIDE DEF after, step, D
<1> DEFINE a == [k \in 0 .. n |-> Shown(S, it[k])]
<1>10. ASSUME NEW k \in 1 .. n PROVE a[k] = Done(S, a[k - 1], instrs[k])
  <2>1. k - 1 \in 0 .. n /\ k \in 0 .. n /\ it[k - 1] \in States(S) /\ instrs[k] \in S
    BY <1>1, <1>3
  <2>2. Shown(S, it[k]) = Done(S, Shown(S, it[k - 1]), instrs[k])
    BY <1>4, <2>1, ShownDone
  <2> QED
    BY <2>1, <2>2
<1>11. a \in [0 .. n -> States(S)] /\ a[0] = Shown(S, world) /\ a[n] = Shown(S, it[n])
  BY <1>1, <1>3, ShownIs
<1> HIDE DEF a
<1>12. Replayed(a, S, instrs, Shown(S, world))
  BY <1>10, <1>11 DEF Replayed
<1> QED
  BY <1>9, <1>11, <1>12

Ran(b, S, seq, world) ==
  /\ b \in [0 .. Len(seq) -> States(S)] /\ b[0] = world
  /\ \A k \in 1 .. Len(seq) :
       b[k] = IF seq[k].executed THEN b[k - 1] ELSE Done(S, b[k - 1], seq[k].instr)

LEMMA RunPlanIterates ==
  ASSUME NEW S, Instrs(S), NEW seq \in Seq(Entries(S)), NEW world \in States(S)
  PROVE  \E b : Ran(b, S, seq, Shown(S, world)) /\ b[Len(seq)] = Shown(S, RunPlan(seq, world))
<1> DEFINE n == Len(seq)
           T == States(S)
           One(s, entry) == IF entry.executed THEN s ELSE Applied(s, entry.instr)
           D(f) == [k \in 0 .. n |-> IF k = 0 THEN world ELSE One(f[k - 1], seq[k])]
           step == [p \in T \X Nat |-> IF p[2] \in 1 .. n THEN One(p[1], seq[p[2]]) ELSE p[1]]
<1>1. n \in Nat /\ \A k \in 1 .. n : seq[k] \in Entries(S)
  OBVIOUS
<1>2. step \in [T \X Nat -> T]
  <2>1. ASSUME NEW p \in T \X Nat, p[2] \in 1 .. n PROVE One(p[1], seq[p[2]]) \in T
    <3>1. seq[p[2]].instr \in S
      BY <1>1, <2>1 DEF Entries
    <3> QED
      BY <2>1, <3>1, ShownDone
  <2> HIDE DEF T, n, One
  <2> QED
    BY <2>1
<1>3. PICK it \in [0 .. n -> T] : it[0] = world /\ \A k \in 1 .. n : it[k] = step[<<it[k - 1], k>>]
  <2> HIDE DEF n, T, D, step
  <2>1. 0 \in Nat /\ 0 <= n /\ n \in Nat /\ 0 + 1 = 1
    BY <1>1
  <2>2. world \in T
    BY DEF T
  <2>3. \E it : Iterates(it, T, world, 0, n, step)
    BY <1>2, <2>1, <2>2, Iteration
  <2> QED
    BY <2>1, <2>3 DEF Iterates
<1>4. \A k \in 1 .. n : it[k] = One(it[k - 1], seq[k])
  <2> SUFFICES ASSUME NEW k \in 1 .. n PROVE it[k] = One(it[k - 1], seq[k])
    OBVIOUS
  <2>1. k - 1 \in 0 .. n /\ k \in Nat
    BY <1>1
  <2>2. <<it[k - 1], k>> \in T \X Nat
    BY <1>3, <2>1
  <2>3. it[k] = step[<<it[k - 1], k>>]
    BY <1>3
  <2> HIDE DEF One, T
  <2> QED
    BY <2>2, <2>3
<1>5. D(it) = it
  <2> HIDE DEF One, T
  <2> QED
    BY <1>1, <1>3, <1>4
<1> DEFINE after == CHOOSE f : f = D(f)
<1>6. after = D(after)
  BY <1>5
<1>7. RunPlan(seq, world) = after[n]
  BY DEF RunPlan
<1>8. after[n] = it[n]
  <2> HIDE DEF after, One
  <2> DEFINE G == {k \in 0 .. n : after[k] = it[k]}
  <2>1. 0 \in G
    BY <1>1, <1>3, <1>6
  <2>2. ASSUME NEW k \in 0 + 1 .. n, k - 1 \in G PROVE k \in G
    <3>1. k \in 1 .. n /\ after[k - 1] = it[k - 1]
      BY <2>2
    <3>2. after[k] = One(after[k - 1], seq[k])
      <4>1. D(after)[k] = One(after[k - 1], seq[k])
        BY <1>1, <3>1
      <4> HIDE DEF D
      <4> QED
        BY <1>6, <4>1
    <3> QED
      BY <1>1, <1>4, <3>1, <3>2
  <2>3. \A k \in 0 .. n : k \in G
    <3> HIDE DEF G, n
    <3> QED
      BY <1>1, <2>1, <2>2, FromTo
  <2> QED
    BY <1>1, <2>3
<1>9. RunPlan(seq, world) = it[n]
  BY <1>7, <1>8
<1> HIDE DEF after, step, D
<1> DEFINE b == [k \in 0 .. n |-> Shown(S, it[k])]
<1>10. ASSUME NEW k \in 1 .. n
       PROVE  b[k] = IF seq[k].executed THEN b[k - 1] ELSE Done(S, b[k - 1], seq[k].instr)
  <2>1. k - 1 \in 0 .. n /\ k \in 0 .. n /\ it[k - 1] \in States(S) /\ seq[k].instr \in S
    BY <1>1, <1>3 DEF Entries
  <2>2. Shown(S, Applied(it[k - 1], seq[k].instr)) = Done(S, Shown(S, it[k - 1]), seq[k].instr)
    BY <2>1, ShownDone
  <2> QED
    BY <1>4, <2>1, <2>2
<1>11. b \in [0 .. n -> States(S)] /\ b[0] = Shown(S, world) /\ b[n] = Shown(S, it[n])
  BY <1>1, <1>3, ShownIs
<1> HIDE DEF b
<1>12. Ran(b, S, seq, Shown(S, world))
  BY <1>10, <1>11 DEF Ran
<1> QED
  BY <1>9, <1>11, <1>12

(* Two sequences with the same beginning go through the same enclaves.     *)
LEMMA SamePrefix ==
  ASSUME NEW S, Instrs(S), NEW p \in Seq(S), NEW q \in Seq(S), NEW world,
         NEW a, Replayed(a, S, p, world), NEW b, Replayed(b, S, q, world),
         NEW n \in 0 .. Len(p), n <= Len(q), \A j \in 1 .. n : p[j] = q[j], NEW l \in 0 .. n
  PROVE  a[l] = b[l]
<1> DEFINE G == {j \in 0 .. n : a[j] = b[j]}
<1>1. 0 \in G
  BY DEF Replayed
<1>2. ASSUME NEW j \in 0 + 1 .. n, j - 1 \in G PROVE j \in G
  <2>1. j \in 1 .. Len(p) /\ j \in 1 .. Len(q) /\ j \in 1 .. n
    OBVIOUS
  <2>2. a[j] = Done(S, a[j - 1], p[j]) /\ b[j] = Done(S, b[j - 1], q[j]) /\ p[j] = q[j]
    BY <2>1 DEF Replayed
  <2> QED
    BY <1>2, <2>2
<1>3. l \in G
  <2> HIDE DEF G
  <2>1. 0 \in Nat /\ n \in Nat
    OBVIOUS
  <2> QED
    BY <1>1, <1>2, <2>1, FromTo
<1> QED
  BY <1>3

LEMMA ReplayIs ==
  ASSUME NEW S, Instrs(S), NEW instrs \in Seq(S), NEW world \in States(S),
         NEW a, Replayed(a, S, instrs, Shown(S, world))
  PROVE  a[Len(instrs)] = Shown(S, Replay(instrs, world))
<1>1. PICK b : /\ Replayed(b, S, instrs, Shown(S, world))
               /\ b[Len(instrs)] = Shown(S, Replay(instrs, world))
  BY ReplayIterates
<1>2. Len(instrs) \in 0 .. Len(instrs) /\ Len(instrs) <= Len(instrs)
  OBVIOUS
<1> QED
  BY <1>1, <1>2, SamePrefix

LEMMA ReplayedAnew ==
  ASSUME NEW S, Instrs(S), NEW instrs \in Seq(S)
  PROVE  /\ Replay(instrs, NewEnclave) \in States(S)
         /\ \E a : Replayed(a, S, instrs, NewEnclave)
         /\ \A a : Replayed(a, S, instrs, NewEnclave)
                  => a[Len(instrs)] = Shown(S, Replay(instrs, NewEnclave))
<1>1. NewEnclave \in States(S) /\ Shown(S, NewEnclave) = NewEnclave
  BY NewEnclaveIs, ShownAgain
<1> QED
  BY <1>1, ReplayIterates, ReplayIs

LEMMA RunPlanIs ==
  ASSUME NEW S, Instrs(S), NEW seq \in Seq(Entries(S)), NEW world \in States(S),
         NEW a, Ran(a, S, seq, Shown(S, world))
  PROVE  a[Len(seq)] = Shown(S, RunPlan(seq, world))
<1> DEFINE n == Len(seq)
<1>1. PICK b : Ran(b, S, seq, Shown(S, world)) /\ b[n] = Shown(S, RunPlan(seq, world))
  BY RunPlanIterates
<1> DEFINE G == {k \in 0 .. n : a[k] = b[k]}
<1>2. 0 \in G /\ n \in Nat /\ 0 \in Nat
  BY <1>1 DEF Ran
<1>3. ASSUME NEW k \in 0 + 1 .. n, k - 1 \in G PROVE k \in G
  <2>1. k \in 1 .. n /\ a[k - 1] = b[k - 1]
    BY <1>3
  <2>2. /\ a[k] = (IF seq[k].executed THEN a[k - 1] ELSE Done(S, a[k - 1], seq[k].instr))
        /\ b[k] = (IF seq[k].executed THEN b[k - 1] ELSE Done(S, b[k - 1], seq[k].instr))
    BY <1>1, <2>1 DEF Ran
  <2> QED
    BY <2>1, <2>2
<1>4. n \in 0 .. n
  BY <1>2
<1>5. n \in G
  <2> HIDE DEF G, n
  <2> QED
    BY <1>2, <1>3, <1>4, FromTo
<1> QED
  BY <1>1, <1>5

-----------------------------------------------------------------------------
(* An instruction that at most runs a command in a component leaves its    *)
(* configuration, and all of it unless the component runs.                 *)
Leaves(i, c) == i.type = "exec" \/ i.name # c

Later(x, y) == y.config = x.config /\ y.mounts = x.mounts /\ x.execs \subseteq y.execs

LEMMA OneLeaves ==
  ASSUME NEW S, Instrs(S), NEW s \in States(S), NEW i \in S, NEW c \in Names, Leaves(i, c)
  PROVE  Later(s[c], Done(S, s, i)[c]) /\ (~Runs(s, c) => Done(S, s, i)[c] = s[c])
<1>0. Effect(Done(S, s, i), s, i, MadeFrom(S, s, i))
  BY DoneTo
<1>1. CASE i.name # c
  BY <1>0, <1>1 DEF Later, Effect
<1>2. CASE i.name = c /\ i.type = "exec" /\ ~Runs(s, c)
  BY <1>0, <1>2 DEF Later, Effect
<1>3. CASE i.name = c /\ i.type = "exec" /\ Runs(s, c)
  <2> DEFINE x == Component(s[c].config, s[c].mounts, s[c].execs \cup {i.arg})
  <2>1. Done(S, s, i)[c] = x
    BY <1>0, <1>3 DEF Effect
  <2>2. Later(s[c], x)
    BY DEF Later, Component
  <2> QED
    BY <1>3, <2>1, <2>2
<1> QED
  BY <1>1, <1>2, <1>3 DEF Leaves

LEMMA Stable ==
  ASSUME NEW S, Instrs(S), NEW instrs \in Seq(S), NEW world, NEW a, Replayed(a, S, instrs, world),
         NEW c \in Names, NEW j \in 0 .. Len(instrs),
         \A l \in j + 1 .. Len(instrs) : Leaves(instrs[l], c)
  PROVE  \A k \in j .. Len(instrs) :
            Later(a[j][c], a[k][c]) /\ (~Runs(a[j], c) => a[k][c] = a[j][c])
<1> DEFINE Ok(k) == Later(a[j][c], a[k][c]) /\ (~Runs(a[j], c) => a[k][c] = a[j][c])
           G == {k \in j .. Len(instrs) : Ok(k)}
<1>1. j \in G
  BY DEF Later
<1>2. ASSUME NEW k \in j + 1 .. Len(instrs), k - 1 \in G PROVE k \in G
  <2>1. /\ k - 1 \in 0 .. Len(instrs) /\ k \in 1 .. Len(instrs) /\ instrs[k] \in S
        /\ a[k - 1] \in States(S)
    BY DEF Replayed
  <2>2. a[k] = Done(S, a[k - 1], instrs[k])
    BY <2>1 DEF Replayed
  <2>3. Later(a[k - 1][c], a[k][c]) /\ (~Runs(a[k - 1], c) => a[k][c] = a[k - 1][c])
    BY <2>1, <2>2, OneLeaves
  <2>4. ~Runs(a[j], c) => ~Runs(a[k - 1], c)
    BY <1>2 DEF Runs
  <2> QED
    BY <1>2, <2>3, <2>4 DEF Later
<1>3. j \in Nat /\ Len(instrs) \in Nat
  OBVIOUS
<1>4. \A k \in j .. Len(instrs) : k \in G
  <2> HIDE DEF G
  <2> QED
    BY <1>1, <1>2, <1>3, FromTo
<1> QED
  BY <1>4

(* A command a plan has run need not be run again.                         *)
LEMMA CommandHasRun ==
  ASSUME NEW S, Instrs(S), NEW instrs \in Seq(S), NEW world, NEW a, Replayed(a, S, instrs, world),
         NEW l \in 1 .. Len(instrs), instrs[l].type = "exec",
         \A q \in l .. Len(instrs) : Leaves(instrs[q], instrs[l].name)
  PROVE  Runs(a[Len(instrs)], instrs[l].name)
           => instrs[l].arg \in a[Len(instrs)][instrs[l].name].execs
<1> DEFINE n == Len(instrs)
           c == instrs[l].name
<1>1. /\ l - 1 \in 0 .. n /\ l \in 0 .. n /\ n \in l .. n /\ instrs[l] \in S /\ c \in Names
      /\ a[l - 1] \in States(S)
  BY DEF Replayed, Instrs
<1>2. a[l] = Done(S, a[l - 1], instrs[l])
  BY DEF Replayed
<1>6. Effect(a[l], a[l - 1], instrs[l], MadeFrom(S, a[l - 1], instrs[l]))
  BY <1>1, <1>2, DoneTo
<1>3. Later(a[l][c], a[n][c]) /\ (~Runs(a[l], c) => a[n][c] = a[l][c])
  <2>1. \A q \in l + 1 .. n : Leaves(instrs[q], c)
    OBVIOUS
  <2> HIDE DEF c
  <2> QED
    BY <1>1, <2>1, Stable
<1>4. CASE Runs(a[l - 1], c)
  <2>1. a[l][c] = Component(a[l - 1][c].config, a[l - 1][c].mounts, a[l - 1][c].execs \cup {instrs[l].arg})
    BY <1>4, <1>6 DEF Effect
  <2>2. instrs[l].arg \in a[l][c].execs
    BY <2>1 DEF Component
  <2> QED
    BY <1>3, <2>2 DEF Later
<1>5. CASE ~Runs(a[l - 1], c)
  <2>1. a[l][c] = a[l - 1][c]
    BY <1>5, <1>6 DEF Effect
  <2>2. ~Runs(a[l], c) /\ a[n][c] = a[l][c]
    BY <1>3, <1>5, <2>1 DEF Runs
  <2> QED
    BY <2>2 DEF Runs
<1> QED
  BY <1>4, <1>5

LEMMA CommandAgain ==
  ASSUME NEW S, Instrs(S), NEW s \in States(S), NEW i \in S, i.type = "exec",
         Runs(s, i.name) => i.arg \in s[i.name].execs
  PROVE  Done(S, s, i)[i.name] = s[i.name]
<1>0. Effect(Done(S, s, i), s, i, MadeFrom(S, s, i))
  BY DoneTo
<1>1. CASE ~Runs(s, i.name)
  BY <1>0, <1>1 DEF Effect
<1>2. CASE Runs(s, i.name)
  <2>1. i.name \in Names
    BY DEF Instrs
  <2>2. PICK x : x = s[i.name]
    OBVIOUS
  <2>3. x \in Components(S)
    BY <2>1, <2>2 DEF States
  <2>4. x.execs \cup {i.arg} = x.execs
    BY <1>2, <2>2
  <2>5. Component(x.config, x.mounts, x.execs) = x
    BY <2>3, ComponentOf
  <2>6. Done(S, s, i)[i.name] = Component(x.config, x.mounts, x.execs \cup {i.arg})
    BY <1>0, <1>2, <2>2 DEF Effect
  <2> QED
    BY <2>2, <2>4, <2>5, <2>6
<1> QED
  BY <1>1, <1>2

(* What an interpretation skips: what resolves as equal, given the         *)
(* components marked before it.                                            *)
StatusesOf(upd, U, seq, new, old, from) ==
  /\ upd \in [0 .. Len(new) -> SUBSET U]
  /\ \A k \in 1 .. Len(new) :
       LET status == Resolve(new[k], MaskAt(old, from, k), upd[k - 1])
       IN upd[k] = Marked(new[k], status, upd[k - 1]) /\ (seq[k].executed <=> status = "equal")

LaidAs(r, acc, i, other) ==
  LET status == Resolve(i, other, acc.updated)
  IN /\ r.updated = Marked(i, status, acc.updated)
     /\ \E entry \in [instr : {i}, executed : BOOLEAN] :
          (entry.executed <=> status = "equal") /\ r.seq = Append(acc.seq, entry)

LEMMA LaidIs ==
  ASSUME NEW acc, NEW i, NEW other
  PROVE  LaidAs(Laid(acc, i, other), acc, i, other)
<1> DEFINE status == Resolve(i, other, acc.updated)
           entry == [instr |-> i, executed |-> status = "equal"]
<1>1. /\ Laid(acc, i, other).seq = Append(acc.seq, entry)
      /\ Laid(acc, i, other).updated = Marked(i, status, acc.updated)
  BY DEF Laid
<1> HIDE DEF status
<1>2. entry \in [instr : {i}, executed : BOOLEAN] /\ (entry.executed <=> status = "equal")
  OBVIOUS
<1> HIDE DEF entry
<1>3. \E x \in [instr : {i}, executed : BOOLEAN] :
        (x.executed <=> status = "equal") /\ Laid(acc, i, other).seq = Append(acc.seq, x)
  BY <1>1, <1>2
<1> QED
  BY <1>1, <1>3 DEF status, LaidAs

LEMMA InterpretationStatuses ==
  ASSUME NEW S, \A i \in S : i.type \in Types, NEW U, \A i \in S : Tracked(i) => i.name \in U,
         NEW new \in Seq(S), NEW old, NEW from, NEW u \in SUBSET U
  PROVE  \E upd : StatusesOf(upd, U, Interpretation(new, old, from, u).seq, new, old, from)
<1> DEFINE n == Len(new)
           status(s, k) == Resolve(new[k], MaskAt(old, from, k), s[k - 1].updated)
<1>1. PICK laid : LaidFrom(laid, S, U, new, old, from, u)
  BY InterpretationIterates
<1>2. /\ n \in Nat /\ laid \in [0 .. n -> Accumulator(S, U)] /\ laid[0].seq = <<>>
      /\ \A k \in 1 .. n : laid[k] = Laid(laid[k - 1], new[k], MaskAt(old, from, k))
      /\ Interpretation(new, old, from, u) = laid[n]
  BY <1>1 DEF LaidFrom
<1>3. ASSUME NEW k \in 1 .. n
      PROVE  /\ laid[k].updated = Marked(new[k], status(laid, k), laid[k - 1].updated)
             /\ \E entry \in [instr : {new[k]}, executed : BOOLEAN] :
                  /\ entry.executed <=> status(laid, k) = "equal"
                  /\ laid[k].seq = Append(laid[k - 1].seq, entry)
  <2>1. laid[k] = Laid(laid[k - 1], new[k], MaskAt(old, from, k))
    BY <1>2
  <2>2. LaidAs(laid[k], laid[k - 1], new[k], MaskAt(old, from, k))
    BY <2>1, LaidIs
  <2> QED
    BY <2>2 DEF LaidAs
<1>4. \A k \in 0 .. n : laid[k].seq \in Seq(Entries(S)) /\ laid[k].updated \in SUBSET U
  BY <1>2 DEF Accumulator
<1> DEFINE Ok(k) == /\ Len(laid[k].seq) = k
                    /\ \A l \in 1 .. k : laid[k].seq[l].executed <=> status(laid, l) = "equal"
           G == {k \in 0 .. n : Ok(k)}
<1>5. 0 \in G
  BY <1>2
<1>6. ASSUME NEW k \in 0 + 1 .. n, k - 1 \in G PROVE k \in G
  <2>1. k \in 1 .. n /\ k - 1 \in 0 .. n /\ k \in Nat
    BY <1>2
  <2>2. PICK s \in Seq(Entries(S)) : s = laid[k - 1].seq
    BY <1>4, <2>1
  <2>3. Len(s) = k - 1 /\ \A l \in 1 .. k - 1 : s[l].executed <=> status(laid, l) = "equal"
    BY <1>6, <2>2
  <2>5. PICK entry \in [instr : {new[k]}, executed : BOOLEAN] :
          (entry.executed <=> status(laid, k) = "equal") /\ laid[k].seq = Append(s, entry)
    BY <1>3, <2>1, <2>2
  <2>4. entry \in Entries(S) /\ (entry.executed <=> status(laid, k) = "equal")
    BY <2>1, <2>5 DEF Entries
  <2> HIDE DEF status
  <2>6. /\ Len(Append(s, entry)) = Len(s) + 1 /\ Append(s, entry)[Len(s) + 1] = entry
        /\ \A l \in 1 .. Len(s) : Append(s, entry)[l] = s[l]
    BY <2>4, Grown
  <2>7. Len(laid[k].seq) = k /\ laid[k].seq[k] = entry /\ \A l \in 1 .. k - 1 : laid[k].seq[l] = s[l]
    BY <2>1, <2>3, <2>5, <2>6
  <2>8. \A l \in 1 .. k : l = k \/ l \in 1 .. k - 1
    BY <2>1
  <2> QED
    BY <2>1, <2>3, <2>4, <2>7, <2>8
<1>7. \A k \in 0 .. n : k \in G
  <2> HIDE DEF G, n
  <2>1. 0 \in Nat /\ n \in Nat
    BY <1>2
  <2> QED
    BY <1>5, <1>6, <2>1, FromTo
<1>8. Ok(n)
  BY <1>2, <1>7
<1> DEFINE upd == [k \in 0 .. n |-> laid[k].updated]
<1>9. /\ upd \in [0 .. n -> SUBSET U]
      /\ \A k \in 1 .. n : upd[k] = laid[k].updated /\ upd[k - 1] = laid[k - 1].updated
  BY <1>2, <1>4
<1> HIDE DEF upd
<1>10. StatusesOf(upd, U, laid[n].seq, new, old, from)
  BY <1>3, <1>8, <1>9 DEF StatusesOf
<1> QED
  BY <1>2, <1>10

(* The tail of a plan that a well formed script lies over.                 *)
Covered(S, new, old, from) ==
  /\ new \in Seq(S) /\ old \in Seq(S) /\ from \in 0 .. Len(old)
  /\ Len(old) - from <= Len(new)
  /\ \A k \in 1 .. Len(new) : new[k].type # "remove_service"
  /\ \A k \in 1 .. Len(old) - from :
       old[from + k] # NoInstruction /\ Like(new[k], old[from + k])
  /\ WellFormed(new)

Makes(i, c) == Resource(i) /\ i.name = c

Made(new, k, c) == \E p \in 1 .. k : Makes(new[p], c)

LEMMA MadeOnce ==
  ASSUME NEW S, Instrs(S), NEW new, NEW old, NEW from, Covered(S, new, old, from),
         NEW j \in 1 .. Len(new), NEW k \in 1 .. Len(new), NEW c
  PROVE  /\ Makes(new[j], c) /\ Makes(new[k], c) => j = k
         /\ Makes(new[k], c) /\ (c \in new[j].files \/ (new[j].type = "exec" /\ new[j].name = c))
              => k < j
<1>1. j \in DOMAIN new /\ k \in DOMAIN new
  BY DEF Covered
<1> QED
  BY <1>1 DEF Covered, WellFormed, DependsOn, Makes

LEMMA MadeBefore ==
  ASSUME NEW S, Instrs(S), NEW new, NEW old, NEW from, Covered(S, new, old, from),
         NEW j \in 1 .. Len(new), NEW k \in 1 .. Len(new),
         new[j].type = "exec", Makes(new[k], new[j].name)
  PROVE  k < j
<1>1. j \in DOMAIN new /\ k \in DOMAIN new
  BY DEF Covered
<1> QED
  BY <1>1 DEF Covered, WellFormed, DependsOn, Makes

(* Past the last instruction that makes a component the plan leaves it.    *)
LEMMA TailStable ==
  ASSUME NEW S, Instrs(S), NEW new, NEW old, NEW from, Covered(S, new, old, from),
         NEW world, NEW r, Replayed(r, S, old, world),
         NEW c \in Names, NEW k \in 0 .. Len(old) - from,
         \A p \in k + 1 .. Len(new) : ~Makes(new[p], c)
  PROVE  /\ Later(r[from + k][c], r[Len(old)][c])
         /\ \A l \in from + k + 1 .. Len(old) : Leaves(old[l], c)
<1>1. /\ old \in Seq(S) /\ new \in Seq(S) /\ from \in Nat /\ Len(old) \in Nat
      /\ Len(new) \in Nat
      /\ k \in Nat /\ from + k \in 0 .. Len(old) /\ Len(old) - from <= Len(new)
  BY DEF Covered
<1>2. ASSUME NEW l \in from + k + 1 .. Len(old) PROVE Leaves(old[l], c)
  <2> PICK p : p = l - from
    OBVIOUS
  <2>1. /\ p \in 1 .. Len(old) - from /\ p \in k + 1 .. Len(new) /\ p \in 1 .. Len(new)
        /\ from + p = l
    BY <1>1
  <2>2. /\ new[p] \in S /\ Like(new[p], old[l]) /\ new[p].type # "remove_service"
        /\ ~Makes(new[p], c)
    BY <1>1, <2>1 DEF Covered
  <2>3. new[p].type \in Types
    BY <2>2 DEF Instrs
  <2> QED
    BY <2>2, <2>3 DEF Like, SameName, Makes, Resource, Tracked, Types, Leaves
<1>3. \A q \in from + k .. Len(old) : Later(r[from + k][c], r[q][c])
  BY <1>1, <1>2, Stable
<1>4. Len(old) \in from + k .. Len(old)
  BY <1>1
<1> QED
  BY <1>2, <1>3, <1>4

(* One component after the same slots: in the enclave that runs the whole  *)
(* script, in the one that runs the plan, in the replay of the enclave's   *)
(* plan, and in the enclave both started from.                             *)
Agree(made, marked, x, y, z, w) ==
  /\ ~made => x = w /\ y = w
  /\ made /\ ~marked => x = z /\ y = w
  /\ made /\ marked => x = y

Agrees(new, k, u, x, y, z, w) ==
  \A c \in Names : Agree(Made(new, k, c), c \in u, x[c], y[c], z[c], w[c])

LEMMA ConfigsAgree ==
  ASSUME NEW S, Instrs(S), NEW new, NEW old, NEW from, Covered(S, new, old, from),
         NEW world, NEW r, Replayed(r, S, old, world),
         NEW k \in 1 .. Len(old) - from, NEW x, NEW y, NEW u,
         NEW c \in Names, c \in new[k].files,
         Agree(Made(new, k - 1, c), c \in u, x[c], y[c], r[from + k - 1][c], r[Len(old)][c])
  PROVE  /\ x[c].config = y[c].config /\ x[c].mounts = y[c].mounts
         /\ c \notin u => /\ x[c].config = r[from + k - 1][c].config
                         /\ x[c].mounts = r[from + k - 1][c].mounts
<1>1. /\ k \in 1 .. Len(new) /\ k - 1 \in 0 .. Len(old) - from /\ k \in Nat
      /\ from + (k - 1) = from + k - 1
  BY DEF Covered
<1>2. \A p \in k .. Len(new) : ~Makes(new[p], c)
  BY <1>1, MadeOnce
<1>3. ASSUME NEW p \in (k - 1) + 1 .. Len(new), Makes(new[p], c) PROVE FALSE
  BY <1>1, <1>2, <1>3
<1>4. Later(r[from + k - 1][c], r[Len(old)][c])
  BY <1>1, <1>3, TailStable
<1> QED
  BY <1>4 DEF Agree, Later

LEMMA OneSlotRun ==
  ASSUME NEW S, Instrs(S), NEW new, NEW old, NEW from, Covered(S, new, old, from),
         NEW world, NEW r, Replayed(r, S, old, world),
         NEW k \in 1 .. Len(old) - from, NEW x \in States(S), NEW y \in States(S),
         NEW u \in SUBSET Tracks(S), Agrees(new, k - 1, u, x, y, r[from + k - 1], r[Len(old)]),
         NEW st, st = Resolve(new[k], old[from + k], u),
         NEW u2, u2 = Marked(new[k], st, u),
         NEW x2, x2 = Done(S, x, new[k]),
         NEW y2, y2 = (IF st = "equal" THEN y ELSE Done(S, y, new[k]))
  PROVE  Agrees(new, k, u2, x2, y2, r[from + k], r[Len(old)])
<1> PICK i : i = new[k]
  OBVIOUS
<1> PICK o : o = old[from + k]
  OBVIOUS
<1> PICK z : z = r[from + k - 1]
  OBVIOUS
<1> PICK z2 : z2 = r[from + k]
  OBVIOUS
<1> PICK w : w = r[Len(old)]
  OBVIOUS
<1>1. /\ new \in Seq(S) /\ old \in Seq(S) /\ from \in Nat /\ k \in Nat /\ k \in 1 .. Len(new)
      /\ from + k \in 1 .. Len(old) /\ from + k - 1 \in 0 .. Len(old) /\ Len(old) \in 0 .. Len(old)
      /\ o # NoInstruction /\ Like(i, o) /\ i.type # "remove_service"
  BY DEF Covered
<1>2. /\ i \in S /\ o \in S /\ z \in States(S) /\ z2 \in States(S) /\ w \in States(S)
      /\ z2 = Done(S, z, o)
  <2> PICK q : q = from + k
    OBVIOUS
  <2>3. q \in 1 .. Len(old) /\ q \in 0 .. Len(old) /\ from + k - 1 = q - 1
    BY <1>1
  <2>4. r \in [0 .. Len(old) -> States(S)] /\ r[q] = Done(S, r[q - 1], old[q])
    <3> HIDE DEF Done, States
    <3> QED
      BY <2>3 DEF Replayed
  <2>1. /\ r \in [0 .. Len(old) -> States(S)] /\ from + k \in 0 .. Len(old)
        /\ r[from + k] = Done(S, r[from + k - 1], old[from + k])
    BY <2>3, <2>4
  <2>2. i \in S /\ o \in S
    BY <1>1
  <2> QED
    BY <1>1, <2>1, <2>2
<1>3. /\ i.type \in {"add_service", "add_services", "upload_files", "run_sh", "exec"}
      /\ i.name \in Names /\ i.files \subseteq Names
      /\ o.name = i.name /\ (i.type \in {"run_sh", "exec"} => o = i)
  BY <1>1, <1>2 DEF Instrs, Types, Like, SameName
<1>4. st \in {"update", "equal"} /\ (st = "equal" => i = o)
  <2>1. i.type \in Types
    BY <1>3 DEF Types
  <2>2. LET status == Resolve(i, o, u)
        IN /\ status \in {"abort", "unknown", "update", "equal"}
           /\ status = "abort" <=> i.type = "remove_service"
           /\ i.type # "remove_service" => (status = "unknown" <=> o = NoInstruction \/ ~Like(i, o))
           /\ status = "equal" => o # NoInstruction /\ i = o
    BY <2>1, Resolution
  <2> QED
    BY <1>1, <2>2
<1>5. /\ Effect(x2, x, i, MadeFrom(S, x, i)) /\ Effect(z2, z, o, MadeFrom(S, z, o))
      /\ Effect(Done(S, y, i), y, i, MadeFrom(S, y, i))
  BY <1>2, DoneTo
<1>6. \A c : Made(new, k, c) <=> Made(new, k - 1, c) \/ Makes(i, c)
  <2>1. \A p \in 1 .. k : p = k \/ p \in 1 .. k - 1
    BY <1>1
  <2>2. \A p \in 1 .. k - 1 : p \in 1 .. k
    BY <1>1
  <2>3. k \in 1 .. k
    BY <1>1
  <2> QED
    BY <2>1, <2>2, <2>3 DEF Made
<1>0. \A c \in Names : Agree(Made(new, k - 1, c), c \in u, x[c], y[c], z[c], w[c])
  BY DEF Agrees
<1>7. ASSUME NEW c \in Names, c # i.name
      PROVE  Agree(Made(new, k, c), c \in u2, x2[c], y2[c], z2[c], w[c])
  <2>1. x2[c] = x[c] /\ y2[c] = y[c] /\ z2[c] = z[c]
    BY <1>3, <1>5, <1>7 DEF Effect
  <2>2. c \in u2 <=> c \in u
    BY <1>7 DEF Marked
  <2>3. Made(new, k, c) <=> Made(new, k - 1, c)
    BY <1>6, <1>7 DEF Makes
  <2>4. Agree(Made(new, k - 1, c), c \in u, x[c], y[c], z[c], w[c])
    BY <1>0
  <2> QED
    BY <2>1, <2>2, <2>3, <2>4 DEF Agree
<1>8. CASE i.type = "exec"
  <2> PICK c : c = i.name
    OBVIOUS
  <2> SUFFICES Agree(Made(new, k, c), c \in u2, x2[c], y2[c], z2[c], w[c])
    BY <1>7 DEF Agrees
  <2>1. u2 = u /\ (Made(new, k, c) <=> Made(new, k - 1, c)) /\ o = i
    BY <1>3, <1>6, <1>8 DEF Marked, Resource, Tracked, Makes
  <2>2. st = "equal" <=> c \notin u
    BY <1>1, <1>3, <1>8 DEF Resolve, NotResolvable, ResolveExec
  <2>3. Agree(Made(new, k - 1, c), c \in u, x[c], y[c], z[c], w[c])
    BY <1>0, <1>3
  <2>4. CASE ~Made(new, k - 1, c)
    <3>1. \A p \in k .. Len(new) : ~Makes(new[p], c)
      <4> SUFFICES ASSUME NEW p \in k .. Len(new), Makes(new[p], c) PROVE FALSE
        OBVIOUS
      <4>1. p \in 1 .. Len(new) /\ p >= k
        BY <1>1
      <4>2. p < k
        BY <1>1, <1>8, <4>1, MadeOnce
      <4> QED
        BY <1>1, <4>1, <4>2
    <3>2. /\ k - 1 \in 0 .. Len(old) - from
          /\ \A p \in (k - 1) + 1 .. Len(new) : ~Makes(new[p], c)
      BY <1>1, <3>1
    <3>3. \A l \in from + (k - 1) + 1 .. Len(old) : Leaves(old[l], c)
      BY <1>3, <3>2, TailStable
    <3>4. \A l \in from + k .. Len(old) : Leaves(old[l], old[from + k].name)
      BY <1>1, <1>3, <3>3
    <3>5. Runs(w, c) => i.arg \in w[c].execs
      BY <1>1, <1>8, <2>1, <3>4, CommandHasRun
    <3>6. x[c] = w[c] /\ y[c] = w[c]
      BY <2>3, <2>4 DEF Agree
    <3>7. Done(S, x, i)[c] = x[c] /\ Done(S, y, i)[c] = y[c]
      BY <1>2, <1>8, <3>5, <3>6, CommandAgain DEF Runs
    <3> QED
      BY <2>1, <2>4, <3>6, <3>7 DEF Agree
  <2>5. CASE Made(new, k - 1, c) /\ c \notin u
    <3>1. x[c] = z[c] /\ y2[c] = w[c]
      BY <2>2, <2>3, <2>5 DEF Agree
    <3>2. x2[c] = z2[c]
      BY <1>5, <1>8, <2>1, <3>1 DEF Effect, Runs
    <3> QED
      BY <2>1, <2>5, <3>1, <3>2 DEF Agree
  <2>6. CASE Made(new, k - 1, c) /\ c \in u
    <3>1. x[c] = y[c] /\ y2 = Done(S, y, i)
      BY <2>2, <2>3, <2>6 DEF Agree
    <3>2. x2[c] = y2[c]
      BY <1>5, <1>8, <3>1 DEF Effect, Runs
    <3> QED
      BY <2>1, <2>6, <3>2 DEF Agree
  <2> QED
    BY <2>4, <2>5, <2>6
<1>9. CASE i.type # "exec"
  <2> PICK c : c = i.name
    OBVIOUS
  <2> SUFFICES Agree(Made(new, k, c), c \in u2, x2[c], y2[c], z2[c], w[c])
    BY <1>7 DEF Agrees
  <2>1. Makes(i, c) /\ Made(new, k, c) /\ (c \in u2 <=> st = "update")
    <3>1. CASE i.type = "run_sh"
      <4>1. c \notin Tracks(S)
        BY <1>2, <3>1 DEF Instrs, TasksApart, Tracks, Tracked
      <4>2. st = "equal" /\ u2 = u
        BY <1>1, <1>3, <3>1 DEF Resolve, NotResolvable, ResolveTask, Marked, Tracked
      <4> QED
        BY <1>6, <3>1, <4>1, <4>2 DEF Resource, Makes
    <3>2. CASE i.type # "run_sh"
      BY <1>3, <1>4, <1>6, <1>9, <3>2 DEF Marked, Resource, Tracked, Makes
    <3> QED
      BY <3>1, <3>2
  <2>2. ~Made(new, k - 1, c)
    <3> SUFFICES ASSUME NEW p \in 1 .. k - 1, Makes(new[p], c) PROVE FALSE
      BY DEF Made
    <3>1. p \in 1 .. Len(new) /\ p # k
      BY <1>1
    <3> QED
      BY <1>1, <2>1, <3>1, MadeOnce
  <2>8. Agree(Made(new, k - 1, c), c \in u, x[c], y[c], z[c], w[c])
    BY <1>0, <1>3
  <2>3. y[c] = w[c]
    BY <2>2, <2>8 DEF Agree
  <2>4. ASSUME NEW it \in i.files
        PROVE  /\ x[it].config = y[it].config /\ x[it].mounts = y[it].mounts
               /\ it \notin u => x[it].config = z[it].config /\ x[it].mounts = z[it].mounts
    <3>1. it \in Names /\ it \in new[k].files
      BY <1>3
    <3>2. Agree(Made(new, k - 1, it), it \in u, x[it], y[it], r[from + k - 1][it], r[Len(old)][it])
      BY <1>0, <3>1
    <3> QED
      BY <3>1, <3>2, ConfigsAgree
  <2>5. CASE st = "equal"
    <3>0. MadeFrom(S, x, i) = MadeFrom(S, z, i)
      <4>1. CASE i.type = "upload_files"
        BY <4>1 DEF MadeFrom, Makings, Bare
      <4>2. CASE i.type = "add_service"
        <5>1. \A it \in i.files : it \notin u
          BY <1>1, <1>4, <2>5, <4>2 DEF Resolve, NotResolvable, ResolveService, SameName
        <5>2. \A f \in i.files : x[f].config = z[f].config /\ x[f].mounts = z[f].mounts
          BY <2>4, <5>1
        <5>3. i \in S
          BY <1>2
        <5> QED
          BY ONLY <5>2, <5>3, MadeAlike
      <4>3. CASE i.type \in {"add_services", "run_sh"}
        BY <1>2, <4>3, MadeOfNothing
      <4> QED
        BY <1>3, <1>9, <4>1, <4>2, <4>3
    <3>1. x2[c] = z2[c]
      <4>1. /\ x2[c] = Component(i.arg, MadeFrom(S, x, i), {})
            /\ z2[c] = Component(i.arg, MadeFrom(S, z, i), {})
        BY <1>3, <1>4, <1>5, <1>9, <2>5 DEF Effect
      <4> QED
        BY <3>0, <4>1
    <3> QED
      BY <2>1, <2>3, <2>5, <3>1 DEF Agree
  <2>6. CASE st = "update"
    <3>1. x2[c] = Done(S, y, i)[c]
      <4>1. MadeFrom(S, x, i) = MadeFrom(S, y, i)
        <5>1. i \in S /\ \A f \in i.files : x[f].config = y[f].config /\ x[f].mounts = y[f].mounts
          BY <1>2, <2>4
        <5> QED
          BY ONLY <5>1, MadeAlike
      <4>2. /\ x2[c] = Component(i.arg, MadeFrom(S, x, i), {})
            /\ Done(S, y, i)[c] = Component(i.arg, MadeFrom(S, y, i), {})
        BY <1>3, <1>5, <1>9 DEF Effect
      <4> QED
        BY <4>1, <4>2
    <3> QED
      BY <2>1, <2>6, <3>1 DEF Agree
  <2> QED
    BY <1>4, <2>5, <2>6
<1> QED
  BY <1>8, <1>9

(* A script laid over the tail of a plan: the components marked, the       *)
(* enclaves the plan's replay goes through, then those of the script's     *)
(* replay and of the plan's run, in the enclave the plan describes.        *)
Laying(S, new, old, from, seq, upd, r, a, b) ==
  /\ Covered(S, new, old, from)
  /\ Schedules(seq, S, new, Len(new))
  /\ StatusesOf(upd, Tracks(S), seq, new, old, from)
  /\ Replayed(r, S, old, NewEnclave)
  /\ Replayed(a, S, new, r[Len(old)])
  /\ Ran(b, S, seq, r[Len(old)])

LEMMA LayingIs ==
  ASSUME NEW S, Instrs(S), NEW new, NEW old, NEW from, NEW seq, NEW upd, NEW r, NEW a, NEW b,
         Laying(S, new, old, from, seq, upd, r, a, b)
  PROVE  /\ new \in Seq(S) /\ old \in Seq(S) /\ from \in Nat
         /\ Len(new) \in Nat /\ Len(old) \in Nat /\ Len(old) - from \in 0 .. Len(new)
         /\ a[0] = r[Len(old)] /\ b[0] = r[Len(old)] /\ Len(seq) = Len(new)
         /\ \A k \in 0 .. Len(new) : a[k] \in States(S) /\ b[k] \in States(S)
<1>1. /\ new \in Seq(S) /\ old \in Seq(S) /\ from \in Nat
      /\ Len(new) \in Nat /\ Len(old) \in Nat /\ Len(old) - from \in 0 .. Len(new)
  BY DEF Laying, Covered
<1>2. /\ a[0] = r[Len(old)] /\ b[0] = r[Len(old)] /\ Len(seq) = Len(new)
      /\ \A k \in 0 .. Len(new) : a[k] \in States(S) /\ b[k] \in States(S)
  BY <1>1 DEF Laying, Replayed, Ran, Schedules
<1> QED
  BY <1>1, <1>2

LEMMA LayingSteps ==
  ASSUME NEW S, Instrs(S), NEW new, NEW old, NEW from, NEW seq, NEW upd, NEW r, NEW a, NEW b,
         Laying(S, new, old, from, seq, upd, r, a, b), NEW k \in 1 .. Len(new),
         NEW status, status = Resolve(new[k], MaskAt(old, from, k), upd[k - 1])
  PROVE  /\ a[k] = Done(S, a[k - 1], new[k])
         /\ b[k] = IF seq[k].executed THEN b[k - 1] ELSE Done(S, b[k - 1], new[k])
         /\ seq[k].executed <=> status = "equal"
         /\ upd[k] = Marked(new[k], status, upd[k - 1])
<1>1. a[k] = Done(S, a[k - 1], new[k]) /\ seq[k].instr = new[k] /\ Len(seq) = Len(new)
  BY DEF Laying, Replayed, Schedules
<1>2. b[k] = (IF seq[k].executed THEN b[k - 1] ELSE Done(S, b[k - 1], seq[k].instr))
  BY <1>1 DEF Laying, Ran
<1>3. (seq[k].executed <=> status = "equal") /\ upd[k] = Marked(new[k], status, upd[k - 1])
  BY DEF Laying, StatusesOf
<1> QED
  BY <1>1, <1>2, <1>3

LEMMA SlotsAgree ==
  ASSUME NEW S, Instrs(S), NEW new, NEW old, NEW from, NEW seq, NEW upd, NEW r, NEW a, NEW b,
         Laying(S, new, old, from, seq, upd, r, a, b), NEW l \in 0 .. Len(old) - from
  PROVE  Agrees(new, l, upd[l], a[l], b[l], r[from + l], r[Len(old)])
<1> DEFINE n == Len(new)
           m == Len(old) - from
<1>1. /\ new \in Seq(S) /\ old \in Seq(S) /\ from \in Nat /\ n \in Nat /\ m \in 0 .. n
      /\ from + m = Len(old) /\ Len(old) \in Nat
      /\ a[0] = r[Len(old)] /\ b[0] = r[Len(old)]
      /\ \A k \in 0 .. n : a[k] \in States(S) /\ b[k] \in States(S)
  BY LayingIs
<1>2. ASSUME NEW k \in 1 .. n
      PROVE  /\ a[k] = Done(S, a[k - 1], new[k])
             /\ b[k] = IF Resolve(new[k], MaskAt(old, from, k), upd[k - 1]) = "equal"
                       THEN b[k - 1] ELSE Done(S, b[k - 1], new[k])
             /\ upd[k] = Marked(new[k], Resolve(new[k], MaskAt(old, from, k), upd[k - 1]), upd[k - 1])
  BY LayingSteps
<1>3. Covered(S, new, old, from) /\ Replayed(r, S, old, NewEnclave)
  BY DEF Laying
<1> DEFINE Ok(k) == Agrees(new, k, upd[k], a[k], b[k], r[from + k], r[Len(old)])
           G == {k \in 0 .. m : Ok(k)}
<1>4. 0 \in G
  <2>1. \A c : ~Made(new, 0, c)
    BY DEF Made
  <2> QED
    BY <1>1, <2>1 DEF Agrees, Agree
<1>5. ASSUME NEW k \in 0 + 1 .. m, k - 1 \in G PROVE k \in G
  <2>1. /\ k \in 1 .. Len(old) - from /\ k \in 1 .. n /\ k - 1 \in 0 .. n
        /\ from + (k - 1) = from + k - 1
    BY <1>1
  <2>2. MaskAt(old, from, k) = old[from + k]
    BY <1>1, <2>1 DEF MaskAt
  <2>3. Agrees(new, k - 1, upd[k - 1], a[k - 1], b[k - 1], r[from + k - 1], r[Len(old)])
    BY <1>5, <2>1
  <2> DEFINE st == Resolve(new[k], old[from + k], upd[k - 1])
  <2>4. /\ upd[k] = Marked(new[k], st, upd[k - 1])
        /\ a[k] = Done(S, a[k - 1], new[k])
        /\ b[k] = (IF st = "equal" THEN b[k - 1] ELSE Done(S, b[k - 1], new[k]))
    BY <1>2, <2>1, <2>2
  <2>5. a[k - 1] \in States(S) /\ b[k - 1] \in States(S) /\ upd[k - 1] \in SUBSET Tracks(S)
    <3>1. upd \in [0 .. Len(new) -> SUBSET Tracks(S)]
      BY DEF Laying, StatusesOf
    <3> QED
      BY <1>1, <2>1, <3>1
  <2> HIDE DEF n, m, G
  <2>6. Ok(k)
    BY <1>3, <2>1, <2>3, <2>4, <2>5, OneSlotRun
  <2> QED
    BY <2>6 DEF G
<1>6. l \in G
  <2> HIDE DEF G, m
  <2>1. 0 \in Nat /\ m \in Nat /\ l \in 0 .. m
    BY <1>1 DEF m
  <2> QED
    BY <1>4, <1>5, <2>1, FromTo
<1> QED
  BY <1>6

(* Past the tail nothing is skipped; there the two runs have become one.   *)
LEMMA PastTheTail ==
  ASSUME NEW S, Instrs(S), NEW new, NEW old, NEW from, NEW seq, NEW upd, NEW r, NEW a, NEW b,
         Laying(S, new, old, from, seq, upd, r, a, b)
  PROVE  /\ \A k \in Len(old) - from + 1 .. Len(new) : ~seq[k].executed
         /\ \A k \in Len(old) - from .. Len(new) : a[k] = b[k]
<1> DEFINE n == Len(new)
           m == Len(old) - from
<1>1. /\ new \in Seq(S) /\ old \in Seq(S) /\ from \in Nat /\ n \in Nat /\ m \in 0 .. n
      /\ from + m = Len(old) /\ Len(old) \in Nat
      /\ \A k \in 0 .. n : a[k] \in States(S) /\ b[k] \in States(S)
  BY LayingIs
<1>2. ASSUME NEW k \in m + 1 .. n
      PROVE  /\ ~seq[k].executed
             /\ a[k] = Done(S, a[k - 1], new[k]) /\ b[k] = Done(S, b[k - 1], new[k])
  <2>1. k \in 1 .. n /\ from + k > Len(old)
    BY <1>1
  <2>2. MaskAt(old, from, k) = NoInstruction
    BY <1>1, <2>1 DEF MaskAt
  <2>3. Resolve(new[k], MaskAt(old, from, k), upd[k - 1]) # "equal"
    BY <2>2 DEF Resolve
  <2> QED
    BY <2>1, <2>3, LayingSteps
<1>3. a[m] = b[m]
  <2>1. ASSUME NEW c \in Names PROVE a[m][c] = b[m][c]
    <3>1. Agrees(new, m, upd[m], a[m], b[m], r[from + m], r[Len(old)])
      BY <1>1, SlotsAgree
    <3>2. Agree(Made(new, m, c), c \in upd[m], a[m][c], b[m][c], r[Len(old)][c], r[Len(old)][c])
      BY <1>1, <3>1 DEF Agrees
    <3> QED
      BY <3>2 DEF Agree
  <2>2. a[m] \in States(S) /\ b[m] \in States(S)
    BY <1>1
  <2> QED
    BY <2>1, <2>2 DEF States
<1> DEFINE H == {k \in m .. n : a[k] = b[k]}
<1>4. m \in H
  BY <1>1, <1>3
<1>5. ASSUME NEW k \in m + 1 .. n, k - 1 \in H PROVE k \in H
  BY <1>1, <1>2, <1>5
<1>6. \A k \in m .. n : k \in H
  <2> HIDE DEF H, m, n
  <2>1. m \in Nat /\ n \in Nat
    BY <1>1
  <2> QED
    BY <1>4, <1>5, <2>1, FromTo
<1> QED
  BY <1>2, <1>6

LEMMA LaidOut ==
  ASSUME NEW S, Instrs(S), NEW new, NEW old, NEW from, Covered(S, new, old, from),
         NEW u \in SUBSET Tracks(S), NEW seq, seq = Interpretation(new, old, from, u).seq,
         NEW r, Replayed(r, S, old, NewEnclave)
  PROVE  \E upd, a, b : Laying(S, new, old, from, seq, upd, r, a, b)
<1>1. new \in Seq(S) /\ old \in Seq(S) /\ Len(old) \in Nat
  BY DEF Covered
<1>2. (\A i \in S : i.type \in Types) /\ (\A i \in S : Tracked(i) => i.name \in Tracks(S))
  BY DEF Instrs, Tracks
<1>3. Schedules(seq, S, new, Len(new))
  BY <1>1, <1>2, InterpretationOf
<1>4. PICK upd : StatusesOf(upd, Tracks(S), seq, new, old, from)
  BY <1>1, <1>2, InterpretationStatuses
<1>5. PICK here \in States(S) : r[Len(old)] = Shown(S, here)
  <2>1. Replay(old, NewEnclave) \in States(S)
    BY <1>1, ReplayedAnew
  <2>2. r[Len(old)] = Shown(S, Replay(old, NewEnclave))
    BY <1>1, ReplayedAnew
  <2> QED
    BY <2>1, <2>2
<1>6. PICK a : Replayed(a, S, new, r[Len(old)])
  BY <1>1, <1>5, ReplayIterates
<1>7. PICK b : Ran(b, S, seq, r[Len(old)])
  BY <1>3, <1>5, RunPlanIterates DEF Schedules
<1> QED
  BY <1>3, <1>4, <1>6, <1>7 DEF Laying

LEMMA SkippedRun ==
  ASSUME NEW S, Instrs(S), NEW new, NEW old, NEW from, Covered(S, new, old, from),
         NEW u \in SUBSET Tracks(S),
         NEW seq, seq = Interpretation(new, old, from, u).seq,
         NEW here, here = Replay(old, NewEnclave)
  PROVE  Shown(S, RunPlan(seq, here)) = Shown(S, Replay(new, here))
<1>1. old \in Seq(S) /\ new \in Seq(S) /\ Len(old) \in Nat
  BY DEF Covered
<1>2. PICK r : Replayed(r, S, old, NewEnclave)
  BY <1>1, ReplayedAnew
<1>3. Shown(S, here) = r[Len(old)] /\ here \in States(S)
  <2>1. here \in States(S)
    BY <1>1, ReplayedAnew
  <2>2. Replayed(r, S, old, Shown(S, NewEnclave))
    BY <1>2, ShownAgain
  <2> QED
    BY <1>1, <2>1, <2>2, NewEnclaveIs, ReplayIs
<1>4. PICK upd, a, b : Laying(S, new, old, from, seq, upd, r, a, b)
  BY <1>2, LaidOut
<1>5. /\ Len(new) \in Len(old) - from .. Len(new) /\ Len(seq) = Len(new)
  BY <1>4, LayingIs
<1>6. Shown(S, Replay(new, here)) = a[Len(new)] /\ Shown(S, RunPlan(seq, here)) = b[Len(new)]
  <2>1. /\ Replayed(a, S, new, Shown(S, here)) /\ Ran(b, S, seq, Shown(S, here))
        /\ seq \in Seq(Entries(S))
    BY <1>3, <1>4 DEF Laying, Schedules
  <2> QED
    BY <1>1, <1>3, <1>5, <2>1, ReplayIs, RunPlanIs
<1> QED
  BY <1>4, <1>5, <1>6, PastTheTail

(* An instruction that is not skipped is run: so is a script, as a plan.   *)
LEMMA UnresolvedRun ==
  ASSUME NEW S, Instrs(S), NEW new \in Seq(S), NEW here \in States(S)
  PROVE  Shown(S, RunPlan(Unresolved(new), here)) = Shown(S, Replay(new, here))
<1> PICK seq : seq = Unresolved(new)
  OBVIOUS
<1> DEFINE n == Len(new)
<1>1. Schedules(seq, S, new, n) /\ n \in Nat
  BY Nothing
<1>2. \A k \in 1 .. n : ~seq[k].executed
  BY DEF Unresolved
<1>3. PICK a : Replayed(a, S, new, Shown(S, here)) /\ a[n] = Shown(S, Replay(new, here))
  BY ReplayIterates
<1>4. PICK b : Ran(b, S, seq, Shown(S, here)) /\ b[n] = Shown(S, RunPlan(seq, here))
  BY <1>1, RunPlanIterates DEF Schedules
<1> DEFINE H == {k \in 0 .. n : a[k] = b[k]}
<1>5. 0 \in H
  BY <1>1, <1>3, <1>4 DEF Replayed, Ran
<1>6. ASSUME NEW k \in 0 + 1 .. n, k - 1 \in H PROVE k \in H
  <2>1. k \in 1 .. n /\ a[k - 1] = b[k - 1] /\ Len(seq) = n /\ seq[k].instr = new[k]
    BY <1>1, <1>6 DEF Schedules
  <2>2. a[k] = Done(S, a[k - 1], new[k])
    BY <1>3, <2>1 DEF Replayed
  <2>3. b[k] = Done(S, b[k - 1], new[k])
    BY <1>2, <1>4, <2>1 DEF Ran
  <2> QED
    BY <1>1, <2>1, <2>2, <2>3
<1>7. n \in H
  <2> HIDE DEF H, n
  <2>1. 0 \in Nat /\ n \in 0 .. n
    BY <1>1
  <2> QED
    BY <1>1, <1>5, <1>6, <2>1, FromTo
<1> QED
  BY <1>3, <1>4, <1>7

(* Where the optimised plan comes from: nothing resolved, or the script    *)
(* lies over the plan from its index on.                                   *)
LEMMA OptimizedFrom ==
  ASSUME NEW S, Instrs(S), NoInstruction \notin S,
         NEW new \in Seq(S), NEW old \in Seq(S), WellFormed(new),
         NEW o, o = OptimizedPlan(new, old)
  PROVE  /\ o.index \in 0 .. Len(old) /\ Len(old) \in Nat
         /\ Schedules(o.seq, S, new, Len(new))
         /\ \/ o.index = Len(old) /\ o.seq = Unresolved(new)
            \/ /\ Covered(S, new, old, o.index)
               /\ \E u \in SUBSET Tracks(S) : o.seq = Interpretation(new, old, o.index, u).seq
<1>1. /\ Len(old) \in Nat /\ \A k \in 1 .. Len(old) : old[k] # NoInstruction
      /\ \A i \in S : i.type \in Types
  BY DEF Instrs
<1>2. /\ o.index \in 0 .. Len(old) /\ Schedules(o.seq, S, new, Len(new))
      /\ Origin(o.seq, new, old, o.index, Tracks(S))
  BY <1>1, Search
<1>3. ASSUME o.index >= FirstPossible(new, old), FitsAll(new, old, o.index, Len(new)),
             NEW u \in SUBSET Tracks(S),
             o.seq = Interpretation(new, old, o.index, u).seq
      PROVE  Covered(S, new, old, o.index)
  <2> PICK from : from = o.index
    OBVIOUS
  <2>2. Len(old) - from <= Len(new)
    BY <1>2, <1>3 DEF FirstPossible
  <2>3. \A k \in 1 .. Len(new) : Fits(new[k], MaskAt(old, from, k))
    BY <1>3 DEF FitsAll
  <2>4. \A k \in 1 .. Len(old) - from :
          k \in 1 .. Len(new) /\ MaskAt(old, from, k) = old[from + k]
            /\ old[from + k] # NoInstruction
    BY <1>1, <1>2, <2>2 DEF MaskAt
  <2>5. Covered(S, new, old, from)
    BY <1>2, <2>2, <2>3, <2>4 DEF Covered, Fits
  <2> QED
    BY <2>5
<1> QED
  BY <1>1, <1>2, <1>3 DEF Origin

(* Running the optimised plan in the enclave its plan describes leaves     *)
(* what running the whole script there would.                              *)
LEMMA OptimizedRun ==
  ASSUME NEW S, Instrs(S), NoInstruction \notin S,
         NEW new \in Seq(S), NEW old \in Seq(S), WellFormed(new)
  PROVE  Shown(S, RunPlan(OptimizedPlan(new, old).seq, Replay(old, NewEnclave)))
           = Shown(S, Replay(new, Replay(old, NewEnclave)))
<1> PICK o : o = OptimizedPlan(new, old)
  OBVIOUS
<1> PICK here : here = Replay(old, NewEnclave)
  OBVIOUS
<1>1. here \in States(S)
  BY ReplayedAnew
<1>2. CASE o.seq = Unresolved(new)
  BY <1>1, <1>2, UnresolvedRun
<1>3. ASSUME Covered(S, new, old, o.index), NEW u \in SUBSET Tracks(S),
             o.seq = Interpretation(new, old, o.index, u).seq
      PROVE  Shown(S, RunPlan(o.seq, here)) = Shown(S, Replay(new, here))
  BY <1>3, SkippedRun
<1> QED
  BY <1>2, <1>3, OptimizedFrom

-----------------------------------------------------------------------------
(* The enclave's next plan: what is kept of the plan, then the script.  In *)
(* its replay, after the same slots, a component the script has made is as *)
(* the script leaves it, another one as in the replay of the plan.         *)
Unmarked(S) == "missing" \notin Args(S) /\ "broken" \notin Args(S)

LEMMA Configured ==
  ASSUME NEW S, Unmarked(S), NEW world, NEW c, world[c].config \in Args(S)
  PROVE  Runs(world, c)
  BY DEF Unmarked, Runs

LEMMA StillRuns ==
  ASSUME NEW S, NEW x \in States(S), NEW y \in States(S), NEW c \in Names, Runs(x, c), Later(x[c], y[c])
  PROVE  Runs(y, c)
BY DEF Runs, Later

Keeps(S, made, v, x, z) == IF made THEN v = x /\ x.config \in Args(S) ELSE v = z

AllKept(S, new, k, v, x, z) == \A c \in Names : Keeps(S, Made(new, k, c), v[c], x[c], z[c])

LEMMA SlotKept ==
  ASSUME NEW S, Instrs(S), NEW new, NEW old, NEW from, Covered(S, new, old, from),
         NEW world, NEW r, Replayed(r, S, old, world),
         NEW k \in 1 .. Len(old) - from, NEW v \in States(S), NEW x \in States(S), NEW y, NEW u,
         Agrees(new, k - 1, u, x, y, r[from + k - 1], r[Len(old)]),
         AllKept(S, new, k - 1, v, x, r[from + k - 1]),
         NEW v2, v2 = Done(S, v, new[k]), NEW x2, x2 = Done(S, x, new[k])
  PROVE  AllKept(S, new, k, v2, x2, r[from + k])
<1> PICK i : i = new[k]
  OBVIOUS
<1> PICK o : o = old[from + k]
  OBVIOUS
<1> PICK z : z = r[from + k - 1]
  OBVIOUS
<1> PICK z2 : z2 = r[from + k]
  OBVIOUS
<1> PICK w : w = r[Len(old)]
  OBVIOUS
<1>1. /\ new \in Seq(S) /\ old \in Seq(S) /\ from \in Nat /\ k \in Nat /\ k \in 1 .. Len(new)
      /\ from + k \in 1 .. Len(old) /\ from + k - 1 \in 0 .. Len(old)
      /\ o # NoInstruction /\ Like(i, o) /\ i.type # "remove_service"
  BY DEF Covered
<1>2. /\ i \in S /\ o \in S /\ z \in States(S) /\ z2 = Done(S, z, o)
  <2> PICK q : q = from + k
    OBVIOUS
  <2>1. q \in 1 .. Len(old) /\ q - 1 \in 0 .. Len(old) /\ from + k - 1 = q - 1
    BY <1>1
  <2>2. r[q - 1] \in States(S) /\ r[q] = Done(S, r[q - 1], old[q])
    <3> HIDE DEF Done, States
    <3> QED
      BY <2>1 DEF Replayed
  <2>3. i \in S /\ o \in S
    BY <1>1
  <2> QED
    BY <2>1, <2>2, <2>3
<1>3. /\ i.type \in {"add_service", "add_services", "upload_files", "run_sh", "exec"}
      /\ i.name \in Names /\ i.files \subseteq Names /\ i.arg \in Args(S)
      /\ o.name = i.name /\ (i.type \in {"run_sh", "exec"} => o = i)
  BY <1>1, <1>2 DEF Instrs, Types, Like, SameName, Args
<1>4. /\ Effect(v2, v, i, MadeFrom(S, v, i)) /\ Effect(x2, x, i, MadeFrom(S, x, i))
      /\ Effect(z2, z, o, MadeFrom(S, z, o))
  BY <1>2, DoneTo
<1>5. \A c : Made(new, k, c) <=> Made(new, k - 1, c) \/ Makes(i, c)
  <2>1. \A p \in 1 .. k : p = k \/ p \in 1 .. k - 1
    BY <1>1
  <2>2. \A p \in 1 .. k - 1 : p \in 1 .. k
    BY <1>1
  <2>3. k \in 1 .. k
    BY <1>1
  <2> QED
    BY <2>1, <2>2, <2>3 DEF Made
<1>6. \A c \in Names : Keeps(S, Made(new, k - 1, c), v[c], x[c], z[c])
  BY DEF AllKept
<1>7. ASSUME NEW c \in Names, c # i.name PROVE Keeps(S, Made(new, k, c), v2[c], x2[c], z2[c])
  <2>1. x2[c] = x[c] /\ v2[c] = v[c] /\ z2[c] = z[c]
    BY <1>3, <1>4, <1>7 DEF Effect
  <2>2. Made(new, k, c) <=> Made(new, k - 1, c)
    BY <1>5, <1>7 DEF Makes
  <2>3. Keeps(S, Made(new, k - 1, c), v[c], x[c], z[c])
    BY <1>6
  <2> QED
    BY <2>1, <2>2, <2>3 DEF Keeps
<1> PICK c : c = i.name
  OBVIOUS
<1> SUFFICES Keeps(S, Made(new, k, c), v2[c], x2[c], z2[c])
  BY <1>7 DEF AllKept
<1>8. CASE i.type = "exec"
  <2>1. (Made(new, k, c) <=> Made(new, k - 1, c)) /\ o = i
    BY <1>3, <1>5, <1>8 DEF Resource, Tracked, Makes
  <2>2. Keeps(S, Made(new, k - 1, c), v[c], x[c], z[c])
    BY <1>3, <1>6
  <2>3. CASE Made(new, k - 1, c)
    <3>1. v[c] = x[c] /\ x[c].config \in Args(S)
      BY <2>2, <2>3 DEF Keeps
    <3>2. v2[c] = x2[c] /\ x2[c].config = x[c].config
      BY <1>4, <1>8, <3>1 DEF Effect, Runs, Component
    <3> QED
      BY <2>1, <2>3, <3>1, <3>2 DEF Keeps
  <2>4. CASE ~Made(new, k - 1, c)
    <3>1. v[c] = z[c]
      BY <2>2, <2>4 DEF Keeps
    <3>2. v2[c] = z2[c]
      BY <1>4, <1>8, <2>1, <3>1 DEF Effect, Runs
    <3> QED
      BY <2>1, <2>4, <3>2 DEF Keeps
  <2> QED
    BY <2>3, <2>4
<1>9. CASE i.type # "exec"
  <2>1. Makes(i, c) /\ Made(new, k, c)
    BY <1>3, <1>5, <1>9 DEF Resource, Tracked, Makes
  <2>2. ASSUME NEW f \in i.files PROVE v[f].config = x[f].config /\ v[f].mounts = x[f].mounts
    <3>1. f \in Names /\ f \in new[k].files
      BY <1>3
    <3>2. Keeps(S, Made(new, k - 1, f), v[f], x[f], z[f])
      BY <1>6, <3>1
    <3>3. Agree(Made(new, k - 1, f), f \in u, x[f], y[f], z[f], w[f])
      BY <3>1 DEF Agrees
    <3>4. ASSUME NEW p \in (k - 1) + 1 .. Len(new), Makes(new[p], f) PROVE FALSE
      <4>1. p \in 1 .. Len(new) /\ p >= k
        BY <1>1
      <4> QED
        BY <1>1, <3>1, <3>4, <4>1, MadeOnce
    <3>5. k - 1 \in 0 .. Len(old) - from /\ from + (k - 1) = from + k - 1
      BY <1>1
    <3>6. Later(z[f], w[f])
      BY <3>1, <3>4, <3>5, TailStable
    <3> QED
      BY <3>2, <3>3, <3>6 DEF Keeps, Agree, Later
  <2>3. MadeFrom(S, v, i) = MadeFrom(S, x, i)
    BY <1>2, <2>2, MadeAlike
  <2>4. v2[c] = x2[c] /\ x2[c].config = i.arg
    <3>1. /\ v2[c] = Component(i.arg, MadeFrom(S, v, i), {})
          /\ x2[c] = Component(i.arg, MadeFrom(S, x, i), {})
      BY <1>3, <1>4, <1>9 DEF Effect
    <3>2. \A config, mounts : Component(config, mounts, {}).config = config
      BY DEF Component
    <3> QED
      BY <2>3, <3>1, <3>2
  <2> QED
    BY <1>3, <2>1, <2>4 DEF Keeps
<1> QED
  BY <1>8, <1>9

(* What is kept of a plan, then the first n instructions of the script.    *)
NextUpTo(next, S, old, from, new, n) ==
  /\ next \in Seq(S) /\ Len(next) = from + n
  /\ \A j \in 1 .. from : next[j] = old[j]
  /\ \A k \in 1 .. n : next[from + k] = new[k]

NextPlan(next, S, old, from, new) == NextUpTo(next, S, old, from, new, Len(new))

LEMMA NextSteps ==
  ASSUME NEW S, Instrs(S), NEW old \in Seq(S), NEW from \in 0 .. Len(old), NEW new \in Seq(S),
         NEW next, NextPlan(next, S, old, from, new),
         NEW r, Replayed(r, S, old, NewEnclave), NEW d, Replayed(d, S, next, NewEnclave)
  PROVE  /\ d[from] = r[from]
         /\ \A k \in 1 .. Len(new) : d[from + k] = Done(S, d[from + (k - 1)], new[k])
         /\ \A k \in 0 .. Len(new) : d[from + k] \in States(S)
<1>1. next \in Seq(S) /\ Len(next) = from + Len(new) /\ from \in Nat /\ Len(new) \in Nat
  BY DEF NextPlan, NextUpTo
<1>2. d[from] = r[from]
  <2>1. /\ from \in 0 .. Len(next) /\ from <= Len(old) /\ from \in 0 .. from
        /\ \A j \in 1 .. from : next[j] = old[j]
    BY <1>1 DEF NextPlan, NextUpTo
  <2> QED
    BY <1>1, <2>1, SamePrefix
<1>3. ASSUME NEW k \in 1 .. Len(new) PROVE d[from + k] = Done(S, d[from + (k - 1)], new[k])
  <2>1. from + k \in 1 .. Len(next) /\ from + k - 1 = from + (k - 1) /\ next[from + k] = new[k]
    BY <1>1 DEF NextPlan, NextUpTo
  <2> QED
    BY <2>1 DEF Replayed
<1>4. ASSUME NEW k \in 0 .. Len(new) PROVE d[from + k] \in States(S)
  <2>1. from + k \in 0 .. Len(next)
    BY <1>1
  <2>2. d \in [0 .. Len(next) -> States(S)]
    BY DEF Replayed
  <2> QED
    BY <2>1, <2>2
<1> QED
  BY <1>2, <1>3, <1>4

LEMMA TailKept ==
  ASSUME NEW S, Instrs(S), NEW new, NEW old, NEW from, NEW seq, NEW upd, NEW r, NEW a, NEW b,
         Laying(S, new, old, from, seq, upd, r, a, b),
         NEW next, NextPlan(next, S, old, from, new), NEW d, Replayed(d, S, next, NewEnclave),
         NEW l \in 0 .. Len(old) - from
  PROVE  AllKept(S, new, l, d[from + l], a[l], r[from + l])
<1> DEFINE n == Len(new)
           m == Len(old) - from
<1>1. /\ new \in Seq(S) /\ old \in Seq(S) /\ from \in Nat /\ n \in Nat /\ m \in 0 .. n
      /\ Len(old) \in Nat /\ from \in 0 .. Len(old)
      /\ \A k \in 0 .. n : a[k] \in States(S)
  BY LayingIs
<1>2. Covered(S, new, old, from) /\ Replayed(r, S, old, NewEnclave)
  BY DEF Laying
<1>3. /\ d[from] = r[from] /\ from + 0 = from
      /\ \A k \in 1 .. n : d[from + k] = Done(S, d[from + (k - 1)], new[k])
      /\ \A k \in 0 .. n : d[from + k] \in States(S)
  BY <1>1, <1>2, NextSteps
<1> DEFINE Ok(k) == AllKept(S, new, k, d[from + k], a[k], r[from + k])
           G == {k \in 0 .. m : Ok(k)}
<1>4. 0 \in G
  <2>1. \A c : ~Made(new, 0, c)
    BY DEF Made
  <2> QED
    BY <1>1, <1>3, <2>1 DEF AllKept, Keeps
<1>5. ASSUME NEW k \in 0 + 1 .. m, k - 1 \in G PROVE k \in G
  <2>1. /\ k \in 1 .. Len(old) - from /\ k \in 1 .. n /\ k - 1 \in 0 .. n
        /\ k - 1 \in 0 .. Len(old) - from /\ from + (k - 1) = from + k - 1
    BY <1>1
  <2> PICK v : v = d[from + (k - 1)]
    OBVIOUS
  <2>2. Agrees(new, k - 1, upd[k - 1], a[k - 1], b[k - 1], r[from + (k - 1)], r[Len(old)])
    BY <2>1, SlotsAgree
  <2>3. AllKept(S, new, k - 1, v, a[k - 1], r[from + (k - 1)])
    BY <1>5, <2>1
  <2>4. d[from + k] = Done(S, v, new[k]) /\ a[k] = Done(S, a[k - 1], new[k])
    BY <1>3, <2>1, LayingSteps
  <2>5. a[k - 1] \in States(S) /\ v \in States(S)
    BY <1>1, <1>3, <2>1
  <2> HIDE DEF n, m, G
  <2>6. Ok(k)
    BY <1>2, <2>1, <2>2, <2>3, <2>4, <2>5, SlotKept
  <2> QED
    BY <2>6 DEF G
<1>6. l \in G
  <2> HIDE DEF G, m
  <2>1. 0 \in Nat /\ m \in Nat /\ l \in 0 .. m
    BY <1>1 DEF m
  <2> QED
    BY <1>4, <1>5, <2>1, FromTo
<1> QED
  BY <1>6

(* From the end of the tail on, the next plan describes what its run left. *)
LEMMA RestKept ==
  ASSUME NEW S, Instrs(S), NEW new, NEW old, NEW from, NEW seq, NEW upd, NEW r, NEW a, NEW b,
         Laying(S, new, old, from, seq, upd, r, a, b),
         NEW next, NextPlan(next, S, old, from, new), NEW d, Replayed(d, S, next, NewEnclave),
         NEW l \in Len(old) - from .. Len(new)
  PROVE  d[from + l] = b[l]
<1> DEFINE n == Len(new)
           m == Len(old) - from
<1>1. /\ new \in Seq(S) /\ old \in Seq(S) /\ from \in Nat /\ n \in Nat /\ m \in 0 .. n
      /\ Len(old) \in Nat /\ from \in 0 .. Len(old) /\ from + m = Len(old)
      /\ \A k \in 0 .. n : a[k] \in States(S)
  BY LayingIs
<1>2. Replayed(r, S, old, NewEnclave)
  BY DEF Laying
<1>3. /\ \A k \in 1 .. n : d[from + k] = Done(S, d[from + (k - 1)], new[k])
      /\ \A k \in 0 .. n : d[from + k] \in States(S)
  BY <1>1, <1>2, NextSteps
<1>4. d[from + m] = a[m]
  <2>1. ASSUME NEW c \in Names PROVE d[from + m][c] = a[m][c]
    <3>1. AllKept(S, new, m, d[from + m], a[m], r[from + m])
      BY <1>1, TailKept
    <3>2. Agrees(new, m, upd[m], a[m], b[m], r[from + m], r[Len(old)])
      BY <1>1, SlotsAgree
    <3>3. Keeps(S, Made(new, m, c), d[from + m][c], a[m][c], r[Len(old)][c])
      BY <1>1, <3>1 DEF AllKept
    <3>4. Agree(Made(new, m, c), c \in upd[m], a[m][c], b[m][c], r[Len(old)][c], r[Len(old)][c])
      BY <1>1, <3>2 DEF Agrees
    <3> QED
      BY <3>3, <3>4 DEF Agree, Keeps
  <2>2. d[from + m] \in States(S) /\ a[m] \in States(S)
    BY <1>1, <1>3
  <2> QED
    BY <2>1, <2>2 DEF States
<1> DEFINE H == {k \in m .. n : d[from + k] = a[k]}
<1>5. m \in H
  BY <1>1, <1>4
<1>6. ASSUME NEW k \in m + 1 .. n, k - 1 \in H PROVE k \in H
  <2>1. k \in 1 .. n /\ k \in m .. n /\ d[from + (k - 1)] = a[k - 1]
    BY <1>1, <1>6
  <2>2. d[from + k] = Done(S, d[from + (k - 1)], new[k]) /\ a[k] = Done(S, a[k - 1], new[k])
    BY <1>3, <2>1, LayingSteps
  <2> QED
    BY <2>1, <2>2
<1>7. l \in H
  <2> HIDE DEF H, m, n
  <2>1. m \in Nat /\ n \in Nat /\ l \in m .. n
    BY <1>1 DEF m, n
  <2> QED
    BY <1>5, <1>6, <2>1, FromTo
<1>8. a[l] = b[l]
  BY PastTheTail
<1> QED
  BY <1>7, <1>8

(* The commands of a plan have found their services running.               *)
CommandsRan(old, r) ==
  \A k \in 1 .. Len(old) : old[k].type = "exec" => Runs(r[k - 1], old[k].name)

(* Then the commands of the script that lie over it find them running too. *)
LEMMA CommandsRun ==
  ASSUME NEW S, Instrs(S), Unmarked(S),
         NEW new, NEW old, NEW from, NEW seq, NEW upd, NEW r, NEW a, NEW b,
         Laying(S, new, old, from, seq, upd, r, a, b), CommandsRan(old, r),
         NEW next, NextPlan(next, S, old, from, new), NEW d, Replayed(d, S, next, NewEnclave),
         NEW k \in 1 .. Len(old) - from, new[k].type = "exec"
  PROVE  Runs(b[k - 1], new[k].name) /\ Runs(d[from + (k - 1)], new[k].name)
<1> PICK c : c = new[k].name
  OBVIOUS
<1> PICK j : j = k - 1
  OBVIOUS
<1>1. /\ new \in Seq(S) /\ old \in Seq(S) /\ from \in Nat /\ Len(old) \in Nat
      /\ k \in 1 .. Len(new) /\ j \in 0 .. Len(old) - from /\ j \in 0 .. Len(new)
      /\ from + k \in 1 .. Len(old) /\ from + j = from + k - 1 /\ from + j \in 0 .. Len(old)
      /\ from \in 0 .. Len(old) /\ k = j + 1
      /\ b[j] \in States(S)
  BY LayingIs
<1>2. new[k] \in S /\ c \in Names
  BY <1>1 DEF Instrs
<1>3. Covered(S, new, old, from) /\ Replayed(r, S, old, NewEnclave)
  BY DEF Laying
<1>4. old[from + k] = new[k]
  BY <1>3 DEF Covered, Like, SameName
<1>5. Runs(r[from + j], c)
  BY <1>1, <1>4 DEF CommandsRan
<1>6. d[from + j] \in States(S) /\ r[from + j] \in States(S) /\ r[Len(old)] \in States(S)
  <2>1. \A l \in 0 .. Len(new) : d[from + l] \in States(S)
    BY <1>1, <1>3, NextSteps
  <2>2. r \in [0 .. Len(old) -> States(S)] /\ Len(old) \in 0 .. Len(old)
    BY <1>1, <1>3 DEF Replayed
  <2> QED
    BY <1>1, <2>1, <2>2
<1>7. Keeps(S, Made(new, j, c), d[from + j][c], a[j][c], r[from + j][c])
  <2>1. AllKept(S, new, j, d[from + j], a[j], r[from + j])
    BY <1>1, TailKept
  <2> QED
    BY <1>2, <2>1 DEF AllKept
<1>8. Agree(Made(new, j, c), c \in upd[j], a[j][c], b[j][c], r[from + j][c], r[Len(old)][c])
  <2>1. Agrees(new, j, upd[j], a[j], b[j], r[from + j], r[Len(old)])
    BY <1>1, SlotsAgree
  <2> QED
    BY <1>2, <2>1 DEF Agrees
<1>9. Later(r[from + j][c], r[Len(old)][c])
  <2>1. ASSUME NEW p \in j + 1 .. Len(new), Makes(new[p], c) PROVE FALSE
    <3>1. p \in 1 .. Len(new) /\ p >= k /\ k \in 1 .. Len(new) /\ k \in Nat
      BY <1>1
    <3>2. p < k
      BY <1>3, <2>1, <3>1, MadeBefore
    <3> QED
      BY <2>1, <3>1, <3>2
  <2>2. j \in 0 .. Len(old) - from /\ \A p \in j + 1 .. Len(new) : ~Makes(new[p], c)
    BY <1>1, <2>1
  <2> QED
    BY <1>2, <1>3, <2>2, TailStable
<1>10. CASE Made(new, j, c)
  <2>1. d[from + j][c] = a[j][c] /\ a[j][c].config \in Args(S)
    BY <1>7, <1>10 DEF Keeps
  <2>2. b[j][c].config \in Args(S)
    BY <1>8, <1>9, <1>10, <2>1 DEF Agree, Later
  <2>3. Runs(d[from + j], c)
    BY <2>1, Configured
  <2>4. Runs(b[j], c)
    BY <2>2, Configured
  <2> QED
    BY <2>3, <2>4
<1>11. CASE ~Made(new, j, c)
  <2>1. d[from + j][c] = r[from + j][c] /\ b[j][c] = r[Len(old)][c]
    BY <1>7, <1>8, <1>11 DEF Agree, Keeps
  <2>2. Runs(d[from + j], c)
    BY <1>5, <2>1 DEF Runs
  <2>3. Later(r[from + j][c], b[j][c])
    BY <1>9, <2>1
  <2>4. Runs(b[j], c)
    BY <1>1, <1>2, <1>5, <1>6, <2>3, StillRuns
  <2> QED
    BY <2>2, <2>4
<1> QED
  BY <1>10, <1>11

(* So for every plan the search makes: past the tail nothing is skipped    *)
(* and the next plan describes the run, and no command fails before.       *)
Bridges(new, seq, old, from, b, d) ==
  LET m == Len(old) - from
  IN /\ m \in 0 .. Len(new)
     /\ \A k \in m .. Len(new) : d[from + k] = b[k]
     /\ \A k \in m + 1 .. Len(new) : ~seq[k].executed
     /\ \A k \in 1 .. m : new[k].type = "exec" =>
          Runs(b[k - 1], new[k].name) /\ Runs(d[from + (k - 1)], new[k].name)

LEMMA LaidBridges ==
  ASSUME NEW S, Instrs(S), Unmarked(S), NEW new, NEW old, NEW from,
         Covered(S, new, old, from), NEW u \in SUBSET Tracks(S),
         NEW seq, seq = Interpretation(new, old, from, u).seq,
         NEW r, Replayed(r, S, old, NewEnclave), CommandsRan(old, r),
         NEW b, Ran(b, S, seq, r[Len(old)]),
         NEW next, NextPlan(next, S, old, from, new), NEW d, Replayed(d, S, next, NewEnclave)
  PROVE  Bridges(new, seq, old, from, b, d)
<1>1. PICK upd, a, b0 : Laying(S, new, old, from, seq, upd, r, a, b0)
  BY LaidOut
<1>2. Laying(S, new, old, from, seq, upd, r, a, b)
  BY <1>1 DEF Laying
<1>3. Len(old) - from \in 0 .. Len(new)
  BY <1>2, LayingIs
<1>4. \A k \in Len(old) - from .. Len(new) : d[from + k] = b[k]
  BY <1>2, RestKept
<1>5. \A k \in Len(old) - from + 1 .. Len(new) : ~seq[k].executed
  BY <1>2, PastTheTail
<1>6. ASSUME NEW k \in 1 .. Len(old) - from, new[k].type = "exec"
      PROVE  Runs(b[k - 1], new[k].name) /\ Runs(d[from + (k - 1)], new[k].name)
  BY <1>2, <1>6, CommandsRun
<1> QED
  BY <1>3, <1>4, <1>5, <1>6 DEF Bridges

LEMMA UnresolvedBridges ==
  ASSUME NEW S, Instrs(S), NEW new \in Seq(S), NEW old \in Seq(S),
         NEW seq, seq = Unresolved(new), NEW r, Replayed(r, S, old, NewEnclave),
         NEW b, Ran(b, S, seq, r[Len(old)]),
         NEW next, NextPlan(next, S, old, Len(old), new), NEW d, Replayed(d, S, next, NewEnclave)
  PROVE  Bridges(new, seq, old, Len(old), b, d)
<1> DEFINE n == Len(new)
           from == Len(old)
<1>1. n \in Nat /\ from \in Nat /\ from - from = 0
  OBVIOUS
<1>2. Schedules(seq, S, new, n) /\ \A k \in 1 .. n : ~seq[k].executed
  <2>1. Schedules(seq, S, new, n)
    BY Nothing
  <2> QED
    BY <2>1 DEF Unresolved
<1>3. /\ d[from] = r[from]
      /\ \A k \in 1 .. n : d[from + k] = Done(S, d[from + (k - 1)], new[k])
  BY <1>1, NextSteps
<1>4. /\ b[0] = r[from]
      /\ \A k \in 1 .. n : b[k] = Done(S, b[k - 1], new[k])
  <2>1. Len(seq) = n /\ \A k \in 1 .. n : seq[k].instr = new[k]
    BY <1>2 DEF Schedules
  <2> QED
    BY <1>2, <2>1 DEF Ran
<1> DEFINE H == {k \in 0 .. n : d[from + k] = b[k]}
<1>5. 0 \in H
  BY <1>1, <1>3, <1>4
<1>6. ASSUME NEW k \in 0 + 1 .. n, k - 1 \in H PROVE k \in H
  BY <1>1, <1>3, <1>4, <1>6
<1>7. \A k \in 0 .. n : k \in H
  <2> HIDE DEF H, n
  <2>1. 0 \in Nat /\ n \in Nat
    BY <1>1
  <2> QED
    BY <1>5, <1>6, <2>1, FromTo
<1>8. /\ 0 \in 0 .. n /\ (\A k \in 0 .. n : d[from + k] = b[k])
      /\ (\A k \in 0 + 1 .. n : ~seq[k].executed) /\ 1 .. 0 = {}
  BY <1>1, <1>2, <1>7
<1>9. Len(old) - from = 0
  BY <1>1
<1> QED
  BY ONLY <1>8, <1>9 DEF Bridges

Ready(S, old) == \E r : Replayed(r, S, old, NewEnclave) /\ CommandsRan(old, r)

LEMMA SearchBridges ==
  ASSUME NEW S, Instrs(S), Unmarked(S), NoInstruction \notin S,
         NEW new \in Seq(S), NEW old \in Seq(S), WellFormed(new),
         NEW r, Replayed(r, S, old, NewEnclave), CommandsRan(old, r),
         NEW o, o = OptimizedPlan(new, old), NEW b, Ran(b, S, o.seq, r[Len(old)]),
         NEW next, NextPlan(next, S, old, o.index, new), NEW d, Replayed(d, S, next, NewEnclave)
  PROVE  Bridges(new, o.seq, old, o.index, b, d)
<1>1. Len(old) \in Nat /\ o.index \in 0 .. Len(old)
  BY OptimizedFrom
<1>2. CASE o.index = Len(old) /\ o.seq = Unresolved(new)
  BY <1>2, UnresolvedBridges
<1>3. ASSUME NEW u \in SUBSET Tracks(S), Covered(S, new, old, o.index),
             o.seq = Interpretation(new, old, o.index, u).seq
      PROVE  Bridges(new, o.seq, old, o.index, b, d)
  BY <1>3, LaidBridges
<1> QED
  BY <1>2, <1>3, OptimizedFrom

(* The enclave's next plan, as far as the run gets past the tail: its      *)
(* commands have run too, and it describes the enclave.                    *)
Commanded(new, seq, b, k) ==
  \A j \in 1 .. k : new[j].type = "exec" /\ ~seq[j].executed => Runs(b[j - 1], new[j].name)

LEMMA NextPlanExists ==
  ASSUME NEW S, NEW new \in Seq(S), NEW old \in Seq(S), NEW from \in 0 .. Len(old)
  PROVE  \E next : NextPlan(next, S, old, from, new)
<1> DEFINE n == from + Len(new)
           next == [j \in 1 .. n |-> IF j <= from THEN old[j] ELSE new[j - from]]
<1>1. n \in Nat /\ from \in Nat /\ Len(new) \in Nat
  OBVIOUS
<1>2. \A j \in 1 .. n : next[j] \in S
  <2> SUFFICES ASSUME NEW j \in 1 .. n PROVE next[j] \in S
    OBVIOUS
  <2>1. CASE j <= from
    BY <1>1, <2>1
  <2>2. CASE j > from
    <3>1. j - from \in 1 .. Len(new)
      BY <1>1, <2>2
    <3> QED
      BY <1>1, <2>2, <3>1
  <2> QED
    BY <1>1, <2>1, <2>2
<1>3. next \in [1 .. n -> S]
  BY <1>2
<1>4. next \in Seq(S) /\ Len(next) = n
  <2> HIDE DEF next, n
  <2> QED
    BY <1>1, <1>3 DEF n
<1>5. \A j \in 1 .. from : next[j] = old[j]
  BY <1>1
<1>6. \A k \in 1 .. Len(new) : next[from + k] = new[k]
  BY <1>1
<1> QED
  BY <1>4, <1>5, <1>6 DEF NextPlan, NextUpTo

LEMMA PlanAfter ==
  ASSUME NEW S, Instrs(S), Unmarked(S), NoInstruction \notin S,
         NEW new \in Seq(S), NEW old \in Seq(S), WellFormed(new), Ready(S, old),
         NEW o, o = OptimizedPlan(new, old), NEW b, Ran(b, S, o.seq, Shown(S, Replay(old, NewEnclave))),
         NEW k \in 0 .. Len(new), Len(old) - o.index <= k, Commanded(new, o.seq, b, k),
         NEW next, NextUpTo(next, S, old, o.index, new, k)
  PROVE  Ready(S, next) /\ Shown(S, Replay(next, NewEnclave)) = b[k]
<1> PICK from : from = o.index
  OBVIOUS
<1>1. Len(old) \in Nat /\ from \in 0 .. Len(old) /\ from \in Nat /\ k \in Nat /\ Len(new) \in Nat
  BY OptimizedFrom
<1>2. PICK r : Replayed(r, S, old, NewEnclave) /\ CommandsRan(old, r)
  BY DEF Ready
<1>3. PICK full : NextPlan(full, S, old, from, new)
  BY <1>1, NextPlanExists
<1>4. /\ next \in Seq(S) /\ Len(next) = from + k /\ full \in Seq(S) /\ Len(full) = from + Len(new)
      /\ \A j \in 1 .. from : next[j] = old[j] /\ full[j] = old[j]
      /\ \A j \in 1 .. k : next[from + j] = new[j] /\ full[from + j] = new[j]
  BY <1>1, <1>3 DEF NextPlan, NextUpTo
<1>5. PICK d : Replayed(d, S, full, NewEnclave)
  BY <1>4, ReplayedAnew
<1>6. PICK c : Replayed(c, S, next, NewEnclave)
  BY <1>4, ReplayedAnew
<1>7. Bridges(new, o.seq, old, from, b, d)
  <2>1. Ran(b, S, o.seq, r[Len(old)])
    BY <1>2, ReplayedAnew
  <2> QED
    BY <1>2, <1>3, <1>5, <2>1, SearchBridges
<1>8. ASSUME NEW l \in 0 .. from + k PROVE c[l] = d[l]
  <2>1. ASSUME NEW j \in 1 .. from + k PROVE next[j] = full[j]
    <3>1. CASE j <= from
      BY <1>1, <1>4, <3>1
    <3>2. CASE j > from
      <4>1. j - from \in 1 .. k /\ from + (j - from) = j
        BY <1>1, <3>2
      <4> QED
        BY <1>4, <4>1
    <3> QED
      BY <1>1, <3>1, <3>2
  <2> PICK n : n = from + k
    OBVIOUS
  <2>2. /\ next \in Seq(S) /\ full \in Seq(S) /\ n \in 0 .. Len(next) /\ n <= Len(full) /\ l \in 0 .. n
        /\ \A j \in 1 .. n : next[j] = full[j]
    BY <1>1, <1>4, <2>1
  <2> QED
    BY <1>5, <1>6, <2>2, SamePrefix
<1>9. ASSUME NEW l \in 0 .. from PROVE c[l] = r[l]
  <2>1. /\ next \in Seq(S) /\ from \in 0 .. Len(next) /\ from <= Len(old)
        /\ \A j \in 1 .. from : next[j] = old[j]
    BY <1>1, <1>4
  <2>2. /\ Instrs(S) /\ old \in Seq(S) /\ l \in 0 .. from
        /\ Replayed(c, S, next, NewEnclave) /\ Replayed(r, S, old, NewEnclave)
    BY <1>2, <1>6
  <2> QED
    BY ONLY <2>1, <2>2, SamePrefix
<1>10. CommandsRan(next, c)
  <2> SUFFICES ASSUME NEW l \in 1 .. from + k, next[l].type = "exec"
               PROVE  Runs(c[l - 1], next[l].name)
    BY <1>4 DEF CommandsRan
  <2>1. CASE l <= from
    <3>1. next[l] = old[l] /\ c[l - 1] = r[l - 1] /\ l \in 1 .. Len(old)
      BY <1>1, <1>4, <1>9, <2>1
    <3> QED
      BY <1>2, <3>1 DEF CommandsRan
  <2>2. CASE l > from
    <3> PICK j : j = l - from
      OBVIOUS
    <3>1. j \in 1 .. k /\ l - 1 = from + (j - 1) /\ from + (j - 1) \in 0 .. from + k /\ from + j = l
      BY <1>1, <2>2
    <3>2. next[l] = new[j] /\ c[l - 1] = d[from + (j - 1)]
      BY <1>4, <1>8, <3>1
    <3>3. CASE j <= Len(old) - from
      <4>1. j \in 1 .. Len(old) - from
        BY <1>1, <3>1, <3>3
      <4> QED
        BY <1>7, <3>2, <4>1 DEF Bridges
    <3>4. CASE j > Len(old) - from
      <4> PICK m, n : m = Len(old) - from /\ n = Len(new)
        OBVIOUS
      <4>1. j \in Len(old) - from + 1 .. Len(new) /\ j - 1 \in Len(old) - from .. Len(new)
        <5>1. m \in Int /\ n \in Int /\ k \in 0 .. n /\ j > m
          BY <1>1, <3>4
        <5>2. j \in m + 1 .. n /\ j - 1 \in m .. n
          BY <3>1, <5>1
        <5> QED
          BY <5>2
      <4>2. ~o.seq[j].executed /\ d[from + (j - 1)] = b[j - 1]
        BY <1>7, <4>1 DEF Bridges
      <4> QED
        BY <3>1, <3>2, <4>2 DEF Commanded
    <3>5. j <= Len(old) - from \/ j > Len(old) - from
      <4> PICK m : m = Len(old) - from
        OBVIOUS
      <4>1. m \in Int /\ j \in Int
        BY <1>1, <3>1
      <4>2. j <= m \/ j > m
        BY ONLY <4>1
      <4> QED
        BY ONLY <4>2, m = Len(old) - from
    <3> QED
      BY ONLY <3>3, <3>4, <3>5
  <2> QED
    BY <1>1, <2>1, <2>2
<1>11. Shown(S, Replay(next, NewEnclave)) = b[k]
  <2>1. from + k \in 0 .. from + k /\ k \in Len(old) - from .. Len(new)
    BY <1>1
  <2>2. Shown(S, Replay(next, NewEnclave)) = c[from + k]
    BY <1>4, <1>6, ReplayedAnew
  <2>3. c[from + k] = d[from + k]
    BY <1>8, <2>1
  <2>4. d[from + k] = b[k]
    BY <1>7, <2>1 DEF Bridges
  <2> QED
    BY <2>2, <2>3, <2>4
<1> QED
  BY <1>6, <1>10, <1>11 DEF Ready

LEMMA OnlyPastTheTail ==
  ASSUME NEW S, Instrs(S), Unmarked(S), NoInstruction \notin S,
         NEW new \in Seq(S), NEW old \in Seq(S), WellFormed(new), Ready(S, old),
         NEW o, o = OptimizedPlan(new, old), NEW b, Ran(b, S, o.seq, Shown(S, Replay(old, NewEnclave))),
         NEW k \in 1 .. Len(new), new[k].type = "exec", ~Runs(b[k - 1], new[k].name)
  PROVE  Len(old) - o.index <= k - 1
<1> PICK from : from = o.index
  OBVIOUS
<1>1. Len(old) \in Nat /\ from \in 0 .. Len(old)
  BY OptimizedFrom
<1>2. PICK r : Replayed(r, S, old, NewEnclave) /\ CommandsRan(old, r)
  BY DEF Ready
<1>3. PICK full : NextPlan(full, S, old, from, new)
  BY <1>1, NextPlanExists
<1>4. PICK d : Replayed(d, S, full, NewEnclave)
  BY <1>3, ReplayedAnew DEF NextPlan, NextUpTo
<1>5. Ran(b, S, o.seq, r[Len(old)])
  BY <1>2, ReplayedAnew
<1>6. Bridges(new, o.seq, old, from, b, d)
  BY <1>2, <1>3, <1>4, <1>5, SearchBridges
<1>7. k \notin 1 .. Len(old) - from
  BY <1>6 DEF Bridges
<1> QED
  BY <1>1, <1>7


-----------------------------------------------------------------------------
(* The pairs of a plan and a script, as they are grown.                    *)
Grows == currentPlan \in Seq(Instructions) /\ newScript \in Seq(Instructions)

LEMMA PairsGrow == OverlapSpec => []Grows
<1>1. NoInstructions => Grows
  BY DEF NoInstructions, Grows
<1>2. Grows /\ [Grow]_overlapVars => Grows'
  <2> SUFFICES ASSUME Grows, [Grow]_overlapVars PROVE Grows'
    OBVIOUS
  <2>1. CASE GrowPlan
    BY <2>1 DEF GrowPlan, Grows
  <2>2. CASE GrowScript
    BY <2>2 DEF GrowScript, Grows
  <2>3. CASE UNCHANGED overlapVars
    BY <2>3 DEF overlapVars, Grows
  <2> QED
    BY <2>1, <2>2, <2>3 DEF Grow
<1> QED
  BY <1>1, <1>2, PTL DEF OverlapSpec

(* To fit all its slots is to lie over the rest of the plan.              *)
LEMMA FitIsOverlap ==
  ASSUME NEW S, \A i \in S : i.type \in Types, NoInstruction \notin S,
         NEW s \in Seq(S), NEW p \in Seq(S), NEW f \in 0 .. Len(p)
  PROVE  LiesOver(s, p, f)
           <=> f >= FirstPossible(s, p) /\ FitsAll(s, p, f, Len(s))
<1>1. f >= FirstPossible(s, p) <=> Len(p) - f <= Len(s)
  BY DEF FirstPossible
<1>2. ASSUME NEW k \in 1 .. Len(s), s[k].type # "remove_service"
      PROVE  Fits(s[k], MaskAt(p, f, k))
               <=> (k \in 1 .. Len(p) - f => SameSlot(s[k], p[f + k]))
  <2>1. s[k] \in S /\ s[k].type \in Types
    OBVIOUS
  <2>2. CASE f + k > Len(p)
    <3>1. MaskAt(p, f, k) = NoInstruction /\ k \notin 1 .. Len(p) - f
      BY <2>2 DEF MaskAt
    <3> QED
      BY <1>2, <3>1 DEF Fits
  <2>3. CASE f + k <= Len(p)
    <3>1. /\ MaskAt(p, f, k) = p[f + k] /\ k \in 1 .. Len(p) - f
          /\ p[f + k] # NoInstruction
      BY <2>3 DEF MaskAt
    <3>2. Like(s[k], p[f + k]) <=> SameSlot(s[k], p[f + k])
      BY <1>2, <2>1 DEF Like, SameName, SameSlot, Tracked, Types
    <3> QED
      BY <1>2, <3>1, <3>2 DEF Fits
  <2> QED
    BY <2>2, <2>3
<1>3. ASSUME LiesOver(s, p, f)
      PROVE  f >= FirstPossible(s, p) /\ FitsAll(s, p, f, Len(s))
  <2>1. DOMAIN s = 1 .. Len(s)
    OBVIOUS
  <2> QED
    BY <1>1, <1>2, <1>3, <2>1 DEF LiesOver, FitsAll
<1>4. ASSUME f >= FirstPossible(s, p), FitsAll(s, p, f, Len(s))
      PROVE  LiesOver(s, p, f)
  <2>1. /\ DOMAIN s = 1 .. Len(s) /\ Len(p) - f <= Len(s)
        /\ \A k \in 1 .. Len(s) : s[k].type # "remove_service"
    BY <1>1, <1>4 DEF FitsAll, Fits
  <2>2. \A k \in 1 .. Len(p) - f : SameSlot(s[k], p[f + k])
    BY <1>2, <1>4, <2>1 DEF FitsAll
  <2> QED
    BY <2>1, <2>2 DEF LiesOver
<1> QED
  BY <1>3, <1>4

(* The index found is the least, whatever attempts failed before it.       *)
LEMMA Largest ==
  ASSUME NEW S, \A i \in S : i.type \in Types, NoInstruction \notin S,
         NEW s \in Seq(S), s # <<>>, NEW p \in Seq(S),
         NEW index \in 0 .. Len(p), Least(s, p, index)
  PROVE  index = Min({from \in 0 .. Len(p) - 1 : LiesOver(s, p, from)} \cup {Len(p)})
<1> DEFINE Lies(f) == f >= FirstPossible(s, p) /\ FitsAll(s, p, f, Len(s))
           T == {from \in 0 .. Len(p) - 1 : LiesOver(s, p, from)} \cup {Len(p)}
<1>1. T = {from \in 0 .. Len(p) - 1 : Lies(from)} \cup {Len(p)}
  BY FitIsOverlap
<1>2. FirstPossible(s, p) \in 0 .. Len(p) /\ Len(p) \in Nat
  BY FirstIs
<1>3. \A f \in 0 .. index - 1 : ~Lies(f)
  BY <1>2 DEF Least
<1>4. index < Len(p) => Lies(index)
  BY <1>2 DEF Least
<1> HIDE DEF Lies
<1>5. index \in T /\ \A k \in T : index <= k
  <2>1. index \in T
    BY <1>1, <1>2, <1>4
  <2>2. ASSUME NEW k \in T, k < index PROVE FALSE
    <3>1. k \in 0 .. index - 1 /\ Lies(k)
      BY <1>1, <1>2, <2>2
    <3> QED
      BY <1>3, <3>1
  <2>3. T \in SUBSET Nat
    BY <1>1, <1>2
  <2> HIDE DEF T
  <2> QED
    BY <2>1, <2>2, <2>3
<1>6. T \in SUBSET Nat
  BY <1>1, <1>2
<1> HIDE DEF T
<1>7. ASSUME NEW m \in T, \A k \in T : m <= k PROVE m = index
  BY <1>5, <1>6, <1>7
<1>8. index = Min(T)
  BY <1>5, <1>7 DEF Min
<1> QED
  BY <1>8 DEF T

(* InterpretAndOptimizePlan keeps a prefix of the plan and schedules the   *)
(* script's instructions, each once and in order, at the largest overlap   *)
(* of the two: of all plans and scripts over any set of instructions.      *)
THEOREM SearchIsRight ==
  ASSUME OverlapAssumption
  PROVE  OverlapSpec => []LargestOverlap
<1>1. Grows => LargestOverlap
  <2> SUFFICES ASSUME Grows PROVE LargestOverlap
    OBVIOUS
  <2> PICK r : r = OptimizedPlan(newScript, currentPlan)
    OBVIOUS
  <2>1. /\ NoInstruction \notin Instructions /\ \A i \in Instructions : i.type \in Types
        /\ currentPlan \in Seq(Instructions) /\ newScript \in Seq(Instructions)
    BY DEF OverlapAssumption, Grows
  <2>2. Len(currentPlan) \in Nat /\ \A k \in 1 .. Len(currentPlan) : currentPlan[k] # NoInstruction
    BY <2>1
  <2>3. /\ r.index \in 0 .. Len(currentPlan)
        /\ Schedules(r.seq, Instructions, newScript, Len(newScript))
        /\ newScript # <<>> => Least(newScript, currentPlan, r.index)
    BY <2>1, <2>2, Search
  <2>4. Optimized = r
    BY DEF Optimized
  <2>5. SearchOK
    <3> PICK s : s = r.seq
      OBVIOUS
    <3>1. /\ DOMAIN s = 1 .. Len(newScript) /\ DOMAIN newScript = 1 .. Len(newScript)
          /\ \A k \in 1 .. Len(newScript) : s[k].instr = newScript[k]
      BY <2>1, <2>3 DEF Schedules
    <3>2. [k \in DOMAIN s |-> s[k].instr] = newScript
      BY <2>1, <3>1
    <3> QED
      BY <2>1, <2>3, <2>4, <3>2 DEF SearchOK
  <2>6. ASSUME newScript # <<>>
        PROVE  r.index = Min({from \in 0 .. Len(currentPlan) - 1 : LiesOver(newScript, currentPlan, from)}
                               \cup {Len(currentPlan)})
    BY <2>1, <2>3, <2>6, Largest
  <2> QED
    BY <2>4, <2>5, <2>6 DEF LargestOverlap
<1> QED
  BY <1>1, PairsGrow, PTL

-----------------------------------------------------------------------------
(* Running the optimised plan in the enclave its plan describes leaves     *)
(* what running the whole script there would, but for what an add_services *)
(* or a run_sh of the two makes from artifacts: no other instruction it    *)
(* skips is missed, whatever attempts failed before and whatever they      *)
(* marked.                                                                 *)
THEOREM SkippingIsRight ==
  ASSUME OverlapAssumption
  PROVE  OverlapSpec => []SkippingIsInvisible
<1>1. Grows => SkippingIsInvisible
  <2> SUFFICES ASSUME Grows, WellFormed(newScript)
               PROVE  LET S == ToSet(currentPlan) \cup ToSet(newScript)
                      IN Shown(S, RunPlan(OptimizedPlan(newScript, currentPlan).seq,
                                          Replay(currentPlan, NewEnclave)))
                           = Shown(S, Replay(newScript, Replay(currentPlan, NewEnclave)))
    BY DEF SkippingIsInvisible, Optimized, Shown
  <2> PICK S : S = ToSet(currentPlan) \cup ToSet(newScript)
    OBVIOUS
  <2>1. S \subseteq Instructions /\ currentPlan \in Seq(S) /\ newScript \in Seq(S)
    BY DEF Grows, ToSet
  <2>2. Instrs(S) /\ NoInstruction \notin S
    BY <2>1 DEF OverlapAssumption, Instrs, TasksApart
  <2> QED
    BY <2>1, <2>2, OptimizedRun
<1> QED
  BY <1>1, PairsGrow, PTL

LEMMA NoRunIsNone == NoRun \notin Run
  BY RunsAssumption DEF RunsAssumption

USE NoRunIsNone

(* The functions the argument is about are functions on Run.               *)
Typed ==
  /\ h \in [Run -> {"none", "reading", "gone"}]
  /\ e \in [Run -> Statuses]
  /\ options \in [Run -> SUBSET {"dry", "uncached"}]
  /\ lock \in Run \cup {NoRun}

(* A run that has not been requested has no executor, so that its options  *)
(* are fixed before it executes; a dry run never gets to execute.          *)
NotYet    == \A r \in Run : h[r] = "none" => e[r] = "none"
NeverDry  == \A r \in Run : e[r] = "execute" => ~Dry(r)

Started  == \A r \in Run : h[r] = "none" => g[r] = "none"

GTyped    == g \in [Run -> {"none", "interpret", "validate", "lock", "forward", "finish",
                            "close", "closed", "crashed"}]

IInv == Typed /\ GTyped /\ NotYet /\ NeverDry /\ Started /\ ExecutorsExclude

LEMMA InitEstablishes == Init => IInv
  BY DEF Init, IInv, Typed, GTyped, NotYet, NeverDry, Started, ExecutorsExclude, Executing,
         Statuses, Run, Dry

(* One step per action: what it does to the two program counters, the      *)
(* mutex and the options is enough.                                        *)
LEMMA StepPreserves == IInv /\ [Next]_vars => IInv'
<1> SUFFICES ASSUME IInv, [Next]_vars PROVE IInv'
  OBVIOUS
<1> USE DEF IInv, Typed, GTyped, NotYet, NeverDry, Started, ExecutorsExclude, Executing, Statuses, Dry
<1>1. ASSUME NEW r \in Run, Handler(r) PROVE IInv'
  <2>1. CASE Request(r)
    BY <2>1 DEF Request, handlerVars, runVars, execVars, planVars
  <2>2. CASE Return(r)
    BY <2>2 DEF Return, handlerVars, runVars, execVars, planVars, Reading
  <2>3. CASE Disconnect(r)
    BY <2>3 DEF Disconnect, handlerVars, runVars, execVars, planVars, Reading
  <2> QED
    BY <1>1, <2>1, <2>2, <2>3 DEF Handler
<1>2. ASSUME NEW r \in Run, Goroutine(r) PROVE IInv'
  <2>1. CASE Interpret(r)
    BY <2>1 DEF Interpret, handlerVars, runVars, execVars, planVars, Reading
  <2>2. CASE InterpretFails(r)
    BY <2>2 DEF InterpretFails, handlerVars, runVars, execVars, planVars
  <2>3. CASE Validate(r)
    BY <2>3 DEF Validate, handlerVars, runVars, execVars, planVars
  <2>4. CASE ValidateFails(r)
    BY <2>4 DEF ValidateFails, handlerVars, runVars, execVars, planVars
  <2>5. CASE Lock(r)
    BY <2>5 DEF Lock, handlerVars, runVars, execVars, planVars
  <2>6. CASE Forward(r)
    BY <2>6 DEF Forward, handlerVars, runVars, execVars, planVars
  <2>7. CASE ForwardEnds(r)
    BY <2>7 DEF ForwardEnds, handlerVars, runVars, execVars, planVars
  <2>8. CASE TakeWarnings(r)
    BY <2>8 DEF TakeWarnings, handlerVars, runVars, execVars, planVars
  <2>9. CASE Close(r)
    BY <2>9 DEF Close, handlerVars, runVars, execVars, planVars
  <2> QED
    BY <1>2, <2>1, <2>2, <2>3, <2>4, <2>5, <2>6, <2>7, <2>8, <2>9 DEF Goroutine
<1>3. ASSUME NEW r \in Run, Executor(r) PROVE IInv'
  <2>1. CASE Begin(r)
    BY <2>1 DEF Begin, handlerVars, runVars, execVars, planVars
  <2>2. CASE Announce(r)
    BY <2>2 DEF Announce, handlerVars, runVars, execVars, planVars
  <2>3. CASE Execute(r)
    BY <2>3 DEF Execute, handlerVars, runVars, execVars, planVars
  <2>4. CASE ExecuteFails(r)
    BY <2>4 DEF ExecuteFails, handlerVars, runVars, execVars, planVars
  <2>5. CASE Record(r)
    BY <2>5 DEF Record, handlerVars, runVars, execVars, planVars
  <2>6. CASE Fail(r)
    BY <2>6 DEF Fail, handlerVars, runVars, execVars, planVars
  <2>7. CASE Succeed(r)
    BY <2>7 DEF Succeed, handlerVars, runVars, execVars, planVars
  <2>8. CASE SucceedDry(r)
    BY <2>8 DEF SucceedDry, handlerVars, runVars, execVars, planVars
  <2>9. CASE Persist(r)
    BY <2>9 DEF Persist, handlerVars, runVars, execVars, planVars
  <2>10. CASE Unlock(r)
    BY <2>10 DEF Unlock, handlerVars, runVars, execVars, planVars
  <2> QED
    BY <1>3, <2>1, <2>2, <2>3, <2>4, <2>5, <2>6, <2>7, <2>8, <2>9, <2>10 DEF Executor
<1>4. CASE Crash
  BY <1>4 DEF Crash, Reading, runVars
<1>5. CASE UNCHANGED vars
  BY <1>5 DEF vars, handlerVars, runVars, execVars, planVars
<1> QED
  BY <1>1, <1>2, <1>3, <1>4, <1>5 DEF Next

LEMMA Inductive == Spec => []IInv
  BY InitEstablishes, StepPreserves, PTL DEF Spec

(* At most one executor is at work, whatever the runs, the failures, the   *)
(* clients and the crashes: the mutex taken in Execute and released by the *)
(* goroutine it starts.                                                    *)
THEOREM MutualExclusion == Spec => []ExecutorsExclude
  BY Inductive, PTL DEF IInv

-----------------------------------------------------------------------------
(* The enclave changes in the hands of an executing run, or of the crash   *)
(* that cuts it short.                                                     *)
LEMMA ChangeByHolder ==
  IInv /\ [Next]_vars => (state' # state => \E r \in Run : lock = r /\ e[r] = "execute" /\ ~Dry(r))
<1> SUFFICES ASSUME IInv, [Next]_vars, state' # state
             PROVE  \E r \in Run : lock = r /\ e[r] = "execute" /\ ~Dry(r)
  OBVIOUS
<1> USE DEF IInv, NeverDry, ExecutorsExclude, Executing
<1>1. ASSUME NEW r \in Run, Handler(r) PROVE FALSE
  BY <1>1 DEF Handler, Request, Return, Disconnect, enclaveVars
<1>2. ASSUME NEW r \in Run, Goroutine(r) PROVE FALSE
  BY <1>2 DEF Goroutine, Interpret, InterpretFails, Validate, ValidateFails, Lock, Forward,
              ForwardEnds, TakeWarnings, Close, enclaveVars
<1>3. ASSUME NEW r \in Run, Executor(r) PROVE e[r] = "execute"
  BY <1>3 DEF Executor, Begin, Announce, Execute, ExecuteFails, Record, Fail, Succeed,
              SucceedDry, Persist, Unlock, enclaveVars
<1>4. ASSUME Crash PROVE \E r \in Run : e[r] = "execute"
  BY <1>4 DEF Crash
<1>5. CASE UNCHANGED vars
  BY <1>5 DEF vars, enclaveVars
<1> QED
  BY <1>1, <1>2, <1>3, <1>4, <1>5 DEF Next

(* Only the holder of the mutex changes the enclave, and no dry run does.  *)
THEOREM OnlyTheHolder == Spec => OnlyTheHolderChangesEnclave
  BY Inductive, ChangeByHolder, PTL DEF Spec, OnlyTheHolderChangesEnclave

-----------------------------------------------------------------------------
(* The plan leaves the database's hands while the mutex is held, and is    *)
(* back before it is released, if persisting never fails.                  *)
PersistInv ==
  /\ lock = NoRun => saved = plan
  /\ \A r \in Run : e[r] = "unlock" => saved = plan

LEMMA PersistStep ==
  ASSUME "persist" \notin Failures
  PROVE  IInv /\ PersistInv /\ [Next]_vars => PersistInv'
<1> SUFFICES ASSUME IInv, PersistInv, [Next]_vars PROVE PersistInv'
  OBVIOUS
<1> USE DEF IInv, Typed, ExecutorsExclude, Executing, PersistInv, Statuses
<1>1. ASSUME NEW r \in Run, Handler(r) PROVE PersistInv'
  BY <1>1 DEF Handler, Request, Return, Disconnect, execVars, planVars
<1>2. ASSUME NEW r \in Run, Goroutine(r) PROVE PersistInv'
  <2>1. CASE Interpret(r)
    BY <2>1 DEF Interpret, execVars, planVars
  <2>2. CASE InterpretFails(r)
    BY <2>2 DEF InterpretFails, execVars, planVars
  <2>3. CASE Validate(r)
    BY <2>3 DEF Validate, execVars, planVars
  <2>4. CASE ValidateFails(r)
    BY <2>4 DEF ValidateFails, execVars, planVars
  <2>5. CASE Lock(r)
    BY <2>5 DEF Lock, execVars, planVars
  <2>6. CASE Forward(r)
    BY <2>6 DEF Forward, execVars, planVars
  <2>7. CASE ForwardEnds(r)
    BY <2>7 DEF ForwardEnds, execVars, planVars
  <2>8. CASE TakeWarnings(r)
    BY <2>8 DEF TakeWarnings, execVars, planVars
  <2>9. CASE Close(r)
    BY <2>9 DEF Close, execVars, planVars
  <2> QED
    BY <1>2, <2>1, <2>2, <2>3, <2>4, <2>5, <2>6, <2>7, <2>8, <2>9 DEF Goroutine
<1>3. ASSUME NEW r \in Run, Executor(r) PROVE PersistInv'
  <2>1. CASE Begin(r)
    BY <2>1 DEF Begin, execVars, planVars
  <2>2. CASE Announce(r)
    BY <2>2 DEF Announce, execVars, planVars
  <2>3. CASE Execute(r)
    BY <2>3 DEF Execute, execVars, planVars
  <2>4. CASE ExecuteFails(r)
    BY <2>4 DEF ExecuteFails, execVars, planVars
  <2>5. CASE Record(r)
    BY <2>5 DEF Record, execVars, planVars
  <2>6. CASE Fail(r)
    BY <2>6 DEF Fail, execVars, planVars
  <2>7. CASE Succeed(r)
    BY <2>7 DEF Succeed, execVars, planVars
  <2>8. CASE SucceedDry(r)
    BY <2>8 DEF SucceedDry, execVars, planVars
  <2>9. CASE Persist(r)
    BY <2>9 DEF Persist, execVars, planVars
  <2>10. CASE Unlock(r)
    BY <2>10 DEF Unlock, execVars, planVars
  <2> QED
    BY <1>3, <2>1, <2>2, <2>3, <2>4, <2>5, <2>6, <2>7, <2>8, <2>9, <2>10 DEF Executor
<1>4. CASE Crash
  BY <1>4 DEF Crash, LoadedPlan
<1>5. CASE UNCHANGED vars
  BY <1>5 DEF vars, execVars, planVars
<1> QED
  BY <1>1, <1>2, <1>3, <1>4, <1>5 DEF Next

LEMMA PersistInit == Init => PersistInv
  BY DEF Init, PersistInv

(* If persisting never fails, the database holds the plan between runs ... *)
THEOREM PlanOnDisk ==
  ASSUME "persist" \notin Failures
  PROVE  Spec => []PersistedWhenIdle
<1>1. PersistInv => PersistedWhenIdle
  BY DEF PersistInv, PersistedWhenIdle
<1> QED
  BY Inductive, PersistInit, PersistStep, <1>1, PTL DEF Spec

(* ... so that an API container restarted between runs has lost nothing.   *)
THEOREM RestartIsHarmless ==
  ASSUME "persist" \notin Failures
  PROVE  Spec => RestartKeepsPlan
<1>1. PersistInv /\ [Next]_vars => (crashes' # crashes /\ lock = NoRun => plan' = plan)
  <2> SUFFICES ASSUME PersistInv, [Next]_vars, crashes' # crashes, lock = NoRun
               PROVE  plan' = plan
    OBVIOUS
  <2>1. CASE Crash
    BY <2>1 DEF Crash, LoadedPlan, PersistInv
  <2>2. ASSUME NEW r \in Run, Handler(r) \/ Goroutine(r) \/ Executor(r) PROVE FALSE
    BY <2>2 DEF Handler, Request, Return, Disconnect,
                Goroutine, Interpret, InterpretFails, Validate, ValidateFails, Lock, Forward,
                ForwardEnds, TakeWarnings, Close,
                Executor, Begin, Announce, Execute, ExecuteFails, Record, Fail, Succeed,
                SucceedDry, Persist, Unlock
  <2> QED
    BY <2>1, <2>2 DEF Next, vars
<1> QED
  BY Inductive, PersistInit, PersistStep, <1>1, PTL DEF Spec, RestartKeepsPlan
-----------------------------------------------------------------------------
(* What a run keeps, whatever interferes with it: its script, the plan the *)
(* search made of it, its place in that plan.                              *)
RunsTyped ==
  /\ script \in [Run -> Seq(Submitted)]
  /\ sched \in [Run -> [index : Nat, seq : Seq(Entries(Submitted))]]
  /\ pos \in [Run -> Nat \ {0}]

LinesTyped ==
  /\ hand \in [Run -> {"none", "line", "event"}]
  /\ finished \in [Run -> 0 .. 1]
  /\ outcome \in [Run -> {"none", "success", "failure"}]
  /\ warnings \subseteq Run /\ shown \in [Run -> SUBSET Run]

(* A run has not sent its event before it is over, nor sends it twice.     *)
OneEvent ==
  \A r \in Run :
    /\ g[r] \in {"none", "interpret", "validate", "lock"} =>
         finished[r] = 0 /\ hand[r] = "none" /\ e[r] = "none"
    /\ e[r] \in {"begin", "announce", "execute", "record", "fail"} =>
         finished[r] = 0 /\ hand[r] # "event"
    /\ hand[r] = "event" => finished[r] = 0

(* The plans hold what was run, and a run skips only what was run.         *)
PlansWereRun == ran \subseteq Submitted /\ plan \in Seq(ran) /\ saved \in Seq(ran)

SkippedWereRun ==
  \A r \in Run : \A k \in 1 .. Len(sched[r].seq) :
    sched[r].seq[k].executed => sched[r].seq[k].instr \in ran

InSequence ==
  \A r \in Run :
    /\ e[r] \in {"execute", "record", "fail"} => pos[r] <= Len(sched[r].seq)
    /\ e[r] = "record" => Current(r) \in ran

LinesInv == LinesTyped /\ OneEvent

LEMMA LinesStep == IInv /\ LinesInv /\ [Next]_vars => LinesInv'
<1> SUFFICES ASSUME IInv, LinesInv, [Next]_vars PROVE LinesInv'
  OBVIOUS
<1> USE DEF IInv, Typed, GTyped, NotYet, Started, LinesInv, LinesTyped, OneEvent, Statuses
<1>1. ASSUME NEW r \in Run, Handler(r) PROVE LinesInv'
  <2>1. CASE Request(r)
    BY <2>1 DEF Request, handlerVars, runVars, execVars, planVars, warnVars, enclaveVars
  <2>2. CASE Return(r)
    BY <2>2 DEF Return, handlerVars, runVars, execVars, planVars, warnVars, enclaveVars
  <2>3. CASE Disconnect(r)
    BY <2>3 DEF Disconnect, handlerVars, runVars, execVars, planVars, warnVars, enclaveVars
  <2> QED
    BY <1>1, <2>1, <2>2, <2>3 DEF Handler
<1>2. ASSUME NEW r \in Run, Goroutine(r) PROVE LinesInv'
  <2>1. CASE Interpret(r)
    BY <2>1 DEF Interpret, handlerVars, runVars, execVars, planVars, warnVars, enclaveVars
  <2>2. CASE InterpretFails(r)
    BY <2>2 DEF InterpretFails, handlerVars, runVars, execVars, planVars, warnVars, enclaveVars
  <2>3. CASE Validate(r)
    BY <2>3 DEF Validate, handlerVars, runVars, execVars, planVars, warnVars, enclaveVars
  <2>4. CASE ValidateFails(r)
    BY <2>4 DEF ValidateFails, handlerVars, runVars, execVars, planVars, warnVars, enclaveVars
  <2>5. CASE Lock(r)
    BY <2>5 DEF Lock, handlerVars, runVars, execVars, planVars, warnVars, enclaveVars
  <2>6. CASE Forward(r)
    BY <2>6 DEF Forward, handlerVars, runVars, execVars, planVars, warnVars, enclaveVars
  <2>7. CASE ForwardEnds(r)
    BY <2>7 DEF ForwardEnds, handlerVars, runVars, execVars, planVars, warnVars, enclaveVars
  <2>8. CASE TakeWarnings(r)
    BY <2>8 DEF TakeWarnings, handlerVars, runVars, execVars, planVars, warnVars, enclaveVars
  <2>9. CASE Close(r)
    BY <2>9 DEF Close, handlerVars, runVars, execVars, planVars, warnVars, enclaveVars
  <2> QED
    BY <1>2, <2>1, <2>2, <2>3, <2>4, <2>5, <2>6, <2>7, <2>8, <2>9 DEF Goroutine
<1>3. ASSUME NEW r \in Run, Executor(r) PROVE LinesInv'
  <2>1. CASE Begin(r)
    BY <2>1 DEF Begin, handlerVars, runVars, execVars, planVars, warnVars, enclaveVars
  <2>2. CASE Announce(r)
    BY <2>2 DEF Announce, handlerVars, runVars, execVars, planVars, warnVars, enclaveVars
  <2>3. CASE Execute(r)
    BY <2>3 DEF Execute, handlerVars, runVars, execVars, planVars, warnVars, enclaveVars
  <2>4. CASE ExecuteFails(r)
    BY <2>4 DEF ExecuteFails, handlerVars, runVars, execVars, planVars, warnVars, enclaveVars
  <2>5. CASE Record(r)
    BY <2>5 DEF Record, handlerVars, runVars, execVars, planVars, warnVars, enclaveVars
  <2>6. CASE Fail(r)
    BY <2>6 DEF Fail, handlerVars, runVars, execVars, planVars, warnVars, enclaveVars
  <2>7. CASE Succeed(r)
    BY <2>7 DEF Succeed, handlerVars, runVars, execVars, planVars, warnVars, enclaveVars
  <2>8. CASE SucceedDry(r)
    BY <2>8 DEF SucceedDry, handlerVars, runVars, execVars, planVars, warnVars, enclaveVars
  <2>9. CASE Persist(r)
    BY <2>9 DEF Persist, handlerVars, runVars, execVars, planVars, warnVars, enclaveVars
  <2>10. CASE Unlock(r)
    BY <2>10 DEF Unlock, handlerVars, runVars, execVars, planVars, warnVars, enclaveVars
  <2> QED
    BY <1>3, <2>1, <2>2, <2>3, <2>4, <2>5, <2>6, <2>7, <2>8, <2>9, <2>10 DEF Executor
<1>4. CASE Crash
  BY <1>4 DEF Crash, runVars, Reading
<1>5. CASE UNCHANGED vars
  BY <1>5 DEF vars, handlerVars, runVars, execVars, planVars, warnVars, enclaveVars
<1> QED
  BY <1>1, <1>2, <1>3, <1>4, <1>5 DEF Next
LEMMA PlanIs ==
  ASSUME NEW s \in Seq(Submitted), NEW T \in SUBSET Submitted, NEW p \in Seq(T),
         NEW o, o = OptimizedPlan(s, p) \/ o = NaivePlan(s, p)
  PROVE  /\ o \in [index : Nat, seq : Seq(Entries(Submitted))]
         /\ \A k \in 1 .. Len(o.seq) : o.seq[k].executed => o.seq[k].instr \in T
<1>1. NoInstruction \notin Submitted /\ \A i \in Submitted : i.type \in Types
  BY RunsAssumption DEF RunsAssumption
<1>2. Len(p) \in Nat /\ \A k \in 1 .. Len(p) : p[k] \in T /\ p[k] # NoInstruction
  BY <1>1
<1>3. CASE o = OptimizedPlan(s, p)
  <2>1. PICK n, q : o = [index |-> n, seq |-> q]
    BY <1>3 DEF OptimizedPlan
  <2>2. o.index = n /\ o.seq = q
    BY <2>1
  <2>3. /\ n \in 0 .. Len(p) /\ Schedules(q, Submitted, s, Len(s))
        /\ SkipsEqual(q, s, p, n, Len(s))
    BY <1>1, <1>2, <1>3, <2>2, Search
  <2>4. q \in Seq(Entries(Submitted)) /\ Len(q) = Len(s) /\ n \in Nat
    BY <1>2, <2>3 DEF Schedules
  <2>5. ASSUME NEW k \in 1 .. Len(q), q[k].executed PROVE q[k].instr \in T
    <3>1. k \in 1 .. Len(s) /\ q[k].instr = s[k]
      BY <2>3, <2>4 DEF Schedules
    <3>2. MaskAt(p, n, k) = s[k] /\ MaskAt(p, n, k) # NoInstruction
      BY <2>3, <2>5, <3>1 DEF SkipsEqual
    <3> QED
      BY <1>2, <2>4, <3>1, <3>2 DEF MaskAt
  <2> QED
    BY <2>1, <2>2, <2>4, <2>5
<1>4. CASE o = NaivePlan(s, p)
  <2>1. PICK q : q = Unresolved(s)
    OBVIOUS
  <2>2. o = [index |-> 0, seq |-> q] /\ o.seq = q
    BY <1>4, <2>1 DEF NaivePlan
  <2>3. q \in Seq(Entries(Submitted)) /\ Len(q) = Len(s)
    BY <2>1, Nothing DEF Schedules
  <2>4. \A k \in 1 .. Len(q) : ~q[k].executed
    BY <2>1, <2>3 DEF Unresolved
  <2> QED
    BY <2>2, <2>3, <2>4
<1> QED
  BY <1>3, <1>4

LEMMA KeptIs ==
  ASSUME NEW T, NEW p \in Seq(T), NEW n \in Nat
  PROVE  Kept(p, n) \in Seq(T)
  BY DEF Kept

PlanInv == RunsTyped /\ PlansWereRun /\ SkippedWereRun /\ InSequence

LEMMA PlanInit == Init => PlanInv /\ LinesInv
<1> SUFFICES ASSUME Init PROVE PlanInv /\ LinesInv
  OBVIOUS
<1>1. LinesInv
  BY DEF Init, LinesInv, LinesTyped, OneEvent
<1>2. NoPlan \in [index : Nat, seq : Seq(Entries(Submitted))] /\ Len(NoPlan.seq) = 0
  BY DEF NoPlan
<1>3. RunsTyped
  BY <1>2 DEF Init, RunsTyped
<1>4. PlansWereRun /\ SkippedWereRun /\ InSequence
  BY <1>2 DEF Init, PlansWereRun, SkippedWereRun, InSequence
<1> QED
  BY <1>1, <1>3, <1>4 DEF PlanInv

(* Most steps touch none of this but the executor's counter.               *)
LEMMA PlanUntouched ==
  ASSUME PlanInv, UNCHANGED <<script, sched, pos, plan, saved, ran>>,
         \A r \in Run : e'[r] \in {"execute", "record", "fail"} => e'[r] = e[r]
  PROVE  PlanInv'
  BY DEF PlanInv, RunsTyped, PlansWereRun, SkippedWereRun, InSequence, Current

LEMMA PlanStep == IInv /\ LinesInv /\ PlanInv /\ [Next]_vars => PlanInv'
<1> SUFFICES ASSUME IInv, LinesInv, PlanInv, [Next]_vars PROVE PlanInv'
  OBVIOUS
<1>0. g \in [Run -> {"none", "interpret", "validate", "lock", "forward", "finish", "close", "closed", "crashed"}]
      /\ e \in [Run -> Statuses]
  BY DEF IInv, Typed, GTyped
<1>1. ASSUME NEW r \in Run, Handler(r) PROVE PlanInv'
  <2>1. CASE Request(r)
    <3>1. /\ UNCHANGED <<sched, pos, plan, saved, ran, e>>
          /\ \E s \in Scripts : script' = [script EXCEPT ![r] = s]
      BY <2>1 DEF Request, execVars, planVars, enclaveVars
    <3>2. Scripts \subseteq Seq(Submitted)
      BY RunsAssumption DEF RunsAssumption
    <3>3. script' \in [Run -> Seq(Submitted)]
      BY <3>1, <3>2 DEF PlanInv, RunsTyped
    <3> QED
      BY <3>1, <3>3 DEF PlanInv, RunsTyped, PlansWereRun, SkippedWereRun, InSequence, Current
  <2>2. CASE Return(r)
    BY <2>2, PlanUntouched DEF Return, runVars, execVars, planVars, enclaveVars
  <2>3. CASE Disconnect(r)
    BY <2>3, PlanUntouched DEF Disconnect, runVars, execVars, planVars, enclaveVars
  <2> QED
    BY <1>1, <2>1, <2>2, <2>3 DEF Handler
<1>2. ASSUME NEW r \in Run, Goroutine(r) PROVE PlanInv'
  <2>1. CASE Interpret(r)
    <3>1. /\ UNCHANGED <<script, pos, plan, saved, ran, e>> /\ g[r] = "interpret"
      BY <2>1 DEF Interpret, execVars, planVars, enclaveVars
    <3>2. PICK o : /\ sched' = [sched EXCEPT ![r] = o]
                   /\ o = OptimizedPlan(script[r], plan) \/ o = NaivePlan(script[r], plan)
      BY <2>1 DEF Interpret
    <3>3. script[r] \in Seq(Submitted) /\ plan \in Seq(ran) /\ ran \in SUBSET Submitted
          /\ sched \in [Run -> [index : Nat, seq : Seq(Entries(Submitted))]]
      BY DEF PlanInv, RunsTyped, PlansWereRun
    <3>4. /\ o \in [index : Nat, seq : Seq(Entries(Submitted))]
          /\ \A k \in 1 .. Len(o.seq) : o.seq[k].executed => o.seq[k].instr \in ran
      BY <3>2, <3>3, PlanIs
    <3>5. sched'[r] = o /\ \A q \in Run : q # r => sched'[q] = sched[q]
      BY <3>2, <3>3
    <3>6. sched' \in [Run -> [index : Nat, seq : Seq(Entries(Submitted))]]
      BY <3>2, <3>3, <3>4
    <3>7. e[r] = "none"
      BY <3>1 DEF LinesInv, OneEvent
    <3>8. RunsTyped' /\ PlansWereRun'
      BY <3>1, <3>6 DEF PlanInv, RunsTyped, PlansWereRun
    <3>9. SkippedWereRun'
      BY <3>1, <3>4, <3>5 DEF PlanInv, SkippedWereRun
    <3>10. InSequence'
      BY <3>1, <3>5, <3>7 DEF PlanInv, InSequence, Current
    <3> QED
      BY <3>8, <3>9, <3>10 DEF PlanInv
  <2>2. CASE InterpretFails(r)
    BY <2>2, PlanUntouched DEF InterpretFails, runVars, planVars, enclaveVars
  <2>3. CASE Validate(r)
    BY <2>3, PlanUntouched DEF Validate, runVars, execVars, planVars, enclaveVars
  <2>4. CASE ValidateFails(r)
    BY <2>4, PlanUntouched DEF ValidateFails, runVars, planVars, enclaveVars
  <2>5. CASE Lock(r)
    BY <1>0, <2>5, PlanUntouched DEF Lock, runVars, enclaveVars
  <2>6. CASE Forward(r)
    BY <2>6, PlanUntouched DEF Forward, runVars, execVars, planVars, enclaveVars
  <2>7. CASE ForwardEnds(r)
    BY <2>7, PlanUntouched DEF ForwardEnds, runVars, execVars, planVars, enclaveVars
  <2>8. CASE TakeWarnings(r)
    BY <2>8, PlanUntouched DEF TakeWarnings, runVars, execVars, planVars, enclaveVars
  <2>9. CASE Close(r)
    BY <2>9, PlanUntouched DEF Close, runVars, execVars, planVars, enclaveVars
  <2> QED
    BY <1>2, <2>1, <2>2, <2>3, <2>4, <2>5, <2>6, <2>7, <2>8, <2>9 DEF Goroutine
<1>3. ASSUME NEW r \in Run, Executor(r) PROVE PlanInv'
  <2>0. /\ sched[r].seq \in Seq(Entries(Submitted)) /\ sched[r].index \in Nat
        /\ pos[r] \in Nat \ {0} /\ Len(sched[r].seq) \in Nat
    BY DEF PlanInv, RunsTyped
  <2>1. CASE Begin(r)
    <3>1. /\ UNCHANGED <<script, sched, pos, saved, ran>>
          /\ plan' = Kept(plan, sched[r].index) /\ e' = [e EXCEPT ![r] = "announce"]
      BY <2>1 DEF Begin, runVars, enclaveVars
    <3>2. plan' \in Seq(ran)
      BY <2>0, <3>1, KeptIs DEF PlanInv, PlansWereRun
    <3> QED
      BY <1>0, <3>1, <3>2 DEF PlanInv, RunsTyped, PlansWereRun, SkippedWereRun, InSequence,
         Current
  <2>2. CASE Announce(r)
    <3>1. /\ UNCHANGED <<script, sched, plan, saved, ran>> /\ e[r] = "announce"
          /\ pos[r] <= Len(sched[r].seq)
          /\ \/ pos' = [pos EXCEPT ![r] = @ + 1] /\ e' = e
             \/ e' = [e EXCEPT ![r] = "execute"] /\ pos' = pos
      BY <2>0, <2>2 DEF Announce, AtEnd, runVars, planVars, enclaveVars
    <3>2. pos' \in [Run -> Nat \ {0}] /\ pos \in [Run -> Nat \ {0}]
      BY <3>1 DEF PlanInv, RunsTyped
    <3>3. RunsTyped' /\ PlansWereRun' /\ SkippedWereRun'
      BY <3>1, <3>2 DEF PlanInv, RunsTyped, PlansWereRun, SkippedWereRun
    <3>4. InSequence'
      BY <1>0, <3>1, <3>2 DEF PlanInv, InSequence, Current
    <3> QED
      BY <3>3, <3>4 DEF PlanInv
  <2>3. CASE Execute(r)
    <3>1. /\ UNCHANGED <<script, sched, pos, plan, saved>> /\ e[r] = "execute"
          /\ e' = [e EXCEPT ![r] = "record"]
          /\ IF Skipped(r) THEN ran' = ran ELSE ran' = ran \cup {Current(r)}
      BY <2>3 DEF Execute, runVars, planVars, enclaveVars
    <3>2. pos[r] \in 1 .. Len(sched[r].seq)
      BY <2>0, <3>1 DEF PlanInv, InSequence
    <3>3. Current(r) \in Submitted /\ (Skipped(r) => Current(r) \in ran)
      <4>1. sched[r].seq[pos[r]] \in Entries(Submitted)
        BY <2>0, <3>2
      <4>2. Current(r) \in Submitted
        BY <4>1 DEF Current, Entries
      <4>3. Skipped(r) => Current(r) \in ran
        BY <3>2 DEF Current, Skipped, PlanInv, SkippedWereRun
      <4> QED
        BY <4>2, <4>3
    <3>4. ran \subseteq ran' /\ ran' \subseteq Submitted /\ Current(r) \in ran'
      BY <3>1, <3>3 DEF PlanInv, PlansWereRun
    <3>5. plan \in Seq(ran') /\ saved \in Seq(ran')
      BY <3>4 DEF PlanInv, PlansWereRun
    <3>6. RunsTyped' /\ PlansWereRun' /\ SkippedWereRun'
      BY <3>1, <3>4, <3>5 DEF PlanInv, RunsTyped, PlansWereRun, SkippedWereRun
    <3>7. InSequence'
      BY <1>0, <3>1, <3>2, <3>4 DEF PlanInv, InSequence, Current
    <3> QED
      BY <3>6, <3>7 DEF PlanInv
  <2>4. CASE ExecuteFails(r)
    <3>1. /\ UNCHANGED <<script, sched, pos, plan, saved, ran>> /\ e[r] = "execute"
          /\ e' = [e EXCEPT ![r] = "fail"]
      BY <2>4 DEF ExecuteFails, runVars, planVars
    <3> QED
      BY <1>0, <3>1 DEF PlanInv, RunsTyped, PlansWereRun, SkippedWereRun, InSequence, Current
  <2>5. CASE Record(r)
    <3>1. /\ UNCHANGED <<script, sched, saved, ran>> /\ e[r] = "record"
          /\ e' = [e EXCEPT ![r] = "announce"] /\ pos' = [pos EXCEPT ![r] = @ + 1]
          /\ plan' = Append(plan, Current(r))
      BY <2>5 DEF Record, runVars, enclaveVars
    <3>2. plan' \in Seq(ran)
      BY <3>1 DEF PlanInv, PlansWereRun, InSequence
    <3>3. pos' \in [Run -> Nat \ {0}] /\ \A q \in Run : q # r => pos'[q] = pos[q]
      BY <3>1 DEF PlanInv, RunsTyped
    <3>4. RunsTyped' /\ PlansWereRun' /\ SkippedWereRun'
      BY <3>1, <3>2, <3>3 DEF PlanInv, RunsTyped, PlansWereRun, SkippedWereRun
    <3>5. InSequence'
      BY <1>0, <3>1, <3>3 DEF PlanInv, InSequence, Current
    <3> QED
      BY <3>4, <3>5 DEF PlanInv
  <2>6. CASE Fail(r)
    BY <1>0, <2>6, PlanUntouched DEF Fail, runVars, planVars, enclaveVars
  <2>7. CASE Succeed(r)
    BY <1>0, <2>7, PlanUntouched DEF Succeed, runVars, planVars, enclaveVars
  <2>8. CASE SucceedDry(r)
    BY <1>0, <2>8, PlanUntouched DEF SucceedDry, runVars, planVars, enclaveVars
  <2>9. CASE Persist(r)
    <3>1. /\ UNCHANGED <<script, sched, pos, plan, ran>> /\ saved' \in {plan, saved}
          /\ e' = [e EXCEPT ![r] = "unlock"]
      BY <2>9 DEF Persist, runVars, enclaveVars
    <3> QED
      BY <1>0, <3>1 DEF PlanInv, RunsTyped, PlansWereRun, SkippedWereRun, InSequence, Current
  <2>10. CASE Unlock(r)
    BY <1>0, <2>10, PlanUntouched DEF Unlock, runVars, enclaveVars
  <2> QED
    BY <1>3, <2>1, <2>2, <2>3, <2>4, <2>5, <2>6, <2>7, <2>8, <2>9, <2>10 DEF Executor
<1>4. CASE Crash
  <2>1. /\ UNCHANGED <<script, sched, pos, saved, ran>> /\ plan' = saved
        /\ \A r \in Run : e'[r] \in {"none", "closed", "crashed"}
    BY <1>4 DEF Crash, LoadedPlan, runVars
  <2> QED
    BY <2>1 DEF PlanInv, RunsTyped, PlansWereRun, SkippedWereRun, InSequence, Current
<1>5. CASE UNCHANGED vars
  BY <1>5, PlanUntouched DEF vars, runVars, execVars, planVars, enclaveVars
<1> QED
  BY <1>1, <1>2, <1>3, <1>4, <1>5 DEF Next

(* An instruction is in the plan, in memory or on disk, only if it was run *)
(* with success in this enclave, and only such instructions are skipped,   *)
(* however runs overlap, fail, are abandoned or are cut by crashes.        *)
THEOREM PlanHoldsWhatRan == Spec => []PlanOK
<1>1. IInv /\ LinesInv /\ PlanInv => PlanOK
  <2> SUFFICES ASSUME IInv, LinesInv, PlanInv PROVE PlanOK
    OBVIOUS
  <2>1. \A r \in Run : /\ sched[r].seq \in Seq(Entries(Submitted)) /\ pos[r] \in Nat \ {0}
                       /\ e[r] = "execute" => pos[r] \in 1 .. Len(sched[r].seq)
    BY DEF PlanInv, RunsTyped, InSequence
  <2>2. \A r \in Run : e[r] = "execute" => pos[r] \in DOMAIN sched[r].seq
    BY <2>1
  <2>3. TypeOK
    BY <2>2 DEF TypeOK, IInv, Typed, GTyped, LinesInv, LinesTyped
  <2>4. \A r \in Run : e[r] = "execute" /\ Skipped(r) => Current(r) \in ran
    BY <2>1 DEF PlanInv, SkippedWereRun, Skipped, Current
  <2>5. ToSet(plan) \cup ToSet(saved) \subseteq ran
    BY DEF PlanInv, PlansWereRun, ToSet
  <2> QED
    BY <2>3, <2>4, <2>5 DEF PlanOK, RecordedWereRun
<1> QED
  BY Inductive, PlanInit, LinesStep, PlanStep, <1>1, PTL DEF Spec
-----------------------------------------------------------------------------
(* Clients that ask for one run at a time, stay to its end and want it     *)
(* executed: the runs are made one after the other.                        *)
Working(r) == g[r] \notin {"none", "closed", "crashed"}

InTurn ==
  /\ \A q, r \in Run : q < r /\ h[r] # "none" => h[q] = "gone"
  /\ \A r \in Run : h[r] = "gone" => ~Working(r)

LEMMA OneWorks ==
  ASSUME IInv, InTurn, NEW q \in Run, NEW r \in Run, Working(q), Working(r)
  PROVE  q = r
<1>1. q \in Int /\ r \in Int
  BY RunsAssumption DEF RunsAssumption, Run
<1>2. h[q] = "reading" /\ h[r] = "reading"
  BY DEF InTurn, Working, IInv, Typed, Started
<1> QED
  BY <1>1, <1>2 DEF InTurn

(* The warnings are those of the run at work, and go to its client; its    *)
(* event is sent by the end of the execution, and received by the end of   *)
(* the run.                                                                *)
Told ==
  \A r \in Run :
    /\ ~Dry(r)
    /\ g[r] = "interpret" => warnings = {}
    /\ g[r] \in {"validate", "lock", "forward", "finish"} => warnings = {r}
    /\ g[r] \in {"close", "closed"} => shown[r] = {r}
    /\ g[r] \in {"finish", "close", "closed"} => finished[r] = 1
    /\ g[r] = "forward" /\ e[r] \in {"persist", "unlock", "closed"} =>
         hand[r] = "event" \/ finished[r] = 1

LEMMA TurnStep ==
  ASSUME Clients \subseteq {"uncached"}, IInv, InTurn, [Next]_vars
  PROVE  InTurn'
<1> USE DEF IInv, Typed, GTyped, Started, InTurn, Working
<1>1. ASSUME NEW r \in Run, Handler(r) PROVE InTurn'
  <2>0. Run \subseteq Int
    BY RunsAssumption DEF RunsAssumption, Run
  <2>1. CASE Request(r)
    BY <2>1, <2>0 DEF Request, handlerVars, execVars
  <2>2. CASE Return(r)
    BY <2>2, <2>0 DEF Return, handlerVars, execVars
  <2>3. CASE Disconnect(r)
    BY <2>3, <2>0 DEF Disconnect, handlerVars, execVars
  <2> QED
    BY <1>1, <2>1, <2>2, <2>3 DEF Handler
<1>2. ASSUME NEW r \in Run, Goroutine(r) PROVE InTurn'
  <2>1. CASE Interpret(r)
    BY <2>1 DEF Interpret, handlerVars, Reading
  <2>2. CASE InterpretFails(r)
    BY <2>2 DEF InterpretFails, handlerVars, Reading
  <2>3. CASE Validate(r)
    BY <2>3 DEF Validate, handlerVars, Reading
  <2>4. CASE ValidateFails(r)
    BY <2>4 DEF ValidateFails, handlerVars, Reading
  <2>5. CASE Lock(r)
    BY <2>5 DEF Lock, handlerVars, Reading
  <2>6. CASE Forward(r)
    BY <2>6 DEF Forward, handlerVars, Reading
  <2>7. CASE ForwardEnds(r)
    BY <2>7 DEF ForwardEnds, handlerVars, Reading
  <2>8. CASE TakeWarnings(r)
    BY <2>8 DEF TakeWarnings, handlerVars, Reading
  <2>9. CASE Close(r)
    BY <2>9 DEF Close, handlerVars, Reading
  <2> QED
    BY <1>2, <2>1, <2>2, <2>3, <2>4, <2>5, <2>6, <2>7, <2>8, <2>9 DEF Goroutine
<1>3. ASSUME NEW r \in Run, Executor(r) PROVE InTurn'
  <2>1. CASE Begin(r)
    BY <2>1 DEF Begin, handlerVars
  <2>2. CASE Announce(r)
    BY <2>2 DEF Announce, handlerVars
  <2>3. CASE Execute(r)
    BY <2>3 DEF Execute, handlerVars
  <2>4. CASE ExecuteFails(r)
    BY <2>4 DEF ExecuteFails, handlerVars
  <2>5. CASE Record(r)
    BY <2>5 DEF Record, handlerVars
  <2>6. CASE Fail(r)
    BY <2>6 DEF Fail, handlerVars
  <2>7. CASE Succeed(r)
    BY <2>7 DEF Succeed, handlerVars
  <2>8. CASE SucceedDry(r)
    BY <2>8 DEF SucceedDry, handlerVars
  <2>9. CASE Persist(r)
    BY <2>9 DEF Persist, handlerVars
  <2>10. CASE Unlock(r)
    BY <2>10 DEF Unlock, handlerVars
  <2> QED
    BY <1>3, <2>1, <2>2, <2>3, <2>4, <2>5, <2>6, <2>7, <2>8, <2>9, <2>10 DEF Executor
<1>4. CASE Crash
  BY <1>4 DEF Crash, Reading
<1>5. CASE UNCHANGED vars
  BY <1>5 DEF vars, handlerVars
<1> QED
  BY <1>1, <1>2, <1>3, <1>4, <1>5 DEF Next

LEMMA ToldStep ==
  ASSUME Clients \subseteq {"uncached"}, IInv, LinesInv, InTurn, Told, [Next]_vars
  PROVE  Told'
<1>0. \A q, r \in Run : Working(q) /\ Working(r) => q = r
  BY OneWorks
<1> USE DEF IInv, Typed, GTyped, Started, Statuses, LinesInv, LinesTyped, OneEvent, Working, Told, Dry
<1>1. ASSUME NEW r \in Run, Handler(r) PROVE Told'
  <2>0. Request(r) => \A q \in Run : q # r => ~Working(q)
    <3>1. Run \subseteq Int
      BY RunsAssumption DEF RunsAssumption, Run
    <3> QED
      BY <3>1 DEF Request, InTurn
  <2>1. CASE Request(r)
    <3>1. PICK o \in SUBSET (Clients \cap {"dry", "uncached"}) : options' = [options EXCEPT ![r] = o]
      BY <2>1 DEF Request
    <3>2. \A q \in Run : "dry" \notin options'[q]
      BY <3>1
    <3>3. /\ warnings' = {} /\ g' = [g EXCEPT ![r] = "interpret"]
          /\ UNCHANGED <<e, hand, finished, shown>>
      BY <2>1 DEF Request, execVars
    <3> QED
      BY <2>0, <2>1, <3>2, <3>3
  <2>2. CASE Return(r)
    BY <2>2, <2>0 DEF Return, handlerVars, runVars, execVars, warnVars
  <2>3. CASE Disconnect(r)
    BY <2>3, <2>0 DEF Disconnect, handlerVars, runVars, execVars, warnVars
  <2> QED
    BY <1>1, <2>1, <2>2, <2>3 DEF Handler
<1>2. ASSUME NEW r \in Run, Goroutine(r) PROVE Told'
  <2>1. CASE Interpret(r)
    BY <2>1, <1>0 DEF Interpret, handlerVars, runVars, execVars, warnVars
  <2>2. CASE InterpretFails(r)
    BY <2>2, <1>0 DEF InterpretFails, handlerVars, runVars, execVars, warnVars
  <2>3. CASE Validate(r)
    BY <2>3, <1>0 DEF Validate, handlerVars, runVars, execVars, warnVars
  <2>4. CASE ValidateFails(r)
    BY <2>4, <1>0 DEF ValidateFails, handlerVars, runVars, execVars, warnVars
  <2>5. CASE Lock(r)
    BY <2>5, <1>0 DEF Lock, handlerVars, runVars, execVars, warnVars
  <2>6. CASE Forward(r)
    BY <2>6, <1>0 DEF Forward, handlerVars, runVars, execVars, warnVars
  <2>7. CASE ForwardEnds(r)
    BY <2>7, <1>0 DEF ForwardEnds, handlerVars, runVars, execVars, warnVars
  <2>8. CASE TakeWarnings(r)
    BY <2>8, <1>0 DEF TakeWarnings, handlerVars, runVars, execVars, warnVars
  <2>9. CASE Close(r)
    BY <2>9, <1>0 DEF Close, handlerVars, runVars, execVars, warnVars
  <2> QED
    BY <1>2, <2>1, <2>2, <2>3, <2>4, <2>5, <2>6, <2>7, <2>8, <2>9 DEF Goroutine
<1>3. ASSUME NEW r \in Run, Executor(r) PROVE Told'
  <2>1. CASE Begin(r)
    BY <2>1, <1>0 DEF Begin, handlerVars, runVars, execVars, warnVars, AtEnd
  <2>2. CASE Announce(r)
    BY <2>2, <1>0 DEF Announce, handlerVars, runVars, execVars, warnVars, AtEnd
  <2>3. CASE Execute(r)
    BY <2>3, <1>0 DEF Execute, handlerVars, runVars, execVars, warnVars, AtEnd
  <2>4. CASE ExecuteFails(r)
    BY <2>4, <1>0 DEF ExecuteFails, handlerVars, runVars, execVars, warnVars, AtEnd
  <2>5. CASE Record(r)
    BY <2>5, <1>0 DEF Record, handlerVars, runVars, execVars, warnVars, AtEnd
  <2>6. CASE Fail(r)
    BY <2>6, <1>0 DEF Fail, handlerVars, runVars, execVars, warnVars, AtEnd
  <2>7. CASE Succeed(r)
    BY <2>7, <1>0 DEF Succeed, handlerVars, runVars, execVars, warnVars, AtEnd
  <2>8. CASE SucceedDry(r)
    BY <2>8, <1>0 DEF SucceedDry, handlerVars, runVars, execVars, warnVars, AtEnd
  <2>9. CASE Persist(r)
    BY <2>9, <1>0 DEF Persist, handlerVars, runVars, execVars, warnVars, AtEnd
  <2>10. CASE Unlock(r)
    BY <2>10, <1>0 DEF Unlock, handlerVars, runVars, execVars, warnVars, AtEnd
  <2> QED
    BY <1>3, <2>1, <2>2, <2>3, <2>4, <2>5, <2>6, <2>7, <2>8, <2>9, <2>10 DEF Executor
<1>4. CASE Crash
  BY <1>4 DEF Crash, runVars
<1>5. CASE UNCHANGED vars
  BY <1>5 DEF vars, handlerVars, runVars, execVars, warnVars
<1> QED
  BY <1>1, <1>2, <1>3, <1>4, <1>5 DEF Next

(* Every client gets one run-finished event before its stream ends, and    *)
(* the warnings of its own run, through failures of every kind, persisted  *)
(* or not, and crashes of the API container: if clients ask for one run at *)
(* a time and stay, and the run is not dry.                                *)
THEOREM ClientsAreTold ==
  ASSUME Clients \subseteq {"uncached"}
  PROVE  Spec => []StreamsComplete
<1>1. Init => InTurn /\ Told
  BY DEF Init, InTurn, Told, Working, Dry
<1>2. IInv /\ LinesInv /\ InTurn /\ Told /\ [Next]_vars => InTurn' /\ Told'
  BY TurnStep, ToldStep
<1>3. Told => StreamsComplete
  BY DEF Told, StreamsComplete
<1> QED
  BY Inductive, PlanInit, LinesStep, <1>1, <1>2, <1>3, PTL DEF Spec

-----------------------------------------------------------------------------
(* A run at work on plan p, whose enclave shows what b goes through: n     *)
(* instructions are in the enclave plan pl, m are executed, and the enclave *)
(* is st.                                                                  *)
At(p, b, s, o, pl, st, n, m) ==
  /\ s \in Seq(Submitted) /\ WellFormed(s)
  /\ p \in Seq(Submitted) /\ Ready(Submitted, p) /\ o = OptimizedPlan(s, p)
  /\ Ran(b, Submitted, o.seq, Shown(Submitted, Replay(p, NewEnclave)))
  /\ n \in 0 .. Len(s) /\ NextUpTo(pl, Submitted, p, o.index, s, n)
  /\ m \in n .. n + 1 /\ m <= Len(s) /\ Commanded(s, o.seq, b, m)
  /\ st \in States(Submitted) /\ Shown(Submitted, st) = b[m]

LEMMA Scripted ==
  NoInstruction \notin Submitted /\ Instrs(Submitted) /\ \A s \in Scripts : s \in Seq(Submitted)
BY RunsAssumption DEF RunsAssumption, Instrs

LEMMA PlanOf ==
  ASSUME NEW s \in Seq(Submitted), WellFormed(s), NEW p \in Seq(Submitted),
         NEW o, o = OptimizedPlan(s, p)
  PROVE  /\ o.index \in 0 .. Len(p) /\ Len(p) \in Nat /\ Len(p) - o.index <= Len(s)
         /\ o.seq \in Seq(Entries(Submitted)) /\ Len(o.seq) = Len(s) /\ Len(s) \in Nat
         /\ \A k \in 1 .. Len(s) : o.seq[k].instr = s[k]
<1>1. /\ o.index \in 0 .. Len(p) /\ Len(p) \in Nat /\ Schedules(o.seq, Submitted, s, Len(s))
      /\ o.index = Len(p) \/ Covered(Submitted, s, p, o.index)
  BY Scripted, OptimizedFrom
<1> QED
  BY <1>1 DEF Schedules, Covered

LEMMA Begins ==
  ASSUME NEW s \in Seq(Submitted), WellFormed(s), NEW p \in Seq(Submitted), Ready(Submitted, p),
         NEW o, o = OptimizedPlan(s, p),
         NEW st \in States(Submitted), Shown(Submitted, st) = Shown(Submitted, Replay(p, NewEnclave))
  PROVE  \E b : b[0] = Shown(Submitted, st)
                /\ At(p, b, s, o, Kept(p, o.index), st, 0, 0)
<1> PICK here : here = Replay(p, NewEnclave)
  OBVIOUS
<1>1. here \in States(Submitted)
  BY Scripted, ReplayedAnew
<1>2. PICK b : Ran(b, Submitted, o.seq, Shown(Submitted, here))
  BY <1>1, Scripted, PlanOf, RunPlanIterates
<1>3. b[0] = Shown(Submitted, st)
  BY <1>2 DEF Ran
<1> PICK n : n = o.index
  OBVIOUS
<1>4. n \in 0 .. Len(p) /\ Len(p) \in Nat /\ Len(s) \in Nat
  BY PlanOf
<1>5. Kept(p, n) = SubSeq(p, 1, n)
  BY <1>4 DEF Kept
<1>6. NextUpTo(Kept(p, n), Submitted, p, n, s, 0)
  <2>1. /\ SubSeq(p, 1, n) \in Seq(Submitted) /\ Len(SubSeq(p, 1, n)) = n
        /\ \A j \in 1 .. n : SubSeq(p, 1, n)[j] = p[j]
    BY <1>4
  <2> QED
    BY <1>4, <1>5, <2>1 DEF NextUpTo
<1>7. Commanded(s, o.seq, b, 0)
  BY DEF Commanded
<1>8. 0 \in 0 .. Len(s) /\ 0 \in 0 .. 0 + 1 /\ 0 <= Len(s)
  BY <1>4
<1> QED
  BY <1>2, <1>3, <1>6, <1>7, <1>8 DEF At

LEMMA Executes ==
  ASSUME NEW p, NEW b, NEW s, NEW o, NEW pl, NEW st, NEW n, At(p, b, s, o, pl, st, n, n), n < Len(s),
         NEW k, k = n + 1,
         ~o.seq[k].executed /\ o.seq[k].instr.type = "exec" => Runs(st, o.seq[k].instr.name),
         NEW st2, st2 = IF o.seq[k].executed THEN st ELSE Applied(st, o.seq[k].instr)
  PROVE  At(p, b, s, o, pl, st2, n, k)
<1>1. /\ Len(s) \in Nat /\ Len(o.seq) = Len(s) /\ \A j \in 1 .. Len(s) : o.seq[j].instr = s[j]
      /\ n \in Nat /\ k \in 1 .. Len(s) /\ k - 1 = n
  <2>1. /\ s \in Seq(Submitted) /\ WellFormed(s) /\ p \in Seq(Submitted) /\ o = OptimizedPlan(s, p)
        /\ n \in 0 .. Len(s)
    BY DEF At
  <2> QED
    BY <2>1, PlanOf
<1>2. st2 \in States(Submitted) /\ Shown(Submitted, st2) = b[k]
  <2>1. /\ st \in States(Submitted) /\ Shown(Submitted, st) = b[k - 1]
        /\ Ran(b, Submitted, o.seq, Shown(Submitted, Replay(p, NewEnclave)))
    BY <1>1 DEF At
  <2>2. b[k] = IF o.seq[k].executed THEN b[k - 1] ELSE Done(Submitted, b[k - 1], o.seq[k].instr)
    BY <1>1, <2>1 DEF Ran
  <2>3. o.seq[k].instr \in Submitted
    BY <1>1 DEF At
  <2>4. /\ Applied(st, o.seq[k].instr) \in States(Submitted)
        /\ Shown(Submitted, Applied(st, o.seq[k].instr)) = Done(Submitted, Shown(Submitted, st), o.seq[k].instr)
    BY <2>1, <2>3, Scripted, ShownDone
  <2> QED
    BY <2>1, <2>2, <2>4
<1>3. Commanded(s, o.seq, b, k)
  <2>1. \A j \in 1 .. k : j = k \/ j \in 1 .. n
    BY <1>1
  <2>2. s[k].type = "exec" /\ ~o.seq[k].executed => Runs(b[k - 1], s[k].name)
    <3>1. st \in States(Submitted) /\ Shown(Submitted, st) = b[k - 1] /\ s[k].name \in Names
      BY <1>1, Scripted DEF At, Instrs
    <3>2. Runs(b[k - 1], s[k].name) <=> Runs(st, s[k].name)
      BY <3>1, ShownIs
    <3> QED
      BY <1>1, <3>2
  <2> QED
    BY <2>1, <2>2 DEF Commanded, At
<1> QED
  BY <1>1, <1>2, <1>3 DEF At

LEMMA Records ==
  ASSUME NEW p, NEW b, NEW s, NEW o, NEW pl, NEW st, NEW n, NEW k, At(p, b, s, o, pl, st, n, k), k = n + 1
  PROVE  At(p, b, s, o, Append(pl, o.seq[k].instr), st, k, k)
<1> PICK i : i = s[k]
  OBVIOUS
<1> PICK from : from = o.index
  OBVIOUS
<1>1. /\ Len(s) \in Nat /\ k \in 1 .. Len(s) /\ n \in Nat /\ o.seq[k].instr = i /\ i \in Submitted
      /\ from \in Nat /\ NextUpTo(pl, Submitted, p, from, s, n)
  BY PlanOf DEF At
<1>2. /\ pl \in Seq(Submitted) /\ Len(pl) = from + n
      /\ \A j \in 1 .. from : pl[j] = p[j]
      /\ \A j \in 1 .. n : pl[from + j] = s[j]
  BY <1>1 DEF NextUpTo
<1>3. /\ Append(pl, i) \in Seq(Submitted) /\ Len(Append(pl, i)) = from + k
      /\ \A j \in 1 .. Len(pl) : Append(pl, i)[j] = pl[j]
      /\ Append(pl, i)[from + k] = i
  BY <1>1, <1>2
<1>4. \A j \in 1 .. from : Append(pl, i)[j] = p[j]
  BY <1>1, <1>2, <1>3
<1>5. ASSUME NEW j \in 1 .. k PROVE Append(pl, i)[from + j] = s[j]
  <2>1. CASE j = k
    BY <1>3, <2>1
  <2>2. CASE j # k
    <3>1. j \in 1 .. n /\ from + j \in 1 .. Len(pl)
      BY <1>1, <1>2, <2>2
    <3> QED
      BY <1>2, <1>3, <3>1
  <2> QED
    BY <2>1, <2>2
<1>6. NextUpTo(Append(pl, i), Submitted, p, from, s, k)
  BY <1>3, <1>4, <1>5 DEF NextUpTo
<1> QED
  BY <1>1, <1>6 DEF At

LEMMA FailsLate ==
  ASSUME Unmarked(Submitted),
         NEW p, NEW b, NEW s, NEW o, NEW pl, NEW st, NEW n, At(p, b, s, o, pl, st, n, n), n < Len(s),
         NEW k, k = n + 1, o.seq[k].instr.type = "exec", ~Runs(st, o.seq[k].instr.name)
  PROVE  Len(p) - o.index <= n
<1>1. /\ Len(s) \in Nat /\ o.seq[k].instr = s[k] /\ n \in Nat /\ k \in 1 .. Len(s) /\ k - 1 = n
  BY PlanOf DEF At
<1>2. /\ s \in Seq(Submitted) /\ WellFormed(s) /\ p \in Seq(Submitted) /\ Ready(Submitted, p)
      /\ o = OptimizedPlan(s, p)
      /\ Ran(b, Submitted, o.seq, Shown(Submitted, Replay(p, NewEnclave)))
      /\ st \in States(Submitted) /\ Shown(Submitted, st) = b[n]
  BY DEF At
<1>3. s[k].type = "exec" /\ ~Runs(b[k - 1], s[k].name)
  <2>1. s[k].name \in Names
    BY <1>1, <1>2, Scripted DEF Instrs
  <2>2. Runs(b[n], s[k].name) <=> Runs(st, s[k].name)
    BY <1>2, <2>1, ShownIs
  <2> QED
    BY <1>1, <2>2
<1> QED
  BY <1>1, <1>2, <1>3, Scripted, OnlyPastTheTail

LEMMA EndsWell ==
  ASSUME NEW p, NEW b, NEW s, NEW o, NEW pl, NEW st, NEW n, At(p, b, s, o, pl, st, n, n), n >= Len(s),
         NEW bf \in States(Submitted), Shown(Submitted, bf) = b[0]
  PROVE  /\ n = Len(s) /\ Len(p) - o.index <= n
         /\ Shown(Submitted, st) = Shown(Submitted, Replay(s, bf))
<1> PICK here : here = Replay(p, NewEnclave)
  OBVIOUS
<1>1. /\ s \in Seq(Submitted) /\ WellFormed(s) /\ p \in Seq(Submitted)
      /\ o = OptimizedPlan(s, p) /\ Ran(b, Submitted, o.seq, Shown(Submitted, here))
      /\ Shown(Submitted, st) = b[n] /\ n \in 0 .. Len(s)
  BY DEF At
<1>2. Len(s) \in Nat /\ Len(o.seq) = Len(s) /\ n = Len(s) /\ Len(p) - o.index <= n
  BY <1>1, PlanOf
<1>3. here \in States(Submitted) /\ o.seq \in Seq(Entries(Submitted))
  BY <1>1, Scripted, ReplayedAnew, PlanOf
<1>4. b[0] = Shown(Submitted, here) /\ b[n] = Shown(Submitted, RunPlan(o.seq, here))
  <2> PICK q : q = o.seq
    OBVIOUS
  <2>1. /\ q \in Seq(Entries(Submitted)) /\ Ran(b, Submitted, q, Shown(Submitted, here))
        /\ Len(q) = n /\ Instrs(Submitted)
    BY <1>1, <1>2, <1>3, Scripted
  <2>2. b[Len(q)] = Shown(Submitted, RunPlan(q, here))
    BY ONLY <2>1, <1>3, RunPlanIs
  <2>3. b[0] = Shown(Submitted, here)
    BY <2>1 DEF Ran
  <2> QED
    BY <2>1, <2>2, <2>3
<1>5. Shown(Submitted, RunPlan(o.seq, here)) = Shown(Submitted, Replay(s, here))
  BY <1>1, Scripted, OptimizedRun
<1>6. PICK a : /\ Replayed(a, Submitted, s, Shown(Submitted, bf))
               /\ a[Len(s)] = Shown(Submitted, Replay(s, bf))
  BY <1>1, Scripted, ReplayIterates
<1>7. Replayed(a, Submitted, s, Shown(Submitted, here))
  BY <1>4, <1>6
<1>8. a[Len(s)] = Shown(Submitted, Replay(s, here))
  BY <1>1, <1>3, <1>7, Scripted, ReplayIs
<1> QED
  BY <1>1, <1>2, <1>4, <1>5, <1>6, <1>8

DescribedBy(pl, st) ==
  /\ Ready(Submitted, pl) /\ st \in States(Submitted)
  /\ Shown(Submitted, Replay(pl, NewEnclave)) = Shown(Submitted, st)

LEMMA Describes ==
  ASSUME Unmarked(Submitted),
         NEW p, NEW b, NEW s, NEW o, NEW pl, NEW st, NEW n, At(p, b, s, o, pl, st, n, n),
         Len(p) - o.index <= n
  PROVE  DescribedBy(pl, st)
<1>1. /\ s \in Seq(Submitted) /\ WellFormed(s) /\ p \in Seq(Submitted) /\ Ready(Submitted, p)
      /\ o = OptimizedPlan(s, p)
      /\ Ran(b, Submitted, o.seq, Shown(Submitted, Replay(p, NewEnclave)))
      /\ st \in States(Submitted) /\ Shown(Submitted, st) = b[n]
      /\ n \in 0 .. Len(s) /\ NextUpTo(pl, Submitted, p, o.index, s, n) /\ Commanded(s, o.seq, b, n)
  BY DEF At
<1> QED
  BY <1>1, Scripted, PlanAfter DEF DescribedBy

-----------------------------------------------------------------------------
(* Without options, crashes and ill formed scripts: an executor at work    *)
(* belongs to a run that waits for it, and starts at the first instruction. *)
Plain ==
  /\ crashes = 0 /\ DOMAIN before = Run
  /\ \A r \in Run :
       /\ options[r] = {} /\ WellFormed(script[r])
       /\ Executing(r) => g[r] = "forward"
       /\ e[r] \in {"none", "begin"} => pos[r] = 1

Quiet == Clients = {} /\ MaxCrashes = 0 /\ \A s \in Scripts : WellFormed(s)

LEMMA PlainStep ==
  ASSUME Quiet, IInv, LinesInv, PlanInv, Plain, [Next]_vars
  PROVE  Plain'
<1> USE DEF IInv, Typed, GTyped, Statuses, NotYet, Plain, Executing
<1>0. pos \in [Run -> Nat \ {0}] /\ script \in [Run -> Seq(Submitted)]
  BY DEF PlanInv, RunsTyped
<1>1. ASSUME NEW r \in Run, Handler(r) PROVE Plain'
  <2>1. CASE Request(r)
    <3>1. PICK s \in Scripts, o \in SUBSET (Clients \cap {"dry", "uncached"}) :
            script' = [script EXCEPT ![r] = s] /\ options' = [options EXCEPT ![r] = o]
      BY <2>1 DEF Request
    <3>2. o = {} /\ WellFormed(s)
      BY DEF Quiet
    <3>3. /\ UNCHANGED <<e, pos, before, crashes>> /\ g' = [g EXCEPT ![r] = "interpret"] /\ e[r] = "none"
      BY <2>1 DEF Request, execVars
    <3> QED
      BY <1>0, <3>1, <3>2, <3>3
  <2>2. CASE Return(r)
    BY <2>2, <1>0 DEF Return, handlerVars, runVars, execVars, planVars, warnVars, enclaveVars
  <2>3. CASE Disconnect(r)
    BY <2>3, <1>0 DEF Disconnect, handlerVars, runVars, execVars, planVars, warnVars, enclaveVars
  <2> QED
    BY <1>1, <2>1, <2>2, <2>3 DEF Handler
<1>2. ASSUME NEW r \in Run, Goroutine(r) PROVE Plain'
  <2>1. CASE Interpret(r)
    BY <2>1, <1>0 DEF Interpret, handlerVars, runVars, execVars, planVars, warnVars, enclaveVars
  <2>2. CASE InterpretFails(r)
    BY <2>2, <1>0 DEF InterpretFails, handlerVars, runVars, execVars, planVars, warnVars,
       enclaveVars
  <2>3. CASE Validate(r)
    BY <2>3, <1>0 DEF Validate, handlerVars, runVars, execVars, planVars, warnVars, enclaveVars
  <2>4. CASE ValidateFails(r)
    BY <2>4, <1>0 DEF ValidateFails, handlerVars, runVars, execVars, planVars, warnVars,
       enclaveVars
  <2>5. CASE Lock(r)
    <3>1. e[r] = "none" /\ pos[r] = 1
      BY <2>5 DEF Lock, LinesInv, OneEvent
    <3> QED
      BY <2>5, <3>1 DEF Lock, runVars
  <2>6. CASE Forward(r)
    BY <2>6, <1>0 DEF Forward, handlerVars, runVars, execVars, planVars, warnVars, enclaveVars
  <2>7. CASE ForwardEnds(r)
    BY <2>7, <1>0 DEF ForwardEnds, handlerVars, runVars, execVars, planVars, warnVars, enclaveVars
  <2>8. CASE TakeWarnings(r)
    BY <2>8, <1>0 DEF TakeWarnings, handlerVars, runVars, execVars, planVars, warnVars,
       enclaveVars
  <2>9. CASE Close(r)
    BY <2>9, <1>0 DEF Close, handlerVars, runVars, execVars, planVars, warnVars, enclaveVars
  <2> QED
    BY <1>2, <2>1, <2>2, <2>3, <2>4, <2>5, <2>6, <2>7, <2>8, <2>9 DEF Goroutine
<1>3. ASSUME NEW r \in Run, Executor(r) PROVE Plain'
  <2>1. CASE Begin(r)
    BY <2>1, <1>0 DEF Begin, handlerVars, runVars, execVars, planVars, warnVars, enclaveVars
  <2>2. CASE Announce(r)
    BY <2>2, <1>0 DEF Announce, handlerVars, runVars, execVars, planVars, warnVars, enclaveVars
  <2>3. CASE Execute(r)
    BY <2>3, <1>0 DEF Execute, handlerVars, runVars, execVars, planVars, warnVars, enclaveVars
  <2>4. CASE ExecuteFails(r)
    BY <2>4, <1>0 DEF ExecuteFails, handlerVars, runVars, execVars, planVars, warnVars,
       enclaveVars
  <2>5. CASE Record(r)
    BY <2>5, <1>0 DEF Record, handlerVars, runVars, execVars, planVars, warnVars, enclaveVars
  <2>6. CASE Fail(r)
    BY <2>6, <1>0 DEF Fail, handlerVars, runVars, execVars, planVars, warnVars, enclaveVars
  <2>7. CASE Succeed(r)
    BY <2>7, <1>0 DEF Succeed, handlerVars, runVars, execVars, planVars, warnVars, enclaveVars
  <2>8. CASE SucceedDry(r)
    BY <2>8, <1>0 DEF SucceedDry, handlerVars, runVars, execVars, planVars, warnVars, enclaveVars
  <2>9. CASE Persist(r)
    BY <2>9, <1>0 DEF Persist, handlerVars, runVars, execVars, planVars, warnVars, enclaveVars
  <2>10. CASE Unlock(r)
    BY <2>10, <1>0 DEF Unlock, handlerVars, runVars, execVars, planVars, warnVars, enclaveVars
  <2> QED
    BY <1>3, <2>1, <2>2, <2>3, <2>4, <2>5, <2>6, <2>7, <2>8, <2>9, <2>10 DEF Executor
<1>4. CASE Crash
  BY <1>4 DEF Crash, Quiet
<1>5. CASE UNCHANGED vars
  BY <1>5 DEF vars, handlerVars, runVars, execVars
<1> QED
  BY <1>1, <1>2, <1>3, <1>4, <1>5 DEF Next

(* While an executor is at work the plan is partly its own, otherwise it   *)
(* describes the enclave, and is the one a run's search was made against.  *)
Inside == {"announce", "execute", "record", "fail", "persist", "unlock"}

Going(s, o, pl, st, bf, k, at, out) ==
  \E p, b :
    /\ At(p, b, s, o, pl, st, k - 1, IF at = "record" THEN k ELSE k - 1)
    /\ bf \in States(Submitted) /\ Shown(Submitted, bf) = b[0]
    /\ at \in {"fail", "persist", "unlock"} => Len(p) - o.index <= k - 1
    /\ at \in {"persist", "unlock"} /\ out = "success" =>
         Shown(Submitted, st) = Shown(Submitted, Replay(s, bf))

RunGoes(r) ==
  e[r] \in Inside =>
    Going(script[r], sched[r], plan, state, before[r], pos[r], e[r], outcome[r])

Searched(r) ==
  g[r] \in {"validate", "lock"} \/ e[r] = "begin" => sched[r] = OptimizedPlan(script[r], plan)

DescInv ==
  /\ (\A r \in Run : ~(e[r] \in Inside)) => DescribedBy(plan, state)
  /\ \A r \in Run : Searched(r) /\ RunGoes(r)

LEMMA NothingMoves ==
  ASSUME DescInv, UNCHANGED <<plan, state, pos, before, e>>,
         \A q \in Run : g'[q] \in {"validate", "lock"} =>
           g[q] \in {"validate", "lock"} /\ sched'[q] = sched[q] /\ script'[q] = script[q],
         \A q \in Run : e[q] # "none" =>
           sched'[q] = sched[q] /\ script'[q] = script[q] /\ outcome'[q] = outcome[q]
  PROVE  DescInv'
<1>1. ASSUME NEW q \in Run PROVE Searched(q)'
  BY DEF DescInv, Searched
<1>2. ASSUME NEW q \in Run PROVE RunGoes(q)'
  <2>1. CASE e[q] = "none"
    BY <2>1 DEF RunGoes, Inside
  <2>2. CASE e[q] # "none"
    <3>1. RunGoes(q)
      BY DEF DescInv
    <3>2. UNCHANGED <<script[q], sched[q], plan, state, before[q], pos[q], e[q], outcome[q]>>
      BY <2>2
    <3> QED
      BY <3>1, <3>2 DEF RunGoes
  <2> QED
    BY <2>1, <2>2
<1> QED
  BY <1>1, <1>2 DEF DescInv

(* The executor at work is the only one, and no other run awaits it.       *)
LEMMA Proceeds ==
  ASSUME IInv, InTurn, Plain, NEW r \in Run, Executing(r), UNCHANGED g,
         NEW x \in Inside, e' = [e EXCEPT ![r] = x], RunGoes(r)'
  PROVE  DescInv'
<1>1. g[r] = "forward" /\ Working(r) /\ e'[r] = x
  BY DEF Plain, Working, IInv, Typed
<1>2. ASSUME NEW q \in Run, q # r PROVE ~Working(q) /\ ~Executing(q) /\ e'[q] = e[q]
  <2>1. ~Working(q)
    BY <1>1, <1>2, OneWorks
  <2>2. ~Executing(q)
    BY <2>1 DEF Plain, Working
  <2> QED
    BY <2>1, <2>2 DEF IInv, Typed
<1>3. ASSUME NEW q \in Run PROVE Searched(q)' /\ RunGoes(q)'
  <2>1. CASE q = r
    BY <1>1, <2>1 DEF Searched, Inside
  <2>2. CASE q # r
    BY <1>2, <2>2 DEF Searched, RunGoes, Inside, Executing, Working
  <2> QED
    BY <2>1, <2>2
<1> QED
  BY <1>1, <1>3 DEF DescInv

LEMMA Turns ==
  ASSUME IInv, PlanInv, Plain, DescInv, NEW r \in Run, e[r] \in Inside
  PROVE  /\ Executing(r) /\ pos[r] \in Nat \ {0} /\ ~Dry(r)
         /\ Going(script[r], sched[r], plan, state, before[r], pos[r], e[r], outcome[r])
  BY DEF PlanInv, RunsTyped, Plain, DescInv, RunGoes, Executing, Inside, Dry

LEMMA BeginStep ==
  ASSUME IInv, PlanInv, InTurn, Plain, DescInv, NEW r \in Run, Begin(r)
  PROVE  DescInv'
<1>1. /\ e[r] = "begin" /\ e' = [e EXCEPT ![r] = "announce"]
      /\ plan' = Kept(plan, sched[r].index) /\ before' = [before EXCEPT ![r] = state]
      /\ UNCHANGED <<g, script, sched, pos, outcome, state>>
  BY DEF Begin, runVars, enclaveVars
<1>2. Executing(r) /\ lock = r /\ pos[r] = 1
  BY <1>1 DEF Executing, IInv, ExecutorsExclude, Plain
<1>3. \A q \in Run : ~(e[q] \in Inside)
  BY <1>1, <1>2 DEF IInv, ExecutorsExclude, Executing, Inside
<1>4. /\ Ready(Submitted, plan) /\ state \in States(Submitted)
      /\ Shown(Submitted, state) = Shown(Submitted, Replay(plan, NewEnclave))
      /\ sched[r] = OptimizedPlan(script[r], plan)
  BY <1>1, <1>3 DEF DescInv, DescribedBy, Searched
<1>5. script[r] \in Seq(Submitted) /\ WellFormed(script[r]) /\ plan \in Seq(Submitted)
  BY DEF PlanInv, RunsTyped, PlansWereRun, Plain
<1>6. PICK b : b[0] = Shown(Submitted, state) /\ At(plan, b, script[r], sched[r], plan', state, 0, 0)
  BY <1>1, <1>4, <1>5, Begins
<1>7. /\ before'[r] \in States(Submitted) /\ Shown(Submitted, before'[r]) = b[0]
      /\ e'[r] = "announce"
  BY <1>1, <1>4, <1>6 DEF Plain, IInv, Typed
<1>8. RunGoes(r)'
  BY <1>1, <1>2, <1>6, <1>7 DEF RunGoes, Going
<1> QED
  BY <1>1, <1>2, <1>8, Proceeds DEF Inside

LEMMA AnnounceStep ==
  ASSUME IInv, PlanInv, InTurn, Plain, DescInv, NEW r \in Run, Announce(r)
  PROVE  DescInv'
<1>1. e[r] = "announce" /\ e[r] \in Inside
  BY DEF Announce, Inside
<1>2. /\ e' = [e EXCEPT ![r] = "execute"]
      /\ UNCHANGED <<g, script, sched, plan, state, before, pos, outcome>>
  BY <1>1, Turns DEF Announce, runVars, planVars, enclaveVars
<1>3. e'[r] = "execute"
  BY <1>2 DEF IInv, Typed
<1>4. RunGoes(r)'
  BY <1>1, <1>2, <1>3, Turns DEF RunGoes, Going
<1> QED
  BY <1>1, <1>2, <1>4, Turns, Proceeds DEF Inside

LEMMA ExecuteStep ==
  ASSUME IInv, PlanInv, InTurn, Plain, DescInv, NEW r \in Run, Execute(r)
  PROVE  DescInv'
<1>1. e[r] = "execute" /\ e[r] \in Inside
  BY DEF Execute, Inside
<1>2. /\ e' = [e EXCEPT ![r] = "record"]
      /\ UNCHANGED <<g, script, sched, plan, before, pos, outcome>>
  BY DEF Execute, runVars, planVars
<1> PICK k : k = pos[r]
  OBVIOUS
<1>3. /\ e'[r] = "record" /\ k \in Nat \ {0} /\ k <= Len(sched[r].seq)
  BY <1>1, <1>2 DEF IInv, Typed, PlanInv, RunsTyped, InSequence
<1>4. PICK p, b : /\ At(p, b, script[r], sched[r], plan, state, k - 1, k - 1)
                  /\ before[r] \in States(Submitted) /\ Shown(Submitted, before[r]) = b[0]
  BY <1>1, Turns DEF Going
<1>5. Len(sched[r].seq) = Len(script[r]) /\ Len(script[r]) \in Nat
  <2>1. /\ script[r] \in Seq(Submitted) /\ WellFormed(script[r]) /\ p \in Seq(Submitted)
        /\ sched[r] = OptimizedPlan(script[r], p)
    BY <1>4 DEF At
  <2> QED
    BY <2>1, PlanOf
<1>6. k - 1 < Len(script[r]) /\ k = (k - 1) + 1
  BY <1>3, <1>5
<1>7. /\ ~sched[r].seq[k].executed /\ sched[r].seq[k].instr.type = "exec" =>
           Runs(state, sched[r].seq[k].instr.name)
      /\ state' = IF sched[r].seq[k].executed THEN state ELSE Applied(state, sched[r].seq[k].instr)
  BY DEF Execute, Skipped, Current, CanExecute, enclaveVars
<1>8. At(p, b, script[r], sched[r], plan, state', k - 1, k)
  BY <1>4, <1>6, <1>7, Executes
<1>9. RunGoes(r)'
  BY <1>2, <1>3, <1>4, <1>8 DEF RunGoes, Going
<1> QED
  BY <1>1, <1>2, <1>9, Turns, Proceeds DEF Inside

LEMMA ExecuteFailsStep ==
  ASSUME Unmarked(Submitted), "execute" \notin Failures,
         IInv, PlanInv, InTurn, Plain, DescInv, NEW r \in Run, ExecuteFails(r)
  PROVE  DescInv'
<1>1. e[r] = "execute" /\ e[r] \in Inside
  BY DEF ExecuteFails, Inside
<1>2. /\ e' = [e EXCEPT ![r] = "fail"] /\ state' = state
      /\ UNCHANGED <<g, script, sched, plan, before, pos, outcome>>
  BY DEF ExecuteFails, runVars, planVars
<1> PICK k : k = pos[r]
  OBVIOUS
<1>3. /\ e'[r] = "fail" /\ k \in Nat \ {0} /\ k <= Len(sched[r].seq)
  BY <1>1, <1>2 DEF IInv, Typed, PlanInv, RunsTyped, InSequence
<1>4. PICK p, b : /\ At(p, b, script[r], sched[r], plan, state, k - 1, k - 1)
                  /\ before[r] \in States(Submitted) /\ Shown(Submitted, before[r]) = b[0]
  BY <1>1, Turns DEF Going
<1>5. Len(sched[r].seq) = Len(script[r]) /\ Len(script[r]) \in Nat
  <2>1. /\ script[r] \in Seq(Submitted) /\ WellFormed(script[r]) /\ p \in Seq(Submitted)
        /\ sched[r] = OptimizedPlan(script[r], p)
    BY <1>4 DEF At
  <2> QED
    BY <2>1, PlanOf
<1>6. k - 1 < Len(script[r]) /\ k = (k - 1) + 1
  BY <1>3, <1>5
<1>7. sched[r].seq[k].instr.type = "exec" /\ ~Runs(state, sched[r].seq[k].instr.name)
  BY DEF ExecuteFails, Current, CanExecute
<1>8. Len(p) - sched[r].index <= k - 1
  BY <1>4, <1>6, <1>7, FailsLate
<1>9. RunGoes(r)'
  BY <1>2, <1>3, <1>4, <1>8 DEF RunGoes, Going
<1> QED
  BY <1>1, <1>2, <1>9, Turns, Proceeds DEF Inside

LEMMA RecordStep ==
  ASSUME IInv, PlanInv, InTurn, Plain, DescInv, NEW r \in Run, Record(r)
  PROVE  DescInv'
<1>1. e[r] = "record" /\ e[r] \in Inside
  BY DEF Record, Inside
<1>2. /\ e' = [e EXCEPT ![r] = "announce"] /\ plan' = Append(plan, sched[r].seq[pos[r]].instr)
      /\ pos' = [pos EXCEPT ![r] = @ + 1]
      /\ UNCHANGED <<g, script, sched, state, before, outcome>>
  BY DEF Record, runVars, enclaveVars, Current
<1> PICK k : k = pos[r]
  OBVIOUS
<1>3. e'[r] = "announce" /\ k \in Nat \ {0} /\ pos'[r] - 1 = k /\ k = (k - 1) + 1
  BY <1>2 DEF IInv, Typed, PlanInv, RunsTyped
<1>4. PICK p, b : /\ At(p, b, script[r], sched[r], plan, state, k - 1, k)
                  /\ before[r] \in States(Submitted) /\ Shown(Submitted, before[r]) = b[0]
  BY <1>1, Turns DEF Going
<1>5. At(p, b, script[r], sched[r], plan', state, k, k)
  <2> PICK n : n = k - 1
    OBVIOUS
  <2>1. k = n + 1 /\ At(p, b, script[r], sched[r], plan, state, n, k)
    BY <1>3, <1>4
  <2>2. At(p, b, script[r], sched[r], Append(plan, sched[r].seq[k].instr), state, k, k)
    BY <2>1, Records
  <2> QED
    BY <1>2, <2>2
<1>6. RunGoes(r)'
  BY <1>2, <1>3, <1>4, <1>5 DEF RunGoes, Going
<1> QED
  BY <1>1, <1>2, <1>6, Turns, Proceeds DEF Inside

LEMMA FailStep ==
  ASSUME IInv, PlanInv, LinesInv, InTurn, Plain, DescInv, NEW r \in Run, Fail(r)
  PROVE  DescInv'
<1>1. e[r] = "fail" /\ e[r] \in Inside
  BY DEF Fail, Inside
<1>2. /\ e' = [e EXCEPT ![r] = "persist"] /\ outcome' = [outcome EXCEPT ![r] = "failure"]
      /\ UNCHANGED <<g, script, sched, plan, state, before, pos>>
  BY DEF Fail, runVars, planVars, enclaveVars
<1>3. e'[r] = "persist" /\ outcome'[r] = "failure"
  BY <1>2 DEF IInv, Typed, LinesInv, LinesTyped
<1>4. RunGoes(r)'
  BY <1>1, <1>2, <1>3, Turns DEF RunGoes, Going
<1> QED
  BY <1>1, <1>2, <1>4, Turns, Proceeds DEF Inside

LEMMA SucceedStep ==
  ASSUME IInv, PlanInv, InTurn, Plain, DescInv, NEW r \in Run, Succeed(r)
  PROVE  DescInv'
<1>1. e[r] = "announce" /\ e[r] \in Inside
  BY DEF Succeed, Inside
<1>2. /\ e' = [e EXCEPT ![r] = "persist"]
      /\ UNCHANGED <<g, script, sched, plan, state, before, pos>>
  BY DEF Succeed, runVars, planVars, enclaveVars
<1> PICK k : k = pos[r]
  OBVIOUS
<1>3. e'[r] = "persist" /\ k \in Nat \ {0} /\ k > Len(sched[r].seq)
  BY <1>2 DEF IInv, Typed, PlanInv, RunsTyped, Succeed, AtEnd
<1>4. PICK p, b : /\ At(p, b, script[r], sched[r], plan, state, k - 1, k - 1)
                  /\ before[r] \in States(Submitted) /\ Shown(Submitted, before[r]) = b[0]
  BY <1>1, Turns DEF Going
<1>5. Len(sched[r].seq) = Len(script[r]) /\ Len(script[r]) \in Nat
  <2>1. /\ script[r] \in Seq(Submitted) /\ WellFormed(script[r]) /\ p \in Seq(Submitted)
        /\ sched[r] = OptimizedPlan(script[r], p)
    BY <1>4 DEF At
  <2> QED
    BY <2>1, PlanOf
<1>6. k - 1 >= Len(script[r])
  BY <1>3, <1>5
<1>7. /\ Len(p) - sched[r].index <= k - 1
      /\ Shown(Submitted, state) = Shown(Submitted, Replay(script[r], before[r]))
  BY <1>4, <1>6, EndsWell
<1>8. RunGoes(r)'
  BY <1>2, <1>3, <1>4, <1>7 DEF RunGoes, Going
<1> QED
  BY <1>1, <1>2, <1>8, Turns, Proceeds DEF Inside

LEMMA PersistsStep ==
  ASSUME IInv, PlanInv, InTurn, Plain, DescInv, NEW r \in Run, Persist(r)
  PROVE  DescInv'
<1>1. e[r] = "persist" /\ e[r] \in Inside
  BY DEF Persist, Inside
<1>2. /\ e' = [e EXCEPT ![r] = "unlock"]
      /\ UNCHANGED <<g, script, sched, plan, state, before, pos, outcome>>
  BY DEF Persist, runVars, enclaveVars
<1>3. e'[r] = "unlock"
  BY <1>2 DEF IInv, Typed
<1>4. RunGoes(r)'
  BY <1>1, <1>2, <1>3, Turns DEF RunGoes, Going
<1> QED
  BY <1>1, <1>2, <1>4, Turns, Proceeds DEF Inside

LEMMA UnlockStep ==
  ASSUME Unmarked(Submitted), IInv, PlanInv, InTurn, Plain, DescInv, NEW r \in Run, Unlock(r)
  PROVE  DescInv'
<1>1. e[r] = "unlock" /\ e[r] \in Inside
  BY DEF Unlock, Inside
<1>2. /\ e' = [e EXCEPT ![r] = "closed"]
      /\ UNCHANGED <<g, script, sched, plan, state, before, pos, outcome>>
  BY DEF Unlock, runVars, enclaveVars
<1> PICK n : n = pos[r] - 1
  OBVIOUS
<1>3. PICK p, b : At(p, b, script[r], sched[r], plan, state, n, n) /\ Len(p) - sched[r].index <= n
  BY <1>1, Turns DEF Going
<1>4. DescribedBy(plan, state)
  BY <1>3, Describes
<1>5. e'[r] = "closed" /\ \A q \in Run : q # r => e'[q] = e[q]
  BY <1>2 DEF IInv, Typed
<1>6. ASSUME NEW q \in Run PROVE Searched(q)' /\ RunGoes(q)'
  <2>1. CASE q = r
    <3>1. g'[r] = "forward"
      BY <1>1, <1>2, Turns DEF Plain
    <3> QED
      BY <1>5, <2>1, <3>1 DEF Searched, RunGoes, Inside
  <2>2. CASE q # r
    BY <1>2, <1>5, <2>2 DEF DescInv, Searched, RunGoes
  <2> QED
    BY <2>1, <2>2
<1>7. DescribedBy(plan, state)'
  BY <1>2, <1>4 DEF DescribedBy
<1> QED
  BY <1>6, <1>7 DEF DescInv

LEMMA DescStep ==
  ASSUME Quiet, Unmarked(Submitted), "execute" \notin Failures,
         IInv, LinesInv, PlanInv, InTurn, Plain, DescInv, [Next]_vars
  PROVE  DescInv'
<1>0. /\ g \in [Run -> {"none", "interpret", "validate", "lock", "forward", "finish", "close", "closed", "crashed"}]
      /\ script \in [Run -> Seq(Submitted)] /\ e \in [Run -> Statuses]
      /\ sched \in [Run -> [index : Nat, seq : Seq(Entries(Submitted))]]
      /\ outcome \in [Run -> {"none", "success", "failure"}]
      /\ \A r \in Run : h[r] = "none" => e[r] = "none"
  BY DEF IInv, Typed, GTyped, NotYet, LinesInv, LinesTyped, PlanInv, RunsTyped
<1>1. ASSUME NEW r \in Run, Handler(r) PROVE DescInv'
  <2>1. CASE Request(r)
    <3>1. /\ UNCHANGED <<plan, state, pos, before, e, sched, outcome>>
          /\ g' = [g EXCEPT ![r] = "interpret"] /\ h[r] = "none"
          /\ \E s \in Scripts : script' = [script EXCEPT ![r] = s]
      BY <2>1 DEF Request, execVars, planVars, enclaveVars
    <3> QED
      BY <1>0, <3>1, NothingMoves
  <2>2. CASE Return(r)
    BY <2>2, NothingMoves DEF Return, runVars, execVars, planVars, enclaveVars
  <2>3. CASE Disconnect(r)
    BY <2>3, NothingMoves DEF Disconnect, runVars, execVars, planVars, enclaveVars
  <2> QED
    BY <1>1, <2>1, <2>2, <2>3 DEF Handler
<1>2. ASSUME NEW r \in Run, Goroutine(r) PROVE DescInv'
  <2>1. CASE Interpret(r)
    <3>1. /\ UNCHANGED <<plan, state, pos, before, e, script, outcome>>
          /\ g' = [g EXCEPT ![r] = "validate"] /\ g[r] = "interpret"
          /\ sched' = [sched EXCEPT ![r] = OptimizedPlan(script[r], plan)]
      BY <2>1 DEF Interpret, execVars, planVars, enclaveVars, Plain
    <3>2. e[r] = "none"
      BY <3>1 DEF LinesInv, OneEvent
    <3>3. ASSUME NEW q \in Run PROVE Searched(q)' /\ RunGoes(q)'
      <4>1. CASE q = r
        BY <1>0, <3>1, <3>2, <4>1 DEF Searched, RunGoes, Inside
      <4>2. CASE q # r
        BY <1>0, <3>1, <4>2 DEF DescInv, Searched, RunGoes
      <4> QED
        BY <4>1, <4>2
    <3> QED
      BY <3>1, <3>3 DEF DescInv, DescribedBy
  <2>2. CASE InterpretFails(r)
    <3>1. e[r] = "none"
      BY <2>2 DEF InterpretFails, LinesInv, OneEvent
    <3> QED
      BY <1>0, <2>2, <3>1, NothingMoves DEF InterpretFails, runVars, planVars, enclaveVars
  <2>3. CASE Validate(r)
    BY <1>0, <2>3, NothingMoves DEF Validate, runVars, execVars, planVars, enclaveVars
  <2>4. CASE ValidateFails(r)
    <3>1. e[r] = "none"
      BY <2>4 DEF ValidateFails, LinesInv, OneEvent
    <3> QED
      BY <1>0, <2>4, <3>1, NothingMoves DEF ValidateFails, runVars, planVars, enclaveVars
  <2>5. CASE Lock(r)
    <3>1. /\ UNCHANGED <<plan, state, pos, before, script, sched, outcome>>
          /\ g' = [g EXCEPT ![r] = "forward"] /\ g[r] = "lock" /\ e' = [e EXCEPT ![r] = "begin"]
      BY <2>5 DEF Lock, runVars, enclaveVars
    <3>2. e[r] = "none"
      BY <3>1 DEF LinesInv, OneEvent
    <3>3. ASSUME NEW q \in Run PROVE Searched(q)' /\ RunGoes(q)'
      <4>1. CASE q = r
        BY <1>0, <3>1, <4>1 DEF DescInv, Searched, RunGoes, Inside
      <4>2. CASE q # r
        BY <1>0, <3>1, <4>2 DEF DescInv, Searched, RunGoes
      <4> QED
        BY <4>1, <4>2
    <3>4. (\A q \in Run : ~(e'[q] \in Inside)) => \A q \in Run : ~(e[q] \in Inside)
      BY <1>0, <3>1, <3>2 DEF Inside
    <3> QED
      BY <3>1, <3>3, <3>4 DEF DescInv, DescribedBy
  <2>6. CASE Forward(r)
    BY <1>0, <2>6, NothingMoves DEF Forward, runVars, execVars, planVars, enclaveVars
  <2>7. CASE ForwardEnds(r)
    BY <1>0, <2>7, NothingMoves DEF ForwardEnds, runVars, execVars, planVars, enclaveVars
  <2>8. CASE TakeWarnings(r)
    BY <1>0, <2>8, NothingMoves DEF TakeWarnings, runVars, execVars, planVars, enclaveVars
  <2>9. CASE Close(r)
    BY <1>0, <2>9, NothingMoves DEF Close, runVars, execVars, planVars, enclaveVars
  <2> QED
    BY <1>2, <2>1, <2>2, <2>3, <2>4, <2>5, <2>6, <2>7, <2>8, <2>9 DEF Goroutine
<1>3. ASSUME NEW r \in Run, Executor(r) PROVE DescInv'
  <2>1. CASE SucceedDry(r)
    BY <2>1 DEF SucceedDry, Plain, Dry
  <2> QED
    BY <1>3, <2>1, BeginStep, AnnounceStep, ExecuteStep, ExecuteFailsStep, RecordStep, FailStep,
       SucceedStep, PersistsStep, UnlockStep DEF Executor
<1>4. CASE Crash
  BY <1>4 DEF Crash, Quiet, Plain
<1>5. CASE UNCHANGED vars
  BY <1>5, NothingMoves DEF vars, handlerVars, runVars, execVars, planVars, enclaveVars
<1> QED
  BY <1>1, <1>2, <1>3, <1>4, <1>5 DEF Next

LEMMA DescInit ==
  ASSUME Quiet, Init
  PROVE  InTurn /\ Plain /\ DescInv
<1>1. InTurn
  BY DEF Init, InTurn, Working
<1>2. Plain
  BY DEF Init, Plain, WellFormed, Executing
<1>3. /\ Shown(Submitted, Replay(<<>>, NewEnclave)) = Shown(Submitted, NewEnclave)
      /\ Ready(Submitted, <<>>) /\ NewEnclave \in States(Submitted)
  <2>1. <<>> \in Seq(Submitted) /\ Len(<<>>) = 0
    OBVIOUS
  <2>2. PICK a : Replayed(a, Submitted, <<>>, NewEnclave)
    BY <2>1, Scripted, ReplayedAnew
  <2>3. Shown(Submitted, Replay(<<>>, NewEnclave)) = NewEnclave
    <3>1. a[Len(<<>>)] = Shown(Submitted, Replay(<<>>, NewEnclave)) /\ a[0] = NewEnclave
      BY <2>1, <2>2, Scripted, ReplayedAnew DEF Replayed
    <3> QED
      BY <2>1, <3>1
  <2>4. CommandsRan(<<>>, a)
    BY <2>1 DEF CommandsRan
  <2> QED
    BY <2>2, <2>3, <2>4, ShownAgain, NewEnclaveIs DEF Ready
<1>4. DescInv
  BY <1>3 DEF Init, DescInv, DescribedBy, Searched, RunGoes, Inside
<1> QED
  BY <1>1, <1>2, <1>4

DescribedRuns == IInv /\ LinesInv /\ PlanInv /\ InTurn /\ Plain /\ DescInv

LEMMA DescribedRunsHold ==
  ASSUME Quiet, Unmarked(Submitted), "execute" \notin Failures
  PROVE  Spec => []DescribedRuns
<1>1. Init => DescribedRuns
  BY InitEstablishes, PlanInit, DescInit DEF DescribedRuns
<1>2. DescribedRuns /\ [Next]_vars => DescribedRuns'
  <2> SUFFICES ASSUME DescribedRuns, [Next]_vars PROVE DescribedRuns'
    OBVIOUS
  <2>1. Clients \subseteq {"uncached"}
    BY DEF Quiet
  <2> QED
    BY <2>1, StepPreserves, LinesStep, PlanStep, TurnStep, PlainStep, DescStep DEF DescribedRuns
<1> QED
  BY <1>1, <1>2, PTL DEF Spec

(* Between runs the plan describes the enclave, and a run that succeeds    *)
(* leaves what its whole script would have left, however much of it was    *)
(* skipped, but for what may be stale: for any well formed scripts, runs   *)
(* and failures outside the execution, as long as clients ask for one run  *)
(* at a time.                                                              *)
THEOREM PlanDescribes ==
  ASSUME Quiet, Unmarked(Submitted), "execute" \notin Failures
  PROVE  Spec => []PlanDescribesEnclave
<1>1. DescribedRuns => PlanDescribesEnclave
  <2> SUFFICES ASSUME DescribedRuns, lock = NoRun
               PROVE  Shown(Submitted, Replay(plan, NewEnclave)) = Shown(Submitted, state)
    BY DEF PlanDescribesEnclave, Stale, Shown
  <2>1. \A r \in Run : ~Executing(r)
    BY DEF DescribedRuns, IInv, ExecutorsExclude
  <2> QED
    BY <2>1 DEF DescribedRuns, DescInv, DescribedBy, Executing, Inside
<1> QED
  BY DescribedRunsHold, <1>1, PTL

THEOREM SuccessIsWhole ==
  ASSUME Quiet, Unmarked(Submitted), "execute" \notin Failures
  PROVE  Spec => []SuccessEstablishesScript
<1>1. DescribedRuns => SuccessEstablishesScript
  <2> SUFFICES ASSUME DescribedRuns, NEW r \in Run, outcome[r] = "success", e[r] \in {"persist", "unlock"}
               PROVE  Shown(Submitted, state) = Shown(Submitted, Replay(script[r], before[r]))
    BY DEF SuccessEstablishesScript, Stale, Shown
  <2>1. e[r] \in Inside
    BY DEF Inside
  <2>2. Going(script[r], sched[r], plan, state, before[r], pos[r], e[r], outcome[r])
    BY <2>1, Turns DEF DescribedRuns
  <2> QED
    BY <2>2 DEF Going
<1> QED
  BY DescribedRunsHold, <1>1, PTL
=============================================================================
