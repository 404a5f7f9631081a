------------------------ MODULE SplitCapture_proofs ------------------------
(***************************************************************************)
(* What the parser goroutine of a capture computes and a restore compares, *)
(* then the goroutines themselves.                                         *)
(*                                                                         *)
(* The fingerprints: MCAlgorithms checks the gate of a restore on small    *)
(* dumps; here, on those of any size.  The lines psql prints reach the     *)
(* sink; the script makes psql print the tables; the parser reads every    *)
(* table out of the text of pg_dump, and sorts their fingerprints: so the  *)
(* gate opens exactly for the rows of the dump (GateOpens).                *)
(* A loop over a sequence is a function defined along its places: to       *)
(* reason about it takes induction, which is stated with a set for the     *)
(* property, since the provers instantiate no operator.                    *)
(*                                                                         *)
(* Safety of SplitCapture for dumps of any length is proved at the end.    *)
(* None of the properties is inductive.  Inv adds what links the three     *)
(* goroutines: how far the caller must have come for the parser's result   *)
(* and the profile to be there, where the chunk in flight is, and that the *)
(* archive goroutine publishes only behind a profile that was closed.      *)
(***************************************************************************)
EXTENDS SplitCapture, MCAlgorithms, FiniteSetTheorems, WellFoundedInduction, TLAPS

-----------------------------------------------------------------------------
(* Induction and recursion.                                                *)

\* Induction, with a set for the property: the provers instantiate no operator.
LEMMA Induction ==
  ASSUME NEW S, 0 \in S, \A i \in Nat : i \in S => i + 1 \in S
  PROVE  Nat \subseteq S
<1>1. \A x, y \in Nat : <<y, x>> \in OpToRel(<, Nat) <=> y < x
  BY DEF OpToRel
<1>2. PICK R : IsWellFoundedOn(R, Nat) /\ \A x, y \in Nat : <<y, x>> \in R <=> y < x
  BY <1>1, NatLessThanWellFounded, Zenon
<1> DEFINE T == Nat \ S
<1> SUFFICES ASSUME T # {} PROVE FALSE
  OBVIOUS
<1>3. PICK x \in T : \A y \in T : ~(<<y, x>> \in R)
  BY <1>2, WFMin
<1>4. x \in Nat \ {0} /\ x - 1 \in Nat /\ (x - 1) + 1 = x /\ x - 1 < x
  OBVIOUS
<1>5. x - 1 \in T
  BY <1>4
<1> QED
  BY <1>2, <1>3, <1>4, <1>5

\* A function that is defined step by step along the numbers exists.
LEMMA Recursion ==
  ASSUME NEW D, NEW first \in D, NEW n \in Nat, NEW step \in [1 .. n -> [D -> D]]
  PROVE  \E f \in [0 .. n -> D] : f[0] = first /\ \A i \in 1 .. n : f[i] = step[i][f[i - 1]]
<1> DEFINE Is(f, k) == f \in [0 .. k -> D] /\ f[0] = first /\ \A i \in 1 .. k : f[i] = step[i][f[i - 1]]
           S == {k \in Nat : k <= n => \E f : Is(f, k)}
<1>1. 0 \in S
  <2>1. Is([i \in 0 .. 0 |-> first], 0)
    OBVIOUS
  <2> QED
    BY <2>1
<1>2. ASSUME NEW k \in Nat, k \in S, k + 1 <= n PROVE k + 1 \in S
  <2> PICK f : Is(f, k)
    BY <1>2
  <2> DEFINE next == step[k + 1][f[k]]
             g    == [i \in 0 .. k + 1 |-> IF i = k + 1 THEN next ELSE f[i]]
  <2>1. next \in D
    BY <1>2
  <2> HIDE DEF next
  <2>2. g \in [0 .. k + 1 -> D] /\ g[0] = first
    BY <2>1
  <2>3. (\A i \in 0 .. k : g[i] = f[i]) /\ g[k + 1] = next
    OBVIOUS
  <2> HIDE DEF g
  <2>4. ASSUME NEW i \in 1 .. k + 1 PROVE g[i] = step[i][g[i - 1]]
    <3>1. CASE i = k + 1
      BY <2>3, <3>1 DEF next
    <3>2. CASE i \in 1 .. k
      <4>1. i - 1 \in 0 .. k /\ i \in 0 .. k
        BY <3>2
      <4> QED
        BY <2>3, <3>2, <4>1
    <3> QED
      BY <3>1, <3>2
  <2>5. Is(g, k + 1)
    BY <2>2, <2>4
  <2> HIDE DEF Is
  <2> QED
    BY <2>5
<1>3. \A k \in Nat : k \in S => k + 1 \in S
  BY <1>2
<1>4. n \in S
  <2> HIDE DEF S
  <2> QED
    BY <1>1, <1>3, Induction
<1> QED
  BY <1>4

-----------------------------------------------------------------------------
(* The fingerprint of a table, and the sink that opens the gate.           *)

\* How often a row is among the lines behind a, up to k.
Times(lines, a, k, row) == Cardinality({i \in a + 1 .. k : lines[i] = row})
Among(lines, a, k) == {lines[i] : i \in a + 1 .. k}

\* What the fingerprint of these lines says: how many they are, and how often each is there.
FingerprintOf(header, lines, a, k) ==
  [header |-> header, rows |-> k - a,
   sum |-> {[row |-> r, times |-> Times(lines, a, k, r)] : r \in Among(lines, a, k)},
   odd |-> {r \in Among(lines, a, k) : Times(lines, a, k, r) % 2 = 1}]

\* A table that was given these lines, one by one.
Counted(t, header, lines, a, k) ==
  /\ DOMAIN t = {"header", "rows", "sum", "odd"}
  /\ t.header = header /\ t.rows = k - a
  /\ t.sum \in Seq([row : Among(lines, a, k), times : Nat])
  /\ \A i, j \in DOMAIN t.sum : t.sum[i].row = t.sum[j].row => i = j
  /\ \A i \in DOMAIN t.sum : t.sum[i].times = Times(lines, a, k, t.sum[i].row)
  /\ \A r \in Among(lines, a, k) : \E i \in DOMAIN t.sum : t.sum[i].row = r
  /\ t.odd = {r \in Among(lines, a, k) : Times(lines, a, k, r) % 2 = 1}

\* Sequences, and what becomes of them when one element is added or changed.
LEMMA OfSeq ==
  ASSUME NEW S, NEW s \in Seq(S)
  PROVE  Len(s) \in Nat /\ DOMAIN s = 1 .. Len(s) /\ \A i \in DOMAIN s : s[i] \in S
  OBVIOUS

\* What a sequence with one more element is.
LEMMA AppendOf ==
  ASSUME NEW S, NEW s \in Seq(S), NEW e \in S
  PROVE  /\ Append(s, e) \in Seq(S) /\ Len(Append(s, e)) = Len(s) + 1
         /\ DOMAIN Append(s, e) = DOMAIN s \cup {Len(s) + 1} /\ Len(s) + 1 \notin DOMAIN s
         /\ \A i \in DOMAIN s : Append(s, e)[i] = s[i]
         /\ Append(s, e)[Len(s) + 1] = e
  OBVIOUS

\* An element of a sequence may be replaced.
LEMMA ExceptOf ==
  ASSUME NEW S, NEW s \in Seq(S), NEW i \in DOMAIN s, NEW e \in S
  PROVE  [s EXCEPT ![i] = e] \in Seq(S)
  OBVIOUS

\* A sequence over a set is one over every larger set.
LEMMA WiderSeq ==
  ASSUME NEW S, NEW T, S \subseteq T
  PROVE  Seq(S) \subseteq Seq(T)
  OBVIOUS

\* One more line.
LEMMA TimesStep ==
  ASSUME NEW lines, NEW a \in Nat, NEW k \in Nat, a <= k
  PROVE  /\ Among(lines, a, k + 1) = Among(lines, a, k) \cup {lines[k + 1]}
         /\ \A r : /\ Times(lines, a, k, r) \in Nat
                   /\ r \notin Among(lines, a, k) => Times(lines, a, k, r) = 0
                   /\ Times(lines, a, k + 1, r) =
                        IF r = lines[k + 1] THEN Times(lines, a, k, r) + 1 ELSE Times(lines, a, k, r)
<1>1. a + 1 .. k + 1 = (a + 1 .. k) \cup {k + 1} /\ k + 1 \notin a + 1 .. k
  OBVIOUS
<1>2. ASSUME NEW r
      PROVE  /\ Times(lines, a, k, r) \in Nat
             /\ r \notin Among(lines, a, k) => Times(lines, a, k, r) = 0
             /\ Times(lines, a, k + 1, r) =
                  IF r = lines[k + 1] THEN Times(lines, a, k, r) + 1 ELSE Times(lines, a, k, r)
  <2> DEFINE before == {i \in a + 1 .. k : lines[i] = r}
             after  == {i \in a + 1 .. k + 1 : lines[i] = r}
  <2>1. IsFiniteSet(a + 1 .. k) /\ before \in SUBSET (a + 1 .. k)
    BY FS_Interval
  <2>2. IsFiniteSet(before)
    BY <2>1, FS_Subset
  <2>3. Cardinality(before) \in Nat
    BY <2>2, FS_CardinalityType
  <2>4. after = IF r = lines[k + 1] THEN before \cup {k + 1} ELSE before
    BY <1>1
  <2>5. k + 1 \notin before /\ (r \notin Among(lines, a, k) => before = {})
    BY DEF Among
  <2> HIDE DEF before, after
  <2>6. Cardinality(before \cup {k + 1}) = Cardinality(before) + 1
    BY <2>2, <2>5, FS_AddElement
  <2>7. r \notin Among(lines, a, k) => Cardinality(before) = 0
    BY <2>5, FS_EmptySet
  <2> QED
    BY <2>3, <2>4, <2>6, <2>7 DEF Times, before, after
<1> QED
  BY <1>1, <1>2 DEF Among

\* Nothing was read.
LEMMA CountedStart ==
  ASSUME NEW header, NEW lines, NEW a \in Nat
  PROVE  Counted(Copy!Table(header), header, lines, a, a)
<1>1. Among(lines, a, a) = {}
  BY DEF Among
<1> QED
  BY <1>1 DEF Counted, Copy!Table

\* addRow counts its line.
LEMMA CountedStep ==
  ASSUME NEW header, NEW lines, NEW a \in Nat, NEW k \in Nat, a <= k,
         NEW t, Counted(t, header, lines, a, k)
  PROVE  Counted(Copy!AddRow(t, lines[k + 1]), header, lines, a, k + 1)
<1> DEFINE row == lines[k + 1]
           N   == Among(lines, a, k)
           M   == Among(lines, a, k + 1)
           C(r) == Times(lines, a, k, r)
           E(r) == Times(lines, a, k + 1, r)
           occurs == {i \in DOMAIN t.sum : t.sum[i].row = row}
           u   == Copy!AddRow(t, row)
<1>1. /\ M = N \cup {row}
      /\ \A r : C(r) \in Nat /\ (r \notin N => C(r) = 0) /\ E(r) = IF r = row THEN C(r) + 1 ELSE C(r)
  BY TimesStep
<1>2. /\ DOMAIN t = {"header", "rows", "sum", "odd"} /\ t.header = header /\ t.rows = k - a
      /\ t.sum \in Seq([row : N, times : Nat])
      /\ \A i, j \in DOMAIN t.sum : t.sum[i].row = t.sum[j].row => i = j
      /\ \A i \in DOMAIN t.sum : t.sum[i].times = C(t.sum[i].row)
      /\ \A r \in N : \E i \in DOMAIN t.sum : t.sum[i].row = r
      /\ t.odd = {r \in N : C(r) % 2 = 1}
  BY DEF Counted
<1> DEFINE R == [row : N, times : Nat]
           S == [row : M, times : Nat]
<1> HIDE DEF N, M, C, E, row
<1>3. \A i \in DOMAIN t.sum : t.sum[i] \in [row : N, times : Nat]
  <2>1. t.sum \in Seq(R)
    BY <1>2
  <2> HIDE DEF R
  <2>2. \A i \in DOMAIN t.sum : t.sum[i] \in R
    BY <2>1, OfSeq
  <2> QED
    BY <2>2 DEF R
<1>4. DOMAIN u = {"header", "rows", "sum", "odd"} /\ u.header = header /\ u.rows = (k + 1) - a
  BY <1>2 DEF Copy!AddRow
<1>5. u.odd = {r \in M : E(r) % 2 = 1}
  <2>1. u.odd = IF row \in t.odd THEN t.odd \ {row} ELSE t.odd \union {row}
    BY <1>2 DEF Copy!AddRow
  <2>2. \A r : r \in u.odd <=> IF r = row THEN ~(r \in N /\ C(r) % 2 = 1) ELSE r \in N /\ C(r) % 2 = 1
    BY <1>2, <2>1
  <2>3. \A r : r = row => (E(r) % 2 = 1 <=> ~(r \in N /\ C(r) % 2 = 1))
    <3> SUFFICES ASSUME NEW c \in Nat PROVE (c + 1) % 2 = 1 <=> ~(c % 2 = 1)
      BY <1>1
    <3> QED
      OBVIOUS
  <2> QED
    BY <1>1, <2>2, <2>3
<1>6. CASE occurs = {}
  <2>1. u.sum = Append(t.sum, [row |-> row, times |-> 1])
    BY <1>2, <1>6 DEF Copy!AddRow
  <2>2. row \notin N
    BY <1>2, <1>6
  <2>3. [row |-> row, times |-> 1] \in S /\ t.sum \in Seq(S)
    <3>1. R \subseteq S /\ [row |-> row, times |-> 1] \in S
      BY <1>1
    <3>2. t.sum \in Seq(R)
      BY <1>2
    <3> HIDE DEF R, S
    <3> QED
      BY <3>1, <3>2, WiderSeq
  <2>4. u.sum \in Seq([row : M, times : Nat])
    BY <2>1, <2>3, AppendOf
  <2>5. /\ \A i \in DOMAIN t.sum : u.sum[i] = t.sum[i]
        /\ u.sum[Len(t.sum) + 1].row = row /\ u.sum[Len(t.sum) + 1].times = 1
        /\ DOMAIN u.sum = DOMAIN t.sum \cup {Len(t.sum) + 1} /\ Len(t.sum) + 1 \notin DOMAIN t.sum
    BY <2>1, <2>3, AppendOf
  <2>6. \A i, j \in DOMAIN u.sum : u.sum[i].row = u.sum[j].row => i = j
    <3> HIDE DEF u
    <3>1. \A i \in DOMAIN t.sum : t.sum[i].row # row
      BY <1>6
    <3> QED
      BY <1>2, <2>5, <3>1
  <2>7. \A i \in DOMAIN u.sum : u.sum[i].times = E(u.sum[i].row)
    BY <1>1, <1>2, <1>3, <1>6, <2>2, <2>5
  <2>8. \A r \in M : \E i \in DOMAIN u.sum : u.sum[i].row = r
    BY <1>1, <1>2, <2>5
  <2> QED
    BY <1>4, <1>5, <2>4, <2>6, <2>7, <2>8 DEF Counted, M, E, row
<1>7. CASE occurs # {}
  <2>1. PICK o \in occurs : o = CHOOSE i \in occurs : TRUE
    BY <1>7
  <2>2. u.sum = [t.sum EXCEPT ![o] = [t.sum[o] EXCEPT !.times = @ + 1]]
    <3> DEFINE c   == CHOOSE i \in occurs : TRUE
               sum == IF occurs = {} THEN Append(t.sum, [row |-> row, times |-> 1])
                      ELSE [t.sum EXCEPT ![c].times = @ + 1]
               odd == IF row \in t.odd THEN t.odd \ {row} ELSE t.odd \union {row}
    <3>1. u = [t EXCEPT !.rows = @ + 1, !.sum = sum, !.odd = odd]
      BY Zenon DEF Copy!AddRow
    <3>2. sum = [t.sum EXCEPT ![o].times = @ + 1]
      BY <1>7, <2>1, Zenon
    <3> HIDE DEF u, sum, odd
    <3>3. u.sum = sum
      BY <1>2, <3>1
    <3> QED
      BY <3>2, <3>3
  <2>3. o \in DOMAIN t.sum /\ t.sum[o].row = row /\ row \in N /\ M = N
    BY <1>1, <1>3
  <2>4. /\ DOMAIN u.sum = DOMAIN t.sum
        /\ \A i \in DOMAIN t.sum : /\ u.sum[i].row = t.sum[i].row
                                   /\ u.sum[i].times = IF i = o THEN t.sum[i].times + 1 ELSE t.sum[i].times
                                   /\ u.sum[i] \in [row : M, times : Nat]
    BY <1>3, <2>2, <2>3
  <2>5. u.sum \in Seq([row : M, times : Nat])
    <3>1. [t.sum[o] EXCEPT !.times = @ + 1] \in [row : M, times : Nat]
      BY <1>3, <2>3
    <3> QED
      BY <1>2, <2>2, <2>3, <3>1, ExceptOf
  <2>6. \A i \in DOMAIN t.sum : i # o => t.sum[i].row # row
    BY <1>2, <2>3
  <2>7. \A i \in DOMAIN u.sum : u.sum[i].times = E(u.sum[i].row)
    <3> HIDE DEF u
    <3> SUFFICES ASSUME NEW i \in DOMAIN t.sum PROVE u.sum[i].times = E(t.sum[i].row)
      BY <2>4
    <3>1. t.sum[i].times = C(t.sum[i].row) /\ E(t.sum[i].row) = IF t.sum[i].row = row THEN C(t.sum[i].row) + 1 ELSE C(t.sum[i].row)
      BY <1>1, <1>2
    <3>2. u.sum[i].times = IF i = o THEN t.sum[i].times + 1 ELSE t.sum[i].times
      BY <2>4
    <3> QED
      BY <2>3, <2>6, <3>1, <3>2
  <2>8. \A i, j \in DOMAIN u.sum : u.sum[i].row = u.sum[j].row => i = j
    <3> HIDE DEF u
    <3> QED
      BY <1>2, <2>4
  <2>9. \A r \in M : \E i \in DOMAIN u.sum : u.sum[i].row = r
    <3> HIDE DEF u
    <3> QED
      BY <1>2, <2>3, <2>4
  <2> HIDE DEF u
  <2>10. Counted(u, header, lines, a, k + 1)
    BY <1>4, <1>5, <2>5, <2>7, <2>8, <2>9 DEF Counted, M, E
  <2> QED
    BY <2>10 DEF u, row
<1> QED
  BY <1>6, <1>7

\* The fingerprint holds how many the lines are and how often each is there, not their order.
LEMMA ResultCounts ==
  ASSUME NEW header, NEW lines, NEW a \in Nat, NEW k \in Nat, NEW t, Counted(t, header, lines, a, k)
  PROVE  Copy!Result(t) = FingerprintOf(header, lines, a, k)
<1> DEFINE N == Among(lines, a, k)
           C(r) == Times(lines, a, k, r)
           S == {[row |-> r, times |-> C(r)] : r \in N}
<1>1. \A i \in DOMAIN t.sum : t.sum[i] = [row |-> t.sum[i].row, times |-> C(t.sum[i].row)] /\ t.sum[i].row \in N
  <2> TAKE i \in DOMAIN t.sum
  <2> DEFINE R == [row : N, times : Nat]
  <2>1. t.sum \in Seq(R) /\ t.sum[i].times = C(t.sum[i].row)
    BY DEF Counted
  <2>2. t.sum[i] \in R
    <3> HIDE DEF R
    <3> QED
      BY <2>1, OfSeq
  <2> HIDE DEF N, C
  <2> QED
    BY <2>1, <2>2
<1>2. \A r \in N : \E i \in DOMAIN t.sum : t.sum[i].row = r
  BY DEF Counted
<1>3. Copy!ToSet(t.sum) = S
  <2>1. Copy!ToSet(t.sum) = {t.sum[i] : i \in DOMAIN t.sum}
    BY DEF Copy!ToSet
  <2>2. \A x : x \in S <=> x \in {t.sum[i] : i \in DOMAIN t.sum}
    <3> HIDE DEF N, C
    <3>1. ASSUME NEW r \in N PROVE [row |-> r, times |-> C(r)] \in {t.sum[i] : i \in DOMAIN t.sum}
      BY <1>1, <1>2
    <3>2. ASSUME NEW i \in DOMAIN t.sum PROVE t.sum[i] \in S
      BY <1>1
    <3> QED
      BY <3>1, <3>2
  <2> QED
    BY <2>1, <2>2
<1> QED
  BY <1>3 DEF Counted, Copy!Result, FingerprintOf

\* The sink between two tables, before table i; n fingerprints are due in all.
Waiting(s, fps, i) ==
  /\ DOMAIN s = {"fps", "index", "rowsLeft", "current", "awaitingEnd", "complete", "failed", "gate"}
  /\ s.fps = fps /\ s.index = i /\ s.current = <<>> /\ s.rowsLeft = 0
  /\ s.awaitingEnd = FALSE /\ s.complete = FALSE /\ s.failed = FALSE /\ s.gate = "shut"

\* The sink in table i, whose BEGIN was line b, after line k.
Reading(s, fps, i, lines, b, k) ==
  /\ DOMAIN s = {"fps", "index", "rowsLeft", "current", "awaitingEnd", "complete", "failed", "gate"}
  /\ s.fps = fps /\ s.index = i /\ s.rowsLeft \in Nat /\ s.rowsLeft = fps[i].rows - (k - b)
  /\ \E t : s.current = <<t>> /\ Counted(t, fps[i].header, lines, b, k)
  /\ s.awaitingEnd = TRUE /\ s.complete = FALSE /\ s.failed = FALSE /\ s.gate = "shut"

\* The gate is open, and the sink has accepted everything so far.
Opened(s) == {"failed", "gate"} \subseteq DOMAIN s /\ s.gate = "open" /\ s.complete = TRUE /\ s.failed = FALSE

\* Nothing can open the gate any more.
Refused(s) == s.gate = "cancelled" /\ s.failed = TRUE

\* The markers are different, and none of them is an empty line.
LEMMA MarkersDiffer ==
  ASSUME NEW i, NEW j
  PROVE  /\ Copy!Marker("BEGIN", i) # Copy!Blank /\ Copy!Marker("BEGIN", i) # Copy!Done
         /\ Copy!Marker("END", i) # Copy!Blank /\ Copy!Marker("END", i) # Copy!Done
         /\ Copy!Marker("BEGIN", i) # Copy!Marker("END", j) /\ Copy!Done # Copy!Blank
<1>1. \A p, q, x, y : Copy!Line(p, x) = Copy!Line(q, y) => p = q
  BY DEF Copy!Line
<1>2. "BEGIN" # "END" /\ "BEGIN" # "blank" /\ "BEGIN" # "DONE" /\ "END" # "blank" /\ "END" # "DONE" /\ "DONE" # "blank"
  OBVIOUS
<1> QED
  BY <1>1, <1>2, Zenon DEF Copy!Marker, Copy!Blank, Copy!Done

\* Before the first table and its first line nothing but a marker or an empty line is heard.
LEMMA WaitingStep ==
  ASSUME NEW fps, NEW i \in Nat \ {0}, NEW lines, NEW k \in Nat, NEW s, Waiting(s, fps, i),
         Len(fps) \in Nat, i <= Len(fps) => fps[i].rows \in Nat
  PROVE  LET line == lines[k + 1]
             next == Copy!ProcessLine(s, line)
         IN IF i = 1 /\ line = Copy!Blank THEN next = s
            ELSE IF i <= Len(fps)
            THEN IF line = Copy!Marker("BEGIN", i - 1) THEN Reading(next, fps, i, lines, k + 1, k + 1)
                 ELSE Refused(next)
            ELSE IF line = Copy!Done THEN Opened(next) ELSE Refused(next)
<1> DEFINE line == lines[k + 1]
           next == Copy!ProcessLine(s, line)
<1>1. CASE i = 1 /\ line = Copy!Blank
  BY <1>1, Zenon DEF Waiting, Copy!ProcessLine
<1>2. CASE ~(i = 1 /\ line = Copy!Blank) /\ i <= Len(fps)
  <2>1. next = Copy!BeginTable(s, line)
    <3>1. s.index <= Len(s.fps)
      BY <1>2, Zenon DEF Waiting
    <3> QED
      BY <1>2, <3>1, Zenon DEF Waiting, Copy!ProcessLine
  <2>2. CASE line # Copy!Marker("BEGIN", i - 1)
    <3>1. next = Copy!Reject(s)
      BY <2>1, <2>2, Zenon DEF Copy!BeginTable, Waiting
    <3> QED
      BY <1>2, <2>2, <3>1 DEF Refused, Copy!Reject, Waiting
  <2>3. CASE line = Copy!Marker("BEGIN", i - 1)
    <3> DEFINE t == Copy!Table(fps[i].header)
    <3>1. Counted(t, fps[i].header, lines, k + 1, k + 1)
      BY CountedStart
    <3>2. next = [s EXCEPT !.current = <<t>>, !.awaitingEnd = TRUE, !.rowsLeft = fps[i].rows]
      BY <2>1, <2>3, Zenon DEF Copy!BeginTable, Waiting
    <3> HIDE DEF t
    <3>3. Reading(next, fps, i, lines, k + 1, k + 1)
      BY <1>2, <3>1, <3>2 DEF Reading, Waiting
    <3> QED
      BY <1>2, <2>3, <3>3
  <2> QED
    BY <2>2, <2>3
<1>3. CASE ~(i = 1 /\ line = Copy!Blank) /\ ~(i <= Len(fps))
  <2>1. next = IF line # Copy!Done THEN Copy!Reject(s) ELSE [s EXCEPT !.complete = TRUE, !.gate = "open"]
    <3>1. ~(s.index <= Len(s.fps))
      BY <1>3, Zenon DEF Waiting
    <3> QED
      BY <1>3, <3>1, Zenon DEF Waiting, Copy!ProcessLine
  <2>2. IF line = Copy!Done THEN Opened(next) ELSE Refused(next)
    BY <2>1 DEF Opened, Refused, Copy!Reject, Waiting
  <2> QED
    BY <1>3, <2>2
<1> QED
  BY <1>1, <1>2, <1>3

\* In a table its rows are counted, whatever they read like; then its END and its
\* fingerprint have to be right.
LEMMA ReadingStep ==
  ASSUME NEW fps, NEW i, NEW lines, NEW b \in Nat, NEW k \in Nat, b <= k,
         NEW s, Reading(s, fps, i, lines, b, k), fps[i].rows \in Nat
  PROVE  LET line == lines[k + 1]
             next == Copy!ProcessLine(s, line)
         IN IF k - b < fps[i].rows THEN Reading(next, fps, i, lines, b, k + 1)
            ELSE IF line = Copy!Marker("END", i - 1) /\ FingerprintOf(fps[i].header, lines, b, k) = fps[i]
            THEN Waiting(next, fps, i + 1) ELSE Refused(next)
<1> DEFINE line == lines[k + 1]
           next == Copy!ProcessLine(s, line)
<1>1. PICK t : s.current = <<t>> /\ Counted(t, fps[i].header, lines, b, k)
  BY DEF Reading
<1>2. <<t>> # <<>> /\ <<t>>[1] = t
  OBVIOUS
<1>3. CASE k - b < fps[i].rows
  <2> DEFINE u == Copy!AddRow(t, line)
  <2>1. s.rowsLeft > 0
    BY <1>3 DEF Reading
  <2>2. next = [s EXCEPT !.current = <<Copy!AddRow(@[1], line)>>, !.rowsLeft = @ - 1]
    BY <1>1, <1>2, <2>1, Zenon DEF Reading, Copy!ProcessLine
  <2>3. Counted(u, fps[i].header, lines, b, k + 1)
    BY <1>1, CountedStep
  <2>4. next = [s EXCEPT !.current = <<u>>, !.rowsLeft = @ - 1]
    BY <1>1, <2>2
  <2> HIDE DEF u, next
  <2>5. Reading(next, fps, i, lines, b, k + 1)
    BY <1>3, <2>1, <2>3, <2>4 DEF Reading
  <2> QED
    BY <1>3, <2>5 DEF next
<1>4. CASE ~(k - b < fps[i].rows)
  <2>1. ~(s.rowsLeft > 0) /\ s.rowsLeft = 0
    BY <1>4 DEF Reading
  <2>2. next = Copy!CompareTable(s, line)
    BY <1>1, <1>2, <2>1, Zenon DEF Reading, Copy!ProcessLine
  <2>3. Copy!Result(s.current[1]) = FingerprintOf(fps[i].header, lines, b, k)
    BY <1>1, <1>2, ResultCounts
  <2>4. next = IF line = Copy!Marker("END", i - 1) /\ FingerprintOf(fps[i].header, lines, b, k) = fps[i]
               THEN [s EXCEPT !.index = @ + 1, !.current = <<>>, !.awaitingEnd = FALSE]
               ELSE Copy!Reject(s)
    BY <2>2, <2>3, Zenon DEF Copy!CompareTable, Reading
  <2> DEFINE same == FingerprintOf(fps[i].header, lines, b, k) = fps[i]
  <2> HIDE DEF same, next
  <2>5. IF line = Copy!Marker("END", i - 1) /\ same THEN Waiting(next, fps, i + 1) ELSE Refused(next)
    BY <2>1, <2>4 DEF Waiting, Refused, Reading, Copy!Reject, same
  <2> QED
    BY <1>4, <2>5 DEF same, next
<1> QED
  BY <1>3, <1>4

\* The gate obeys its first order only.
LEMMA LastStep ==
  ASSUME NEW s, NEW line
  PROVE  /\ Refused(s) => Copy!ProcessLine(s, line) = s
         /\ s.failed = TRUE => Copy!ProcessLine(s, line) = s
         /\ Opened(s) => LET next == Copy!ProcessLine(s, line)
                         IN next.gate = s.gate /\ next.failed = TRUE
<1>1. s.failed = TRUE => Copy!ProcessLine(s, line) = s
  BY Zenon DEF Copy!ProcessLine
<1>2. ASSUME Opened(s) PROVE Copy!ProcessLine(s, line) = Copy!Reject(s)
  BY <1>2, Zenon DEF Copy!ProcessLine, Opened
<1> QED
  BY <1>1, <1>2 DEF Refused, Opened, Copy!Reject

\* The lines from b up to before e are what table i must answer.
TableAnswer(fp, i, output, b, e) ==
  /\ output[b] = Copy!Marker("BEGIN", i - 1)
  /\ e = b + fp.rows + 2 /\ output[e - 1] = Copy!Marker("END", i - 1)
  /\ FingerprintOf(fp.header, output, b, e - 2) = fp

\* The first i - 1 tables have answered, table j from line start[j] on.
AnswersUpTo(fps, output, start, i) ==
  /\ start \in [1 .. Len(fps) + 1 -> Nat \ {0}]
  /\ \A j \in 1 .. start[1] - 1 : output[j] = Copy!Blank
  /\ \A j \in 1 .. i - 1 : TableAnswer(fps[j], j, output, start[j], start[j + 1])

\* All tables have, and then DONE was printed.
Answer(fps, output, start) ==
  /\ AnswersUpTo(fps, output, start, Len(fps) + 1)
  /\ start[Len(fps) + 1] <= Len(output) /\ output[start[Len(fps) + 1]] = Copy!Done

Fingerprints(fps) == Len(fps) \in Nat /\ \A i \in 1 .. Len(fps) : fps[i].rows \in Nat

\* The states the sink goes through.
SinkStates(fps, output, sink) ==
  /\ sink[0] = Copy!Sink(fps)
  /\ \A i \in 1 .. Len(output) : sink[i] = Copy!ProcessLine(sink[i - 1], output[i])

\* The states of the sink exist, and the last of them is the verdict.
LEMMA JudgeSteps ==
  ASSUME NEW fps, NEW output, Len(output) \in Nat
  PROVE  \E sink : SinkStates(fps, output, sink) /\ Copy!Judge(fps, output) = sink[Len(output)]
<1> DEFINE n     == Len(output)
           Is(f, k) == f = [i \in 0 .. k |-> IF i = 0 THEN Copy!Sink(fps) ELSE Copy!ProcessLine(f[i - 1], output[i])]
           S     == {k \in Nat : \E f : Is(f, k)}
<1>1. 0 \in S
  <2> DEFINE f == [i \in 0 .. 0 |-> Copy!Sink(fps)]
  <2>1. Is(f, 0)
    OBVIOUS
  <2> QED
    BY <2>1
<1>2. ASSUME NEW k \in Nat, k \in S PROVE k + 1 \in S
  <2> PICK f : Is(f, k)
    BY <1>2
  <2> DEFINE P(x, i) == Copy!ProcessLine(x, output[i])
             first   == Copy!Sink(fps)
             g == [i \in 0 .. k + 1 |-> IF i = k + 1 THEN P(f[k], k + 1) ELSE f[i]]
             h == [i \in 0 .. k + 1 |-> IF i = 0 THEN first ELSE P(g[i - 1], i)]
  <2>0. f = [i \in 0 .. k |-> IF i = 0 THEN first ELSE P(f[i - 1], i)]
    OBVIOUS
  <2> HIDE DEF P, first
  <2>1. \A i \in 0 .. k + 1 : g[i] = h[i]
    <3> TAKE i \in 0 .. k + 1
    <3>1. CASE i = k + 1
      BY <3>1
    <3>2. CASE i = 0
      BY <2>0, <3>2
    <3>3. CASE i \in 1 .. k
      <4>1. g[i] = f[i] /\ g[i - 1] = f[i - 1] /\ h[i] = P(g[i - 1], i)
        BY <3>3
      <4>2. f[i] = P(f[i - 1], i)
        BY <2>0, <3>3
      <4> QED
        BY <4>1, <4>2
    <3> QED
      BY <3>1, <3>2, <3>3
  <2>2. DOMAIN g = 0 .. k + 1 /\ DOMAIN h = 0 .. k + 1 /\ g = [i \in DOMAIN g |-> g[i]] /\ h = [i \in DOMAIN h |-> h[i]]
    OBVIOUS
  <2> HIDE DEF g
  <2>3. g = h
    <3> HIDE DEF h
    <3> QED
      BY <2>1, <2>2
  <2>4. Is(g, k + 1)
    BY <2>3 DEF P, first
  <2> HIDE DEF Is
  <2> QED
    BY <2>4
<1>3. n \in S
  <2> HIDE DEF S
  <2> QED
    BY <1>1, <1>2, Induction
<1> DEFINE sink == CHOOSE f : Is(f, n)
<1>4. Is(sink, n)
  BY <1>3, Zenon
<1>5. Copy!Judge(fps, output) = sink[n]
  BY Zenon DEF Copy!Judge
<1>6. SinkStates(fps, output, sink)
  <2> DEFINE P(x, i) == Copy!ProcessLine(x, output[i])
             first   == Copy!Sink(fps)
  <2>1. sink = [i \in 0 .. n |-> IF i = 0 THEN first ELSE P(sink[i - 1], i)]
    BY <1>4
  <2> HIDE DEF P, first, sink, n
  <2>2. sink[0] = first /\ \A i \in 1 .. n : sink[i] = P(sink[i - 1], i)
    <3>1. n \in Nat
      BY DEF n
    <3> QED
      BY <2>1, <3>1
  <2> QED
    BY <2>2 DEF P, first, n, SinkStates
<1> QED
  BY <1>5, <1>6

\* After line k the sink has heard a part of an answer, all of it, or something wrong.
Heard(fps, output, s, k) ==
  \/ \E start : \E i \in 1 .. Len(fps) + 1 :
       Waiting(s, fps, i) /\ AnswersUpTo(fps, output, start, i) /\ start[i] = k + 1
  \/ \E start : \E i \in 1 .. Len(fps) :
       /\ Reading(s, fps, i, output, start[i], k) /\ AnswersUpTo(fps, output, start, i)
       /\ output[start[i]] = Copy!Marker("BEGIN", i - 1) /\ start[i] <= k
  \/ Opened(s) /\ \E start : Answer(fps, output, start) /\ start[Len(fps) + 1] = k
  \/ s.failed = TRUE /\ s.gate = "open" /\ \E start : Answer(fps, output, start)
  \/ Refused(s)

\* Before the first line the sink has heard the beginning of an answer.
LEMMA HeardFirst ==
  ASSUME NEW fps, NEW output, Fingerprints(fps) PROVE Heard(fps, output, Copy!Sink(fps), 0)
<1> DEFINE start == [i \in 1 .. Len(fps) + 1 |-> 1]
<1>1. AnswersUpTo(fps, output, start, 1) /\ start[1] = 0 + 1 /\ 1 \in 1 .. Len(fps) + 1
  BY DEF AnswersUpTo, Fingerprints
<1>2. Waiting(Copy!Sink(fps), fps, 1)
  BY DEF Waiting, Copy!Sink
<1> QED
  BY <1>1, <1>2 DEF Heard

\* Every line keeps what the sink has heard.
LEMMA HeardStep ==
  ASSUME NEW fps, NEW output, Fingerprints(fps), NEW k \in Nat, Len(output) \in Nat, k + 1 <= Len(output),
         NEW s, Heard(fps, output, s, k)
  PROVE  Heard(fps, output, Copy!ProcessLine(s, output[k + 1]), k + 1)
<1> DEFINE n    == Len(fps)
           line == output[k + 1]
           next == Copy!ProcessLine(s, line)
<1>0. n \in Nat /\ \A i \in 1 .. n : fps[i].rows \in Nat
  BY DEF Fingerprints
<1>1. ASSUME NEW start, NEW i \in 1 .. n + 1, Waiting(s, fps, i),
             AnswersUpTo(fps, output, start, i), start[i] = k + 1
      PROVE  Heard(fps, output, next, k + 1)
  <2>1. i \in Nat \ {0} /\ (i <= n => fps[i].rows \in Nat)
    BY <1>0
  <2>2. CASE i = 1 /\ line = Copy!Blank
    <3> DEFINE later == [start EXCEPT ![1] = k + 2]
    <3>1. AnswersUpTo(fps, output, later, 1) /\ later[1] = (k + 1) + 1
      <4>1. start \in [1 .. n + 1 -> Nat \ {0}] /\ \A j \in 1 .. k : output[j] = Copy!Blank
        BY <1>1, <2>2 DEF AnswersUpTo
      <4>2. \A j \in 1 .. k + 1 : output[j] = Copy!Blank
        <5>1. \A j \in 1 .. k + 1 : j \in 1 .. k \/ j = k + 1
          OBVIOUS
        <5> QED
          BY <2>2, <4>1, <5>1
      <4>3. later \in [1 .. n + 1 -> Nat \ {0}] /\ later[1] = k + 2
        BY <1>0, <4>1
      <4> QED
        BY <4>2, <4>3 DEF AnswersUpTo
    <3>2. next = s
      BY <1>1, <2>1, <2>2, WaitingStep, <1>0
    <3> HIDE DEF later, next
    <3>3. 1 \in 1 .. n + 1 /\ Waiting(next, fps, 1)
      BY <1>0, <1>1, <2>2, <3>2
    <3> QED
      BY <3>1, <3>3 DEF Heard
  <2>3. CASE ~(i = 1 /\ line = Copy!Blank) /\ i <= n
    <3>1. CASE line = Copy!Marker("BEGIN", i - 1)
      <4>1. Reading(next, fps, i, output, k + 1, k + 1)
        BY <1>0, <1>1, <2>1, <2>3, <3>1, WaitingStep
      <4> HIDE DEF next
      <4> QED
        BY <1>1, <2>3, <3>1, <4>1 DEF Heard
    <3>2. CASE line # Copy!Marker("BEGIN", i - 1)
      <4>1. Refused(next)
        BY <1>0, <1>1, <2>1, <2>3, <3>2, WaitingStep
      <4> QED
        BY <4>1 DEF Heard
    <3> QED
      BY <3>1, <3>2
  <2>4. CASE ~(i = 1 /\ line = Copy!Blank) /\ ~(i <= n)
    <3>1. i = n + 1
      BY <1>0, <2>4
    <3>2. CASE line = Copy!Done
      <4>1. Opened(next)
        BY <1>0, <1>1, <2>1, <2>4, <3>2, WaitingStep
      <4>2. Answer(fps, output, start)
        BY <1>1, <3>1, <3>2 DEF Answer
      <4> HIDE DEF next
      <4> QED
        BY <1>1, <3>1, <4>1, <4>2 DEF Heard
    <3>3. CASE line # Copy!Done
      <4>1. Refused(next)
        BY <1>0, <1>1, <2>1, <2>4, <3>3, WaitingStep
      <4> QED
        BY <4>1 DEF Heard
    <3> QED
      BY <3>2, <3>3
  <2> QED
    BY <2>2, <2>3, <2>4
<1>2. ASSUME NEW start, NEW i \in 1 .. n, Reading(s, fps, i, output, start[i], k),
             AnswersUpTo(fps, output, start, i), output[start[i]] = Copy!Marker("BEGIN", i - 1), start[i] <= k
      PROVE  Heard(fps, output, next, k + 1)
  <2> DEFINE b == start[i]
             fp == fps[i]
             same == FingerprintOf(fp.header, output, b, k) = fp
  <2>1. b \in Nat /\ fp.rows \in Nat /\ start \in [1 .. n + 1 -> Nat \ {0}]
    BY <1>0, <1>2 DEF AnswersUpTo
  <2>2. IF k - b < fp.rows THEN Reading(next, fps, i, output, b, k + 1)
        ELSE IF line = Copy!Marker("END", i - 1) /\ same
        THEN Waiting(next, fps, i + 1) ELSE Refused(next)
    BY <1>2, <2>1, ReadingStep
  <2>3. CASE k - b < fp.rows
    <3> HIDE DEF next
    <3>1. Reading(next, fps, i, output, b, k + 1) /\ b <= k + 1
      BY <1>2, <2>1, <2>2, <2>3
    <3> QED
      BY <1>2, <3>1 DEF Heard
  <2>4. CASE ~(k - b < fp.rows) /\ line = Copy!Marker("END", i - 1) /\ same
    <3>1. k - b = fp.rows
      <4>1. fp.rows - (k - b) \in Nat
        BY <1>2 DEF Reading
      <4> QED
        BY <2>1, <2>4, <4>1
    <3> DEFINE later == [start EXCEPT ![i + 1] = k + 2]
    <3>2. /\ later \in [1 .. n + 1 -> Nat \ {0}] /\ later[i + 1] = k + 2
          /\ \A j \in 1 .. i : later[j] = start[j]
      BY <1>0, <2>1
    <3>3. AnswersUpTo(fps, output, later, i + 1)
      <4>0. 1 \in 1 .. i /\ (i + 1) - 1 = i /\ later[1] = start[1]
        BY <3>2
      <4>1. \A j \in 1 .. i - 1 : j \in 1 .. i /\ j + 1 \in 1 .. i
        OBVIOUS
      <4>2. \A j \in 1 .. i - 1 : TableAnswer(fps[j], j, output, later[j], later[j + 1])
        BY <1>2, <3>2, <4>1 DEF AnswersUpTo
      <4>3. TableAnswer(fps[i], i, output, later[i], later[i + 1])
        <5>1. later[i] = b /\ k + 2 = b + fp.rows + 2 /\ (k + 2) - 1 = k + 1 /\ (k + 2) - 2 = k
          BY <2>1, <3>1, <3>2
        <5> QED
          BY <1>2, <2>4, <3>2, <5>1 DEF TableAnswer
      <4>4. \A j \in 1 .. i : j \in 1 .. i - 1 \/ j = i
        OBVIOUS
      <4> HIDE DEF later
      <4> QED
        BY <1>2, <3>2, <4>0, <4>2, <4>3, <4>4 DEF AnswersUpTo
    <3>4. Waiting(next, fps, i + 1) /\ i + 1 \in 1 .. n + 1 /\ later[i + 1] = (k + 1) + 1
      BY <1>0, <2>2, <2>4, <3>2
    <3> HIDE DEF later, next
    <3> QED
      BY <3>3, <3>4 DEF Heard
  <2>5. CASE ~(k - b < fp.rows) /\ ~(line = Copy!Marker("END", i - 1) /\ same)
    BY <2>2, <2>5 DEF Heard
  <2> QED
    BY <2>3, <2>4, <2>5
<1>3. ASSUME Opened(s), NEW start, Answer(fps, output, start) PROVE Heard(fps, output, next, k + 1)
  <2>1. next.gate = "open" /\ next.failed = TRUE
    BY <1>3, LastStep DEF Opened
  <2> QED
    BY <1>3, <2>1 DEF Heard
<1>4. ASSUME s.failed = TRUE, s.gate = "open", NEW start, Answer(fps, output, start)
      PROVE  Heard(fps, output, next, k + 1)
  BY <1>4, LastStep DEF Heard
<1>5. ASSUME Refused(s) PROVE Heard(fps, output, next, k + 1)
  <2>1. next = s
    BY <1>5, LastStep
  <2> HIDE DEF next
  <2> QED
    BY <1>5, <2>1 DEF Heard
<1> HIDE DEF next
<1>6. Heard(fps, output, next, k + 1)
  BY <1>1, <1>2, <1>3, <1>4, <1>5 DEF Heard
<1> QED
  BY <1>6 DEF next

\* Numbers that do not fall from one place to the next are in order.
LEMMA InOrder ==
  ASSUME NEW n \in Nat, NEW f \in [1 .. n + 1 -> Nat], \A i \in 1 .. n : f[i] <= f[i + 1]
  PROVE  \A i, j \in 1 .. n + 1 : i <= j => f[i] <= f[j]
<1> DEFINE S == {d \in Nat : \A i \in 1 .. n + 1 : i + d <= n + 1 => f[i] <= f[i + d]}
<1>1. 0 \in S
  OBVIOUS
<1>2. ASSUME NEW d \in Nat, d \in S PROVE d + 1 \in S
  <2> SUFFICES ASSUME NEW i \in 1 .. n + 1, i + (d + 1) <= n + 1 PROVE f[i] <= f[i + (d + 1)]
    OBVIOUS
  <2>1. i + d \in 1 .. n /\ i + (d + 1) = (i + d) + 1 /\ (i + d) + 1 \in 1 .. n + 1 /\ i + d \in 1 .. n + 1
    OBVIOUS
  <2>2. f[i] <= f[i + d] /\ f[i + d] <= f[(i + d) + 1]
    BY <1>2, <2>1
  <2>3. f[i] \in Nat /\ f[i + d] \in Nat /\ f[(i + d) + 1] \in Nat
    BY <2>1
  <2> QED
    BY <2>1, <2>2, <2>3
<1>3. \A d \in Nat : d \in S
  <2> HIDE DEF S
  <2> QED
    BY <1>1, <1>2, Induction
<1> SUFFICES ASSUME NEW i \in 1 .. n + 1, NEW j \in 1 .. n + 1, i <= j PROVE f[i] <= f[j]
  OBVIOUS
<1>4. j - i \in Nat /\ i + (j - i) = j /\ i + (j - i) <= n + 1
  OBVIOUS
<1> QED
  BY <1>3, <1>4

\* The tables of an answer come one behind the other.
LEMMA AnswerInOrder ==
  ASSUME NEW fps, NEW output, NEW start, Fingerprints(fps), Answer(fps, output, start)
  PROVE  \A i \in 1 .. Len(fps) + 1 : start[i] \in Nat /\ start[1] <= start[i] /\ start[i] <= start[Len(fps) + 1]
<1> DEFINE n == Len(fps)
<1>1. n \in Nat /\ start \in [1 .. n + 1 -> Nat]
  BY DEF Fingerprints, Answer, AnswersUpTo
<1>2. \A i \in 1 .. n : start[i] <= start[i + 1]
  <2> TAKE i \in 1 .. n
  <2>1. start[i + 1] = start[i] + fps[i].rows + 2 /\ fps[i].rows \in Nat
    BY <1>1 DEF Answer, AnswersUpTo, TableAnswer, Fingerprints
  <2>2. start[i] \in Nat
    BY <1>1
  <2> QED
    BY <2>1, <2>2
<1> HIDE DEF n
<1>3. \A i, j \in 1 .. n + 1 : i <= j => start[i] <= start[j]
  BY <1>1, <1>2, InOrder
<1> QED
  BY <1>1, <1>3 DEF n

\* What an answer must be, the sink accepts.
LEMMA AnswerAccepted ==
  ASSUME NEW fps, NEW output, NEW start, NEW sink, Fingerprints(fps), Len(output) \in Nat,
         Answer(fps, output, start), SinkStates(fps, output, sink)
  PROVE  Opened(sink[start[Len(fps) + 1]])
<1> DEFINE n == Len(fps)
           last == start[n + 1]
           Arrived(i) == Waiting(sink[start[i] - 1], fps, i)
<1>1. /\ n \in Nat /\ start \in [1 .. n + 1 -> Nat \ {0}] /\ last <= Len(output)
      /\ \A i \in 1 .. n : fps[i].rows \in Nat
      /\ \A j \in 1 .. start[1] - 1 : output[j] = Copy!Blank
      /\ \A i \in 1 .. n : TableAnswer(fps[i], i, output, start[i], start[i + 1])
      /\ output[last] = Copy!Done
  BY DEF Fingerprints, Answer, AnswersUpTo
<1>2. \A i \in 1 .. n + 1 : start[i] \in Nat \ {0} /\ start[1] <= start[i] /\ start[i] <= last
  BY <1>1, AnswerInOrder
<1>3. \A k \in Nat : k + 1 <= Len(output) => sink[k + 1] = Copy!ProcessLine(sink[k], output[k + 1])
  <2> TAKE k \in Nat
  <2> HAVE k + 1 <= Len(output)
  <2>1. k + 1 \in 1 .. Len(output) /\ (k + 1) - 1 = k
    OBVIOUS
  <2> QED
    BY <2>1 DEF SinkStates
<1> HIDE DEF n, last
<1>4. Arrived(1)
  <2> DEFINE S == {k \in Nat : k <= start[1] - 1 => Waiting(sink[k], fps, 1)}
  <2>0. 1 \in 1 .. n + 1 /\ start[1] \in Nat \ {0} /\ start[1] <= last /\ last \in Nat
    BY <1>1, <1>2 DEF last
  <2>1. 0 \in S
    BY DEF SinkStates, Waiting, Copy!Sink
  <2>2. ASSUME NEW k \in Nat, k \in S PROVE k + 1 \in S
    <3> SUFFICES ASSUME k + 1 <= start[1] - 1 PROVE Waiting(sink[k + 1], fps, 1)
      OBVIOUS
    <3>1. k + 1 \in 1 .. start[1] - 1 /\ k + 1 <= Len(output) /\ k <= start[1] - 1
      BY <1>1, <2>0
    <3>2. Waiting(sink[k], fps, 1) /\ output[k + 1] = Copy!Blank /\ sink[k + 1] = Copy!ProcessLine(sink[k], output[k + 1])
      BY <1>1, <1>3, <2>2, <3>1
    <3>3. Copy!ProcessLine(sink[k], output[k + 1]) = sink[k]
      <4>1. 1 \in Nat \ {0} /\ (1 <= Len(fps) => fps[1].rows \in Nat) /\ Len(fps) \in Nat
        BY <1>1 DEF n
      <4> QED
        BY <3>2, <4>1, WaitingStep
    <3> QED
      BY <3>2, <3>3
  <2>3. \A k \in Nat : k \in S
    <3> HIDE DEF S
    <3> QED
      BY <2>1, <2>2, Induction
  <2> QED
    BY <2>0, <2>3
<1>5. ASSUME NEW i \in 1 .. n, Arrived(i) PROVE Arrived(i + 1)
  <2> DEFINE b    == start[i]
             fp   == fps[i]
             S    == {d \in Nat : d <= fp.rows => Reading(sink[b + d], fps, i, output, b, b + d)}
  <2>1. /\ i \in Nat \ {0} /\ i \in 1 .. n + 1 /\ i + 1 \in 1 .. n + 1 /\ b \in Nat \ {0} /\ fp.rows \in Nat
        /\ start[i + 1] = b + fp.rows + 2 /\ start[i + 1] <= last /\ last \in Nat
    <3>1. i \in 1 .. n + 1 /\ i + 1 \in 1 .. n + 1 /\ n + 1 \in 1 .. n + 1
      BY <1>1
    <3> QED
      BY <1>1, <1>2, <3>1 DEF TableAnswer, last
  <2>0. b + fp.rows + 2 <= Len(output)
    <3>1. last <= Len(output)
      BY <1>1
    <3> HIDE DEF b, fp
    <3> QED
      BY <2>1, <3>1
  <2>2. /\ output[b] = Copy!Marker("BEGIN", i - 1)
        /\ output[b + fp.rows + 1] = Copy!Marker("END", i - 1)
        /\ FingerprintOf(fp.header, output, b, b + fp.rows) = fp
    <3>1. (b + fp.rows + 2) - 1 = b + fp.rows + 1 /\ (b + fp.rows + 2) - 2 = b + fp.rows
      BY <2>1
    <3>2. TableAnswer(fp, i, output, b, b + fp.rows + 2)
      BY <1>1, <2>1
    <3> HIDE DEF b, fp
    <3> QED
      BY <3>1, <3>2 DEF TableAnswer
  <2>3. 0 \in S
    <3>1. b - 1 \in Nat /\ (b - 1) + 1 = b /\ b <= Len(output) /\ b + 0 = b
      <4> HIDE DEF b, fp
      <4> QED
        BY <2>0, <2>1
    <3>2. sink[b] = Copy!ProcessLine(sink[b - 1], output[b])
      BY <1>3, <3>1
    <3>3. output[(b - 1) + 1] = Copy!Marker("BEGIN", i - 1) /\ Copy!Marker("BEGIN", i - 1) # Copy!Blank
      BY <2>2, <3>1, MarkersDiffer
    <3>4. i <= Len(fps) /\ Len(fps) \in Nat
      BY <1>1 DEF n
    <3>5. Reading(Copy!ProcessLine(sink[b - 1], output[(b - 1) + 1]), fps, i, output, (b - 1) + 1, (b - 1) + 1)
      <4>1. Waiting(sink[b - 1], fps, i)
        BY <1>5
      <4> HIDE DEF b, fp
      <4> QED
        BY <2>1, <3>1, <3>3, <3>4, <4>1, WaitingStep DEF fp
    <3> QED
      BY <3>1, <3>2, <3>5
  <2>4. ASSUME NEW d \in Nat, d \in S PROVE d + 1 \in S
    <3> SUFFICES ASSUME d + 1 <= fp.rows PROVE Reading(sink[b + (d + 1)], fps, i, output, b, b + (d + 1))
      OBVIOUS
    <3>1. /\ b + (d + 1) = (b + d) + 1 /\ b + d \in Nat /\ b <= b + d /\ (b + d) - b < fp.rows
          /\ (b + d) + 1 <= Len(output) /\ d <= fp.rows
      <4> HIDE DEF b, fp
      <4> QED
        BY <2>0, <2>1
    <3>2. Reading(sink[b + d], fps, i, output, b, b + d)
      BY <2>4, <3>1
    <3>3. Reading(Copy!ProcessLine(sink[b + d], output[(b + d) + 1]), fps, i, output, b, (b + d) + 1)
      <4> HIDE DEF b
      <4> QED
        BY <2>1, <3>1, <3>2, ReadingStep
    <3> QED
      BY <1>3, <3>1, <3>3
  <2>5. \A d \in Nat : d \in S
    <3> HIDE DEF S
    <3> QED
      BY <2>3, <2>4, Induction
  <2> DEFINE k == b + fp.rows
  <2>6. Reading(sink[k], fps, i, output, b, k)
    <3>1. fp.rows \in Nat /\ fp.rows <= fp.rows
      BY <2>1
    <3>2. fp.rows \in S
      BY <2>5, <3>1
    <3> HIDE DEF b, fp
    <3> QED
      BY <3>1, <3>2
  <2>7. /\ k \in Nat /\ b <= k /\ ~(k - b < fp.rows) /\ k + 1 <= Len(output) /\ start[i + 1] - 1 = k + 1
        /\ k + 1 = b + fp.rows + 1
    <3> HIDE DEF b, fp
    <3> QED
      BY <2>0, <2>1
  <2>8. Waiting(Copy!ProcessLine(sink[k], output[k + 1]), fps, i + 1)
    <3>1. output[k + 1] = Copy!Marker("END", i - 1) /\ FingerprintOf(fp.header, output, b, k) = fp
      BY <2>2, <2>7
    <3> HIDE DEF k, b
    <3> QED
      BY <2>1, <2>6, <2>7, <3>1, ReadingStep
  <2> QED
    BY <1>3, <2>7, <2>8
<1>6. Arrived(n + 1)
  <2> DEFINE S == {i \in Nat : i + 1 <= n + 1 => Arrived(i + 1)}
  <2>1. 0 \in S
    BY <1>4
  <2>2. ASSUME NEW i \in Nat, i \in S PROVE i + 1 \in S
    <3> SUFFICES ASSUME (i + 1) + 1 <= n + 1 PROVE Arrived((i + 1) + 1)
      OBVIOUS
    <3>1. i + 1 \in 1 .. n /\ i + 1 <= n + 1
      BY <1>1
    <3>2. Arrived(i + 1)
      BY <2>2, <3>1
    <3> HIDE DEF Arrived
    <3> QED
      BY <1>5, <3>1, <3>2
  <2>3. \A i \in Nat : i \in S
    <3> HIDE DEF S
    <3> QED
      BY <2>1, <2>2, Induction
  <2> QED
    BY <1>1, <2>3
<1>7. /\ n + 1 \in Nat \ {0} /\ ~(n + 1 <= n) /\ last \in Nat \ {0} /\ last - 1 \in Nat /\ (last - 1) + 1 = last
      /\ Waiting(sink[last - 1], fps, n + 1)
  BY <1>1, <1>2, <1>6 DEF last
<1>8. Copy!Done # Copy!Blank
  BY MarkersDiffer
<1>9. Opened(Copy!ProcessLine(sink[last - 1], output[(last - 1) + 1]))
  BY <1>1, <1>7, <1>8, WaitingStep DEF n
<1>10. sink[last] = Copy!ProcessLine(sink[last - 1], output[(last - 1) + 1])
  BY <1>1, <1>3, <1>7
<1> QED
  BY <1>9, <1>10 DEF last, n

\* The sink opens the gate for an answer in which each table has its fingerprint, and for
\* no other; it is content if nothing follows (restore_fingerprint.go:132-189).
THEOREM SinkAccepts ==
  ASSUME NEW fps, NEW output, Fingerprints(fps), Len(output) \in Nat
  PROVE  LET sink == Copy!Judge(fps, output)
         IN /\ sink.gate = "open" <=> \E start : Answer(fps, output, start)
            /\ Copy!CloseSink(sink).failed = FALSE <=>
                 \E start : Answer(fps, output, start) /\ start[Len(fps) + 1] = Len(output)
            /\ Copy!CloseSink(sink).failed \in BOOLEAN
<1> DEFINE n == Len(output)
           m == Len(fps)
<1>1. PICK sink : SinkStates(fps, output, sink) /\ Copy!Judge(fps, output) = sink[n]
  BY JudgeSteps
<1>2. \A k \in Nat : k + 1 <= n => sink[k + 1] = Copy!ProcessLine(sink[k], output[k + 1])
  <2> TAKE k \in Nat
  <2> HAVE k + 1 <= n
  <2>1. k + 1 \in 1 .. n /\ (k + 1) - 1 = k
    OBVIOUS
  <2> QED
    BY <1>1, <2>1 DEF SinkStates
<1>3. Heard(fps, output, sink[n], n)
  <2> DEFINE S == {k \in Nat : k <= n => Heard(fps, output, sink[k], k)}
  <2>1. 0 \in S
    BY <1>1, HeardFirst DEF SinkStates
  <2>2. ASSUME NEW k \in Nat, k \in S PROVE k + 1 \in S
    BY <1>2, <2>2, HeardStep
  <2>3. \A k \in Nat : k \in S
    <3> HIDE DEF S
    <3> QED
      BY <2>1, <2>2, Induction
  <2> QED
    BY <2>3
<1>4. ASSUME NEW start, Answer(fps, output, start)
      PROVE  /\ sink[n].gate = "open"
             /\ start[m + 1] = n => Opened(sink[n])
  <2> DEFINE a == start[m + 1]
             Open(s) == s.gate = "open" /\ (Opened(s) \/ s.failed = TRUE)
             S == {d \in Nat : a + d <= n => Open(sink[a + d])}
  <2>1. Opened(sink[a])
    BY <1>1, <1>4, AnswerAccepted
  <2>2. a \in Nat /\ a <= n
    BY <1>4 DEF Answer, AnswersUpTo, Fingerprints
  <2> HIDE DEF a, Open
  <2>3. 0 \in S
    BY <2>1, <2>2 DEF Opened, Open
  <2>4. ASSUME NEW d \in Nat, d \in S PROVE d + 1 \in S
    <3> SUFFICES ASSUME a + (d + 1) <= n
                 PROVE  Open(sink[a + (d + 1)])
      OBVIOUS
    <3>1. a + d \in Nat /\ a + (d + 1) = (a + d) + 1 /\ (a + d) + 1 <= n /\ a + d <= n
      BY <2>2
    <3>2. sink[a + (d + 1)] = Copy!ProcessLine(sink[a + d], output[(a + d) + 1])
      BY <1>2, <3>1
    <3>3. Open(sink[a + d])
      BY <2>4, <3>1
    <3>4. CASE sink[a + d].failed = TRUE
      <4>1. Copy!ProcessLine(sink[a + d], output[(a + d) + 1]) = sink[a + d]
        BY <3>4, LastStep
      <4> QED
        BY <3>2, <3>3, <4>1
    <3>5. CASE Opened(sink[a + d])
      <4>1. sink[a + (d + 1)].gate = sink[a + d].gate /\ sink[a + (d + 1)].failed = TRUE
        <5> DEFINE x == sink[a + d]
                   y == Copy!ProcessLine(x, output[(a + d) + 1])
        <5>1. Opened(x) => y.gate = x.gate /\ y.failed = TRUE
          <6> HIDE DEF x
          <6> QED
            BY LastStep
        <5> QED
          BY <3>2, <3>5, <5>1
      <4> QED
        BY <3>5, <4>1 DEF Open, Opened
    <3> QED
      BY <3>3, <3>4, <3>5 DEF Open
  <2>5. \A d \in Nat : d \in S
    <3> HIDE DEF S
    <3> QED
      BY <2>3, <2>4, Induction
  <2>6. n - a \in Nat /\ a + (n - a) = n
    BY <2>2
  <2>7. sink[n].gate = "open"
    <3>1. Open(sink[a + (n - a)])
      BY <2>5, <2>6
    <3> QED
      BY <2>6, <3>1 DEF Open
  <2> QED
    BY <2>1, <2>7 DEF a
<1>5. sink[n].gate = "open" <=> \E start : Answer(fps, output, start)
  <2>1. ASSUME sink[n].gate = "open" PROVE \E start : Answer(fps, output, start)
    BY <1>3, <2>1 DEF Heard, Waiting, Reading, Refused
  <2> QED
    BY <1>4, <2>1
<1>6. Copy!CloseSink(sink[n]).failed = FALSE <=> \E start : Answer(fps, output, start) /\ start[m + 1] = n
  <2>1. ASSUME Copy!CloseSink(sink[n]).failed = FALSE
        PROVE  \E start : Answer(fps, output, start) /\ start[m + 1] = n
    <3>1. CASE \E start : \E i \in 1 .. Len(fps) + 1 : Waiting(sink[n], fps, i)
      BY <2>1, <3>1 DEF Waiting, Copy!CloseSink, Copy!Reject
    <3>2. CASE \E start : \E i \in 1 .. Len(fps) : Reading(sink[n], fps, i, output, start[i], n)
      BY <2>1, <3>2 DEF Reading, Copy!CloseSink, Copy!Reject
    <3>3. CASE sink[n].failed = TRUE
      BY <2>1, <3>3 DEF Copy!CloseSink
    <3> QED
      BY <1>3, <3>1, <3>2, <3>3 DEF Heard, Refused
  <2>2. ASSUME NEW start, Answer(fps, output, start), start[m + 1] = n
        PROVE  Copy!CloseSink(sink[n]).failed = FALSE
    BY <1>4, <2>2 DEF Opened, Copy!CloseSink
  <2> QED
    BY <2>1, <2>2
<1>7. Copy!CloseSink(sink[n]).failed \in BOOLEAN
  <2>1. CASE \E start : \E i \in 1 .. Len(fps) + 1 : Waiting(sink[n], fps, i)
    BY <2>1 DEF Waiting, Copy!CloseSink, Copy!Reject
  <2>2. CASE \E start : \E i \in 1 .. Len(fps) : Reading(sink[n], fps, i, output, start[i], n)
    BY <2>2 DEF Reading, Copy!CloseSink, Copy!Reject
  <2>3. CASE sink[n].failed = TRUE
    BY <2>3 DEF Copy!CloseSink
  <2>4. CASE Opened(sink[n])
    BY <2>4 DEF Opened, Copy!CloseSink
  <2> QED
    BY <1>3, <2>1, <2>2, <2>3, <2>4 DEF Heard, Refused
<1> QED
  BY <1>1, <1>5, <1>6, <1>7

-----------------------------------------------------------------------------
(* What the fingerprints mean.                                             *)

\* Two lists of lines are the same rows, each as often, in any order.
SameBag(m, a, k, lines, b, l) == \A r : Times(m, a, k, r) = Times(lines, b, l, r)

\* How often a row is among some lines.
LEMMA TimesMeans ==
  ASSUME NEW lines, NEW a \in Nat, NEW k \in Nat, NEW r
  PROVE  /\ Times(lines, a, k, r) \in Nat
         /\ Times(lines, a, k, r) = 0 <=> r \notin Among(lines, a, k)
<1> DEFINE S == {i \in a + 1 .. k : lines[i] = r}
<1>1. IsFiniteSet(a + 1 .. k) /\ S \in SUBSET (a + 1 .. k)
  BY FS_Interval
<1>2. IsFiniteSet(S)
  BY <1>1, FS_Subset
<1>3. S = {} <=> r \notin Among(lines, a, k)
  BY DEF Among
<1> HIDE DEF S
<1>4. Cardinality(S) \in Nat /\ (Cardinality(S) = 0 <=> S = {})
  BY <1>2, FS_CardinalityType, FS_EmptySet
<1> QED
  BY <1>3, <1>4 DEF Times, S

\* A bijection pairs the elements of two sets.
LEMMA BijectionMeans ==
  ASSUME NEW S, NEW T, NEW f
  PROVE  f \in Bijection(S, T) <=> /\ f \in [S -> T]
                                   /\ \A i, j \in S : f[i] = f[j] => i = j
                                   /\ \A j \in T : \E i \in S : f[i] = j
<1>1. f \in [S -> T] => DOMAIN f = S
  OBVIOUS
<1> QED
  BY <1>1 DEF Bijection, Injection, Surjection, IsInjective

\* As many lines, if each is there as often.
LEMMA SameBagSameLength ==
  ASSUME NEW m, NEW a \in Nat, NEW k \in Nat, a <= k, NEW lines, NEW b \in Nat, NEW l \in Nat, b <= l,
         SameBag(m, a, k, lines, b, l)
  PROVE  k - a = l - b
<1> DEFINE S == a + 1 .. k
           T == b + 1 .. l
           A(r) == {i \in S : m[i] = r}
           B(r) == {i \in T : lines[i] = r}
           f(r) == CHOOSE g : g \in Bijection(A(r), B(r))
           F    == [i \in S |-> f(m[i])[i]]
<1>0. IsFiniteSet(S) /\ IsFiniteSet(T)
  <2>1. a + 1 \in Int /\ k \in Int /\ b + 1 \in Int /\ l \in Int
    OBVIOUS
  <2>2. IsFiniteSet(a + 1 .. k) /\ IsFiniteSet(b + 1 .. l)
    BY ONLY <2>1, FS_Interval
  <2> QED
    BY <2>2
<1>1. \A r : f(r) \in Bijection(A(r), B(r))
  <2> TAKE r
  <2>1. IsFiniteSet(A(r)) /\ IsFiniteSet(B(r)) /\ Cardinality(A(r)) = Cardinality(B(r))
    <3>1. Times(m, a, k, r) = Times(lines, b, l, r)
      BY DEF SameBag
    <3>2. A(r) \in SUBSET S /\ B(r) \in SUBSET T
      OBVIOUS
    <3>3. IsFiniteSet(A(r)) /\ IsFiniteSet(B(r))
      <4> HIDE DEF S, T, A, B
      <4> QED
        BY <1>0, <3>2, FS_Subset
    <3> QED
      BY <3>1, <3>3 DEF Times
  <2>2. ExistsBijection(A(r), B(r))
    <3> HIDE DEF A, B
    <3> QED
      BY <2>1, FS_SameCardinalityBij
  <2> HIDE DEF A, B
  <2>3. \E g : g \in Bijection(A(r), B(r))
    BY <2>2 DEF ExistsBijection
  <2> QED
    BY <2>3, Zenon
<1> HIDE DEF f
<1>2. \A r : /\ f(r) \in [A(r) -> B(r)]
             /\ \A i, j \in A(r) : f(r)[i] = f(r)[j] => i = j
             /\ \A j \in B(r) : \E i \in A(r) : f(r)[i] = j
  <2> HIDE DEF A, B
  <2> QED
    BY <1>1, BijectionMeans
<1>3. \A i \in S : F[i] \in T /\ lines[F[i]] = m[i] /\ F[i] = f(m[i])[i] /\ i \in A(m[i])
  <2> TAKE i \in S
  <2>1. i \in A(m[i]) /\ F[i] = f(m[i])[i]
    OBVIOUS
  <2>2. f(m[i])[i] \in B(m[i])
    <3> HIDE DEF A, B
    <3> QED
      BY <1>2, <2>1
  <2> QED
    BY <2>1, <2>2
<1>4. \A i, j \in S : F[i] = F[j] => i = j
  <2> TAKE i, j \in S
  <2> HAVE F[i] = F[j]
  <2>1. m[i] = m[j] /\ j \in A(m[i]) /\ i \in A(m[i]) /\ f(m[i])[i] = f(m[i])[j]
    <3> HIDE DEF F, A, B, S, T
    <3> QED
      BY <1>3
  <2> HIDE DEF F, A, B, S, T
  <2> QED
    BY <1>2, <2>1
<1>5. \A j \in T : \E i \in S : F[i] = j
  <2> TAKE j \in T
  <2>1. PICK i \in A(lines[j]) : f(lines[j])[i] = j
    BY <1>2
  <2> QED
    BY <2>1
<1>6. F \in Bijection(S, T)
  <2>1. F \in [S -> T]
    BY <1>3
  <2> HIDE DEF F, S, T
  <2> QED
    BY <1>4, <1>5, <2>1, BijectionMeans
<1>7. /\ IsFiniteSet(S) /\ Cardinality(S) = IF a + 1 > k THEN 0 ELSE k - (a + 1) + 1
      /\ Cardinality(T) = IF b + 1 > l THEN 0 ELSE l - (b + 1) + 1
  <2>1. a + 1 \in Int /\ k \in Int /\ b + 1 \in Int /\ l \in Int
    OBVIOUS
  <2> QED
    BY <2>1, FS_Interval DEF S, T
<1>8. Cardinality(S) = Cardinality(T)
  <2> HIDE DEF F, S, T
  <2> QED
    BY <1>6, <1>7, FS_Bijection DEF ExistsBijection
<1> HIDE DEF S, T
<1> QED
  BY <1>7, <1>8

\* Fingerprints of one table are equal exactly if the rows are the same, each as often, in
\* any order: the number of rows adds nothing to the sum of their digests
\* (recovery_fingerprint.go:185-217).
THEOREM FingerprintTells ==
  ASSUME NEW header, NEW m, NEW a \in Nat, NEW k \in Nat, a <= k,
         NEW lines, NEW b \in Nat, NEW l \in Nat, b <= l
  PROVE  FingerprintOf(header, m, a, k) = FingerprintOf(header, lines, b, l) <=> SameBag(m, a, k, lines, b, l)
<1> DEFINE M == Among(m, a, k)
           N == Among(lines, b, l)
           C(r) == Times(m, a, k, r)
           D(r) == Times(lines, b, l, r)
<1>1. \A r : C(r) \in Nat /\ D(r) \in Nat /\ (C(r) = 0 <=> r \notin M) /\ (D(r) = 0 <=> r \notin N)
  BY TimesMeans
<1>2. ASSUME FingerprintOf(header, m, a, k) = FingerprintOf(header, lines, b, l)
      PROVE  SameBag(m, a, k, lines, b, l)
  <2>1. {[row |-> r, times |-> C(r)] : r \in M} = {[row |-> r, times |-> D(r)] : r \in N}
    BY <1>2 DEF FingerprintOf
  <2> SUFFICES ASSUME NEW r PROVE C(r) = D(r)
    BY DEF SameBag
  <2> HIDE DEF M, N, C, D
  <2>2. CASE r \in M
    <3>1. [row |-> r, times |-> C(r)] \in {[row |-> q, times |-> D(q)] : q \in N}
      BY <2>1, <2>2
    <3> QED
      BY <3>1
  <2>3. CASE r \in N
    <3>1. [row |-> r, times |-> D(r)] \in {[row |-> q, times |-> C(q)] : q \in M}
      BY <2>1, <2>3
    <3> QED
      BY <3>1
  <2> QED
    BY <1>1, <2>2, <2>3
<1>3. ASSUME SameBag(m, a, k, lines, b, l)
      PROVE  FingerprintOf(header, m, a, k) = FingerprintOf(header, lines, b, l)
  <2>1. k - a = l - b
    BY <1>3, SameBagSameLength
  <2>2. \A r : C(r) = D(r)
    BY <1>3 DEF SameBag
  <2>3. M = N
    <3> HIDE DEF M, N, C, D
    <3> QED
      BY <1>1, <2>2
  <2>4. {[row |-> r, times |-> C(r)] : r \in M} = {[row |-> r, times |-> D(r)] : r \in N}
    <3> HIDE DEF M, N, C, D
    <3> QED
      BY <2>2, <2>3
  <2>5. {r \in M : C(r) % 2 = 1} = {r \in N : D(r) % 2 = 1}
    <3> HIDE DEF M, N, C, D
    <3> QED
      BY <2>2, <2>3
  <2> QED
    BY <2>1, <2>4, <2>5 DEF FingerprintOf
<1> QED
  BY <1>2, <1>3

-----------------------------------------------------------------------------
(* The fingerprints of a dump, and the sink that reads the restored tables. *)

\* addRow was called with each line of the list in turn.
CountingStates(header, lines, count) ==
  /\ count[0] = Copy!Table(header)
  /\ \A k \in 1 .. Len(lines) : count[k] = Copy!AddRow(count[k - 1], lines[k])

\* After the rows of a table, its fingerprint is theirs.
LEMMA CountedLines ==
  ASSUME NEW header, NEW lines, Len(lines) \in Nat, NEW count, CountingStates(header, lines, count)
  PROVE  Copy!Result(count[Len(lines)]) = FingerprintOf(header, lines, 0, Len(lines))
<1> DEFINE S == {k \in Nat : k <= Len(lines) => Counted(count[k], header, lines, 0, k)}
<1>1. 0 \in S
  BY CountedStart DEF CountingStates
<1>2. ASSUME NEW k \in Nat, k \in S PROVE k + 1 \in S
  <2> SUFFICES ASSUME k + 1 <= Len(lines) PROVE Counted(count[k + 1], header, lines, 0, k + 1)
    OBVIOUS
  <2>1. k + 1 \in 1 .. Len(lines) /\ (k + 1) - 1 = k /\ k <= Len(lines) /\ 0 <= k
    OBVIOUS
  <2>2. count[k + 1] = Copy!AddRow(count[k], lines[k + 1])
    BY <2>1 DEF CountingStates
  <2>3. Counted(count[k], header, lines, 0, k)
    BY <1>2, <2>1
  <2>4. Counted(Copy!AddRow(count[k], lines[k + 1]), header, lines, 0, k + 1)
    BY <2>1, <2>3, CountedStep
  <2> QED
    BY <2>2, <2>4
<1>3. \A k \in Nat : k \in S
  <2> HIDE DEF S
  <2> QED
    BY <1>1, <1>2, Induction
<1>4. Counted(count[Len(lines)], header, lines, 0, Len(lines))
  BY <1>3
<1> QED
  BY <1>4, ResultCounts

\* The same lines elsewhere are the same rows.
LEMMA SameElsewhere ==
  ASSUME NEW lines, NEW b \in Nat, NEW rows, NEW l \in Nat, \A j \in 1 .. l : lines[b + j] = rows[j]
  PROVE  SameBag(lines, b, b + l, rows, 0, l)
<1> SUFFICES ASSUME NEW r PROVE Times(lines, b, b + l, r) = Times(rows, 0, l, r)
  BY DEF SameBag
<1> DEFINE S == {k \in Nat : k <= l => Times(lines, b, b + k, r) = Times(rows, 0, k, r)}
<1>1. 0 \in S
  <2>1. b + 0 = b /\ Among(lines, b, b) = {} /\ Among(rows, 0, 0) = {}
    BY DEF Among
  <2>2. Times(lines, b, b, r) = 0 /\ Times(rows, 0, 0, r) = 0
    BY <2>1, TimesStep
  <2> QED
    BY <2>1, <2>2
<1>2. ASSUME NEW k \in Nat, k \in S PROVE k + 1 \in S
  <2> SUFFICES ASSUME k + 1 <= l PROVE Times(lines, b, b + (k + 1), r) = Times(rows, 0, k + 1, r)
    OBVIOUS
  <2>1. k + 1 \in 1 .. l /\ b + (k + 1) = (b + k) + 1 /\ b + k \in Nat /\ b <= b + k /\ k <= l /\ 0 <= k
    OBVIOUS
  <2>2. lines[(b + k) + 1] = rows[k + 1]
    BY <2>1
  <2>3. Times(lines, b, b + k, r) = Times(rows, 0, k, r)
    BY <1>2, <2>1
  <2>4. Times(lines, b, (b + k) + 1, r) =
          IF r = lines[(b + k) + 1] THEN Times(lines, b, b + k, r) + 1 ELSE Times(lines, b, b + k, r)
    BY <2>1, TimesStep
  <2>5. Times(rows, 0, k + 1, r) = IF r = rows[k + 1] THEN Times(rows, 0, k, r) + 1 ELSE Times(rows, 0, k, r)
    BY <2>1, TimesStep
  <2> QED
    BY <2>1, <2>2, <2>3, <2>4, <2>5
<1>3. \A k \in Nat : k \in S
  <2> HIDE DEF S
  <2> QED
    BY <1>1, <1>2, Induction
<1> QED
  BY <1>3

\* What psql prints when it gets to the end of the script: an empty line, then for each
\* table its marker, its rows and its other marker, table i from line at[i] on; then DONE.
Printed(output, tables, at) ==
  /\ at \in [1 .. Len(tables) + 1 -> Nat \ {0}] /\ at[1] = 2 /\ output[1] = Copy!Blank
  /\ \A i \in 1 .. Len(tables) :
       /\ at[i + 1] = at[i] + Len(tables[i]) + 2
       /\ output[at[i]] = Copy!Marker("BEGIN", i - 1) /\ output[at[i + 1] - 1] = Copy!Marker("END", i - 1)
       /\ \A j \in 1 .. Len(tables[i]) : output[at[i] + j] = tables[i][j]
  /\ output[at[Len(tables) + 1]] = Copy!Done /\ Len(output) = at[Len(tables) + 1]

\* No row reads like the marker that begins a table or the one that ends the answer.
NoRowIsAMarker(tables) ==
  \A i \in 1 .. Len(tables) : \A j \in 1 .. Len(tables[i]) : tables[i][j].kind \notin {"BEGIN", "DONE"}

\* A line before the next table comes before this one, or is one of its l + 2 lines.
LEMMA LineOfTable ==
  ASSUME NEW b \in Nat \ {0}, NEW l \in Nat, NEW q \in 1 .. (b + l + 2) - 1
  PROVE  q \in 1 .. b - 1 \/ q = b \/ q - b \in 1 .. l \/ q = (b + l + 2) - 1
OBVIOUS

\* A line that begins a table or ends the answer is where it belongs.
LEMMA OnlyTheMarkers ==
  ASSUME NEW output, NEW tables, NEW at, Len(tables) \in Nat,
         \A i \in 1 .. Len(tables) : Len(tables[i]) \in Nat,
         Printed(output, tables, at), NoRowIsAMarker(tables),
         NEW p \in 1 .. Len(output), output[p].kind \in {"BEGIN", "DONE"}
  PROVE  \E i \in 1 .. Len(tables) + 1 : p = at[i] /\ (output[p].kind = "DONE" => i = Len(tables) + 1)
<1> DEFINE n == Len(tables)
           Begins(q) == \E i \in 1 .. n : q = at[i] /\ output[q].kind = "BEGIN"
           S == {i \in Nat : i + 1 <= n + 1 =>
                   \A q \in 1 .. at[i + 1] - 1 : output[q].kind \in {"BEGIN", "DONE"} => Begins(q)}
<1>1. /\ n \in Nat /\ at \in [1 .. n + 1 -> Nat \ {0}] /\ at[1] = 2 /\ output[1] = Copy!Blank
      /\ Len(output) = at[n + 1] /\ n + 1 \in 1 .. n + 1
  BY DEF Printed
<1>2. /\ \A x : Copy!Marker("BEGIN", x).kind = "BEGIN" /\ Copy!Marker("END", x).kind = "END"
      /\ Copy!Blank.kind = "blank" /\ Copy!Done.kind = "DONE"
  BY DEF Copy!Marker, Copy!Blank, Copy!Done, Copy!Line
<1>3. 0 \in S
  BY <1>1, <1>2
<1>4. ASSUME NEW i \in Nat, i \in S PROVE i + 1 \in S
  <2> SUFFICES ASSUME (i + 1) + 1 <= n + 1, NEW q \in 1 .. at[(i + 1) + 1] - 1, output[q].kind \in {"BEGIN", "DONE"}
               PROVE  Begins(q)
    OBVIOUS
  <2> DEFINE t == i + 1
             b == at[t]
             l == Len(tables[t])
  <2>1. t \in 1 .. n /\ t \in 1 .. n + 1 /\ t + 1 \in 1 .. n + 1 /\ i + 1 <= n + 1
    BY <1>1
  <2>2. b \in Nat \ {0} /\ l \in Nat /\ at[t + 1] = b + l + 2
    BY <1>1, <2>1 DEF Printed
  <2>3. /\ output[b] = Copy!Marker("BEGIN", t - 1) /\ output[(b + l + 2) - 1] = Copy!Marker("END", t - 1)
        /\ \A j \in 1 .. l : output[b + j] = tables[t][j]
    BY <2>1, <2>2 DEF Printed
  <2>4. CASE q \in 1 .. b - 1
    BY <1>4, <2>1, <2>4
  <2>5. CASE q = b
    BY <1>2, <2>1, <2>3, <2>5
  <2>6. CASE q - b \in 1 .. l
    <3>1. b + (q - b) = q
      BY <2>2
    <3>2. output[q] = tables[t][q - b]
      BY <2>3, <2>6, <3>1
    <3>3. tables[t][q - b].kind \notin {"BEGIN", "DONE"}
      BY <2>1, <2>6 DEF NoRowIsAMarker
    <3> QED
      BY <3>2, <3>3
  <2>7. CASE q = (b + l + 2) - 1
    BY <1>2, <2>3, <2>7
  <2>8. q \in 1 .. b - 1 \/ q = b \/ q - b \in 1 .. l \/ q = (b + l + 2) - 1
    <3>1. q \in 1 .. (b + l + 2) - 1
      BY <2>2
    <3> HIDE DEF b, l
    <3> QED
      BY <2>2, <3>1, LineOfTable, Zenon
  <2> QED
    BY <2>4, <2>5, <2>6, <2>7, <2>8
<1>5. n \in S
  <2>1. \A i \in Nat : i \in S
    <3> HIDE DEF S
    <3> QED
      BY <1>3, <1>4, Induction
  <2> QED
    BY <1>1, <2>1
<1>6. CASE p = at[n + 1]
  BY <1>1, <1>6
<1>7. CASE p # at[n + 1]
  <2>1. p \in 1 .. at[n + 1] - 1
    BY <1>1, <1>7
  <2>2. PICK i \in 1 .. n : p = at[i] /\ output[p].kind = "BEGIN"
    BY <1>1, <1>5, <2>1
  <2> QED
    BY <1>1, <2>2
<1> QED
  BY <1>6, <1>7

\* An answer that is accepted has its tables where psql printed them: the sink cannot
\* take a row for a marker, nor a marker for a row.
LEMMA AnswerIsPrinted ==
  ASSUME NEW fps, NEW output, NEW tables, NEW at, NEW start, Fingerprints(fps), Len(tables) = Len(fps),
         \A i \in 1 .. Len(tables) : Len(tables[i]) \in Nat,
         Printed(output, tables, at), NoRowIsAMarker(tables), Answer(fps, output, start)
  PROVE  \A i \in 1 .. Len(fps) + 1 : start[i] = at[i]
<1> DEFINE n == Len(fps)
<1>1. /\ n \in Nat /\ at \in [1 .. n + 1 -> Nat \ {0}] /\ start \in [1 .. n + 1 -> Nat \ {0}]
      /\ at[1] = 2 /\ output[1] = Copy!Blank /\ Len(output) = at[n + 1] /\ output[at[n + 1]] = Copy!Done
      /\ start[n + 1] <= Len(output) /\ output[start[n + 1]] = Copy!Done
      /\ 1 \in 1 .. n + 1 /\ n + 1 \in 1 .. n + 1
  BY DEF Fingerprints, Printed, Answer, AnswersUpTo
<1>2. \A i \in 1 .. n : /\ i \in 1 .. n + 1 /\ i + 1 \in 1 .. n + 1
                        /\ at[i] < at[i + 1] /\ start[i] < start[i + 1]
                        /\ output[start[i]] = Copy!Marker("BEGIN", i - 1)
                        /\ output[at[i]] = Copy!Marker("BEGIN", i - 1)
  <2> TAKE i \in 1 .. n
  <2>1. i \in 1 .. n + 1 /\ i + 1 \in 1 .. n + 1
    BY <1>1
  <2>2. start[i + 1] = start[i] + fps[i].rows + 2 /\ fps[i].rows \in Nat /\ output[start[i]] = Copy!Marker("BEGIN", i - 1)
    BY DEF Answer, AnswersUpTo, TableAnswer, Fingerprints
  <2>3. at[i + 1] = at[i] + Len(tables[i]) + 2 /\ Len(tables[i]) \in Nat /\ output[at[i]] = Copy!Marker("BEGIN", i - 1)
    BY DEF Printed
  <2>4. start[i] \in Nat /\ at[i] \in Nat
    BY <1>1, <2>1
  <2> QED
    BY <2>1, <2>2, <2>3, <2>4
<1>3. /\ \A x : Copy!Marker("BEGIN", x).kind = "BEGIN"
      /\ Copy!Done.kind = "DONE"
  BY DEF Copy!Marker, Copy!Done, Copy!Line
<1>4. \A i, j \in 1 .. n + 1 : i <= j => at[i] <= at[j] /\ start[i] <= start[j]
  <2>1. at \in [1 .. n + 1 -> Nat] /\ start \in [1 .. n + 1 -> Nat]
    BY <1>1
  <2>2. \A i \in 1 .. n : at[i] <= at[i + 1] /\ start[i] <= start[i + 1]
    <3> TAKE i \in 1 .. n
    <3>1. at[i] < at[i + 1] /\ start[i] < start[i + 1] /\ i \in 1 .. n + 1 /\ i + 1 \in 1 .. n + 1
      BY <1>2
    <3>2. at[i] \in Nat /\ at[i + 1] \in Nat /\ start[i] \in Nat /\ start[i + 1] \in Nat
      BY <1>1, <3>1
    <3> QED
      BY <3>1, <3>2
  <2> HIDE DEF n
  <2> QED
    BY <1>1, <2>1, <2>2, InOrder
<1> HIDE DEF n
<1>5. \A i \in 1 .. n + 1 : \E j \in 1 .. n + 1 : start[i] = at[j] /\ (i = n + 1 => j = n + 1)
  <2> TAKE i \in 1 .. n + 1
  <2>1. i \in 1 .. n \/ i = n + 1
    BY <1>1
  <2>2. output[start[i]].kind = IF i = n + 1 THEN "DONE" ELSE "BEGIN"
    BY <1>1, <1>2, <1>3, <2>1
  <2>3. start[i] \in 1 .. Len(output)
    <3>1. start[i] <= start[n + 1] /\ start[i] \in Nat \ {0} /\ start[n + 1] \in Nat
      BY <1>1, <1>4
    <3> QED
      BY <1>1, <3>1
  <2> DEFINE p == start[i]
  <2>4. Len(tables) = n /\ p \in 1 .. Len(output) /\ output[p].kind \in {"BEGIN", "DONE"}
    BY <2>2, <2>3 DEF n
  <2> HIDE DEF p
  <2>5. \E j \in 1 .. n + 1 : p = at[j] /\ (output[p].kind = "DONE" => j = n + 1)
    <3>1. Len(tables) \in Nat
      BY <1>1, <2>4
    <3>2. \E j \in 1 .. Len(tables) + 1 : p = at[j] /\ (output[p].kind = "DONE" => j = Len(tables) + 1)
      BY <2>4, <3>1, OnlyTheMarkers
    <3> QED
      BY <2>4, <3>2
  <2> QED
    BY <2>2, <2>5 DEF p
<1>6. \A i \in 1 .. n + 1 : start[i] <= at[i]
  <2> DEFINE S == {d \in Nat : (n + 1) - d \in 1 .. n + 1 => start[(n + 1) - d] <= at[(n + 1) - d]}
  <2>1. 0 \in S
    BY <1>1, <1>5
  <2>2. ASSUME NEW d \in Nat, d \in S PROVE d + 1 \in S
    <3> DEFINE i == (n + 1) - (d + 1)
    <3> SUFFICES ASSUME i \in 1 .. n + 1 PROVE start[i] <= at[i]
      OBVIOUS
    <3>1. i \in 1 .. n /\ i + 1 = (n + 1) - d /\ i + 1 \in 1 .. n + 1
      BY <1>1
    <3>2. start[i + 1] <= at[i + 1]
      BY <2>2, <3>1
    <3> HIDE DEF i
    <3>3. PICK j \in 1 .. n + 1 : start[i] = at[j]
      BY <1>5
    <3>4. at[j] < at[i + 1]
      BY <1>1, <1>2, <3>1, <3>2, <3>3
    <3>5. j <= i
      <4>1. ~(i + 1 <= j)
        BY <1>1, <1>4, <3>1, <3>4
      <4> QED
        BY <1>1, <3>1, <4>1
    <3> QED
      BY <1>4, <3>3, <3>5
  <2>3. \A d \in Nat : d \in S
    <3> HIDE DEF S
    <3> QED
      BY <2>1, <2>2, Induction
  <2> TAKE i \in 1 .. n + 1
  <2>4. (n + 1) - i \in Nat /\ (n + 1) - ((n + 1) - i) = i
    BY <1>1
  <2> QED
    BY <2>3, <2>4
<1>7. \A i \in 1 .. n + 1 : at[i] <= start[i]
  <2> DEFINE S == {d \in Nat : d + 1 <= n + 1 => at[d + 1] <= start[d + 1]}
  <2>1. 0 \in S
    <3>1. PICK j \in 1 .. n + 1 : start[1] = at[j]
      BY <1>1, <1>5
    <3> QED
      BY <1>1, <1>4, <3>1
  <2>2. ASSUME NEW d \in Nat, d \in S PROVE d + 1 \in S
    <3> DEFINE i == d + 1
    <3> SUFFICES ASSUME i + 1 <= n + 1 PROVE at[i + 1] <= start[i + 1]
      OBVIOUS
    <3>1. i \in 1 .. n /\ i + 1 \in 1 .. n + 1 /\ i \in 1 .. n + 1
      BY <1>1
    <3>2. at[i] <= start[i]
      BY <2>2, <3>1
    <3> HIDE DEF i
    <3>3. PICK j \in 1 .. n + 1 : start[i + 1] = at[j]
      BY <1>5, <3>1
    <3>4. at[i] < at[j]
      BY <1>1, <1>2, <3>1, <3>2, <3>3
    <3>5. i + 1 <= j
      <4>1. ~(j <= i)
        BY <1>1, <1>4, <3>1, <3>4
      <4> QED
        BY <1>1, <3>1, <4>1
    <3> QED
      BY <1>4, <3>1, <3>3, <3>5
  <2>3. \A d \in Nat : d \in S
    <3> HIDE DEF S
    <3> QED
      BY <2>1, <2>2, Induction
  <2> TAKE i \in 1 .. n + 1
  <2>4. i - 1 \in Nat /\ (i - 1) + 1 = i
    BY <1>1
  <2> QED
    BY <2>3, <2>4
<1>8. \A i \in 1 .. n + 1 : start[i] = at[i]
  <2> TAKE i \in 1 .. n + 1
  <2>1. start[i] <= at[i] /\ at[i] <= start[i]
    BY <1>6, <1>7
  <2>2. start[i] \in Nat /\ at[i] \in Nat
    BY <1>1
  <2> QED
    BY <2>1, <2>2
<1> QED
  BY <1>8 DEF n

\* The fingerprints are those of the dumped rows, counted one by one.
CountedFrom(fps, headers, dumped, counts) ==
  \A i \in 1 .. Len(fps) : /\ Len(dumped[i]) \in Nat
                           /\ CountingStates(headers[i], dumped[i], counts[i])
                           /\ fps[i] = Copy!Result(counts[i][Len(dumped[i])])

\* Each table holds the rows of the other database, each as often and in any order.
SameTables(n, dumped, restored) ==
  \A i \in 1 .. n : SameBag(dumped[i], 0, Len(dumped[i]), restored[i], 0, Len(restored[i]))

\* Once psql has printed its whole answer, the gate is open exactly if every restored
\* table holds the rows that were dumped, each as often and in any order, and the sink
\* is then content: for any number of tables and rows, provided that no restored row
\* reads like the marker that begins a table or ends the answer
\* (recovery_fingerprint.go:185-217, restore_fingerprint.go:132-189).
THEOREM OpensForTheRows ==
  ASSUME NEW headers, NEW dumped, NEW counts, NEW fps, NEW restored, NEW output, NEW at,
         Len(fps) \in Nat, Len(restored) = Len(fps), CountedFrom(fps, headers, dumped, counts),
         \A i \in 1 .. Len(restored) : Len(restored[i]) \in Nat,
         Printed(output, restored, at), NoRowIsAMarker(restored)
  PROVE  LET sink == Copy!Judge(fps, output)
             same == SameTables(Len(fps), dumped, restored)
         IN /\ sink.gate = "open" <=> same
            /\ Copy!CloseSink(sink).failed = FALSE <=> same
            /\ Copy!CloseSink(sink).failed \in BOOLEAN
<1> DEFINE n == Len(fps)
           D(i) == dumped[i]
           R(i) == restored[i]
           same == \A i \in 1 .. n : SameBag(D(i), 0, Len(D(i)), R(i), 0, Len(R(i)))
<1>1. \A i \in 1 .. n : /\ Len(D(i)) \in Nat /\ Len(R(i)) \in Nat
                        /\ fps[i] = FingerprintOf(headers[i], D(i), 0, Len(D(i)))
  BY CountedLines DEF CountedFrom
<1>2. \A i \in 1 .. n : fps[i].header = headers[i] /\ fps[i].rows = Len(D(i)) /\ fps[i].rows \in Nat
  <2> TAKE i \in 1 .. n
  <2> HIDE DEF D
  <2>1. /\ FingerprintOf(headers[i], D(i), 0, Len(D(i))).header = headers[i]
        /\ FingerprintOf(headers[i], D(i), 0, Len(D(i))).rows = Len(D(i)) - 0
    BY DEF FingerprintOf
  <2>2. Len(D(i)) \in Nat /\ fps[i] = FingerprintOf(headers[i], D(i), 0, Len(D(i)))
    BY <1>1
  <2> QED
    BY <2>1, <2>2
<1>3. /\ Fingerprints(fps) /\ n \in Nat /\ at \in [1 .. n + 1 -> Nat \ {0}] /\ at[1] = 2 /\ output[1] = Copy!Blank
      /\ output[at[n + 1]] = Copy!Done /\ Len(output) = at[n + 1] /\ Len(output) \in Nat
  <2>1. Fingerprints(fps)
    <3>1. \A i \in 1 .. n : fps[i].rows \in Nat
      BY <1>2
    <3> QED
      BY <3>1, Zenon DEF Fingerprints
  <2>2. /\ at \in [1 .. n + 1 -> Nat \ {0}] /\ at[1] = 2 /\ output[1] = Copy!Blank
        /\ output[at[n + 1]] = Copy!Done /\ Len(output) = at[n + 1]
    BY Zenon DEF Printed
  <2>3. n \in Nat
    OBVIOUS
  <2> HIDE DEF n
  <2>4. at[n + 1] \in Nat
    BY <2>2, <2>3
  <2> QED
    BY <2>1, <2>2, <2>3, <2>4
<1>4. \A i \in 1 .. n : /\ i \in 1 .. n + 1 /\ at[i] \in Nat /\ at[i + 1] = at[i] + Len(R(i)) + 2
                        /\ output[at[i]] = Copy!Marker("BEGIN", i - 1)
                        /\ output[at[i + 1] - 1] = Copy!Marker("END", i - 1)
                        /\ SameBag(output, at[i], at[i] + Len(R(i)), R(i), 0, Len(R(i)))
  <2> TAKE i \in 1 .. n
  <2>1. at[i] \in Nat /\ i \in 1 .. n + 1
    <3>1. n \in Nat /\ at \in [1 .. n + 1 -> Nat \ {0}] /\ i \in 1 .. n
      BY <1>3
    <3> HIDE DEF n
    <3> QED
      BY ONLY <3>1
  <2>2. \A j \in 1 .. Len(R(i)) : output[at[i] + j] = R(i)[j]
    BY DEF Printed
  <2>3. SameBag(output, at[i], at[i] + Len(R(i)), R(i), 0, Len(R(i)))
    <3> HIDE DEF R
    <3> QED
      BY <1>1, <2>1, <2>2, SameElsewhere
  <2> QED
    BY <2>1, <2>3 DEF Printed
<1> HIDE DEF D, R
<1>5. \A i \in 1 .. n :
        FingerprintOf(headers[i], output, at[i], at[i] + Len(R(i))) = fps[i]
          <=> SameBag(D(i), 0, Len(D(i)), R(i), 0, Len(R(i)))
  <2> TAKE i \in 1 .. n
  <2> DEFINE k == at[i] + Len(R(i))
  <2>1. at[i] \in Nat /\ k \in Nat /\ at[i] <= k /\ Len(D(i)) \in Nat /\ Len(R(i)) \in Nat /\ 0 <= Len(D(i))
    BY <1>1, <1>4
  <2>2. FingerprintOf(headers[i], output, at[i], k) = FingerprintOf(headers[i], D(i), 0, Len(D(i)))
          <=> SameBag(output, at[i], k, D(i), 0, Len(D(i)))
    <3> HIDE DEF k
    <3> QED
      BY <2>1, FingerprintTells
  <2>3. SameBag(output, at[i], k, R(i), 0, Len(R(i)))
    BY <1>4
  <2>4. SameBag(output, at[i], k, D(i), 0, Len(D(i))) <=> SameBag(D(i), 0, Len(D(i)), R(i), 0, Len(R(i)))
    <3> HIDE DEF k
    <3> QED
      BY <2>3, Zenon DEF SameBag
  <2>5. fps[i] = FingerprintOf(headers[i], D(i), 0, Len(D(i)))
    BY <1>1
  <2> QED
    BY <2>2, <2>4, <2>5
<1>6. ASSUME same PROVE Answer(fps, output, at)
  <2>1. \A i \in 1 .. n : TableAnswer(fps[i], i, output, at[i], at[i + 1])
    <3> TAKE i \in 1 .. n
    <3>1. SameBag(D(i), 0, Len(D(i)), R(i), 0, Len(R(i))) /\ Len(D(i)) \in Nat /\ Len(R(i)) \in Nat
      BY <1>1, <1>6
    <3>2. Len(D(i)) = Len(R(i))
      <4>1. Len(D(i)) - 0 = Len(R(i)) - 0
        BY <3>1, SameBagSameLength
      <4> QED
        BY <3>1, <4>1
    <3>3. at[i + 1] = at[i] + fps[i].rows + 2 /\ at[i + 1] - 2 = at[i] + Len(R(i))
      <4>1. fps[i].rows = Len(R(i)) /\ Len(R(i)) \in Nat
        BY <1>2, <3>1, <3>2
      <4>2. at[i] \in Nat /\ at[i + 1] = at[i] + Len(R(i)) + 2
        BY <1>4
      <4> QED
        BY ONLY <4>1, <4>2
    <3> QED
      BY <1>2, <1>4, <1>5, <3>1, <3>3 DEF TableAnswer
  <2>2. \A j \in 1 .. at[1] - 1 : output[j] = Copy!Blank
    BY <1>3
  <2>3. at[n + 1] <= Len(output)
    BY <1>3
  <2> QED
    BY <1>3, <2>1, <2>2, <2>3 DEF Answer, AnswersUpTo
<1>7. ASSUME NEW start, Answer(fps, output, start) PROVE same /\ start[n + 1] = Len(output)
  <2>1. \A i \in 1 .. n + 1 : start[i] = at[i]
    <3>1. Fingerprints(fps) /\ Len(restored) = Len(fps) /\ \A i \in 1 .. Len(restored) : Len(restored[i]) \in Nat
      BY <1>3
    <3>2. Printed(output, restored, at) /\ NoRowIsAMarker(restored) /\ Answer(fps, output, start)
      BY <1>7
    <3> QED
      BY ONLY <3>1, <3>2, AnswerIsPrinted DEF n
  <2>2. ASSUME NEW i \in 1 .. n PROVE SameBag(D(i), 0, Len(D(i)), R(i), 0, Len(R(i)))
    <3>1. TableAnswer(fps[i], i, output, at[i], at[i + 1])
      <4>1. i \in 1 .. n + 1 /\ i + 1 \in 1 .. n + 1
        BY <1>3
      <4> QED
        BY <1>7, <2>1, <4>1 DEF Answer, AnswersUpTo
    <3>2. at[i + 1] - 2 = at[i] + Len(R(i))
      BY <1>1, <1>4
    <3>3. FingerprintOf(headers[i], output, at[i], at[i] + Len(R(i))) = fps[i]
      BY <1>2, <3>1, <3>2 DEF TableAnswer
    <3> QED
      BY <1>5, <3>3
  <2> QED
    BY <1>3, <2>1, <2>2
<1>8. /\ Copy!Judge(fps, output).gate = "open" <=> \E start : Answer(fps, output, start)
      /\ Copy!CloseSink(Copy!Judge(fps, output)).failed = FALSE <=>
           \E start : Answer(fps, output, start) /\ start[n + 1] = Len(output)
      /\ Copy!CloseSink(Copy!Judge(fps, output)).failed \in BOOLEAN
  BY <1>3, SinkAccepts
<1>9. same <=> SameTables(n, dumped, restored)
  BY DEF SameTables, D, R
<1> HIDE DEF same
<1> QED
  BY <1>3, <1>6, <1>7, <1>8, <1>9

\* Sequences of one and two elements, and two sequences in a row.
LEMMA OneOf ==
  ASSUME NEW S, NEW e \in S
  PROVE  <<e>> \in Seq(S) /\ Len(<<e>>) = 1 /\ <<e>>[1] = e
  OBVIOUS

\* What a sequence of two elements is.
LEMMA TwoOf ==
  ASSUME NEW S, NEW e \in S, NEW f \in S
  PROVE  <<e, f>> \in Seq(S) /\ Len(<<e, f>>) = 2 /\ <<e, f>>[1] = e /\ <<e, f>>[2] = f
  OBVIOUS

\* What the concatenation of two sequences is.
LEMMA ConcatOf ==
  ASSUME NEW S, NEW s \in Seq(S), NEW t \in Seq(S)
  PROVE  /\ s \o t \in Seq(S) /\ Len(s) \in Nat /\ Len(t) \in Nat /\ Len(s \o t) = Len(s) + Len(t)
         /\ \A i \in 1 .. Len(s) : (s \o t)[i] = s[i]
         /\ \A i \in 1 .. Len(t) : (s \o t)[Len(s) + i] = t[i]
<1>1. /\ s \o t \in Seq(S) /\ Len(s) \in Nat /\ Len(t) \in Nat /\ Len(s \o t) = Len(s) + Len(t)
  OBVIOUS
<1>2. ASSUME NEW i \in 1 .. Len(s) PROVE (s \o t)[i] = s[i]
  OBVIOUS
<1>3. ASSUME NEW i \in 1 .. Len(t) PROVE (s \o t)[Len(s) + i] = t[i]
  <2>1. Len(s) + i \in 1 .. Len(s) + Len(t) /\ ~(Len(s) + i <= Len(s)) /\ (Len(s) + i) - Len(s) = i
    BY <1>1
  <2> QED
    BY <2>1
<1> QED
  BY <1>1, <1>2, <1>3

-----------------------------------------------------------------------------
(* The script finds its tables: quoted names are read as they were.        *)

\* The texts quoted[k] that Quote builds, one character more with each.
Quoting(Chars, name, quoted) ==
  /\ quoted[0] = <<"Q">> /\ Copy!Quote(name) = Append(quoted[Len(name)], "Q")
  /\ \A k \in 0 .. Len(name) : quoted[k] \in Seq(Chars) /\ Len(quoted[k]) \in Nat \ {0}
  /\ \A k \in 1 .. Len(name) :
       quoted[k] = quoted[k - 1] \o (IF name[k] = "Q" THEN <<"Q", "Q">> ELSE <<name[k]>>)

\* The texts of a name that is quoted character by character exist.
LEMMA QuoteSteps ==
  ASSUME NEW Chars, "Q" \in Chars, NEW name \in Seq(Chars)
  PROVE  \E quoted : Quoting(Chars, name, quoted)
<1> DEFINE n == Len(name)
           D == Seq(Chars)
           Add(c) == IF c = "Q" THEN <<"Q", "Q">> ELSE <<c>>
           step == [k \in 1 .. n |-> [s \in D |-> s \o Add(name[k])]]
           Is(f) == f = [k \in 0 .. n |-> IF k = 0 THEN <<"Q">> ELSE f[k - 1] \o Add(name[k])]
           quoted == CHOOSE f : Is(f)
<1>1. n \in Nat /\ <<"Q">> \in D /\ Len(<<"Q">>) = 1 /\ \A k \in 1 .. n : Add(name[k]) \in D
  <2>1. "Q" \in Chars /\ \A k \in 1 .. n : name[k] \in Chars
    OBVIOUS
  <2>2. <<"Q", "Q">> \in D /\ \A k \in 1 .. n : <<name[k]>> \in D
    BY <2>1, OneOf, TwoOf
  <2>3. n \in Nat /\ <<"Q">> \in D /\ Len(<<"Q">>) = 1
    BY <2>1, OneOf
  <2> HIDE DEF D
  <2> QED
    BY <2>2, <2>3
<1>2. Copy!Quote(name) = Append(quoted[n], "Q")
  BY Zenon DEF Copy!Quote
<1> HIDE DEF Add, n
<1>3. step \in [1 .. n -> [D -> D]]
  <2>1. \A k \in 1 .. n : \A s \in D : s \o Add(name[k]) \in D
    BY <1>1
  <2> QED
    BY <2>1
<1>4. \E f \in [0 .. n -> D] : f[0] = <<"Q">> /\ \A i \in 1 .. n : f[i] = step[i][f[i - 1]]
  <2> DEFINE first == <<"Q">>
  <2>1. first \in D /\ n \in Nat /\ step \in [1 .. n -> [D -> D]]
    BY <1>1, <1>3
  <2> HIDE DEF D, step, first
  <2>2. \E f \in [0 .. n -> D] : f[0] = first /\ \A i \in 1 .. n : f[i] = step[i][f[i - 1]]
    BY ONLY <2>1, Recursion
  <2> QED
    BY <2>2 DEF first
<1>5. PICK f \in [0 .. n -> D] : f[0] = <<"Q">> /\ \A i \in 1 .. n : f[i] = f[i - 1] \o Add(name[i])
  <2>1. PICK f \in [0 .. n -> D] : f[0] = <<"Q">> /\ \A i \in 1 .. n : f[i] = step[i][f[i - 1]]
    BY <1>4
  <2>2. ASSUME NEW i \in 1 .. n PROVE f[i] = f[i - 1] \o Add(name[i])
    <3>0. i - 1 \in 0 .. n /\ i \in 1 .. n
      BY <1>1
    <3> HIDE DEF D
    <3>1. f[i] = step[i][f[i - 1]] /\ f[i - 1] \in D
      <4> HIDE DEF step
      <4> QED
        BY <2>1, <3>0
    <3> QED
      BY <3>1
  <2> QED
    BY <2>1, <2>2
<1> HIDE DEF D
<1>6. Is(f)
  <2>1. \A k \in 0 .. n : f[k] = IF k = 0 THEN <<"Q">> ELSE f[k - 1] \o Add(name[k])
    BY <1>1, <1>5
  <2> QED
    BY <1>5, <2>1
<1>7. Is(quoted)
  <2> HIDE DEF Is
  <2> QED
    BY <1>6, Zenon
<1>8. /\ DOMAIN quoted = 0 .. n /\ quoted[0] = <<"Q">>
      /\ \A k \in 1 .. n : quoted[k] = quoted[k - 1] \o Add(name[k])
  <2> HIDE DEF quoted
  <2> QED
    BY <1>1, <1>7
<1> HIDE DEF quoted, Is, step
<1>9. \A k \in Nat : k <= n => quoted[k] \in Seq(Chars) /\ Len(quoted[k]) \in Nat \ {0}
  <2> DEFINE S == {k \in Nat : k <= n => quoted[k] \in Seq(Chars) /\ Len(quoted[k]) \in Nat \ {0}}
  <2>1. 0 \in S
    <3>1. quoted[0] \in Seq(Chars) /\ Len(quoted[0]) \in Nat \ {0}
      BY <1>1, <1>8 DEF D
    <3> QED
      BY <3>1
  <2>2. ASSUME NEW k \in Nat, k \in S PROVE k + 1 \in S
    <3> SUFFICES ASSUME k + 1 <= n PROVE quoted[k + 1] \in Seq(Chars) /\ Len(quoted[k + 1]) \in Nat \ {0}
      OBVIOUS
    <3>1. k + 1 \in 1 .. n /\ (k + 1) - 1 = k /\ k <= n
      BY <1>1
    <3>2. quoted[k + 1] = quoted[k] \o Add(name[k + 1]) /\ Add(name[k + 1]) \in Seq(Chars)
      BY <1>1, <1>8, <3>1 DEF D
    <3>3. quoted[k] \in Seq(Chars) /\ Len(quoted[k]) \in Nat \ {0}
      BY <2>2, <3>1
    <3> DEFINE x == quoted[k]
               y == Add(name[k + 1])
    <3>4. x \o y \in Seq(Chars) /\ Len(x \o y) = Len(x) + Len(y) /\ Len(y) \in Nat /\ Len(x) \in Nat \ {0}
      <4>1. x \in Seq(Chars) /\ y \in Seq(Chars) /\ Len(x) \in Nat \ {0}
        BY <3>2, <3>3
      <4> HIDE DEF x, y
      <4> QED
        BY <4>1, ConcatOf
    <3> HIDE DEF x, y
    <3>5. x \o y \in Seq(Chars) /\ Len(x \o y) \in Nat \ {0}
      BY <3>4
    <3> QED
      BY <3>2, <3>5 DEF x, y
  <2> HIDE DEF S
  <2>3. \A k \in Nat : k \in S
    BY <2>1, <2>2, Induction
  <2> QED
    BY <2>3 DEF S
<1>10. \A k \in 0 .. n : quoted[k] \in Seq(Chars) /\ Len(quoted[k]) \in Nat \ {0}
  BY <1>1, <1>9
<1> QED
  BY <1>2, <1>8, <1>10 DEF Quoting, n, Add

\* What the reader of a quoted identifier finds from each place of the text on.
ReadsFrom(v, p, read) ==
  /\ Copy!QuotedIdentifier(v, p) = read[p]
  /\ \A i \in p .. Len(v) + 2 :
       read[i] = IF i > Len(v) THEN {}
                 ELSE IF v[i] # "Q" THEN Copy!Longer(v[i], read[i + 1])
                 ELSE IF Copy!Sees(v, i + 1, "Q") THEN Copy!Longer("Q", read[i + 2])
                 ELSE {Copy!Read(i + 1, <<>>)}

\* What the reader reads from each place exists.
LEMMA ReadSteps ==
  ASSUME NEW v, Len(v) \in Nat, NEW p \in Nat, p <= Len(v) + 2
  PROVE  \E read : ReadsFrom(v, p, read)
<1> DEFINE e == Len(v) + 2
           L(c, r) == Copy!Longer(c, r)
           Double(i) == Copy!Sees(v, i + 1, "Q")
           End(i) == {Copy!Read(i + 1, <<>>)}
           Body(f, i) == IF i > Len(v) THEN {}
                         ELSE IF v[i] # "Q" THEN L(v[i], f[i + 1])
                         ELSE IF Double(i) THEN L("Q", f[i + 2]) ELSE End(i)
           Is(f, k) == f = [i \in e - k .. e |-> Body(f, i)]
           S == {k \in Nat : \E f : Is(f, k)}
<1> HIDE DEF L, Double, End
<1>1. 0 \in S
  <2> DEFINE f == [i \in e - 0 .. e |-> {}]
  <2>1. Is(f, 0)
    OBVIOUS
  <2> QED
    BY <2>1
<1>2. ASSUME NEW k \in Nat, k \in S PROVE k + 1 \in S
  <2> PICK f : Is(f, k)
    BY <1>2
  <2> DEFINE a == e - (k + 1)
             g == [i \in a .. e |-> IF i = a THEN Body(f, a) ELSE f[i]]
             h == [i \in a .. e |-> Body(g, i)]
  <2>1. a \in Int /\ e \in Nat /\ e = Len(v) + 2 /\ e - k = a + 1 /\ a < e
    OBVIOUS
  <2>2. \A i \in a + 1 .. e : f[i] = Body(f, i)
    BY <2>1
  <2>3. \A i \in a + 1 .. e : g[i] = f[i]
    BY <2>1
  <2>4. g[a] = Body(f, a)
    <3>1. a \in a .. e
      BY <2>1
    <3> HIDE DEF a, e, Body
    <3> QED
      BY <3>1
  <2>5. DOMAIN g = a .. e /\ DOMAIN h = a .. e /\ g = [i \in DOMAIN g |-> g[i]] /\ h = [i \in DOMAIN h |-> h[i]]
    <3> HIDE DEF a, e, Body
    <3> QED
      OBVIOUS
  <2>6. \A i \in a .. e : h[i] = Body(g, i)
    <3> HIDE DEF a, e, Body
    <3> QED
      OBVIOUS
  <2> HIDE DEF g, h
  <2>7. \A i \in a .. e : Body(g, i) = Body(f, i)
    <3> TAKE i \in a .. e
    <3>1. CASE i > Len(v)
      BY <3>1
    <3>2. CASE ~(i > Len(v))
      <4>1. i + 1 \in a + 1 .. e /\ i + 2 \in a + 1 .. e
        BY <2>1, <3>2
      <4>2. g[i + 1] = f[i + 1] /\ g[i + 2] = f[i + 2]
        BY <2>3, <4>1
      <4> HIDE DEF e, a
      <4> QED
        BY <4>2
    <3> QED
      BY <3>1, <3>2
  <2>8. \A i \in a .. e : g[i] = h[i]
    <3> HIDE DEF Body, e
    <3>1. \A i \in a .. e : i = a \/ i \in a + 1 .. e
      BY <2>1
    <3> QED
      BY <2>2, <2>3, <2>4, <2>6, <2>7, <3>1
  <2>9. g = h
    <3> HIDE DEF Body, a, e
    <3> QED
      BY <2>5, <2>8
  <2>10. Is(g, k + 1)
    BY <2>9 DEF h
  <2> HIDE DEF Is
  <2> QED
    BY <2>10
<1>3. e - p \in S
  <2>1. e - p \in Nat
    OBVIOUS
  <2> HIDE DEF S
  <2>2. \A k \in Nat : k \in S
    BY <1>1, <1>2, Induction
  <2> QED
    BY <2>1, <2>2
<1> DEFINE Scans(f) == f = [i \in p .. e |-> Body(f, i)]
           read == CHOOSE f : Scans(f)
<1>4. \E f : Scans(f)
  <2>1. e - (e - p) = p
    OBVIOUS
  <2>2. PICK f : Is(f, e - p)
    BY <1>3
  <2> QED
    BY <2>1, <2>2
<1>5. Scans(read)
  <2> HIDE DEF Scans
  <2> QED
    BY <1>4, Zenon
<1>6. Copy!QuotedIdentifier(v, p) = read[p]
  BY Zenon DEF Copy!QuotedIdentifier, L, Double, End
<1> HIDE DEF read
<1>7. \A i \in p .. e : read[i] = Body(read, i)
  <2> HIDE DEF Body, e
  <2> QED
    BY <1>5
<1> QED
  BY <1>6, <1>7, Zenon DEF ReadsFrom, L, Double, End

\* Two sequences with the same elements are the same.
LEMMA SameSeq ==
  ASSUME NEW S, NEW s \in Seq(S), NEW t \in Seq(S), Len(s) = Len(t), \A i \in 1 .. Len(s) : s[i] = t[i]
  PROVE  s = t
  OBVIOUS

\* The first elements of t are those of s.
StartsWith(t, s) == Len(s) <= Len(t) /\ \A j \in 1 .. Len(s) : t[j] = s[j]

\* A text that only grows begins with what it was.
LEMMA Grown ==
  ASSUME NEW n \in Nat, NEW text, \A k \in 0 .. n : Len(text[k]) \in Nat,
         \A k \in 1 .. n : StartsWith(text[k], text[k - 1])
  PROVE  \A k \in 0 .. n : StartsWith(text[n], text[k])
<1> DEFINE S == {d \in Nat : n - d \in 0 .. n => StartsWith(text[n], text[n - d])}
<1>1. 0 \in S
  BY DEF StartsWith
<1>2. ASSUME NEW d \in Nat, d \in S PROVE d + 1 \in S
  <2> DEFINE k == n - d
  <2> SUFFICES ASSUME n - (d + 1) \in 0 .. n PROVE StartsWith(text[n], text[n - (d + 1)])
    OBVIOUS
  <2>1. k \in 1 .. n /\ k \in 0 .. n /\ k - 1 \in 0 .. n /\ n \in 0 .. n /\ n - (d + 1) = k - 1
    OBVIOUS
  <2>2. StartsWith(text[n], text[k]) /\ StartsWith(text[k], text[k - 1])
    BY <1>2, <2>1
  <2> HIDE DEF k
  <2>3. StartsWith(text[n], text[k - 1])
    <3> DEFINE x == text[k - 1]
               y == text[k]
               z == text[n]
    <3>1. StartsWith(z, y) /\ StartsWith(y, x) /\ Len(x) \in Nat /\ Len(y) \in Nat /\ Len(z) \in Nat
      BY <2>1, <2>2
    <3> HIDE DEF x, y, z
    <3>2. StartsWith(z, x)
      BY <3>1 DEF StartsWith
    <3> QED
      BY <3>2 DEF x, z
  <2> QED
    BY <2>1, <2>3
<1>3. \A d \in Nat : d \in S
  <2> HIDE DEF S
  <2> QED
    BY <1>1, <1>2, Induction
<1>4. ASSUME NEW k \in 0 .. n PROVE StartsWith(text[n], text[k])
  <2>1. n - k \in Nat /\ n - (n - k) = k
    OBVIOUS
  <2> QED
    BY <1>3, <2>1
<1> QED
  BY <1>4

\* The text of a quoted name: what stands where the next character begins.
LEMMA QuotedText ==
  ASSUME NEW Chars, "Q" \in Chars, NEW name \in Seq(Chars), NEW quoted, Quoting(Chars, name, quoted)
  PROVE  LET v == Copy!Quote(name)
             n == Len(name)
         IN /\ v \in Seq(Chars) /\ v[1] = "Q" /\ Len(quoted[0]) = 1
            /\ Len(v) = Len(quoted[n]) + 1 /\ v[Len(v)] = "Q"
            /\ \A k \in 1 .. n :
                 /\ Len(quoted[k]) <= Len(quoted[n])
                 /\ v[Len(quoted[k - 1]) + 1] = name[k]
                 /\ IF name[k] = "Q" THEN /\ Len(quoted[k]) = Len(quoted[k - 1]) + 2
                                          /\ v[Len(quoted[k - 1]) + 2] = "Q"
                    ELSE Len(quoted[k]) = Len(quoted[k - 1]) + 1
<1> DEFINE v == Copy!Quote(name)
           n == Len(name)
           Add(c) == IF c = "Q" THEN <<"Q", "Q">> ELSE <<c>>
           l(k) == Len(quoted[k])
<1>1. /\ n \in Nat /\ quoted[0] = <<"Q">> /\ v = Append(quoted[n], "Q")
      /\ \A k \in 0 .. n : quoted[k] \in Seq(Chars) /\ l(k) \in Nat \ {0}
      /\ \A k \in 1 .. n : quoted[k] = quoted[k - 1] \o Add(name[k])
  <2>1. n \in Nat
    OBVIOUS
  <2> QED
    BY <2>1, Zenon DEF Quoting
<1>2. \A k \in 1 .. n : /\ Len(Add(name[k])) \in Nat
                        /\ Add(name[k]) \in Seq(Chars) /\ Add(name[k])[1] = name[k] /\ name[k] \in Chars
                        /\ IF name[k] = "Q" THEN Len(Add(name[k])) = 2 /\ Add(name[k])[2] = "Q"
                           ELSE Len(Add(name[k])) = 1
  <2> TAKE k \in 1 .. n
  <2>1. name[k] \in Chars
    OBVIOUS
  <2> QED
    BY <2>1, OneOf, TwoOf
<1> HIDE DEF Add, v
<1>3. /\ v \in Seq(Chars) /\ Len(v) = l(n) + 1 /\ v[Len(v)] = "Q"
      /\ \A j \in 1 .. l(n) : v[j] = quoted[n][j]
  <2> DEFINE s == quoted[n]
  <2>1. s \in Seq(Chars) /\ v = Append(s, "Q") /\ DOMAIN s = 1 .. Len(s)
    BY <1>1
  <2> DEFINE q == "Q"
  <2>2. s \in Seq(Chars) /\ v = Append(s, q) /\ q \in Chars
    BY <2>1
  <2> HIDE DEF s, q
  <2>3. v \in Seq(Chars) /\ Len(v) = Len(s) + 1 /\ v[Len(s) + 1] = q /\ \A j \in DOMAIN s : v[j] = s[j]
    BY <2>2, AppendOf
  <2> QED
    BY <2>1, <2>3 DEF s, q
<1>4. ASSUME NEW k \in 1 .. n
      PROVE  /\ k \in 0 .. n /\ k - 1 \in 0 .. n /\ l(k - 1) \in Nat \ {0} /\ l(k) \in Nat
             /\ l(k) = l(k - 1) + Len(Add(name[k]))
             /\ \A j \in 1 .. l(k - 1) : quoted[k][j] = quoted[k - 1][j]
             /\ \A j \in 1 .. Len(Add(name[k])) : quoted[k][l(k - 1) + j] = Add(name[k])[j]
  <2> DEFINE s == quoted[k - 1]
             t == Add(name[k])
  <2>1. k \in 0 .. n /\ k - 1 \in 0 .. n
    BY <1>1
  <2>2. s \in Seq(Chars) /\ t \in Seq(Chars) /\ quoted[k] = s \o t /\ Len(s) \in Nat \ {0} /\ l(k) \in Nat
    BY <1>1, <1>2, <2>1
  <2> HIDE DEF s, t
  <2>3. /\ Len(s \o t) = Len(s) + Len(t)
        /\ \A i \in 1 .. Len(s) : (s \o t)[i] = s[i]
        /\ \A i \in 1 .. Len(t) : (s \o t)[Len(s) + i] = t[i]
    BY <2>2, ConcatOf
  <2> QED
    BY <2>1, <2>2, <2>3 DEF s, t
<1>5. \A k \in 0 .. n : l(k) <= l(n) /\ \A j \in 1 .. l(k) : v[j] = quoted[k][j]
  <2>1. n \in Nat /\ \A k \in 0 .. n : Len(quoted[k]) \in Nat
    BY <1>1
  <2>2. \A k \in 1 .. n : StartsWith(quoted[k], quoted[k - 1])
    <3> TAKE k \in 1 .. n
    <3>1. Len(Add(name[k])) \in Nat /\ l(k - 1) \in Nat /\ l(k) = l(k - 1) + Len(Add(name[k]))
      BY <1>2, <1>4
    <3>2. \A j \in 1 .. l(k - 1) : quoted[k][j] = quoted[k - 1][j]
      BY <1>4
    <3>3. l(k - 1) <= l(k)
      <4> HIDE DEF l
      <4> QED
        BY <3>1
    <3> QED
      BY <3>2, <3>3 DEF StartsWith
  <2>3. \A k \in 0 .. n : StartsWith(quoted[n], quoted[k])
    <3> HIDE DEF n
    <3> QED
      BY ONLY <2>1, <2>2, Grown
  <2> TAKE k \in 0 .. n
  <2>4. l(n) \in Nat /\ l(k) \in Nat
    BY <1>1
  <2>5. l(k) <= l(n) /\ \A j \in 1 .. l(k) : quoted[n][j] = quoted[k][j]
    BY <2>3 DEF StartsWith
  <2> HIDE DEF l
  <2>6. \A j \in 1 .. l(k) : j \in 1 .. l(n)
    BY <2>4, <2>5
  <2> QED
    BY <1>3, <2>5, <2>6
<1>6. l(0) = 1 /\ v[1] = "Q"
  <2>1. l(0) = 1 /\ quoted[0][1] = "Q" /\ 0 \in 0 .. n
    BY <1>1
  <2> QED
    BY <1>5, <2>1
<1>7. ASSUME NEW k \in 1 .. n
      PROVE  /\ l(k) <= l(n) /\ v[l(k - 1) + 1] = name[k]
             /\ IF name[k] = "Q" THEN l(k) = l(k - 1) + 2 /\ v[l(k - 1) + 2] = "Q" ELSE l(k) = l(k - 1) + 1
  <2> DEFINE t == Add(name[k])
             b == l(k - 1)
  <2>1. /\ k \in 0 .. n /\ b \in Nat \ {0} /\ l(k) = b + Len(t) /\ \A j \in 1 .. Len(t) : quoted[k][b + j] = t[j]
    BY <1>4
  <2>2. t[1] = name[k] /\ IF name[k] = "Q" THEN Len(t) = 2 /\ t[2] = "Q" ELSE Len(t) = 1
    BY <1>2
  <2>3. l(k) <= l(n) /\ \A j \in 1 .. l(k) : v[j] = quoted[k][j]
    BY <1>5, <2>1
  <2> HIDE DEF t, b, l
  <2>4. ASSUME NEW j \in 1 .. Len(t) PROVE v[b + j] = t[j]
    <3>1. b + j \in 1 .. l(k)
      BY <2>1, <2>2
    <3> QED
      BY <2>1, <2>3, <3>1
  <2>5. v[b + 1] = name[k] /\ IF name[k] = "Q" THEN l(k) = b + 2 /\ v[b + 2] = "Q" ELSE l(k) = b + 1
    <3>1. 1 \in 1 .. Len(t) /\ (name[k] = "Q" => 2 \in 1 .. Len(t))
      BY <2>2
    <3> QED
      BY <2>1, <2>2, <2>4, <3>1
  <2> QED
    BY <2>3, <2>5 DEF b
<1> HIDE DEF n
<1> QED
  BY <1>3, <1>6, <1>7 DEF v, n

\* What follows the first k elements.
From(name, k) == [j \in 1 .. Len(name) - k |-> name[k + j]]

\* ... and what is put in front of it.
LEMMA FromMeans ==
  ASSUME NEW Chars, NEW name \in Seq(Chars), NEW k \in 0 .. Len(name)
  PROVE  /\ From(name, k) \in Seq(Chars) /\ Len(From(name, k)) = Len(name) - k
         /\ \A j \in 1 .. Len(name) - k : From(name, k)[j] = name[k + j]
  BY DEF From

\* The whole name lies from its beginning, and nothing from its end.
LEMMA FromEnds ==
  ASSUME NEW Chars, NEW name \in Seq(Chars)
  PROVE  From(name, 0) = name /\ From(name, Len(name)) = <<>>
<1>1. From(name, 0) \in Seq(Chars) /\ Len(From(name, 0)) = Len(name) /\ \A j \in 1 .. Len(name) : From(name, 0)[j] = name[j]
  BY DEF From
<1> QED
  BY <1>1, SameSeq DEF From

\* What is left of a name begins with its next character.
LEMMA FromStep ==
  ASSUME NEW Chars, NEW name \in Seq(Chars), NEW k \in 1 .. Len(name)
  PROVE  <<name[k]>> \o From(name, k) = From(name, k - 1)
<1> DEFINE n == Len(name)
           s == <<name[k]>>
           t == From(name, k)
           u == From(name, k - 1)
<1>1. n \in Nat /\ k \in 0 .. n /\ k - 1 \in 0 .. n
  OBVIOUS
<1>2. s \in Seq(Chars) /\ Len(s) = 1 /\ s[1] = name[k]
  BY OneOf
<1>3. /\ t \in Seq(Chars) /\ Len(t) = n - k
      /\ \A j \in 1 .. n - k : t[j] = name[k + j]
  BY <1>1, FromMeans
<1>4. /\ u \in Seq(Chars) /\ Len(u) = n - (k - 1)
      /\ \A j \in 1 .. n - (k - 1) : u[j] = name[(k - 1) + j]
  BY <1>1, FromMeans
<1> HIDE DEF s, t, u
<1>5. /\ s \o t \in Seq(Chars) /\ Len(s \o t) = Len(s) + Len(t)
      /\ \A i \in 1 .. Len(s) : (s \o t)[i] = s[i]
      /\ \A i \in 1 .. Len(t) : (s \o t)[Len(s) + i] = t[i]
  <2>1. s \in Seq(Chars) /\ t \in Seq(Chars)
    BY <1>2, <1>3, <1>4
  <2> QED
    BY ONLY <2>1, ConcatOf
<1> DEFINE x == s \o t
<1>6. /\ x \in Seq(Chars) /\ Len(x) = n - (k - 1) /\ x[1] = name[k]
      /\ \A i \in 1 .. n - k : x[1 + i] = name[k + i]
  BY <1>1, <1>2, <1>3, <1>5
<1> HIDE DEF x
<1>7. \A i \in 1 .. Len(x) : x[i] = u[i]
  <2> TAKE i \in 1 .. Len(x)
  <2>1. CASE i = 1
    <3>1. 1 \in 1 .. n - (k - 1) /\ (k - 1) + 1 = k
      <4>1. n \in Nat /\ k \in 1 .. n
        BY <1>1
      <4> QED
        BY ONLY <4>1
    <3>2. u[1] = name[k]
      BY <1>4, <3>1
    <3> QED
      BY <1>6, <2>1, <3>2
  <2>2. CASE i # 1
    <3>1. i - 1 \in 1 .. n - k /\ 1 + (i - 1) = i /\ k + (i - 1) = (k - 1) + i /\ i \in 1 .. n - (k - 1)
      <4>1. n \in Nat /\ k \in 1 .. n /\ i \in 1 .. n - (k - 1)
        BY <1>1, <1>6
      <4> QED
        BY ONLY <2>2, <4>1
    <3> QED
      BY <1>4, <1>6, <3>1
  <2> QED
    BY <2>1, <2>2
<1>8. x = u
  BY <1>4, <1>6, <1>7, SameSeq
<1> QED
  BY <1>8 DEF s, t, u, x

\* The text s stands in v behind its first o characters.
Stands(s, v, o) == o + Len(s) <= Len(v) /\ \A j \in 1 .. Len(s) : v[o + j] = s[j]

\* A quoted name is read as the name wherever it stands, up to the quote that ends it.
LEMMA QuoteStands ==
  ASSUME NEW Chars, "Q" \in Chars, NEW name \in Seq(Chars), NEW v, Len(v) \in Nat, NEW o \in Nat,
         Stands(Copy!Quote(name), v, o), ~Copy!Sees(v, o + Len(Copy!Quote(name)) + 1, "Q")
  PROVE  LET m == Len(Copy!Quote(name))
         IN /\ m \in Nat \ {0} /\ v[o + 1] = "Q"
            /\ Copy!QuotedIdentifier(v, o + 2) = {Copy!Read(o + m + 1, name)}
<1> DEFINE w == Copy!Quote(name)
           n == Len(name)
           m == Len(w)
           Rest(k) == From(name, k)
<1>1. PICK quoted : Quoting(Chars, name, quoted)
  BY QuoteSteps
<1> DEFINE l(k) == Len(quoted[k])
<1>2. /\ w[1] = "Q" /\ l(0) = 1 /\ m = l(n) + 1 /\ w[m] = "Q"
      /\ \A k \in 1 .. n : /\ l(k) <= l(n) /\ w[l(k - 1) + 1] = name[k]
                           /\ IF name[k] = "Q" THEN l(k) = l(k - 1) + 2 /\ w[l(k - 1) + 2] = "Q"
                              ELSE l(k) = l(k - 1) + 1
  BY <1>1, QuotedText
<1>3. n \in Nat /\ \A k \in 0 .. n : l(k) \in Nat \ {0}
  BY <1>1 DEF Quoting
<1>4. m \in Nat \ {0} /\ o + m <= Len(v) /\ \A j \in 1 .. m : v[o + j] = w[j]
  <2>1. l(n) \in Nat
    BY <1>3
  <2> QED
    BY <1>2, <2>1 DEF Stands
<1> HIDE DEF w, m
<1>5. PICK read : ReadsFrom(v, o + 2, read)
  <2>1. o + 2 \in Nat /\ o + 2 <= Len(v) + 2
    BY <1>4
  <2> QED
    BY <2>1, ReadSteps
<1> HIDE DEF l
<1>7. \A k \in 1 .. n : <<name[k]>> \o Rest(k) = Rest(k - 1)
  BY FromStep
<1> HIDE DEF Rest
<1>8. \A c, e, r : Copy!Longer(c, {Copy!Read(e, r)}) = {Copy!Read(e, <<c>> \o r)}
  BY DEF Copy!Longer, Copy!Read
<1> DEFINE Out(k) == {Copy!Read(o + m + 1, Rest(k))}
           S == {d \in Nat : n - d \in 0 .. n => read[o + l(n - d) + 1] = Out(n - d)}
<1>9. 0 \in S
  <2> DEFINE p == o + l(n) + 1
  <2>1. p = o + m /\ p \in o + 2 .. Len(v) + 2 /\ n - 0 = n /\ ~(p > Len(v)) /\ v[p] = "Q"
    <3>1. l(n) \in Nat \ {0} /\ m \in 1 .. m
      BY <1>3, <1>4
    <3> QED
      BY <1>2, <1>4, <3>1
  <2>2. ~Copy!Sees(v, p + 1, "Q")
    BY <2>1 DEF w, m
  <2> HIDE DEF p
  <2>3. read[p] = {Copy!Read(p + 1, <<>>)}
    BY <1>5, <2>1, <2>2 DEF ReadsFrom
  <2>4. Rest(n) = <<>>
    BY FromEnds DEF Rest
  <2> QED
    BY <2>1, <2>3, <2>4 DEF p
<1>10. ASSUME NEW d \in Nat, d \in S PROVE d + 1 \in S
  <2> DEFINE k == n - d
             p == o + l(k - 1) + 1
  <2> SUFFICES ASSUME n - (d + 1) \in 0 .. n PROVE read[o + l(n - (d + 1)) + 1] = Out(n - (d + 1))
    OBVIOUS
  <2>1. k \in 1 .. n /\ k \in 0 .. n /\ k - 1 \in 0 .. n /\ n - (d + 1) = k - 1
    BY <1>3
  <2>2. read[o + l(k) + 1] = Out(k)
    BY <1>10, <2>1
  <2> HIDE DEF k, Out
  <2>3. /\ p \in o + 2 .. Len(v) + 2 /\ ~(p > Len(v)) /\ v[p] = name[k]
        /\ name[k] = "Q" => o + l(k) + 1 = p + 2 /\ v[p + 1] = "Q" /\ p + 1 <= Len(v)
        /\ name[k] # "Q" => o + l(k) + 1 = p + 1
    <3> DEFINE b == l(k - 1)
    <3>1. /\ l(k) <= l(n) /\ w[b + 1] = name[k]
          /\ IF name[k] = "Q" THEN l(k) = b + 2 /\ w[b + 2] = "Q" ELSE l(k) = b + 1
      BY <1>2, <2>1
    <3>2. l(k) \in Nat /\ b \in Nat \ {0} /\ l(n) \in Nat /\ m = l(n) + 1
      BY <1>2, <1>3, <2>1
    <3> HIDE DEF b
    <3>3. b + 1 \in 1 .. m /\ (name[k] = "Q" => b + 2 \in 1 .. m)
      BY <3>1, <3>2
    <3>4. v[o + (b + 1)] = name[k] /\ (name[k] = "Q" => v[o + (b + 2)] = "Q")
      BY <1>4, <3>1, <3>3
    <3>5. p = o + (b + 1) /\ p + 1 = o + (b + 2)
      BY <3>2 DEF b
    <3>6. o + (b + 1) \in o + 2 .. Len(v) /\ (name[k] = "Q" => o + (b + 2) <= Len(v))
      BY <1>4, <3>2, <3>3
    <3>7. o + l(k) + 1 = IF name[k] = "Q" THEN o + (b + 2) + 1 ELSE o + (b + 1) + 1
      BY <3>1, <3>2
    <3> HIDE DEF p
    <3>8. p \in o + 2 .. Len(v) /\ v[p] = name[k]
      BY <3>4, <3>5, <3>6
    <3>9. CASE name[k] = "Q"
      <4>1. v[p + 1] = "Q" /\ p + 1 <= Len(v) /\ o + l(k) + 1 = (p + 1) + 1
        BY <3>4, <3>5, <3>6, <3>7, <3>9
      <4> QED
        BY <3>8, <3>9, <4>1
    <3>10. CASE name[k] # "Q"
      BY <3>5, <3>7, <3>8, <3>10
    <3> QED
      BY <3>9, <3>10
  <2> HIDE DEF p
  <2>4. read[p] = IF name[k] # "Q" THEN Copy!Longer(name[k], read[p + 1])
                  ELSE IF Copy!Sees(v, p + 1, "Q") THEN Copy!Longer("Q", read[p + 2])
                  ELSE {Copy!Read(p + 1, <<>>)}
    BY <1>5, <2>3 DEF ReadsFrom
  <2>5. name[k] = "Q" => Copy!Sees(v, p + 1, "Q")
    BY <2>3 DEF Copy!Sees
  <2>6. read[p] = Copy!Longer(name[k], Out(k))
    <3>1. CASE name[k] = "Q"
      <4>1. read[p] = Copy!Longer("Q", read[p + 2]) /\ p + 2 = o + l(k) + 1
        BY <2>3, <2>4, <2>5, <3>1
      <4> QED
        BY <2>2, <3>1, <4>1
    <3>2. CASE name[k] # "Q"
      <4>1. read[p] = Copy!Longer(name[k], read[p + 1]) /\ p + 1 = o + l(k) + 1
        BY <2>3, <2>4, <3>2
      <4> QED
        BY <2>2, <4>1
    <3> QED
      BY <3>1, <3>2
  <2>7. Copy!Longer(name[k], Out(k)) = Out(k - 1)
    <3>1. Copy!Longer(name[k], {Copy!Read(o + m + 1, Rest(k))}) = {Copy!Read(o + m + 1, <<name[k]>> \o Rest(k))}
      BY <1>8, Zenon
    <3>2. <<name[k]>> \o Rest(k) = Rest(k - 1)
      BY <1>7, <2>1
    <3> QED
      BY <3>1, <3>2, Zenon DEF Out
  <2> QED
    BY <2>1, <2>6, <2>7 DEF p
<1>11. read[o + 2] = {Copy!Read(o + m + 1, name)}
  <2>1. \A d \in Nat : d \in S
    <3> HIDE DEF S
    <3> QED
      BY <1>9, <1>10, Induction
  <2>2. n \in Nat /\ n - n = 0 /\ 0 \in 0 .. n
    BY <1>3
  <2>3. read[o + l(0) + 1] = Out(0)
    BY <2>1, <2>2
  <2>4. Rest(0) = name
    BY FromEnds DEF Rest
  <2>5. o + l(0) + 1 = o + 2
    BY <1>2
  <2> QED
    BY <2>3, <2>4, <2>5
<1>12. v[o + 1] = "Q"
  <2>1. 1 \in 1 .. m
    BY <1>4
  <2> QED
    BY <1>2, <1>4, <2>1
<1> QED
  BY <1>4, <1>5, <1>11, <1>12 DEF ReadsFrom, w, m

-----------------------------------------------------------------------------
(* The header that pg_dump writes is read back.                            *)

\* What the spaces at p end before (SMT does not read the string of a space).
IsSpace(c) == c = " "
Skips(v, p, q) == /\ q \in p .. Len(v) + 1 /\ \A i \in p .. q - 1 : IsSpace(v[i])
                  /\ q = Len(v) + 1 \/ ~IsSpace(v[q])

\* The parser skips spaces up to the next character that is none.
LEMMA SpacesAt ==
  ASSUME NEW v, Len(v) \in Nat, NEW p \in Nat, NEW q, Skips(v, p, q)
  PROVE  Copy!Spaces(v, p) = q
<1> DEFINE s == Copy!Spaces(v, p)
<1>1. Skips(v, p, s)
  BY Zenon DEF Skips, IsSpace, Copy!Spaces
<1> HIDE DEF s
<1>2. \A x, y : Skips(v, p, x) /\ Skips(v, p, y) => ~(x < y)
  BY DEF Skips
<1>3. q \in Int /\ s \in Int
  BY <1>1 DEF Skips
<1>4. ~(s < q) /\ ~(q < s)
  BY <1>1, <1>2, Zenon
<1>5. s = q
  BY ONLY <1>3, <1>4
<1> QED
  BY <1>5 DEF s

\* Behind the spaces the parser is no further than behind the text.
LEMMA SpacesEnd ==
  ASSUME NEW v, Len(v) \in Nat, NEW p \in 1 .. Len(v) + 1
  PROVE  Copy!Spaces(v, p) \in p .. Len(v) + 1
<1> DEFINE e == Len(v) + 1
           S == {d \in Nat : \E x : Skips(v, e - d, x)}
<1>1. 0 \in S
  <2>1. Skips(v, e - 0, e)
    BY DEF Skips
  <2> QED
    BY <2>1
<1>2. ASSUME NEW d \in Nat, d \in S PROVE d + 1 \in S
  <2> DEFINE a == e - (d + 1)
  <2>1. PICK x : Skips(v, e - d, x)
    BY <1>2
  <2>2. a \in Int /\ e - d = a + 1 /\ a < e /\ e \in Nat
    OBVIOUS
  <2>3. \E y : Skips(v, a, y)
    <3> HIDE DEF a
    <3>1. CASE IsSpace(v[a])
      <4>1. \A i \in a .. x - 1 : i = a \/ i \in a + 1 .. x - 1
        BY <2>1, <2>2 DEF Skips
      <4>2. Skips(v, a, x)
        BY <2>1, <2>2, <3>1, <4>1 DEF Skips
      <4> QED
        BY <4>2
    <3>2. CASE ~IsSpace(v[a])
      <4>1. Skips(v, a, a)
        BY <2>2, <3>2 DEF Skips
      <4> QED
        BY <4>1
    <3> QED
      BY <3>1, <3>2
  <2> QED
    BY <2>3
<1>3. e - p \in Nat /\ e - (e - p) = p
  OBVIOUS
<1>4. PICK x : Skips(v, p, x)
  <2> HIDE DEF S
  <2>1. e - p \in S
    BY <1>1, <1>2, <1>3, Induction
  <2> QED
    BY <1>3, <2>1 DEF S
<1>5. Copy!Spaces(v, p) = x
  BY <1>4, SpacesAt
<1> QED
  BY <1>4, <1>5 DEF Skips

\* What is read ends behind the place it was read at.
LEMMA QuotedEnd ==
  ASSUME NEW v, Len(v) \in Nat, NEW p \in 1 .. Len(v) + 2, NEW r \in Copy!QuotedIdentifier(v, p)
  PROVE  r.next \in p + 1 .. Len(v) + 1
<1>1. PICK read : ReadsFrom(v, p, read)
  BY ReadSteps
<1> DEFINE e == Len(v) + 2
           Finishes(i) == \A x \in read[i] : "next" \in DOMAIN x /\ x.next \in i + 1 .. Len(v) + 1
           S == {d \in Nat : e - d >= p => Finishes(e - d) /\ (d = 0 \/ Finishes(e - d + 1))}
<1> HIDE DEF Finishes
<1>2. Finishes(e)
  <2>1. e \in p .. Len(v) + 2 /\ e > Len(v)
    OBVIOUS
  <2> HIDE DEF e
  <2>2. read[e] = {}
    BY <1>1, <2>1 DEF ReadsFrom
  <2> QED
    BY <2>2 DEF Finishes
<1>3. 0 \in S
  <2>1. e - 0 = e
    OBVIOUS
  <2> QED
    BY <1>2, <2>1
<1>4. \A c, i : \A rest : (\A x \in rest : "next" \in DOMAIN x /\ x.next \in i)
                   => \A x \in Copy!Longer(c, rest) : "next" \in DOMAIN x /\ x.next \in i
  BY DEF Copy!Longer
<1>5. ASSUME NEW d \in Nat, d \in S PROVE d + 1 \in S
  <2> DEFINE i == e - (d + 1)
  <2> SUFFICES ASSUME i >= p PROVE Finishes(i) /\ Finishes(i + 1)
    <3>1. i + 1 = e - (d + 1) + 1
      OBVIOUS
    <3> QED
      BY <3>1
  <2>1. i \in p .. e /\ i \in Nat \ {0} /\ i < e /\ e - d = i + 1 /\ e - d + 1 = i + 2 /\ e - d >= p
    OBVIOUS
  <2>2. Finishes(i + 1) /\ (d = 0 \/ Finishes(i + 2))
    BY <1>5, <2>1
  <2>3. read[i] = IF i > Len(v) THEN {}
                  ELSE IF v[i] # "Q" THEN Copy!Longer(v[i], read[i + 1])
                  ELSE IF Copy!Sees(v, i + 1, "Q") THEN Copy!Longer("Q", read[i + 2])
                  ELSE {Copy!Read(i + 1, <<>>)}
    BY <1>1, <2>1 DEF ReadsFrom
  <2>4. d = 0 <=> i + 1 = e
    OBVIOUS
  <2> HIDE DEF i
  <2>5. CASE i > Len(v)
    BY <2>2, <2>3, <2>5 DEF Finishes
  <2>6. ASSUME ~(i > Len(v)), NEW c, NEW j \in {i + 1, i + 2}, read[i] = Copy!Longer(c, read[j]), Finishes(j) PROVE Finishes(i)
    <3>1. \A x \in read[j] : "next" \in DOMAIN x /\ x.next \in i + 1 .. Len(v) + 1
      BY <2>1, <2>6 DEF Finishes
    <3> QED
      BY <1>4, <2>6, <3>1 DEF Finishes
  <2>7. CASE ~(i > Len(v)) /\ v[i] # "Q"
    BY <2>2, <2>3, <2>6, <2>7
  <2>8. CASE ~(i > Len(v)) /\ v[i] = "Q" /\ Copy!Sees(v, i + 1, "Q")
    <3>1. Finishes(i + 2)
      BY <2>1, <2>2, <2>4, <2>8 DEF Copy!Sees
    <3> QED
      BY <2>2, <2>3, <2>6, <2>8, <3>1
  <2>9. CASE ~(i > Len(v)) /\ v[i] = "Q" /\ ~Copy!Sees(v, i + 1, "Q")
    <3>1. read[i] = {Copy!Read(i + 1, <<>>)}
      BY <2>3, <2>9
    <3>2. i + 1 \in i + 1 .. Len(v) + 1
      BY <2>1, <2>9
    <3> QED
      BY <2>2, <3>1, <3>2 DEF Finishes, Copy!Read
  <2> QED
    BY <2>2, <2>5, <2>7, <2>8, <2>9
<1>6. e - p \in Nat /\ e - (e - p) = p
  OBVIOUS
<1>7. Finishes(p)
  <2> HIDE DEF S
  <2>1. e - p \in S
    BY <1>3, <1>5, <1>6, Induction
  <2> QED
    BY <1>6, <2>1 DEF S
<1> QED
  BY <1>1, <1>7 DEF Finishes, ReadsFrom

\* The parser of names goes forward, and no further than behind the text.
LEMMA IdentifierEnd ==
  ASSUME NEW v, Len(v) \in Nat, NEW at \in 1 .. Len(v) + 1, NEW c \in Copy!Identifier(v, at)
  PROVE  c.next \in at + 1 .. Len(v) + 1
<1> DEFINE p == Copy!Spaces(v, at)
<1>1. p \in at .. Len(v) + 1
  BY SpacesEnd
<1> HIDE DEF p
<1>2. CASE Copy!Sees(v, p, "Q")
  <2>1. p + 1 \in 1 .. Len(v) + 2
    BY <1>1
  <2>2. c \in Copy!QuotedIdentifier(v, p + 1)
    BY <1>2 DEF Copy!Identifier, p
  <2> QED
    BY <1>1, <2>1, <2>2, QuotedEnd
<1>3. CASE ~Copy!Sees(v, p, "Q")
  <2>1. PICK q \in p + 1 .. Len(v) + 1 : c = Copy!Read(q, SubSeq(v, p, q - 1))
    BY <1>3 DEF Copy!Identifier, p
  <2>2. c.next = q
    BY <2>1 DEF Copy!Read
  <2> QED
    BY <1>1, <2>2
<1> QED
  BY <1>2, <1>3

\* A quoted name is read as the name, up to the end of the text.
LEMMA QuoteIsRead ==
  ASSUME NEW Chars, "Q" \in Chars, NEW name \in Seq(Chars)
  PROVE  LET v == Copy!Quote(name)
         IN Len(v) \in Nat \ {0} /\ Copy!Identifier(v, 1) = {Copy!Read(Len(v) + 1, name)}
<1> DEFINE v == Copy!Quote(name)
           m == Len(v)
<1>1. PICK quoted : Quoting(Chars, name, quoted)
  BY QuoteSteps
<1>2. v \in Seq(Chars) /\ v[1] = "Q"
  BY <1>1, QuotedText
<1>3. m \in Nat
  BY <1>2
<1>4. m \in Nat \ {0} /\ Copy!QuotedIdentifier(v, 2) = {Copy!Read(m + 1, name)}
  <2>1. Stands(v, v, 0)
    BY <1>3 DEF Stands
  <2>2. ~Copy!Sees(v, 0 + m + 1, "Q")
    BY <1>3 DEF Copy!Sees
  <2>3. m \in Nat \ {0} /\ Copy!QuotedIdentifier(v, 0 + 2) = {Copy!Read(0 + m + 1, name)}
    BY <1>3, <2>1, <2>2, QuoteStands
  <2> QED
    BY <1>3, <2>3
<1> HIDE DEF v, m
<1>5. Copy!Spaces(v, 1) = 1
  <2>1. ~IsSpace(v[1])
    BY <1>2, Zenon DEF IsSpace
  <2>2. Skips(v, 1, 1)
    BY <1>3, <1>4, <2>1 DEF Skips, m
  <2> QED
    BY <1>3, <2>2, SpacesAt DEF m
<1>6. Copy!Identifier(v, 1) = Copy!QuotedIdentifier(v, 2)
  <2>1. Copy!Sees(v, 1, "Q")
    BY <1>2, <1>3, <1>4 DEF Copy!Sees, m
  <2> QED
    BY <1>5, <2>1 DEF Copy!Identifier
<1> QED
  BY <1>4, <1>6 DEF v, m

\* A quoted name is read back as this name and as no other, whatever its characters,
\* quotes among them (quotePGIdentifier, restore_fingerprint.go:47-49).
THEOREM QuoteNames ==
  ASSUME NEW Chars, "Q" \in Chars, NEW name \in Seq(Chars), NEW other
  PROVE  Copy!Identifier(Copy!Quote(name), 1) = {Copy!Read(Len(Copy!Quote(name)) + 1, other)} <=> other = name
<1> DEFINE e == Len(Copy!Quote(name)) + 1
<1>1. Copy!Identifier(Copy!Quote(name), 1) = {Copy!Read(e, name)}
  BY QuoteIsRead
<1>2. Copy!Read(e, name).value = name /\ Copy!Read(e, other).value = other
  BY DEF Copy!Read
<1> HIDE DEF e
<1>3. {Copy!Read(e, name)} = {Copy!Read(e, other)} => Copy!Read(e, name) = Copy!Read(e, other)
  OBVIOUS
<1>4. {Copy!Read(e, name)} = {Copy!Read(e, other)} <=> other = name
  BY <1>2, <1>3, Zenon
<1> QED
  BY <1>1, <1>4 DEF e

\* Names of characters, and a sequence of them.
IsHeader(h, Chars) == h.schema \in Seq(Chars) /\ h.name \in Seq(Chars) /\ h.columns \in Seq(Seq(Chars))

\* A table is what the query of the script means exactly if its names are those of the
\* fingerprint: quotePGIdentifier loses nothing, whatever the characters.
LEMMA ScriptNames ==
  ASSUME NEW Chars, "Q" \in Chars, NEW F, NEW fps \in Seq(F), NEW i \in 1 .. Len(fps), NEW t,
         IsHeader(fps[i].header, Chars), IsHeader(t, Chars)
  PROVE  Copy!Names(Copy!VerificationScript(fps)[i], t)
           <=> /\ fps[i].header.schema = t.schema /\ fps[i].header.name = t.name
               /\ fps[i].header.columns = t.columns
<1> DEFINE h == fps[i].header
           Quoted(name) == Copy!Quote(name)
           q == [begin  |-> Copy!Marker("BEGIN", i - 1), end |-> Copy!Marker("END", i - 1),
                 schema |-> Quoted(h.schema), name |-> Quoted(h.name),
                 columns |-> [j \in DOMAIN h.columns |-> Quoted(h.columns[j])]]
           Is(text, name) == Copy!Identifier(text, 1) = {Copy!Read(Len(text) + 1, name)}
<1>1. Copy!VerificationScript(fps)[i] = q
  BY DEF Copy!VerificationScript
<1> HIDE DEF Quoted
<1>2. q.schema = Quoted(h.schema) /\ q.name = Quoted(h.name) /\ q.columns = [j \in DOMAIN h.columns |-> Quoted(h.columns[j])]
  OBVIOUS
<1> HIDE DEF q
<1>3. Copy!Names(q, t) <=> /\ Is(q.schema, t.schema) /\ Is(q.name, t.name)
                           /\ Len(q.columns) = Len(t.columns)
                           /\ \A j \in DOMAIN q.columns : Is(q.columns[j], t.columns[j])
  BY Zenon DEF Copy!Names
<1> HIDE DEF Is
<1>4. ASSUME NEW name \in Seq(Chars), NEW other PROVE Is(Quoted(name), other) <=> other = name
  BY <1>4, QuoteNames DEF Is, Quoted
<1>5. h.schema \in Seq(Chars) /\ h.name \in Seq(Chars) /\ h.columns \in Seq(Seq(Chars)) /\ t.columns \in Seq(Seq(Chars))
  BY DEF IsHeader
<1>6. Is(q.schema, t.schema) <=> h.schema = t.schema
  BY <1>2, <1>4, <1>5
<1>7. Is(q.name, t.name) <=> h.name = t.name
  BY <1>2, <1>4, <1>5
<1> DEFINE cs == h.columns
           ds == t.columns
           N  == Seq(Chars)
<1> HIDE DEF h
<1>8. cs \in Seq(N) /\ ds \in Seq(N)
  BY <1>5
<1>9. q.columns = [j \in DOMAIN cs |-> Quoted(cs[j])]
  BY <1>2
<1> HIDE DEF cs, ds, N
<1>10. Len(cs) \in Nat /\ Len(ds) \in Nat /\ DOMAIN cs = 1 .. Len(cs) /\ \A j \in 1 .. Len(cs) : cs[j] \in N
  BY <1>8
<1>11. DOMAIN q.columns = 1 .. Len(cs) /\ Len(q.columns) = Len(cs) /\ \A j \in 1 .. Len(cs) : q.columns[j] = Quoted(cs[j])
  <2> DEFINE X == {Quoted(cs[j]) : j \in 1 .. Len(cs)}
             y == [j \in 1 .. Len(cs) |-> Quoted(cs[j])]
  <2>1. q.columns = y
    BY <1>9, <1>10
  <2>2. y \in Seq(X) /\ Len(y) = Len(cs)
    BY <1>10
  <2> QED
    BY <2>1, <2>2
<1>12. (\A j \in DOMAIN q.columns : Is(q.columns[j], ds[j])) <=> \A j \in 1 .. Len(cs) : ds[j] = cs[j]
  <2>1. ASSUME NEW j \in 1 .. Len(cs) PROVE Is(q.columns[j], ds[j]) <=> ds[j] = cs[j]
    <3>1. q.columns[j] = Quoted(cs[j]) /\ cs[j] \in Seq(Chars)
      BY <1>10, <1>11 DEF N
    <3> QED
      BY <1>4, <3>1
  <2> QED
    BY <1>11, <2>1
<1>13. Len(q.columns) = Len(ds) /\ (\A j \in DOMAIN q.columns : Is(q.columns[j], ds[j])) <=> cs = ds
  <2>1. ASSUME Len(cs) = Len(ds), \A j \in 1 .. Len(cs) : ds[j] = cs[j] PROVE cs = ds
    BY <1>8, <2>1, SameSeq
  <2> QED
    BY <1>11, <1>12, <2>1
<1> QED
  BY <1>1, <1>3, <1>6, <1>7, <1>13, Zenon DEF cs, ds, h

\* What is printed of one table: its rows between its markers, behind the rest.
LEMMA Surrounded ==
  ASSUME NEW M, NEW s \in Seq(M), NEW b \in M, NEW rows \in Seq(M), NEW e \in M
  PROVE  LET t == s \o <<b>> \o rows \o <<e>>
         IN /\ t \in Seq(M) /\ Len(s) \in Nat /\ Len(rows) \in Nat /\ Len(t) = Len(s) + Len(rows) + 2
            /\ \A i \in 1 .. Len(s) : t[i] = s[i]
            /\ t[Len(s) + 1] = b /\ t[Len(s) + Len(rows) + 2] = e
            /\ \A i \in 1 .. Len(rows) : t[(Len(s) + 1) + i] = rows[i]
<1> DEFINE x == s \o <<b>>
           y == x \o rows
           z == y \o <<e>>
           one == <<b>>
           two == <<e>>
<1>1. one \in Seq(M) /\ Len(one) = 1 /\ one[1] = b
  BY OneOf
<1>2. two \in Seq(M) /\ Len(two) = 1 /\ two[1] = e
  BY OneOf
<1>3. x = s \o one /\ z = y \o two
  OBVIOUS
<1> HIDE DEF one, two, x
<1>4. /\ x \in Seq(M) /\ Len(s) \in Nat /\ Len(x) = Len(s) + 1
      /\ (\A i \in 1 .. Len(s) : x[i] = s[i]) /\ x[Len(s) + 1] = b
  <2>1. s \in Seq(M) /\ one \in Seq(M)
    BY <1>1
  <2>2. /\ s \o one \in Seq(M) /\ Len(s) \in Nat /\ Len(s \o one) = Len(s) + Len(one)
        /\ \A i \in 1 .. Len(s) : (s \o one)[i] = s[i]
        /\ \A i \in 1 .. Len(one) : (s \o one)[Len(s) + i] = one[i]
    BY ONLY <2>1, ConcatOf
  <2>3. 1 \in 1 .. Len(one)
    BY <1>1
  <2> QED
    BY <1>1, <1>3, <2>2, <2>3
<1> HIDE DEF y
<1>5. /\ y \in Seq(M) /\ Len(rows) \in Nat /\ Len(y) = Len(x) + Len(rows)
      /\ (\A i \in 1 .. Len(x) : y[i] = x[i]) /\ \A i \in 1 .. Len(rows) : y[Len(x) + i] = rows[i]
  <2>1. x \in Seq(M) /\ rows \in Seq(M)
    BY <1>4
  <2>2. /\ x \o rows \in Seq(M) /\ Len(rows) \in Nat /\ Len(x \o rows) = Len(x) + Len(rows)
        /\ \A i \in 1 .. Len(x) : (x \o rows)[i] = x[i]
        /\ \A i \in 1 .. Len(rows) : (x \o rows)[Len(x) + i] = rows[i]
    BY ONLY <2>1, ConcatOf
  <2> QED
    BY <2>2 DEF y
<1> HIDE DEF z
<1>6. /\ z \in Seq(M) /\ Len(z) = Len(y) + 1
      /\ (\A i \in 1 .. Len(y) : z[i] = y[i]) /\ z[Len(y) + 1] = e
  <2>1. y \in Seq(M) /\ two \in Seq(M)
    BY <1>2, <1>5
  <2>2. /\ y \o two \in Seq(M) /\ Len(y) \in Nat /\ Len(y \o two) = Len(y) + Len(two)
        /\ \A i \in 1 .. Len(y) : (y \o two)[i] = y[i]
        /\ \A i \in 1 .. Len(two) : (y \o two)[Len(y) + i] = two[i]
    BY ONLY <2>1, ConcatOf
  <2>3. 1 \in 1 .. Len(two)
    BY <1>2
  <2> QED
    BY <1>2, <1>3, <2>2, <2>3
<1>7. /\ Len(z) = Len(s) + Len(rows) + 2
      /\ \A i \in 1 .. Len(s) : z[i] = s[i]
      /\ z[Len(s) + 1] = b /\ z[Len(s) + Len(rows) + 2] = e
  BY <1>4, <1>5, <1>6
<1>8. ASSUME NEW i \in 1 .. Len(rows) PROVE z[(Len(s) + 1) + i] = rows[i]
  <2>1. Len(x) + i \in 1 .. Len(y)
    BY <1>4, <1>5
  <2> QED
    BY <1>4, <1>5, <1>6, <2>1
<1> QED
  BY <1>4, <1>5, <1>6, <1>7, <1>8 DEF x, y, z

\* The script asks for each table once: query i means table of[i] and no other.
Asks(script, tables, of) ==
  /\ of \in [1 .. Len(script) -> DOMAIN tables]
  /\ \A i \in 1 .. Len(script) :
       /\ script[i].begin = Copy!Marker("BEGIN", i - 1) /\ script[i].end = Copy!Marker("END", i - 1)
       /\ \A j \in DOMAIN tables : Copy!Names(script[i], tables[j]) <=> j = of[i]

\* The states psql goes through.
AskedStates(script, tables, asked) ==
  /\ asked[0] = [lines |-> <<Copy!Blank>>, stopped |-> FALSE]
  /\ \A k \in 1 .. Len(script) : asked[k] = Copy!Ask(tables, asked[k - 1], script[k])

\* What psql has printed after each line of the script exists, and the last is its output.
LEMMA AskSteps ==
  ASSUME NEW script, NEW tables, Len(script) \in Nat
  PROVE  \E asked : /\ AskedStates(script, tables, asked)
                    /\ LET end == asked[Len(script)]
                       IN Copy!Output(script, tables) = IF end.stopped THEN end.lines ELSE Append(end.lines, Copy!Done)
<1> DEFINE n     == Len(script)
           first == [lines |-> <<Copy!Blank>>, stopped |-> FALSE]
           P(x, i) == Copy!Ask(tables, x, script[i])
           Is(f, k) == f = [i \in 0 .. k |-> IF i = 0 THEN first ELSE P(f[i - 1], i)]
           S     == {k \in Nat : \E f : Is(f, k)}
           asked == CHOOSE f : Is(f, n)
<1>1. Copy!Output(script, tables) =
        IF asked[n].stopped THEN asked[n].lines ELSE Append(asked[n].lines, Copy!Done)
  BY Zenon DEF Copy!Output
<1> HIDE DEF P, first
<1>2. 0 \in S
  <2> DEFINE f == [i \in 0 .. 0 |-> first]
  <2>1. Is(f, 0)
    OBVIOUS
  <2> QED
    BY <2>1
<1>3. ASSUME NEW k \in Nat, k \in S PROVE k + 1 \in S
  <2> PICK f : Is(f, k)
    BY <1>3
  <2> DEFINE g == [i \in 0 .. k + 1 |-> IF i = k + 1 THEN P(f[k], k + 1) ELSE f[i]]
             h == [i \in 0 .. k + 1 |-> IF i = 0 THEN first ELSE P(g[i - 1], i)]
  <2>1. \A i \in 0 .. k + 1 : g[i] = h[i]
    <3> TAKE i \in 0 .. k + 1
    <3>1. CASE i = k + 1
      BY <3>1
    <3>2. CASE i = 0
      BY <3>2
    <3>3. CASE i \in 1 .. k
      <4>1. g[i] = f[i] /\ g[i - 1] = f[i - 1] /\ h[i] = P(g[i - 1], i)
        BY <3>3
      <4>2. f[i] = P(f[i - 1], i)
        BY <3>3
      <4> QED
        BY <4>1, <4>2
    <3> QED
      BY <3>1, <3>2, <3>3
  <2>2. DOMAIN g = 0 .. k + 1 /\ DOMAIN h = 0 .. k + 1 /\ g = [i \in DOMAIN g |-> g[i]] /\ h = [i \in DOMAIN h |-> h[i]]
    OBVIOUS
  <2> HIDE DEF g
  <2>3. g = h
    <3> HIDE DEF h
    <3> QED
      BY <2>1, <2>2
  <2>4. Is(g, k + 1)
    BY <2>3
  <2> HIDE DEF Is
  <2> QED
    BY <2>4
<1>4. n \in S
  <2> HIDE DEF S
  <2> QED
    BY <1>2, <1>3, Induction
<1>5. Is(asked, n)
  <2> HIDE DEF Is
  <2> QED
    BY <1>4, Zenon
<1> HIDE DEF asked
<1>6. asked[0] = first /\ \A i \in 1 .. n : asked[i] = P(asked[i - 1], i)
  <2>1. n \in Nat
    OBVIOUS
  <2> HIDE DEF n
  <2> QED
    BY <1>5, <2>1
<1>7. AskedStates(script, tables, asked)
  BY <1>6, Zenon DEF AskedStates, P, first
<1> QED
  BY <1>1, <1>7

\* If each query means one table, psql prints them in the order of the script.
LEMMA OutputPrinted ==
  ASSUME NEW script, NEW tables, NEW of, NEW L, Len(script) \in Nat, Asks(script, tables, of),
         \A i \in 1 .. Len(script) : tables[of[i]].rows \in Seq(L)
  PROVE  \E at : Printed(Copy!Output(script, tables), [i \in 1 .. Len(script) |-> tables[of[i]].rows], at)
<1> DEFINE n == Len(script)
           R(i) == tables[of[i]].rows
           B(i) == Copy!Marker("BEGIN", i - 1)
           E(i) == Copy!Marker("END", i - 1)
           M == L \cup {Copy!Blank, Copy!Done} \cup {B(i) : i \in 1 .. n} \cup {E(i) : i \in 1 .. n}
           Step(s, i) == s \o <<B(i)>> \o R(i) \o <<E(i)>>
           output == Copy!Output(script, tables)
<1>1. PICK asked : /\ AskedStates(script, tables, asked)
                   /\ output = IF asked[n].stopped THEN asked[n].lines ELSE Append(asked[n].lines, Copy!Done)
  BY AskSteps
<1>2. ASSUME NEW i \in 1 .. n, NEW s, s.stopped = FALSE, DOMAIN s = {"lines", "stopped"}
      PROVE  LET t == Copy!Ask(tables, s, script[i])
             IN t.stopped = FALSE /\ DOMAIN t = {"lines", "stopped"} /\ t.lines = Step(s.lines, i)
  <2> DEFINE q == script[i]
             meant == {j \in DOMAIN tables : Copy!Names(q, tables[j])}
             t == Copy!Ask(tables, s, q)
  <2>1. q.begin = B(i) /\ q.end = E(i) /\ of[i] \in DOMAIN tables /\ meant = {of[i]}
    BY DEF Asks
  <2>2. (CHOOSE j \in meant : TRUE) = of[i] /\ meant # {}
    BY <2>1
  <2>3. t = [s EXCEPT !.lines = @ \o <<q.begin>> \o tables[CHOOSE j \in meant : TRUE].rows \o <<q.end>>]
    BY <1>2, <2>2, Zenon DEF Copy!Ask
  <2> DEFINE lines == s.lines \o <<q.begin>> \o tables[CHOOSE j \in meant : TRUE].rows \o <<q.end>>
  <2>4. t = [s EXCEPT !.lines = lines]
    BY <2>3
  <2>5. lines = Step(s.lines, i)
    BY <2>1, <2>2
  <2> HIDE DEF lines, t
  <2>6. t.stopped = FALSE /\ DOMAIN t = {"lines", "stopped"} /\ t.lines = lines
    BY <1>2, <2>4
  <2> QED
    BY <2>5, <2>6 DEF t
<1>3. n \in Nat /\ Copy!Blank \in M /\ Copy!Done \in M /\ \A i \in 1 .. n : B(i) \in M /\ E(i) \in M
  OBVIOUS
<1>4. \A i \in 1 .. n : R(i) \in Seq(M)
  <2>1. L \subseteq M
    OBVIOUS
  <2> HIDE DEF M
  <2> QED
    BY <2>1, WiderSeq
<1> HIDE DEF M, B, E, R, n, Step
<1> DEFINE Asking(k) == asked[k].stopped = FALSE /\ DOMAIN asked[k] = {"lines", "stopped"}
           text == [k \in 0 .. n |-> asked[k].lines]
<1>5. \A k \in 1 .. n : asked[k] = Copy!Ask(tables, asked[k - 1], script[k])
  BY <1>1 DEF AskedStates, n
<1>6. \A k \in 0 .. n : Asking(k)
  <2> DEFINE S == {k \in Nat : k <= n => Asking(k)}
  <2>1. 0 \in S
    <3> DEFINE first == [lines |-> <<Copy!Blank>>, stopped |-> FALSE]
    <3>1. asked[0] = first
      BY <1>1 DEF AskedStates
    <3>2. first.stopped = FALSE /\ DOMAIN first = {"lines", "stopped"}
      OBVIOUS
    <3> HIDE DEF first
    <3>3. Asking(0)
      BY <3>1, <3>2
    <3> HIDE DEF Asking
    <3> QED
      BY <3>3
  <2>2. ASSUME NEW k \in Nat, k \in S PROVE k + 1 \in S
    <3>1. ASSUME k + 1 <= n PROVE Asking(k + 1)
      <4>1. k + 1 \in 1 .. n /\ (k + 1) - 1 = k /\ k <= n
        BY <1>3, <3>1
      <4>2. Asking(k)
        BY <2>2, <4>1
      <4>3. asked[k + 1] = Copy!Ask(tables, asked[k], script[k + 1])
        BY <1>5, <4>1
      <4> QED
        BY <1>2, <4>1, <4>2, <4>3
    <3> HIDE DEF Asking
    <3> QED
      BY <3>1
  <2>3. \A k \in Nat : k \in S
    <3> HIDE DEF S
    <3> QED
      BY <2>1, <2>2, Induction
  <2> QED
    BY <1>3, <2>3
<1>7. \A k \in 1 .. n : text[k] = Step(text[k - 1], k)
  <2> TAKE k \in 1 .. n
  <2>1. k \in 0 .. n /\ k - 1 \in 0 .. n
    BY <1>3
  <2>2. asked[k].lines = Step(asked[k - 1].lines, k)
    BY <1>2, <1>5, <1>6, <2>1
  <2> QED
    BY <2>1, <2>2
<1>8. text[0] = <<Copy!Blank>>
  BY <1>1, <1>3 DEF AskedStates
<1>9. output = Append(text[n], Copy!Done)
  BY <1>1, <1>3, <1>6
<1> HIDE DEF text, output
<1>10. \A k \in 0 .. n : text[k] \in Seq(M)
  <2> DEFINE S == {k \in Nat : k <= n => text[k] \in Seq(M)}
  <2>1. 0 \in S
    BY <1>3, <1>8, OneOf
  <2>2. ASSUME NEW k \in Nat, k \in S PROVE k + 1 \in S
    <3> SUFFICES ASSUME k + 1 <= n PROVE text[k + 1] \in Seq(M)
      OBVIOUS
    <3>1. k + 1 \in 1 .. n /\ (k + 1) - 1 = k /\ k <= n
      BY <1>3
    <3>2. text[k] \in Seq(M) /\ B(k + 1) \in M /\ R(k + 1) \in Seq(M) /\ E(k + 1) \in M
      BY <1>3, <1>4, <2>2, <3>1
    <3>3. Step(text[k], k + 1) \in Seq(M)
      BY <3>2, Surrounded DEF Step
    <3> QED
      BY <1>7, <3>1, <3>3
  <2>3. \A k \in Nat : k \in S
    <3> HIDE DEF S
    <3> QED
      BY <2>1, <2>2, Induction
  <2> QED
    BY <1>3, <2>3
<1>11. ASSUME NEW k \in 1 .. n
       PROVE  LET s == text[k - 1]
                  t == text[k]
              IN /\ Len(s) \in Nat /\ Len(R(k)) \in Nat /\ Len(t) = Len(s) + Len(R(k)) + 2
                 /\ \A i \in 1 .. Len(s) : t[i] = s[i]
                 /\ t[Len(s) + 1] = B(k) /\ t[Len(s) + Len(R(k)) + 2] = E(k)
                 /\ \A i \in 1 .. Len(R(k)) : t[(Len(s) + 1) + i] = R(k)[i]
  <2>1. text[k - 1] \in Seq(M) /\ B(k) \in M /\ R(k) \in Seq(M) /\ E(k) \in M /\ text[k] = Step(text[k - 1], k)
    <3>1. k - 1 \in 0 .. n
      BY <1>3
    <3> QED
      BY <1>3, <1>4, <1>7, <1>10, <3>1
  <2> DEFINE s == text[k - 1]
             t == s \o <<B(k)>> \o R(k) \o <<E(k)>>
  <2>2. text[k] = t
    BY <2>1 DEF Step
  <2>3. s \in Seq(M)
    BY <2>1
  <2> HIDE DEF s
  <2>4. /\ Len(s) \in Nat /\ Len(R(k)) \in Nat /\ Len(t) = Len(s) + Len(R(k)) + 2
        /\ \A i \in 1 .. Len(s) : t[i] = s[i]
        /\ t[Len(s) + 1] = B(k) /\ t[Len(s) + Len(R(k)) + 2] = E(k)
        /\ \A i \in 1 .. Len(R(k)) : t[(Len(s) + 1) + i] = R(k)[i]
    BY ONLY <2>1, <2>3, Surrounded
  <2> HIDE DEF t
  <2> QED
    BY <2>2, <2>4 DEF s
<1>12. \A k \in 0 .. n : Len(text[k]) \in Nat
  BY <1>10
<1>13. \A k \in 0 .. n : StartsWith(text[n], text[k])
  <2>1. \A k \in 1 .. n : StartsWith(text[k], text[k - 1])
    <3> TAKE k \in 1 .. n
    <3> DEFINE s == text[k - 1]
               t == text[k]
               r == Len(R(k))
    <3>1. Len(s) \in Nat /\ r \in Nat /\ Len(t) = Len(s) + r + 2 /\ \A i \in 1 .. Len(s) : t[i] = s[i]
      BY <1>11
    <3> HIDE DEF s, t, r
    <3>2. StartsWith(t, s)
      BY <3>1 DEF StartsWith
    <3> QED
      BY <3>2 DEF s, t
  <2> QED
    BY ONLY <1>3, <1>12, <2>1, Grown
<1>14. /\ output \in Seq(M) /\ Len(output) = Len(text[n]) + 1 /\ output[Len(text[n]) + 1] = Copy!Done
       /\ \A i \in 1 .. Len(text[n]) : output[i] = text[n][i]
  <2> DEFINE s == text[n]
             d == Copy!Done
  <2>1. s \in Seq(M) /\ d \in M /\ output = Append(s, d) /\ DOMAIN s = 1 .. Len(s)
    BY <1>3, <1>9, <1>10
  <2> HIDE DEF s, d
  <2>2. /\ output \in Seq(M) /\ Len(output) = Len(s) + 1 /\ output[Len(s) + 1] = d
        /\ \A i \in DOMAIN s : output[i] = s[i]
    BY <2>1, AppendOf
  <2> QED
    BY <2>1, <2>2 DEF s, d
<1>15. ASSUME NEW k \in 0 .. n, NEW i \in 1 .. Len(text[k]) PROVE output[i] = text[k][i]
  <2>1. n \in 0 .. n /\ Len(text[k]) \in Nat /\ Len(text[n]) \in Nat
    BY <1>3, <1>12
  <2>2. Len(text[k]) <= Len(text[n]) /\ text[n][i] = text[k][i]
    BY <1>13 DEF StartsWith
  <2>3. i \in 1 .. Len(text[n])
    BY <2>1, <2>2
  <2> QED
    BY <1>14, <2>2, <2>3
<1> DEFINE at == [i \in 1 .. n + 1 |-> Len(text[i - 1]) + 1]
           rows == [i \in 1 .. n |-> R(i)]
<1>16. at \in [1 .. n + 1 -> Nat \ {0}]
  <2>1. \A i \in 1 .. n + 1 : i - 1 \in 0 .. n
    BY <1>3
  <2>2. \A i \in 1 .. n + 1 : Len(text[i - 1]) + 1 \in Nat \ {0}
    BY <1>12, <2>1
  <2> QED
    BY <2>2
<1>17. /\ at[1] = 2 /\ output[1] = Copy!Blank
       /\ output[at[n + 1]] = Copy!Done /\ Len(output) = at[n + 1]
  <2>1. 1 \in 1 .. n + 1 /\ n + 1 \in 1 .. n + 1 /\ (n + 1) - 1 = n /\ 1 - 1 = 0 /\ 0 \in 0 .. n
    BY <1>3
  <2>2. at[1] = Len(text[0]) + 1 /\ at[n + 1] = Len(text[n]) + 1
    BY <2>1
  <2>3. Len(text[0]) = 1 /\ text[0][1] = Copy!Blank
    BY <1>3, <1>8, OneOf
  <2>4. output[1] = text[0][1]
    BY <1>15, <2>1, <2>3
  <2> QED
    BY <1>14, <2>2, <2>3, <2>4
<1>18. ASSUME NEW i \in 1 .. n
       PROVE  /\ at[i + 1] = at[i] + Len(R(i)) + 2
              /\ output[at[i]] = B(i) /\ output[at[i + 1] - 1] = E(i)
              /\ \A j \in 1 .. Len(R(i)) : output[at[i] + j] = R(i)[j]
  <2> DEFINE l == Len(text[i - 1])
             r == Len(R(i))
             t == text[i]
  <2>1. i \in 0 .. n /\ i \in 1 .. n + 1 /\ i + 1 \in 1 .. n + 1 /\ (i + 1) - 1 = i
    BY <1>3
  <2>2. at[i] = l + 1 /\ at[i + 1] = Len(t) + 1
    BY <2>1
  <2>3. /\ l \in Nat /\ r \in Nat /\ Len(t) = l + r + 2
        /\ t[l + 1] = B(i) /\ t[l + r + 2] = E(i)
        /\ \A j \in 1 .. r : t[(l + 1) + j] = R(i)[j]
    BY <1>11
  <2>4. \A j \in 1 .. Len(t) : output[j] = t[j]
    BY <1>15, <2>1
  <2> HIDE DEF at, l, r, t
  <2>5. at[i + 1] = at[i] + r + 2 /\ at[i + 1] - 1 = l + r + 2
    BY <2>2, <2>3
  <2>6. output[l + 1] = B(i) /\ output[l + r + 2] = E(i)
    <3>1. l + 1 \in 1 .. Len(t) /\ l + r + 2 \in 1 .. Len(t)
      BY <2>3
    <3> QED
      BY <2>3, <2>4, <3>1
  <2>7. ASSUME NEW j \in 1 .. r PROVE output[at[i] + j] = R(i)[j]
    <3>1. (l + 1) + j \in 1 .. Len(t)
      BY <2>3
    <3> QED
      BY <2>2, <2>3, <2>4, <3>1
  <2> QED
    BY <2>2, <2>5, <2>6, <2>7 DEF r
<1>19. Len(rows) = n /\ \A i \in 1 .. n : rows[i] = R(i)
  <2> DEFINE X == {R(i) : i \in 1 .. n}
  <2>1. rows \in [1 .. n -> X] /\ n \in Nat
    BY <1>3
  <2>2. \A i \in 1 .. n : rows[i] = R(i)
    OBVIOUS
  <2> HIDE DEF rows, X
  <2>3. rows \in Seq(X) /\ Len(rows) = n
    BY <2>1
  <2> QED
    BY <2>2, <2>3
<1> HIDE DEF at, rows
<1>20. Printed(output, rows, at)
  <2>1. \A i \in 1 .. n : /\ at[i + 1] = at[i] + Len(rows[i]) + 2
                          /\ output[at[i]] = Copy!Marker("BEGIN", i - 1)
                          /\ output[at[i + 1] - 1] = Copy!Marker("END", i - 1)
                          /\ \A j \in 1 .. Len(rows[i]) : output[at[i] + j] = rows[i][j]
    BY <1>18, <1>19 DEF B, E
  <2> QED
    BY <1>16, <1>17, <1>19, <2>1 DEF Printed
<1> QED
  BY <1>20 DEF output, rows, R, n

\* The headers of the fingerprints are names, each of one table of the restored database,
\* and tables[of[i]] is the one of fingerprint i.
NamesTables(fps, tables, of, Chars) ==
  /\ of \in [1 .. Len(fps) -> DOMAIN tables]
  /\ \A i \in 1 .. Len(fps) : IsHeader(fps[i].header, Chars)
  /\ \A j \in DOMAIN tables : IsHeader(tables[j], Chars)
  /\ \A i \in 1 .. Len(fps) :
       /\ fps[i].header.schema = tables[of[i]].schema /\ fps[i].header.name = tables[of[i]].name
       /\ fps[i].header.columns = tables[of[i]].columns
  /\ \A j, k \in DOMAIN tables :
       tables[j].schema = tables[k].schema /\ tables[j].name = tables[k].name => j = k

\* The script asks for the tables of the fingerprints, in their order, and for no other.
LEMMA ScriptAsks ==
  ASSUME NEW Chars, "Q" \in Chars, NEW F, NEW fps \in Seq(F), NEW tables, NEW of,
         NamesTables(fps, tables, of, Chars)
  PROVE  LET script == Copy!VerificationScript(fps)
         IN Len(script) = Len(fps) /\ Asks(script, tables, of)
<1> DEFINE script == Copy!VerificationScript(fps)
           n == Len(fps)
           q(i) == script[i]
           X == {q(i) : i \in 1 .. n}
<1>1. n \in Nat /\ DOMAIN fps = 1 .. n
  OBVIOUS
<1>2. DOMAIN script = 1 .. n /\ script = [i \in 1 .. n |-> script[i]]
  BY <1>1 DEF Copy!VerificationScript
<1>3. \A i \in 1 .. n : script[i].begin = Copy!Marker("BEGIN", i - 1) /\ script[i].end = Copy!Marker("END", i - 1)
  BY <1>1 DEF Copy!VerificationScript
<1> HIDE DEF script
<1>4. Len(script) = n
  <2>1. script \in [1 .. n -> X]
    BY <1>2
  <2> HIDE DEF X, n
  <2>2. script \in Seq(X)
    BY <1>1, <2>1
  <2> QED
    BY <1>1, <1>2, <2>2
<1>5. ASSUME NEW i \in 1 .. n, NEW j \in DOMAIN tables
      PROVE  Copy!Names(script[i], tables[j]) <=> j = of[i]
  <2> DEFINE h == fps[i].header
             t == tables[j]
             u == tables[of[i]]
  <2>1. IsHeader(h, Chars) /\ IsHeader(t, Chars) /\ of[i] \in DOMAIN tables
    BY DEF NamesTables
  <2>2. Copy!Names(script[i], t) <=> h.schema = t.schema /\ h.name = t.name /\ h.columns = t.columns
    BY <2>1, ScriptNames DEF script
  <2>3. h.schema = u.schema /\ h.name = u.name /\ h.columns = u.columns
    BY DEF NamesTables
  <2>4. t.schema = u.schema /\ t.name = u.name => j = of[i]
    BY <2>1 DEF NamesTables
  <2> QED
    BY <2>2, <2>3, <2>4
<1>6. of \in [1 .. n -> DOMAIN tables]
  BY DEF NamesTables
<1>7. Asks(script, tables, of)
  <2> HIDE DEF n
  <2> QED
    BY <1>3, <1>4, <1>5, <1>6, Zenon DEF Asks
<1> QED
  BY <1>4, <1>7 DEF script

\* The gate opens exactly for the rows that were dumped, and for the right tables: the
\* script asks for each table by its quoted name (restore_fingerprint.go:15-49), so that
\* names with quotes, brackets or blanks in them, or one name a part of another, cannot
\* have the rows of one table judged as those of another.
THEOREM GateOpensForTheTables ==
  ASSUME NEW Chars, "Q" \in Chars, NEW F, NEW fps \in Seq(F), NEW tables, NEW of, NEW L,
         NEW dumped, NEW counts, NamesTables(fps, tables, of, Chars),
         \A j \in DOMAIN tables : tables[j].rows \in Seq(L),
         \A l \in L : l.kind \notin {"BEGIN", "DONE"},
         \A i \in 1 .. Len(fps) : /\ dumped[i] \in Seq(L)
                                  /\ CountingStates(fps[i].header, dumped[i], counts[i])
                                  /\ fps[i] = Copy!Result(counts[i][Len(dumped[i])])
  PROVE  LET sink == Copy!Judge(fps, Copy!Output(Copy!VerificationScript(fps), tables))
             same == SameTables(Len(fps), dumped, [i \in 1 .. Len(fps) |-> tables[of[i]].rows])
         IN /\ sink.gate = "open" <=> same
            /\ Copy!CloseSink(sink).failed = FALSE <=> same
            /\ Copy!CloseSink(sink).failed \in BOOLEAN
<1> DEFINE n == Len(fps)
           script == Copy!VerificationScript(fps)
           R(i) == tables[of[i]].rows
           restored == [i \in 1 .. n |-> R(i)]
           output == Copy!Output(script, tables)
           headers == [i \in 1 .. n |-> fps[i].header]
<1>1. n \in Nat /\ Len(script) = n /\ Asks(script, tables, of)
  BY ScriptAsks
<1>2. \A i \in 1 .. n : R(i) \in Seq(L)
  BY DEF NamesTables
<1> HIDE DEF script
<1>3. PICK at : Printed(output, restored, at)
  <2>1. \A i \in 1 .. Len(script) : tables[of[i]].rows \in Seq(L)
    BY <1>1, <1>2
  <2>2. \E at : Printed(Copy!Output(script, tables), [i \in 1 .. Len(script) |-> tables[of[i]].rows], at)
    <3>1. Len(script) \in Nat /\ Asks(script, tables, of)
      BY <1>1
    <3> QED
      BY ONLY <2>1, <3>1, OutputPrinted
  <2> QED
    BY <1>1, <2>2
<1> HIDE DEF output, n
<1>4. restored \in Seq(Seq(L)) /\ Len(restored) = n /\ \A i \in 1 .. n : restored[i] = R(i)
  <2>1. restored \in [1 .. n -> Seq(L)] /\ \A i \in 1 .. n : restored[i] = R(i)
    BY <1>2
  <2> HIDE DEF restored
  <2> QED
    BY <1>1, <2>1
<1> HIDE DEF restored, R
<1>5. NoRowIsAMarker(restored)
  <2> SUFFICES ASSUME NEW i \in 1 .. n, NEW j \in 1 .. Len(restored[i])
               PROVE  restored[i][j].kind \notin {"BEGIN", "DONE"}
    BY <1>4 DEF NoRowIsAMarker
  <2>1. restored[i] \in Seq(L)
    BY <1>2, <1>4
  <2>2. restored[i][j] \in L
    BY <2>1
  <2> QED
    BY <2>2
<1>6. CountedFrom(fps, headers, dumped, counts) /\ \A i \in 1 .. n : Len(restored[i]) \in Nat
  <2>1. \A i \in 1 .. n : Len(dumped[i]) \in Nat /\ Len(restored[i]) \in Nat
    <3> TAKE i \in 1 .. n
    <3>1. dumped[i] \in Seq(L) /\ restored[i] \in Seq(L)
      BY <1>2, <1>4 DEF n
    <3> QED
      BY <3>1
  <2>2. \A i \in 1 .. n : /\ CountingStates(headers[i], dumped[i], counts[i])
                          /\ fps[i] = Copy!Result(counts[i][Len(dumped[i])])
    BY DEF n
  <2> QED
    BY <2>1, <2>2 DEF CountedFrom, n
<1> HIDE DEF headers
<1>7. /\ Copy!Judge(fps, output).gate = "open" <=> SameTables(n, dumped, restored)
      /\ Copy!CloseSink(Copy!Judge(fps, output)).failed = FALSE <=> SameTables(n, dumped, restored)
      /\ Copy!CloseSink(Copy!Judge(fps, output)).failed \in BOOLEAN
  <2>1. Len(fps) \in Nat /\ Len(restored) = Len(fps) /\ \A i \in 1 .. Len(restored) : Len(restored[i]) \in Nat
    BY <1>1, <1>4, <1>6 DEF n
  <2> QED
    BY ONLY <1>3, <1>5, <1>6, <2>1, OpensForTheRows DEF n
<1> QED
  BY ONLY <1>7 DEF n, R, restored, output, script

\* An element of a column list, with what is read behind it.
ColumnAt(v, c, read) ==
  LET end == Copy!Spaces(v, c.next)
  IN IF Copy!Sees(v, end, ",") THEN Copy!Longer(c.value, read[end + 1])
     ELSE IF Copy!Sees(v, end, ")") THEN {Copy!Read(end + 1, <<c.value>>)} ELSE {}

ColumnsFrom(v, p, read) ==
  /\ Copy!Columns(v, p) = read[p]
  /\ \A q \in p .. Len(v) + 1 :
       read[q] = UNION {ColumnAt(v, c, read) : c \in Copy!Identifier(v, q)}

\* The columns are read from the end of the text on.
LEMMA ColumnSteps ==
  ASSUME NEW v, Len(v) \in Nat, NEW p \in 1 .. Len(v) + 1
  PROVE  \E read : ColumnsFrom(v, p, read)
<1> DEFINE e == Len(v) + 1
           Body(f, i) == UNION {ColumnAt(v, c, f) : c \in Copy!Identifier(v, i)}
           Is(f, k) == f = [i \in e - k .. e |-> Body(f, i)]
           S == {k \in Nat : e - k >= p => \E f : Is(f, k)}
<1>1. \A i \in p .. e : \A f, g : (\A j \in i + 1 .. e : f[j] = g[j]) => Body(f, i) = Body(g, i)
  <2> SUFFICES ASSUME NEW i \in p .. e, NEW f, NEW g, \A j \in i + 1 .. e : f[j] = g[j]
               PROVE  Body(f, i) = Body(g, i)
    BY Zenon
  <2>1. ASSUME NEW c \in Copy!Identifier(v, i) PROVE ColumnAt(v, c, f) = ColumnAt(v, c, g)
    <3> DEFINE end  == Copy!Spaces(v, c.next)
               more == Copy!Sees(v, end, ",")
    <3>1. c.next \in i + 1 .. e
      BY IdentifierEnd
    <3>2. end \in c.next .. e
      <4>1. c.next \in 1 .. Len(v) + 1
        BY <3>1
      <4> QED
        BY <4>1, SpacesEnd
    <3>3. more => end + 1 \in i + 1 .. e
      <4>1. end \in Int /\ end > i /\ i \in Int /\ Len(v) \in Int
        <5>1. c.next \in Int /\ c.next > i
          BY <3>1
        <5> HIDE DEF end
        <5> QED
          BY <3>2, <5>1
      <4>2. more => end <= Len(v)
        BY Zenon DEF Copy!Sees
      <4> HIDE DEF end, more
      <4> QED
        BY <4>1, <4>2
    <3> HIDE DEF end, e, more
    <3>4. more => f[end + 1] = g[end + 1]
      BY <3>3
    <3> QED
      BY <3>4, Zenon DEF ColumnAt, end, more
  <2> QED
    BY <2>1, Zenon
<1> HIDE DEF Body
<1>2. 0 \in S
  <2> DEFINE f == [i \in e - 0 .. e |-> Body(<<>>, i)]
  <2>1. e - 0 = e /\ e \in Int
    OBVIOUS
  <2> SUFFICES ASSUME e >= p PROVE Is(f, 0)
    BY <2>1
  <2>2. e \in p .. e /\ \A i \in e - 0 .. e : i = e
    BY <2>1
  <2>3. \A j \in e + 1 .. e : f[j] = <<>>[j]
    BY <2>1
  <2> HIDE DEF e
  <2>4. Body(f, e) = Body(<<>>, e)
    BY <1>1, <2>2, <2>3, Zenon
  <2>5. f = [i \in e - 0 .. e |-> Body(f, i)]
    <3> HIDE DEF f
    <3>1. \A i \in e - 0 .. e : Body(f, i) = Body(<<>>, i)
      BY <2>2, <2>4
    <3> QED
      BY <3>1 DEF f
  <2> QED
    BY <2>5
<1>3. ASSUME NEW k \in Nat, k \in S PROVE k + 1 \in S
  <2> DEFINE a == e - (k + 1)
  <2> SUFFICES ASSUME a >= p PROVE \E f : Is(f, k + 1)
    OBVIOUS
  <2>1. a \in Int /\ a \in p .. e /\ e \in Nat /\ e - k = a + 1 /\ a < e /\ e - k >= p
    OBVIOUS
  <2>2. PICK f : Is(f, k)
    BY <1>3, <2>1
  <2> DEFINE g == [i \in a .. e |-> IF i = a THEN Body(f, a) ELSE f[i]]
             h == [i \in a .. e |-> Body(g, i)]
  <2> HIDE DEF a, e
  <2>3. \A i \in a + 1 .. e : f[i] = Body(f, i)
    BY <2>1, <2>2
  <2>4. \A i \in a + 1 .. e : g[i] = f[i]
    BY <2>1
  <2>5. g[a] = Body(f, a)
    <3>1. a \in a .. e
      BY <2>1
    <3> QED
      BY <3>1
  <2>6. DOMAIN g = a .. e /\ DOMAIN h = a .. e /\ g = [i \in DOMAIN g |-> g[i]] /\ h = [i \in DOMAIN h |-> h[i]]
    OBVIOUS
  <2>7. \A i \in a .. e : h[i] = Body(g, i)
    OBVIOUS
  <2> HIDE DEF g, h
  <2>8. \A i \in a .. e : Body(g, i) = Body(f, i)
    <3> TAKE i \in a .. e
    <3>1. i \in p .. e /\ \A j \in i + 1 .. e : j \in a + 1 .. e
      BY <2>1
    <3>2. \A j \in i + 1 .. e : g[j] = f[j]
      BY <2>4, <3>1
    <3> QED
      BY <1>1, <3>1, <3>2, Zenon
  <2>9. \A i \in a .. e : g[i] = h[i]
    <3>1. \A i \in a .. e : i = a \/ i \in a + 1 .. e
      BY <2>1
    <3> QED
      BY <2>3, <2>4, <2>5, <2>7, <2>8, <3>1
  <2>10. g = h
    BY <2>6, <2>9
  <2>11. Is(g, k + 1)
    BY <2>10 DEF h, a
  <2> HIDE DEF Is
  <2> QED
    BY <2>11
<1>4. e - p \in Nat /\ e - (e - p) = p
  OBVIOUS
<1>5. PICK read : Is(read, e - p)
  <2> HIDE DEF S
  <2>1. e - p \in S
    BY <1>2, <1>3, <1>4, Induction
  <2> HIDE DEF Is
  <2> QED
    BY <1>4, <2>1 DEF S
<1>6. read = [i \in p .. e |-> Body(read, i)]
  BY <1>4, <1>5
<1> DEFINE F == CHOOSE f : f = [i \in p .. e |-> Body(f, i)]
<1>7. F = [i \in p .. e |-> Body(F, i)]
  <2> HIDE DEF e
  <2> QED
    BY <1>6, Zenon
<1>8. Copy!Columns(v, p) = F[p]
  BY Zenon DEF Copy!Columns, Body, ColumnAt
<1> HIDE DEF F
<1>9. \A q \in p .. e : F[q] = Body(F, q)
  <2> HIDE DEF e
  <2> QED
    BY <1>7
<1> QED
  BY <1>8, <1>9 DEF ColumnsFrom, Body

\* At e there is no character that would be part of a name before it.
EndsBare(v, e) == e = Len(v) + 1 \/ (e <= Len(v) /\ v[e] \notin Copy!Bare /\ v[e] # "Q")

\* What fmtId writes is read as the name, behind spaces and before the end of a name.
LEMMA IdentifierStands ==
  ASSUME NEW Chars, "Q" \in Chars, NEW name \in Seq(Chars) \ {<<>>}, NEW Alphabet, NEW v \in Seq(Alphabet),
         NEW at \in Nat \ {0}, NEW o \in Nat, at <= o + 1, \A i \in at .. o : IsSpace(v[i]),
         Stands(Copy!FmtId(name), v, o), EndsBare(v, o + Len(Copy!FmtId(name)) + 1)
  PROVE  /\ Len(Copy!FmtId(name)) \in Nat \ {0}
         /\ Copy!Identifier(v, at) = {Copy!Read(o + Len(Copy!FmtId(name)) + 1, name)}
<1> DEFINE w == Copy!FmtId(name)
           m == Len(w)
           e == o + m + 1
           p == Copy!Spaces(v, at)
           bare == name[1] \in Copy!Letters /\ Copy!ToSet(name) \subseteq Copy!Bare
<1>1. Len(v) \in Nat /\ Len(name) \in Nat \ {0} /\ DOMAIN name = 1 .. Len(name)
  OBVIOUS
<1>2. "Q" \notin Copy!Bare /\ ~IsSpace("Q") /\ \A c \in Copy!Bare : ~IsSpace(c)
  BY Zenon DEF Copy!Bare, Copy!Letters, Copy!Digits, IsSpace
<1>3. Copy!Letters \cap Copy!Digits = {} /\ Copy!Letters \subseteq Copy!Bare
  BY DEF Copy!Bare, Copy!Letters, Copy!Digits
<1>4. ASSUME m \in Nat \ {0}, ~IsSpace(w[1]) PROVE p = o + 1 /\ v[o + 1] = w[1] /\ o + m <= Len(v)
  <2>1. o + m <= Len(v) /\ \A j \in 1 .. m : v[o + j] = w[j]
    BY DEF Stands
  <2> HIDE DEF m
  <2>2. 1 \in 1 .. m /\ o + 1 \in at .. Len(v) + 1 /\ o + 1 - 1 = o
    BY <1>1, <1>4, <2>1
  <2>3. v[o + 1] = w[1]
    BY <2>1, <2>2
  <2>4. Skips(v, at, o + 1)
    BY <1>4, <2>2, <2>3 DEF Skips
  <2> QED
    BY <1>1, <2>1, <2>3, <2>4, SpacesAt
<1>5. CASE ~bare
  <2>1. w = Copy!Quote(name)
    BY <1>5, Zenon DEF Copy!FmtId
  <2>2. ~Copy!Sees(v, e, "Q")
    BY <1>1 DEF EndsBare, Copy!Sees
  <2> HIDE DEF e
  <2>3. m \in Nat \ {0} /\ v[o + 1] = "Q" /\ Copy!QuotedIdentifier(v, o + 2) = {Copy!Read(e, name)}
    <3>1. /\ Stands(Copy!Quote(name), v, o) /\ ~Copy!Sees(v, o + Len(Copy!Quote(name)) + 1, "Q")
      BY <2>1, <2>2, Zenon DEF e, m, w
    <3>2. name \in Seq(Chars)
      OBVIOUS
    <3>3. LET k == Len(Copy!Quote(name))
          IN k \in Nat \ {0} /\ v[o + 1] = "Q" /\ Copy!QuotedIdentifier(v, o + 2) = {Copy!Read(o + k + 1, name)}
      BY <1>1, <3>1, <3>2, QuoteStands
    <3> QED
      BY <2>1, <3>3, Zenon DEF e, m, w
  <2>4. w[1] = "Q"
    <3>1. 1 \in 1 .. m
      BY <2>3
    <3> QED
      BY <2>3, <3>1 DEF Stands
  <2>5. p = o + 1 /\ o + m <= Len(v)
    BY <1>2, <1>4, <2>3, <2>4
  <2>6. Copy!Sees(v, p, "Q") /\ p + 1 = o + 2
    BY <1>1, <2>3, <2>5 DEF Copy!Sees
  <2>7. Copy!Identifier(v, at) = Copy!QuotedIdentifier(v, o + 2)
    BY <2>6, Zenon DEF Copy!Identifier
  <2> QED
    BY <2>3, <2>7 DEF e
<1>6. CASE bare
  <2>1. w = name /\ m = Len(name)
    BY <1>6, Zenon DEF Copy!FmtId
  <2> HIDE DEF w, bare
  <2>2. \A j \in 1 .. m : w[j] \in Copy!Bare
    BY <1>1, <1>6, <2>1 DEF bare, Copy!ToSet
  <2> HIDE DEF m
  <2>3. m \in Nat \ {0} /\ 1 \in 1 .. m
    BY <1>1, <2>1
  <2>4. w[1] \in Copy!Letters /\ w[1] # "Q" /\ ~IsSpace(w[1])
    BY <1>2, <1>3, <1>6, <2>1 DEF bare
  <2>5. p = o + 1 /\ v[p] = w[1] /\ o + m <= Len(v)
    BY <1>4, <2>3, <2>4
  <2>6. \A j \in 1 .. m : v[o + j] = w[j]
    BY DEF Stands, w, m
  <2>7. e \in p + 1 .. Len(v) + 1 /\ e \in Int
    BY <1>1, <2>3, <2>5
  <2>8. \A i \in p .. e - 1 : v[i] \in Copy!Bare
    <3> TAKE i \in p .. e - 1
    <3>1. i - o \in 1 .. m /\ o + (i - o) = i
      BY <2>3, <2>5
    <3> QED
      BY <2>2, <2>6, <3>1
  <2> DEFINE Stops(q) == /\ \A i \in p .. q - 1 : v[i] \in Copy!Bare
                         /\ q = Len(v) + 1 \/ v[q] \notin Copy!Bare
  <2>9. EndsBare(v, e)
    BY DEF w, m
  <2> HIDE DEF e, p
  <2>10. Stops(e)
    BY <2>8, <2>9 DEF EndsBare
  <2>11. \A q \in p + 1 .. Len(v) + 1 : Stops(q) => q = e
    <3> SUFFICES ASSUME NEW q \in p + 1 .. Len(v) + 1, Stops(q) PROVE q = e
      OBVIOUS
    <3>1. p \in Nat /\ q \in Int
      BY <2>5
    <3>2. ~(q < e)
      <4> SUFFICES ASSUME q < e PROVE FALSE
        OBVIOUS
      <4>1. q \in p .. e - 1 /\ q # Len(v) + 1
        BY <1>1, <2>7, <3>1
      <4> QED
        BY <2>8, <4>1
    <3>3. ~(e < q)
      <4> SUFFICES ASSUME e < q PROVE FALSE
        OBVIOUS
      <4>1. e \in p .. q - 1 /\ e # Len(v) + 1
        BY <1>1, <2>7, <3>1
      <4> QED
        BY <2>10, <4>1
    <3> QED
      BY <2>7, <3>1, <3>2, <3>3
  <2>12. ~Copy!Sees(v, p, "Q")
    BY <2>4, <2>5 DEF Copy!Sees
  <2>13. Copy!Identifier(v, at) = {Copy!Read(q, SubSeq(v, p, q - 1)) : q \in {x \in {y \in p + 1 .. Len(v) + 1 : Stops(y)} : v[p] \notin Copy!Digits}}
    BY <2>12, Zenon DEF Copy!Identifier, p
  <2>14. {x \in {y \in p + 1 .. Len(v) + 1 : Stops(y)} : v[p] \notin Copy!Digits} = {e}
    <3>1. v[p] \notin Copy!Digits
      BY <1>3, <2>4, <2>5
    <3> HIDE DEF Stops
    <3> QED
      BY <2>7, <2>10, <2>11, <3>1, Zenon
  <2>15. SubSeq(v, p, e - 1) = name
    <3>1. p \in Nat \ {0} /\ e - 1 \in Nat /\ e - 1 - p + 1 = m
      BY <2>3, <2>5 DEF e
    <3> DEFINE t == SubSeq(v, p, e - 1)
    <3>2. p \in 1 .. Len(v) + 1 /\ e - 1 \in p - 1 .. Len(v)
      BY <1>1, <2>7, <3>1
    <3>3. t \in Seq(Alphabet) /\ Len(t) = m /\ \A j \in 1 .. m : t[j] = v[p + j - 1]
      BY <3>1, <3>2
    <3>4. \A j \in 1 .. m : t[j] = name[j]
      <4> TAKE j \in 1 .. m
      <4>1. p + j - 1 = o + j
        BY <2>5
      <4> QED
        BY <2>1, <2>6, <3>3, <4>1
    <3> HIDE DEF t
    <3>5. DOMAIN t = DOMAIN name /\ t = [j \in DOMAIN t |-> t[j]] /\ name = [j \in DOMAIN name |-> name[j]]
      BY <1>1, <2>1, <3>3
    <3> QED
      BY <1>1, <2>1, <3>4, <3>5 DEF t
  <2>16. Copy!Identifier(v, at) = {Copy!Read(e, name)}
    BY <2>13, <2>14, <2>15, Zenon
  <2> QED
    BY <2>3, <2>16 DEF e, m, w
<1> QED
  BY <1>5, <1>6, Zenon

\* The k-th column stands in v behind the first at[k] characters, between those that
\* separate the columns.
IsComma(c) == c = ","
IsClose(c) == c = ")"
ColumnStands(v, columns, at, k) ==
  LET end == at[k] + Len(Copy!FmtId(columns[k])) + 1
  IN /\ at[k] \in Nat /\ Stands(Copy!FmtId(columns[k]), v, at[k]) /\ end <= Len(v)
     /\ k > 1 => IsSpace(v[at[k]])
     /\ IF k < Len(columns) THEN IsComma(v[end]) /\ at[k + 1] = end + 1 ELSE IsClose(v[end])

\* The list of columns is read as the columns, up to its closing bracket.
LEMMA ColumnsAreRead ==
  ASSUME NEW Chars, "Q" \in Chars, NEW columns \in Seq(Seq(Chars) \ {<<>>}), columns # <<>>,
         NEW Alphabet, NEW v \in Seq(Alphabet), NEW at,
         \A k \in 1 .. Len(columns) : ColumnStands(v, columns, at, k)
  PROVE  LET n == Len(columns)
         IN Copy!Columns(v, at[1] + 1) = {Copy!Read(at[n] + Len(Copy!FmtId(columns[n])) + 2, columns)}
<1> DEFINE n == Len(columns)
           m(k) == Len(Copy!FmtId(columns[k]))
           e(k) == at[k] + m(k) + 1
           q(k) == IF k = 1 THEN at[1] + 1 ELSE at[k]
<1>1. n \in Nat \ {0} /\ Len(v) \in Nat /\ \A k \in 1 .. n : columns[k] \in Seq(Chars) \ {<<>>}
  OBVIOUS
<1>2. \A c : (IsComma(c) \/ IsClose(c)) => c \notin Copy!Bare /\ c # "Q" /\ ~IsSpace(c)
  BY Zenon DEF IsComma, IsClose, IsSpace, Copy!Bare, Copy!Letters, Copy!Digits
<1> HIDE DEF m
<1>3. \A k \in 1 .. n : /\ at[k] \in Nat /\ Stands(Copy!FmtId(columns[k]), v, at[k]) /\ e(k) <= Len(v)
                        /\ k > 1 => IsSpace(v[at[k]])
                        /\ k < n => IsComma(v[e(k)]) /\ at[k + 1] = e(k) + 1
                        /\ ~(k < n) => IsClose(v[e(k)])
  BY DEF ColumnStands, m
<1>4. \A k \in 1 .. n : EndsBare(v, e(k)) /\ ~IsSpace(v[e(k)])
  <2> HIDE DEF e
  <2> QED
    BY <1>2, <1>3 DEF EndsBare
<1>5. \A k \in 1 .. n : m(k) \in Nat \ {0} /\ (q(k) \in Nat \ {0} => Copy!Identifier(v, q(k)) = {Copy!Read(e(k), columns[k])})
  <2> TAKE k \in 1 .. n
  <2> DEFINE o == at[k]
             name == columns[k]
  <2>1. name \in Seq(Chars) \ {<<>>} /\ o \in Nat /\ Stands(Copy!FmtId(name), v, o) /\ EndsBare(v, o + Len(Copy!FmtId(name)) + 1)
    BY <1>1, <1>3, <1>4 DEF m
  <2>2. k = 1 \/ k > 1
    OBVIOUS
  <2>3. \A i \in o + 1 .. o : IsSpace(v[i])
    BY <2>1
  <2>4. o + 1 \in Nat \ {0} /\ o + 1 <= o + 1
    BY <2>1
  <2>5. m(k) \in Nat \ {0} /\ Copy!Identifier(v, o + 1) = {Copy!Read(e(k), columns[k])}
    <3> HIDE DEF o, name
    <3>1. Len(Copy!FmtId(name)) \in Nat \ {0} /\ Copy!Identifier(v, o + 1) = {Copy!Read(o + Len(Copy!FmtId(name)) + 1, name)}
      BY <2>1, <2>3, <2>4, IdentifierStands
    <3> QED
      BY <3>1 DEF m, o, name
  <2>6. k > 1 => \A i \in o .. o : IsSpace(v[i])
    BY <1>3, <2>1
  <2>7. ASSUME k > 1, o # 0 PROVE Copy!Identifier(v, o) = {Copy!Read(e(k), columns[k])}
    <3>1. o \in Nat \ {0} /\ o <= o + 1
      BY <2>1, <2>7
    <3> HIDE DEF o, name
    <3>2. Copy!Identifier(v, o) = {Copy!Read(o + Len(Copy!FmtId(name)) + 1, name)}
      BY <2>1, <2>6, <2>7, <3>1, IdentifierStands
    <3> QED
      BY <3>2 DEF m, o, name
  <2> QED
    BY <2>2, <2>5, <2>7
<1> HIDE DEF q
<1>6. \A k \in 1 .. n - 1 : at[k + 1] > at[1]
  <2> DEFINE S == {k \in Nat : k + 1 \in 1 .. n - 1 => at[k + 2] > at[1]}
  <2>1. 0 \in S
    <3> SUFFICES ASSUME 1 \in 1 .. n - 1 PROVE at[2] > at[1]
      OBVIOUS
    <3>1. 1 \in 1 .. n /\ 1 < n /\ 1 + 1 = 2
      BY <1>1
    <3>2. at[1] \in Nat /\ at[2] = e(1) + 1 /\ m(1) \in Nat \ {0}
      BY <1>3, <1>5, <3>1
    <3> QED
      BY <3>2
  <2>2. ASSUME NEW k \in Nat, k \in S PROVE k + 1 \in S
    <3> SUFFICES ASSUME k + 1 + 1 \in 1 .. n - 1 PROVE at[k + 1 + 2] > at[1]
      OBVIOUS
    <3>1. k + 1 \in 1 .. n - 1 /\ k + 2 \in 1 .. n /\ k + 2 < n /\ k + 1 + 2 = k + 2 + 1 /\ 1 \in 1 .. n
      BY <1>1
    <3>2. at[k + 2] > at[1] /\ at[1] \in Nat /\ at[k + 2] \in Nat /\ at[k + 2 + 1] = e(k + 2) + 1 /\ m(k + 2) \in Nat \ {0}
      BY <1>3, <1>5, <2>2, <3>1
    <3> QED
      BY <3>1, <3>2
  <2>3. \A k \in Nat : k \in S
    <3> HIDE DEF S
    <3> QED
      BY <2>1, <2>2, Induction
  <2> TAKE k \in 1 .. n - 1
  <2>4. k - 1 \in Nat /\ (k - 1) + 1 = k /\ (k - 1) + 2 = k + 1
    BY <1>1
  <2>5. k - 1 \in S
    BY <2>3, <2>4
  <2> QED
    BY <2>4, <2>5
<1>7. \A k \in 1 .. n : q(k) \in q(1) .. Len(v) + 1 /\ q(k) \in Nat \ {0}
  <2> TAKE k \in 1 .. n
  <2>1. at[k] \in Nat /\ at[1] \in Nat /\ e(k) <= Len(v) /\ m(k) \in Nat \ {0}
    <3>1. 1 \in 1 .. n
      BY <1>1
    <3> QED
      BY <1>3, <1>5, <3>1
  <2>2. CASE k = 1
    BY <2>1, <2>2 DEF q
  <2>3. CASE k # 1
    <3>1. k - 1 \in 1 .. n - 1 /\ (k - 1) + 1 = k
      BY <1>1, <2>3
    <3>2. at[k] > at[1]
      BY <1>6, <3>1
    <3> QED
      BY <1>1, <2>1, <2>3, <3>2 DEF q
  <2> QED
    BY <2>2, <2>3
<1>8. PICK read : ColumnsFrom(v, q(1), read)
  <2>1. 1 \in 1 .. n
    BY <1>1
  <2>2. q(1) \in 1 .. Len(v) + 1
    BY <1>1, <1>7, <2>1
  <2> QED
    BY <1>1, <2>2, ColumnSteps
<1> DEFINE C(k) == Copy!Read(e(k), columns[k])
<1>9. \A k \in 1 .. n : read[q(k)] = ColumnAt(v, C(k), read)
  <2> TAKE k \in 1 .. n
  <2>1. read[q(k)] = UNION {ColumnAt(v, c, read) : c \in Copy!Identifier(v, q(k))}
    BY <1>7, <1>8 DEF ColumnsFrom
  <2>2. Copy!Identifier(v, q(k)) = {C(k)}
    BY <1>5, <1>7
  <2> HIDE DEF C
  <2> QED
    BY <2>1, <2>2, Zenon
<1>10. \A k \in 1 .. n : Copy!Spaces(v, e(k)) = e(k)
  <2> TAKE k \in 1 .. n
  <2>1. e(k) \in Nat /\ e(k) <= Len(v)
    <3>1. at[k] \in Nat /\ m(k) \in Nat /\ e(k) <= Len(v)
      BY <1>3, <1>5
    <3> QED
      BY <3>1
  <2>2. ~IsSpace(v[e(k)])
    BY <1>4
  <2> HIDE DEF e
  <2>3. Skips(v, e(k), e(k))
    BY <1>1, <2>1, <2>2 DEF Skips
  <2> QED
    BY <1>1, <2>1, <2>3, SpacesAt
<1>11. \A k \in 1 .. n : read[q(k)] = IF k < n THEN Copy!Longer(columns[k], read[q(k + 1)])
                                      ELSE {Copy!Read(e(n) + 1, <<columns[n]>>)}
  <2> TAKE k \in 1 .. n
  <2>1. C(k).next = e(k) /\ C(k).value = columns[k]
    BY DEF Copy!Read
  <2>2. e(k) <= Len(v)
    BY <1>3
  <2> HIDE DEF C, e
  <2>3. CASE k < n
    <3>1. Copy!Sees(v, e(k), ",")
      <4>1. IsComma(v[e(k)])
        BY <1>3, <2>3
      <4> QED
        BY <2>2, <4>1, Zenon DEF Copy!Sees, IsComma
    <3>2. q(k + 1) = e(k) + 1
      <4>1. k + 1 # 1 /\ at[k + 1] = e(k) + 1
        BY <1>3, <2>3
      <4> QED
        BY <4>1 DEF q
    <3>3. ColumnAt(v, C(k), read) = Copy!Longer(columns[k], read[e(k) + 1])
      BY <1>10, <2>1, <3>1, Zenon DEF ColumnAt
    <3> QED
      BY <1>9, <2>3, <3>2, <3>3
  <2>4. CASE ~(k < n)
    <3>1. IsClose(v[e(k)])
      BY <1>3, <2>4
    <3>2. ~Copy!Sees(v, e(k), ",") /\ Copy!Sees(v, e(k), ")")
      BY <2>2, <3>1, Zenon DEF Copy!Sees, IsClose
    <3>3. ColumnAt(v, C(k), read) = {Copy!Read(e(k) + 1, <<columns[k]>>)}
      BY <1>10, <2>1, <3>2, Zenon DEF ColumnAt
    <3>4. k = n
      BY <1>1, <2>4
    <3> QED
      BY <1>9, <2>4, <3>3, <3>4
  <2> QED
    BY <2>3, <2>4
<1> DEFINE Out(k) == {Copy!Read(e(n) + 1, From(columns, k - 1))}
           T == {d \in Nat : n - d \in 1 .. n => read[q(n - d)] = Out(n - d)}
<1>12. \A k \in 1 .. n : <<columns[k]>> \o From(columns, k) = From(columns, k - 1)
  BY FromStep
<1>13. 0 \in T
  <2>1. n \in 1 .. n /\ ~(n < n) /\ n - 0 = n
    BY <1>1
  <2>2. read[q(n)] = {Copy!Read(e(n) + 1, <<columns[n]>>)}
    BY <1>11, <2>1
  <2>3. From(columns, n - 1) = <<columns[n]>>
    <3>1. From(columns, n) = <<>>
      BY FromEnds
    <3>2. <<columns[n]>> \o <<>> = <<columns[n]>>
      BY <1>1, <2>1
    <3> QED
      BY <1>12, <2>1, <3>1, <3>2
  <2> QED
    BY <2>1, <2>2, <2>3
<1>14. \A c, x, r : Copy!Longer(c, {Copy!Read(x, r)}) = {Copy!Read(x, <<c>> \o r)}
  BY DEF Copy!Longer, Copy!Read
<1>15. ASSUME NEW d \in Nat, d \in T PROVE d + 1 \in T
  <2> DEFINE k == n - (d + 1)
  <2> SUFFICES ASSUME k \in 1 .. n PROVE read[q(k)] = Out(k)
    OBVIOUS
  <2>1. k + 1 \in 1 .. n /\ n - d = k + 1 /\ k < n /\ (k + 1) - 1 = k
    BY <1>1
  <2>2. read[q(k + 1)] = {Copy!Read(e(n) + 1, From(columns, k))}
    BY <1>15, <2>1
  <2>3. read[q(k)] = Copy!Longer(columns[k], read[q(k + 1)])
    BY <1>11, <2>1
  <2> HIDE DEF k, e
  <2>4. Copy!Longer(columns[k], {Copy!Read(e(n) + 1, From(columns, k))}) = {Copy!Read(e(n) + 1, <<columns[k]>> \o From(columns, k))}
    BY <1>14, Zenon
  <2>5. <<columns[k]>> \o From(columns, k) = From(columns, k - 1)
    BY <1>12
  <2> QED
    BY <2>2, <2>3, <2>4, <2>5, Zenon
<1>16. read[q(1)] = Out(1)
  <2>1. \A d \in Nat : d \in T
    <3> HIDE DEF T
    <3> QED
      BY <1>13, <1>15, Induction
  <2>2. n - 1 \in Nat /\ n - (n - 1) = 1 /\ 1 \in 1 .. n
    BY <1>1
  <2> QED
    BY <2>1, <2>2
<1>17. From(columns, 1 - 1) = columns
  BY FromEnds
<1>18. e(n) + 1 = at[n] + Len(Copy!FmtId(columns[n])) + 2
  <2>1. n \in 1 .. n
    BY <1>1
  <2>2. at[n] \in Nat /\ m(n) \in Nat
    BY <1>3, <1>5, <2>1
  <2> QED
    BY <2>2 DEF m
<1> QED
  BY <1>8, <1>16, <1>17, <1>18 DEF ColumnsFrom, q

\* A text that grows by one part after the other.
GrowsBy(f, n, first, add) == f = [k \in 0 .. n |-> IF k = 0 THEN first ELSE f[k - 1] \o add[k]]

\* Such texts exist.
LEMMA Growth ==
  ASSUME NEW A, NEW n \in Nat, NEW first \in Seq(A), NEW add, \A k \in 1 .. n : add[k] \in Seq(A)
  PROVE  \E f : GrowsBy(f, n, first, add)
<1> DEFINE D == Seq(A)
           step == [k \in 1 .. n |-> [s \in D |-> s \o add[k]]]
<1>1. first \in D /\ step \in [1 .. n -> [D -> D]]
  <2>1. \A k \in 1 .. n : \A s \in D : s \o add[k] \in D
    OBVIOUS
  <2> QED
    BY <2>1
<1>2. PICK f \in [0 .. n -> D] : f[0] = first /\ \A k \in 1 .. n : f[k] = step[k][f[k - 1]]
  <2> HIDE DEF D, step
  <2>1. \E f \in [0 .. n -> D] : f[0] = first /\ \A k \in 1 .. n : f[k] = step[k][f[k - 1]]
    <3>1. n \in Nat
      OBVIOUS
    <3> QED
      BY ONLY <1>1, <3>1, Recursion
  <2> QED
    BY <2>1
<1>3. ASSUME NEW k \in 1 .. n PROVE f[k] = f[k - 1] \o add[k]
  <2>1. k - 1 \in 0 .. n
    OBVIOUS
  <2>2. f[k - 1] \in D
    <3> HIDE DEF D, step
    <3> QED
      BY <1>2, <2>1
  <2>3. f[k] = step[k][f[k - 1]]
    <3> HIDE DEF D, step
    <3> QED
      BY <1>2
  <2> HIDE DEF D
  <2> QED
    BY <2>2, <2>3
<1>4. \A k \in 0 .. n : k = 0 \/ k \in 1 .. n
  OBVIOUS
<1>5. \A k \in 0 .. n : f[k] = IF k = 0 THEN first ELSE f[k - 1] \o add[k]
  <2> HIDE DEF D, step
  <2> QED
    BY <1>2, <1>3, <1>4, Zenon
<1>6. f = [k \in 0 .. n |-> IF k = 0 THEN first ELSE f[k - 1] \o add[k]]
  <2> HIDE DEF D, step
  <2>1. f = [k \in 0 .. n |-> f[k]]
    BY <1>2
  <2> QED
    BY <1>5, <2>1
<1> QED
  BY <1>6 DEF GrowsBy

\* ... what its steps are, and the last one begins with all the earlier ones.
LEMMA Grows ==
  ASSUME NEW A, NEW n \in Nat, NEW first \in Seq(A), NEW add, \A k \in 1 .. n : add[k] \in Seq(A),
         NEW f, GrowsBy(f, n, first, add)
  PROVE  /\ f[0] = first /\ \A k \in 1 .. n : f[k] = f[k - 1] \o add[k]
         /\ \A k \in 0 .. n : f[k] \in Seq(A) /\ Len(f[k]) \in Nat
         /\ \A k \in 1 .. n : Len(f[k]) = Len(f[k - 1]) + Len(add[k]) /\ StartsWith(f[k], f[k - 1])
         /\ \A k \in 0 .. n : StartsWith(f[n], f[k])
<1>1. \A k \in 0 .. n : f[k] = IF k = 0 THEN first ELSE f[k - 1] \o add[k]
  BY DEF GrowsBy
<1>2. 0 \in 0 .. n /\ \A k \in 1 .. n : k \in 0 .. n /\ k # 0
  OBVIOUS
<1>3. f[0] = first /\ \A k \in 1 .. n : f[k] = f[k - 1] \o add[k]
  BY <1>1, <1>2, Zenon
<1> DEFINE S == {k \in Nat : k <= n => f[k] \in Seq(A)}
<1>4. \A k \in 0 .. n : f[k] \in Seq(A)
  <2>1. 0 \in S
    BY <1>3
  <2>2. ASSUME NEW k \in Nat, k \in S PROVE k + 1 \in S
    <3> SUFFICES ASSUME k + 1 <= n PROVE f[k + 1] \in Seq(A)
      OBVIOUS
    <3>1. k + 1 \in 1 .. n /\ (k + 1) - 1 = k /\ k <= n
      OBVIOUS
    <3>2. f[k + 1] = f[k] \o add[k + 1] /\ f[k] \in Seq(A) /\ add[k + 1] \in Seq(A)
      BY <1>3, <2>2, <3>1
    <3> QED
      BY <3>2, ConcatOf
  <2>3. \A k \in Nat : k \in S
    <3> HIDE DEF S
    <3> QED
      BY <2>1, <2>2, Induction
  <2> TAKE k \in 0 .. n
  <2>4. k \in Nat /\ k <= n
    OBVIOUS
  <2> QED
    BY <2>3, <2>4
<1>5. \A k \in 0 .. n : Len(f[k]) \in Nat
  BY <1>4
<1>6. \A k \in 1 .. n : Len(f[k]) = Len(f[k - 1]) + Len(add[k]) /\ StartsWith(f[k], f[k - 1])
  <2> TAKE k \in 1 .. n
  <2> DEFINE x == f[k - 1]
             y == add[k]
  <2>1. x \in Seq(A) /\ y \in Seq(A) /\ f[k] = x \o y
    <3>1. k - 1 \in 0 .. n
      OBVIOUS
    <3> QED
      BY <1>3, <1>4, <3>1
  <2> HIDE DEF x, y
  <2>2. Len(x \o y) = Len(x) + Len(y) /\ Len(x) \in Nat /\ Len(y) \in Nat /\ \A i \in 1 .. Len(x) : (x \o y)[i] = x[i]
    BY ONLY <2>1, ConcatOf
  <2>3. Len(x) <= Len(x \o y)
    BY <2>2
  <2> QED
    BY <2>1, <2>2, <2>3 DEF StartsWith, x, y
<1>7. \A k \in 0 .. n : StartsWith(f[n], f[k])
  BY <1>5, <1>6, Grown
<1> QED
  BY <1>3, <1>4, <1>5, <1>6, <1>7

\* Texts that stand in a longer text.
LEMMA Joined ==
  ASSUME NEW A, NEW x \in Seq(A), NEW y \in Seq(A)
  PROVE  /\ x \o y \in Seq(A) /\ Len(x) \in Nat /\ Len(y) \in Nat /\ Len(x \o y) = Len(x) + Len(y)
         /\ StartsWith(x \o y, x) /\ Stands(y, x \o y, Len(x))
<1> DEFINE z == x \o y
<1>1. /\ z \in Seq(A) /\ Len(x) \in Nat /\ Len(y) \in Nat /\ Len(z) = Len(x) + Len(y)
      /\ \A i \in 1 .. Len(x) : z[i] = x[i]
      /\ \A i \in 1 .. Len(y) : z[Len(x) + i] = y[i]
  BY ConcatOf
<1> HIDE DEF z
<1>2. Len(x) <= Len(z) /\ Len(x) + Len(y) <= Len(z)
  BY <1>1
<1> QED
  BY <1>1, <1>2 DEF StartsWith, Stands, z

\* What stands in a text stands in every text that it begins.
LEMMA StillStands ==
  ASSUME NEW s, NEW w, NEW v, NEW o \in Nat, Len(s) \in Nat, Len(w) \in Nat, Len(v) \in Nat,
         Stands(s, w, o), StartsWith(v, w)
  PROVE  Stands(s, v, o)
<1>1. o + Len(s) <= Len(w) /\ \A j \in 1 .. Len(s) : w[o + j] = s[j]
  BY DEF Stands
<1>2. Len(w) <= Len(v) /\ \A j \in 1 .. Len(w) : v[j] = w[j]
  BY DEF StartsWith
<1>3. \A j \in 1 .. Len(s) : o + j \in 1 .. Len(w)
  BY <1>1
<1>4. \A j \in 1 .. Len(s) : v[o + j] = s[j]
  BY <1>1, <1>2, <1>3
<1>5. o + Len(s) <= Len(v)
  BY <1>1, <1>2
<1> QED
  BY <1>4, <1>5 DEF Stands

\* The beginning of a beginning is a beginning.
LEMMA StartsFurther ==
  ASSUME NEW s, NEW w, NEW v, Len(s) \in Nat, Len(w) \in Nat, Len(v) \in Nat, StartsWith(w, s), StartsWith(v, w)
  PROVE  StartsWith(v, s)
<1>1. /\ Len(s) <= Len(w) /\ \A j \in 1 .. Len(s) : w[j] = s[j]
      /\ Len(w) <= Len(v) /\ \A j \in 1 .. Len(w) : v[j] = w[j]
  BY DEF StartsWith
<1>2. Len(s) <= Len(v) /\ \A j \in 1 .. Len(s) : j \in 1 .. Len(w)
  BY <1>1
<1>3. \A j \in 1 .. Len(s) : v[j] = s[j]
  BY <1>1, <1>2
<1> QED
  BY <1>2, <1>3 DEF StartsWith

\* Where a character stands.
LEMMA StandsOne ==
  ASSUME NEW A, NEW c \in A, NEW v, Len(v) \in Nat, NEW o \in Nat, Stands(<<c>>, v, o)
  PROVE  o + 1 <= Len(v) /\ v[o + 1] = c
<1> DEFINE s == <<c>>
<1>1. Len(s) = 1 /\ s[1] = c
  BY OneOf
<1> HIDE DEF s
<1>2. o + 1 <= Len(v) /\ \A j \in 1 .. 1 : v[o + j] = s[j]
  BY <1>1 DEF Stands, s
<1> QED
  BY <1>1, <1>2

\* Where two characters stand.
LEMMA StandsTwo ==
  ASSUME NEW A, NEW c \in A, NEW d \in A, NEW v, Len(v) \in Nat, NEW o \in Nat, Stands(<<c, d>>, v, o)
  PROVE  o + 2 <= Len(v) /\ v[o + 1] = c /\ v[o + 2] = d
<1> DEFINE s == <<c, d>>
<1>1. Len(s) = 2 /\ s[1] = c /\ s[2] = d
  BY TwoOf
<1> HIDE DEF s
<1>2. o + 2 <= Len(v) /\ \A j \in 1 .. 2 : v[o + j] = s[j]
  BY <1>1 DEF Stands, s
<1>3. 1 \in 1 .. 2 /\ 2 \in 1 .. 2
  OBVIOUS
<1> QED
  BY <1>1, <1>2, <1>3

\* fmtId writes the characters of the name, and quotes.
LEMMA FmtIdText ==
  ASSUME NEW Chars, "Q" \in Chars, NEW name \in Seq(Chars)
  PROVE  Copy!FmtId(name) \in Seq(Chars)
<1>1. Copy!Quote(name) \in Seq(Chars)
  BY QuoteSteps, QuotedText
<1> QED
  BY <1>1, Zenon DEF Copy!FmtId

\* The text of a COPY header, part by part: its start, and each column with what
\* separates it from the one before.
Closing == <<")", " ", "F">>
Separator(k) == IF k = 1 THEN <<>> ELSE <<",", " ">>
HeaderStart(t) == Copy!FmtId(t.schema) \o <<".">> \o Copy!FmtId(t.name) \o <<" ", "(">>
ColumnPart(t, k) == Separator(k) \o Copy!FmtId(t.columns[k])
HeaderSteps(t, A, listed) ==
  /\ listed[0] = HeaderStart(t) /\ Copy!CopyHeader(t).text = listed[Len(t.columns)] \o Closing
  /\ \A k \in 1 .. Len(t.columns) : /\ listed[k] = listed[k - 1] \o ColumnPart(t, k)
                                    /\ ColumnPart(t, k) \in Seq(A)
                                    /\ Len(listed[k]) = Len(listed[k - 1]) + Len(ColumnPart(t, k))
                                    /\ StartsWith(listed[k], listed[k - 1])
  /\ \A k \in 0 .. Len(t.columns) :
       listed[k] \in Seq(A) /\ Len(listed[k]) \in Nat /\ StartsWith(listed[Len(t.columns)], listed[k])

\* A table whose header can be written: nothing in it is without a name.
Written(t, Chars) ==
  /\ t.schema \in Seq(Chars) \ {<<>>} /\ t.name \in Seq(Chars) \ {<<>>}
  /\ t.columns \in Seq(Seq(Chars) \ {<<>>}) \ {<<>>}

\* The characters of a header: those of the names, and the others.
Marks == {".", " ", "(", ")", ",", "F", "Q"}

\* The parts of a header are texts of its characters.
LEMMA HeaderParts ==
  ASSUME NEW Chars, NEW t, Written(t, Chars)
  PROVE  LET A == Chars \union Marks
         IN /\ Closing \in Seq(A) /\ <<".">> \in Seq(A) /\ <<" ", "(">> \in Seq(A)
            /\ Copy!FmtId(t.schema) \in Seq(A) /\ Copy!FmtId(t.name) \in Seq(A)
            /\ \A k \in 1 .. Len(t.columns) : /\ Separator(k) \in Seq(A)
                                              /\ Copy!FmtId(t.columns[k]) \in Seq(A)
<1> DEFINE A == Chars \union Marks
<1>1. /\ "." \in A /\ " " \in A /\ "(" \in A
      /\ ")" \in A /\ "," \in A /\ "F" \in A /\ "Q" \in A
  BY Zenon DEF Marks
<1>2. Chars \subseteq A
  OBVIOUS
<1> HIDE DEF A
<1>3. \A a, b, c \in A : <<a>> \in Seq(A) /\ <<a, b>> \in Seq(A) /\ <<a, b, c>> \in Seq(A)
  OBVIOUS
<1>4. Closing \in Seq(A) /\ <<".">> \in Seq(A) /\ <<" ", "(">> \in Seq(A) /\ <<",", " ">> \in Seq(A)
  BY <1>1, <1>3, Zenon DEF Closing
<1>5. <<>> \in Seq(A)
  OBVIOUS
<1>6. \A k : Separator(k) \in Seq(A)
  BY <1>4, <1>5, Zenon DEF Separator
<1>7. \A name \in Seq(Chars) : Copy!FmtId(name) \in Seq(A)
  <2>1. Seq(Chars) \subseteq Seq(A)
    BY <1>2, WiderSeq
  <2> QED
    BY <1>1, <2>1, FmtIdText
<1>8. /\ t.schema \in Seq(Chars) /\ t.name \in Seq(Chars)
      /\ \A k \in 1 .. Len(t.columns) : t.columns[k] \in Seq(Chars)
  BY DEF Written
<1> QED
  BY <1>4, <1>6, <1>7, <1>8 DEF A

\* The header grows from its names by one column after the other.
LEMMA HeaderIsWritten ==
  ASSUME NEW Chars, NEW t, Written(t, Chars)
  PROVE  \E listed : HeaderSteps(t, Chars \union Marks, listed)
<1> DEFINE A == Chars \union Marks
           n == Len(t.columns)
           Is(f) == f = [k \in 0 .. n |-> IF k = 0 THEN HeaderStart(t) ELSE f[k - 1] \o ColumnPart(t, k)]
           add == [k \in 1 .. n |-> ColumnPart(t, k)]
           listed == CHOOSE f : Is(f)
<1>1. n \in Nat
  BY DEF Written
<1>2. Copy!CopyHeader(t).text = listed[n] \o Closing
  <2>1. \A kind, text : Copy!Line(kind, text).text = text
    BY DEF Copy!Line
  <2>2. Copy!CopyHeader(t) = Copy!Line("COPY", listed[n] \o Closing)
    BY Zenon DEF Copy!CopyHeader, HeaderStart, ColumnPart, Separator, Closing
  <2> QED
    BY <2>1, <2>2, Zenon
<1> HIDE DEF listed, A, n
<1>3. HeaderStart(t) \in Seq(A)
  <2>1. Copy!FmtId(t.schema) \in Seq(A) /\ <<".">> \in Seq(A) /\ Copy!FmtId(t.name) \in Seq(A) /\ <<" ", "(">> \in Seq(A)
    BY HeaderParts, Zenon DEF A
  <2>2. \A x, y, z, w \in Seq(A) : x \o y \o z \o w \in Seq(A)
    OBVIOUS
  <2> QED
    BY <2>1, <2>2, Zenon DEF HeaderStart
<1>4. \A k \in 1 .. n : ColumnPart(t, k) \in Seq(A)
  <2> TAKE k \in 1 .. n
  <2>1. Separator(k) \in Seq(A) /\ Copy!FmtId(t.columns[k]) \in Seq(A)
    BY HeaderParts, Zenon DEF A, n
  <2> QED
    BY <2>1, ConcatOf DEF ColumnPart
<1>5. \A k \in 1 .. n : add[k] = ColumnPart(t, k) /\ add[k] \in Seq(A)
  BY <1>4
<1> HIDE DEF add
<1>6. \A f : GrowsBy(f, n, HeaderStart(t), add) <=> Is(f)
  <2> TAKE f
  <2>1. \A k \in 0 .. n : k = 0 \/ k \in 1 .. n
    OBVIOUS
  <2>2. \A k \in 0 .. n : (IF k = 0 THEN HeaderStart(t) ELSE f[k - 1] \o add[k])
                         = (IF k = 0 THEN HeaderStart(t) ELSE f[k - 1] \o ColumnPart(t, k))
    BY <1>5, <2>1, Zenon
  <2>3. [k \in 0 .. n |-> IF k = 0 THEN HeaderStart(t) ELSE f[k - 1] \o add[k]]
        = [k \in 0 .. n |-> IF k = 0 THEN HeaderStart(t) ELSE f[k - 1] \o ColumnPart(t, k)]
    BY <2>2, Zenon
  <2> QED
    BY <2>3, Zenon DEF GrowsBy
<1>7. \E f : GrowsBy(f, n, HeaderStart(t), add)
  BY <1>1, <1>3, <1>5, Growth
<1>8. Is(listed)
  <2> HIDE DEF Is
  <2> QED
    BY <1>6, <1>7, Zenon DEF listed
<1>9. GrowsBy(listed, n, HeaderStart(t), add)
  <2> HIDE DEF Is
  <2> QED
    BY <1>6, <1>8, Zenon
<1>10. /\ listed[0] = HeaderStart(t) /\ \A k \in 1 .. n : listed[k] = listed[k - 1] \o add[k]
       /\ \A k \in 0 .. n : listed[k] \in Seq(A) /\ Len(listed[k]) \in Nat
       /\ \A k \in 1 .. n : Len(listed[k]) = Len(listed[k - 1]) + Len(add[k]) /\ StartsWith(listed[k], listed[k - 1])
       /\ \A k \in 0 .. n : StartsWith(listed[n], listed[k])
  <2> HIDE DEF Is
  <2>1. \A k \in 1 .. n : add[k] \in Seq(A)
    BY <1>5
  <2> QED
    BY ONLY <1>1, <1>3, <1>9, <2>1, Grows
<1>11. HeaderSteps(t, A, listed)
  BY <1>2, <1>5, <1>10 DEF HeaderSteps, n
<1> QED
  BY <1>11 DEF A

\* Where a text stands, its parts stand one behind the other.
LEMMA PartsStand ==
  ASSUME NEW A, NEW x \in Seq(A), NEW y \in Seq(A), NEW v, Len(v) \in Nat, NEW o \in Nat, Stands(x \o y, v, o)
  PROVE  Stands(x, v, o) /\ Stands(y, v, o + Len(x))
<1> DEFINE z == x \o y
<1>1. /\ z \in Seq(A) /\ Len(x) \in Nat /\ Len(y) \in Nat /\ Len(z) = Len(x) + Len(y)
      /\ \A i \in 1 .. Len(x) : z[i] = x[i]
      /\ \A i \in 1 .. Len(y) : z[Len(x) + i] = y[i]
  BY ConcatOf
<1>2. o + Len(z) <= Len(v) /\ \A j \in 1 .. Len(z) : v[o + j] = z[j]
  BY DEF Stands
<1> HIDE DEF z
<1>3. Stands(x, v, o)
  <2>1. \A j \in 1 .. Len(x) : j \in 1 .. Len(z)
    BY <1>1
  <2>2. \A j \in 1 .. Len(x) : v[o + j] = x[j]
    BY <1>1, <1>2, <2>1
  <2>3. o + Len(x) <= Len(v)
    BY <1>1, <1>2
  <2> QED
    BY <2>2, <2>3 DEF Stands
<1>4. Stands(y, v, o + Len(x))
  <2>1. \A j \in 1 .. Len(y) : Len(x) + j \in 1 .. Len(z) /\ o + (Len(x) + j) = (o + Len(x)) + j
    BY <1>1
  <2>2. \A j \in 1 .. Len(y) : v[(o + Len(x)) + j] = y[j]
    BY <1>1, <1>2, <2>1
  <2>3. (o + Len(x)) + Len(y) <= Len(v)
    BY <1>1, <1>2
  <2> QED
    BY <2>2, <2>3 DEF Stands
<1> QED
  BY <1>3, <1>4

\* Where the parts of a header stand in its text.
HeaderLaidOut(t, v, l) ==
  LET a == Len(Copy!FmtId(t.schema))
      b == Len(Copy!FmtId(t.name))
      n == Len(t.columns)
  IN /\ a \in Nat /\ b \in Nat /\ l[0] = a + b + 3 /\ Len(v) = l[n] + 3
     /\ Stands(Copy!FmtId(t.schema), v, 0) /\ Stands(<<".">>, v, a)
     /\ Stands(Copy!FmtId(t.name), v, a + 1) /\ Stands(<<" ", "(">>, v, a + 1 + b)
     /\ \A k \in 0 .. n : l[k] \in Nat /\ l[k] <= l[n]
     /\ \A k \in 1 .. n :
          LET m == Len(Copy!FmtId(t.columns[k]))
              d == IF k = 1 THEN 0 ELSE 2
          IN /\ m \in Nat /\ l[k] = l[k - 1] + d + m
             /\ Stands(Copy!FmtId(t.columns[k]), v, l[k - 1] + d)
             /\ k > 1 => Stands(<<",", " ">>, v, l[k - 1])
     /\ Stands(Closing, v, l[n])

\* The text of a header is laid out like that.
LEMMA HeaderStands ==
  ASSUME NEW Chars, NEW t, Written(t, Chars)
  PROVE  LET v == Copy!CopyHeader(t).text
         IN v \in Seq(Chars \union Marks) /\ \E l : HeaderLaidOut(t, v, l)
<1> DEFINE A == Chars \union Marks
           v == Copy!CopyHeader(t).text
           n == Len(t.columns)
           fs == Copy!FmtId(t.schema)
           fn == Copy!FmtId(t.name)
           fc(k) == Copy!FmtId(t.columns[k])
           dot == <<".">>
           open == <<" ", "(">>
           between == <<",", " ">>
<1>1. PICK listed : HeaderSteps(t, A, listed)
  BY HeaderIsWritten
<1> DEFINE l == [k \in 0 .. n |-> Len(listed[k])]
<1> HIDE DEF v, A
<1>2. n \in Nat /\ n \in 0 .. n /\ 0 \in 0 .. n /\ \A k \in 1 .. n : k - 1 \in 0 .. n /\ k \in 0 .. n
  BY DEF Written
<1>3. /\ Closing \in Seq(A) /\ dot \in Seq(A) /\ open \in Seq(A) /\ fs \in Seq(A) /\ fn \in Seq(A)
      /\ \A k \in 1 .. n : Separator(k) \in Seq(A) /\ fc(k) \in Seq(A)
  BY HeaderParts, Zenon DEF A
<1>4. Len(dot) = 1 /\ Len(open) = 2 /\ Len(Closing) = 3
  <2>1. \A x, y, z : Len(<<x>>) = 1 /\ Len(<<x, y>>) = 2 /\ Len(<<x, y, z>>) = 3
    OBVIOUS
  <2> QED
    BY <2>1, Zenon DEF Closing
<1>5. \A k : Len(Separator(k)) = (IF k = 1 THEN 0 ELSE 2) /\ (k # 1 => Separator(k) = between)
  <2>1. \A x, y : Len(<<x, y>>) = 2
    OBVIOUS
  <2>2. Len(<<>>) = 0
    OBVIOUS
  <2> TAKE k
  <2>3. CASE k = 1
    BY <2>2, <2>3 DEF Separator
  <2>4. CASE k # 1
    <3>1. Separator(k) = between
      BY <2>4, Zenon DEF Separator
    <3>2. Len(between) = 2
      BY <2>1, Zenon
    <3> HIDE DEF between
    <3> QED
      BY <2>4, <3>1, <3>2
  <2> QED
    BY <2>3, <2>4
<1> HIDE DEF dot, open, between, fs, fn, fc, n
<1>6. /\ listed[0] = fs \o dot \o fn \o open /\ v = listed[n] \o Closing
      /\ \A k \in 1 .. n : /\ listed[k] = listed[k - 1] \o (Separator(k) \o fc(k))
                           /\ Separator(k) \o fc(k) \in Seq(A)
      /\ \A k \in 0 .. n : listed[k] \in Seq(A) /\ Len(listed[k]) \in Nat /\ StartsWith(listed[n], listed[k])
  BY <1>1, Zenon DEF HeaderSteps, HeaderStart, ColumnPart, v, n, fs, fn, fc, dot, open
<1>7. /\ v \in Seq(A) /\ Len(v) \in Nat /\ Len(v) = Len(listed[n]) + 3 /\ Stands(Closing, v, Len(listed[n]))
      /\ StartsWith(v, listed[n])
  <2>1. listed[n] \in Seq(A)
    BY <1>2, <1>6
  <2> HIDE DEF l
  <2> DEFINE x == listed[n]
  <2>2. x \in Seq(A) /\ Closing \in Seq(A) /\ v = x \o Closing
    BY <1>3, <1>6, <2>1
  <2> HIDE DEF x
  <2>3. /\ x \o Closing \in Seq(A) /\ Len(x) \in Nat /\ Len(x \o Closing) = Len(x) + Len(Closing)
        /\ StartsWith(x \o Closing, x) /\ Stands(Closing, x \o Closing, Len(x))
    BY ONLY <2>2, Joined
  <2>4. Len(v) = Len(x) + 3 /\ v \in Seq(A) /\ Len(v) \in Nat
    BY <1>4, <2>2, <2>3
  <2> QED
    BY <2>2, <2>3, <2>4 DEF x
<1>8. \A k \in 0 .. n : Stands(listed[k], v, 0)
  <2> TAKE k \in 0 .. n
  <2>1. StartsWith(v, listed[k])
    BY <1>2, <1>6, <1>7, StartsFurther
  <2>2. Len(listed[k]) <= Len(v) /\ \A j \in 1 .. Len(listed[k]) : v[j] = listed[k][j]
    BY <2>1 DEF StartsWith
  <2>3. Len(listed[k]) \in Nat
    BY <1>6
  <2>4. 0 + Len(listed[k]) <= Len(v) /\ \A j \in 1 .. Len(listed[k]) : 0 + j = j
    BY <2>2, <2>3
  <2>5. \A j \in 1 .. Len(listed[k]) : v[0 + j] = listed[k][j]
    BY <2>2, <2>4, Zenon
  <2> QED
    BY <2>4, <2>5 DEF Stands
<1>9. /\ Len(fs) \in Nat /\ Len(fn) \in Nat /\ Len(listed[0]) = Len(fs) + Len(fn) + 3
      /\ Stands(fs, v, 0) /\ Stands(dot, v, Len(fs)) /\ Stands(fn, v, Len(fs) + 1) /\ Stands(open, v, Len(fs) + 1 + Len(fn))
  <2> DEFINE x == fs \o dot
             y == x \o fn
             z == y \o open
  <2>1. x \in Seq(A) /\ Len(fs) \in Nat /\ Len(x) = Len(fs) + 1
    <3>1. fs \o dot \in Seq(A) /\ Len(fs) \in Nat /\ Len(fs \o dot) = Len(fs) + Len(dot)
      BY <1>3, Joined
    <3> QED
      BY <1>4, <3>1
  <2> HIDE DEF x
  <2>2. y \in Seq(A) /\ Len(fn) \in Nat /\ Len(y) = Len(fs) + 1 + Len(fn)
    <3>1. x \o fn \in Seq(A) /\ Len(fn) \in Nat /\ Len(x \o fn) = Len(x) + Len(fn)
      BY <1>3, <2>1, Joined
    <3> QED
      BY <2>1, <3>1
  <2> HIDE DEF y
  <2>3. z \in Seq(A) /\ Len(z) = Len(fs) + Len(fn) + 3
    <3>1. y \o open \in Seq(A) /\ Len(y \o open) = Len(y) + Len(open)
      BY <1>3, <2>2, Joined
    <3> QED
      BY <1>4, <2>1, <2>2, <3>1
  <2>4. listed[0] = z /\ Stands(z, v, 0)
    <3>1. listed[0] = z
      BY <1>6 DEF x, y
    <3> QED
      BY <1>2, <1>8, <3>1
  <2>5. Stands(y, v, 0) /\ Stands(open, v, Len(y))
    <3>1. Stands(y \o open, v, 0)
      BY <2>4
    <3>2. Stands(y, v, 0) /\ Stands(open, v, 0 + Len(y))
      BY <1>3, <1>7, <2>2, <3>1, PartsStand
    <3> QED
      BY <2>1, <2>2, <3>2
  <2>6. Stands(x, v, 0) /\ Stands(fn, v, Len(x))
    <3>1. Stands(x \o fn, v, 0)
      BY <2>5 DEF y
    <3>2. Stands(x, v, 0) /\ Stands(fn, v, 0 + Len(x))
      BY <1>3, <1>7, <2>1, <3>1, PartsStand
    <3> QED
      BY <2>1, <3>2
  <2>7. Stands(fs, v, 0) /\ Stands(dot, v, Len(fs))
    <3>1. Stands(fs \o dot, v, 0)
      BY <2>6 DEF x
    <3>2. Stands(fs, v, 0) /\ Stands(dot, v, 0 + Len(fs))
      BY <1>3, <1>7, <3>1, PartsStand
    <3> QED
      BY <2>1, <3>2
  <2> HIDE DEF z
  <2> QED
    BY <2>1, <2>2, <2>3, <2>4, <2>5, <2>6, <2>7
<1>10. ASSUME NEW k \in 1 .. n
       PROVE  LET d == IF k = 1 THEN 0 ELSE 2
              IN /\ Len(fc(k)) \in Nat /\ Len(listed[k]) = Len(listed[k - 1]) + d + Len(fc(k))
                 /\ Stands(fc(k), v, Len(listed[k - 1]) + d)
                 /\ k > 1 => Stands(between, v, Len(listed[k - 1]))
  <2> DEFINE d == IF k = 1 THEN 0 ELSE 2
             x == listed[k - 1]
             s == Separator(k)
             c == fc(k)
             y == s \o c
  <2>1. /\ x \in Seq(A) /\ s \in Seq(A) /\ c \in Seq(A) /\ y \in Seq(A) /\ listed[k] = x \o y
        /\ Stands(x \o y, v, 0)
    BY <1>2, <1>3, <1>6, <1>8
  <2>2. Len(s) = d /\ d \in Nat
    BY <1>5
  <2> HIDE DEF d, x, s, c
  <2>3. Len(s) \in Nat /\ Len(c) \in Nat /\ Len(y) = Len(s) + Len(c)
    BY ONLY <2>1, Joined
  <2> HIDE DEF y
  <2>4. Len(x) \in Nat /\ Len(x \o y) = Len(x) + Len(y)
    BY ONLY <2>1, Joined
  <2>5. Stands(y, v, Len(x))
    <3>1. Stands(y, v, 0 + Len(x))
      BY <1>7, <2>1, PartsStand
    <3> QED
      BY <2>4, <3>1
  <2>6. Stands(s, v, Len(x)) /\ Stands(c, v, Len(x) + Len(s))
    <3>1. Stands(s \o c, v, Len(x))
      BY <2>5 DEF y
    <3> QED
      BY <1>7, <2>1, <2>4, <3>1, PartsStand
  <2>7. k > 1 => s = between
    BY <1>5 DEF s
  <2>8. Len(listed[k]) = Len(x) + d + Len(c)
    BY <2>1, <2>2, <2>3, <2>4
  <2>9. Stands(c, v, Len(x) + d)
    BY <2>2, <2>6
  <2> QED
    BY <2>3, <2>6, <2>7, <2>8, <2>9 DEF d, x, c
<1>11. \A k \in 0 .. n : l[k] = Len(listed[k])
  OBVIOUS
<1> HIDE DEF l
<1>12. \A k \in 0 .. n : l[k] \in Nat /\ l[k] <= l[n]
  BY <1>2, <1>6, <1>11 DEF StartsWith
<1>13. HeaderLaidOut(t, v, l)
  <2>1. \A k \in 1 .. n :
          LET m == Len(fc(k))
              d == IF k = 1 THEN 0 ELSE 2
          IN /\ m \in Nat /\ l[k] = l[k - 1] + d + m
             /\ Stands(fc(k), v, l[k - 1] + d)
             /\ k > 1 => Stands(between, v, l[k - 1])
    <3> TAKE k \in 1 .. n
    <3>1. l[k] = Len(listed[k]) /\ l[k - 1] = Len(listed[k - 1])
      BY <1>2, <1>11
    <3> QED
      BY <1>10, <3>1, Zenon
  <2>2. l[0] = Len(fs) + Len(fn) + 3 /\ l[n] = Len(listed[n])
    BY <1>2, <1>9, <1>11
  <2> QED
    BY <1>7, <1>9, <1>12, <2>1, <2>2, Zenon DEF HeaderLaidOut, fs, fn, fc, dot, open, between, n
<1> QED
  BY <1>7, <1>13, Zenon DEF v, A

\* The parser of COPY headers reads back every header that pg_dump writes: whatever the
\* names, with spaces, quotes, brackets and dots in them.
THEOREM HeaderIsRead ==
  ASSUME NEW Chars, "Q" \in Chars, NEW t, Written(t, Chars), Copy!IsInjective(t.columns)
  PROVE  Copy!ParseCopyHeader(Copy!CopyHeader(t).text)
           = {[schema |-> t.schema, name |-> t.name, columns |-> t.columns]}
<1> DEFINE v == Copy!CopyHeader(t).text
           A == Chars \union Marks
           n == Len(t.columns)
           a == Len(Copy!FmtId(t.schema))
           b == Len(Copy!FmtId(t.name))
           m(k) == Len(Copy!FmtId(t.columns[k]))
           header == [schema |-> t.schema, name |-> t.name, columns |-> t.columns]
<1>1. v \in Seq(A) /\ Len(v) \in Nat
  BY HeaderStands
<1>2. PICK l : HeaderLaidOut(t, v, l)
  BY HeaderStands
<1> HIDE DEF v, A
<1>3. /\ n \in Nat \ {0} /\ t.schema \in Seq(Chars) \ {<<>>} /\ t.name \in Seq(Chars) \ {<<>>}
      /\ t.columns \in Seq(Seq(Chars) \ {<<>>}) /\ t.columns # <<>>
  BY DEF Written
<1> HIDE DEF n, m, a, b
<1>4. /\ a \in Nat /\ b \in Nat /\ l[0] = a + b + 3 /\ Len(v) = l[n] + 3
      /\ \A k \in 0 .. n : l[k] \in Nat /\ l[k] <= l[n]
  BY <1>2 DEF HeaderLaidOut, n, a, b
<1>5. /\ Stands(Copy!FmtId(t.schema), v, 0) /\ Stands(<<".">>, v, a)
      /\ Stands(Copy!FmtId(t.name), v, a + 1) /\ Stands(<<" ", "(">>, v, a + 1 + b)
      /\ Stands(Closing, v, l[n])
  BY <1>2, Zenon DEF HeaderLaidOut, n, a, b
<1>6. \A k \in 1 .. n :
        LET d == IF k = 1 THEN 0 ELSE 2
        IN /\ m(k) \in Nat /\ l[k] = l[k - 1] + d + m(k)
           /\ Stands(Copy!FmtId(t.columns[k]), v, l[k - 1] + d)
           /\ k > 1 => Stands(<<",", " ">>, v, l[k - 1])
  BY <1>2, Zenon DEF HeaderLaidOut, n, m
<1> DEFINE IsDot(c) == c = "."
           IsOpen(c) == c = "("
           IsFrom(c) == c = "F"
<1>7. \A c : (IsDot(c) \/ IsSpace(c) \/ IsComma(c) \/ IsClose(c)) => c \notin Copy!Bare /\ c # "Q"
  BY Zenon DEF IsSpace, IsComma, IsClose, Copy!Bare, Copy!Letters, Copy!Digits
<1>8. \A c : (IsOpen(c) \/ IsFrom(c)) => ~IsSpace(c)
  BY Zenon DEF IsSpace
<1>9. /\ a + 1 <= Len(v) /\ IsDot(v[a + 1])
      /\ a + b + 3 <= Len(v) /\ IsSpace(v[a + b + 2]) /\ IsOpen(v[a + b + 3])
      /\ IsClose(v[l[n] + 1]) /\ IsSpace(v[l[n] + 2]) /\ IsFrom(v[l[n] + 3])
      /\ \A k \in 1 .. n : k > 1 => IsComma(v[l[k - 1] + 1]) /\ IsSpace(v[l[k - 1] + 2])
  <2>1. \A c : \A o \in Nat : Stands(<<c>>, v, o) => o + 1 <= Len(v) /\ v[o + 1] = c
    BY <1>1, StandsOne
  <2>2. \A c, d : \A o \in Nat : Stands(<<c, d>>, v, o) => o + 2 <= Len(v) /\ v[o + 1] = c /\ v[o + 2] = d
    <3> SUFFICES ASSUME NEW c, NEW d, NEW o \in Nat, Stands(<<c, d>>, v, o)
                 PROVE  o + 2 <= Len(v) /\ v[o + 1] = c /\ v[o + 2] = d
      BY Zenon
    <3> DEFINE B == {c, d}
    <3>1. c \in B /\ d \in B /\ Len(v) \in Nat /\ o \in Nat /\ Stands(<<c, d>>, v, o)
      BY <1>1
    <3> HIDE DEF B
    <3> QED
      BY ONLY <3>1, StandsTwo
  <2>3. \A c, d, x : \A o \in Nat : Stands(<<c, d, x>>, v, o) => v[o + 1] = c /\ v[o + 2] = d /\ v[o + 3] = x
    <3> TAKE c, d, x
    <3> TAKE o \in Nat
    <3> HAVE Stands(<<c, d, x>>, v, o)
    <3> DEFINE s == <<c, d, x>>
    <3>1. Len(s) = 3 /\ s[1] = c /\ s[2] = d /\ s[3] = x
      OBVIOUS
    <3> HIDE DEF s
    <3>2. \A j \in 1 .. 3 : v[o + j] = s[j]
      BY <3>1 DEF Stands, s
    <3>3. 1 \in 1 .. 3 /\ 2 \in 1 .. 3 /\ 3 \in 1 .. 3
      OBVIOUS
    <3> QED
      BY <3>1, <3>2, <3>3
  <2>4. a + 1 <= Len(v) /\ v[a + 1] = "."
    BY <1>4, <1>5, <2>1, Zenon
  <2>5. a + 1 + b \in Nat /\ a + 1 + b + 2 = a + b + 3 /\ a + 1 + b + 1 = a + b + 2
    BY <1>4
  <2>6. a + b + 3 <= Len(v) /\ v[a + b + 2] = " " /\ v[a + b + 3] = "("
    <3> HIDE DEF IsDot, IsOpen, IsFrom
    <3>1. a + 1 + b + 2 <= Len(v) /\ v[a + 1 + b + 1] = " " /\ v[a + 1 + b + 2] = "("
      BY <1>5, <2>2, <2>5, Zenon
    <3> QED
      BY <2>5, <3>1, Zenon
  <2>7. l[n] \in Nat /\ \A k \in 1 .. n : l[k - 1] \in Nat
    <3>1. n \in 0 .. n /\ \A k \in 1 .. n : k - 1 \in 0 .. n
      BY <1>3
    <3> QED
      BY <1>4, <3>1
  <2>8. v[l[n] + 1] = ")" /\ v[l[n] + 2] = " " /\ v[l[n] + 3] = "F"
    <3>1. Stands(<<")", " ", "F">>, v, l[n])
      BY <1>5, Zenon DEF Closing
    <3> QED
      BY <2>3, <2>7, <3>1, Zenon
  <2>9. \A k \in 1 .. n : k > 1 => v[l[k - 1] + 1] = "," /\ v[l[k - 1] + 2] = " "
    <3> TAKE k \in 1 .. n
    <3>1. k > 1 => Stands(<<",", " ">>, v, l[k - 1])
      BY <1>6, Zenon
    <3>2. l[k - 1] \in Nat
      BY <2>7
    <3>3. Stands(<<",", " ">>, v, l[k - 1]) => v[l[k - 1] + 1] = "," /\ v[l[k - 1] + 2] = " "
      <4> DEFINE o == l[k - 1]
      <4>1. o \in Nat
        BY <3>2
      <4> HIDE DEF o
      <4>2. Stands(<<",", " ">>, v, o) => v[o + 1] = "," /\ v[o + 2] = " "
        BY <2>2, <4>1, Zenon
      <4> QED
        BY <4>2, Zenon DEF o
    <3> QED
      BY <3>1, <3>3, Zenon
  <2> QED
    BY <2>4, <2>6, <2>8, <2>9, Zenon DEF IsSpace, IsComma, IsClose
<1> HIDE DEF IsDot, IsOpen, IsFrom
<1>10. Copy!Identifier(v, 1) = {Copy!Read(a + 1, t.schema)}
  <2>1. 0 + a + 1 = a + 1 /\ 0 \in Nat /\ 1 \in Nat \ {0} /\ 1 <= 0 + 1 /\ \A i \in 1 .. 0 : IsSpace(v[i])
    BY <1>4
  <2>2. EndsBare(v, 0 + a + 1)
    BY <1>7, <1>9, <2>1 DEF EndsBare
  <2>3. /\ t.schema \in Seq(Chars) \ {<<>>} /\ v \in Seq(A) /\ "Q" \in Chars
        /\ Stands(Copy!FmtId(t.schema), v, 0) /\ EndsBare(v, 0 + Len(Copy!FmtId(t.schema)) + 1)
    BY <1>1, <1>3, <1>5, <2>2, Zenon DEF a
  <2>4. Copy!Identifier(v, 1) = {Copy!Read(0 + Len(Copy!FmtId(t.schema)) + 1, t.schema)}
    BY ONLY <2>1, <2>3, IdentifierStands
  <2> QED
    BY <2>1, <2>4, Zenon DEF a
<1>11. Copy!Identifier(v, a + 2) = {Copy!Read(a + b + 2, t.name)}
  <2>1. /\ a + 1 + b + 1 = a + b + 2 /\ a + 1 \in Nat /\ a + 2 \in Nat \ {0} /\ a + 2 <= a + 1 + 1
        /\ \A i \in a + 2 .. a + 1 : IsSpace(v[i])
    BY <1>4
  <2>2. EndsBare(v, a + 1 + b + 1)
    <3>1. a + b + 2 <= Len(v)
      BY <1>4, <1>9
    <3> QED
      BY <1>7, <1>9, <2>1, <3>1 DEF EndsBare
  <2>3. /\ t.name \in Seq(Chars) \ {<<>>} /\ v \in Seq(A) /\ "Q" \in Chars
        /\ Stands(Copy!FmtId(t.name), v, a + 1) /\ EndsBare(v, a + 1 + Len(Copy!FmtId(t.name)) + 1)
    BY <1>1, <1>3, <1>5, <2>2, Zenon DEF b
  <2>4. Copy!Identifier(v, a + 2) = {Copy!Read(a + 1 + Len(Copy!FmtId(t.name)) + 1, t.name)}
    BY ONLY <2>1, <2>3, IdentifierStands
  <2> QED
    BY <2>1, <2>4, Zenon DEF b
<1>12. Copy!Columns(v, a + b + 4) = {Copy!Read(l[n] + 2, t.columns)}
  <2> DEFINE at == [k \in 1 .. n |-> l[k - 1] + (IF k = 1 THEN 0 ELSE 2)]
  <2>1. \A k \in 1 .. n : at[k] = l[k - 1] + (IF k = 1 THEN 0 ELSE 2)
    OBVIOUS
  <2> HIDE DEF at
  <2>2. ASSUME NEW k \in 1 .. n PROVE ColumnStands(v, t.columns, at, k)
    <3> DEFINE d == IF k = 1 THEN 0 ELSE 2
               end == at[k] + m(k) + 1
    <3>1. /\ m(k) \in Nat /\ l[k] = l[k - 1] + d + m(k) /\ at[k] = l[k - 1] + d
          /\ Stands(Copy!FmtId(t.columns[k]), v, at[k])
      BY <1>6, <2>1
    <3>2. l[k - 1] \in Nat /\ l[k] \in Nat /\ l[k] <= l[n] /\ d \in Nat
      <4>1. k - 1 \in 0 .. n /\ k \in 0 .. n
        BY <1>3
      <4> QED
        BY <1>4, <4>1
    <3>3. at[k] \in Nat /\ end = l[k] + 1 /\ end <= Len(v)
      <4>1. l[n] \in Nat /\ Len(v) = l[n] + 3
        <5>1. n \in 0 .. n
          BY <1>3
        <5> QED
          BY <1>4, <5>1
      <4>2. at[k] = l[k - 1] + d /\ m(k) \in Nat /\ l[k] = l[k - 1] + d + m(k)
        BY <3>1
      <4> HIDE DEF d
      <4> QED
        BY ONLY <3>2, <4>1, <4>2
    <3>4. k > 1 => IsSpace(v[at[k]])
      <4>1. k > 1 => at[k] = l[k - 1] + 2
        BY <3>1
      <4> QED
        BY <1>9, <4>1
    <3>5. k < n => IsComma(v[end]) /\ at[k + 1] = end + 1
      <4> HAVE k < n
      <4>1. k + 1 \in 1 .. n /\ k + 1 > 1 /\ (k + 1) - 1 = k /\ k + 1 # 1
        BY <1>3
      <4>2. at[k + 1] = l[k] + 2
        BY <2>1, <4>1
      <4>3. IsComma(v[l[k] + 1])
        BY <1>9, <4>1
      <4> HIDE DEF end
      <4> QED
        BY <3>2, <3>3, <4>2, <4>3
    <3>6. ~(k < n) => IsClose(v[end])
      <4> HAVE ~(k < n)
      <4>1. k = n
        BY <1>3
      <4> QED
        BY <1>9, <3>3, <4>1
    <3> HIDE DEF end
    <3> QED
      BY <3>1, <3>3, <3>4, <3>5, <3>6, Zenon DEF ColumnStands, end, m, n
  <2>3. \A k \in 1 .. Len(t.columns) : ColumnStands(v, t.columns, at, k)
    BY <2>2 DEF n
  <2>4. Copy!Columns(v, at[1] + 1) = {Copy!Read(at[n] + m(n) + 2, t.columns)}
    <3> DEFINE columns == t.columns
    <3>1. /\ columns \in Seq(Seq(Chars) \ {<<>>}) /\ columns # <<>> /\ v \in Seq(A) /\ "Q" \in Chars
          /\ \A k \in 1 .. Len(columns) : ColumnStands(v, columns, at, k)
      BY <1>1, <1>3, <2>3
    <3> HIDE DEF columns
    <3>2. Copy!Columns(v, at[1] + 1) = {Copy!Read(at[Len(columns)] + Len(Copy!FmtId(columns[Len(columns)])) + 2, columns)}
      BY ONLY <3>1, ColumnsAreRead
    <3> QED
      BY <3>2, Zenon DEF columns, n, m
  <2>5. at[1] + 1 = a + b + 4
    <3>1. 1 \in 1 .. n /\ 1 - 1 = 0
      BY <1>3
    <3>2. at[1] = l[0] + 0
      BY <2>1, <3>1
    <3> QED
      BY <1>4, <3>2
  <2>6. at[n] + m(n) + 2 = l[n] + 2
    <3>1. n \in 1 .. n /\ n - 1 \in 0 .. n /\ n \in 0 .. n
      BY <1>3
    <3>2. at[n] = l[n - 1] + (IF n = 1 THEN 0 ELSE 2) /\ l[n] = l[n - 1] + (IF n = 1 THEN 0 ELSE 2) + m(n) /\ m(n) \in Nat
      BY <1>6, <2>1, <3>1
    <3>3. l[n - 1] \in Nat /\ l[n] \in Nat
      BY <1>4, <3>1
    <3> QED
      BY <3>2, <3>3
  <2> QED
    BY <2>4, <2>5, <2>6, Zenon
<1>13. Copy!Spaces(v, a + b + 2) = a + b + 3
  <2>1. a + b + 2 \in Nat /\ a + b + 3 \in a + b + 2 .. Len(v) + 1 /\ \A i \in a + b + 2 .. a + b + 3 - 1 : i = a + b + 2
    <3>1. a \in Nat /\ b \in Nat /\ Len(v) \in Nat /\ a + b + 3 <= Len(v)
      BY <1>1, <1>4, <1>9
    <3> QED
      BY ONLY <3>1
  <2>2. Skips(v, a + b + 2, a + b + 3)
    <3> DEFINE o == a + b + 2
               q == a + b + 3
    <3>1. IsSpace(v[o])
      BY <1>9
    <3>2. ~IsSpace(v[q])
      BY <1>8, <1>9
    <3>3. q \in o .. Len(v) + 1 /\ \A i \in o .. q - 1 : i = o
      <4>1. a \in Nat /\ b \in Nat /\ Len(v) \in Nat /\ a + b + 3 <= Len(v)
        BY <1>1, <1>4, <1>9
      <4>2. o \in Nat /\ q = o + 1 /\ q <= Len(v)
        BY ONLY <4>1
      <4> HIDE DEF o, q
      <4> QED
        BY ONLY <4>1, <4>2
    <3> HIDE DEF o, q
    <3>4. Skips(v, o, q)
      BY <3>1, <3>2, <3>3 DEF Skips
    <3> QED
      BY <3>4, Zenon DEF o, q
  <2> QED
    BY <1>1, <2>1, <2>2, SpacesAt
<1>14. Copy!Spaces(v, l[n] + 2) = Len(v)
  <2>1. /\ l[n] + 2 \in Nat /\ Len(v) \in l[n] + 2 .. Len(v) + 1 /\ \A i \in l[n] + 2 .. Len(v) - 1 : i = l[n] + 2
    <3>1. n \in 0 .. n
      BY <1>3
    <3> QED
      BY <1>4, <3>1
  <2>2. Skips(v, l[n] + 2, Len(v))
    BY <1>4, <1>8, <1>9, <2>1 DEF Skips
  <2> QED
    BY <1>1, <2>1, <2>2, SpacesAt
<1>15. v[Len(v)] = "F"
  BY <1>4, <1>9, Zenon DEF IsFrom
<1>16. Copy!Sees(v, a + 1, ".") /\ Copy!Sees(v, a + b + 3, "(") /\ a + 1 + 1 = a + 2 /\ a + b + 3 + 1 = a + b + 4
  <2>1. a + 1 + 1 = a + 2 /\ a + b + 3 + 1 = a + b + 4
    BY <1>4
  <2> QED
    BY <1>9, <2>1, Zenon DEF Copy!Sees, IsDot, IsOpen
<1>17. \A e, x : Copy!Read(e, x).next = e /\ Copy!Read(e, x).value = x
  BY DEF Copy!Read
<1>18. t.schema # <<>> /\ t.name # <<>> /\ <<>> \notin Copy!ToSet(t.columns)
  <2>1. <<>> \notin Copy!ToSet(t.columns)
    BY <1>3 DEF Copy!ToSet
  <2> QED
    BY <1>3, <2>1
<1> DEFINE Name(schema)  == IF Copy!Sees(v, schema.next, ".") THEN Copy!Identifier(v, schema.next + 1) ELSE {}
           ColumnsAt(p)  == IF Copy!Sees(v, p, "(") THEN Copy!Columns(v, p + 1) ELSE {}
           Close(columns) == Copy!Spaces(v, columns.next) = Len(v) /\ v[Len(v)] = "F"
           Headers(s, x) ==
             {[schema |-> s.value, name |-> x.value, columns |-> c.value]
                : c \in {d \in ColumnsAt(Copy!Spaces(v, x.next)) : Close(d)}}
           headers == UNION {UNION {Headers(s, x) : x \in Name(s)} : s \in Copy!Identifier(v, 1)}
           rs == Copy!Read(a + 1, t.schema)
           rn == Copy!Read(a + b + 2, t.name)
           rc == Copy!Read(l[n] + 2, t.columns)
<1>19. Name(rs) = {rn}
  BY <1>11, <1>16, <1>17, Zenon
<1>20. ColumnsAt(Copy!Spaces(v, rn.next)) = {rc}
  BY <1>12, <1>13, <1>16, <1>17, Zenon
<1>21. Close(rc)
  BY <1>14, <1>15, <1>17, Zenon
<1>22. Headers(rs, rn) = {header}
  <2> HIDE DEF ColumnsAt, Close
  <2>1. {d \in ColumnsAt(Copy!Spaces(v, rn.next)) : Close(d)} = {rc}
    BY <1>20, <1>21, Zenon
  <2>2. rs.value = t.schema /\ rn.value = t.name /\ rc.value = t.columns
    BY <1>17, Zenon
  <2> HIDE DEF rs, rn, rc
  <2> QED
    BY <2>1, <2>2, Zenon
<1>23. headers = {header}
  <2>1. Copy!Identifier(v, 1) = {rs}
    BY <1>10
  <2> HIDE DEF Headers, Name, rs, rn, header
  <2>2. headers = UNION {UNION {Headers(s, x) : x \in Name(s)} : s \in {rs}}
    BY <2>1
  <2>3. UNION {UNION {Headers(s, x) : x \in Name(s)} : s \in {rs}} = UNION {Headers(rs, x) : x \in Name(rs)}
    <3> HIDE DEF headers
    <3> QED
      OBVIOUS
  <2>4. UNION {Headers(rs, x) : x \in {rn}} = Headers(rs, rn)
    <3> HIDE DEF headers
    <3> QED
      OBVIOUS
  <2> HIDE DEF headers
  <2> QED
    BY <1>19, <1>22, <2>2, <2>3, <2>4
<1>24. Copy!ParseCopyHeader(v) = {h \in headers : /\ h.schema # <<>> /\ h.name # <<>>
                                                 /\ <<>> \notin Copy!ToSet(h.columns) /\ Copy!IsInjective(h.columns)}
  BY Zenon DEF Copy!ParseCopyHeader
<1>25. header.schema = t.schema /\ header.name = t.name /\ header.columns = t.columns
  OBVIOUS
<1> HIDE DEF headers, header
<1> QED
  BY <1>18, <1>23, <1>24, <1>25, Zenon DEF v, header

-----------------------------------------------------------------------------
(* The blocks of a dump are parsed into the fingerprints of its tables.    *)

\* Where the lines of a dump are: behind the first p[k - 1] lines comes table k.
LinesLaidOut(tables, lines, p) ==
  LET n == Len(tables)
  IN /\ n \in Nat /\ p[0] = 1 /\ Len(lines) = p[n] /\ lines[1] = Copy!Line("SET", <<>>)
     /\ \A k \in 0 .. n : p[k] \in Nat
     /\ \A k \in 1 .. n :
          LET rows == tables[k].rows
              a    == p[k - 1] + 1
          IN /\ Len(rows) \in Nat /\ p[k] = a + Len(rows) + 2
             /\ lines[a] = Copy!CopyHeader(tables[k])
             /\ \A j \in 1 .. Len(rows) : lines[a + j] = rows[j]
             /\ lines[a + Len(rows) + 1] = Copy!EndOfData /\ lines[a + Len(rows) + 2] = Copy!Blank

\* The lines of a dump are laid out like that.
LEMMA DumpIsLaidOut ==
  ASSUME NEW T, NEW tables \in Seq(T), NEW L, \A k \in 1 .. Len(tables) : tables[k].rows \in Seq(L)
  PROVE  \E p : LinesLaidOut(tables, Copy!DumpLines(tables), p)
<1> DEFINE n == Len(tables)
           set == Copy!Line("SET", <<>>)
           H(k) == Copy!CopyHeader(tables[k])
           A == L \union {set, Copy!EndOfData, Copy!Blank} \union {H(k) : k \in 1 .. n}
           R(k) == tables[k].rows
           tail == <<Copy!EndOfData, Copy!Blank>>
           Block(t) == <<Copy!CopyHeader(t)>> \o t.rows \o <<Copy!EndOfData, Copy!Blank>>
           B(k) == <<H(k)>> \o R(k) \o tail
           first == <<set>>
           Is(f) == f = [k \in 0 .. n |-> IF k = 0 THEN first ELSE f[k - 1] \o Block(tables[k])]
           add == [k \in 1 .. n |-> B(k)]
           dumped == CHOOSE f : Is(f)
           v == dumped[n]
           p == [k \in 0 .. n |-> Len(dumped[k])]
<1>1. n \in Nat
  OBVIOUS
<1>2. Copy!DumpLines(tables) = v
  BY Zenon DEF Copy!DumpLines
<1>3. /\ set \in A /\ Copy!EndOfData \in A /\ Copy!Blank \in A
      /\ \A k \in 1 .. n : H(k) \in A /\ R(k) \in Seq(A)
  <2>1. L \subseteq A
    OBVIOUS
  <2>2. Seq(L) \subseteq Seq(A)
    <3> HIDE DEF A
    <3> QED
      BY <2>1, WiderSeq
  <2>3. \A k \in 1 .. n : H(k) \in A
    <3> HIDE DEF H
    <3> QED
      OBVIOUS
  <2>4. set \in A /\ Copy!EndOfData \in A /\ Copy!Blank \in A
    <3> HIDE DEF H, set
    <3> QED
      OBVIOUS
  <2> HIDE DEF A, H
  <2> QED
    BY <2>2, <2>3, <2>4
<1> HIDE DEF A, set, H, R
<1>4. first \in Seq(A) /\ Len(first) = 1 /\ first[1] = set /\ tail \in Seq(A) /\ Len(tail) = 2
  BY <1>3, OneOf, TwoOf
<1>5. \A k \in 1 .. n : <<H(k)>> \in Seq(A) /\ Len(<<H(k)>>) = 1
  BY <1>3, OneOf
<1> HIDE DEF first, tail
<1>6. \A k \in 1 .. n : add[k] = Block(tables[k]) /\ add[k] \in Seq(A) /\ add[k] = B(k)
  <2> TAKE k \in 1 .. n
  <2>1. add[k] = B(k)
    OBVIOUS
  <2>2. B(k) = Block(tables[k])
    BY Zenon DEF H, R, tail
  <2>3. <<H(k)>> \in Seq(A) /\ R(k) \in Seq(A) /\ tail \in Seq(A)
    BY <1>3, <1>4, <1>5
  <2>4. \A x, y, z \in Seq(A) : x \o y \o z \in Seq(A)
    OBVIOUS
  <2>5. B(k) \in Seq(A)
    BY <2>3, <2>4, Zenon
  <2> QED
    BY <2>1, <2>2, <2>5
<1> HIDE DEF Block, add, n
<1>7. \A f : GrowsBy(f, n, first, add) <=> Is(f)
  <2> TAKE f
  <2>1. \A k \in 0 .. n : k = 0 \/ k \in 1 .. n
    BY <1>1
  <2>2. \A k \in 0 .. n : (IF k = 0 THEN first ELSE f[k - 1] \o add[k])
                         = (IF k = 0 THEN first ELSE f[k - 1] \o Block(tables[k]))
    BY <1>6, <2>1, Zenon
  <2>3. [k \in 0 .. n |-> IF k = 0 THEN first ELSE f[k - 1] \o add[k]]
        = [k \in 0 .. n |-> IF k = 0 THEN first ELSE f[k - 1] \o Block(tables[k])]
    BY <2>2, Zenon
  <2> QED
    BY <2>3, Zenon DEF GrowsBy
<1> HIDE DEF Is
<1>8. \A k \in 1 .. n : add[k] \in Seq(A)
  BY <1>6
<1>9. GrowsBy(dumped, n, first, add)
  <2>1. \E f : GrowsBy(f, n, first, add)
    BY <1>1, <1>4, <1>8, Growth
  <2> QED
    BY <1>7, <2>1, Zenon
<1> HIDE DEF dumped
<1>10. /\ dumped[0] = first /\ \A k \in 1 .. n : dumped[k] = dumped[k - 1] \o add[k]
       /\ \A k \in 0 .. n : dumped[k] \in Seq(A) /\ Len(dumped[k]) \in Nat
       /\ \A k \in 1 .. n : Len(dumped[k]) = Len(dumped[k - 1]) + Len(add[k]) /\ StartsWith(dumped[k], dumped[k - 1])
       /\ \A k \in 0 .. n : StartsWith(dumped[n], dumped[k])
  <2>1. first \in Seq(A)
    BY <1>4
  <2> QED
    BY ONLY <1>1, <1>8, <1>9, <2>1, Grows
<1>11. \A k \in 0 .. n : p[k] = Len(dumped[k]) /\ p[k] \in Nat
  BY <1>10
<1>12. n \in 0 .. n /\ 0 \in 0 .. n /\ \A k \in 1 .. n : k - 1 \in 0 .. n /\ k \in 0 .. n
  BY <1>1
<1> HIDE DEF p
<1>13. Len(v) \in Nat /\ Len(v) = p[n] /\ v \in Seq(A)
  BY <1>10, <1>11, <1>12
<1>14. \A k \in 0 .. n : Stands(dumped[k], v, 0)
  <2> TAKE k \in 0 .. n
  <2>1. StartsWith(v, dumped[k])
    BY <1>10
  <2>2. Len(dumped[k]) <= Len(v) /\ \A j \in 1 .. Len(dumped[k]) : v[j] = dumped[k][j]
    BY <2>1 DEF StartsWith
  <2>3. Len(dumped[k]) \in Nat
    BY <1>10
  <2>4. 0 + Len(dumped[k]) <= Len(v) /\ \A j \in 1 .. Len(dumped[k]) : 0 + j = j
    BY <2>2, <2>3
  <2>5. \A j \in 1 .. Len(dumped[k]) : v[0 + j] = dumped[k][j]
    BY <2>2, <2>4, Zenon
  <2> QED
    BY <2>4, <2>5 DEF Stands
<1> HIDE DEF v
<1>15. p[0] = 1 /\ v[1] = set
  <2>1. Stands(first, v, 0) /\ p[0] = 1
    BY <1>4, <1>10, <1>11, <1>12, <1>14
  <2>2. \A j \in 1 .. 1 : v[0 + j] = first[j]
    BY <1>4, <2>1 DEF Stands
  <2>3. 1 \in 1 .. 1 /\ 0 + 1 = 1
    OBVIOUS
  <2> QED
    BY <1>4, <2>1, <2>2, <2>3
<1>16. ASSUME NEW k \in 1 .. n
       PROVE  LET a == p[k - 1] + 1
              IN /\ Len(R(k)) \in Nat /\ p[k] = a + Len(R(k)) + 2 /\ v[a] = H(k)
                 /\ \A j \in 1 .. Len(R(k)) : v[a + j] = R(k)[j]
                 /\ v[a + Len(R(k)) + 1] = Copy!EndOfData /\ v[a + Len(R(k)) + 2] = Copy!Blank
  <2> DEFINE x == dumped[k - 1]
             h == <<H(k)>>
             r == R(k)
             hr == h \o r
             b == hr \o tail
  <2>1. /\ x \in Seq(A) /\ h \in Seq(A) /\ r \in Seq(A) /\ tail \in Seq(A) /\ b \in Seq(A)
        /\ dumped[k] = x \o b /\ Stands(x \o b, v, 0) /\ Len(h) = 1
    <3>1. dumped[k] = x \o b
      BY <1>6, <1>10
    <3>2. b \in Seq(A)
      BY <1>6
    <3>3. Stands(dumped[k], v, 0)
      BY <1>12, <1>14
    <3> QED
      BY <1>3, <1>4, <1>5, <1>10, <1>12, <3>1, <3>2, <3>3
  <2>2. p[k - 1] = Len(x) /\ p[k - 1] \in Nat /\ p[k] = Len(x \o b)
    BY <1>11, <1>12, <2>1
  <2> HIDE DEF x, h, r
  <2>3. hr \in Seq(A) /\ Len(hr) = 1 + Len(r) /\ Len(r) \in Nat
    <3>1. h \o r \in Seq(A) /\ Len(h \o r) = Len(h) + Len(r) /\ Len(r) \in Nat
      BY ONLY <2>1, Joined
    <3> QED
      BY <2>1, <3>1
  <2> HIDE DEF hr
  <2>4. Len(b) = Len(r) + 3
    <3>1. Len(hr \o tail) = Len(hr) + Len(tail)
      BY ONLY <2>1, <2>3, Joined
    <3> QED
      BY <1>4, <2>3, <3>1
  <2> HIDE DEF b
  <2>5. Len(x \o b) = Len(x) + Len(b)
    BY ONLY <2>1, Joined
  <2>6. Stands(b, v, Len(x))
    <3>1. Stands(b, v, 0 + Len(x))
      BY <1>13, <2>1, PartsStand
    <3> QED
      BY <2>2, <3>1
  <2>7. Stands(hr, v, Len(x)) /\ Stands(tail, v, Len(x) + Len(hr))
    <3>1. Stands(hr \o tail, v, Len(x))
      BY <2>6 DEF b
    <3> QED
      BY <1>13, <2>1, <2>2, <2>3, <3>1, PartsStand
  <2>8. Stands(h, v, Len(x)) /\ Stands(r, v, Len(x) + Len(h))
    <3>1. Stands(h \o r, v, Len(x))
      BY <2>7 DEF hr
    <3> QED
      BY <1>13, <2>1, <2>2, <3>1, PartsStand
  <2> DEFINE a == Len(x) + 1
  <2>9. a \in Nat /\ p[k] = a + Len(r) + 2 /\ p[k - 1] + 1 = a
    BY <2>2, <2>3, <2>4, <2>5
  <2>10. v[a] = H(k)
    <3>1. Stands(<<H(k)>>, v, Len(x)) /\ H(k) \in A
      BY <1>3, <2>8 DEF h
    <3> QED
      BY <1>13, <2>2, <3>1, StandsOne
  <2>11. \A j \in 1 .. Len(r) : v[a + j] = r[j]
    <3>1. Stands(r, v, a)
      BY <2>1, <2>8
    <3> QED
      BY <3>1 DEF Stands
  <2>12. v[a + Len(r) + 1] = Copy!EndOfData /\ v[a + Len(r) + 2] = Copy!Blank
    <3> DEFINE o == a + Len(r)
    <3>1. o \in Nat /\ Len(x) + Len(hr) = o
      BY <2>2, <2>3
    <3>2. Stands(<<Copy!EndOfData, Copy!Blank>>, v, o)
      BY <2>7, <3>1 DEF tail
    <3> HIDE DEF o
    <3>3. v[o + 1] = Copy!EndOfData /\ v[o + 2] = Copy!Blank
      BY <1>3, <1>13, <3>1, <3>2, StandsTwo
    <3> QED
      BY <3>3 DEF o
  <2> HIDE DEF a
  <2> QED
    BY <2>3, <2>9, <2>10, <2>11, <2>12 DEF r
<1>17. LinesLaidOut(tables, v, p)
  <2>1. \A k \in 0 .. n : p[k] \in Nat
    BY <1>11
  <2> QED
    BY <1>1, <1>13, <1>15, <1>16, <2>1, Zenon DEF LinesLaidOut, n, R, H, set
<1> QED
  BY <1>2, <1>17, Zenon

\* The states the parser goes through.
ParserStates(lines, parsed) ==
  /\ parsed[0] = Copy!Reading
  /\ \A i \in 1 .. Len(lines) : parsed[i] = Copy!ParseLine(parsed[i - 1], lines[i])

\* What becomes of the last of them.
Outcome(s) ==
  LET sorted == Copy!Sorted(s.done)
  IN IF s.failed \/ s.current # <<>> \/ ~Copy!ValidTableFingerprints(sorted) THEN <<>> ELSE <<sorted>>

\* The states of the parser exist, and the last of them gives the outcome.
LEMMA ParseSteps ==
  ASSUME NEW lines, Len(lines) \in Nat
  PROVE  \E parsed : ParserStates(lines, parsed) /\ Copy!ParseCopyData(lines) = Outcome(parsed[Len(lines)])
<1> DEFINE n     == Len(lines)
           Is(f, k) == f = [i \in 0 .. k |-> IF i = 0 THEN Copy!Reading ELSE Copy!ParseLine(f[i - 1], lines[i])]
           S     == {k \in Nat : \E f : Is(f, k)}
<1>1. 0 \in S
  <2> DEFINE f == [i \in 0 .. 0 |-> Copy!Reading]
  <2>1. Is(f, 0)
    OBVIOUS
  <2> QED
    BY <2>1
<1>2. ASSUME NEW k \in Nat, k \in S PROVE k + 1 \in S
  <2> PICK f : Is(f, k)
    BY <1>2
  <2> DEFINE P(x, i) == Copy!ParseLine(x, lines[i])
             first   == Copy!Reading
             g == [i \in 0 .. k + 1 |-> IF i = k + 1 THEN P(f[k], k + 1) ELSE f[i]]
             h == [i \in 0 .. k + 1 |-> IF i = 0 THEN first ELSE P(g[i - 1], i)]
  <2>0. f = [i \in 0 .. k |-> IF i = 0 THEN first ELSE P(f[i - 1], i)]
    OBVIOUS
  <2> HIDE DEF P, first
  <2>1. \A i \in 0 .. k + 1 : g[i] = h[i]
    <3> TAKE i \in 0 .. k + 1
    <3>1. CASE i = k + 1
      BY <3>1
    <3>2. CASE i = 0
      BY <2>0, <3>2
    <3>3. CASE i \in 1 .. k
      <4>1. g[i] = f[i] /\ g[i - 1] = f[i - 1] /\ h[i] = P(g[i - 1], i)
        BY <3>3
      <4>2. f[i] = P(f[i - 1], i)
        BY <2>0, <3>3
      <4> QED
        BY <4>1, <4>2
    <3> QED
      BY <3>1, <3>2, <3>3
  <2>2. DOMAIN g = 0 .. k + 1 /\ DOMAIN h = 0 .. k + 1 /\ g = [i \in DOMAIN g |-> g[i]] /\ h = [i \in DOMAIN h |-> h[i]]
    OBVIOUS
  <2> HIDE DEF g
  <2>3. g = h
    <3> HIDE DEF h
    <3> QED
      BY <2>1, <2>2
  <2>4. Is(g, k + 1)
    BY <2>3 DEF P, first
  <2> HIDE DEF Is
  <2> QED
    BY <2>4
<1>3. n \in S
  <2> HIDE DEF S
  <2> QED
    BY <1>1, <1>2, Induction
<1> DEFINE parsed == CHOOSE f : Is(f, n)
<1>4. Is(parsed, n)
  BY <1>3, Zenon
<1>5. Copy!ParseCopyData(lines) = Outcome(parsed[n])
  BY Zenon DEF Copy!ParseCopyData, Outcome
<1>6. ParserStates(lines, parsed)
  <2> DEFINE P(x, i) == Copy!ParseLine(x, lines[i])
             first   == Copy!Reading
  <2>1. parsed = [i \in 0 .. n |-> IF i = 0 THEN first ELSE P(parsed[i - 1], i)]
    BY <1>4
  <2> HIDE DEF P, first, parsed, n
  <2>2. parsed[0] = first /\ \A i \in 1 .. n : parsed[i] = P(parsed[i - 1], i)
    <3>1. n \in Nat
      BY DEF n
    <3> QED
      BY <2>1, <3>1
  <2> QED
    BY <2>2 DEF P, first, n, ParserStates
<1> QED
  BY <1>5, <1>6

\* One line: outside of a block, at its header, in it and at its end.
Parsing(done, current) == [done |-> done, current |-> current, failed |-> FALSE]
HeaderOf(t) == [schema |-> t.schema, name |-> t.name, columns |-> t.columns]

Given(s, c)     == [s EXCEPT !.current = c]
Closed(s, d, c) == [s EXCEPT !.done = d, !.current = c]

\* A change of the state of a parser that has not failed, field by field.
LEMMA ParsingExcept ==
  ASSUME NEW done, NEW current, NEW d, NEW c
  PROVE  /\ Given(Parsing(done, current), c) = Parsing(done, c)
         /\ Closed(Parsing(done, current), d, c) = Parsing(d, c)
<1>1. ASSUME NEW x, NEW y PROVE Given(Parsing(x, y), c) = Parsing(x, c)
  <2> DEFINE s == Parsing(x, y)
             r == [s EXCEPT !.current = c]
             q == Parsing(x, c)
  <2>1. DOMAIN r = {"done", "current", "failed"} /\ DOMAIN q = {"done", "current", "failed"}
    BY DEF Parsing
  <2>2. r.done = x /\ r.current = c /\ q.done = x /\ q.current = c
    BY DEF Parsing
  <2>3. r.failed = q.failed
    BY DEF Parsing
  <2>4. r = [k \in DOMAIN r |-> r[k]] /\ q = [k \in DOMAIN q |-> q[k]]
    BY DEF Parsing
  <2> HIDE DEF r, q
  <2>5. \A k \in {"done", "current", "failed"} : r[k] = q[k]
    BY <2>2, <2>3
  <2>6. r = q
    BY <2>1, <2>4, <2>5, Zenon
  <2> QED
    BY <2>6, Zenon DEF Given, r, q
<1>2. ASSUME NEW x, NEW y PROVE [Parsing(x, y) EXCEPT !.done = d] = Parsing(d, y)
  <2> DEFINE s == Parsing(x, y)
             r == [s EXCEPT !.done = d]
             q == Parsing(d, y)
  <2>1. DOMAIN r = {"done", "current", "failed"} /\ DOMAIN q = {"done", "current", "failed"}
    BY DEF Parsing
  <2>2. r.done = d /\ r.current = y /\ q.done = d /\ q.current = y
    BY DEF Parsing
  <2>3. r.failed = q.failed
    BY DEF Parsing
  <2>4. r = [k \in DOMAIN r |-> r[k]] /\ q = [k \in DOMAIN q |-> q[k]]
    BY DEF Parsing
  <2> HIDE DEF r, q
  <2>5. \A k \in {"done", "current", "failed"} : r[k] = q[k]
    BY <2>2, <2>3
  <2>6. r = q
    BY <2>1, <2>4, <2>5, Zenon
  <2> QED
    BY <2>6, Zenon DEF r, q
<1>3. \A s : [s EXCEPT !.done = d, !.current = c] = [[s EXCEPT !.done = d] EXCEPT !.current = c]
  OBVIOUS
<1>4. Closed(Parsing(done, current), d, c) = Given(Parsing(d, current), c)
  BY <1>2, <1>3, Zenon DEF Closed, Given
<1> QED
  BY <1>1, <1>4, Zenon

\* Outside a table only a header counts.
LEMMA ParseOutside ==
  ASSUME NEW done, NEW line, line.kind # "COPY"
  PROVE  Copy!ParseLine(Parsing(done, <<>>), line) = Parsing(done, <<>>)
  BY DEF Copy!ParseLine, Parsing

\* The header of a table not seen before begins it.
LEMMA ParseHeader ==
  ASSUME NEW done, NEW t, Copy!ParseCopyHeader(Copy!CopyHeader(t).text) = {HeaderOf(t)},
         Copy!SchemaOf(HeaderOf(t)) \in Copy!Schemas,
         \A i \in DOMAIN done : ~(done[i].header.schema = t.schema /\ done[i].header.name = t.name)
  PROVE  Copy!ParseLine(Parsing(done, <<>>), Copy!CopyHeader(t)) = Parsing(done, <<Copy!Table(HeaderOf(t))>>)
<1> DEFINE s == Parsing(done, <<>>)
           line == Copy!CopyHeader(t)
           h == HeaderOf(t)
           Key(x) == <<x.schema, x.name>>
           known  == {Key(s.done[i].header) : i \in DOMAIN s.done}
           new    == {x \in Copy!ParseCopyHeader(line.text) :
                        Copy!SchemaOf(x) \in Copy!Schemas /\ Key(x) \notin known}
           Choice == CHOOSE x \in new : TRUE
<1>1. line.kind = "COPY"
  BY DEF Copy!CopyHeader, Copy!Line
<1>2. s.done = done /\ s.current = <<>> /\ s.failed = FALSE
  BY DEF Parsing
<1>3. h.schema = t.schema /\ h.name = t.name
  BY DEF HeaderOf
<1> HIDE DEF s, line, h
<1>4. Key(h) \notin known
  <2> SUFFICES ASSUME NEW i \in DOMAIN done, Key(h) = Key(done[i].header) PROVE FALSE
    BY <1>2
  <2>1. done[i].header.schema = t.schema /\ done[i].header.name = t.name
    BY <1>3
  <2> QED
    BY <2>1
<1> HIDE DEF Key, known
<1>5. new = {h}
  <2>1. Copy!ParseCopyHeader(line.text) = {h} /\ Copy!SchemaOf(h) \in Copy!Schemas
    BY DEF line, h
  <2> QED
    BY <1>4, <2>1, Zenon
<1>6. Copy!ParseLine(s, line) =
        IF s.failed \/ (s.current = <<>> /\ line.kind # "COPY") THEN s
        ELSE IF s.current = <<>>
        THEN IF new = {} THEN [s EXCEPT !.failed = TRUE] ELSE [s EXCEPT !.current = <<Copy!Table(Choice)>>]
        ELSE IF line = Copy!EndOfData
        THEN [s EXCEPT !.done = Append(@, Copy!Result(s.current[1])), !.current = <<>>]
        ELSE [s EXCEPT !.current = <<Copy!AddRow(@[1], line)>>]
  BY Zenon DEF Copy!ParseLine, Key, known
<1>7. Choice = h
  <2> HIDE DEF new
  <2> QED
    BY <1>5, Zenon
<1> HIDE DEF new, Choice
<1>8. new # {}
  BY <1>5
<1>9. Copy!ParseLine(s, line) = [s EXCEPT !.current = <<Copy!Table(h)>>]
  BY <1>1, <1>2, <1>6, <1>7, <1>8, Zenon
<1> QED
  BY <1>9 DEF s, Parsing, line, h

\* Inside a table every line but its end is a row.
LEMMA ParseRow ==
  ASSUME NEW done, NEW f, NEW line, line # Copy!EndOfData
  PROVE  Copy!ParseLine(Parsing(done, <<f>>), line) = Parsing(done, <<Copy!AddRow(f, line)>>)
<1> DEFINE s == Parsing(done, <<f>>)
<1>1. s.done = done /\ s.current = <<f>> /\ s.failed = FALSE /\ <<f>> # <<>> /\ <<f>>[1] = f
  BY DEF Parsing
<1> HIDE DEF s
<1> DEFINE g == Copy!AddRow(f, line)
<1>2. Copy!ParseLine(s, line) = Given(s, <<g>>)
  <2>1. Copy!ParseLine(s, line) = [s EXCEPT !.current = <<Copy!AddRow(s.current[1], line)>>]
    BY <1>1, Zenon DEF Copy!ParseLine
  <2> QED
    BY <1>1, <2>1, Zenon DEF Given
<1> HIDE DEF g
<1>3. Given(s, <<g>>) = Parsing(done, <<g>>)
  BY ParsingExcept, Zenon DEF s
<1> QED
  BY <1>2, <1>3 DEF s, g

\* The end of the data adds the fingerprint of the table.
LEMMA ParseEnd ==
  ASSUME NEW done, NEW f
  PROVE  Copy!ParseLine(Parsing(done, <<f>>), Copy!EndOfData) = Parsing(Append(done, Copy!Result(f)), <<>>)
<1> DEFINE s == Parsing(done, <<f>>)
<1>1. s.done = done /\ s.current = <<f>> /\ s.failed = FALSE /\ <<f>> # <<>> /\ <<f>>[1] = f
  BY DEF Parsing
<1> HIDE DEF s
<1> DEFINE d == Append(done, Copy!Result(f))
<1>2. Copy!ParseLine(s, Copy!EndOfData) = Closed(s, d, <<>>)
  <2>1. Copy!ParseLine(s, Copy!EndOfData) =
          [s EXCEPT !.done = Append(s.done, Copy!Result(s.current[1])), !.current = <<>>]
    BY <1>1, Zenon DEF Copy!ParseLine
  <2> QED
    BY <1>1, <2>1, Zenon DEF Closed
<1> HIDE DEF d
<1>3. Closed(s, d, <<>>) = Parsing(d, <<>>)
  <2>1. \A x, y, e, c : Closed(Parsing(x, y), e, c) = Parsing(e, c)
    BY ParsingExcept
  <2> DEFINE y == <<f>>
  <2>2. s = Parsing(done, y)
    BY DEF s
  <2> HIDE DEF y
  <2> QED
    BY <2>1, <2>2
<1> QED
  BY <1>2, <1>3 DEF s, d

\* The fingerprint of the rows of a table.
FingerprintOfTable(t) == FingerprintOf(HeaderOf(t), t.rows, 0, Len(t.rows))

\* A table behind the lines before a, when the tables before it are done.
IsBlock(lines, parsed, t, a, done) ==
  /\ Len(lines) \in Nat /\ ParserStates(lines, parsed)
  /\ a \in Nat \ {0} /\ Len(t.rows) \in Nat /\ a + Len(t.rows) + 2 <= Len(lines)
  /\ lines[a] = Copy!CopyHeader(t)
  /\ \A j \in 1 .. Len(t.rows) : lines[a + j] = t.rows[j] /\ t.rows[j] # Copy!EndOfData
  /\ lines[a + Len(t.rows) + 1] = Copy!EndOfData /\ lines[a + Len(t.rows) + 2] = Copy!Blank
  /\ Copy!ParseCopyHeader(Copy!CopyHeader(t).text) = {HeaderOf(t)}
  /\ Copy!SchemaOf(HeaderOf(t)) \in Copy!Schemas
  /\ parsed[a - 1] = Parsing(done, <<>>)
  /\ \A i \in DOMAIN done : ~(done[i].header.schema = t.schema /\ done[i].header.name = t.name)

\* The parser takes it.
LEMMA BlockIsParsed ==
  ASSUME NEW lines, NEW parsed, NEW t, NEW a, NEW done, IsBlock(lines, parsed, t, a, done)
  PROVE  \E count : /\ CountingStates(HeaderOf(t), t.rows, count)
                    /\ parsed[a + Len(t.rows) + 2] = Parsing(Append(done, FingerprintOfTable(t)), <<>>)
<1> DEFINE m == Len(t.rows)
           h == HeaderOf(t)
           rows == t.rows
           count == [j \in 0 .. m |-> parsed[a + j].current[1]]
           In(f) == Parsing(done, <<f>>)
           Out(d) == Parsing(d, <<>>)
           S == {j \in Nat : j <= m => /\ parsed[a + j] = In(count[j])
                                       /\ j > 0 => count[j] = Copy!AddRow(count[j - 1], rows[j])}
<1>0. /\ Len(lines) \in Nat /\ ParserStates(lines, parsed)
      /\ a \in Nat \ {0} /\ Len(t.rows) \in Nat /\ a + Len(t.rows) + 2 <= Len(lines)
      /\ lines[a] = Copy!CopyHeader(t)
      /\ \A j \in 1 .. Len(t.rows) : lines[a + j] = t.rows[j] /\ t.rows[j] # Copy!EndOfData
      /\ lines[a + Len(t.rows) + 1] = Copy!EndOfData /\ lines[a + Len(t.rows) + 2] = Copy!Blank
      /\ Copy!ParseCopyHeader(Copy!CopyHeader(t).text) = {HeaderOf(t)}
      /\ Copy!SchemaOf(HeaderOf(t)) \in Copy!Schemas
      /\ parsed[a - 1] = Parsing(done, <<>>)
      /\ \A i \in DOMAIN done : ~(done[i].header.schema = t.schema /\ done[i].header.name = t.name)
  BY DEF IsBlock
<1>1. \A f : In(f).current[1] = f
  BY DEF Parsing
<1>2. \A i \in 1 .. Len(lines) : parsed[i] = Copy!ParseLine(parsed[i - 1], lines[i])
  BY <1>0 DEF ParserStates
<1>3. m \in Nat /\ a \in Nat /\ a + m + 2 <= Len(lines) /\ Len(lines) \in Nat /\ a > 0
  BY <1>0
<1>4. \A j \in 0 .. m : count[j] = parsed[a + j].current[1]
  OBVIOUS
<1>5. Copy!ParseLine(Out(done), lines[a]) = In(Copy!Table(h))
  BY <1>0, ParseHeader
<1>6. \A f : \A j \in 1 .. m : Copy!ParseLine(In(f), lines[a + j]) = In(Copy!AddRow(f, rows[j]))
  <2> TAKE f
  <2> TAKE j \in 1 .. m
  <2>1. lines[a + j] = rows[j] /\ rows[j] # Copy!EndOfData
    BY <1>0
  <2> DEFINE line == lines[a + j]
  <2>2. line # Copy!EndOfData /\ line = rows[j]
    BY <2>1
  <2> HIDE DEF line
  <2>3. Copy!ParseLine(In(f), line) = In(Copy!AddRow(f, line))
    BY <2>2, ParseRow
  <2> QED
    BY <2>2, <2>3 DEF line
<1>7. \A f : Copy!ParseLine(In(f), lines[a + m + 1]) = Out(Append(done, Copy!Result(f)))
  BY <1>0, ParseEnd
<1>8. \A d : Copy!ParseLine(Out(d), lines[a + m + 2]) = Out(d)
  <2> TAKE d
  <2>1. lines[a + m + 2].kind # "COPY"
    BY <1>0 DEF Copy!Blank, Copy!Line
  <2> QED
    BY <2>1, ParseOutside
<1>9. parsed[a - 1] = Out(done)
  BY <1>0
<1> HIDE DEF In, Out, count, m, h, rows
<1>10. 0 \in S
  <2>1. a \in 1 .. Len(lines) /\ a + 0 = a /\ 0 \in 0 .. m
    BY ONLY <1>3
  <2>2. parsed[a] = In(Copy!Table(h))
    BY <1>2, <1>5, <1>9, <2>1
  <2>3. count[0] = Copy!Table(h)
    BY <1>1, <1>4, <2>1, <2>2
  <2> QED
    BY <2>1, <2>2, <2>3
<1>11. ASSUME NEW j \in Nat, j \in S PROVE j + 1 \in S
  <2> SUFFICES ASSUME j + 1 <= m PROVE /\ parsed[a + (j + 1)] = In(count[j + 1])
                                       /\ count[j + 1] = Copy!AddRow(count[j], rows[j + 1])
    OBVIOUS
  <2>1. /\ a + (j + 1) \in 1 .. Len(lines) /\ (a + (j + 1)) - 1 = a + j /\ j <= m
        /\ j + 1 \in 1 .. m /\ j + 1 \in 0 .. m
    BY <1>3
  <2>2. parsed[a + j] = In(count[j])
    BY <1>11, <2>1
  <2>3. parsed[a + (j + 1)] = Copy!ParseLine(parsed[a + j], lines[a + (j + 1)])
    BY <1>2, <2>1
  <2>4. parsed[a + (j + 1)] = In(Copy!AddRow(count[j], rows[j + 1]))
    BY <1>6, <2>1, <2>2, <2>3
  <2>5. count[j + 1] = Copy!AddRow(count[j], rows[j + 1])
    <3>1. count[j + 1] = parsed[a + (j + 1)].current[1]
      BY <1>4, <2>1
    <3> QED
      BY <1>1, <2>4, <3>1, Zenon
  <2> QED
    BY <2>4, <2>5
<1>12. \A j \in Nat : j \in S
  <2> HIDE DEF S
  <2> QED
    BY <1>10, <1>11, Induction
<1>13. CountingStates(h, rows, count)
  <2>1. count[0] = Copy!Table(h)
    <3>1. a \in 1 .. Len(lines) /\ 0 \in 0 .. m /\ a + 0 = a
      BY ONLY <1>3
    <3> QED
      BY <1>1, <1>2, <1>4, <1>5, <1>9, <3>1
  <2>2. \A j \in 1 .. m : count[j] = Copy!AddRow(count[j - 1], rows[j])
    <3> TAKE j \in 1 .. m
    <3>1. j \in Nat /\ j <= m /\ j > 0
      BY <1>3
    <3> QED
      BY <1>12, <3>1
  <2> QED
    BY <2>1, <2>2 DEF CountingStates, m, rows
<1>14. Copy!Result(count[m]) = FingerprintOfTable(t)
  <2>1. Len(rows) \in Nat
    BY <1>3 DEF m, rows
  <2> QED
    BY <1>13, <2>1, CountedLines DEF FingerprintOfTable, m, h, rows
<1>15. parsed[a + m + 2] = Out(Append(done, Copy!Result(count[m])))
  <2>1. /\ a + m + 1 \in 1 .. Len(lines) /\ a + m + 2 \in 1 .. Len(lines)
        /\ (a + m + 1) - 1 = a + m /\ (a + m + 2) - 1 = a + m + 1
    BY ONLY <1>3
  <2>2. parsed[a + m] = In(count[m])
    <3>1. m \in S /\ m <= m
      BY <1>3, <1>12
    <3> QED
      BY <3>1
  <2>3. parsed[a + m + 1] = Out(Append(done, Copy!Result(count[m])))
    <3>1. parsed[a + m + 1] = Copy!ParseLine(parsed[a + m], lines[a + m + 1])
      BY <1>2, <2>1
    <3> QED
      BY <1>7, <2>2, <3>1
  <2>4. parsed[a + m + 2] = Copy!ParseLine(parsed[a + m + 1], lines[a + m + 2])
    BY <1>2, <2>1
  <2> QED
    BY <1>8, <2>3, <2>4
<1> QED
  BY <1>13, <1>14, <1>15 DEF h, rows, m, Out

\* Tables that a dump can hold, with these characters in their names and these lines as rows.
Dumpable(tables, Chars, L) ==
  /\ \A k \in 1 .. Len(tables) : /\ Written(tables[k], Chars) /\ Copy!IsInjective(tables[k].columns)
                                 /\ Copy!SchemaOf(tables[k]) \in Copy!Schemas /\ tables[k].rows \in Seq(L)
  /\ \A j, k \in 1 .. Len(tables) :
       tables[j].schema = tables[k].schema /\ tables[j].name = tables[k].name => j = k
  /\ Copy!EndOfData \notin L

FingerprintsOf(tables) == [k \in 1 .. Len(tables) |-> FingerprintOfTable(tables[k])]

\* The fingerprint of a table is what its rows counted to.
LEMMA FingerprintHeader ==
  ASSUME NEW t
  PROVE  /\ FingerprintOfTable(t).header = HeaderOf(t) /\ HeaderOf(t).schema = t.schema
         /\ HeaderOf(t).name = t.name /\ HeaderOf(t).columns = t.columns
         /\ Copy!SchemaOf(HeaderOf(t)) = Copy!SchemaOf(t)
  BY DEF FingerprintOfTable, FingerprintOf, HeaderOf, Copy!SchemaOf

\* Later tables come behind earlier ones.
LEMMA LinesGrow ==
  ASSUME NEW tables, NEW lines, NEW p, LinesLaidOut(tables, lines, p)
  PROVE  \A k \in 0 .. Len(tables) : p[k] <= Len(lines)
<1> DEFINE n == Len(tables)
           S == {d \in Nat : \A k \in 0 .. n : k + d = n => p[k] <= p[n]}
<1>1. n \in Nat /\ Len(lines) = p[n] /\ \A k \in 0 .. n : p[k] \in Nat
  BY DEF LinesLaidOut
<1>2. \A k \in 1 .. n : p[k - 1] <= p[k]
  <2> TAKE k \in 1 .. n
  <2> DEFINE m == Len(tables[k].rows)
  <2>1. m \in Nat /\ p[k] = p[k - 1] + 1 + m + 2 /\ p[k - 1] \in Nat
    BY DEF LinesLaidOut
  <2> HIDE DEF m
  <2> QED
    BY <2>1
<1> HIDE DEF n
<1>3. 0 \in S
  BY <1>1
<1>4. ASSUME NEW d \in Nat, d \in S PROVE d + 1 \in S
  <2> SUFFICES ASSUME NEW k \in 0 .. n, k + (d + 1) = n PROVE p[k] <= p[n]
    OBVIOUS
  <2>1. k + 1 \in 1 .. n /\ k + 1 \in 0 .. n /\ (k + 1) + d = n /\ (k + 1) - 1 = k /\ n \in 0 .. n
    BY <1>1
  <2>2. p[k] <= p[k + 1] /\ p[k + 1] <= p[n]
    BY <1>2, <1>4, <2>1
  <2>3. p[k] \in Nat /\ p[k + 1] \in Nat /\ p[n] \in Nat
    BY <1>1, <2>1
  <2> QED
    BY <2>2, <2>3
<1>5. \A d \in Nat : d \in S
  <2> HIDE DEF S
  <2> QED
    BY <1>3, <1>4, Induction
<1>6. \A k \in 0 .. n : p[k] <= p[n]
  <2> TAKE k \in 0 .. n
  <2>1. n - k \in Nat /\ k + (n - k) = n
    BY <1>1
  <2>2. n - k \in S
    BY <1>5, <2>1
  <2> QED
    BY <2>1, <2>2
<1> QED
  BY <1>1, <1>6 DEF n

\* The parser of dumps finds every table of the dump, with all of its rows, and stops
\* nowhere else: whatever the names, and rows that read like a header or a comment of the
\* dump included (recovery_fingerprint.go:19-60).
THEOREM DumpIsParsed ==
  ASSUME NEW Chars, "Q" \in Chars, NEW T, NEW tables \in Seq(T), NEW L, Dumpable(tables, Chars, L)
  PROVE  /\ Copy!ParseCopyData(Copy!DumpLines(tables)) = Outcome(Parsing(FingerprintsOf(tables), <<>>))
         /\ \A k \in 1 .. Len(tables) :
              \E count : /\ CountingStates(HeaderOf(tables[k]), tables[k].rows, count)
                         /\ FingerprintOfTable(tables[k]) = Copy!Result(count[Len(tables[k].rows)])
<1> DEFINE lines == Copy!DumpLines(tables)
           n == Len(tables)
           F(k) == FingerprintOfTable(tables[k])
           First(k) == [i \in 1 .. k |-> F(i)]
           X == {F(k) : k \in 1 .. n}
<1>1. n \in Nat
  OBVIOUS
<1>2. PICK p : LinesLaidOut(tables, lines, p)
  <2>1. \A k \in 1 .. n : tables[k].rows \in Seq(L)
    BY DEF Dumpable
  <2> QED
    BY <2>1, DumpIsLaidOut
<1> HIDE DEF lines
<1>3. /\ p[0] = 1 /\ Len(lines) = p[n] /\ lines[1] = Copy!Line("SET", <<>>)
      /\ \A k \in 0 .. n : p[k] \in Nat /\ p[k] <= Len(lines)
  BY <1>2, LinesGrow DEF LinesLaidOut
<1>4. Len(lines) \in Nat
  BY <1>1, <1>3
<1>5. PICK parsed : ParserStates(lines, parsed) /\ Copy!ParseCopyData(lines) = Outcome(parsed[Len(lines)])
  BY <1>4, ParseSteps
<1>6. \A k \in 1 .. n :
        LET m == Len(tables[k].rows)
            a == p[k - 1] + 1
        IN /\ m \in Nat /\ p[k] = a + m + 2 /\ lines[a] = Copy!CopyHeader(tables[k])
           /\ \A j \in 1 .. m : lines[a + j] = tables[k].rows[j]
           /\ lines[a + m + 1] = Copy!EndOfData /\ lines[a + m + 2] = Copy!Blank
  BY <1>2 DEF LinesLaidOut
<1> HIDE DEF n
<1>7. /\ \A k \in 0 .. n : First(k) \in Seq(X) /\ Len(First(k)) = k /\ DOMAIN First(k) = 1 .. k
      /\ \A k \in 0 .. n : \A i \in 1 .. k : First(k)[i] = F(i)
  <2>1. \A k \in 0 .. n : First(k) \in [1 .. k -> X] /\ k \in Nat
    BY <1>1
  <2>2. \A k \in 0 .. n : DOMAIN First(k) = 1 .. k /\ \A i \in 1 .. k : First(k)[i] = F(i)
    OBVIOUS
  <2> HIDE DEF First, X
  <2>3. \A k \in 0 .. n : First(k) \in Seq(X)
    BY <2>1
  <2> QED
    BY <2>1, <2>2, <2>3
<1>8. \A k \in 1 .. n : First(k) = Append(First(k - 1), F(k))
  <2> TAKE k \in 1 .. n
  <2>1. k - 1 \in 0 .. n /\ k \in 0 .. n /\ k \in 1 .. k /\ (k - 1) + 1 = k /\ k \in Nat
    BY <1>1
  <2>2. F(k) \in X
    OBVIOUS
  <2> DEFINE s == First(k)
             r == First(k - 1)
  <2>3. /\ s \in Seq(X) /\ Len(s) = k /\ r \in Seq(X) /\ Len(r) = k - 1 /\ DOMAIN r = 1 .. k - 1
        /\ \A i \in 1 .. k : s[i] = F(i)
        /\ \A i \in 1 .. k - 1 : r[i] = F(i)
    BY <1>7, <2>1
  <2> HIDE DEF X, F, s, r
  <2> DEFINE e == Append(r, F(k))
  <2>4. e \in Seq(X) /\ Len(e) = (k - 1) + 1 /\ e[(k - 1) + 1] = F(k) /\ \A i \in 1 .. k - 1 : e[i] = r[i]
    BY <2>2, <2>3, AppendOf
  <2> HIDE DEF e
  <2>5. Len(e) = k /\ e[k] = F(k)
    BY <2>1, <2>4
  <2>6. \A i \in 1 .. k : s[i] = e[i]
    <3> TAKE i \in 1 .. k
    <3>1. i = k \/ i \in 1 .. k - 1
      BY <2>1
    <3> QED
      BY <2>3, <2>4, <2>5, <3>1
  <2>7. s = e
    BY <2>3, <2>4, <2>5, <2>6, SameSeq
  <2> QED
    BY <2>7 DEF s, e, r
<1>9. ASSUME NEW k \in 1 .. n, parsed[p[k - 1]] = Parsing(First(k - 1), <<>>)
      PROVE  /\ parsed[p[k]] = Parsing(First(k), <<>>)
             /\ \E count : CountingStates(HeaderOf(tables[k]), tables[k].rows, count)
  <2> DEFINE t == tables[k]
             a == p[k - 1] + 1
             done == First(k - 1)
  <2>1. k - 1 \in 0 .. n /\ k \in 0 .. n /\ \A i \in 1 .. k - 1 : i \in 1 .. n /\ i # k
    BY <1>1
  <2>2. /\ Written(t, Chars) /\ Copy!IsInjective(t.columns)
        /\ Copy!SchemaOf(t) \in Copy!Schemas /\ t.rows \in Seq(L)
    BY DEF Dumpable, n
  <2>3. Copy!ParseCopyHeader(Copy!CopyHeader(t).text) = {HeaderOf(t)}
    BY <2>2, HeaderIsRead DEF HeaderOf
  <2>4. Copy!SchemaOf(HeaderOf(t)) \in Copy!Schemas
    BY <2>2, FingerprintHeader
  <2>5. \A i \in DOMAIN done : ~(done[i].header.schema = t.schema /\ done[i].header.name = t.name)
    <3> TAKE i \in DOMAIN done
    <3>1. i \in 1 .. k - 1 /\ i \in 1 .. n /\ i # k
      BY <1>7, <2>1
    <3>2. done[i] = F(i)
      BY <1>7, <2>1, <3>1
    <3>3. done[i].header.schema = tables[i].schema /\ done[i].header.name = tables[i].name
      BY <3>2, FingerprintHeader
    <3>4. ~(tables[i].schema = t.schema /\ tables[i].name = t.name)
      BY <3>1 DEF Dumpable, n
    <3> QED
      BY <3>3, <3>4
  <2>6. \A j \in 1 .. Len(t.rows) : t.rows[j] # Copy!EndOfData
    <3> TAKE j \in 1 .. Len(t.rows)
    <3>1. t.rows[j] \in L
      BY <2>2
    <3> QED
      BY <3>1 DEF Dumpable
  <2>7. a \in Nat \ {0} /\ a - 1 = p[k - 1]
    BY <1>3, <2>1
  <2>8. /\ Len(t.rows) \in Nat /\ p[k] = a + Len(t.rows) + 2 /\ lines[a] = Copy!CopyHeader(t)
        /\ \A j \in 1 .. Len(t.rows) : lines[a + j] = t.rows[j]
        /\ lines[a + Len(t.rows) + 1] = Copy!EndOfData /\ lines[a + Len(t.rows) + 2] = Copy!Blank
    BY <1>6
  <2>9. p[k] <= Len(lines) /\ parsed[a - 1] = Parsing(done, <<>>)
    BY <1>3, <1>9, <2>1, <2>7
  <2> HIDE DEF t, a, done
  <2>10. \E count : /\ CountingStates(HeaderOf(t), t.rows, count)
                    /\ parsed[a + Len(t.rows) + 2] = Parsing(Append(done, FingerprintOfTable(t)), <<>>)
    <3>1. a + Len(t.rows) + 2 <= Len(lines)
      BY <2>8, <2>9
    <3>2. \A j \in 1 .. Len(t.rows) : lines[a + j] = t.rows[j] /\ t.rows[j] # Copy!EndOfData
      BY <2>6, <2>8
    <3>3. IsBlock(lines, parsed, t, a, done)
      BY <1>4, <1>5, <2>3, <2>4, <2>5, <2>7, <2>8, <2>9, <3>1, <3>2, Zenon DEF IsBlock
    <3> QED
      BY <3>3, BlockIsParsed, Zenon
  <2>11. Append(done, FingerprintOfTable(t)) = First(k)
    BY <1>8 DEF done, t
  <2> HIDE DEF First
  <2> QED
    BY <2>8, <2>10, <2>11 DEF t
<1> DEFINE S == {k \in Nat : k <= n => parsed[p[k]] = Parsing(First(k), <<>>)}
<1>10. 0 \in S
  <2>1. First(0) = <<>>
    OBVIOUS
  <2>2. 1 \in 1 .. Len(lines)
    <3>1. 1 <= Len(lines) /\ 0 \in 0 .. n
      BY <1>1, <1>3
    <3> QED
      BY <1>4, <3>1
  <2>3. parsed[0] = Parsing(<<>>, <<>>) /\ parsed[1] = Copy!ParseLine(parsed[0], lines[1])
    <3>1. Copy!Reading = Parsing(<<>>, <<>>)
      BY DEF Copy!Reading, Parsing
    <3> QED
      BY <1>5, <2>2, <3>1 DEF ParserStates
  <2>4. lines[1].kind # "COPY"
    BY <1>3 DEF Copy!Line
  <2>5. parsed[1] = Parsing(<<>>, <<>>)
    BY <2>3, <2>4, ParseOutside
  <2> HIDE DEF First
  <2> QED
    BY <1>3, <2>1, <2>5
<1>11. ASSUME NEW k \in Nat, k \in S PROVE k + 1 \in S
  <2> SUFFICES ASSUME k + 1 <= n PROVE parsed[p[k + 1]] = Parsing(First(k + 1), <<>>)
    OBVIOUS
  <2>1. k + 1 \in 1 .. n /\ (k + 1) - 1 = k /\ k <= n
    BY <1>1
  <2> HIDE DEF First
  <2>2. parsed[p[(k + 1) - 1]] = Parsing(First((k + 1) - 1), <<>>)
    BY <1>11, <2>1
  <2> QED
    BY ONLY <1>9, <2>1, <2>2
<1>12. \A k \in Nat : k \in S
  <2> HIDE DEF S
  <2> QED
    BY <1>10, <1>11, Induction
<1>13. \A k \in 0 .. n : parsed[p[k]] = Parsing(First(k), <<>>)
  <2> HIDE DEF First
  <2>1. \A k \in 0 .. n : k \in Nat /\ k <= n
    BY <1>1
  <2> QED
    BY <1>12, <2>1
<1>14. Copy!ParseCopyData(lines) = Outcome(Parsing(FingerprintsOf(tables), <<>>))
  <2>1. n \in 0 .. n /\ First(n) = FingerprintsOf(tables)
    BY <1>1 DEF FingerprintsOf, n
  <2> HIDE DEF First
  <2> QED
    BY <1>3, <1>5, <1>13, <2>1
<1>15. ASSUME NEW k \in 1 .. n
       PROVE  \E count : /\ CountingStates(HeaderOf(tables[k]), tables[k].rows, count)
                         /\ FingerprintOfTable(tables[k]) = Copy!Result(count[Len(tables[k].rows)])
  <2>1. k - 1 \in 0 .. n
    BY <1>1
  <2>2. PICK count : CountingStates(HeaderOf(tables[k]), tables[k].rows, count)
    BY <1>9, <1>13, <2>1
  <2>3. Len(tables[k].rows) \in Nat
    BY <1>6
  <2>4. FingerprintOfTable(tables[k]) = Copy!Result(count[Len(tables[k].rows)])
    BY <2>2, <2>3, CountedLines DEF FingerprintOfTable
  <2> QED
    BY <2>2, <2>4
<1> QED
  BY <1>14, <1>15 DEF lines, n

-----------------------------------------------------------------------------
(* The order of the tables of a dump.                                      *)

\* Every character has a rank of its own.
LEMMA RankOrders ==
  /\ \A c \in Copy!ToSet(Copy!ByteOrder) : Copy!Rank(c) \in Nat
  /\ \A c, d \in Copy!ToSet(Copy!ByteOrder) : Copy!Rank(c) = Copy!Rank(d) => c = d
<1> DEFINE B == Copy!ByteOrder
           R(c) == CHOOSE i \in DOMAIN B : B[i] = c
<1>1. DOMAIN B \subseteq Nat
  <2>1. \A a, b, c, d, e, f, g, h : DOMAIN <<a, b, c, d, e, f, g, h>> \subseteq Nat
    OBVIOUS
  <2> QED
    BY <2>1, Zenon DEF Copy!ByteOrder
<1> HIDE DEF B
<1>2. Copy!ToSet(B) = {B[i] : i \in DOMAIN B}
  BY DEF Copy!ToSet
<1>3. \A c \in Copy!ToSet(B) : R(c) \in DOMAIN B /\ B[R(c)] = c
  <2> TAKE c \in Copy!ToSet(B)
  <2>1. \E i \in DOMAIN B : B[i] = c
    BY <1>2
  <2> QED
    BY <2>1, Zenon
<1>4. \A c : Copy!Rank(c) = R(c)
  BY Zenon DEF Copy!Rank, B
<1> HIDE DEF R
<1>5. /\ \A c \in Copy!ToSet(B) : Copy!Rank(c) \in Nat
      /\ \A c, d \in Copy!ToSet(B) : Copy!Rank(c) = Copy!Rank(d) => c = d
  BY <1>1, <1>3, <1>4
<1> QED
  BY <1>5 DEF B

\* The first k characters are the same.
Agree(m, n, k) == \A i \in 1 .. k : m[i] = n[i]

\* The order of names, place by place.
LessAt(m, n, k) ==
  /\ k \in Nat /\ k <= Len(m) /\ k < Len(n) /\ Agree(m, n, k)
  /\ k = Len(m) \/ Copy!Rank(m[k + 1]) < Copy!Rank(n[k + 1])

\* That is how names are compared.
LEMMA NameLessMeans ==
  ASSUME NEW Chars, NEW m \in Seq(Chars), NEW n \in Seq(Chars)
  PROVE  Copy!NameLess(m, n) <=> \E k \in Nat : LessAt(m, n, k)
<1>1. ASSUME NEW k \in Nat, k <= Len(m), k <= Len(n)
      PROVE  SubSeq(m, 1, k) = SubSeq(n, 1, k) <=> Agree(m, n, k)
  <2> DEFINE s == SubSeq(m, 1, k)
             r == SubSeq(n, 1, k)
  <2>1. /\ s \in Seq(Chars) /\ Len(s) = k /\ \A i \in 1 .. k : s[i] = m[i]
        /\ r \in Seq(Chars) /\ Len(r) = k /\ \A i \in 1 .. k : r[i] = n[i]
    BY <1>1
  <2> HIDE DEF s, r
  <2>2. (\A i \in 1 .. k : s[i] = r[i]) => s = r
    BY <2>1, SameSeq
  <2>3. s = r <=> Agree(m, n, k)
    BY <2>1, <2>2 DEF Agree
  <2> QED
    BY <2>3 DEF s, r
<1>2. Len(m) \in Nat /\ Len(n) \in Nat
  OBVIOUS
<1>3. ASSUME NEW k \in 0 .. Len(m)
      PROVE  (k < Len(n) /\ SubSeq(m, 1, k) = SubSeq(n, 1, k)) <=> (k < Len(n) /\ Agree(m, n, k))
  BY <1>1, <1>2
<1>4. \A k : k \in 0 .. Len(m) <=> k \in Nat /\ k <= Len(m)
  BY <1>2
<1> QED
  BY <1>3, <1>4, Zenon DEF Copy!NameLess, LessAt

\* No name comes before itself, and one of two names before the other.
LEMMA NamesAreOrdered ==
  ASSUME NEW Chars, Chars \subseteq Copy!ToSet(Copy!ByteOrder)
  PROVE  /\ \A m \in Seq(Chars) : ~Copy!NameLess(m, m)
         /\ \A m, n \in Seq(Chars) : m = n \/ Copy!NameLess(m, n) \/ Copy!NameLess(n, m)
         /\ \A m, n, o \in Seq(Chars) : Copy!NameLess(m, n) /\ Copy!NameLess(n, o) => Copy!NameLess(m, o)
<1> DEFINE R(c) == Copy!Rank(c)
<1>1. \A m \in Seq(Chars) : Len(m) \in Nat /\ \A i \in 1 .. Len(m) : R(m[i]) \in Nat
  <2> SUFFICES ASSUME NEW m \in Seq(Chars), NEW i \in 1 .. Len(m) PROVE R(m[i]) \in Nat
    OBVIOUS
  <2>1. m[i] \in Chars
    OBVIOUS
  <2> QED
    BY <2>1, RankOrders
<1>2. \A m, n \in Seq(Chars) : \A i \in 1 .. Len(m) : \A j \in 1 .. Len(n) : R(m[i]) = R(n[j]) => m[i] = n[j]
  <2> SUFFICES ASSUME NEW m \in Seq(Chars), NEW n \in Seq(Chars), NEW i \in 1 .. Len(m), NEW j \in 1 .. Len(n),
                      R(m[i]) = R(n[j])
               PROVE  m[i] = n[j]
    OBVIOUS
  <2>1. m[i] \in Chars /\ n[j] \in Chars
    OBVIOUS
  <2> QED
    BY <2>1, RankOrders
<1>3. \A m, n \in Seq(Chars) : Copy!NameLess(m, n) <=> \E k \in Nat : LessAt(m, n, k)
  BY NameLessMeans
<1>4. ASSUME NEW m \in Seq(Chars), NEW k \in Nat, LessAt(m, m, k) PROVE FALSE
  <2>1. Len(m) \in Nat /\ k < Len(m) /\ R(m[k + 1]) < R(m[k + 1])
    BY <1>1, <1>4 DEF LessAt
  <2>2. R(m[k + 1]) \in Nat
    BY <1>1, <2>1
  <2> QED
    BY <2>1, <2>2
<1>5. ASSUME NEW m \in Seq(Chars), NEW n \in Seq(Chars), m # n
      PROVE  \E k \in Nat : LessAt(m, n, k) \/ LessAt(n, m, k)
  <2> SUFFICES ASSUME \A k \in Nat : ~LessAt(m, n, k) /\ ~LessAt(n, m, k) PROVE FALSE
    OBVIOUS
  <2>1. Len(m) \in Nat /\ Len(n) \in Nat
    BY <1>1
  <2> DEFINE S == {k \in Nat : k <= Len(m) /\ k <= Len(n) => Agree(m, n, k)}
  <2>2. 0 \in S
    BY DEF Agree
  <2>3. ASSUME NEW k \in Nat, k \in S PROVE k + 1 \in S
    <3> SUFFICES ASSUME k + 1 <= Len(m), k + 1 <= Len(n) PROVE Agree(m, n, k + 1)
      OBVIOUS
    <3>1. k + 1 \in 1 .. Len(m) /\ k + 1 \in 1 .. Len(n) /\ k < Len(m) /\ k < Len(n)
      BY <2>1
    <3>2. Agree(m, n, k) /\ Agree(n, m, k)
      BY <2>3, <3>1 DEF Agree
    <3>3. ~(R(m[k + 1]) < R(n[k + 1])) /\ ~(R(n[k + 1]) < R(m[k + 1]))
      BY <2>1, <3>1, <3>2 DEF LessAt
    <3>4. R(m[k + 1]) \in Nat /\ R(n[k + 1]) \in Nat
      BY <1>1, <3>1
    <3>5. R(m[k + 1]) = R(n[k + 1])
      <4> HIDE DEF R
      <4> QED
        BY <3>3, <3>4
    <3>6. m[k + 1] = n[k + 1]
      BY <1>2, <3>1, <3>5
    <3>7. \A i \in 1 .. k + 1 : i = k + 1 \/ i \in 1 .. k
      OBVIOUS
    <3> QED
      BY <3>2, <3>6, <3>7 DEF Agree
  <2>4. \A k \in Nat : k \in S
    <3> HIDE DEF S
    <3> QED
      BY <2>2, <2>3, Induction
  <2>5. CASE Len(m) = Len(n)
    <3>1. Agree(m, n, Len(m))
      BY <2>1, <2>4, <2>5
    <3>2. m = n
      BY <2>5, <3>1, SameSeq DEF Agree
    <3> QED
      BY <1>5, <3>2
  <2>6. CASE Len(m) < Len(n)
    <3>1. Agree(m, n, Len(m))
      BY <2>1, <2>4, <2>6
    <3>2. LessAt(m, n, Len(m))
      BY <2>1, <2>6, <3>1 DEF LessAt
    <3> QED
      BY <2>1, <3>2
  <2>7. CASE Len(n) < Len(m)
    <3>1. Agree(m, n, Len(n))
      BY <2>1, <2>4, <2>7
    <3>2. LessAt(n, m, Len(n))
      BY <2>1, <2>7, <3>1 DEF LessAt, Agree
    <3> QED
      BY <2>1, <3>2
  <2> QED
    BY <2>1, <2>5, <2>6, <2>7
<1>6. ASSUME NEW m \in Seq(Chars), NEW n \in Seq(Chars), NEW o \in Seq(Chars),
             NEW k \in Nat, LessAt(m, n, k), NEW l \in Nat, LessAt(n, o, l)
      PROVE  \E q \in Nat : LessAt(m, o, q)
  <2>1. Len(m) \in Nat /\ Len(n) \in Nat /\ Len(o) \in Nat
    BY <1>1
  <2>2. /\ k <= Len(m) /\ k < Len(n) /\ Agree(m, n, k) /\ (k = Len(m) \/ R(m[k + 1]) < R(n[k + 1]))
        /\ l <= Len(n) /\ l < Len(o) /\ Agree(n, o, l) /\ (l = Len(n) \/ R(n[l + 1]) < R(o[l + 1]))
    BY <1>6 DEF LessAt
  <2>3. CASE k < l
    <3>1. /\ k < Len(o) /\ k + 1 \in 1 .. l
          /\ \A i \in 1 .. k : i \in 1 .. l
      BY <2>1, <2>2, <2>3
    <3>2. Agree(m, o, k) /\ n[k + 1] = o[k + 1]
      BY <2>2, <3>1 DEF Agree
    <3>3. LessAt(m, o, k)
      BY <2>2, <3>1, <3>2 DEF LessAt
    <3> QED
      BY <3>3
  <2>4. CASE k = l
    <3>1. R(n[k + 1]) < R(o[k + 1]) /\ k < Len(o)
      BY <2>1, <2>2, <2>4
    <3>2. Agree(m, o, k)
      BY <2>2, <2>4 DEF Agree
    <3>3. k = Len(m) \/ R(m[k + 1]) < R(o[k + 1])
      <4> SUFFICES ASSUME k # Len(m) PROVE R(m[k + 1]) < R(o[k + 1])
        OBVIOUS
      <4>1. k + 1 \in 1 .. Len(m) /\ k + 1 \in 1 .. Len(n) /\ k + 1 \in 1 .. Len(o)
        BY <2>1, <2>2, <3>1
      <4>2. R(m[k + 1]) \in Nat /\ R(n[k + 1]) \in Nat /\ R(o[k + 1]) \in Nat
        BY <1>1, <4>1
      <4>3. R(m[k + 1]) < R(n[k + 1])
        BY <2>2
      <4> HIDE DEF R
      <4> QED
        BY <3>1, <4>2, <4>3
    <3>4. LessAt(m, o, k)
      BY <2>2, <3>1, <3>2, <3>3 DEF LessAt
    <3> QED
      BY <3>4
  <2>5. CASE l < k
    <3>1. /\ l # Len(n) /\ l < Len(m) /\ l + 1 \in 1 .. k
          /\ \A i \in 1 .. l : i \in 1 .. k
      BY <2>1, <2>2, <2>5
    <3>2. Agree(m, o, l) /\ m[l + 1] = n[l + 1]
      BY <2>2, <3>1 DEF Agree
    <3>3. LessAt(m, o, l)
      BY <2>1, <2>2, <3>1, <3>2 DEF LessAt
    <3> QED
      BY <3>3
  <2> QED
    BY <2>3, <2>4, <2>5
<1> QED
  BY <1>3, <1>4, <1>5, <1>6, Zenon

\* The ranks of the schemas tell them apart.
LEMMA SchemasAreRanked ==
  ASSUME NEW h, Copy!SchemaOf(h) \in Copy!Schemas, NEW g, Copy!SchemaOf(g) \in Copy!Schemas
  PROVE  /\ Copy!SchemaRank[Copy!SchemaOf(h)] \in Nat
         /\ Copy!SchemaRank[Copy!SchemaOf(h)] = Copy!SchemaRank[Copy!SchemaOf(g)] => h.schema = g.schema
<1> DEFINE Auth == <<"a", "a">>
           Public == <<"b">>
<1>1. Copy!SchemaOf(h) = IF h.schema = Auth THEN "auth" ELSE IF h.schema = Public THEN "public" ELSE "other"
  BY Zenon DEF Copy!SchemaOf
<1>2. Copy!SchemaOf(g) = IF g.schema = Auth THEN "auth" ELSE IF g.schema = Public THEN "public" ELSE "other"
  BY Zenon DEF Copy!SchemaOf
<1>3. Copy!SchemaRank["auth"] = 1 /\ Copy!SchemaRank["public"] = 2 /\ "other" \notin Copy!Schemas
  BY DEF Copy!SchemaRank, Copy!Schemas
<1> HIDE DEF Auth, Public
<1> QED
  BY <1>1, <1>2, <1>3

\* Every fingerprint is of a table of its own, in a schema the code knows.
OfTables(fps, n, Chars) ==
  /\ \A i \in 1 .. n : /\ Copy!SchemaOf(fps[i].header) \in Copy!Schemas
                       /\ fps[i].header.name \in Seq(Chars)
  /\ \A i, j \in 1 .. n : /\ fps[i].header.schema = fps[j].header.schema
                          /\ fps[i].header.name = fps[j].header.name
                          => i = j

\* The fingerprints of different tables are ordered, strictly and totally.
LEMMA FingerprintsAreOrdered ==
  ASSUME NEW Chars, Chars \subseteq Copy!ToSet(Copy!ByteOrder), NEW n \in Nat, NEW fps, OfTables(fps, n, Chars)
  PROVE  /\ \A i \in 1 .. n : ~Copy!Before(fps[i], fps[i])
         /\ \A i, j \in 1 .. n : i = j \/ Copy!Before(fps[i], fps[j]) \/ Copy!Before(fps[j], fps[i])
         /\ \A i, j, k \in 1 .. n :
              Copy!Before(fps[i], fps[j]) /\ Copy!Before(fps[j], fps[k]) => Copy!Before(fps[i], fps[k])
<1> DEFINE N(i) == fps[i].header.name
           s(i) == Copy!SchemaRank[Copy!SchemaOf(fps[i].header)]
           Less(x, y) == Copy!NameLess(x, y)
<1>1. \A i, j \in 1 .. n : Copy!Before(fps[i], fps[j]) <=> s(i) < s(j) \/ (s(i) = s(j) /\ Less(N(i), N(j)))
  BY Zenon DEF Copy!Before
<1>2. /\ \A i \in 1 .. n : s(i) \in Nat /\ N(i) \in Seq(Chars)
      /\ \A i, j \in 1 .. n : s(i) = s(j) => fps[i].header.schema = fps[j].header.schema
  <2>1. \A i \in 1 .. n : Copy!SchemaOf(fps[i].header) \in Copy!Schemas
    BY DEF OfTables
  <2>2. \A i, j \in 1 .. n : s(i) \in Nat /\ (s(i) = s(j) => fps[i].header.schema = fps[j].header.schema)
    BY <2>1, SchemasAreRanked
  <2> QED
    BY <2>2 DEF OfTables
<1>3. \A i, j \in 1 .. n : s(i) = s(j) /\ N(i) = N(j) => i = j
  BY <1>2 DEF OfTables
<1>4. /\ \A x \in Seq(Chars) : ~Less(x, x)
      /\ \A x, y \in Seq(Chars) : x = y \/ Less(x, y) \/ Less(y, x)
      /\ \A x, y, z \in Seq(Chars) : Less(x, y) /\ Less(y, z) => Less(x, z)
  BY NamesAreOrdered
<1> HIDE DEF N, s, Less
<1>5. \A i \in 1 .. n : ~Copy!Before(fps[i], fps[i])
  BY <1>1, <1>2, <1>4
<1>6. \A i, j \in 1 .. n : i = j \/ Copy!Before(fps[i], fps[j]) \/ Copy!Before(fps[j], fps[i])
  <2> TAKE i, j \in 1 .. n
  <2>1. s(i) < s(j) \/ s(j) < s(i) \/ s(i) = s(j)
    BY <1>2
  <2>2. s(i) = s(j) => i = j \/ Less(N(i), N(j)) \/ Less(N(j), N(i))
    BY <1>2, <1>3, <1>4
  <2> QED
    BY <1>1, <2>1, <2>2
<1>7. ASSUME NEW i \in 1 .. n, NEW j \in 1 .. n, NEW k \in 1 .. n,
             Copy!Before(fps[i], fps[j]), Copy!Before(fps[j], fps[k])
      PROVE  Copy!Before(fps[i], fps[k])
  <2>1. s(i) \in Nat /\ s(j) \in Nat /\ s(k) \in Nat
    BY <1>2
  <2>2. s(i) < s(j) \/ (s(i) = s(j) /\ Less(N(i), N(j)))
    BY <1>1, <1>7
  <2>3. s(j) < s(k) \/ (s(j) = s(k) /\ Less(N(j), N(k)))
    BY <1>1, <1>7
  <2>4. Less(N(i), N(j)) /\ Less(N(j), N(k)) => Less(N(i), N(k))
    BY <1>2, <1>4
  <2>5. s(i) < s(k) \/ (s(i) = s(k) /\ Less(N(i), N(k)))
    BY <2>1, <2>2, <2>3, <2>4
  <2> QED
    BY <1>1, <2>5
<1> QED
  BY <1>5, <1>6, <1>7

\* A function of so many places to themselves that hits none twice hits all of them.
LEMMA OnceIsOnto ==
  ASSUME NEW n \in Nat, NEW f \in [1 .. n -> 1 .. n], \A i, j \in 1 .. n : f[i] = f[j] => i = j
  PROVE  \A k \in 1 .. n : \E i \in 1 .. n : f[i] = k
<1> SUFFICES ASSUME NEW k \in 1 .. n, \A i \in 1 .. n : f[i] # k PROVE FALSE
  OBVIOUS
<1> DEFINE S == 1 .. n
           T == S \ {k}
<1>1. IsFiniteSet(S) /\ Cardinality(S) = n
  BY FS_Interval
<1>2. IsFiniteSet(T) /\ Cardinality(T) = n - 1
  <2>1. k \in S
    OBVIOUS
  <2> QED
    BY <1>1, <2>1, FS_RemoveElement
<1>3. f \in [S -> T]
  OBVIOUS
<1> HIDE DEF S, T
<1>4. \E x, y \in S : x # y /\ f[x] = f[y]
  <2>1. IsFiniteSet(S) /\ IsFiniteSet(T) /\ Cardinality(T) < Cardinality(S)
    BY <1>1, <1>2
  <2> QED
    BY ONLY <1>3, <2>1, FS_PigeonHole
<1> QED
  BY <1>4 DEF S

\* Things that have an order can be put in it: each comes where as many are before it.
LEMMA Ordering ==
  ASSUME NEW n \in Nat, NEW less,
         \A i \in 1 .. n : <<i, i>> \notin less,
         \A i, j \in 1 .. n : i = j \/ <<i, j>> \in less \/ <<j, i>> \in less,
         \A i, j, k \in 1 .. n : <<i, j>> \in less /\ <<j, k>> \in less => <<i, k>> \in less
  PROVE  \E p \in [1 .. n -> 1 .. n] : \A i, j \in 1 .. n : i < j => <<p[i], p[j]>> \in less
<1> DEFINE S == 1 .. n
           Prior(i) == {j \in S : <<j, i>> \in less}
           rank == [i \in S |-> Cardinality(Prior(i)) + 1]
<1>1. IsFiniteSet(S) /\ Cardinality(S) = n
  BY FS_Interval
<1>2. \A i \in S : Prior(i) \in SUBSET S /\ i \notin Prior(i)
  OBVIOUS
<1>3. \A i, j \in S : <<j, i>> \in less => Prior(j) \in SUBSET Prior(i) /\ j \in Prior(i) /\ j \notin Prior(j)
  OBVIOUS
<1> HIDE DEF Prior
<1>4. \A i \in S : /\ IsFiniteSet(Prior(i)) /\ Cardinality(Prior(i)) \in Nat /\ Cardinality(Prior(i)) < n
  <2> TAKE i \in S
  <2>1. IsFiniteSet(Prior(i)) /\ Cardinality(Prior(i)) <= n /\ (Cardinality(Prior(i)) = n => Prior(i) = S)
    <3> HIDE DEF S
    <3> QED
      BY <1>1, <1>2, FS_Subset
  <2>2. Cardinality(Prior(i)) \in Nat
    BY <2>1, FS_CardinalityType
  <2>3. Prior(i) # S
    BY <1>2
  <2> QED
    BY <2>1, <2>2, <2>3
<1>5. \A i \in S : rank[i] \in 1 .. n /\ rank[i] = Cardinality(Prior(i)) + 1
  <2> TAKE i \in S
  <2>1. rank[i] = Cardinality(Prior(i)) + 1
    OBVIOUS
  <2> QED
    BY <1>4, <2>1
<1>6. \A i, j \in S : <<j, i>> \in less => rank[j] < rank[i]
  <2> SUFFICES ASSUME NEW i \in S, NEW j \in S, <<j, i>> \in less PROVE rank[j] < rank[i]
    OBVIOUS
  <2>1. Prior(j) \in SUBSET Prior(i) /\ Prior(i) # Prior(j)
    BY <1>3
  <2>2. IsFiniteSet(Prior(i)) /\ Cardinality(Prior(i)) \in Nat /\ Cardinality(Prior(j)) \in Nat
    BY <1>4
  <2>3. Cardinality(Prior(j)) <= Cardinality(Prior(i)) /\ Cardinality(Prior(i)) # Cardinality(Prior(j))
    BY <2>1, <2>2, FS_Subset
  <2> QED
    BY <1>5, <2>2, <2>3
<1>7. rank \in [S -> S]
  <2>1. rank = [i \in S |-> rank[i]] /\ \A i \in S : rank[i] \in S
    BY <1>5
  <2> HIDE DEF rank, S
  <2> QED
    BY <2>1
<1> HIDE DEF rank
<1>8. \A i, j \in S : rank[i] = rank[j] => i = j
  <2> TAKE i, j \in S
  <2>1. i = j \/ rank[i] < rank[j] \/ rank[j] < rank[i]
    BY <1>6
  <2>2. rank[i] \in Nat /\ rank[j] \in Nat
    BY <1>7
  <2> QED
    BY <2>1, <2>2
<1>9. \A k \in S : \E i \in S : rank[i] = k
  BY <1>7, <1>8, OnceIsOnto
<1> DEFINE at(k) == CHOOSE i \in S : rank[i] = k
           p == [k \in S |-> at(k)]
<1>10. \A k \in S : at(k) \in S /\ rank[at(k)] = k
  BY <1>9
<1> HIDE DEF at
<1>11. p \in [S -> S] /\ \A k \in S : p[k] \in S /\ rank[p[k]] = k
  BY <1>10
<1> HIDE DEF p
<1>12. \A i, j \in S : i < j => <<p[i], p[j]>> \in less
  <2> SUFFICES ASSUME NEW i \in S, NEW j \in S, i < j, <<p[i], p[j]>> \notin less PROVE FALSE
    OBVIOUS
  <2>1. p[i] \in S /\ p[j] \in S /\ rank[p[i]] = i /\ rank[p[j]] = j
    BY <1>11
  <2>2. p[i] = p[j] \/ <<p[j], p[i]>> \in less
    BY <2>1
  <2>3. p[i] = p[j] \/ rank[p[j]] < rank[p[i]]
    BY <1>6, <2>1, <2>2
  <2>4. i \in Nat /\ j \in Nat
    OBVIOUS
  <2> QED
    BY <2>1, <2>3, <2>4
<1> QED
  BY <1>11, <1>12

\* The places of the sorted fingerprints: each comes once, behind those before it.
Places(fps, n, place) ==
  /\ Copy!Sorted(fps) = [i \in 1 .. n |-> fps[place[i]]]
  /\ \A i, j \in 1 .. n : i < j => Copy!Before(fps[place[i]], fps[place[j]])
  /\ \A i, j \in 1 .. n : place[i] = place[j] => i = j
  /\ \A k \in 1 .. n : \E i \in 1 .. n : place[i] = k

\* The fingerprints of a dump can be sorted, and then each table comes once, in its place.
LEMMA SortedInOrder ==
  ASSUME NEW Chars, Chars \subseteq Copy!ToSet(Copy!ByteOrder), NEW n \in Nat,
         NEW fps, DOMAIN fps = 1 .. n, OfTables(fps, n, Chars)
  PROVE  \E place \in [1 .. n -> 1 .. n] : Places(fps, n, place)
<1> DEFINE S == 1 .. n
           B(i, j) == Copy!Before(fps[i], fps[j])
           less == {x \in S \X S : B(x[1], x[2])}
           InPlace(p) == \A i, j \in DOMAIN fps : i < j => Copy!Before(fps[p[i]], fps[p[j]])
           place == CHOOSE p \in [DOMAIN fps -> DOMAIN fps] : InPlace(p)
<1>1. Copy!Sorted(fps) = [i \in DOMAIN fps |-> fps[place[i]]]
  BY Zenon DEF Copy!Sorted
<1>2. \A i, j \in S : <<i, j>> \in less <=> B(i, j)
  <2> HIDE DEF B, S
  <2> QED
    OBVIOUS
<1>3. /\ \A i \in S : ~B(i, i)
      /\ \A i, j \in S : i = j \/ B(i, j) \/ B(j, i)
      /\ \A i, j, k \in S : B(i, j) /\ B(j, k) => B(i, k)
  BY FingerprintsAreOrdered, Zenon
<1> HIDE DEF less, B
<1>4. \E p \in [S -> S] : \A i, j \in S : i < j => <<p[i], p[j]>> \in less
  <2>1. /\ \A i \in S : <<i, i>> \notin less
        /\ \A i, j \in S : i = j \/ <<i, j>> \in less \/ <<j, i>> \in less
        /\ \A i, j, k \in S : <<i, j>> \in less /\ <<j, k>> \in less => <<i, k>> \in less
    BY <1>2, <1>3, Zenon
  <2> QED
    BY <2>1, Ordering
<1>5. \E p \in [S -> S] : \A i, j \in S : i < j => B(p[i], p[j])
  BY <1>2, <1>4
<1>6. \E p \in [DOMAIN fps -> DOMAIN fps] : InPlace(p)
  BY <1>5 DEF B
<1>7. place \in [DOMAIN fps -> DOMAIN fps] /\ InPlace(place)
  <2> HIDE DEF InPlace
  <2> QED
    BY <1>6, Zenon
<1> HIDE DEF place
<1>8. place \in [S -> S] /\ \A i, j \in S : i < j => B(place[i], place[j])
  BY <1>7 DEF B
<1>9. \A i, j \in S : place[i] = place[j] => i = j
  <2> TAKE i, j \in S
  <2>1. place[i] \in S /\ place[j] \in S
    BY <1>8
  <2>2. i < j \/ j < i \/ i = j
    OBVIOUS
  <2> QED
    BY <1>3, <1>8, <2>1, <2>2
<1>10. \A k \in S : \E i \in S : place[i] = k
  BY <1>8, <1>9, OnceIsOnto
<1>11. Places(fps, n, place)
  BY <1>1, <1>8, <1>9, <1>10 DEF B, Places
<1> QED
  BY <1>8, <1>11, Zenon DEF S

\* SameRows says what the fingerprints say.
LEMMA SameRowsMeans ==
  ASSUME NEW L, NEW m \in Seq(L), NEW n \in Seq(L)
  PROVE  Copy!SameRows(m, n) <=> SameBag(m, 0, Len(m), n, 0, Len(n))
<1> DEFINE C(s, r) == Cardinality({i \in DOMAIN s : s[i] = r})
<1>1. \A s \in Seq(L) : \A r : /\ Times(s, 0, Len(s), r) = C(s, r)
                               /\ r \notin Copy!ToSet(s) => Times(s, 0, Len(s), r) = 0
  <2> TAKE s \in Seq(L)
  <2> TAKE r
  <2>1. DOMAIN s = 0 + 1 .. Len(s) /\ Len(s) \in Nat
    OBVIOUS
  <2>2. Copy!ToSet(s) = Among(s, 0, Len(s))
    BY <2>1 DEF Copy!ToSet, Among
  <2>3. Times(s, 0, Len(s), r) = C(s, r)
    BY <2>1 DEF Times
  <2>4. r \notin Among(s, 0, Len(s)) => Times(s, 0, Len(s), r) = 0
    BY <2>1, TimesMeans
  <2> QED
    BY <2>2, <2>3, <2>4
<1>0. \A S : Copy!Cardinality(S) = Cardinality(S)
  BY Zenon DEF Copy!Cardinality, Cardinality
<1> DEFINE D(s, r) == Copy!Cardinality({i \in DOMAIN s : s[i] = r})
<1>4. Copy!SameRows(m, n) <=> \A r \in Copy!ToSet(m) \union Copy!ToSet(n) : D(m, r) = D(n, r)
  BY Zenon DEF Copy!SameRows
<1>2. Copy!SameRows(m, n) <=> \A r \in Copy!ToSet(m) \union Copy!ToSet(n) : C(m, r) = C(n, r)
  BY <1>0, <1>4, Zenon
<1> HIDE DEF C
<1>3. SameBag(m, 0, Len(m), n, 0, Len(n)) <=> \A r : Times(m, 0, Len(m), r) = Times(n, 0, Len(n), r)
  BY Zenon DEF SameBag
<1> QED
  BY <1>1, <1>2, <1>3

\* A dump of tables: rows are lines of L, and names hold these characters.
TableOf(Chars, L) == [schema : Seq(Chars), name : Seq(Chars), columns : Seq(Seq(Chars)), rows : Seq(L)]

\* The same tables with the rows of the restored database.
WithRows(tables, restored) == [i \in DOMAIN tables |-> [tables[i] EXCEPT !.rows = restored[i]]]

\* The parser gives the fingerprints of the tables, in their places, one of each.
Accepts(tables, place) ==
  LET n   == Len(tables)
      fps == FingerprintsOf(tables)
  IN /\ Copy!ToSet(Copy!ParseCopyData(Copy!DumpLines(tables))) = {[i \in 1 .. n |-> fps[place[i]]]}
     /\ \A i, j \in 1 .. n : place[i] = place[j] => i = j
     /\ \A k \in 1 .. n : \E i \in 1 .. n : place[i] = k

\* A capture accepts every dump, and gives the fingerprints of its tables in byte order,
\* each of them once (recovery_fingerprint.go:19-69, validTableFingerprints).
THEOREM DumpIsAccepted ==
  ASSUME NEW Chars, "Q" \in Chars, Chars \subseteq Copy!ToSet(Copy!ByteOrder),
         NEW T, NEW tables \in Seq(T), NEW L, Dumpable(tables, Chars, L)
  PROVE  \E place \in [1 .. Len(tables) -> 1 .. Len(tables)] : Accepts(tables, place)
<1> DEFINE n == Len(tables)
           fps == FingerprintsOf(tables)
           s == Parsing(fps, <<>>)
           sorted == Copy!Sorted(fps)
<1>1. n \in Nat /\ DOMAIN fps = 1 .. n /\ \A k \in 1 .. n : fps[k] = FingerprintOfTable(tables[k])
  BY DEF FingerprintsOf
<1>2. \A k \in 1 .. n : /\ fps[k].header = HeaderOf(tables[k]) /\ fps[k].header.schema = tables[k].schema
                        /\ fps[k].header.name = tables[k].name /\ fps[k].header.columns = tables[k].columns
                        /\ Copy!SchemaOf(fps[k].header) = Copy!SchemaOf(tables[k])
  BY <1>1, FingerprintHeader
<1>3. \A k \in 1 .. n : /\ Copy!SchemaOf(fps[k].header) \in Copy!Schemas
                        /\ fps[k].header.name \in Seq(Chars) /\ fps[k].header.columns # <<>>
  BY <1>2 DEF Dumpable, Written
<1>4. OfTables(fps, n, Chars)
  BY <1>2, <1>3 DEF Dumpable, OfTables
<1>5. Copy!ParseCopyData(Copy!DumpLines(tables)) = Outcome(s)
  BY DumpIsParsed
<1>6. s.failed = FALSE /\ s.current = <<>> /\ s.done = fps
  BY DEF Parsing
<1> HIDE DEF n, fps, s
<1>7. PICK place \in [1 .. n -> 1 .. n] :
        /\ sorted = [i \in 1 .. n |-> fps[place[i]]]
        /\ \A i, j \in 1 .. n : i < j => Copy!Before(fps[place[i]], fps[place[j]])
        /\ \A i, j \in 1 .. n : place[i] = place[j] => i = j
        /\ \A k \in 1 .. n : \E i \in 1 .. n : place[i] = k
  <2>1. \E p \in [1 .. n -> 1 .. n] : Places(fps, n, p)
    BY <1>1, <1>4, SortedInOrder
  <2> QED
    BY <2>1 DEF Places
<1> HIDE DEF sorted
<1>8. DOMAIN sorted = 1 .. n /\ Len(sorted) = n /\ \A i \in 1 .. n : sorted[i] = fps[place[i]] /\ place[i] \in 1 .. n
  <2>1. DOMAIN sorted = 1 .. n /\ \A i \in 1 .. n : sorted[i] = fps[place[i]] /\ place[i] \in 1 .. n
    BY <1>7
  <2>2. sorted \in Seq({fps[k] : k \in 1 .. n})
    BY <1>1, <1>7
  <2> QED
    BY <1>1, <2>1, <2>2
<1>9. Copy!ValidTableFingerprints(sorted)
  <2>1. \A i \in 1 .. n : Copy!SchemaOf(sorted[i].header) \in Copy!Schemas /\ sorted[i].header.columns # <<>>
    BY <1>3, <1>8
  <2>2. \A i \in 2 .. n : Copy!Before(sorted[i - 1], sorted[i])
    <3> TAKE i \in 2 .. n
    <3>1. i - 1 \in 1 .. n /\ i \in 1 .. n /\ i - 1 < i
      BY <1>1
    <3> QED
      BY <1>7, <1>8, <3>1
  <2> QED
    BY <1>8, <2>1, <2>2, Zenon DEF Copy!ValidTableFingerprints
<1>10. Outcome(s) = <<sorted>>
  BY <1>6, <1>9, Zenon DEF Outcome, sorted
<1>11. Copy!ToSet(<<sorted>>) = {sorted}
  BY DEF Copy!ToSet
<1>12. Accepts(tables, place)
  BY <1>5, <1>7, <1>10, <1>11 DEF n, fps, Accepts
<1> QED
  BY <1>12 DEF n

\* The gate opens for a restored database exactly when every table holds the rows of the
\* dump, each as often as there, in any order: whatever the names of tables and columns,
\* the order of the tables, and rows that read like an empty line, a header or the end of
\* a table in the answer (recovery_fingerprint.go:19-60, restore_fingerprint.go:132-175).
THEOREM GateOpensForDumps ==
  ASSUME NEW Chars, "Q" \in Chars, Chars \subseteq Copy!ToSet(Copy!ByteOrder), NEW L, NEW R,
         NEW tables \in Seq(TableOf(Chars, L)), Dumpable(tables, Chars, L),
         NEW restored, \A i \in 1 .. Len(tables) : restored[i] \in Seq(R),
         \A l \in L \union R : l.kind \notin {"BEGIN", "DONE"}
  PROVE  Copy!OpensForTheDumpOnly(tables, restored)
<1> DEFINE n == Len(tables)
           done == FingerprintsOf(tables)
           tabs == WithRows(tables, restored)
<1>0. PICK place \in [1 .. n -> 1 .. n] : Accepts(tables, place)
  BY DumpIsAccepted, Zenon
<1>1. /\ Copy!ToSet(Copy!ParseCopyData(Copy!DumpLines(tables))) = {[i \in 1 .. n |-> done[place[i]]]}
      /\ \A k \in 1 .. n : \E i \in 1 .. n : place[i] = k
  BY <1>0, Zenon DEF Accepts
<1> DEFINE fps == [i \in 1 .. n |-> done[place[i]]]
           sink == Copy!Judge(fps, Copy!Output(Copy!VerificationScript(fps), tabs))
           dumped == [i \in 1 .. n |-> tables[place[i]].rows]
           answer == [i \in 1 .. n |-> tabs[place[i]].rows]
           Count(c, k) == /\ CountingStates(HeaderOf(tables[k]), tables[k].rows, c)
                          /\ FingerprintOfTable(tables[k]) = Copy!Result(c[Len(tables[k].rows)])
           Some(k) == CHOOSE c : Count(c, k)
           counts == [i \in 1 .. n |-> Some(place[i])]
           A == L \union R
<1>2. Copy!Verification(tables, restored) = {sink}
  <2> DEFINE Judged(f) == Copy!Judge(f, Copy!Output(Copy!VerificationScript(f), tabs))
             X == Copy!ToSet(Copy!ParseCopyData(Copy!DumpLines(tables)))
  <2>1. Copy!Verification(tables, restored) = {Judged(f) : f \in X}
    BY Zenon DEF Copy!Verification, WithRows
  <2>2. X = {fps}
    BY <1>1
  <2> HIDE DEF fps, X, Judged
  <2>3. Copy!Verification(tables, restored) = {Judged(fps)}
    BY <2>1, <2>2
  <2> QED
    BY <2>3 DEF Judged
<1>3. n \in Nat /\ DOMAIN tables = 1 .. n /\ \A k \in 1 .. n : done[k] = FingerprintOfTable(tables[k])
  BY DEF FingerprintsOf
<1>4. \A k \in 1 .. n : /\ done[k].header.schema = tables[k].schema /\ done[k].header.name = tables[k].name
                        /\ done[k].header.columns = tables[k].columns /\ done[k].header = HeaderOf(tables[k])
  BY <1>3, FingerprintHeader
<1>5. /\ DOMAIN tabs = 1 .. n
      /\ \A k \in 1 .. n : /\ tabs[k].schema = tables[k].schema /\ tabs[k].name = tables[k].name
                           /\ tabs[k].columns = tables[k].columns /\ tabs[k].rows = restored[k]
  <2> DEFINE With(t, r) == [t EXCEPT !.rows = r]
  <2>1. \A t \in TableOf(Chars, L) : \A r : /\ With(t, r).schema = t.schema /\ With(t, r).name = t.name
                                            /\ With(t, r).columns = t.columns /\ With(t, r).rows = r
    BY DEF TableOf
  <2>2. \A k \in 1 .. n : tables[k] \in TableOf(Chars, L)
    OBVIOUS
  <2>3. DOMAIN tabs = 1 .. n /\ \A k \in 1 .. n : tabs[k] = With(tables[k], restored[k])
    BY <1>3 DEF WithRows
  <2> HIDE DEF With, tabs
  <2> QED
    BY <2>1, <2>2, <2>3
<1>6. \A k \in 1 .. n : /\ tables[k].schema \in Seq(Chars) /\ tables[k].name \in Seq(Chars)
                        /\ tables[k].columns \in Seq(Seq(Chars)) /\ tables[k].rows \in Seq(L)
  <2> TAKE k \in 1 .. n
  <2>1. tables[k] \in TableOf(Chars, L)
    OBVIOUS
  <2> QED
    BY <2>1 DEF TableOf
<1>7. Seq(L) \subseteq Seq(A) /\ Seq(R) \subseteq Seq(A)
  BY WiderSeq
<1>8. \A i \in 1 .. n : place[i] \in 1 .. n /\ fps[i] = done[place[i]] /\ dumped[i] = tables[place[i]].rows
                        /\ answer[i] = restored[place[i]] /\ counts[i] = Some(place[i])
  BY <1>5
<1>9. \A k \in 1 .. n : Count(Some(k), k)
  <2> TAKE k \in 1 .. n
  <2>1. \E c : Count(c, k)
    BY DumpIsParsed
  <2> HIDE DEF Count
  <2> QED
    BY <2>1, Zenon
<1>10. Len(fps) = n /\ fps \in Seq({done[k] : k \in 1 .. n})
  <2> DEFINE D == {done[k] : k \in 1 .. n}
  <2>1. fps \in [1 .. n -> D]
    <3> HIDE DEF done
    <3> QED
      BY <1>8
  <2>2. n \in Nat
    BY <1>3
  <2> HIDE DEF fps, D, n
  <2>3. fps \in Seq(D) /\ Len(fps) = n
    BY <2>1, <2>2
  <2> QED
    BY <2>3 DEF D
<1>11. answer = [i \in 1 .. n |-> tabs[place[i]].rows]
  OBVIOUS
<1> HIDE DEF fps, dumped, answer, counts, tabs, done, Some, Count
<1>12. NamesTables(fps, tabs, place, Chars)
  <2>1. place \in [1 .. Len(fps) -> DOMAIN tabs]
    BY <1>5, <1>10
  <2>2. \A k \in 1 .. n : IsHeader(done[k].header, Chars) /\ IsHeader(tabs[k], Chars)
    BY <1>4, <1>5, <1>6 DEF IsHeader
  <2>3. \A j, k \in 1 .. n : tabs[j].schema = tabs[k].schema /\ tabs[j].name = tabs[k].name => j = k
    BY <1>5 DEF Dumpable, n
  <2>4. \A i \in 1 .. n :
          /\ IsHeader(fps[i].header, Chars)
          /\ fps[i].header.schema = tabs[place[i]].schema /\ fps[i].header.name = tabs[place[i]].name
          /\ fps[i].header.columns = tabs[place[i]].columns
    <3>1. \A k \in 1 .. n : /\ done[k].header.schema = tabs[k].schema /\ done[k].header.name = tabs[k].name
                            /\ done[k].header.columns = tabs[k].columns
      BY <1>4, <1>5
    <3> TAKE i \in 1 .. n
    <3>2. place[i] \in 1 .. n /\ fps[i] = done[place[i]]
      BY <1>8
    <3> HIDE DEF n
    <3> QED
      BY <2>2, <3>1, <3>2
  <2>5. \A j \in DOMAIN tabs : IsHeader(tabs[j], Chars)
    BY <1>5, <2>2
  <2>6. DOMAIN tabs = 1 .. n /\ Len(fps) = n
    BY <1>5, <1>10
  <2> QED
    BY <2>1, <2>3, <2>4, <2>5, <2>6, Zenon DEF NamesTables
<1>13. /\ sink.gate = "open" <=> SameTables(n, dumped, answer)
       /\ Copy!CloseSink(sink).failed = FALSE <=> SameTables(n, dumped, answer)
       /\ Copy!CloseSink(sink).failed \in BOOLEAN
  <2>1. \A j \in DOMAIN tabs : tabs[j].rows \in Seq(A)
    BY <1>5, <1>7
  <2>2. \A i \in 1 .. Len(fps) : /\ dumped[i] \in Seq(A)
                                 /\ CountingStates(fps[i].header, dumped[i], counts[i])
                                 /\ fps[i] = Copy!Result(counts[i][Len(dumped[i])])
    <3> TAKE i \in 1 .. Len(fps)
    <3>1. i \in 1 .. n /\ place[i] \in 1 .. n /\ counts[i] = Some(place[i]) /\ dumped[i] = tables[place[i]].rows
      BY <1>8, <1>10
    <3>2. Count(Some(place[i]), place[i])
      BY <1>9, <3>1
    <3>3. fps[i] = FingerprintOfTable(tables[place[i]]) /\ fps[i].header = HeaderOf(tables[place[i]])
      BY <1>3, <1>4, <1>8, <3>1
    <3>4. dumped[i] \in Seq(A)
      BY <1>6, <1>7, <3>1
    <3> QED
      BY <3>1, <3>2, <3>3, <3>4 DEF Count
  <2>3. \A l \in A : l.kind \notin {"BEGIN", "DONE"}
    OBVIOUS
  <2> HIDE DEF A
  <2>4. answer = [i \in 1 .. Len(fps) |-> tabs[place[i]].rows]
    BY <1>10, <1>11
  <2>5. /\ sink.gate = "open" <=> SameTables(Len(fps), dumped, [i \in 1 .. Len(fps) |-> tabs[place[i]].rows])
        /\ Copy!CloseSink(sink).failed = FALSE
             <=> SameTables(Len(fps), dumped, [i \in 1 .. Len(fps) |-> tabs[place[i]].rows])
        /\ Copy!CloseSink(sink).failed \in BOOLEAN
    BY <1>10, <1>12, <2>1, <2>2, <2>3, GateOpensForTheTables, Zenon
  <2> HIDE DEF sink
  <2> QED
    BY <1>10, <2>4, <2>5
<1>14. SameTables(n, dumped, answer) <=> Copy!Restored(tables, restored)
  <2> DEFINE Same(k) == Copy!SameRows(tables[k].rows, restored[k])
  <2>1. \A i \in 1 .. n : SameBag(dumped[i], 0, Len(dumped[i]), answer[i], 0, Len(answer[i])) <=> Same(place[i])
    <3> TAKE i \in 1 .. n
    <3>1. place[i] \in 1 .. n /\ dumped[i] = tables[place[i]].rows /\ answer[i] = restored[place[i]]
      BY <1>8
    <3>2. tables[place[i]].rows \in Seq(A) /\ restored[place[i]] \in Seq(A)
      BY <1>6, <1>7, <3>1
    <3> QED
      BY <3>1, <3>2, SameRowsMeans
  <2>2. SameTables(n, dumped, answer) <=> \A i \in 1 .. n : Same(place[i])
    BY <2>1 DEF SameTables
  <2>3. Copy!Restored(tables, restored) <=> \A k \in 1 .. n : Same(k)
    BY <1>3 DEF Copy!Restored
  <2> HIDE DEF Same
  <2> QED
    BY <1>1, <1>8, <2>2, <2>3
<1>15. Copy!OpensForTheDumpOnly(tables, restored)
         <=> \E x \in Copy!Verification(tables, restored) :
               /\ x.gate = "open" <=> Copy!Restored(tables, restored)
               /\ x.gate = "open" <=> ~Copy!CloseSink(x).failed
  BY Zenon DEF Copy!OpensForTheDumpOnly
<1> HIDE DEF sink
<1>16. sink.gate = "open" <=> ~Copy!CloseSink(sink).failed
  BY <1>13
<1> QED
  BY <1>2, <1>13, <1>14, <1>15, <1>16, Zenon

\* Tables pg_dump can write, with rows of L for the dump and of R for the restored
\* database, none of which is a marker of the answer.
DumpableInput(x, Chars, L, R) ==
  /\ "Q" \in Chars /\ Chars \subseteq Copy!ToSet(Copy!ByteOrder)
  /\ x.tables \in Seq(TableOf(Chars, L)) /\ Dumpable(x.tables, Chars, L)
  /\ \A i \in 1 .. Len(x.tables) : x.restored[i] \in Seq(R)
  /\ \A l \in L \union R : l.kind \notin {"BEGIN", "DONE"}

\* The commit gate opens for the rows of the dump and for no others
\* (restore_fingerprint.go:132-175), whatever the dump.
THEOREM GateOpens ==
  ASSUME NEW Chars, NEW L, NEW R, algorithm = "copy" => DumpableInput(input, Chars, L, R)
  PROVE  GateOpensForTheDump
<1>1. ASSUME DumpableInput(input, Chars, L, R) PROVE Copy!OpensForTheDumpOnly(input.tables, input.restored)
  <2> DEFINE tables == input.tables
             restored == input.restored
  <2>1. /\ "Q" \in Chars /\ Chars \subseteq Copy!ToSet(Copy!ByteOrder)
        /\ tables \in Seq(TableOf(Chars, L)) /\ Dumpable(tables, Chars, L)
        /\ \A i \in 1 .. Len(tables) : restored[i] \in Seq(R)
        /\ \A l \in L \union R : l.kind \notin {"BEGIN", "DONE"}
    BY <1>1, Zenon DEF DumpableInput
  <2> HIDE DEF tables, restored
  <2>2. Copy!OpensForTheDumpOnly(tables, restored)
    BY <2>1, GateOpensForDumps, Zenon
  <2> QED
    BY <2>2 DEF tables, restored
<1> QED
  BY <1>1, Zenon DEF GateOpensForTheDump

-----------------------------------------------------------------------------
(* The capture.                                                            *)

BeforeCollect == {"prepare", "schema", "schemaRan", "data", "dataRan", "collect"}
AfterProfile  == {"closeSource", "join", "returned"}
Finished      == {"closing", "ended"}

\* No chunk is lost or doubled: only the one in the tee is not stored yet, and
\* every stored data chunk has been fingerprinted.
ChunkInv ==
  /\ stored["schema"] = sent["schema"]
  /\ arch = "tee" => sent["data"] = stored["data"] + 1
  /\ arch \in Parts \cup {"none", "seal"} => sent["data"] = stored["data"]
  /\ hashed = stored["data"]

\* What the caller has done: it has the parser's answer before it turns to the
\* profile, which it closes cleanly only over two valid dumps.
CallerInv ==
  /\ main = "prepare" => arch = "none" /\ parser = "none"
  /\ main \notin {"prepare", "returned"} => arch # "none" /\ parser # "none"
  /\ main \notin BeforeCollect =>
       parser = "sent" \/ (main = "returned" /\ arch = "none" /\ parser = "none")
  /\ main \in {"profile", "profileClose"} => ValidDumps
  /\ main \notin AfterProfile => wend["profile"] = "open"
  /\ main \in BeforeCollect \cup {"profile", "spoil"} => stored["profile"] = 0
  /\ main = "profileClose" => stored["profile"] = 1
  /\ wend["profile"] = "eof" => ValidDumps /\ stored["profile"] = 1

\* What the archive goroutine has done: it seals only what the caller has closed,
\* and its result is the publication.
ArchiveInv ==
  /\ arch = "seal" => wend["profile"] = "eof"
  /\ archived # "pending" <=> arch \in Finished
  /\ published <=> archived = "ok"
  /\ published => wend["profile"] = "eof" /\ sent["data"] = stored["data"]
  /\ arch = "none" => main \in {"prepare", "returned"} /\ sent = [d \in Dumps |-> 0]

\* A capture that has returned has heard from both goroutines, or started none.
ReturnInv ==
  main = "returned" =>
    /\ (arch = "none" /\ parser = "none") \/ (arch \in Finished /\ parser = "sent")
    /\ ret = "ok" <=> published /\ \A d \in Dumps : sent[d] > 0

Inv == TypeOK /\ ChunkInv /\ CallerInv /\ ArchiveInv /\ ReturnInv

USE DEF Dumps, Parts, Pipes, MainPC, ArchPC, BeforeCollect, AfterProfile, Finished
-----------------------------------------------------------------------------
\* The first close of a pipe decides, and no other pipe is touched.
LEMMA ShutPipe ==
  ASSUME NEW p \in Pipes, NEW how \in {"eof", "error"}, Shut(p, how),
         wend \in [Pipes -> {"open", "eof", "error"}]
  PROVE  /\ wend' \in [Pipes -> {"open", "eof", "error"}]
         /\ wend'[p] = IF wend[p] = "open" THEN how ELSE wend[p]
         /\ \A q \in Pipes \ {p} : wend'[q] = wend[q]
  BY DEF Shut

\* The invariant holds before prepareCapture.
LEMMA InitInv == Init => Inv
<1> SUFFICES ASSUME Init PROVE Inv
  OBVIOUS
<1>1. TypeOK
  <2>1. /\ outcome \in [Dumps -> {"pending", "ok", "failed"}]
        /\ wend \in [Pipes -> {"open", "eof", "error"}]
    BY DEF Init
  <2>2. sent \in [Dumps -> Nat] /\ stored \in [Parts -> Nat] /\ stored["profile"] \in 0 .. 1
    BY DEF Init
  <2> QED
    BY <2>1, <2>2 DEF Init, TypeOK
<1>2. ChunkInv /\ CallerInv /\ ArchiveInv /\ ReturnInv
  BY DEF Init, ChunkInv, CallerInv, ArchiveInv, ReturnInv
<1> QED
  BY <1>1, <1>2 DEF Inv

\* Every step of the caller's goroutine preserves the invariant.
LEMMA MainInv == Inv /\ Main => Inv'
<1> SUFFICES ASSUME Inv, Main PROVE Inv'
  OBVIOUS
<1> USE ShutPipe
    DEF Inv, TypeOK, ChunkInv, CallerInv, ArchiveInv, ReturnInv, ValidDumps, NoneEmpty,
        pipes, chunks, archVars, parsing
<1>1. CASE PrepareFails
  BY <1>1 DEF PrepareFails
<1>2. CASE StartGoroutines
  BY <1>2 DEF StartGoroutines
<1>3. CASE AfterSchema
  <2>1. CASE outcome["schema"] = "ok" /\ ~expired
    <3>1. /\ main = "schemaRan" /\ main' = "data"
          /\ UNCHANGED <<outcome, pipes, ret, expired, chunks, archVars, parsing>>
      BY <1>3, <2>1 DEF AfterSchema
    <3> QED
      BY <3>1
  <2>2. CASE ~(outcome["schema"] = "ok" /\ ~expired)
    <3>1. /\ main = "schemaRan" /\ main' = "collect"
          /\ outcome' = [outcome EXCEPT !["schema"] = "failed"]
          /\ wend' = [p \in Pipes |-> IF p \in Dumps \cup {"tee"} /\ wend[p] = "open"
                                      THEN "error" ELSE wend[p]]
          /\ rclosed' = rclosed \cup {"data"}
          /\ UNCHANGED <<ret, expired, chunks, archVars, parsing>>
      BY <1>3, <2>2 DEF AfterSchema
    <3>2. wend["profile"] = "open" /\ stored["profile"] = 0
      BY <3>1
    <3>3. wend' \in [Pipes -> {"open", "eof", "error"}] /\ wend'["profile"] = "open"
      BY <3>1, <3>2
    <3>4. rclosed' \subseteq Pipes
      BY <3>1
    <3>5. outcome' \in [Dumps -> {"pending", "ok", "failed"}]
      BY <3>1
    <3> QED
      BY <3>1, <3>2, <3>3, <3>4, <3>5
  <2> QED
    BY <2>1, <2>2
<1>4. CASE AfterData
  BY <1>4 DEF AfterData
<1>5. CASE Collect
  BY <1>5 DEF Collect
<1>6. CASE WriteProfile
  BY <1>6 DEF WriteProfile
<1>7. CASE WriteProfileFails
  BY <1>7 DEF WriteProfileFails
<1>8. CASE CloseProfile
  BY <1>8 DEF CloseProfile
<1>9. CASE SpoilProfile
  BY <1>9 DEF SpoilProfile
<1>10. CASE CloseDataSource
  BY <1>10 DEF CloseDataSource
<1>11. CASE Join
  BY <1>11 DEF Join
<1> QED
  BY <1>1, <1>2, <1>3, <1>4, <1>5, <1>6, <1>7, <1>8, <1>9, <1>10, <1>11 DEF Main

\* Every outcome of a dump preserves the invariant.
LEMMA DumpInv == ASSUME Inv, NEW d \in Dumps, Dump(d) PROVE Inv'
<1> USE ShutPipe
    DEF Inv, TypeOK, ChunkInv, CallerInv, ArchiveInv, ReturnInv, ValidDumps, Ran,
        pipes, chunks, archVars, parsing
<1>1. CASE RunSucceeds(d)
  BY <1>1 DEF RunSucceeds
<1>2. CASE RunFails(d)
  BY <1>2 DEF RunFails
<1>3. CASE RunFailsLate(d)
  BY <1>3 DEF RunFailsLate
<1> QED
  BY <1>1, <1>2, <1>3 DEF Dump

\* Every step of the archive goroutine preserves the invariant.
LEMMA ArchiveStepInv == Inv /\ (Archive \/ DestinationFails) => Inv'
<1> SUFFICES ASSUME Inv, Archive \/ DestinationFails PROVE Inv'
  OBVIOUS
<1> USE ShutPipe
    DEF Inv, TypeOK, ChunkInv, CallerInv, ArchiveInv, ReturnInv, ValidDumps,
        pipes, chunks, archVars, parsing
<1>1. CASE SchemaChunk
  BY <1>1 DEF SchemaChunk
<1>2. CASE DataChunk
  BY <1>2 DEF DataChunk
<1>3. CASE TeeChunk
  BY <1>3 DEF TeeChunk
<1>4. CASE TeeFails
  BY <1>4 DEF TeeFails
<1>5. ASSUME NEW part \in Parts, PartEnds(part) PROVE Inv'
  BY <1>5 DEF PartEnds, After, Ends
<1>6. ASSUME NEW part \in Parts, PartBreaks(part) PROVE Inv'
  BY <1>6 DEF PartBreaks
<1>7. CASE Publish
  BY <1>7 DEF Publish
<1>8. CASE ReportFailure
  BY <1>8 DEF ReportFailure
<1>9. CASE CloseReaders
  BY <1>9 DEF CloseReaders
<1>10. CASE DestinationFails
  BY <1>10 DEF DestinationFails
<1> QED
  BY <1>1, <1>2, <1>3, <1>4, <1>5, <1>6, <1>7, <1>8, <1>9, <1>10 DEF Archive

\* Every step of the parser, and the end of the context, preserve the invariant.
LEMMA ParserInv == Inv /\ (Parser \/ Expire) => Inv'
<1> SUFFICES ASSUME Inv, Parser \/ Expire PROVE Inv'
  OBVIOUS
<1> USE DEF Inv, TypeOK, ChunkInv, CallerInv, ArchiveInv, ReturnInv, ValidDumps,
        pipes, chunks, archVars, parsing
<1>1. CASE ParserEnds
  BY <1>1 DEF ParserEnds
<1>2. CASE ParserBreaks
  BY <1>2 DEF ParserBreaks
<1>3. CASE ParserSends
  BY <1>3 DEF ParserSends
<1>4. CASE Expire
  BY <1>4 DEF Expire
<1> QED
  BY <1>1, <1>2, <1>3, <1>4 DEF Parser

\* Inv is inductive.
LEMMA NextInv == Inv /\ [Next]_vars => Inv'
<1>1. Inv /\ UNCHANGED vars => Inv'
  BY DEF Inv, TypeOK, ChunkInv, CallerInv, ArchiveInv, ReturnInv, ValidDumps, vars,
         pipes, chunks, archVars, parsing
<1> QED
  BY <1>1, MainInv, DumpInv, ArchiveStepInv, ParserInv DEF Next, Returned, Hang

\* The inductive invariant holds in every state of every behaviour.
THEOREM Invariance == Spec => []Inv
  BY InitInv, NextInv, PTL DEF Spec

-----------------------------------------------------------------------------
\* Type correctness of the split capture; in particular the profile is written
\* at most once.
THEOREM TypeCorrect == Spec => []TypeOK
<1>1. Inv => TypeOK
  BY DEF Inv
<1> QED
  BY <1>1, Invariance, PTL

\* Dumps of any length: what is published is complete, fingerprinted and carries
\* its profile, whatever failed, expired or was refused on the way.
THEOREM PublishedWhole == Spec => []PublishedIsWhole
<1>1. Inv => PublishedIsWhole
  BY DEF Inv, TypeOK, ChunkInv, CallerInv, ArchiveInv, ValidDumps, PublishedIsWhole
<1> QED
  BY <1>1, Invariance, PTL

\* The capture reports success exactly for a published archive with no empty part.
THEOREM Truthful == Spec => []ResultIsTruthful
<1>1. Inv => ResultIsTruthful
  BY DEF Inv, ReturnInv, ResultIsTruthful
<1> QED
  BY <1>1, Invariance, PTL

\* No goroutine outlives the capture in a state in which it could still publish or
\* answer.
THEOREM GoroutinesDone == Spec => []GoroutinesAreDone
<1>1. Inv => GoroutinesAreDone
  BY DEF Inv, ReturnInv, GoroutinesAreDone
<1> QED
  BY <1>1, Invariance, PTL
=============================================================================
