-------------------------- MODULE LocalDemo_proofs --------------------------
(***************************************************************************)
(* Decisions on data, and the rehearsal.                                   *)
(*                                                                         *)
(* MCAlgorithms compares small manifests, reports, lists of archives and   *)
(* dumps of a schema with what has to be made of them; here, those of any  *)
(* length (of its restored tables, SplitCapture_proofs).  A loop over a    *)
(* sequence is a function that is defined along its places: to reason      *)
(* about it takes induction, which is stated here with a set for the       *)
(* property (Induction), since the provers instantiate no operator.        *)
(*                                                                         *)
(* Safety of LocalRehearsal is proved at the end.  Neither property of it  *)
(* is inductive.  SourceOutlivesItsDump needs to know what the archive     *)
(* holds from the moment it is published to the moment the source is       *)
(* dropped; EndIsHonest needs to know how a server can exist that the      *)
(* clean-up did not see, and that the clean-up is entered without an error *)
(* only behind the last check.                                             *)
(***************************************************************************)
EXTENDS MCAlgorithms, LocalRehearsal, FiniteSetTheorems, SequenceTheorems,
        WellFoundedInduction, TLAPS

-----------------------------------------------------------------------------
(* Induction and recursion.                                                *)

\* Induction, with a set for the property: the provers instantiate no operator.
LEMMA Induction ==
  ASSUME NEW S, 0 \in S, \A i \in Nat : i \in S => i + 1 \in S
  PROVE  Nat \subseteq S
<1>1. \A x, y \in Nat : <<y, x>> \in OpToRel(<, Nat) <=> y < x
  BY DEF OpToRel
<1>2. PICK R : IsWellFoundedOn(R, Nat) /\ \A x, y \in Nat : <<y, x>> \in R <=> y < x
  BY <1>1, NatLessThanWellFounded, Zenon
<1> DEFINE T == Nat \ S
<1> SUFFICES ASSUME T # {} PROVE FALSE
  OBVIOUS
<1>3. PICK x \in T : \A y \in T : ~(<<y, x>> \in R)
  BY <1>2, WFMin
<1>4. x \in Nat \ {0} /\ x - 1 \in Nat /\ (x - 1) + 1 = x /\ x - 1 < x
  OBVIOUS
<1>5. x - 1 \in T
  BY <1>4
<1> QED
  BY <1>2, <1>3, <1>4, <1>5

\* A function that is defined step by step along the numbers exists.
LEMMA Recursion ==
  ASSUME NEW D, NEW first \in D, NEW n \in Nat, NEW step \in [1 .. n -> [D -> D]]
  PROVE  \E f \in [0 .. n -> D] : f[0] = first /\ \A i \in 1 .. n : f[i] = step[i][f[i - 1]]
<1> DEFINE Is(f, k) == f \in [0 .. k -> D] /\ f[0] = first /\ \A i \in 1 .. k : f[i] = step[i][f[i - 1]]
           S == {k \in Nat : k <= n => \E f : Is(f, k)}
<1>1. 0 \in S
  <2>1. Is([i \in 0 .. 0 |-> first], 0)
    OBVIOUS
  <2> QED
    BY <2>1
<1>2. ASSUME NEW k \in Nat, k \in S, k + 1 <= n PROVE k + 1 \in S
  <2> PICK f : Is(f, k)
    BY <1>2
  <2> DEFINE next == step[k + 1][f[k]]
             g    == [i \in 0 .. k + 1 |-> IF i = k + 1 THEN next ELSE f[i]]
  <2>1. next \in D
    BY <1>2
  <2> HIDE DEF next
  <2>2. g \in [0 .. k + 1 -> D] /\ g[0] = first
    BY <2>1
  <2>3. (\A i \in 0 .. k : g[i] = f[i]) /\ g[k + 1] = next
    OBVIOUS
  <2> HIDE DEF g
  <2>4. ASSUME NEW i \in 1 .. k + 1 PROVE g[i] = step[i][g[i - 1]]
    <3>1. CASE i = k + 1
      BY <2>3, <3>1 DEF next
    <3>2. CASE i \in 1 .. k
      <4>1. i - 1 \in 0 .. k /\ i \in 0 .. k
        BY <3>2
      <4> QED
        BY <2>3, <3>2, <4>1
    <3> QED
      BY <3>1, <3>2
  <2>5. Is(g, k + 1)
    BY <2>2, <2>4
  <2> HIDE DEF Is
  <2> QED
    BY <2>5
<1>3. \A k \in Nat : k \in S => k + 1 \in S
  BY <1>2
<1>4. n \in S
  <2> HIDE DEF S
  <2> QED
    BY <1>1, <1>3, Induction
<1> QED
  BY <1>4

-----------------------------------------------------------------------------
\* A part of a key, and the integers.
KeyPart == [base : STRING, ending : STRING, upper : BOOLEAN]
Int64   == -MaxInt - 1 .. MaxInt

\* What ParseComponent leaves of objects that can be decoded.
Decoded(components) ==
  /\ components \in Seq(ToSet(components))
  /\ \A c \in ToSet(components) : c.length \in Int64 /\ c.key \in Seq(KeyPart)

\* Integers that fit are left alone, others become integers that fit.
LEMMA WrapMeans ==
  /\ \A n \in Int : Wrap(n) \in Int64
  /\ \A n \in Int64 : Wrap(n) = n
<1> DEFINE M == MaxInt + 1
<1>1. M \in Nat /\ M >= 1 /\ MaxInt \in Nat /\ MaxInt = M - 1
  BY SizeAssumption
<1> HIDE DEF M
<1>2. \A n \in Int : Wrap(n) = ((n + M) % (2 * M)) - M
  BY <1>1 DEF Wrap, M
<1>3. \A n \in Int : (n + M) % (2 * M) \in 0 .. 2 * M - 1
  BY <1>1
<1>4. \A n \in Int64 : (n + M) % (2 * M) = n + M
  BY <1>1 DEF Int64
<1>5. Int64 \subseteq Int
  BY <1>1 DEF Int64
<1>6. \A n \in Int : Wrap(n) \in Int64
  BY <1>1, <1>2, <1>3 DEF Int64
<1>7. \A n \in Int64 : Wrap(n) = n
  BY <1>1, <1>2, <1>4, <1>5
<1> QED
  BY <1>6, <1>7

\* The states of the loop over the components.
Folds(components) == {PortableFold(c.key) : c \in ToSet(components)}
States(components) ==
  [ok : BOOLEAN, next : Nat, total : Int, keys : SUBSET Folds(components)]

\* The component passes every test.
Passes(s, c) ==
  /\ s.ok /\ c.id = s.next /\ ValidKey(c.key) /\ c.scope = "ok"
  /\ c.status \in {"complete", "incomplete"} /\ c.length >= 0 /\ Fits(c.length, s.total)
  /\ PortableFold(c.key) \notin s.keys /\ c.sha256 = "ok"

\* What a step of the loop does.
LEMMA ValidateStep ==
  ASSUME NEW cs, Decoded(cs), NEW c \in ToSet(cs), NEW s \in States(cs)
  PROVE  LET next == ValidateComponent(s, c)
         IN /\ next \in States(cs)
            /\ next.ok <=> Passes(s, c)
            /\ Passes(s, c) => /\ next.next = s.next + 1 /\ next.total = Wrap(s.total + c.length)
                               /\ next.keys = s.keys \cup {PortableFold(c.key)}
<1> DEFINE fold == PortableFold(c.key)
           total == Wrap(s.total + c.length)
           next == ValidateComponent(s, c)
           passed == Passes(s, c)
<1>1. fold \in Folds(cs) /\ total \in Int
  <2>1. s.total \in Int /\ c.length \in Int
    BY SizeAssumption DEF States, Decoded, Int64
  <2> QED
    BY <2>1, WrapMeans DEF Folds, Int64
<1>2. next = IF passed
             THEN [s EXCEPT !.next = @ + 1, !.total = total, !.keys = @ \cup {fold}]
             ELSE [s EXCEPT !.ok = FALSE]
  BY DEF ValidateComponent, Passes
<1>3. passed => s.ok
  BY DEF Passes
<1> HIDE DEF fold, total, passed, next
<1>4. s.total \in Int /\ s.next \in Nat /\ s.ok \in BOOLEAN /\ s.keys \subseteq Folds(cs)
      /\ s = [ok |-> s.ok, next |-> s.next, total |-> s.total, keys |-> s.keys]
  BY DEF States
<1>5. CASE passed
  <2>1. next = [ok |-> TRUE, next |-> s.next + 1, total |-> total, keys |-> s.keys \cup {fold}]
    BY <1>2, <1>3, <1>4, <1>5
  <2> QED
    BY <1>1, <1>4, <1>5, <2>1 DEF States, fold, total, passed, next
<1>6. CASE ~passed
  <2>1. next = [ok |-> FALSE, next |-> s.next, total |-> s.total, keys |-> s.keys]
    BY <1>2, <1>4, <1>6
  <2> QED
    BY <1>1, <1>4, <1>6, <2>1 DEF States, fold, total, passed, next
<1> QED
  BY <1>5, <1>6

\* The loop goes from state to state.
LEMMA Behind ==
  ASSUME NEW cs, Decoded(cs)
  PROVE  LET behind == Validating(cs)
         IN /\ behind \in [0 .. Len(cs) -> States(cs)]
            /\ behind[0] = [ok |-> TRUE, next |-> 0, total |-> 0, keys |-> {}]
            /\ \A i \in 1 .. Len(cs) : behind[i] = ValidateComponent(behind[i - 1], cs[i])
<1> DEFINE n     == Len(cs)
           Fresh == [ok |-> TRUE, next |-> 0, total |-> 0, keys |-> {}]
           D     == States(cs)
           V(s, i) == ValidateComponent(s, cs[i])
           Is(f) == f = [i \in 0 .. n |-> IF i = 0 THEN Fresh ELSE V(f[i - 1], i)]
           step  == [i \in 1 .. n |-> [s \in D |-> V(s, i)]]
<1>1. n \in Nat /\ \A i \in 1 .. n : cs[i] \in ToSet(cs)
  BY DEF Decoded, ToSet
<1>2. Fresh \in D
  BY DEF States
<1>3. \A i \in 1 .. n, s \in D : V(s, i) \in D
  BY <1>1, ValidateStep
<1>4. Validating(cs) = CHOOSE f : Is(f)
  BY DEF Validating
<1> HIDE DEF n, Fresh, D, V
<1>5. step \in [1 .. n -> [D -> D]]
  BY <1>3
<1>6. PICK f \in [0 .. n -> D] : f[0] = Fresh /\ \A i \in 1 .. n : f[i] = step[i][f[i - 1]]
  <2> HIDE DEF step
  <2> QED
    BY <1>1, <1>2, <1>5, Recursion
<1>7. \A i \in 1 .. n : f[i] = V(f[i - 1], i)
  <2> TAKE i \in 1 .. n
  <2>1. i - 1 \in 0 .. n
    BY <1>1
  <2>2. f[i - 1] \in D
    BY <2>1
  <2> QED
    BY <1>6, <2>2
<1>8. Is(f)
  <2> DEFINE h == [i \in 0 .. n |-> IF i = 0 THEN Fresh ELSE V(f[i - 1], i)]
  <2>1. \A i \in 0 .. n : f[i] = h[i]
    BY <1>1, <1>6, <1>7
  <2>2. DOMAIN h = 0 .. n /\ h = [i \in DOMAIN h |-> h[i]] /\ f = [i \in 0 .. n |-> f[i]]
    OBVIOUS
  <2> HIDE DEF h
  <2>3. f = h
    BY <2>1, <2>2
  <2> QED
    BY <2>3 DEF h
<1> DEFINE g == CHOOSE x : Is(x)
<1>9. Is(g)
  <2> HIDE DEF Is
  <2> QED
    BY <1>8
<1> HIDE DEF g
<1>10. \A i \in 0 .. n : g[i] = IF i = 0 THEN Fresh ELSE V(g[i - 1], i)
  BY <1>9
<1>11. g[0] = Fresh /\ \A i \in 1 .. n : g[i] = V(g[i - 1], i)
  BY <1>1, <1>10
<1>12. g \in [0 .. n -> D]
  <2> DEFINE S == {i \in Nat : i <= n => g[i] \in D}
  <2>1. 0 \in S
    BY <1>2, <1>11
  <2>2. \A i \in Nat : i \in S => i + 1 \in S
    <3> TAKE i \in Nat
    <3>1. i + 1 <= n => i \in 0 .. n /\ i + 1 \in 1 .. n /\ (i + 1) - 1 = i
      BY <1>1
    <3> QED
      BY <1>3, <1>11, <3>1
  <2> HIDE DEF S
  <2>3. Nat \subseteq S
    BY <2>1, <2>2, Induction
  <2>4. \A i \in 0 .. n : g[i] \in D
    BY <1>1, <2>3 DEF S
  <2> QED
    BY <1>9, <2>4
<1> QED
  BY <1>4, <1>11, <1>12 DEF g, n, Fresh, D, V

\* The sums are integers, each one length more than the one before it.
LEMMA SumsMean ==
  ASSUME NEW cs, Decoded(cs)
  PROVE  LET sum == Sums(cs)
         IN /\ sum \in [0 .. Len(cs) -> Int] /\ sum[0] = 0
            /\ \A i \in 1 .. Len(cs) : sum[i] = sum[i - 1] + cs[i].length
<1> DEFINE n    == Len(cs)
           L(i) == cs[i].length
           Is(f) == f = [i \in 0 .. n |-> IF i = 0 THEN 0 ELSE f[i - 1] + L(i)]
           step == [i \in 1 .. n |-> [s \in Int |-> s + L(i)]]
<1>1. n \in Nat /\ \A i \in 1 .. n : L(i) \in Int
  BY SizeAssumption DEF Decoded, ToSet, Int64
<1>2. Sums(cs) = CHOOSE f : Is(f)
  BY DEF Sums
<1> HIDE DEF n, L
<1>3. step \in [1 .. n -> [Int -> Int]]
  BY <1>1
<1>4. PICK f \in [0 .. n -> Int] : f[0] = 0 /\ \A i \in 1 .. n : f[i] = step[i][f[i - 1]]
  <2> DEFINE D == Int
             first == 0
  <2>1. first \in D /\ n \in Nat /\ step \in [1 .. n -> [D -> D]]
    BY <1>1, <1>3
  <2> HIDE DEF step, D, first
  <2>2. \E f \in [0 .. n -> D] : f[0] = first /\ \A i \in 1 .. n : f[i] = step[i][f[i - 1]]
    BY <2>1, Recursion
  <2> QED
    BY <2>2 DEF D, first
<1>5. \A i \in 1 .. n : f[i] = f[i - 1] + L(i)
  <2> TAKE i \in 1 .. n
  <2>1. i - 1 \in 0 .. n
    BY <1>1
  <2>2. f[i - 1] \in Int
    BY <2>1
  <2> QED
    BY <1>4, <2>2
<1>6. Is(f)
  <2> DEFINE h == [i \in 0 .. n |-> IF i = 0 THEN 0 ELSE f[i - 1] + L(i)]
  <2>1. \A i \in 0 .. n : f[i] = h[i]
    BY <1>1, <1>4, <1>5
  <2>2. DOMAIN h = 0 .. n /\ h = [i \in DOMAIN h |-> h[i]] /\ f = [i \in 0 .. n |-> f[i]]
    OBVIOUS
  <2> HIDE DEF h
  <2>3. f = h
    BY <2>1, <2>2
  <2> QED
    BY <2>3 DEF h
<1> DEFINE g == CHOOSE x : Is(x)
<1>7. Is(g)
  <2> HIDE DEF Is
  <2> QED
    BY <1>6
<1> HIDE DEF g
<1>8. \A i \in 0 .. n : g[i] = IF i = 0 THEN 0 ELSE g[i - 1] + L(i)
  BY <1>7
<1>9. g[0] = 0 /\ \A i \in 1 .. n : g[i] = g[i - 1] + L(i)
  BY <1>1, <1>8
<1>10. g \in [0 .. n -> Int]
  <2> DEFINE S == {i \in Nat : i <= n => g[i] \in Int}
  <2>1. 0 \in S
    BY <1>9
  <2>2. \A i \in Nat : i \in S => i + 1 \in S
    <3> TAKE i \in Nat
    <3>1. i + 1 <= n => i \in 0 .. n /\ i + 1 \in 1 .. n /\ (i + 1) - 1 = i
      BY <1>1
    <3> QED
      BY <1>1, <1>9, <3>1
  <2> HIDE DEF S
  <2>3. Nat \subseteq S
    BY <2>1, <2>2, Induction
  <2>4. \A i \in 0 .. n : g[i] \in Int
    BY <1>1, <2>3 DEF S
  <2> QED
    BY <1>7, <2>4
<1> QED
  BY <1>2, <1>9, <1>10 DEF g, n, L

\* Two keys are one file when they are folded to the same.
LEMMA FoldMeans ==
  ASSUME NEW k \in Seq(KeyPart), NEW l \in Seq(KeyPart)
  PROVE  SameFile(k, l) <=> PortableFold(k) = PortableFold(l)
<1> DEFINE f == PortableFold(k)
           g == PortableFold(l)
<1>1. /\ DOMAIN f = 1 .. Len(k) /\ \A i \in 1 .. Len(k) : f[i] = <<k[i].base, k[i].ending>>
      /\ DOMAIN g = 1 .. Len(l) /\ \A i \in 1 .. Len(l) : g[i] = <<l[i].base, l[i].ending>>
      /\ f = [i \in DOMAIN f |-> f[i]] /\ g = [i \in DOMAIN g |-> g[i]]
      /\ Len(k) \in Nat /\ Len(l) \in Nat /\ DOMAIN k = 1 .. Len(k)
  BY DEF PortableFold
<1> HIDE DEF f, g
<1>2. ASSUME SameFile(k, l) PROVE f = g
  <2>1. Len(k) = Len(l) /\ \A i \in 1 .. Len(k) : k[i].base = l[i].base /\ k[i].ending = l[i].ending
    BY <1>1, <1>2 DEF SameFile
  <2>2. DOMAIN f = DOMAIN g /\ \A i \in DOMAIN f : f[i] = g[i]
    <3>1. DOMAIN f = 1 .. Len(k) /\ DOMAIN g = 1 .. Len(k)
      BY <1>1, <2>1
    <3>2. \A i \in 1 .. Len(k) : f[i] = <<k[i].base, k[i].ending>> /\ g[i] = <<l[i].base, l[i].ending>>
      BY <1>1, <2>1
    <3> QED
      BY <2>1, <3>1, <3>2
  <2>3. f = [i \in DOMAIN f |-> f[i]] /\ g = [i \in DOMAIN g |-> g[i]]
    BY <1>1
  <2> QED
    BY <2>2, <2>3
<1>3. ASSUME f = g PROVE SameFile(k, l)
  <2>1. 1 .. Len(k) = 1 .. Len(l)
    BY <1>1, <1>3
  <2>2. Len(k) = Len(l)
    BY <1>1, <2>1
  <2>3. \A i \in DOMAIN k : k[i].base = l[i].base /\ k[i].ending = l[i].ending
    BY <1>1, <1>3, <2>2
  <2> QED
    BY <2>2, <2>3 DEF SameFile
<1> QED
  BY <1>2, <1>3 DEF f, g

\* A component that fits in its place, whatever its length.
Fine(cs, i) ==
  /\ cs[i].id = i - 1 /\ cs[i].length >= 0 /\ ValidKey(cs[i].key)
  /\ cs[i].scope = "ok" /\ cs[i].status \in {"complete", "incomplete"} /\ cs[i].sha256 = "ok"
  /\ \A j \in 1 .. i - 1 : ~SameFile(cs[i].key, cs[j].key)

\* What the loop knows behind the first i components: the sum it has formed is exact.
Knows(cs, i) ==
  LET s == Validating(cs)[i]
  IN /\ s.ok <=> \A j \in 1 .. i : Fine(cs, j) /\ Sums(cs)[j] <= MaxTotalBytes
     /\ s.ok => /\ s.next = i /\ s.total = Sums(cs)[i] /\ s.total \in 0 .. MaxTotalBytes
                /\ s.keys = {PortableFold(cs[j].key) : j \in 1 .. i}

\* Every component keeps what is known.
LEMMA StepKnows ==
  ASSUME NEW cs, Decoded(cs), NEW i \in 1 .. Len(cs), Knows(cs, i - 1)
  PROVE  Knows(cs, i)
<1> DEFINE s == Validating(cs)[i - 1]
           t == Validating(cs)[i]
           c == cs[i]
           l == c.length
           fold == PortableFold(c.key)
           sum  == Sums(cs)[i]
           sums == Sums(cs)
           before == \A j \in 1 .. i - 1 : Fine(cs, j) /\ sums[j] <= MaxTotalBytes
<1>1. /\ Len(cs) \in Nat /\ i - 1 \in 0 .. Len(cs) /\ i \in Nat /\ c \in ToSet(cs)
      /\ l \in Int64 /\ l \in Int
      /\ \A j \in 1 .. i : cs[j].key \in Seq(KeyPart)
  BY SizeAssumption DEF Decoded, ToSet, Int64
<1>2. s \in States(cs) /\ t = ValidateComponent(s, c)
  BY <1>1, Behind
<1>3. /\ t.ok <=> Passes(s, c)
      /\ Passes(s, c) => /\ t.next = s.next + 1 /\ t.total = Wrap(s.total + l)
                         /\ t.keys = s.keys \cup {fold}
  BY <1>1, <1>2, ValidateStep
<1>4. /\ s.ok <=> before
      /\ s.ok => /\ s.next = i - 1 /\ s.total = sums[i - 1] /\ s.total \in 0 .. MaxTotalBytes
                 /\ s.keys = {PortableFold(cs[j].key) : j \in 1 .. i - 1}
  BY DEF Knows
<1>5. sum = sums[i - 1] + l /\ sums[i - 1] \in Int
  BY <1>1, SumsMean
<1>6. ASSUME s.ok PROVE Fits(l, s.total) <=> sum <= MaxTotalBytes
  <2>1. MaxTotalBytes - s.total \in Int64
    <3>1. s.total \in 0 .. MaxTotalBytes
      BY <1>4, <1>6
    <3> HIDE DEF s
    <3> QED
      BY <3>1, SizeAssumption DEF Int64
  <2>2. Wrap(MaxTotalBytes - s.total) = MaxTotalBytes - s.total
    BY <2>1, WrapMeans
  <2> QED
    BY <1>1, <1>4, <1>5, <1>6, <2>2, SizeAssumption DEF Fits
<1>7. ASSUME s.ok PROVE fold \notin s.keys <=> \A j \in 1 .. i - 1 : ~SameFile(c.key, cs[j].key)
  <2>1. \A j \in 1 .. i - 1 : SameFile(c.key, cs[j].key) <=> fold = PortableFold(cs[j].key)
    BY <1>1, FoldMeans
  <2> QED
    BY <1>4, <1>7, <2>1
<1>8. Passes(s, c) <=> before /\ Fine(cs, i) /\ sum <= MaxTotalBytes
  BY <1>4, <1>6, <1>7 DEF Passes, Fine
<1>9. t.ok <=> \A j \in 1 .. i : Fine(cs, j) /\ sums[j] <= MaxTotalBytes
  <2>1. 1 .. i = (1 .. i - 1) \cup {i}
    BY <1>1
  <2> QED
    BY <1>3, <1>8, <2>1
<1>10. ASSUME t.ok
       PROVE  /\ t.next = i /\ t.total = sum /\ t.total \in 0 .. MaxTotalBytes
              /\ t.keys = {PortableFold(cs[j].key) : j \in 1 .. i}
  <2>1. Passes(s, c) /\ s.ok /\ Fine(cs, i) /\ sum <= MaxTotalBytes
    BY <1>3, <1>8, <1>10 DEF Passes
  <2>2. sum \in 0 .. MaxTotalBytes
    BY <1>1, <1>4, <1>5, <2>1, SizeAssumption DEF Fine
  <2>3. Wrap(sum) = sum
    BY <2>2, WrapMeans, SizeAssumption DEF Int64
  <2>4. t.keys = {PortableFold(cs[j].key) : j \in 1 .. i}
    <3>1. 1 .. i = (1 .. i - 1) \cup {i}
      BY <1>1
    <3> QED
      BY <1>3, <1>4, <2>1, <3>1
  <2> QED
    BY <1>1, <1>3, <1>4, <1>5, <2>1, <2>2, <2>3, <2>4
<1> QED
  BY <1>9, <1>10 DEF Knows

\* It knows so behind every component.
LEMMA KnowsAll ==
  ASSUME NEW cs, Decoded(cs)
  PROVE  \A i \in 0 .. Len(cs) : Knows(cs, i)
<1> DEFINE n == Len(cs)
           S == {i \in Nat : i <= n => Knows(cs, i)}
<1>1. n \in Nat
  BY DEF Decoded
<1>2. Knows(cs, 0)
  <2>1. /\ Validating(cs)[0] = [ok |-> TRUE, next |-> 0, total |-> 0, keys |-> {}]
        /\ Sums(cs)[0] = 0
    BY Behind, SumsMean
  <2> QED
    BY <2>1, SizeAssumption DEF Knows
<1>3. \A i \in Nat : i \in S => i + 1 \in S
  <2> TAKE i \in Nat
  <2> HAVE i \in S
  <2>1. i + 1 <= n => i + 1 \in 1 .. n /\ (i + 1) - 1 = i /\ i <= n
    BY <1>1
  <2>2. i + 1 <= n => Knows(cs, i + 1)
    BY <2>1, StepKnows
  <2> QED
    BY <2>2
<1>4. 0 \in S
  BY <1>2
<1> HIDE DEF S
<1>5. Nat \subseteq S
  BY <1>3, <1>4, Induction
<1> QED
  BY <1>1, <1>5 DEF S

\* As long as no length is negative, the last sum is the largest.
LEMMA SumsGrow ==
  ASSUME NEW cs, Decoded(cs), \A i \in 1 .. Len(cs) : cs[i].length >= 0
  PROVE  \A i \in 0 .. Len(cs) : Sums(cs)[i] <= Sums(cs)[Len(cs)]
<1> DEFINE n == Len(cs)
           sum == Sums(cs)
           S == {d \in Nat : d <= n => sum[n - d] <= sum[n]}
<1>1. n \in Nat /\ \A i \in 1 .. n : cs[i].length \in Int /\ cs[i].length >= 0
  BY SizeAssumption DEF Decoded, ToSet, Int64
<1>2. /\ \A i \in 0 .. n : sum[i] \in Int
      /\ \A i \in 1 .. n : sum[i] = sum[i - 1] + cs[i].length
  BY SumsMean
<1> HIDE DEF n, sum
<1>3. \A i \in 1 .. n : sum[i - 1] <= sum[i]
  <2> TAKE i \in 1 .. n
  <2>1. i - 1 \in 0 .. n
    BY <1>1
  <2> QED
    BY <1>1, <1>2, <2>1
<1>4. 0 \in S
  BY <1>1, <1>2
<1>5. \A d \in Nat : d \in S => d + 1 \in S
  <2> TAKE d \in Nat
  <2> HAVE d \in S
  <2>1. ASSUME d + 1 <= n PROVE sum[n - (d + 1)] <= sum[n]
    <3>1. n - d \in 1 .. n /\ (n - d) - 1 = n - (d + 1) /\ n - (d + 1) \in 0 .. n /\ n \in 0 .. n
      BY <1>1, <2>1
    <3>2. sum[n - (d + 1)] <= sum[n - d] /\ sum[n - d] <= sum[n]
      BY <1>1, <1>3, <2>1, <3>1
    <3> QED
      BY <1>2, <3>1, <3>2
  <2> QED
    BY <2>1
<1> HIDE DEF S
<1>6. Nat \subseteq S
  BY <1>4, <1>5, Induction
<1>7. \A i \in 0 .. n : n - i \in Nat /\ n - i <= n /\ n - (n - i) = i
  BY <1>1
<1> QED
  BY <1>6, <1>7 DEF S, n, sum

\* The loop ends well exactly on the usable components.
LEMMA LoopAcceptsTheUsable ==
  ASSUME NEW cs, Decoded(cs)
  PROVE  UsableComponents(cs) <=>
           cs # <<>> /\ Len(cs) <= MaxComponents /\ Validating(cs)[Len(cs)].ok
<1> DEFINE n == Len(cs)
           fine == \A i \in 1 .. n : Fine(cs, i)
           end == Sums(cs)[n] <= MaxTotalBytes
           small == \A i \in 1 .. n : Sums(cs)[i] <= MaxTotalBytes
<1>1. n \in Nat /\ DOMAIN cs = 1 .. n /\ (cs # <<>> => n \in 1 .. n)
  BY DEF Decoded
<1>2. UsableComponents(cs) <=> cs # <<>> /\ n <= MaxComponents /\ end /\ fine
  BY <1>1 DEF UsableComponents, Fine
<1>3. Validating(cs)[n].ok <=> fine /\ small
  <2>1. Knows(cs, n)
    BY <1>1, KnowsAll
  <2> QED
    BY <2>1 DEF Knows
<1>4. cs # <<>> /\ small => end
  BY <1>1
<1>5. fine /\ end => small
  <2> SUFFICES ASSUME fine, end, NEW i \in 1 .. n PROVE Sums(cs)[i] <= MaxTotalBytes
    OBVIOUS
  <2>1. \A j \in 1 .. n : cs[j].length >= 0
    BY DEF Fine
  <2>2. i \in 0 .. n /\ n \in 0 .. n
    BY <1>1
  <2>3. Sums(cs)[i] <= Sums(cs)[n] /\ Sums(cs)[i] \in Int /\ Sums(cs)[n] \in Int
    BY <2>1, <2>2, SumsGrow, SumsMean
  <2> QED
    BY <2>3, SizeAssumption
<1> HIDE DEF n, fine, end, small
<1> QED
  BY <1>2, <1>3, <1>4, <1>5 DEF n

-----------------------------------------------------------------------------
\* An object of the format is well formed exactly if it can be read in one way only.
LEMMA WellFormedMeans ==
  ASSUME NEW S, NEW object \in Seq(S), NEW names
  PROVE  WellFormed(object, names) <=> Unambiguous(object, names)
<1> DEFINE name == [i \in DOMAIN object |-> object[i].name]
           At(n) == {i \in DOMAIN object : object[i].name = n}
<1>1. \A n : IsFiniteSet(At(n))
  <2>1. IsFiniteSet(1 .. Len(object)) /\ DOMAIN object = 1 .. Len(object)
    BY FS_Interval
  <2> QED
    BY <2>1, FS_Subset
<1>2. \A n : Cardinality(At(n)) = 1 <=> \E i : At(n) = {i}
  BY <1>1, FS_Singleton
<1>3. ASSUME WellFormed(object, names) PROVE Unambiguous(object, names)
  <2>1. ASSUME NEW n \in names PROVE \E i : At(n) = {i}
    <3>1. PICK i \in DOMAIN object : object[i].name = n
      BY <1>3 DEF WellFormed
    <3>2. \A j \in DOMAIN object : object[j].name = n => j = i
      BY <1>3, <3>1 DEF WellFormed, IsInjective
    <3> QED
      BY <3>1, <3>2
  <2> QED
    BY <1>2, <1>3, <2>1 DEF Unambiguous, WellFormed
<1>4. ASSUME Unambiguous(object, names) PROVE WellFormed(object, names)
  <2>1. \A n \in names : \E i : At(n) = {i}
    BY <1>2, <1>4 DEF Unambiguous
  <2>2. \A i \in DOMAIN object : object[i].name \in names /\ ~object[i].bad
    BY <1>4 DEF Unambiguous
  <2>3. IsInjective(name)
    <3> SUFFICES ASSUME NEW i \in DOMAIN object, NEW j \in DOMAIN object,
                        object[i].name = object[j].name
                 PROVE  i = j
      BY DEF IsInjective
    <3>1. i \in At(object[i].name) /\ j \in At(object[i].name)
      OBVIOUS
    <3> QED
      BY <2>1, <2>2, <3>1
  <2>4. {object[i].name : i \in DOMAIN object} = names
    BY <2>1, <2>2
  <2> QED
    BY <2>2, <2>3, <2>4 DEF WellFormed
<1> QED
  BY <1>3, <1>4

\* What the decoder yields of a document: sequences of members; of a whole component, a
\* length that is an integer of the machine, and a key that is a sequence of parts.
Document(document) ==
  LET objects == Value(document, "components")
  IN /\ document \in Seq(ToSet(document))
     /\ WellFormed(document, ManifestNames) =>
          /\ objects \in Seq(ToSet(objects))
          /\ \A o \in ToSet(objects) :
               /\ o \in Seq(ToSet(o))
               /\ WellFormed(o, ComponentNames) =>
                    Value(o, "length") \in Int64 /\ Value(o, "key") \in Seq(KeyPart)

\* The components of a document can be decoded if every one of them is well formed.
LEMMA ComponentsDecoded ==
  ASSUME NEW objects, objects \in Seq(ToSet(objects)),
         \A o \in ToSet(objects) : Value(o, "length") \in Int64 /\ Value(o, "key") \in Seq(KeyPart)
  PROVE  Decoded([i \in DOMAIN objects |-> ParseComponent(objects[i])])
<1> DEFINE cs == [i \in DOMAIN objects |-> ParseComponent(objects[i])]
           n == Len(objects)
<1>1. n \in Nat /\ DOMAIN objects = 1 .. n
  OBVIOUS
<1>2. DOMAIN cs = 1 .. n /\ \A i \in 1 .. n : cs[i] = ParseComponent(objects[i])
  BY <1>1
<1>3. cs = [i \in 1 .. n |-> cs[i]]
  BY <1>1
<1> HIDE DEF cs, n
<1>4. cs \in Seq(ToSet(cs))
  <2> DEFINE S == ToSet(cs)
  <2>1. \A i \in 1 .. n : cs[i] \in S
    BY <1>2 DEF ToSet
  <2> HIDE DEF S
  <2>2. cs \in [1 .. n -> S]
    BY <1>3, <2>1
  <2> QED
    BY <1>1, <2>2 DEF S
<1>5. ASSUME NEW i \in 1 .. n PROVE cs[i].length \in Int64 /\ cs[i].key \in Seq(KeyPart)
  <2>1. objects[i] \in ToSet(objects)
    BY <1>1 DEF ToSet
  <2>2. /\ ParseComponent(objects[i]).length = Value(objects[i], "length")
        /\ ParseComponent(objects[i]).key = Value(objects[i], "key")
    BY DEF ParseComponent, ComponentNames
  <2> QED
    BY <1>2, <2>1, <2>2
<1> QED
  BY <1>2, <1>4, <1>5 DEF Decoded, ToSet, cs

\* Every such document is accepted if it can be used, and only then.
LEMMA DocumentIsJudged ==
  ASSUME NEW document, Document(document)
  PROVE  AcceptsTheUsable(document)
<1> DEFINE objects == Value(document, "components")
           cs == [i \in DOMAIN objects |-> ParseComponent(objects[i])]
           whole == \A o \in ToSet(objects) : WellFormed(o, ComponentNames)
           usable == /\ Value(document, "format") = "sparc-archive" /\ Value(document, "version") = 1
                     /\ UsableComponents(cs)
<1>1. WellFormed(document, ManifestNames) <=> Unambiguous(document, ManifestNames)
  BY WellFormedMeans DEF Document
<1>2. CASE ~WellFormed(document, ManifestNames)
  BY <1>1, <1>2 DEF AcceptsTheUsable, ParseManifest, Parse
<1>3. CASE WellFormed(document, ManifestNames)
  <2>1. whole <=> \A o \in ToSet(objects) : Unambiguous(o, ComponentNames)
    BY <1>3, WellFormedMeans DEF Document
  <2>2. CASE ~whole
    BY <1>3, <2>1, <2>2 DEF AcceptsTheUsable, ParseManifest, Parse
  <2>3. CASE whole
    <3> DEFINE m == [format |-> Value(document, "format"), version |-> Value(document, "version"),
                     components |-> cs]
    <3>1. Parse(document) = <<m>>
      BY <1>3, <2>3 DEF Parse
    <3>2. Decoded(cs)
      BY <1>3, <2>3, ComponentsDecoded DEF Document
    <3> HIDE DEF cs
    <3>3. Validate(m) <=> usable
      BY <3>2, LoopAcceptsTheUsable DEF Validate
    <3>4. ParseManifest(document) # <<>> <=> Validate(m)
      <4> HIDE DEF m
      <4>1. <<m>> # <<>> /\ <<m>>[1] = m
        OBVIOUS
      <4> QED
        BY <3>1, <4>1 DEF ParseManifest
    <3> QED
      BY <1>1, <1>3, <2>1, <2>3, <3>3, <3>4 DEF AcceptsTheUsable, cs
  <2> QED
    BY <2>2, <2>3
<1> QED
  BY <1>2, <1>3

\* ParseManifest accepts exactly the usable manifests: of any number of components, for
\* any limits and any width of the integers.  Each sum of lengths the loop compares is
\* the exact one: it cannot overflow, since the length is compared with what is left
\* (manifest.go:44-102).
THEOREM UsableAccepted ==
  ASSUME algorithm = "manifest" => Document(input)
  PROVE  ManifestIsUsable
  BY DocumentIsJudged DEF ManifestIsUsable

-----------------------------------------------------------------------------
(* The summary of a report.                                                *)

\* A component of a report.
ReportPart ==
  [support : Report!Supports, observation : Report!Observations,
   permission : Report!Permissions, capture : Report!Captures,
   integrity : Report!Integrities, recovery : Report!Recoveries,
   restore : Report!Restores, behavior : Report!Behaviors,
   reason : Report!Reasons, manual : BOOLEAN]

\* The components, and those among them that are not reliably absent.
Parts(report) == {report[i] : i \in DOMAIN report}
Present(report) == {c \in Parts(report) : ~Report!ReliablyAbsent(c)}

\* What the summary of a report stands for.
LEMMA SummaryMeans ==
  ASSUME NEW report \in Seq(ReportPart), report # <<>>
  PROVE  LET summary == Report!ExpectedSummary(report)
             complete == \A c \in Parts(report) : Report!ComponentCoverageComplete(c)
             failed == \E c \in Parts(report) : Report!ComponentFailed(c)
         IN /\ summary.coverage = "complete" <=> complete
            /\ summary.restore = "failed" <=> failed
            /\ summary.restore = "not_run" <=>
                 ~failed /\ complete /\ \A c \in Present(report) : c.restore = "not_attempted"
            /\ summary.restore = "success" <=>
                 /\ ~failed /\ complete /\ \E c \in Present(report) : c.restore # "not_attempted"
                 /\ \A c \in Present(report) : c.restore = "restored" /\ c.behavior = "passed"
  BY DEF Report!ExpectedSummary, Report!RestoreOutcome, Report!ToSet, Parts, Present

\* A component whose coverage is complete does not block before its restore.
LEMMA CompleteIsClear ==
  ASSUME NEW c \in ReportPart, Report!ComponentCoverageComplete(c), ~Report!ReliablyAbsent(c)
  PROVE  /\ ~Report!ComponentBlocking([c EXCEPT !.restore = "not_attempted",
                                                   !.behavior = "not_checked"])
         /\ c.restore = "restored" /\ c.behavior = "passed" => ~Report!ComponentBlocking(c)
  BY DEF ReportPart, Report!ComponentCoverageComplete, Report!ComponentBlocking, Report!Captures,
         Report!Observations, Report!Permissions, Report!Integrities, Report!Recoveries,
         Report!Restores, Report!Behaviors

\* ... and gives no reason for leaving anything out.
LEMMA CompleteHasNoReason ==
  ASSUME NEW c \in ReportPart, Report!ComponentCoverageComplete(c), ~Report!ReliablyAbsent(c),
         Report!ValidComponent(c), c.restore = "restored", c.behavior = "passed"
  PROVE  c.reason = ""
  BY DEF Report!ComponentCoverageComplete, Report!ValidComponent, Report!HasNotUsed

\* One component less: the same components, or fewer, and at least one.
LEMMA Fewer ==
  ASSUME NEW report \in Seq(ReportPart), Len(report) > 1
  PROVE  /\ Report!Front(report) \in Seq(ReportPart)
         /\ Report!Front(report) # <<>>
         /\ Parts(Report!Front(report)) \subseteq Parts(report)
         /\ Present(Report!Front(report)) \subseteq Present(report)
  BY DEF Report!Front, Parts, Present

\* No report of any length hides anything.
LEMMA NothingHidden ==
  ASSUME NEW report \in Seq(ReportPart)
  PROVE  Report!ReportHidesNothing(report)
<1> DEFINE summary == Report!ExpectedSummary(report)
           front   == Report!Front(report)
           fewer   == Report!ExpectedSummary(front)
           Before(c) == [c EXCEPT !.restore = "not_attempted", !.behavior = "not_checked"]
<1> SUFFICES ASSUME Report!ValidReport(report)
             PROVE  /\ summary.coverage = "complete" =>
                         \A c \in Present(report) : ~Report!ComponentBlocking(Before(c))
                    /\ summary.restore = "success" =>
                         /\ Present(report) # {}
                         /\ \A c \in Present(report) :
                              /\ ~Report!ComponentBlocking(c) /\ c.reason = ""
                              /\ c.restore = "restored" /\ c.behavior = "passed"
                    /\ summary.restore = "not_run" =>
                         \A c \in Present(report) : c.restore = "not_attempted"
                    /\ Len(report) > 1 =>
                         /\ summary.coverage = "complete" => fewer.coverage = "complete"
                         /\ summary.restore = "success" => fewer.restore \in {"success", "not_run"}
                         /\ fewer.restore = "failed" => summary.restore = "failed"
  BY DEF Report!ReportHidesNothing, Report!ToSet, Present, Parts
<1>1. report # <<>> /\ \A c \in Parts(report) : c \in ReportPart /\ Report!ValidComponent(c)
  BY DEF Report!ValidReport, Report!ToSet, Parts
<1>2. summary.coverage = "complete" =>
        \A c \in Present(report) : ~Report!ComponentBlocking(Before(c))
  BY <1>1, SummaryMeans, CompleteIsClear DEF Present
<1>3. ASSUME summary.restore = "success"
      PROVE  /\ Present(report) # {}
             /\ \A c \in Present(report) :
                  /\ ~Report!ComponentBlocking(c) /\ c.reason = ""
                  /\ c.restore = "restored" /\ c.behavior = "passed"
  BY <1>1, <1>3, SummaryMeans, CompleteIsClear, CompleteHasNoReason DEF Present
<1>4. summary.restore = "not_run" => \A c \in Present(report) : c.restore = "not_attempted"
  BY <1>1, SummaryMeans
<1>5. ASSUME Len(report) > 1
      PROVE  /\ summary.coverage = "complete" => fewer.coverage = "complete"
             /\ summary.restore = "success" => fewer.restore \in {"success", "not_run"}
             /\ fewer.restore = "failed" => summary.restore = "failed"
  <2>1. /\ front \in Seq(ReportPart) /\ front # <<>>
        /\ Parts(front) \subseteq Parts(report) /\ Present(front) \subseteq Present(report)
    BY <1>5, Fewer
  <2> HIDE DEF front, summary, fewer
  <2> QED
    BY <1>1, <2>1, SummaryMeans DEF summary, fewer
<1> QED
  BY <1>2, <1>3, <1>4, <1>5

\* No summary of a valid report of any length hides a gap: complete coverage and success
\* are claimed only if no component that is there blocks them, a report that says nothing
\* was run touched nothing, and one more component never mends a summary
\* (report.go:139-141).
THEOREM ReportHonest ==
  ASSUME algorithm = "report" => input \in Seq(ReportPart)
  PROVE  ReportIsHonest
  BY NothingHidden DEF ReportIsHonest

\* The reports that are built step by step are such reports, so that what the run checks
\* is an instance of the above.
THEOREM BuiltReportsHonest == InputSpec => []ReportIsHonest
<1> DEFINE Built == algorithm = "report" => input \in Seq(ReportPart)
<1>1. InputInit => Built
  BY DEF InputInit
<1>2. ASSUME Built, [InputNext]_inputVars PROVE Built'
  <2>1. Components \subseteq ReportPart /\ Beside \subseteq ReportPart
    <3>1. Good \in ReportPart /\ Absent \in ReportPart
      BY DEF ReportPart, Good, Absent, Report!Supports, Report!Observations, Report!Permissions,
             Report!Captures, Report!Integrities, Report!Recoveries, Report!Restores,
             Report!Behaviors, Report!Reasons
    <3>2. Components \subseteq ReportPart
      BY DEF Components, ReportPart, Report!Captures, Report!Integrities, Report!Recoveries,
             Report!Restores
    <3>3. \A c \in ReportPart, w \in Report!Reasons :
            [c EXCEPT !.support = "excluded", !.reason = w] \in ReportPart
      BY DEF ReportPart, Report!Supports
    <3>4. \A c \in ReportPart :
            /\ [c EXCEPT !.restore = "not_attempted", !.behavior = "not_checked"] \in ReportPart
            /\ [c EXCEPT !.behavior = "sampled"] \in ReportPart
            /\ [c EXCEPT !.restore = "failed", !.behavior = "not_checked"] \in ReportPart
            /\ [c EXCEPT !.capture = "partially_captured"] \in ReportPart
      BY DEF ReportPart, Report!Captures, Report!Restores, Report!Behaviors
    <3>5. "outside_declared_scope" \in Report!Reasons
      BY Zenon DEF Report!Reasons
    <3>6. Beside \subseteq ReportPart
      <4>1. [Absent EXCEPT !.support = "excluded", !.reason = "outside_declared_scope"]
              \in ReportPart
        BY <3>1, <3>3, <3>5, Zenon
      <4>2. /\ [Good EXCEPT !.restore = "not_attempted", !.behavior = "not_checked"] \in ReportPart
            /\ [Good EXCEPT !.behavior = "sampled"] \in ReportPart
            /\ [Good EXCEPT !.restore = "failed", !.behavior = "not_checked"] \in ReportPart
            /\ [Good EXCEPT !.capture = "partially_captured"] \in ReportPart
        BY <3>1, <3>4, Zenon
      <4> QED
        BY <3>1, <4>1, <4>2, Zenon DEF Beside
    <3> QED
      BY <3>2, <3>6
  <2>2. CASE FirstComponent
    BY <2>1, <2>2 DEF FirstComponent
  <2>3. CASE SecondComponent
    <3>1. \A c \in ReportPart : input \in Seq(ReportPart) =>
            /\ Append(input, c) \in Seq(ReportPart)
            /\ <<c>> \o input \in Seq(ReportPart)
      OBVIOUS
    <3> QED
      BY <1>2, <2>1, <2>3, <3>1, Zenon DEF SecondComponent, InputNext, inputVars
  <2>4. CASE UNCHANGED inputVars
    BY <1>2, <2>4 DEF inputVars
  <2> QED
    BY <1>2, <2>2, <2>3, <2>4 DEF InputNext, Texts, Restores, Lists, Reports, Manifests
<1>3. Built => ReportIsHonest
  BY ReportHonest
<1> QED
  BY <1>1, <1>2, <1>3, PTL DEF InputSpec

-----------------------------------------------------------------------------
(* The selection from the list of an archive.                              *)

\* Words: strings, among them those the code knows (literals, named for the provers).
Word  == STRING \cup {"-"} \cup {x[2] : x \in Toc!ExcludedTableData}
           \cup UNION {{t[i] : i \in DOMAIN t} : t \in Toc!Types}
Words == Seq(Word)

\* What pg_dump writes of an object: a schema has no schema of its own.
Objects == [type : Words \ {<<>>}, schema : Words, name : Words \ {<<>>}, owner : Words \ {<<>>}]

\* The entries the code reads from the list of an archive.
Entries(objects) == [i \in DOMAIN objects |-> Toc!ParseEntry(Toc!Shown(objects[i]))]

\* No description that stands before the schema of an object can be read on into it;
\* a type the code does not know may begin like one it knows, if what follows is no
\* schema.
Legible(o, names) ==
  \A t \in Toc!Types :
    Toc!IsPrefix(t, Toc!Shown(o)) =>
      IF o.type \in Toc!Types THEN Len(t) <= Len(o.type)
      ELSE \/ t \in Toc!UnsupportedTypes
           \/ t # Toc!Schema /\ ~Toc!KnownSchema(Toc!Shown(o)[Len(t) + 1], names)

\* A whole archive of such objects.
LegibleArchive(objects) ==
  /\ objects \in Seq(Objects)
  /\ Toc!WholeArchive(objects)
  /\ \A i \in DOMAIN objects :
       /\ objects[i].type = Toc!Schema => objects[i].schema = <<>>
       /\ Legible(objects[i], Toc!SchemaNames(Entries(objects)))

-----------------------------------------------------------------------------
\* Every description is a sequence of one to three words.
LEMMA TypeShape == \A t \in Toc!Types : t \in Words /\ Len(t) \in 1 .. 3
<1>1. ASSUME NEW t \in Toc!Types
      PROVE  \/ \E a : t = <<a>>
             \/ \E a, b : t = <<a, b>>
             \/ \E a, b, c : t = <<a, b, c>>
  <2>1. CASE t \in Toc!DataTypes
    BY <2>1 DEF Toc!DataTypes
  <2>2. CASE t \in Toc!UnsupportedTypes
    BY <2>2 DEF Toc!UnsupportedTypes
  <2>3. CASE t \in Toc!DdlTypes
    BY <2>3 DEF Toc!DdlTypes
  <2> QED
    BY <2>1, <2>2, <2>3 DEF Toc!Types
<1>2. ASSUME NEW t \in Toc!Types, NEW i \in DOMAIN t PROVE t[i] \in Word
  BY DEF Word
<1>3. ASSUME NEW a, NEW b, NEW c
      PROVE  /\ a \in Word => <<a>> \in Seq(Word)
             /\ a \in Word /\ b \in Word => <<a, b>> \in Seq(Word)
             /\ a \in Word /\ b \in Word /\ c \in Word => <<a, b, c>> \in Seq(Word)
  OBVIOUS
<1> QED
  <2> TAKE t \in Toc!Types
  <2>1. CASE \E a : t = <<a>>
    <3> PICK a : t = <<a>>
      BY <2>1
    <3>1. 1 \in DOMAIN t /\ t[1] = a /\ Len(t) = 1
      OBVIOUS
    <3> QED
      BY <1>2, <1>3, <3>1 DEF Words
  <2>2. CASE \E a, b : t = <<a, b>>
    <3> PICK a, b : t = <<a, b>>
      BY <2>2
    <3>1. {1, 2} \subseteq DOMAIN t /\ t[1] = a /\ t[2] = b /\ Len(t) = 2
      OBVIOUS
    <3> QED
      BY <1>2, <1>3, <3>1 DEF Words
  <2>3. CASE \E a, b, c : t = <<a, b, c>>
    <3> PICK a, b, c : t = <<a, b, c>>
      BY <2>3
    <3>1. {1, 2, 3} \subseteq DOMAIN t /\ t[1] = a /\ t[2] = b /\ t[3] = c /\ Len(t) = 3
      OBVIOUS
    <3> QED
      BY <1>2, <1>3, <3>1 DEF Words
  <2> QED
    BY <1>1, <2>1, <2>2, <2>3

\* The lists of types do not overlap.
LEMMA TypesDiffer ==
  /\ Toc!DdlTypes \cap Toc!DataTypes = {} /\ Toc!DdlTypes \cap Toc!UnsupportedTypes = {}
  /\ Toc!DataTypes \cap Toc!UnsupportedTypes = {} /\ Toc!Schema \in Toc!DdlTypes
  BY DEF Toc!Types, Toc!DataTypes, Toc!UnsupportedTypes, Toc!DdlTypes, Toc!Schema

\* What an entry holds.
LEMMA EntryFields ==
  /\ Toc!Refused.error
  /\ \A t, n, g : /\ Toc!Entry(t, n, g).type = t
                  /\ Toc!Entry(t, n, g).namespace = n
                  /\ Toc!Entry(t, n, g).tag = g
  BY DEF Toc!Refused, Toc!Entry

\* A prefix is the beginning, word by word.
LEMMA PrefixMeans ==
  ASSUME NEW s \in Words, NEW t \in Words
  PROVE  Toc!IsPrefix(t, s) <=> Len(t) <= Len(s) /\ \A i \in 1 .. Len(t) : t[i] = s[i]
<1> DEFINE head == SubSeq(s, 1, Len(t))
<1>1. SubSeq(t, 1, Len(t)) = t
  BY DEF Words
<1>2. ASSUME Len(t) <= Len(s)
      PROVE  /\ head \in Words /\ Len(head) = Len(t)
             /\ \A i \in 1 .. Len(t) : head[i] = s[i]
  BY <1>2 DEF Words
<1>3. ASSUME Len(t) <= Len(s), \A i \in 1 .. Len(t) : t[i] = s[i] PROVE t = head
  <2> HIDE DEF head
  <2> QED BY <1>2, <1>3 DEF Words
<1> QED
  BY <1>1, <1>2, <1>3 DEF Toc!IsPrefix

\* A prefix of one word is the first word.
LEMMA PrefixOfOne ==
  ASSUME NEW s \in Words, NEW t \in Words, Len(t) = 1, Len(s) >= 1
  PROVE  Toc!IsPrefix(t, s) <=> t[1] = s[1]
<1>1. 1 .. Len(t) = {1} /\ Len(t) <= Len(s)
  OBVIOUS
<1> QED
  BY <1>1, PrefixMeans

\* The schema of an object as the list shows it.
ShownSchema(o) == IF o.schema = <<>> THEN <<"-">> ELSE o.schema

\* The words of a line, one after the other.
LEMMA ShownWords ==
  ASSUME NEW o \in Objects
  PROVE  LET words == Toc!Shown(o)
             T == Len(o.type)
             S == Len(ShownSchema(o))
             N == Len(o.name)
         IN /\ words \in Words /\ T >= 1 /\ S >= 1 /\ N >= 1 /\ Len(o.owner) >= 1
            /\ T \in Nat /\ S \in Nat /\ N \in Nat /\ Len(o.owner) \in Nat
            /\ Len(words) = T + S + N + Len(o.owner)
            /\ \A i \in 1 .. T : words[i] = o.type[i]
            /\ \A i \in 1 .. S : words[T + i] = ShownSchema(o)[i]
            /\ \A i \in 1 .. N : words[T + S + i] = o.name[i]
<1> DEFINE schema == ShownSchema(o)
           first  == o.type \o schema
           second == first \o o.name
           words  == second \o o.owner
           T == Len(o.type)
           S == Len(schema)
           N == Len(o.name)
           F == Len(first)
           G == Len(second)
           D == Len(o.owner)
<1>1. \A s, t \in Words : /\ s \o t \in Words /\ Len(s \o t) = Len(s) + Len(t)
                          /\ \A i \in 1 .. Len(s) : (s \o t)[i] = s[i]
                          /\ \A i \in 1 .. Len(t) : (s \o t)[Len(s) + i] = t[i]
  BY DEF Words
<1>2. \A s \in Words : Len(s) \in Nat /\ (s # <<>> => Len(s) >= 1)
  BY DEF Words
<1>3. /\ o.type \in Words /\ o.schema \in Words /\ o.name \in Words /\ o.owner \in Words
      /\ o.type # <<>> /\ o.name # <<>> /\ o.owner # <<>>
  BY DEF Objects
<1>4. schema \in Words /\ schema # <<>>
  <2>1. <<"-">> \in Words
    BY DEF Words, Word
  <2> QED
    BY <1>3, <2>1 DEF ShownSchema
<1>5. words = Toc!Shown(o)
  BY DEF Toc!Shown, ShownSchema
<1> HIDE DEF schema
<1>6. /\ first \in Words /\ F = T + S
      /\ \A i \in 1 .. T : first[i] = o.type[i]
      /\ \A i \in 1 .. S : first[T + i] = schema[i]
  BY <1>1, <1>3, <1>4
<1> HIDE DEF first
<1>7. /\ second \in Words /\ G = F + N
      /\ \A i \in 1 .. F : second[i] = first[i]
      /\ \A i \in 1 .. N : second[F + i] = o.name[i]
  BY <1>1, <1>3, <1>6
<1> HIDE DEF second
<1>8. /\ words \in Words /\ Len(words) = G + D
      /\ \A i \in 1 .. G : words[i] = second[i]
  BY <1>1, <1>3, <1>7
<1> HIDE DEF words
<1>9. /\ T \in Nat /\ S \in Nat /\ N \in Nat /\ D \in Nat /\ F \in Nat /\ G \in Nat
      /\ T >= 1 /\ S >= 1 /\ N >= 1 /\ D >= 1
  BY <1>2, <1>3, <1>4, <1>6, <1>7
<1> HIDE DEF T, S, N, F, G, D
<1>10. Len(words) = T + S + N + D
  BY <1>6, <1>7, <1>8, <1>9
<1>11. \A i \in 1 .. T : words[i] = o.type[i]
  BY <1>6, <1>7, <1>8, <1>9
<1>12. \A i \in 1 .. S : words[T + i] = schema[i]
  BY <1>6, <1>7, <1>8, <1>9
<1>13. \A i \in 1 .. N : words[T + S + i] = o.name[i]
  BY <1>6, <1>7, <1>8, <1>9
<1> QED
  BY <1>5, <1>8, <1>9, <1>10, <1>11, <1>12, <1>13 DEF schema, T, S, N, D

\* An entry whose description is the type of its object: the schema follows, then the
\* name; the last word is cut off as the owner.
LEMMA ParseKnown ==
  ASSUME NEW o \in Objects, o.type \in Toc!Types,
         \A t \in Toc!Types : Toc!IsPrefix(t, Toc!Shown(o)) => Len(t) <= Len(o.type),
         ~Toc!ParseEntry(Toc!Shown(o)).error
  PROVE  LET e == Toc!ParseEntry(Toc!Shown(o))
             S == Len(ShownSchema(o))
         IN /\ e.type = o.type
            /\ o.type \notin Toc!UnsupportedTypes =>
                 /\ e.namespace = ShownSchema(o)[1]
                 /\ e.tag \in Words
                 /\ Len(e.tag) = S + Len(o.name) + Len(o.owner) - 2
                 /\ \A i \in 1 .. S - 1 : e.tag[i] = ShownSchema(o)[i + 1]
                 /\ \A i \in 1 .. Len(o.name) : e.tag[S - 1 + i] = o.name[i]
<1> DEFINE words == Toc!Shown(o)
           fits  == {t \in Toc!Types : Toc!IsPrefix(t, words)}
           type  == CHOOSE t \in fits : \A u \in fits : Len(u) <= Len(t)
           rest  == SubSeq(words, Len(type) + 1, Len(words))
           last  == IF type \in Toc!UnsupportedTypes THEN Len(rest) ELSE Len(rest) - 1
           S     == Len(ShownSchema(o))
           T     == Len(o.type)
           N     == Len(o.name)
           D     == Len(o.owner)
<1>1. /\ T \in Nat /\ S \in Nat /\ N \in Nat /\ D \in Nat
      /\ T >= 1 /\ S >= 1 /\ N >= 1 /\ D >= 1
      /\ words \in Words /\ Len(words) = T + S + N + D
      /\ \A i \in 1 .. T : words[i] = o.type[i]
      /\ \A i \in 1 .. S : words[T + i] = ShownSchema(o)[i]
      /\ \A i \in 1 .. N : words[T + S + i] = o.name[i]
  BY ShownWords
<1>2. o.type \in Words /\ Len(o.type) = T
  BY DEF Objects
<1>3. \A t \in Toc!Types : Toc!IsPrefix(t, words) => Len(t) <= T
  OBVIOUS
<1>4. ~Toc!ParseEntry(words).error
  OBVIOUS
<1> HIDE DEF words, T, S, N, D
<1>5. o.type \in fits
  <2>1. Toc!IsPrefix(o.type, words)
    BY <1>1, <1>2, PrefixMeans
  <2> QED
    BY <2>1
<1>6. type = o.type
  <2>1. type \in fits /\ \A u \in fits : Len(u) <= Len(type)
    BY <1>2, <1>3, <1>5
  <2> HIDE DEF type
  <2>2. Len(type) = T
    BY <1>1, <1>2, <1>3, <1>5, <2>1, TypeShape
  <2>3. \A i \in 1 .. T : type[i] = o.type[i]
    <3>1. type \in Words /\ Toc!IsPrefix(type, words)
      BY <2>1, TypeShape
    <3>2. \A i \in 1 .. Len(type) : type[i] = words[i]
      BY <1>1, <3>1, PrefixMeans
    <3> QED
      BY <1>1, <2>2, <3>2
  <2> QED
    BY <1>2, <2>1, <2>2, <2>3, TypeShape DEF Words
<1>7. Toc!ParseEntry(words) =
        IF Len(words) < 3 THEN Toc!Refused
        ELSE IF fits = {} THEN Toc!Entry(<<>>, "", <<>>)
        ELSE IF last < 2 THEN Toc!Refused
        ELSE Toc!Entry(type, rest[1], SubSeq(rest, 2, last))
  BY DEF Toc!ParseEntry
<1> HIDE DEF fits, type, rest, last
<1>8. Toc!ParseEntry(words) = Toc!Entry(type, rest[1], SubSeq(rest, 2, last)) /\ ~(last < 2)
  <2>1. Toc!Refused.error
    BY DEF Toc!Refused
  <2>2. Toc!ParseEntry(words) # Toc!Refused
    BY <1>4, <2>1
  <2>3. fits # {}
    BY <1>5
  <2> QED
    BY <1>7, <2>2, <2>3, Zenon
<1>9. /\ Toc!ParseEntry(words).type = o.type
      /\ Toc!ParseEntry(words).namespace = rest[1]
      /\ Toc!ParseEntry(words).tag = SubSeq(rest, 2, last)
  <2>1. \A t, n, g : /\ Toc!Entry(t, n, g).type = t
                     /\ Toc!Entry(t, n, g).namespace = n
                     /\ Toc!Entry(t, n, g).tag = g
    BY DEF Toc!Entry
  <2> DEFINE tag == SubSeq(rest, 2, last)
  <2> HIDE DEF tag
  <2>2. Toc!ParseEntry(words) = Toc!Entry(o.type, rest[1], tag)
    BY <1>6, <1>8 DEF tag
  <2>3. /\ Toc!ParseEntry(words).type = o.type
        /\ Toc!ParseEntry(words).namespace = rest[1]
        /\ Toc!ParseEntry(words).tag = tag
    BY <2>1, <2>2
  <2> QED
    BY <2>3 DEF tag
<1>10. ASSUME o.type \notin Toc!UnsupportedTypes
       PROVE  /\ rest[1] = ShownSchema(o)[1]
              /\ SubSeq(rest, 2, last) \in Words
              /\ Len(SubSeq(rest, 2, last)) = S + N + D - 2
              /\ \A i \in 1 .. S - 1 : SubSeq(rest, 2, last)[i] = ShownSchema(o)[i + 1]
              /\ \A i \in 1 .. N : SubSeq(rest, 2, last)[S - 1 + i] = o.name[i]
  <2> DEFINE R   == S + N + D
             tag == SubSeq(rest, 2, last)
  <2>1. R \in Nat /\ R >= 3
    BY <1>1
  <2>2. rest = SubSeq(words, T + 1, T + R)
    <3>1. Len(words) = T + R
      BY <1>1
    <3> HIDE DEF R
    <3> QED
      BY <1>2, <1>6, <3>1 DEF rest
  <2>3. /\ rest \in Words /\ Len(rest) = R
        /\ \A i \in 1 .. R : rest[i] = words[T + i]
    <3> HIDE DEF R
    <3>1. Len(words) = T + R
      BY <1>1 DEF R
    <3> QED
      BY <1>1, <2>1, <2>2, <3>1 DEF Words
  <2>4. last = R - 1
    BY <1>6, <1>10, <2>3 DEF last
  <2>5. /\ tag \in Words /\ Len(tag) = R - 2
        /\ \A i \in 1 .. R - 2 : tag[i] = rest[i + 1]
    <3> HIDE DEF R
    <3> QED
      BY <2>1, <2>3, <2>4 DEF Words
  <2> HIDE DEF tag
  <2>6. \A i \in 1 .. R - 2 : tag[i] = words[T + i + 1]
    <3> TAKE i \in 1 .. R - 2
    <3> HIDE DEF R
    <3>1. i + 1 \in 1 .. R /\ T + (i + 1) = T + i + 1
      BY <1>1, <2>1
    <3>2. tag[i] = rest[i + 1] /\ rest[i + 1] = words[T + (i + 1)]
      BY <2>3, <2>5, <3>1
    <3> QED
      BY <3>1, <3>2
  <2>7. ASSUME NEW i \in 1 .. S - 1 PROVE tag[i] = ShownSchema(o)[i + 1]
    <3>1. i \in 1 .. R - 2 /\ i + 1 \in 1 .. S /\ T + i + 1 = T + (i + 1)
      BY <1>1
    <3>2. tag[i] = words[T + i + 1] /\ words[T + (i + 1)] = ShownSchema(o)[i + 1]
      BY <1>1, <2>6, <3>1
    <3> QED
      BY <3>1, <3>2
  <2>8. ASSUME NEW i \in 1 .. N PROVE tag[S - 1 + i] = o.name[i]
    <3>1. S - 1 + i \in 1 .. R - 2 /\ T + (S - 1 + i) + 1 = T + S + i
      <4>1. i \in 1 .. N /\ T \in Nat /\ S \in Nat \ {0} /\ N \in Nat /\ D \in Nat \ {0}
        BY <1>1
      <4> HIDE DEF T, S, N, D
      <4> QED
        BY ONLY <4>1
    <3>2. tag[S - 1 + i] = words[T + (S - 1 + i) + 1] /\ words[T + S + i] = o.name[i]
      BY <1>1, <2>6, <3>1
    <3> QED
      BY <3>1, <3>2
  <2>9. rest[1] = ShownSchema(o)[1]
    BY <1>1, <2>1, <2>3
  <2>10. S + N + D - 2 = R - 2
    BY <1>1
  <2> QED
    BY <2>5, <2>7, <2>8, <2>9, <2>10, Zenon DEF tag
<1> QED
  BY <1>9, <1>10 DEF words, S, N, D

\* Of several descriptions one is the longest.
LEMMA Longest ==
  ASSUME NEW F, F # {}, \A t \in F : Len(t) \in 1 .. 3
  PROVE  \E t \in F : \A u \in F : Len(u) <= Len(t)
<1>1. ASSUME NEW t \in F
      PROVE  /\ Len(t) <= 3
             /\ Len(t) # 3 => Len(t) <= 2
             /\ Len(t) # 3 /\ Len(t) # 2 => Len(t) <= 1 /\ Len(t) = 1
  <2>1. Len(t) \in 1 .. 3
    OBVIOUS
  <2> DEFINE n == Len(t)
  <2> HIDE DEF n
  <2>2. n \in 1 .. 3
    BY <2>1 DEF n
  <2>3. n <= 3 /\ (n # 3 => n <= 2) /\ (n # 3 /\ n # 2 => n <= 1 /\ n = 1)
    BY <2>2
  <2> QED
    BY <2>3 DEF n
<1>2. CASE \E t \in F : Len(t) = 3
  <2> PICK t \in F : Len(t) = 3
    BY <1>2
  <2>1. \A u \in F : Len(u) <= 3
    BY <1>1
  <2> QED
    BY <2>1, Zenon
<1>3. CASE (\A t \in F : Len(t) # 3) /\ \E t \in F : Len(t) = 2
  <2> PICK t \in F : Len(t) = 2
    BY <1>3
  <2>1. \A u \in F : Len(u) <= 2
    BY <1>1, <1>3
  <2> QED
    BY <2>1, Zenon
<1>4. CASE \A t \in F : Len(t) # 3 /\ Len(t) # 2
  <2>1. \A t, u \in F : Len(t) = 1 /\ Len(u) <= 1
    BY <1>1, <1>4
  <2> QED
    BY <2>1, Zenon
<1> QED
  BY <1>2, <1>3, <1>4, Zenon

\* An object whose type the code does not know is not taken.
LEMMA UnknownIsBlocked ==
  ASSUME NEW o \in Objects, NEW names, o.type \notin Toc!Types, Legible(o, names),
         ~Toc!ParseEntry(Toc!Shown(o)).error
  PROVE  Toc!ClassOf(Toc!ParseEntry(Toc!Shown(o)), names) \in {"unknown", "unsupported"}
<1> DEFINE words == Toc!Shown(o)
           fits  == {t \in Toc!Types : Toc!IsPrefix(t, words)}
           type  == CHOOSE t \in fits : \A u \in fits : Len(u) <= Len(t)
           rest  == SubSeq(words, Len(type) + 1, Len(words))
           last  == IF type \in Toc!UnsupportedTypes THEN Len(rest) ELSE Len(rest) - 1
           entry == Toc!Entry(type, rest[1], SubSeq(rest, 2, last))
<1>1. words \in Words
  BY ShownWords
<1>2. fits # {} => type \in fits
  <2>1. \A t \in fits : Len(t) \in 1 .. 3
    BY TypeShape
  <2> HIDE DEF fits
  <2>2. fits # {} => \E t \in fits : \A u \in fits : Len(u) <= Len(t)
    BY <2>1, Longest
  <2> QED
    BY <2>2
<1>3. Toc!ParseEntry(words) =
        IF Len(words) < 3 THEN Toc!Refused
        ELSE IF fits = {} THEN Toc!Entry(<<>>, "", <<>>)
        ELSE IF last < 2 THEN Toc!Refused
        ELSE entry
  BY DEF Toc!ParseEntry
<1>4. Toc!ParseEntry(words) # Toc!Refused
  <2>1. ~Toc!ParseEntry(words).error
    OBVIOUS
  <2> HIDE DEF words
  <2> QED
    BY <2>1, EntryFields
<1>5. CASE fits = {}
  <2>1. Toc!ParseEntry(words) = Toc!Entry(<<>>, "", <<>>)
    BY <1>3, <1>4, <1>5, Zenon
  <2> HIDE DEF words
  <2> DEFINE blank == Toc!Entry(<<>>, "", <<>>)
  <2>2. Toc!ParseEntry(words).type = <<>>
    <3>1. blank.type = <<>>
      BY DEF Toc!Entry
    <3> QED
      BY <2>1, <3>1, Zenon
  <2>3. \A e : e.type = <<>> => Toc!ClassOf(e, names) = "unknown"
    BY DEF Toc!ClassOf
  <2>4. Toc!ClassOf(Toc!ParseEntry(words), names) = "unknown"
    BY <2>2, <2>3
  <2> QED
    BY <2>4 DEF words
<1>6. CASE fits # {}
  <2> HIDE DEF entry, last, fits
  <2>1. Toc!ParseEntry(words) = entry /\ ~(last < 2)
    BY <1>3, <1>4, <1>6, Zenon
  <2>2. /\ type \in Toc!Types /\ Toc!IsPrefix(type, words)
        /\ type \in Words /\ Len(type) \in Nat /\ type # <<>>
    <3>1. type \in Toc!Types /\ Toc!IsPrefix(type, words)
      BY <1>2, <1>6 DEF fits
    <3> HIDE DEF type
    <3> QED
      BY <3>1, TypeShape DEF Words
  <2>3. entry.type = type /\ entry.namespace = rest[1]
    <3> HIDE DEF type, rest
    <3> QED
      BY DEF entry, Toc!Entry
  <2>4. rest[1] = words[Len(type) + 1]
    <3> HIDE DEF type
    <3>1. Len(words) \in Nat
      BY <1>1 DEF Words
    <3>2. Len(rest) # 0
      BY <1>1, <2>1, <2>2, <3>1 DEF last, Words
    <3>3. Len(words) > Len(type)
      BY <1>1, <2>2, <3>1, <3>2 DEF Words
    <3> QED
      BY <1>1, <2>2, <3>1, <3>3 DEF Words
  <2>5. \/ type \in Toc!UnsupportedTypes
        \/ type # Toc!Schema /\ ~Toc!KnownSchema(entry.namespace, names)
    BY <2>2, <2>3, <2>4 DEF Legible
  <2> HIDE DEF type, rest, words
  <2>6. Toc!ClassOf(entry, names) \in {"unknown", "unsupported"}
    BY <2>2, <2>3, <2>5, TypesDiffer DEF Toc!ClassOf, Toc!ClassOfData
  <2> QED
    BY <2>1, <2>6 DEF words
<1> QED
  BY <1>5, <1>6

\* What the class of an object has to say of it.
Safe(o, class) ==
  LET Owner == IF o.type = Toc!Schema THEN o.name ELSE o.schema
      IsManaged(words) == Len(words) = 1 /\ Toc!IsManagedSchema(words[1])
  IN CASE class = "schema" -> /\ o.type \in Toc!DdlTypes /\ ~IsManaged(Owner)
                              /\ ~(o.type = Toc!Schema /\ o.name = <<"public">>)
       [] class = "data" ->
            /\ o.type \in Toc!DataTypes
            /\ \A x \in Toc!ExcludedTableData : <<o.schema, o.name>> # <<<<x[1]>>, <<x[2]>>>>
            /\ IsManaged(o.schema) => o.schema[1] \in {"auth", "storage"}
       [] class = "excluded" ->
            \E x \in Toc!ExcludedTableData : o.schema = <<x[1]>> /\ Toc!IsPrefix(<<x[2]>>, o.name)
       [] OTHER -> class = "skipped" /\ o.type = Toc!Schema /\ o.name = <<"public">>

\* The classes of entries that block a plan.
Blocking == {"managedDDL", "unsupported", "unknown"}

\* A schema of several words is none of the target.
LEMMA SeveralWords ==
  \A w \in Words : Len(w) > 1 => w # <<>> /\ ~Toc!OfTarget(w)
<1> TAKE w \in Words
<1>1. w = <<>> => Len(w) = 0
  OBVIOUS
<1> DEFINE N == Len(w)
<1> HIDE DEF N
<1>2. N > 1 => N # 1 /\ N # 0
  OBVIOUS
<1> QED
  BY <1>1, <1>2 DEF Toc!OfTarget, N

\* The list shows the schema of several words that an object has as an ambiguous one.
LEMMA SeveralWordsAreAmbiguous ==
  ASSUME NEW objects, LegibleArchive(objects), NEW i \in DOMAIN objects,
         \A j \in DOMAIN objects : ~Entries(objects)[j].error, Len(objects[i].schema) > 1
  PROVE  Toc!AmbiguousNamespace(objects[i].schema[1], Toc!SchemaNames(Entries(objects)))
<1> DEFINE o     == objects[i]
           names == Toc!SchemaNames(Entries(objects))
<1>1. o \in Objects /\ o.schema \in Words
  <2>1. o \in Objects
    BY DEF LegibleArchive
  <2> QED
    BY <2>1 DEF Objects
<1>2. PICK j \in DOMAIN objects : objects[j].type = Toc!Schema /\ objects[j].name = o.schema
  <2>1. o.schema # <<>> /\ ~Toc!OfTarget(o.schema)
    BY <1>1, SeveralWords
  <2>2. o \in Toc!ToSet(objects)
    BY DEF Toc!ToSet
  <2>3. \E s \in Toc!ToSet(objects) : s.type = Toc!Schema /\ s.name = o.schema
    BY <2>1, <2>2 DEF LegibleArchive, Toc!WholeArchive
  <2> QED
    BY <2>3 DEF Toc!ToSet
<1> DEFINE s == objects[j]
           e == Toc!ParseEntry(Toc!Shown(s))
<1>3. /\ s \in Objects /\ s.schema = <<>> /\ s.type = Toc!Schema /\ s.name = o.schema
      /\ Legible(s, names) /\ e = Entries(objects)[j]
  BY <1>2 DEF LegibleArchive, Entries
<1>4. ~e.error
  BY <1>3
<1>5. s.type \in Toc!Types /\ s.type \notin Toc!UnsupportedTypes
  BY <1>3, TypesDiffer DEF Toc!Types
<1>6. \A t \in Toc!Types : Toc!IsPrefix(t, Toc!Shown(s)) => Len(t) <= Len(s.type)
  BY <1>3, <1>5 DEF Legible
<1>7. ShownSchema(s) = <<"-">>
  BY <1>3 DEF ShownSchema
<1>8. /\ e.type = Toc!Schema /\ e.tag \in Words
      /\ Len(e.tag) = Len(ShownSchema(s)) + Len(s.name) + Len(s.owner) - 2
      /\ \A k \in 1 .. Len(s.name) : e.tag[Len(ShownSchema(s)) - 1 + k] = s.name[k]
  BY <1>3, <1>4, <1>5, <1>6, ParseKnown
<1>9. Len(s.owner) \in Nat /\ Len(s.owner) >= 1 /\ Len(s.name) \in Nat
  BY <1>3, ShownWords
<1> HIDE DEF e, s, o, names
<1>10. Len(e.tag) > 1 /\ e.tag[1] = o.schema[1]
  <2>1. Len(ShownSchema(s)) = 1
    BY <1>7
  <2>2. Len(s.name) > 1 /\ s.name[1] = o.schema[1]
    BY <1>3 DEF o
  <2> DEFINE N == Len(s.name)
             D == Len(s.owner)
             L == Len(ShownSchema(s))
             tag == e.tag
             name == s.name
  <2>3. N \in Nat /\ D \in Nat /\ D >= 1 /\ L = 1 /\ N > 1 /\ Len(tag) = L + N + D - 2
    BY <1>8, <1>9, <2>1, <2>2
  <2>4. \A k \in 1 .. N : tag[L - 1 + k] = name[k]
    BY <1>8
  <2>5. name[1] = o.schema[1]
    BY <2>2
  <2> HIDE DEF N, D, L, tag, name
  <2>6. Len(tag) > 1 /\ tag[1] = name[1]
    BY <2>3, <2>4
  <2> QED
    BY <2>5, <2>6 DEF tag
<1>11. e.tag \in names
  <2>1. e \in Toc!ToSet(Entries(objects))
    BY <1>2, <1>3 DEF Toc!ToSet, Entries
  <2> QED
    BY <1>8, <2>1 DEF names, Toc!SchemaNames
<1> QED
  BY <1>10, <1>11 DEF names, o, Toc!AmbiguousNamespace

\* What the list lets the code read of an object whose type it knows.
Reads(o, e) ==
  /\ e.type = o.type /\ o.type # <<>>
  /\ o.type \notin Toc!UnsupportedTypes =>
       /\ e.namespace = ShownSchema(o)[1]
       /\ ShownSchema(o) \in Words
       /\ e.tag \in Words
       /\ Len(e.tag) = Len(ShownSchema(o)) + Len(o.name) + Len(o.owner) - 2
       /\ Len(ShownSchema(o)) = 1 => \A k \in 1 .. Len(o.name) : e.tag[k] = o.name[k]

\* It reads so every object of such an archive whose entry is not refused.
LEMMA ReadKnown ==
  ASSUME NEW objects, LegibleArchive(objects), NEW i \in DOMAIN objects,
         \A j \in DOMAIN objects : ~Entries(objects)[j].error,
         objects[i].type \in Toc!Types
  PROVE  Reads(objects[i], Entries(objects)[i])
<1> DEFINE o == objects[i]
           e == Toc!ParseEntry(Toc!Shown(o))
<1>1. o \in Objects /\ Legible(o, Toc!SchemaNames(Entries(objects))) /\ e = Entries(objects)[i]
  BY DEF LegibleArchive, Entries
<1>2. ~e.error
  BY <1>1
<1>3. \A t \in Toc!Types : Toc!IsPrefix(t, Toc!Shown(o)) => Len(t) <= Len(o.type)
  BY <1>1 DEF Legible
<1>4. /\ e.type = o.type
      /\ o.type \notin Toc!UnsupportedTypes =>
           /\ e.namespace = ShownSchema(o)[1] /\ e.tag \in Words
           /\ Len(e.tag) = Len(ShownSchema(o)) + Len(o.name) + Len(o.owner) - 2
           /\ \A k \in 1 .. Len(o.name) : e.tag[Len(ShownSchema(o)) - 1 + k] = o.name[k]
  BY <1>1, <1>2, <1>3, ParseKnown
<1>5. o.type # <<>> /\ ShownSchema(o) \in Words
  <2>1. o.schema \in Words /\ o.type # <<>>
    BY <1>1 DEF Objects
  <2>2. <<"-">> \in Words
    BY DEF Words, Word
  <2> QED
    BY <2>1, <2>2 DEF ShownSchema
<1>6. Len(o.name) \in Nat
  BY <1>1, ShownWords
<1> HIDE DEF e, o
<1>7. ASSUME o.type \notin Toc!UnsupportedTypes, Len(ShownSchema(o)) = 1
      PROVE  \A k \in 1 .. Len(o.name) : e.tag[k] = o.name[k]
  <2>1. \A k \in 1 .. Len(o.name) : Len(ShownSchema(o)) - 1 + k = k
    BY <1>6, <1>7
  <2> QED
    BY <1>4, <1>7, <2>1
<1> QED
  BY <1>1, <1>4, <1>5, <1>7 DEF o, Reads

\* A name of no more than one word is that word.
LEMMA OneWord == \A w \in Words : w # <<>> /\ ~(Len(w) > 1) => w = <<w[1]>> /\ Len(w) = 1
<1> TAKE w \in Words
<1> HAVE w # <<>> /\ ~(Len(w) > 1)
<1>1. Len(w) \in Nat /\ Len(w) # 0 /\ (Len(w) = 1 => w = <<w[1]>>)
  BY DEF Words
<1> DEFINE N == Len(w)
<1>2. N \in Nat /\ N # 0 /\ ~(N > 1)
  BY <1>1
<1> HIDE DEF N
<1>3. N = 1
  BY <1>2
<1> QED
  BY <1>1, <1>3 DEF N

\* What the code knows of the names of schemas and of tables whose data it excludes.
LEMMA KnownNames ==
  /\ ~Toc!IsManagedSchema("public")
  /\ \A x \in Toc!ExcludedTableData : x[1] # "-" /\ <<x[2]>> \in Words
<1>1. ~Toc!IsManagedSchema("public")
  BY DEF Toc!IsManagedSchema, Toc!ProtectedSchemas, Toc!Prefixed
<1>2. ASSUME NEW x \in Toc!ExcludedTableData PROVE x[1] # "-" /\ <<x[2]>> \in Words
  <2>1. x[2] \in Word
    BY DEF Word
  <2>2. x[1] # "-"
    BY DEF Toc!ExcludedTableData
  <2> QED
    BY <2>1, <2>2 DEF Words
<1> QED
  BY <1>1, <1>2

\* Data is taken, or excluded, as it has to be.
LEMMA DataIsSafe ==
  ASSUME NEW o \in Objects, NEW e, NEW names, o.type \in Toc!DataTypes,
         e.namespace = ShownSchema(o)[1], e.tag \in Words, Len(e.tag) >= 1,
         Len(o.schema) > 1 => Toc!AmbiguousNamespace(o.schema[1], names),
         Len(ShownSchema(o)) = 1 => e.tag[1] = o.name[1]
  PROVE  LET class == Toc!ClassOfData(e, names) IN class \in Blocking \/ Safe(o, class)
<1> DEFINE class    == Toc!ClassOfData(e, names)
           excluded == Toc!ExcludedData(e)
<1> SUFFICES ASSUME ~(Toc!AmbiguousNamespace(e.namespace, names) \/ ~Toc!KnownSchema(e.namespace, names))
             PROVE  class \in Blocking \/ Safe(o, class)
  BY DEF Toc!ClassOfData, Blocking
<1>1. class = IF excluded THEN "excluded"
              ELSE IF Toc!AllowedDataSchema(e.namespace) THEN "data" ELSE "unsupported"
  BY DEF Toc!ClassOfData
<1>2. o.schema \in Words /\ o.name \in Words /\ o.name # <<>>
  BY DEF Objects
<1>3. \/ o.schema = <<>> /\ e.namespace = "-"
      \/ o.schema = <<e.namespace>> /\ Len(ShownSchema(o)) = 1
  <2>1. CASE o.schema = <<>>
    <3>1. <<"-">>[1] = "-"
      OBVIOUS
    <3> QED
      BY <2>1, <3>1 DEF ShownSchema
  <2>2. CASE o.schema # <<>>
    <3>1. ShownSchema(o) = o.schema /\ e.namespace = o.schema[1]
      BY <2>2 DEF ShownSchema
    <3>2. ~(Len(o.schema) > 1)
      BY <3>1
    <3> QED
      BY <1>2, <2>2, <3>1, <3>2, OneWord
  <2> QED
    BY <2>1, <2>2
<1>4. Len(ShownSchema(o)) = 1 /\ e.tag[1] = o.name[1]
  BY <1>3 DEF ShownSchema
<1>5. \A x \in Toc!ExcludedTableData :
        /\ Toc!IsPrefix(<<x[2]>>, e.tag) <=> e.tag[1] = x[2]
        /\ Toc!IsPrefix(<<x[2]>>, o.name) <=> o.name[1] = x[2]
  <2>1. \A s, t \in Words : Len(t) = 1 /\ Len(s) >= 1 => (Toc!IsPrefix(t, s) <=> t[1] = s[1])
    BY PrefixOfOne
  <2>2. Len(o.name) >= 1
    BY ShownWords
  <2>3. \A x \in Toc!ExcludedTableData : Len(<<x[2]>>) = 1 /\ <<x[2]>>[1] = x[2]
    OBVIOUS
  <2> QED
    BY <1>2, <2>1, <2>2, <2>3, KnownNames
<1>6. CASE excluded
  <2>1. PICK x \in Toc!ExcludedTableData : e.namespace = x[1] /\ Toc!IsPrefix(<<x[2]>>, e.tag)
    BY <1>6 DEF Toc!ExcludedData
  <2>2. o.schema = <<x[1]>> /\ Toc!IsPrefix(<<x[2]>>, o.name)
    BY <1>3, <1>4, <1>5, <2>1, KnownNames
  <2> QED
    BY <1>1, <1>6, <2>2 DEF Safe
<1>7. CASE ~excluded /\ Toc!AllowedDataSchema(e.namespace)
  <2>1. ASSUME NEW x \in Toc!ExcludedTableData, o.schema = <<x[1]>>, o.name = <<x[2]>> PROVE FALSE
    <3>1. e.namespace = x[1] /\ e.tag[1] = x[2]
      BY <1>3, <1>4, <2>1
    <3> QED
      BY <1>5, <1>7, <3>1 DEF Toc!ExcludedData
  <2>2. Len(o.schema) = 1 /\ Toc!IsManagedSchema(o.schema[1]) => o.schema[1] \in {"auth", "storage"}
    <3>1. Len(o.schema) = 1 => o.schema[1] = e.namespace
      BY <1>3
    <3> QED
      BY <1>7, <3>1, KnownNames DEF Toc!AllowedDataSchema
  <2>3. class = "data"
    BY <1>1, <1>7
  <2> QED
    BY <2>1, <2>2, <2>3 DEF Safe
<1>8. CASE ~excluded /\ ~Toc!AllowedDataSchema(e.namespace)
  BY <1>1, <1>8 DEF Blocking
<1> QED
  BY <1>6, <1>7, <1>8

\* So is a schema, ...
LEMMA SchemaIsSafe ==
  ASSUME NEW o \in Objects, NEW e, o.type = Toc!Schema, e.tag \in Words,
         Len(e.tag) = Len(o.name) + Len(o.owner) - 1,
         \A k \in 1 .. Len(o.name) : e.tag[k] = o.name[k]
  PROVE  LET class == Toc!ClassOfSchema(e) IN class \in Blocking \/ Safe(o, class)
<1> DEFINE class == Toc!ClassOfSchema(e)
<1>1. CASE Len(e.tag) > 1
  BY <1>1 DEF Toc!ClassOfSchema, Blocking
<1>2. CASE ~(Len(e.tag) > 1)
  <2>1. o.name = e.tag
    <3> DEFINE N == Len(o.name)
               D == Len(o.owner)
               L == Len(e.tag)
               name == o.name
               tag == e.tag
    <3>1. N \in Nat /\ D \in Nat /\ N >= 1 /\ D >= 1 /\ L = N + D - 1 /\ ~(L > 1)
      BY <1>2, ShownWords
    <3>2. name \in Words /\ tag \in Words /\ Len(name) = N /\ Len(tag) = L
      BY DEF Objects
    <3>3. \A k \in 1 .. N : tag[k] = name[k]
      OBVIOUS
    <3> HIDE DEF N, D, L, name, tag
    <3>4. N = L
      BY <3>1
    <3> QED
      BY <3>2, <3>3, <3>4 DEF Words, name, tag
  <2>2. CASE e.tag = <<"public">>
    BY <1>2, <2>1, <2>2 DEF Toc!ClassOfSchema, Safe
  <2>3. CASE e.tag # <<"public">> /\ Toc!IsManagedSchema(e.tag[1])
    BY <1>2, <2>3 DEF Toc!ClassOfSchema, Toc!Managed, Blocking
  <2>4. CASE e.tag # <<"public">> /\ ~Toc!IsManagedSchema(e.tag[1])
    BY <1>2, <2>1, <2>4, TypesDiffer DEF Toc!ClassOfSchema, Safe
  <2> QED
    BY <2>2, <2>3, <2>4
<1> QED
  BY <1>1, <1>2

\* ... and any other object.
LEMMA OtherIsSafe ==
  ASSUME NEW o \in Objects, NEW e, NEW names, e.type = o.type,
         o.type \in Toc!DdlTypes, o.type # Toc!Schema, o.type # <<>>,
         e.namespace = ShownSchema(o)[1]
  PROVE  LET class == Toc!ClassOf(e, names) IN class \in Blocking \/ Safe(o, class)
<1> DEFINE class == Toc!ClassOf(e, names)
           other == Toc!AmbiguousNamespace(e.namespace, names) \/ ~Toc!KnownSchema(e.namespace, names)
<1>1. class = IF e.namespace = "-" THEN "unsupported"
              ELSE IF other THEN "unknown"
              ELSE IF Toc!IsManagedSchema(e.namespace) THEN Toc!Managed(e.namespace) ELSE "schema"
  BY TypesDiffer DEF Toc!ClassOf
<1>2. Toc!Managed(e.namespace) \in Blocking
  BY DEF Toc!Managed, Blocking
<1> HIDE DEF class, other
<1>3. CASE e.namespace # "-" /\ ~other /\ ~Toc!IsManagedSchema(e.namespace)
  <2>1. Len(o.schema) = 1 => o.schema[1] = e.namespace
    BY DEF ShownSchema
  <2>2. class = "schema"
    BY <1>1, <1>3
  <2> QED
    BY <1>3, <2>1, <2>2 DEF Safe, class
<1>4. CASE ~(e.namespace # "-" /\ ~other /\ ~Toc!IsManagedSchema(e.namespace))
  BY <1>1, <1>2, <1>4 DEF Blocking, class
<1> QED
  BY <1>3, <1>4

\* An object of a known type that is read so is taken as it has to be, or blocks the plan.
LEMMA KnownIsSafe ==
  ASSUME NEW o \in Objects, NEW e, NEW names, o.type \in Toc!Types, Reads(o, e),
         o.type = Toc!Schema => o.schema = <<>>,
         Len(o.schema) > 1 => Toc!AmbiguousNamespace(o.schema[1], names)
  PROVE  LET class == Toc!ClassOf(e, names) IN class \in Blocking \/ Safe(o, class)
<1> DEFINE class == Toc!ClassOf(e, names)
           S == Len(ShownSchema(o))
           N == Len(o.name)
           D == Len(o.owner)
           L == Len(e.tag)
<1>1. e.type = o.type /\ o.type # <<>>
  BY DEF Reads
<1>2. S \in Nat /\ N \in Nat /\ D \in Nat /\ S >= 1 /\ N >= 1 /\ D >= 1
  BY ShownWords
<1>3. ASSUME o.type \notin Toc!UnsupportedTypes
      PROVE  /\ e.namespace = ShownSchema(o)[1] /\ e.tag \in Words /\ L = S + N + D - 2
             /\ S = 1 => \A k \in 1 .. N : e.tag[k] = o.name[k]
  BY <1>3 DEF Reads
<1>4. CASE o.type \in Toc!UnsupportedTypes
  BY <1>1, <1>4 DEF Toc!ClassOf, Blocking
<1>5. CASE o.type \in Toc!DataTypes
  <2>1. class = Toc!ClassOfData(e, names) /\ o.type \notin Toc!UnsupportedTypes
    BY <1>1, <1>5, TypesDiffer DEF Toc!ClassOf
  <2>2. L >= 1 /\ (S = 1 => e.tag[1] = o.name[1])
    <3> HIDE DEF S, N, D, L
    <3> QED
      BY <1>2, <1>3, <2>1
  <2>3. class \in Blocking \/ Safe(o, class)
    <3> HIDE DEF class
    <3> QED
      BY <1>3, <1>5, <2>1, <2>2, DataIsSafe
  <2> QED
    BY <2>3
<1>6. CASE o.type = Toc!Schema
  <2>1. class = Toc!ClassOfSchema(e) /\ o.type \notin Toc!UnsupportedTypes
    BY <1>1, <1>6, TypesDiffer DEF Toc!ClassOf
  <2>2. S = 1
    BY <1>6 DEF ShownSchema
  <2>3. L = N + D - 1
    <3> HIDE DEF S, N, D, L
    <3> QED
      BY <1>2, <1>3, <2>1, <2>2
  <2>4. class \in Blocking \/ Safe(o, class)
    <3> HIDE DEF class
    <3> QED
      BY <1>3, <1>6, <2>1, <2>2, <2>3, SchemaIsSafe
  <2> QED
    BY <2>4
<1>7. CASE o.type \in Toc!DdlTypes /\ o.type # Toc!Schema
  <2>1. o.type \notin Toc!UnsupportedTypes
    BY <1>7, TypesDiffer
  <2> QED
    BY <1>1, <1>3, <1>7, <2>1, OtherIsSafe
<1> QED
  BY <1>4, <1>5, <1>6, <1>7 DEF Toc!Types

\* So is every object of such an archive.
LEMMA EntryIsSafe ==
  ASSUME NEW objects, LegibleArchive(objects), NEW i \in DOMAIN objects,
         \A j \in DOMAIN objects : ~Entries(objects)[j].error
  PROVE  LET class == Toc!ClassOf(Entries(objects)[i], Toc!SchemaNames(Entries(objects)))
         IN class \in Blocking \/ Safe(objects[i], class)
<1> DEFINE o     == objects[i]
           e     == Entries(objects)[i]
           names == Toc!SchemaNames(Entries(objects))
           class == Toc!ClassOf(e, names)
<1>1. o \in Objects /\ Legible(o, names) /\ (o.type = Toc!Schema => o.schema = <<>>)
  BY DEF LegibleArchive
<1>2. CASE o.type \notin Toc!Types
  <2>1. e = Toc!ParseEntry(Toc!Shown(o)) /\ ~e.error
    BY DEF Entries
  <2>2. class \in {"unknown", "unsupported"}
    BY <1>1, <1>2, <2>1, UnknownIsBlocked
  <2> QED
    BY <2>2 DEF Blocking
<1>3. CASE o.type \in Toc!Types
  <2>1. Reads(o, e)
    BY <1>3, ReadKnown
  <2>2. Len(o.schema) > 1 => Toc!AmbiguousNamespace(o.schema[1], names)
    BY SeveralWordsAreAmbiguous
  <2> HIDE DEF o, e, names
  <2>3. class \in Blocking \/ Safe(o, class)
    BY <1>1, <1>3, <2>1, <2>2, KnownIsSafe
  <2> QED
    BY <2>3 DEF o, e, names
<1> QED
  BY <1>2, <1>3

\* The plan for such an archive selects safely.
LEMMA LegibleIsSafe ==
  ASSUME NEW objects, LegibleArchive(objects)
  PROVE  Toc!SelectsSafely(objects)
<1> DEFINE lines   == [i \in DOMAIN objects |-> Toc!Shown(objects[i])]
           plan    == Toc!SelectArchiveTOC(lines)
           entries == Entries(objects)
           names   == Toc!SchemaNames(entries)
           class(i) == Toc!ClassOf(entries[i], names)
<1>1. entries = [i \in DOMAIN lines |-> Toc!ParseEntry(lines[i])]
  BY DEF Entries
<1>2. /\ plan.error = (lines = <<>> \/ \E i \in DOMAIN lines : entries[i].error)
      /\ plan.class = [i \in DOMAIN lines |-> class(i)]
  BY <1>1 DEF Toc!SelectArchiveTOC
<1> SUFFICES ASSUME ~plan.error, ~Toc!Blocked(plan), NEW i \in DOMAIN objects
             PROVE  Safe(objects[i], plan.class[i])
  BY Zenon DEF Toc!SelectsSafely, Safe
<1>3. \A j \in DOMAIN objects : ~entries[j].error
  BY <1>2
<1>4. plan.class[i] = class(i)
  BY <1>2
<1>5. class(i) \notin Blocking
  BY <1>2, <1>4 DEF Toc!Blocked, Blocking
<1>6. class(i) \in Blocking \/ Safe(objects[i], class(i))
  BY <1>3, EntryIsSafe
<1> QED
  BY <1>4, <1>5, <1>6

\* A plan that is not blocked takes only what a trial restore may take, from an archive of
\* any size, although schemas, names and owners of several words stand side by side in
\* its list (toc_selection.go:119-234).  The archive has to be legible: the table
\* "public x" of a schema called DATA is shown as TABLE DATA public x, which is the data
\* of a table x of the public schema to the code.
THEOREM SafeSelection ==
  ASSUME algorithm = "toc" => LegibleArchive(input)
  PROVE  SelectionIsSafe
  BY LegibleIsSafe DEF SelectionIsSafe

-----------------------------------------------------------------------------
(* The schema dump: sequences.                                             *)

\* What the concatenation of two sequences is.
LEMMA ConcatOf ==
  ASSUME NEW S, NEW s \in Seq(S), NEW t \in Seq(S)
  PROVE  /\ s \o t \in Seq(S) /\ Len(s) \in Nat /\ Len(t) \in Nat /\ Len(s \o t) = Len(s) + Len(t)
         /\ \A i \in 1 .. Len(s) : (s \o t)[i] = s[i]
         /\ \A i \in 1 .. Len(t) : (s \o t)[Len(s) + i] = t[i]
<1>1. /\ s \o t \in Seq(S) /\ Len(s) \in Nat /\ Len(t) \in Nat /\ Len(s \o t) = Len(s) + Len(t)
  OBVIOUS
<1>2. ASSUME NEW i \in 1 .. Len(s) PROVE (s \o t)[i] = s[i]
  OBVIOUS
<1>3. ASSUME NEW i \in 1 .. Len(t) PROVE (s \o t)[Len(s) + i] = t[i]
  <2>1. Len(s) + i \in 1 .. Len(s) + Len(t) /\ ~(Len(s) + i <= Len(s)) /\ (Len(s) + i) - Len(s) = i
    BY <1>1
  <2> QED
    BY <2>1
<1> QED
  BY <1>1, <1>2, <1>3

-----------------------------------------------------------------------------
(* The lexer of the schema dump.                                           *)

\* The units of a line, and those of a piece that is not the statement.
Units == {"x", "e", "t", "1", "q", "d", "b", "minus", "slash", "star", "dollar", "s", "P"}
Other == Units \ {"P"}

\* The lexer goes on behind each unit of a line.
Runs(at, line) == \A i \in 1 .. Len(line) : at[i] = Text!Step(at[i - 1], line, i)

\* The states of the lexer on a line exist.
LEMMA ScanSteps ==
  ASSUME NEW lex, NEW line, Len(line) \in Nat
  PROVE  Text!Scanned(lex, line)[0] = [next |-> 1, lex |-> lex] /\ Runs(Text!Scanned(lex, line), line)
<1> DEFINE n == Len(line)
           first == [next |-> 1, lex |-> lex]
           P(x, i) == Text!Step(x, line, i)
           Is(f, k) == f = [i \in 0 .. k |-> IF i = 0 THEN first ELSE P(f[i - 1], i)]
           S == {k \in Nat : \E f : Is(f, k)}
<1> HIDE DEF P, first
<1>1. 0 \in S
  <2> DEFINE f == [i \in 0 .. 0 |-> first]
  <2>1. Is(f, 0)
    OBVIOUS
  <2> QED
    BY <2>1
<1>2. ASSUME NEW k \in Nat, k \in S PROVE k + 1 \in S
  <2> PICK f : Is(f, k)
    BY <1>2
  <2> DEFINE g == [i \in 0 .. k + 1 |-> IF i = k + 1 THEN P(f[k], k + 1) ELSE f[i]]
             h == [i \in 0 .. k + 1 |-> IF i = 0 THEN first ELSE P(g[i - 1], i)]
  <2>1. \A i \in 0 .. k + 1 : g[i] = h[i]
    <3> TAKE i \in 0 .. k + 1
    <3>1. CASE i = k + 1
      BY <3>1
    <3>2. CASE i = 0
      BY <3>2
    <3>3. CASE i \in 1 .. k
      <4>1. g[i] = f[i] /\ g[i - 1] = f[i - 1] /\ h[i] = P(g[i - 1], i)
        BY <3>3
      <4>2. f[i] = P(f[i - 1], i)
        BY <3>3
      <4> QED
        BY <4>1, <4>2
    <3> QED
      BY <3>1, <3>2, <3>3
  <2>2. DOMAIN g = 0 .. k + 1 /\ DOMAIN h = 0 .. k + 1 /\ g = [i \in DOMAIN g |-> g[i]] /\ h = [i \in DOMAIN h |-> h[i]]
    OBVIOUS
  <2> HIDE DEF g
  <2>3. g = h
    <3> HIDE DEF h
    <3> QED
      BY <2>1, <2>2
  <2>4. Is(g, k + 1)
    BY <2>3
  <2> HIDE DEF Is
  <2> QED
    BY <2>4
<1>3. n \in S
  <2> HIDE DEF S
  <2> QED
    BY <1>1, <1>2, Induction
<1> DEFINE at == CHOOSE f : Is(f, n)
<1>4. Is(at, n)
  BY <1>3, Zenon
<1>5. Text!Scanned(lex, line) = at
  BY Zenon DEF Text!Scanned, first, P
<1> HIDE DEF at, n
<1>6. at[0] = first /\ \A i \in 1 .. n : at[i] = P(at[i - 1], i)
  <2>1. n \in Nat
    BY DEF n
  <2> QED
    BY <1>4, <2>1
<1> QED
  BY <1>5, <1>6 DEF Runs, first, P, n

\* Where the lexer is behind the first o units of a line: at the next one, unless the
\* rest of the line does not matter.
At(s, line, o, m) ==
  /\ s.lex = m
  /\ IF m.mode = "comment" THEN s.next > Len(line) ELSE s.next = o + 1 \/ (o = Len(line) /\ s.next > o)

\* The line ends behind its first o units, or goes on with a unit of N.
Before(N, line, o) == o = Len(line) \/ line[o + 1] \in N

\* The text s stands in v behind the first o characters.
Stands(s, v, o) == o + Len(s) <= Len(v) /\ \A j \in 1 .. Len(s) : v[o + j] = s[j]

\* From mode m the text w takes the lexer to m2, before a unit of N.
Lexes(m, w, m2, N) ==
  \A line \in Seq(Units), o \in Nat : \A at :
    Runs(at, line) /\ At(at[o], line, o, m) /\ Stands(w, line, o) /\ Before(N, line, o + Len(w))
      => At(at[o + Len(w)], line, o + Len(w), m2)

\* What the lexer has taken already it passes over.
LEMMA Passed ==
  ASSUME NEW line \in Seq(Units), NEW at, Runs(at, line), NEW a \in Nat, NEW d \in Nat,
         a + d <= Len(line), at[a].next \in Nat, at[a].next > a + d
  PROVE  at[a + d] = at[a]
<1> DEFINE S == {k \in Nat : k <= d => at[a + k] = at[a]}
<1>1. 0 \in S
  OBVIOUS
<1>2. ASSUME NEW k \in Nat, k \in S PROVE k + 1 \in S
  <2> SUFFICES ASSUME k + 1 <= d PROVE at[a + (k + 1)] = at[a]
    OBVIOUS
  <2>1. at[a + k] = at[a] /\ a + (k + 1) \in 1 .. Len(line) /\ a + (k + 1) - 1 = a + k /\ a + (k + 1) < at[a].next
    BY <1>2
  <2>2. at[a + (k + 1)] = Text!Step(at[a], line, a + (k + 1))
    BY <2>1 DEF Runs
  <2> QED
    BY <2>1, <2>2 DEF Text!Step
<1>3. d \in S
  <2> HIDE DEF S
  <2> QED
    BY <1>1, <1>2, Induction
<1> QED
  BY <1>3

\* In mode m the lexer takes the text w at once, before a unit of N, and then is in m2.
Takes(m, w, m2, N) ==
  \A line \in Seq(Units), o \in Nat :
    Stands(w, line, o) /\ Before(N, line, o + Len(w)) => Text!LexAt(m, line, o + 1) = Text!Took(Len(w), m2)

\* Behind o units the lexer is to take n or more.
Taking(at, line, o, m, n, take, m2) ==
  /\ n \in Nat \ {0} /\ take \in Nat /\ n <= take /\ o + n <= Len(line)
  /\ Runs(at, line) /\ At(at[o], line, o, m) /\ m.mode # "comment"
  /\ Text!LexAt(m, line, o + 1) = Text!Took(take, m2)

\* It has taken them.
Taken(s, o, take, m2) == s.next = (o + 1) + take /\ s.lex = m2

\* What the lexer does where it is not in the middle of something.
LEMMA TakenAt ==
  ASSUME NEW line \in Seq(Units), NEW o \in Nat, NEW at, NEW m, NEW n, NEW take, NEW m2,
         Taking(at, line, o, m, n, take, m2)
  PROVE  Taken(at[o + n], o, take, m2)
<1>0. /\ n \in Nat \ {0} /\ take \in Nat /\ n <= take /\ o + n <= Len(line)
      /\ Runs(at, line) /\ At(at[o], line, o, m) /\ m.mode # "comment"
      /\ Text!LexAt(m, line, o + 1) = Text!Took(take, m2)
  BY DEF Taking
<1>1. o + 1 \in 1 .. Len(line) /\ (o + 1) - 1 = o
  BY <1>0
<1>2. at[o].lex = m /\ at[o].next = o + 1
  BY <1>0, <1>1 DEF At
<1>3. at[o + 1] = Text!Step(at[o], line, o + 1)
  BY <1>0, <1>1 DEF Runs
<1>4. Text!LexAt(m, line, o + 1) = [take |-> take, lex |-> m2]
  BY <1>0 DEF Text!Took
<1>5. at[o + 1] = [next |-> (o + 1) + Text!LexAt(m, line, o + 1).take, lex |-> Text!LexAt(m, line, o + 1).lex]
  <2>1. ~(o + 1 < at[o].next)
    BY <1>1, <1>2
  <2> QED
    BY <1>2, <1>3, <2>1, Zenon DEF Text!Step
<1>6. at[o + 1].next = (o + 1) + take /\ at[o + 1].lex = m2
  <2>1. Text!LexAt(m, line, o + 1).take = take /\ Text!LexAt(m, line, o + 1).lex = m2
    BY <1>4
  <2> QED
    BY <1>5, <2>1
<1> DEFINE a == o + 1
           d == n - 1
           next == a + take
<1>7. next \in Nat /\ next > a + d /\ a \in Nat /\ d \in Nat /\ a + d <= Len(line) /\ a + d = o + n
  BY <1>0, <1>1
<1>8. at[a].next = next
  BY <1>6
<1> HIDE DEF a, d, next
<1>9. at[a + d] = at[a]
  <2>1. Runs(at, line)
    BY <1>0
  <2> QED
    BY <1>7, <1>8, <2>1, Passed
<1> QED
  BY <1>6, <1>7, <1>9 DEF a, Taken

\* A text that the lexer takes at once is read.
LEMMA Token ==
  ASSUME NEW m, NEW w, Len(w) \in Nat \ {0}, NEW m2, NEW N, m.mode # "comment", m2.mode # "comment",
         Takes(m, w, m2, N)
  PROVE  Lexes(m, w, m2, N)
<1> SUFFICES ASSUME NEW line \in Seq(Units), NEW o \in Nat, NEW at, Runs(at, line), At(at[o], line, o, m),
                    Stands(w, line, o), Before(N, line, o + Len(w))
             PROVE  At(at[o + Len(w)], line, o + Len(w), m2)
  BY DEF Lexes
<1> DEFINE n == Len(w)
<1>1. n \in Nat \ {0} /\ n \in Nat /\ n <= n /\ o + n <= Len(line) /\ Text!LexAt(m, line, o + 1) = Text!Took(n, m2)
  BY DEF Stands, Takes
<1>2. (o + 1) + n = o + n + 1 /\ Taking(at, line, o, m, n, n, m2)
  BY <1>1 DEF Taking
<1> HIDE DEF n
<1>3. Taken(at[o + n], o, n, m2)
  BY <1>2, TakenAt
<1> QED
  BY <1>2, <1>3 DEF At, Taken, n

\* One text after the other.
LEMMA ReadsBoth ==
  ASSUME NEW m, NEW m2, NEW m3, NEW w \in Seq(Units), NEW z \in Seq(Units), z # <<>>,
         NEW N, NEW N2, Lexes(m, w, m2, N), Lexes(m2, z, m3, N2), z[1] \in N
  PROVE  Lexes(m, w \o z, m3, N2)
<1> SUFFICES ASSUME NEW line \in Seq(Units), NEW o \in Nat, NEW at, Runs(at, line), At(at[o], line, o, m),
                    Stands(w \o z, line, o), Before(N2, line, o + Len(w \o z))
             PROVE  At(at[o + Len(w \o z)], line, o + Len(w \o z), m3)
  BY DEF Lexes
<1> DEFINE p == o + Len(w)
<1>1. /\ Len(w) \in Nat /\ Len(z) \in Nat \ {0} /\ Len(w \o z) = Len(w) + Len(z)
      /\ \A i \in 1 .. Len(w) : (w \o z)[i] = w[i]
      /\ \A i \in 1 .. Len(z) : (w \o z)[Len(w) + i] = z[i]
  BY ConcatOf
<1>2. p \in Nat /\ o + Len(w \o z) = p + Len(z) /\ p + Len(z) <= Len(line)
  BY <1>1 DEF Stands
<1> DEFINE y == w \o z
<1>y. y = w \o z
  OBVIOUS
<1> HIDE DEF y
<1>s. Stands(y, line, o) /\ Len(y) = Len(w) + Len(z)
  BY <1>1 DEF y
<1>t. /\ \A i \in 1 .. Len(w) : y[i] = w[i]
      /\ \A i \in 1 .. Len(z) : y[Len(w) + i] = z[i]
  BY <1>1 DEF y
<1>3. Stands(w, line, o)
  BY <1>1, <1>2, <1>s, <1>t DEF Stands
<1>4. Stands(z, line, p)
  <2>1. p + Len(z) <= Len(line)
    BY <1>2
  <2> SUFFICES ASSUME NEW j \in 1 .. Len(z) PROVE line[p + j] = z[j]
    BY <2>1 DEF Stands
  <2>2. Len(w) + j \in 1 .. Len(y) /\ p + j = o + (Len(w) + j) /\ y[Len(w) + j] = z[j]
    BY <1>1, <1>s, <1>t
  <2> QED
    BY <1>s, <2>2 DEF Stands
<1>5. Before(N, line, p)
  BY <1>1, <1>4 DEF Before, Stands
<1>6. At(at[p], line, p, m2)
  BY <1>3, <1>5 DEF Lexes
<1>7. At(at[p + Len(z)], line, p + Len(z), m3)
  BY <1>2, <1>4, <1>6 DEF Lexes
<1> QED
  BY <1>2, <1>7

-----------------------------------------------------------------------------
(* What each text of a piece does to the lexer.                            *)

Single == Text!In("single")
Escape == Text!In("escape")
Double == Text!In("double")
Comment == Text!In("comment")
Block(depth) == [mode |-> "block", depth |-> depth, tag |-> <<>>]
Dollar(tag) == [mode |-> "dollar", depth |-> 0, tag |-> tag]

\* The modes are told apart.
LEMMA Modes ==
  /\ Text!Code = [mode |-> "code", depth |-> 0, tag |-> <<>>]
  /\ Single = [mode |-> "single", depth |-> 0, tag |-> <<>>]
  /\ Escape = [mode |-> "escape", depth |-> 0, tag |-> <<>>]
  /\ Double = [mode |-> "double", depth |-> 0, tag |-> <<>>]
  /\ Comment = [mode |-> "comment", depth |-> 0, tag |-> <<>>]
  BY DEF Text!Code, Text!In, Single, Escape, Double, Comment

\* What stands at a place.
LEMMA AheadOne ==
  ASSUME NEW line \in Seq(Units), NEW o \in Nat, NEW c, Stands(<<c>>, line, o)
  PROVE  o + 1 \in 1 .. Len(line) /\ line[o + 1] = c
  BY DEF Stands

\* What two units at a place say of the line.
LEMMA AheadTwo ==
  ASSUME NEW line \in Seq(Units), NEW o \in Nat, NEW c, NEW e
  PROVE  /\ Text!Ahead(line, o + 1, <<c, e>>) <=> o + 2 <= Len(line) /\ line[o + 1] = c /\ line[o + 2] = e
         /\ Stands(<<c, e>>, line, o) <=> o + 2 <= Len(line) /\ line[o + 1] = c /\ line[o + 2] = e
<1>1. Len(<<c, e>>) = 2 /\ <<c, e>>[1] = c /\ <<c, e>>[2] = e
  OBVIOUS
<1> DEFINE p == <<c, e>>
<1> HIDE DEF p
<1>2. Text!Ahead(line, o + 1, p) <=> o + 2 <= Len(line) /\ line[o + 1] = c /\ line[o + 2] = e
  <2>1. Len(p) = 2 /\ p[1] = c /\ p[2] = e
    BY <1>1 DEF p
  <2> QED
    BY <2>1 DEF Text!Ahead
<1>3. Stands(p, line, o) <=> o + 2 <= Len(line) /\ line[o + 1] = c /\ line[o + 2] = e
  <2>1. Len(p) = 2 /\ p[1] = c /\ p[2] = e
    BY <1>1 DEF p
  <2> QED
    BY <2>1 DEF Stands
<1> QED
  BY <1>2, <1>3 DEF p

\* What three units at a place say of the line.
LEMMA AheadThree ==
  ASSUME NEW line \in Seq(Units), NEW o \in Nat, NEW c, NEW e, NEW f
  PROVE  /\ Text!Ahead(line, o + 1, <<c, e, f>>)
              <=> o + 3 <= Len(line) /\ line[o + 1] = c /\ line[o + 2] = e /\ line[o + 3] = f
         /\ Stands(<<c, e, f>>, line, o)
              <=> o + 3 <= Len(line) /\ line[o + 1] = c /\ line[o + 2] = e /\ line[o + 3] = f
<1>1. Len(<<c, e, f>>) = 3 /\ <<c, e, f>>[1] = c /\ <<c, e, f>>[2] = e /\ <<c, e, f>>[3] = f
  OBVIOUS
<1> DEFINE p == <<c, e, f>>
<1> HIDE DEF p
<1>2. Len(p) = 3 /\ p[1] = c /\ p[2] = e /\ p[3] = f
  BY <1>1 DEF p
<1>3. Text!Ahead(line, o + 1, p) <=> o + 3 <= Len(line) /\ line[o + 1] = c /\ line[o + 2] = e /\ line[o + 3] = f
  BY <1>2 DEF Text!Ahead
<1>4. Stands(p, line, o) <=> o + 3 <= Len(line) /\ line[o + 1] = c /\ line[o + 2] = e /\ line[o + 3] = f
  BY <1>2 DEF Stands
<1> QED
  BY <1>3, <1>4 DEF p

\* Before a unit that is not c, c is not the next one.
LEMMA NotNext ==
  ASSUME NEW line \in Seq(Units), NEW o \in Nat, NEW c, NEW N, N \subseteq Units \ {c}, Before(N, line, o + 1)
  PROVE  o + 2 <= Len(line) => line[o + 2] # c
<1>1. o + 2 <= Len(line) => o + 1 # Len(line) /\ (o + 1) + 1 = o + 2
  OBVIOUS
<1> QED
  BY <1>1 DEF Before

\* A single unit that the lexer takes, and two of them.
LEMMA TokenOne ==
  ASSUME NEW m, NEW m2, NEW c, NEW N, m.mode # "comment", m2.mode # "comment",
         \A line \in Seq(Units), o \in Nat :
           Stands(<<c>>, line, o) /\ Before(N, line, o + 1) => Text!LexAt(m, line, o + 1) = Text!Took(1, m2)
  PROVE  Lexes(m, <<c>>, m2, N)
<1>1. Len(<<c>>) = 1
  OBVIOUS
<1>2. Takes(m, <<c>>, m2, N)
  BY <1>1, Zenon DEF Takes
<1>3. Len(<<c>>) \in Nat \ {0}
  OBVIOUS
<1> QED
  BY <1>2, <1>3, Token, Zenon

\* Two units that the lexer takes at once are read before any unit.
LEMMA TokenTwo ==
  ASSUME NEW m, NEW m2, NEW c, NEW e, m.mode # "comment", m2.mode # "comment",
         \A line \in Seq(Units), o \in Nat :
           Text!Ahead(line, o + 1, <<c, e>>) => Text!LexAt(m, line, o + 1) = Text!Took(2, m2)
  PROVE  Lexes(m, <<c, e>>, m2, Units)
<1>1. Len(<<c, e>>) = 2
  OBVIOUS
<1>2. \A line \in Seq(Units), o \in Nat : Stands(<<c, e>>, line, o) => Text!Ahead(line, o + 1, <<c, e>>)
  BY AheadTwo
<1>3. Takes(m, <<c, e>>, m2, Units)
  BY <1>1, <1>2, Zenon DEF Takes
<1>4. Len(<<c, e>>) \in Nat \ {0}
  OBVIOUS
<1> QED
  BY <1>3, <1>4, Token, Zenon

\* Inside a literal: the E before its quote makes the backslash special.
LEMMA ReadsQuoted ==
  ASSUME NEW m \in {Single, Escape}
  PROVE  /\ \A c \in Units : c # "q" /\ (m = Escape => c # "b") => Lexes(m, <<c>>, m, Units)
         /\ Lexes(m, <<"q", "q">>, m, Units)
         /\ Lexes(m, <<"q">>, Text!Code, Units \ {"q"})
<1>1. m.mode \in {"single", "escape"} /\ (m.mode = "escape" <=> m = Escape) /\ Text!Code.mode = "code"
  BY Modes
<1>2. \A line, i : Text!LexAt(m, line, i) = Text!InQuote(m, line, i, "q")
  BY <1>1 DEF Text!LexAt
<1>3. m.mode # "comment" /\ Text!Code.mode # "comment"
  BY <1>1
<1>4. ASSUME NEW c \in Units, c # "q", m = Escape => c # "b" PROVE Lexes(m, <<c>>, m, Units)
  <2>1. ASSUME NEW line \in Seq(Units), NEW o \in Nat, Stands(<<c>>, line, o)
        PROVE  Text!LexAt(m, line, o + 1) = Text!Took(1, m)
    <3>1. line[o + 1] = c /\ o + 1 \in 1 .. Len(line)
      BY <2>1, AheadOne
    <3>2. ~Text!Ahead(line, o + 1, <<"q", "q">>)
      BY <1>4, <3>1, AheadTwo
    <3> QED
      BY <1>1, <1>2, <1>4, <3>1, <3>2 DEF Text!InQuote
  <2> QED
    BY <1>3, <2>1, TokenOne
<1>5. Lexes(m, <<"q", "q">>, m, Units)
  <2>1. ASSUME NEW line \in Seq(Units), NEW o \in Nat, Text!Ahead(line, o + 1, <<"q", "q">>)
        PROVE  Text!LexAt(m, line, o + 1) = Text!Took(2, m)
    <3>1. line[o + 1] = "q"
      BY <2>1, AheadTwo
    <3> QED
      BY <1>2, <2>1, <3>1 DEF Text!InQuote
  <2> QED
    BY <1>3, <2>1, TokenTwo
<1>6. Lexes(m, <<"q">>, Text!Code, Units \ {"q"})
  <2>1. ASSUME NEW line \in Seq(Units), NEW o \in Nat, Stands(<<"q">>, line, o), Before(Units \ {"q"}, line, o + 1)
        PROVE  Text!LexAt(m, line, o + 1) = Text!Took(1, Text!Code)
    <3>1. line[o + 1] = "q" /\ o + 1 \in 1 .. Len(line)
      BY <2>1, AheadOne
    <3>2. ~Text!Ahead(line, o + 1, <<"q", "q">>)
      <4>1. o + 2 <= Len(line) => line[o + 2] # "q"
        BY <2>1, NotNext
      <4> QED
        BY <4>1, AheadTwo
    <3> QED
      BY <1>1, <1>2, <3>1, <3>2 DEF Text!InQuote
  <2> QED
    BY <1>3, <2>1, TokenOne
<1> QED
  BY <1>4, <1>5, <1>6

\* Behind a backslash in an escape string, a unit is taken with it; at the end of the line
\* there is none.
LEMMA ReadsEscaped ==
  /\ \A c \in Units : Lexes(Escape, <<"b", c>>, Escape, Units)
  /\ Lexes(Escape, <<"b">>, Escape, {})
<1>1. Escape.mode = "escape" /\ Escape.mode # "comment"
  BY Modes
<1>2. \A line, i : line[i] = "b" => Text!LexAt(Escape, line, i) = Text!Took(2, Escape)
  BY <1>1 DEF Text!LexAt, Text!InQuote
<1>3. ASSUME NEW c \in Units PROVE Lexes(Escape, <<"b", c>>, Escape, Units)
  <2>1. ASSUME NEW line \in Seq(Units), NEW o \in Nat, Text!Ahead(line, o + 1, <<"b", c>>)
        PROVE  Text!LexAt(Escape, line, o + 1) = Text!Took(2, Escape)
    BY <1>2, <2>1, AheadTwo
  <2> QED
    BY <1>1, <2>1, TokenTwo
<1>4. Lexes(Escape, <<"b">>, Escape, {})
  <2> SUFFICES ASSUME NEW line \in Seq(Units), NEW o \in Nat, NEW at, Runs(at, line), At(at[o], line, o, Escape),
                      Stands(<<"b">>, line, o), Before({}, line, o + 1)
               PROVE  At(at[o + 1], line, o + 1, Escape)
    <3>1. Len(<<"b">>) = 1
      OBVIOUS
    <3> QED
      BY <3>1 DEF Lexes
  <2>1. o + 1 = Len(line) /\ line[o + 1] = "b" /\ (o + 1) - 1 = o /\ o + 1 \in 1 .. Len(line)
    BY AheadOne DEF Before
  <2>2. at[o].lex = Escape /\ at[o].next = o + 1
    BY <1>1, <2>1 DEF At
  <2>3. at[o + 1] = Text!Step(at[o], line, o + 1)
    BY <2>1 DEF Runs
  <2>4. Text!LexAt(Escape, line, o + 1) = [take |-> 2, lex |-> Escape]
    BY <1>2, <2>1 DEF Text!Took
  <2>5. at[o + 1] = [next |-> (o + 1) + Text!LexAt(Escape, line, o + 1).take,
                     lex |-> Text!LexAt(Escape, line, o + 1).lex]
    <3>1. ~(o + 1 < at[o].next)
      BY <2>2
    <3> QED
      BY <2>2, <2>3, <3>1, Zenon DEF Text!Step
  <2>6. at[o + 1].next = o + 3 /\ at[o + 1].lex = Escape
    <3>1. Text!LexAt(Escape, line, o + 1).take = 2 /\ Text!LexAt(Escape, line, o + 1).lex = Escape
      BY <2>4
    <3> QED
      BY <2>5, <3>1
  <2> QED
    BY <1>1, <2>1, <2>6 DEF At
<1> QED
  BY <1>3, <1>4

\* Inside a quoted name.
LEMMA ReadsName ==
  /\ \A c \in Units : c # "d" => Lexes(Double, <<c>>, Double, Units)
  /\ Lexes(Double, <<"d", "d">>, Double, Units)
  /\ Lexes(Double, <<"d">>, Text!Code, Units \ {"d"})
<1>1. Double.mode = "double" /\ Text!Code.mode = "code"
  BY Modes
<1>2. \A line, i : Text!LexAt(Double, line, i) = Text!InQuote(Double, line, i, "d")
  BY <1>1 DEF Text!LexAt
<1>3. Double.mode # "comment" /\ Text!Code.mode # "comment" /\ Double.mode # "escape"
  BY <1>1
<1>4. ASSUME NEW c \in Units, c # "d" PROVE Lexes(Double, <<c>>, Double, Units)
  <2>1. ASSUME NEW line \in Seq(Units), NEW o \in Nat, Stands(<<c>>, line, o)
        PROVE  Text!LexAt(Double, line, o + 1) = Text!Took(1, Double)
    <3>1. line[o + 1] = c /\ o + 1 \in 1 .. Len(line)
      BY <2>1, AheadOne
    <3>2. ~Text!Ahead(line, o + 1, <<"d", "d">>)
      BY <1>4, <3>1, AheadTwo
    <3> QED
      BY <1>2, <1>3, <1>4, <3>1, <3>2 DEF Text!InQuote
  <2> QED
    BY <1>3, <2>1, TokenOne
<1>5. Lexes(Double, <<"d", "d">>, Double, Units)
  <2>1. ASSUME NEW line \in Seq(Units), NEW o \in Nat, Text!Ahead(line, o + 1, <<"d", "d">>)
        PROVE  Text!LexAt(Double, line, o + 1) = Text!Took(2, Double)
    BY <1>2, <1>3, <2>1 DEF Text!InQuote
  <2> QED
    BY <1>3, <2>1, TokenTwo
<1>6. Lexes(Double, <<"d">>, Text!Code, Units \ {"d"})
  <2>1. ASSUME NEW line \in Seq(Units), NEW o \in Nat, Stands(<<"d">>, line, o), Before(Units \ {"d"}, line, o + 1)
        PROVE  Text!LexAt(Double, line, o + 1) = Text!Took(1, Text!Code)
    <3>1. line[o + 1] = "d" /\ o + 1 \in 1 .. Len(line)
      BY <2>1, AheadOne
    <3>2. ~Text!Ahead(line, o + 1, <<"d", "d">>)
      <4>1. o + 2 <= Len(line) => line[o + 2] # "d"
        BY <2>1, NotNext
      <4> QED
        BY <4>1, AheadTwo
    <3> QED
      BY <1>2, <1>3, <3>1, <3>2 DEF Text!InQuote
  <2> QED
    BY <1>3, <2>1, TokenOne
<1> QED
  BY <1>4, <1>5, <1>6

\* Inside a comment, which may contain another.
LEMMA ReadsBlock ==
  ASSUME NEW depth \in Nat \ {0}
  PROVE  /\ \A c \in Units : c \notin {"slash", "star"} => Lexes(Block(depth), <<c>>, Block(depth), Units)
         /\ Lexes(Block(depth), <<"slash", "star">>, Block(depth + 1), Units)
         /\ Lexes(Block(depth), <<"star", "slash">>, IF depth = 1 THEN Text!Code ELSE Block(depth - 1), Units)
<1> DEFINE m == Block(depth)
<1>1. m.mode = "block" /\ m.depth = depth /\ Text!Code.mode = "code" /\ \A d : Block(d).mode = "block"
  BY Modes DEF Block
<1>2. \A line, i : Text!LexAt(m, line, i) = Text!InBlock(m, line, i)
  BY <1>1 DEF Text!LexAt
<1>3. [m EXCEPT !.depth = @ + 1] = Block(depth + 1) /\ [m EXCEPT !.depth = @ - 1] = Block(depth - 1)
  BY DEF Block
<1>4. m.mode # "comment" /\ Block(depth + 1).mode # "comment" /\ (IF depth = 1 THEN Text!Code ELSE Block(depth - 1)).mode # "comment"
  BY <1>1
<1> HIDE DEF m
<1>5. ASSUME NEW c \in Units, c \notin {"slash", "star"} PROVE Lexes(m, <<c>>, m, Units)
  <2>1. ASSUME NEW line \in Seq(Units), NEW o \in Nat, Stands(<<c>>, line, o)
        PROVE  Text!LexAt(m, line, o + 1) = Text!Took(1, m)
    <3>1. line[o + 1] = c /\ o + 1 \in 1 .. Len(line)
      BY <2>1, AheadOne
    <3>2. ~Text!Ahead(line, o + 1, <<"slash", "star">>) /\ ~Text!Ahead(line, o + 1, <<"star", "slash">>)
      BY <1>5, <3>1, AheadTwo
    <3> QED
      BY <1>2, <3>2 DEF Text!InBlock
  <2> QED
    BY <1>4, <2>1, TokenOne
<1>6. Lexes(m, <<"slash", "star">>, Block(depth + 1), Units)
  <2>1. ASSUME NEW line \in Seq(Units), NEW o \in Nat, Text!Ahead(line, o + 1, <<"slash", "star">>)
        PROVE  Text!LexAt(m, line, o + 1) = Text!Took(2, Block(depth + 1))
    <3>0. line[o + 1] = "slash" /\ (Text!Ahead(line, o + 1, <<"star", "slash">>) => line[o + 1] = "star")
      BY <2>1, AheadTwo
    <3>1. ~Text!Ahead(line, o + 1, <<"star", "slash">>)
      BY <3>0
    <3> QED
      BY <1>2, <1>3, <2>1, <3>1 DEF Text!InBlock
  <2> QED
    BY <1>4, <2>1, TokenTwo
<1>7. Lexes(m, <<"star", "slash">>, IF depth = 1 THEN Text!Code ELSE Block(depth - 1), Units)
  <2> DEFINE m2 == IF depth = 1 THEN Text!Code ELSE Block(depth - 1)
  <2>1. ASSUME NEW line \in Seq(Units), NEW o \in Nat, Text!Ahead(line, o + 1, <<"star", "slash">>)
        PROVE  Text!LexAt(m, line, o + 1) = Text!Took(2, m2)
    <3>0. line[o + 1] = "star" /\ (Text!Ahead(line, o + 1, <<"slash", "star">>) => line[o + 1] = "slash")
      BY <2>1, AheadTwo
    <3>1. ~Text!Ahead(line, o + 1, <<"slash", "star">>)
      BY <3>0
    <3>2. m2 = IF m.depth = 1 THEN Text!Code ELSE [m EXCEPT !.depth = @ - 1]
      BY <1>1, <1>3 DEF m
    <3> HIDE DEF m2
    <3> QED
      BY <1>2, <2>1, <3>1, <3>2 DEF Text!InBlock
  <2>2. m2.mode # "comment"
    BY <1>4
  <2> HIDE DEF m2
  <2>3. Lexes(m, <<"star", "slash">>, m2, Units)
    BY <1>4, <2>1, <2>2, TokenTwo
  <2> QED
    BY <2>3 DEF m2
<1> QED
  BY <1>5, <1>6, <1>7 DEF m

\* Inside a body in dollar quotes.
LEMMA ReadsBody ==
  ASSUME NEW tag \in {<<"dollar", "dollar">>, <<"dollar", "t", "dollar">>}
  PROVE  /\ \A c \in Units : c # "dollar" => Lexes(Dollar(tag), <<c>>, Dollar(tag), Units)
         /\ Lexes(Dollar(tag), <<"dollar">>, Dollar(tag), Units \ {tag[2]})
         /\ Lexes(Dollar(tag), tag, Text!Code, Units)
<1> DEFINE m == Dollar(tag)
<1>1. m.mode = "dollar" /\ m.tag = tag /\ Text!Code.mode = "code"
  BY Modes DEF Dollar
<1>2. \A line, i : Text!LexAt(m, line, i) = Text!InDollar(m, line, i)
  BY <1>1 DEF Text!LexAt
<1>3. m.mode # "comment" /\ Text!Code.mode # "comment"
  BY <1>1
<1>4. tag[1] = "dollar" /\ Len(tag) \in {2, 3}
  OBVIOUS
<1>5. \A line \in Seq(Units), o \in Nat : Text!Ahead(line, o + 1, tag) => Stands(tag, line, o) /\ line[o + 1] = "dollar" /\ o + 2 <= Len(line) /\ line[o + 2] = tag[2]
  <2> TAKE line \in Seq(Units), o \in Nat
  <2>1. CASE tag = <<"dollar", "dollar">>
    BY <2>1, AheadTwo
  <2>2. CASE tag = <<"dollar", "t", "dollar">>
    <3>1. Text!Ahead(line, o + 1, <<"dollar", "t", "dollar">>)
            => /\ Stands(<<"dollar", "t", "dollar">>, line, o)
               /\ o + 3 <= Len(line) /\ line[o + 1] = "dollar" /\ line[o + 2] = "t"
      BY AheadThree, Zenon
    <3>2. o + 3 <= Len(line) => o + 2 <= Len(line)
      OBVIOUS
    <3>3. tag[2] = "t"
      BY <2>2
    <3> QED
      BY <2>2, <3>1, <3>2, <3>3, Zenon
  <2> QED
    BY <2>1, <2>2
<1>6. \A line \in Seq(Units), o \in Nat : Stands(tag, line, o) => Text!Ahead(line, o + 1, tag)
  <2> TAKE line \in Seq(Units), o \in Nat
  <2>1. CASE tag = <<"dollar", "dollar">>
    BY <2>1, AheadTwo
  <2>2. CASE tag = <<"dollar", "t", "dollar">>
    <3>1. Stands(<<"dollar", "t", "dollar">>, line, o) => Text!Ahead(line, o + 1, <<"dollar", "t", "dollar">>)
      BY AheadThree, Zenon
    <3> QED
      BY <2>2, <3>1, Zenon
  <2> QED
    BY <2>1, <2>2
<1> HIDE DEF m
<1>7. ASSUME NEW c \in Units, c # "dollar" PROVE Lexes(m, <<c>>, m, Units)
  <2>1. ASSUME NEW line \in Seq(Units), NEW o \in Nat, Stands(<<c>>, line, o)
        PROVE  Text!LexAt(m, line, o + 1) = Text!Took(1, m)
    <3>1. line[o + 1] = c
      BY <2>1, AheadOne
    <3>2. ~Text!Ahead(line, o + 1, tag)
      BY <1>5, <1>7, <3>1
    <3> QED
      BY <1>1, <1>2, <3>2 DEF Text!InDollar
  <2> QED
    BY <1>3, <2>1, TokenOne
<1>8. Lexes(m, <<"dollar">>, m, Units \ {tag[2]})
  <2>1. ASSUME NEW line \in Seq(Units), NEW o \in Nat, Before(Units \ {tag[2]}, line, o + 1)
        PROVE  Text!LexAt(m, line, o + 1) = Text!Took(1, m)
    <3>1. o + 2 <= Len(line) => line[o + 2] # tag[2]
      BY <2>1, NotNext
    <3>2. ~Text!Ahead(line, o + 1, tag)
      BY <1>5, <3>1
    <3> QED
      BY <1>1, <1>2, <3>2 DEF Text!InDollar
  <2> QED
    BY <1>3, <2>1, TokenOne
<1>9. Lexes(m, tag, Text!Code, Units)
  <2>1. Takes(m, tag, Text!Code, Units)
    BY <1>1, <1>2, <1>6 DEF Takes, Text!InDollar
  <2> QED
    BY <1>3, <1>4, <2>1, Token
<1> QED
  BY <1>7, <1>8, <1>9 DEF m

\* In code, what the next two units do not begin.
LEMMA InCodeMeans ==
  ASSUME NEW line \in Seq(Units), NEW o \in Nat, o + 1 <= Len(line)
  PROVE  LET c == line[o + 1]
             second(e) == o + 2 <= Len(line) /\ line[o + 2] = e
         IN /\ c \notin {"minus", "slash", "q", "d", "dollar"} => Text!LexAt(Text!Code, line, o + 1) = Text!Took(1, Text!Code)
            /\ c = "minus" /\ ~second("minus") => Text!LexAt(Text!Code, line, o + 1) = Text!Took(1, Text!Code)
            /\ c = "minus" /\ second("minus") => Text!LexAt(Text!Code, line, o + 1) = Text!Took(Len(line), Comment)
            /\ c = "slash" /\ second("star") => Text!LexAt(Text!Code, line, o + 1) = Text!Took(2, Block(1))
            /\ c = "q" => Text!LexAt(Text!Code, line, o + 1) = Text!Took(1, Text!In(Text!QuoteMode(line, o + 1)))
            /\ c = "d" => Text!LexAt(Text!Code, line, o + 1) = Text!Took(1, Double)
            /\ c = "dollar" => LET tag == Text!DollarTag(line, o + 1)
                               IN Text!LexAt(Text!Code, line, o + 1)
                                    = IF tag = <<>> THEN Text!Took(1, Text!Code) ELSE Text!Took(Len(tag), Dollar(tag))
<1> DEFINE c == line[o + 1]
           second(e) == o + 2 <= Len(line) /\ line[o + 2] = e
           dash == Text!Ahead(line, o + 1, <<"minus", "minus">>)
           open == Text!Ahead(line, o + 1, <<"slash", "star">>)
           tag == Text!DollarTag(line, o + 1)
<1>1. Text!LexAt(Text!Code, line, o + 1) = Text!InCode(line, o + 1)
  BY Modes DEF Text!LexAt
<1>2. dash <=> c = "minus" /\ second("minus")
  BY AheadTwo
<1>3. open <=> c = "slash" /\ second("star")
  <2>1. open <=> o + 2 <= Len(line) /\ c = "slash" /\ line[o + 2] = "star"
    BY AheadTwo, Zenon
  <2> QED
    BY <2>1, Zenon
<1>4. [Text!In("block") EXCEPT !.depth = 1] = Block(1) /\ \A t : [Text!In("dollar") EXCEPT !.tag = t] = Dollar(t)
  <2>1. Text!In("block") = [mode |-> "block", depth |-> 0, tag |-> <<>>]
    BY DEF Text!In, Text!Code
  <2>2. Text!In("dollar") = [mode |-> "dollar", depth |-> 0, tag |-> <<>>]
    BY DEF Text!In, Text!Code
  <2> DEFINE none == <<>>
  <2> HIDE DEF none
  <2>3. [[mode |-> "block", depth |-> 0, tag |-> none] EXCEPT !.depth = 1] = [mode |-> "block", depth |-> 1, tag |-> none]
    OBVIOUS
  <2>4. \A t : [[mode |-> "dollar", depth |-> 0, tag |-> none] EXCEPT !.tag = t] = [mode |-> "dollar", depth |-> 0, tag |-> t]
    OBVIOUS
  <2>5. none = <<>>
    BY DEF none
  <2> QED
    BY <2>1, <2>2, <2>3, <2>4, <2>5, Zenon DEF Block, Dollar
<1>5. Text!InCode(line, o + 1) =
        CASE dash -> Text!Took(Len(line), Comment)
          [] open -> Text!Took(2, Block(1))
          [] c = "q" -> Text!Took(1, Text!In(Text!QuoteMode(line, o + 1)))
          [] c = "d" -> Text!Took(1, Double)
          [] c = "dollar" /\ tag # <<>> -> Text!Took(Len(tag), Dollar(tag))
          [] OTHER -> Text!Took(1, Text!Code)
  BY <1>4 DEF Text!InCode, Comment, Double
<1> HIDE DEF dash, open, tag, second, c
<1>6. "minus" # "slash" /\ "minus" # "q" /\ "minus" # "d" /\ "minus" # "dollar" /\ "slash" # "q" /\ "slash" # "d"
      /\ "slash" # "dollar" /\ "q" # "d" /\ "q" # "dollar" /\ "d" # "dollar"
  OBVIOUS
<1>7. c = "minus" /\ second("minus") => Text!InCode(line, o + 1) = Text!Took(Len(line), Comment)
  BY <1>2, <1>3, <1>5, <1>6
<1>8. c = "slash" /\ second("star") => Text!InCode(line, o + 1) = Text!Took(2, Block(1))
  BY <1>2, <1>3, <1>5, <1>6
<1>9. c = "q" => Text!InCode(line, o + 1) = Text!Took(1, Text!In(Text!QuoteMode(line, o + 1)))
  BY <1>2, <1>3, <1>5, <1>6
<1>10. c = "d" => Text!InCode(line, o + 1) = Text!Took(1, Double)
  BY <1>2, <1>3, <1>5, <1>6
<1>11. c = "dollar" => Text!InCode(line, o + 1) = IF tag = <<>> THEN Text!Took(1, Text!Code) ELSE Text!Took(Len(tag), Dollar(tag))
  BY <1>2, <1>3, <1>5, <1>6
<1>12. c = "minus" /\ ~second("minus") => Text!InCode(line, o + 1) = Text!Took(1, Text!Code)
  BY <1>2, <1>3, <1>5, <1>6
<1>13. c \notin {"minus", "slash", "q", "d", "dollar"} => Text!InCode(line, o + 1) = Text!Took(1, Text!Code)
  BY <1>2, <1>3, <1>5, <1>6
<1> QED
  BY <1>1, <1>7, <1>8, <1>9, <1>10, <1>11, <1>12, <1>13 DEF c, second, tag

\* A dollar tag.
LEMMA DollarTags ==
  ASSUME NEW line \in Seq(Units), NEW o \in Nat, o + 2 <= Len(line), line[o + 1] = "dollar"
  PROVE  /\ line[o + 2] = "1" => Text!DollarTag(line, o + 1) = <<>>
         /\ line[o + 2] = "dollar" => Text!DollarTag(line, o + 1) = <<"dollar", "dollar">>
         /\ o + 3 <= Len(line) /\ line[o + 2] = "t" /\ line[o + 3] = "dollar"
              => Text!DollarTag(line, o + 1) = <<"dollar", "t", "dollar">>
<1> DEFINE i == o + 1
           ends == {j \in i + 1 .. Len(line) :
                      /\ line[j] = "dollar" /\ \A k \in i + 1 .. j - 1 : line[k] \in Text!IdentChars
                      /\ line[i + 1] # "1"}
<1>1. Text!DollarTag(line, i) = IF ends = {} THEN <<>> ELSE SubSeq(line, i, CHOOSE j \in ends : TRUE)
  BY Zenon DEF Text!DollarTag
<1>2. i \in Nat /\ i + 1 = o + 2
  OBVIOUS
<1>3. "dollar" \notin Text!IdentChars
  BY DEF Text!IdentChars
<1>4. \A j : ends = {j} => Text!DollarTag(line, i) = SubSeq(line, i, j)
  <2> HIDE DEF ends
  <2> TAKE j
  <2> SUFFICES ASSUME ends = {j} PROVE (CHOOSE x \in ends : TRUE) = j /\ ends # {}
    BY <1>1
  <2> QED
    OBVIOUS
<1>5. CASE line[o + 2] = "1"
  <2>1. ends = {}
    BY <1>2, <1>5
  <2>2. line[o + 2] # "dollar" /\ line[o + 2] # "t"
    BY <1>5
  <2> HIDE DEF ends
  <2> QED
    BY <1>1, <2>1, <2>2
<1>6. CASE line[o + 2] = "dollar"
  <2>1. o + 2 \in ends
    BY <1>2, <1>6
  <2>2. \A j \in ends : j = o + 2
    <3> SUFFICES ASSUME NEW j \in i + 1 .. Len(line), j # o + 2, \A k \in i + 1 .. j - 1 : line[k] \in Text!IdentChars
                 PROVE  FALSE
      OBVIOUS
    <3>1. o + 2 \in i + 1 .. j - 1
      BY <1>2
    <3> QED
      BY <1>3, <1>6, <3>1
  <2>3. ends = {o + 2}
    <3> HIDE DEF ends
    <3> QED
      BY <2>1, <2>2
  <2>4. SubSeq(line, i, o + 2) = <<"dollar", "dollar">>
    <3> DEFINE t == SubSeq(line, i, o + 2)
    <3>1. t \in Seq(Units) /\ Len(t) = 2 /\ t[1] = line[o + 1] /\ t[2] = line[o + 2]
      BY <1>2
    <3> HIDE DEF t
    <3>2. t = <<t[1], t[2]>>
      BY <3>1
    <3>3. t = <<"dollar", "dollar">>
      BY <1>6, <3>1, <3>2, Zenon
    <3> QED
      BY <3>3 DEF t
  <2> HIDE DEF ends
  <2> QED
    BY <1>4, <1>6, <2>3, <2>4
<1>7. CASE o + 3 <= Len(line) /\ line[o + 2] = "t" /\ line[o + 3] = "dollar"
  <2>1. o + 3 \in ends
    <3>1. \A k \in i + 1 .. (o + 3) - 1 : k = o + 2
      BY <1>2
    <3>2. "t" \in Text!IdentChars /\ "t" # "1"
      BY DEF Text!IdentChars
    <3> QED
      BY <1>2, <1>7, <3>1, <3>2
  <2>2. \A j \in ends : j = o + 3
    <3> SUFFICES ASSUME NEW j \in i + 1 .. Len(line), j # o + 3, line[j] = "dollar", \A k \in i + 1 .. j - 1 : line[k] \in Text!IdentChars
                 PROVE  FALSE
      OBVIOUS
    <3>1. j # o + 2
      BY <1>7
    <3>2. o + 3 \in i + 1 .. j - 1
      BY <1>2, <3>1
    <3> QED
      BY <1>3, <1>7, <3>2
  <2>3. ends = {o + 3}
    <3> HIDE DEF ends
    <3> QED
      BY <2>1, <2>2
  <2>4. SubSeq(line, i, o + 3) = <<"dollar", "t", "dollar">>
    <3> DEFINE t == SubSeq(line, i, o + 3)
    <3>1. t \in Seq(Units) /\ Len(t) = 3 /\ t[1] = line[o + 1] /\ t[2] = line[o + 2] /\ t[3] = line[o + 3]
      BY <1>2, <1>7
    <3> HIDE DEF t
    <3>2. t = <<t[1], t[2], t[3]>>
      BY <3>1
    <3>3. t = <<"dollar", "t", "dollar">>
      BY <1>7, <3>1, <3>2, Zenon
    <3> QED
      BY <3>3 DEF t
  <2>5. line[o + 2] # "dollar" /\ line[o + 2] # "1"
    BY <1>7
  <2> HIDE DEF ends
  <2> QED
    BY <1>4, <2>3, <2>4, <2>5
<1> QED
  BY <1>5, <1>6, <1>7

\* Code that opens nothing.
LEMMA ReadsCode ==
  /\ \A c \in Units : c \notin {"minus", "slash", "q", "d", "dollar"} => Lexes(Text!Code, <<c>>, Text!Code, Units)
  /\ Lexes(Text!Code, <<"minus">>, Text!Code, Units \ {"minus"})
  /\ Lexes(Text!Code, <<"dollar">>, Text!Code, {"1"})
<1>1. Text!Code.mode # "comment"
  BY Modes
<1>2. ASSUME NEW c \in Units, c \notin {"minus", "slash", "q", "d", "dollar"} PROVE Lexes(Text!Code, <<c>>, Text!Code, Units)
  <2>1. ASSUME NEW line \in Seq(Units), NEW o \in Nat, Stands(<<c>>, line, o)
        PROVE  Text!LexAt(Text!Code, line, o + 1) = Text!Took(1, Text!Code)
    <3>1. line[o + 1] = c /\ o + 1 <= Len(line)
      BY <2>1, AheadOne
    <3> QED
      BY <1>2, <3>1, InCodeMeans, Zenon
  <2> QED
    BY <1>1, <2>1, TokenOne
<1>3. Lexes(Text!Code, <<"minus">>, Text!Code, Units \ {"minus"})
  <2>1. ASSUME NEW line \in Seq(Units), NEW o \in Nat, Stands(<<"minus">>, line, o), Before(Units \ {"minus"}, line, o + 1)
        PROVE  Text!LexAt(Text!Code, line, o + 1) = Text!Took(1, Text!Code)
    <3>1. line[o + 1] = "minus" /\ o + 1 <= Len(line)
      BY <2>1, AheadOne
    <3>2. ~(o + 2 <= Len(line) /\ line[o + 2] = "minus")
      BY <2>1, NotNext
    <3> QED
      BY <3>1, <3>2, InCodeMeans, Zenon
  <2> QED
    BY <1>1, <2>1, TokenOne
<1>4. Lexes(Text!Code, <<"dollar">>, Text!Code, {"1"})
  <2>1. ASSUME NEW line \in Seq(Units), NEW o \in Nat, Stands(<<"dollar">>, line, o), Before({"1"}, line, o + 1)
        PROVE  Text!LexAt(Text!Code, line, o + 1) = Text!Took(1, Text!Code)
    <3>1. line[o + 1] = "dollar" /\ o + 1 \in 1 .. Len(line)
      BY <2>1, AheadOne
    <3>2. Text!DollarTag(line, o + 1) = <<>>
      <4>1. CASE o + 2 <= Len(line)
        <5>1. line[o + 2] = "1"
          <6>1. o + 1 # Len(line) /\ (o + 1) + 1 = o + 2
            BY <4>1
          <6> QED
            BY <2>1, <6>1 DEF Before
        <5> QED
          BY <3>1, <4>1, <5>1, DollarTags
      <4>2. CASE ~(o + 2 <= Len(line))
        <5> DEFINE ends == {j \in (o + 1) + 1 .. Len(line) :
                              /\ line[j] = "dollar" /\ \A k \in (o + 1) + 1 .. j - 1 : line[k] \in Text!IdentChars
                              /\ line[(o + 1) + 1] # "1"}
        <5>1. ends = {}
          BY <4>2
        <5>2. Text!DollarTag(line, o + 1) = IF ends = {} THEN <<>> ELSE SubSeq(line, o + 1, CHOOSE j \in ends : TRUE)
          BY Zenon DEF Text!DollarTag
        <5> HIDE DEF ends
        <5> QED
          BY <5>1, <5>2
      <4> QED
        BY <4>1, <4>2
    <3>3. o + 1 <= Len(line)
      BY <3>1
    <3> QED
      BY <3>1, <3>2, <3>3, InCodeMeans, Zenon
  <2> QED
    BY <1>1, <2>1, TokenOne
<1> QED
  BY <1>2, <1>3, <1>4

\* A comment to the end of the line hides whatever it holds.
LEMMA ReadsComment ==
  ASSUME NEW w \in Seq(Units)
  PROVE  Lexes(Comment, w, Comment, Units)
<1> SUFFICES ASSUME NEW line \in Seq(Units), NEW o \in Nat, NEW at, Runs(at, line), At(at[o], line, o, Comment),
                    Stands(w, line, o)
             PROVE  At(at[o + Len(w)], line, o + Len(w), Comment)
  BY DEF Lexes
<1>1. Comment.mode = "comment"
  BY Modes
<1>2. Len(w) \in Nat /\ o + Len(w) <= Len(line)
  BY DEF Stands
<1> DEFINE S == {k \in Nat : k <= Len(w) => At(at[o + k], line, o + k, Comment)}
<1>3. 0 \in S
  OBVIOUS
<1>4. ASSUME NEW k \in Nat, k \in S PROVE k + 1 \in S
  <2> SUFFICES ASSUME k + 1 <= Len(w) PROVE At(at[o + (k + 1)], line, o + (k + 1), Comment)
    OBVIOUS
  <2>1. At(at[o + k], line, o + k, Comment)
    BY <1>4, <1>2
  <2>2. o + (k + 1) \in 1 .. Len(line) /\ o + (k + 1) - 1 = o + k
    BY <1>2
  <2>3. at[o + (k + 1)] = Text!Step(at[o + k], line, o + (k + 1))
    BY <2>2 DEF Runs
  <2>4. at[o + k].lex = Comment /\ at[o + k].next > Len(line)
    BY <1>1, <2>1 DEF At
  <2>5. Text!LexAt(Comment, line, o + (k + 1)) = [take |-> Len(line), lex |-> Comment]
    BY <1>1 DEF Text!LexAt, Text!Took
  <2>6. CASE o + (k + 1) < at[o + k].next
    <3>1. at[o + (k + 1)] = at[o + k]
      BY <2>3, <2>6, Zenon DEF Text!Step
    <3> QED
      BY <1>1, <2>4, <3>1 DEF At
  <2>7. CASE ~(o + (k + 1) < at[o + k].next)
    <3> DEFINE t == Text!LexAt(Comment, line, o + (k + 1))
    <3>1. at[o + (k + 1)] = [next |-> o + (k + 1) + t.take, lex |-> t.lex]
      BY <2>3, <2>4, <2>7, Zenon DEF Text!Step
    <3>2. t.take = Len(line) /\ t.lex = Comment
      BY <2>5
    <3> HIDE DEF t
    <3>3. at[o + (k + 1)].next = o + (k + 1) + Len(line) /\ at[o + (k + 1)].lex = Comment
      BY <3>1, <3>2
    <3> QED
      BY <1>1, <2>2, <3>3 DEF At
  <2> QED
    BY <2>6, <2>7
<1>5. Len(w) \in S
  <2> HIDE DEF S
  <2> QED
    BY <1>2, <1>3, <1>4, Induction
<1> QED
  BY <1>2, <1>5

-----------------------------------------------------------------------------
(* Openers, pieces and closers.                                            *)

\* A quote behind code, in the mode that what stands before it asks for.
LEMMA ReadsQuote ==
  ASSUME NEW w \in Seq(Units), NEW m2 \in {Single, Escape}, Lexes(Text!Code, w, Text!Code, Units),
         \A line \in Seq(Units), o \in Nat :
           Stands(w, line, o) => Text!In(Text!QuoteMode(line, o + Len(w) + 1)) = m2
  PROVE  Lexes(Text!Code, w \o <<"q">>, m2, Units)
<1> SUFFICES ASSUME NEW line \in Seq(Units), NEW o \in Nat, NEW at, Runs(at, line), At(at[o], line, o, Text!Code),
                    Stands(w \o <<"q">>, line, o)
             PROVE  At(at[o + Len(w \o <<"q">>)], line, o + Len(w \o <<"q">>), m2)
  BY DEF Lexes
<1> DEFINE p == o + Len(w)
           y == w \o <<"q">>
<1>1. Len(w) \in Nat /\ Len(y) = Len(w) + 1 /\ y[Len(w) + 1] = "q" /\ \A i \in 1 .. Len(w) : y[i] = w[i]
  OBVIOUS
<1> HIDE DEF y
<1>s. Stands(y, line, o)
  BY DEF y
<1>2. p \in Nat /\ o + Len(y) = p + 1 /\ p + 1 <= Len(line) /\ line[p + 1] = "q"
  BY <1>1, <1>s DEF Stands
<1>3. Stands(w, line, o)
  BY <1>1, <1>s DEF Stands
<1>4. Before(Units, line, p)
  BY <1>2 DEF Before
<1>5. At(at[p], line, p, Text!Code)
  BY <1>3, <1>4 DEF Lexes
<1>6. Text!In(Text!QuoteMode(line, p + 1)) = m2
  BY <1>3
<1> HIDE DEF p
<1>7. Text!LexAt(Text!Code, line, p + 1) = Text!Took(1, m2)
  <2>1. Text!LexAt(Text!Code, line, p + 1) = Text!Took(1, Text!In(Text!QuoteMode(line, p + 1)))
    BY <1>2, InCodeMeans, Zenon
  <2> QED
    BY <1>6, <2>1
<1>8. Taken(at[p + 1], p, 1, m2)
  <2>1. Text!Code.mode # "comment"
    BY Modes
  <2>2. Taking(at, line, p, Text!Code, 1, 1, m2)
    BY <1>2, <1>5, <1>7, <2>1 DEF Taking
  <2> QED
    BY <1>2, <2>2, TakenAt
<1>9. At(at[p + 1], line, p + 1, m2)
  <2>1. m2.mode # "comment"
    BY Modes
  <2> QED
    BY <1>2, <1>8, <2>1 DEF At, Taken
<1> QED
  BY <1>2, <1>9 DEF y

\* What opens in code without a look behind.
LEMMA ReadsOpening ==
  /\ Lexes(Text!Code, <<"d">>, Double, Units)
  /\ Lexes(Text!Code, <<"minus", "minus">>, Comment, Units)
  /\ Lexes(Text!Code, <<"slash", "star">>, Block(1), Units)
  /\ Lexes(Text!Code, <<"dollar", "dollar">>, Dollar(<<"dollar", "dollar">>), Units)
  /\ Lexes(Text!Code, <<"dollar", "t", "dollar">>, Dollar(<<"dollar", "t", "dollar">>), Units)
<1>1. /\ Text!Code.mode # "comment" /\ Double.mode # "comment" /\ Comment.mode = "comment" /\ Block(1).mode # "comment"
      /\ \A tag : Dollar(tag).mode # "comment"
  BY Modes DEF Block, Dollar
<1>2. Lexes(Text!Code, <<"d">>, Double, Units)
  <2>1. ASSUME NEW line \in Seq(Units), NEW o \in Nat, Stands(<<"d">>, line, o)
        PROVE  Text!LexAt(Text!Code, line, o + 1) = Text!Took(1, Double)
    <3>1. line[o + 1] = "d" /\ o + 1 <= Len(line)
      BY <2>1, AheadOne
    <3> QED
      BY <3>1, InCodeMeans, Zenon
  <2> QED
    BY <1>1, <2>1, TokenOne
<1>3. Lexes(Text!Code, <<"minus", "minus">>, Comment, Units)
  <2> SUFFICES ASSUME NEW line \in Seq(Units), NEW o \in Nat, NEW at, Runs(at, line), At(at[o], line, o, Text!Code),
                      Stands(<<"minus", "minus">>, line, o)
               PROVE  At(at[o + 2], line, o + 2, Comment)
    <3>1. Len(<<"minus", "minus">>) = 2
      OBVIOUS
    <3> QED
      BY <3>1 DEF Lexes
  <2>1. o + 2 <= Len(line) /\ line[o + 1] = "minus" /\ line[o + 2] = "minus"
    BY AheadTwo
  <2>2. o + 1 <= Len(line) /\ 2 <= Len(line) /\ Len(line) \in Nat /\ 2 \in Nat \ {0}
    BY <2>1
  <2>3. Text!LexAt(Text!Code, line, o + 1) = Text!Took(Len(line), Comment)
    BY <2>1, <2>2, InCodeMeans, Zenon
  <2>4. Taken(at[o + 2], o, Len(line), Comment)
    <3>1. Taking(at, line, o, Text!Code, 2, Len(line), Comment)
      BY <1>1, <2>1, <2>2, <2>3 DEF Taking
    <3> QED
      BY <3>1, TakenAt
  <2> QED
    BY <1>1, <2>2, <2>4 DEF At, Taken
<1>4. Lexes(Text!Code, <<"slash", "star">>, Block(1), Units)
  <2>1. ASSUME NEW line \in Seq(Units), NEW o \in Nat, Text!Ahead(line, o + 1, <<"slash", "star">>)
        PROVE  Text!LexAt(Text!Code, line, o + 1) = Text!Took(2, Block(1))
    <3>1. o + 2 <= Len(line) /\ line[o + 1] = "slash" /\ line[o + 2] = "star"
      BY <2>1, AheadTwo
    <3>2. o + 1 <= Len(line)
      BY <3>1
    <3> QED
      BY <3>1, <3>2, InCodeMeans, Zenon
  <2> QED
    BY <1>1, <2>1, TokenTwo
<1>5. ASSUME NEW tag, tag # <<>>, Len(tag) \in Nat \ {0},
             \A line \in Seq(Units), o \in Nat :
               Stands(tag, line, o) => /\ o + 2 <= Len(line) /\ line[o + 1] = "dollar"
                                       /\ Text!DollarTag(line, o + 1) = tag
      PROVE  Lexes(Text!Code, tag, Dollar(tag), Units)
  <2>1. ASSUME NEW line \in Seq(Units), NEW o \in Nat, Stands(tag, line, o)
        PROVE  Text!LexAt(Text!Code, line, o + 1) = Text!Took(Len(tag), Dollar(tag))
    <3>1. o + 2 <= Len(line) /\ line[o + 1] = "dollar" /\ Text!DollarTag(line, o + 1) = tag
      BY <1>5, <2>1
    <3>2. o + 1 <= Len(line)
      BY <3>1
    <3> QED
      BY <1>5, <3>1, <3>2, InCodeMeans, Zenon
  <2>2. Takes(Text!Code, tag, Dollar(tag), Units)
    BY <2>1 DEF Takes
  <2> QED
    BY <1>1, <1>5, <2>2, Token
<1>6. Lexes(Text!Code, <<"dollar", "dollar">>, Dollar(<<"dollar", "dollar">>), Units)
  <2> DEFINE tag == <<"dollar", "dollar">>
  <2>1. tag # <<>> /\ Len(tag) \in Nat \ {0}
    OBVIOUS
  <2>2. ASSUME NEW line \in Seq(Units), NEW o \in Nat, Stands(tag, line, o)
        PROVE  o + 2 <= Len(line) /\ line[o + 1] = "dollar" /\ Text!DollarTag(line, o + 1) = tag
    <3>1. o + 2 <= Len(line) /\ line[o + 1] = "dollar" /\ line[o + 2] = "dollar"
      BY <2>2, AheadTwo
    <3> QED
      BY <3>1, DollarTags
  <2> HIDE DEF tag
  <2>3. Lexes(Text!Code, tag, Dollar(tag), Units)
    BY <1>5, <2>1, <2>2
  <2> QED
    BY <2>3 DEF tag
<1>7. Lexes(Text!Code, <<"dollar", "t", "dollar">>, Dollar(<<"dollar", "t", "dollar">>), Units)
  <2> DEFINE tag == <<"dollar", "t", "dollar">>
  <2>1. tag # <<>> /\ Len(tag) \in Nat \ {0}
    OBVIOUS
  <2>2. ASSUME NEW line \in Seq(Units), NEW o \in Nat, Stands(tag, line, o)
        PROVE  o + 2 <= Len(line) /\ line[o + 1] = "dollar" /\ Text!DollarTag(line, o + 1) = tag
    <3>1. o + 3 <= Len(line) /\ line[o + 1] = "dollar" /\ line[o + 2] = "t" /\ line[o + 3] = "dollar"
      BY <2>2, AheadThree, Zenon
    <3>2. o + 2 <= Len(line)
      BY <3>1
    <3> QED
      BY <3>1, <3>2, DollarTags
  <2> HIDE DEF tag
  <2>3. Lexes(Text!Code, tag, Dollar(tag), Units)
    BY <1>5, <2>1, <2>2
  <2> QED
    BY <2>3 DEF tag
<1> QED
  BY <1>2, <1>3, <1>4, <1>6, <1>7

\* Short texts put together.
LEMMA Joined ==
  /\ \A a, b : <<a>> \o <<b>> = <<a, b>>
  /\ \A a, b, c : <<a>> \o <<b, c>> = <<a, b, c>>
  /\ \A a, b, c : <<a, b>> \o <<c>> = <<a, b, c>>
  /\ \A a, b, c, d : <<a>> \o <<b, c, d>> = <<a, b, c, d>>
  /\ \A a, b, c, d : <<a, b>> \o <<c, d>> = <<a, b, c, d>>
  /\ \A a, b, c, d : <<a, b, c>> \o <<d>> = <<a, b, c, d>>
<1>1. ASSUME NEW a, NEW b PROVE <<a>> \o <<b>> = <<a, b>>
  <2> DEFINE S == {a, b}
             w == <<a>>
             z == <<b>>
             y == w \o z
  <2>1. w \in Seq(S) /\ Len(w) = 1 /\ w[1] = a
    OBVIOUS
  <2>2. z \in Seq(S) /\ Len(z) = 1 /\ z[1] = b
    OBVIOUS
  <2> HIDE DEF S, w, z
  <2>3. /\ y \in Seq(S) /\ Len(y) = 2
        /\ \A i \in 1 .. 1 : y[i] = w[i]
        /\ \A i \in 1 .. 1 : y[1 + i] = z[i]
    <3>1. /\ y \in Seq(S) /\ Len(y) = Len(w) + Len(z)
          /\ \A i \in 1 .. Len(w) : y[i] = w[i]
          /\ \A i \in 1 .. Len(z) : y[Len(w) + i] = z[i]
      <4>1. w \in Seq(S) /\ z \in Seq(S)
        BY <2>1, <2>2
      <4> QED
        BY <4>1, ConcatOf
    <3> HIDE DEF y
    <3> QED
      BY <2>1, <2>2, <3>1
  <2> HIDE DEF y
  <2>4. y[1] = a /\ y[2] = b
    BY <2>1, <2>2, <2>3
  <2>5. y = <<a, b>>
    BY <2>3, <2>4
  <2> QED
    BY <2>5 DEF w, y, z
<1>2. ASSUME NEW a, NEW b, NEW c PROVE <<a>> \o <<b, c>> = <<a, b, c>>
  <2> DEFINE S == {a, b, c}
             w == <<a>>
             z == <<b, c>>
             y == w \o z
  <2>1. w \in Seq(S) /\ Len(w) = 1 /\ w[1] = a
    OBVIOUS
  <2>2. z \in Seq(S) /\ Len(z) = 2 /\ z[1] = b /\ z[2] = c
    OBVIOUS
  <2> HIDE DEF S, w, z
  <2>3. /\ y \in Seq(S) /\ Len(y) = 3
        /\ \A i \in 1 .. 1 : y[i] = w[i]
        /\ \A i \in 1 .. 2 : y[1 + i] = z[i]
    <3>1. /\ y \in Seq(S) /\ Len(y) = Len(w) + Len(z)
          /\ \A i \in 1 .. Len(w) : y[i] = w[i]
          /\ \A i \in 1 .. Len(z) : y[Len(w) + i] = z[i]
      <4>1. w \in Seq(S) /\ z \in Seq(S)
        BY <2>1, <2>2
      <4> QED
        BY <4>1, ConcatOf
    <3> HIDE DEF y
    <3> QED
      BY <2>1, <2>2, <3>1
  <2> HIDE DEF y
  <2>4. y[1] = a /\ y[2] = b /\ y[3] = c
    BY <2>1, <2>2, <2>3
  <2>5. y = <<a, b, c>>
    BY <2>3, <2>4
  <2> QED
    BY <2>5 DEF w, y, z
<1>3. ASSUME NEW a, NEW b, NEW c PROVE <<a, b>> \o <<c>> = <<a, b, c>>
  <2> DEFINE S == {a, b, c}
             w == <<a, b>>
             z == <<c>>
             y == w \o z
  <2>1. w \in Seq(S) /\ Len(w) = 2 /\ w[1] = a /\ w[2] = b
    OBVIOUS
  <2>2. z \in Seq(S) /\ Len(z) = 1 /\ z[1] = c
    OBVIOUS
  <2> HIDE DEF S, w, z
  <2>3. /\ y \in Seq(S) /\ Len(y) = 3
        /\ \A i \in 1 .. 2 : y[i] = w[i]
        /\ \A i \in 1 .. 1 : y[2 + i] = z[i]
    <3>1. /\ y \in Seq(S) /\ Len(y) = Len(w) + Len(z)
          /\ \A i \in 1 .. Len(w) : y[i] = w[i]
          /\ \A i \in 1 .. Len(z) : y[Len(w) + i] = z[i]
      <4>1. w \in Seq(S) /\ z \in Seq(S)
        BY <2>1, <2>2
      <4> QED
        BY <4>1, ConcatOf
    <3> HIDE DEF y
    <3> QED
      BY <2>1, <2>2, <3>1
  <2> HIDE DEF y
  <2>4. y[1] = a /\ y[2] = b /\ y[3] = c
    BY <2>1, <2>2, <2>3
  <2>5. y = <<a, b, c>>
    BY <2>3, <2>4
  <2> QED
    BY <2>5 DEF w, y, z
<1>4. ASSUME NEW a, NEW b, NEW c, NEW d PROVE <<a>> \o <<b, c, d>> = <<a, b, c, d>>
  <2> DEFINE S == {a, b, c, d}
             w == <<a>>
             z == <<b, c, d>>
             y == w \o z
  <2>1. w \in Seq(S) /\ Len(w) = 1 /\ w[1] = a
    OBVIOUS
  <2>2. z \in Seq(S) /\ Len(z) = 3 /\ z[1] = b /\ z[2] = c /\ z[3] = d
    OBVIOUS
  <2> HIDE DEF S, w, z
  <2>3. /\ y \in Seq(S) /\ Len(y) = 4
        /\ \A i \in 1 .. 1 : y[i] = w[i]
        /\ \A i \in 1 .. 3 : y[1 + i] = z[i]
    <3>1. /\ y \in Seq(S) /\ Len(y) = Len(w) + Len(z)
          /\ \A i \in 1 .. Len(w) : y[i] = w[i]
          /\ \A i \in 1 .. Len(z) : y[Len(w) + i] = z[i]
      <4>1. w \in Seq(S) /\ z \in Seq(S)
        BY <2>1, <2>2
      <4> QED
        BY <4>1, ConcatOf
    <3> HIDE DEF y
    <3> QED
      BY <2>1, <2>2, <3>1
  <2> HIDE DEF y
  <2>4. y[1] = a /\ y[2] = b /\ y[3] = c /\ y[4] = d
    BY <2>1, <2>2, <2>3
  <2>5. y = <<a, b, c, d>>
    BY <2>3, <2>4
  <2> QED
    BY <2>5 DEF w, y, z
<1>5. ASSUME NEW a, NEW b, NEW c, NEW d PROVE <<a, b>> \o <<c, d>> = <<a, b, c, d>>
  <2> DEFINE S == {a, b, c, d}
             w == <<a, b>>
             z == <<c, d>>
             y == w \o z
  <2>1. w \in Seq(S) /\ Len(w) = 2 /\ w[1] = a /\ w[2] = b
    OBVIOUS
  <2>2. z \in Seq(S) /\ Len(z) = 2 /\ z[1] = c /\ z[2] = d
    OBVIOUS
  <2> HIDE DEF S, w, z
  <2>3. /\ y \in Seq(S) /\ Len(y) = 4
        /\ \A i \in 1 .. 2 : y[i] = w[i]
        /\ \A i \in 1 .. 2 : y[2 + i] = z[i]
    <3>1. /\ y \in Seq(S) /\ Len(y) = Len(w) + Len(z)
          /\ \A i \in 1 .. Len(w) : y[i] = w[i]
          /\ \A i \in 1 .. Len(z) : y[Len(w) + i] = z[i]
      <4>1. w \in Seq(S) /\ z \in Seq(S)
        BY <2>1, <2>2
      <4> QED
        BY <4>1, ConcatOf
    <3> HIDE DEF y
    <3> QED
      BY <2>1, <2>2, <3>1
  <2> HIDE DEF y
  <2>4. y[1] = a /\ y[2] = b /\ y[3] = c /\ y[4] = d
    BY <2>1, <2>2, <2>3
  <2>5. y = <<a, b, c, d>>
    BY <2>3, <2>4
  <2> QED
    BY <2>5 DEF w, y, z
<1>6. ASSUME NEW a, NEW b, NEW c, NEW d PROVE <<a, b, c>> \o <<d>> = <<a, b, c, d>>
  <2> DEFINE S == {a, b, c, d}
             w == <<a, b, c>>
             z == <<d>>
             y == w \o z
  <2>1. w \in Seq(S) /\ Len(w) = 3 /\ w[1] = a /\ w[2] = b /\ w[3] = c
    OBVIOUS
  <2>2. z \in Seq(S) /\ Len(z) = 1 /\ z[1] = d
    OBVIOUS
  <2> HIDE DEF S, w, z
  <2>3. /\ y \in Seq(S) /\ Len(y) = 4
        /\ \A i \in 1 .. 3 : y[i] = w[i]
        /\ \A i \in 1 .. 1 : y[3 + i] = z[i]
    <3>1. /\ y \in Seq(S) /\ Len(y) = Len(w) + Len(z)
          /\ \A i \in 1 .. Len(w) : y[i] = w[i]
          /\ \A i \in 1 .. Len(z) : y[Len(w) + i] = z[i]
      <4>1. w \in Seq(S) /\ z \in Seq(S)
        BY <2>1, <2>2
      <4> QED
        BY <4>1, ConcatOf
    <3> HIDE DEF y
    <3> QED
      BY <2>1, <2>2, <3>1
  <2> HIDE DEF y
  <2>4. y[1] = a /\ y[2] = b /\ y[3] = c /\ y[4] = d
    BY <2>1, <2>2, <2>3
  <2>5. y = <<a, b, c, d>>
    BY <2>3, <2>4
  <2> QED
    BY <2>5 DEF w, y, z
<1> QED
  BY <1>1, <1>2, <1>3, <1>4, <1>5, <1>6

\* One unit after the other.
LEMMA ReadsPair ==
  ASSUME NEW m, NEW m2, NEW m3, NEW c \in Units, NEW e \in Units, NEW N, NEW N2,
         Lexes(m, <<c>>, m2, N), Lexes(m2, <<e>>, m3, N2), e \in N
  PROVE  Lexes(m, <<c, e>>, m3, N2)
<1>1. <<c>> \in Seq(Units) /\ <<e>> \in Seq(Units) /\ <<e>> # <<>> /\ <<e>>[1] = e /\ <<c>> \o <<e>> = <<c, e>>
  BY Joined
<1> DEFINE w == <<c>>
           z == <<e>>
<1>2. w \in Seq(Units) /\ z \in Seq(Units) /\ z # <<>> /\ z[1] \in N /\ Lexes(m, w, m2, N) /\ Lexes(m2, z, m3, N2)
  BY <1>1
<1>3. w \o z = <<c, e>>
  BY <1>1
<1> HIDE DEF w, z
<1>4. Lexes(m, w \o z, m3, N2)
  BY <1>2, ReadsBoth
<1> QED
  BY <1>3, <1>4

\* A unit, and a text behind it.
LEMMA ReadsBefore ==
  ASSUME NEW m, NEW m2, NEW m3, NEW c \in Units, NEW z \in Seq(Units), z # <<>>, NEW N2, NEW N,
         Lexes(m, <<c>>, m2, N), Lexes(m2, z, m3, N2), z[1] \in N
  PROVE  Lexes(m, <<c>> \o z, m3, N2)
<1> DEFINE w == <<c>>
<1>1. w \in Seq(Units)
  OBVIOUS
<1> HIDE DEF w
<1>2. Lexes(m, w \o z, m3, N2)
  <2>1. Lexes(m, w, m2, N)
    BY DEF w
  <2> QED
    BY <1>1, <2>1, ReadsBoth
<1> QED
  BY <1>2 DEF w

\* How the lexer reads the pieces of a kind.
Mode(kind) ==
  CASE kind = "code"    -> Text!Code
    [] kind = "string"  -> Single
    [] kind = "estring" -> Escape
    [] kind = "literal" -> Single
    [] kind = "name"    -> Double
    [] kind = "line"    -> Comment
    [] kind = "block"   -> Block(1)
    [] kind = "body"    -> Dollar(<<"dollar", "dollar">>)
    [] kind = "tagged"  -> Dollar(<<"dollar", "t", "dollar">>)

\* The openers that are told from another by what stands before the quote.
LEMMA ReadsOpenQuote ==
  /\ Lexes(Text!Code, <<"s", "q">>, Single, Units)
  /\ Lexes(Text!Code, <<"s", "e", "q">>, Escape, Units)
  /\ Lexes(Text!Code, <<"s", "x", "e", "q">>, Single, Units)
<1>0. /\ "s" \in Units /\ "x" \in Units /\ "e" \in Units /\ "s" \notin Text!IdentChars /\ "x" \in Text!IdentChars
      /\ <<"s">> \in Seq(Units) /\ <<"s", "e">> \in Seq(Units) /\ <<"s", "x", "e">> \in Seq(Units)
  BY DEF Units, Text!IdentChars
<1>1. Lexes(Text!Code, <<"s">>, Text!Code, Units) /\ Lexes(Text!Code, <<"x">>, Text!Code, Units)
      /\ Lexes(Text!Code, <<"e">>, Text!Code, Units)
  BY ReadsCode, <1>0
<1>2. Lexes(Text!Code, <<"s", "e">>, Text!Code, Units) /\ Lexes(Text!Code, <<"s", "x">>, Text!Code, Units)
  BY <1>0, <1>1, ReadsPair
<1>3. Lexes(Text!Code, <<"s", "x", "e">>, Text!Code, Units)
  <2> DEFINE w == <<"s", "x">>
             z == <<"e">>
  <2>1. w \in Seq(Units) /\ z \in Seq(Units) /\ z # <<>> /\ z[1] \in Units
    BY <1>0
  <2>2. w \o z = <<"s", "x", "e">>
    BY Joined
  <2>3. Lexes(Text!Code, w, Text!Code, Units) /\ Lexes(Text!Code, z, Text!Code, Units)
    BY <1>1, <1>2
  <2> HIDE DEF w, z
  <2>4. Lexes(Text!Code, w \o z, Text!Code, Units)
    BY <2>1, <2>3, ReadsBoth
  <2> QED
    BY <2>2, <2>4
<1>4. Lexes(Text!Code, <<"s", "q">>, Single, Units)
  <2> DEFINE w == <<"s">>
  <2>1. ASSUME NEW line \in Seq(Units), NEW o \in Nat, Stands(w, line, o)
        PROVE  Text!In(Text!QuoteMode(line, o + Len(w) + 1)) = Single
    <3>1. line[o + 1] = "s" /\ Len(w) = 1
      BY <2>1, AheadOne
    <3>2. (o + Len(w) + 1) - 1 = o + 1
      BY <3>1
    <3> QED
      BY <3>1, <3>2 DEF Text!QuoteMode, Single
  <2>2. w \in Seq(Units) /\ Lexes(Text!Code, w, Text!Code, Units)
    BY <1>0, <1>1
  <2>3. w \o <<"q">> = <<"s", "q">>
    BY Joined
  <2> HIDE DEF w
  <2>4. Lexes(Text!Code, w \o <<"q">>, Single, Units)
    BY <2>1, <2>2, ReadsQuote
  <2> QED
    BY <2>3, <2>4
<1>5. Lexes(Text!Code, <<"s", "e", "q">>, Escape, Units)
  <2> DEFINE w == <<"s", "e">>
  <2>1. ASSUME NEW line \in Seq(Units), NEW o \in Nat, Stands(w, line, o)
        PROVE  Text!In(Text!QuoteMode(line, o + Len(w) + 1)) = Escape
    <3>1. line[o + 1] = "s" /\ line[o + 2] = "e" /\ Len(w) = 2
      BY <2>1, AheadTwo
    <3>2. (o + Len(w) + 1) - 1 = o + 2 /\ (o + Len(w) + 1) - 2 = o + 1 /\ o + Len(w) + 1 > 1
      BY <3>1
    <3> QED
      BY <1>0, <3>1, <3>2 DEF Text!QuoteMode, Escape
  <2>2. w \in Seq(Units) /\ Lexes(Text!Code, w, Text!Code, Units)
    BY <1>0, <1>2
  <2>3. w \o <<"q">> = <<"s", "e", "q">>
    BY Joined
  <2> HIDE DEF w
  <2>4. Lexes(Text!Code, w \o <<"q">>, Escape, Units)
    BY <2>1, <2>2, ReadsQuote
  <2> QED
    BY <2>3, <2>4
<1>6. Lexes(Text!Code, <<"s", "x", "e", "q">>, Single, Units)
  <2> DEFINE w == <<"s", "x", "e">>
  <2>1. ASSUME NEW line \in Seq(Units), NEW o \in Nat, Stands(w, line, o)
        PROVE  Text!In(Text!QuoteMode(line, o + Len(w) + 1)) = Single
    <3>1. line[o + 2] = "x" /\ line[o + 3] = "e"
      BY <2>1, AheadThree, Zenon
    <3>2. Len(w) = 3
      OBVIOUS
    <3>3. (o + Len(w) + 1) - 1 = o + 3 /\ (o + Len(w) + 1) - 2 = o + 2 /\ o + Len(w) + 1 # 2
      BY <3>2
    <3> QED
      BY <1>0, <3>1, <3>3 DEF Text!QuoteMode, Single
  <2>2. w \in Seq(Units) /\ Lexes(Text!Code, w, Text!Code, Units)
    BY <1>0, <1>3
  <2>3. w \o <<"q">> = <<"s", "x", "e", "q">>
    BY Joined
  <2> HIDE DEF w
  <2>4. Lexes(Text!Code, w \o <<"q">>, Single, Units)
    BY <2>1, <2>2, ReadsQuote
  <2> QED
    BY <2>3, <2>4
<1> QED
  BY <1>4, <1>5, <1>6

\* An opener takes the lexer from code into what it opens.
LEMMA OpenerReads ==
  ASSUME NEW kind \in Text!Kinds
  PROVE  /\ Lexes(Text!Code, Text!Opener[kind], Mode(kind), Units)
         /\ Text!Opener[kind] \in Seq(Other) /\ Text!Opener[kind] # <<>> /\ Text!Opener[kind][1] = "s"
<1>0. "s" \in Units /\ Lexes(Text!Code, <<"s">>, Text!Code, Units)
  BY ReadsCode DEF Units
<1>1. CASE kind = "code"
  BY <1>0, <1>1 DEF Text!Opener, Mode, Other, Units
<1>2. CASE kind = "string"
  BY <1>2, ReadsOpenQuote DEF Text!Opener, Mode, Other, Units
<1>3. CASE kind = "estring"
  BY <1>3, ReadsOpenQuote DEF Text!Opener, Mode, Other, Units
<1>4. CASE kind = "literal"
  BY <1>4, ReadsOpenQuote DEF Text!Opener, Mode, Other, Units
<1>5. CASE kind = "name"
  <2>1. Lexes(Text!Code, <<"s", "d">>, Double, Units)
    <3>1. "d" \in Units /\ Lexes(Text!Code, <<"d">>, Double, Units)
      BY ReadsOpening DEF Units
    <3> QED
      BY <1>0, <3>1, ReadsPair
  <2> QED
    BY <1>5, <2>1 DEF Text!Opener, Mode, Other, Units
<1>6. ASSUME NEW z \in Seq(Units), z # <<>>, NEW m, Lexes(Text!Code, z, m, Units) PROVE Lexes(Text!Code, <<"s">> \o z, m, Units)
  <2>1. z[1] \in Units
    BY <1>6
  <2> QED
    BY <1>0, <1>6, <2>1, ReadsBefore
<1>7. CASE kind = "line"
  <2> DEFINE z == <<"minus", "minus">>
  <2>1. z \in Seq(Units) /\ z # <<>> /\ Lexes(Text!Code, z, Comment, Units) /\ <<"s">> \o z = <<"s", "minus", "minus">>
    BY ReadsOpening, Joined DEF Units
  <2> HIDE DEF z
  <2>2. Lexes(Text!Code, <<"s", "minus", "minus">>, Comment, Units)
    BY <1>6, <2>1
  <2> QED
    BY <1>7, <2>2 DEF Text!Opener, Mode, Other, Units
<1>8. CASE kind = "block"
  <2> DEFINE z == <<"slash", "star">>
  <2>1. z \in Seq(Units) /\ z # <<>> /\ Lexes(Text!Code, z, Block(1), Units) /\ <<"s">> \o z = <<"s", "slash", "star">>
    BY ReadsOpening, Joined DEF Units
  <2> HIDE DEF z
  <2>2. Lexes(Text!Code, <<"s", "slash", "star">>, Block(1), Units)
    BY <1>6, <2>1
  <2> QED
    BY <1>8, <2>2 DEF Text!Opener, Mode, Other, Units
<1>9. CASE kind = "body"
  <2> DEFINE z == <<"dollar", "dollar">>
  <2>1. z \in Seq(Units) /\ z # <<>> /\ Lexes(Text!Code, z, Dollar(z), Units) /\ <<"s">> \o z = <<"s", "dollar", "dollar">>
    BY ReadsOpening, Joined DEF Units
  <2>2. Mode(kind) = Dollar(z)
    BY <1>9 DEF Mode
  <2> HIDE DEF z
  <2>3. Lexes(Text!Code, <<"s", "dollar", "dollar">>, Mode(kind), Units)
    BY <1>6, <2>1, <2>2
  <2> QED
    BY <1>9, <2>3 DEF Text!Opener, Other, Units
<1>10. CASE kind = "tagged"
  <2> DEFINE z == <<"dollar", "t", "dollar">>
  <2>1. z \in Seq(Units) /\ z # <<>> /\ Lexes(Text!Code, z, Dollar(z), Units) /\ <<"s">> \o z = <<"s", "dollar", "t", "dollar">>
    BY ReadsOpening, Joined DEF Units
  <2>2. Mode(kind) = Dollar(z)
    BY <1>10 DEF Mode
  <2> HIDE DEF z
  <2>3. Lexes(Text!Code, <<"s", "dollar", "t", "dollar">>, Mode(kind), Units)
    BY <1>6, <2>1, <2>2
  <2> QED
    BY <1>10, <2>3 DEF Text!Opener, Other, Units
<1> QED
  BY <1>1, <1>2, <1>3, <1>4, <1>5, <1>7, <1>8, <1>9, <1>10 DEF Text!Kinds

\* A closer of one line takes the lexer back to code, if no second quote follows.
LEMMA CloserReads ==
  ASSUME NEW kind \in Text!Kinds
  PROVE  \/ kind = "code" /\ Text!Closer[kind] = <<>> /\ Mode(kind) = Text!Code
         \/ kind = "line" /\ Text!Closer[kind] = <<"n">> /\ Mode(kind) = Comment
         \/ /\ kind \notin {"code", "line"}
            /\ Text!Closer[kind] \in Seq(Other) /\ Text!Closer[kind] # <<>>
            /\ Lexes(Mode(kind), Text!Closer[kind], Text!Code, Units \ {"q", "d"})
<1>1. \A m, w, N : Lexes(m, w, Text!Code, N) /\ Units \ {"q", "d"} \subseteq N => Lexes(m, w, Text!Code, Units \ {"q", "d"})
  BY DEF Lexes, Before
<1>2. CASE kind \in {"string", "estring", "literal"}
  <2>1. Mode(kind) \in {Single, Escape} /\ Text!Closer[kind] = <<"q">>
    BY <1>2 DEF Mode, Text!Closer
  <2>2. Lexes(Mode(kind), <<"q">>, Text!Code, Units \ {"q"})
    BY <2>1, ReadsQuoted
  <2>3. Lexes(Mode(kind), <<"q">>, Text!Code, Units \ {"q", "d"})
    BY <1>1, <2>2
  <2>4. <<"q">> \in Seq(Other) /\ <<"q">> # <<>>
    BY DEF Other, Units
  <2> QED
    BY <1>2, <2>1, <2>3, <2>4
<1>3. CASE kind = "name"
  <2>1. Mode(kind) = Double /\ Text!Closer[kind] = <<"d">>
    BY <1>3 DEF Mode, Text!Closer
  <2>2. Lexes(Double, <<"d">>, Text!Code, Units \ {"d"})
    BY ReadsName
  <2>3. Lexes(Double, <<"d">>, Text!Code, Units \ {"q", "d"})
    BY <1>1, <2>2
  <2>4. <<"d">> \in Seq(Other) /\ <<"d">> # <<>>
    BY DEF Other, Units
  <2> QED
    BY <1>3, <2>1, <2>3, <2>4
<1>4. CASE kind = "block"
  <2>1. Mode(kind) = Block(1) /\ Text!Closer[kind] = <<"star", "slash">>
    BY <1>4 DEF Mode, Text!Closer
  <2>2. Lexes(Block(1), <<"star", "slash">>, Text!Code, Units)
    <3>1. 1 \in Nat \ {0}
      OBVIOUS
    <3>2. Lexes(Block(1), <<"star", "slash">>, IF 1 = 1 THEN Text!Code ELSE Block(1 - 1), Units)
      BY <3>1, ReadsBlock, Zenon
    <3> QED
      BY <3>2
  <2>3. Lexes(Block(1), <<"star", "slash">>, Text!Code, Units \ {"q", "d"})
    BY <1>1, <2>2
  <2>4. <<"star", "slash">> \in Seq(Other) /\ <<"star", "slash">> # <<>>
    BY DEF Other, Units
  <2> QED
    BY <1>4, <2>1, <2>3, <2>4
<1>5. CASE kind \in {"body", "tagged"}
  <2> DEFINE tag == Text!Closer[kind]
  <2>1. tag \in {<<"dollar", "dollar">>, <<"dollar", "t", "dollar">>} /\ Mode(kind) = Dollar(tag)
    BY <1>5 DEF Mode, Text!Closer
  <2>2. tag \in Seq(Other) /\ tag # <<>>
    <3>1. <<"dollar", "dollar">> \in Seq(Other) /\ <<"dollar", "dollar">> # <<>>
      BY DEF Other, Units
    <3>2. <<"dollar", "t", "dollar">> \in Seq(Other) /\ <<"dollar", "t", "dollar">> # <<>>
      BY DEF Other, Units
    <3> QED
      BY <2>1, <3>1, <3>2
  <2> HIDE DEF tag
  <2>3. Lexes(Mode(kind), tag, Text!Code, Units)
    BY <2>1, ReadsBody
  <2>4. Lexes(Mode(kind), tag, Text!Code, Units \ {"q", "d"})
    BY <1>1, <2>3
  <2> QED
    BY <1>5, <2>2, <2>4 DEF tag
<1>6. CASE kind \in {"code", "line"}
  BY <1>6 DEF Mode, Text!Closer
<1> QED
  BY <1>2, <1>3, <1>4, <1>5, <1>6 DEF Text!Kinds

\* The words of the statement are nothing to the lexer.
LEMMA StatementReads ==
  ASSUME NEW kind \in Text!Kinds, kind # "line"
  PROVE  Lexes(Mode(kind), <<"P">>, Mode(kind), Units)
<1>0. "P" \in Units
  BY DEF Units
<1>1. CASE kind = "code"
  BY <1>0, <1>1, ReadsCode DEF Mode
<1>2. CASE kind \in {"string", "estring", "literal"}
  <2>1. Mode(kind) \in {Single, Escape}
    BY <1>2 DEF Mode
  <2> QED
    BY <1>0, <2>1, ReadsQuoted
<1>3. CASE kind = "name"
  BY <1>0, <1>3, ReadsName DEF Mode
<1>4. CASE kind = "block"
  <2>1. 1 \in Nat \ {0}
    OBVIOUS
  <2>2. Lexes(Block(1), <<"P">>, Block(1), Units)
    BY <1>0, <2>1, ReadsBlock
  <2> QED
    BY <1>4, <2>2 DEF Mode
<1>5. CASE kind \in {"body", "tagged"}
  <2> DEFINE tag == Text!Closer[kind]
  <2>1. tag \in {<<"dollar", "dollar">>, <<"dollar", "t", "dollar">>} /\ Mode(kind) = Dollar(tag)
    BY <1>5 DEF Mode, Text!Closer
  <2> HIDE DEF tag
  <2> QED
    BY <1>0, <2>1, ReadsBody
<1> QED
  BY <1>1, <1>2, <1>3, <1>4, <1>5 DEF Text!Kinds

\* A piece without a line of its own: the lexer reads it and stays where it is.
Stays(m, p) == p \in Seq(Other) /\ Lexes(m, p, m, Units)

\* What two pieces of one unit do.
LEMMA StaysPair ==
  ASSUME NEW m, NEW c \in Other, NEW e \in Other, NEW N, Lexes(m, <<c>>, m, N), e \in N, Lexes(m, <<e>>, m, Units)
  PROVE  Stays(m, <<c, e>>)
<1>1. c \in Units /\ e \in Units
  BY DEF Other
<1>2. Lexes(m, <<c, e>>, m, Units)
  BY <1>1, ReadsPair
<1> QED
  BY <1>2 DEF Stays

\* The units by name.
LEMMA Named ==
  /\ Other = {"x", "e", "t", "1", "q", "d", "b", "minus", "slash", "star", "dollar", "s"}
  /\ \A c \in Other : c \in Units /\ <<c>> \in Seq(Other)
  BY DEF Other, Units

\* Inside a literal without an E before it, a quoted name and a comment to the end of the
\* line, one unit says nothing about the next, but for the quotes.
LEMMA PiecesOfLiterals ==
  ASSUME NEW p \in Text!Plain, p # Text!Line
  PROVE  Stays(Single, p)
<1>1. \A c \in Units : c # "q" => Lexes(Single, <<c>>, Single, Units)
  <2>1. Single # Escape
    BY Modes
  <2> QED
    BY <2>1, ReadsQuoted
<1>2. Lexes(Single, <<"q", "q">>, Single, Units)
  BY ReadsQuoted
<1>3. CASE p \in {<<"x">>, <<"b">>, <<"d">>}
  BY <1>1, <1>3, Named DEF Stays
<1>4. CASE p = <<"q", "q">>
  BY <1>2, <1>4, Named DEF Stays
<1>5. \A c \in Other, e \in Other : c # "q" /\ e # "q" => Stays(Single, <<c, e>>)
  BY <1>1, Named, StaysPair
<1>6. CASE p \in {<<"minus", "minus">>, <<"slash", "star">>, <<"dollar", "dollar">>}
  BY <1>5, <1>6, Named
<1> QED
  BY <1>3, <1>4, <1>6 DEF Text!Plain

\* The pieces of an escape string.
LEMMA PiecesOfEscapes ==
  ASSUME NEW p \in Text!Pieces["estring"], p # Text!Line, p # <<"b">> \o Text!Line
  PROVE  Stays(Escape, p)
<1>0. p \in {<<"x">>, <<"b", "q">>, <<"b", "b">>, <<"q", "q">>}
  BY DEF Text!Pieces
<1>1. Lexes(Escape, <<"q", "q">>, Escape, Units) /\ Lexes(Escape, <<"x">>, Escape, Units)
  BY ReadsQuoted, Named
<1>2. Lexes(Escape, <<"b", "q">>, Escape, Units) /\ Lexes(Escape, <<"b", "b">>, Escape, Units)
  BY ReadsEscaped, Named
<1>3. {<<"x">>, <<"b", "q">>, <<"b", "b">>, <<"q", "q">>} \subseteq Seq(Other)
  BY DEF Other, Units
<1> QED
  BY <1>0, <1>1, <1>2, <1>3 DEF Stays

\* The pieces of a quoted name.
LEMMA PiecesOfNames ==
  ASSUME NEW p \in Text!Pieces["name"], p # Text!Line
  PROVE  Stays(Double, p)
<1>0. p \in {<<"x">>, <<"d", "d">>, <<"q">>, <<"minus", "minus">>}
  BY DEF Text!Pieces
<1>1. \A c \in Units : c # "d" => Lexes(Double, <<c>>, Double, Units)
  BY ReadsName
<1>2. Stays(Double, <<"minus", "minus">>)
  BY <1>1, Named, StaysPair
<1>3. CASE p \in {<<"x">>, <<"q">>}
  BY <1>1, <1>3, Named DEF Stays
<1>4. CASE p = <<"d", "d">>
  BY <1>4, ReadsName, Named DEF Stays
<1> QED
  BY <1>0, <1>2, <1>3, <1>4

\* The pieces of a line comment.
LEMMA PiecesOfLines ==
  ASSUME NEW p \in Text!Pieces["line"]
  PROVE  Stays(Comment, p)
<1>1. p \in Seq(Other) /\ p \in Seq(Units)
  <2>1. p \in {<<"x">>, <<"q">>, <<"d">>, <<"slash", "star">>, <<"dollar", "dollar">>}
    BY DEF Text!Pieces
  <2>2. {<<"x">>, <<"q">>, <<"d">>, <<"slash", "star">>, <<"dollar", "dollar">>} \subseteq Seq(Other)
    BY DEF Other, Units
  <2>3. {<<"x">>, <<"q">>, <<"d">>, <<"slash", "star">>, <<"dollar", "dollar">>} \subseteq Seq(Units)
    BY DEF Units
  <2> QED
    BY <2>1, <2>2, <2>3
<1> QED
  BY <1>1, ReadsComment DEF Stays

\* The pieces of a block comment.
LEMMA PiecesOfComments ==
  ASSUME NEW p \in Text!Pieces["block"], p # Text!Line
  PROVE  Stays(Block(1), p)
<1>0. p \in {<<"x">>, <<"q">>, <<"slash", "star", "star", "slash">>, <<"minus", "minus">>, <<"dollar", "dollar">>}
  BY DEF Text!Pieces
<1>1. 1 \in Nat \ {0} /\ 2 \in Nat \ {0} /\ 1 + 1 = 2 /\ 2 - 1 = 1 /\ 2 # 1
  OBVIOUS
<1>2. \A c \in Units : c \notin {"slash", "star"} => Lexes(Block(1), <<c>>, Block(1), Units)
  BY <1>1, ReadsBlock
<1>3. CASE p \in {<<"x">>, <<"q">>}
  BY <1>2, <1>3, Named DEF Stays
<1>4. CASE p \in {<<"minus", "minus">>, <<"dollar", "dollar">>}
  <2>1. \A c \in Other : c \notin {"slash", "star"} => Stays(Block(1), <<c, c>>)
    BY <1>2, Named, StaysPair
  <2> QED
    BY <1>4, <2>1, Named
<1>5. CASE p = <<"slash", "star", "star", "slash">>
  <2> DEFINE w == <<"slash", "star">>
             z == <<"star", "slash">>
  <2>1. Lexes(Block(1), w, Block(2), Units)
    <3>1. Lexes(Block(1), w, Block(1 + 1), Units)
      BY <1>1, ReadsBlock, Zenon
    <3> QED
      BY <1>1, <3>1
  <2>2. Lexes(Block(2), z, Block(1), Units)
    <3>1. Lexes(Block(2), z, IF 2 = 1 THEN Text!Code ELSE Block(2 - 1), Units)
      BY <1>1, ReadsBlock, Zenon
    <3> QED
      BY <1>1, <3>1
  <2>3. w \in Seq(Units) /\ z \in Seq(Units) /\ z # <<>> /\ z[1] \in Units
    BY DEF Units
  <2>4. w \o z = p
    BY <1>5, Joined
  <2>5. p \in Seq(Other)
    BY <1>5, Named
  <2> HIDE DEF w, z
  <2>6. Lexes(Block(1), w \o z, Block(1), Units)
    BY <2>1, <2>2, <2>3, ReadsBoth
  <2> QED
    BY <2>4, <2>5, <2>6 DEF Stays
<1> QED
  BY <1>0, <1>3, <1>4, <1>5

\* The pieces of code.
LEMMA PiecesOfCode ==
  ASSUME NEW p \in Text!Pieces["code"], p # Text!Line
  PROVE  Stays(Text!Code, p)
<1>0. p \in {<<"x">>, <<"dollar", "1">>, <<"minus", "x">>}
  BY DEF Text!Pieces
<1>1. Lexes(Text!Code, <<"x">>, Text!Code, Units) /\ Lexes(Text!Code, <<"1">>, Text!Code, Units)
  BY ReadsCode, Named
<1>2. Stays(Text!Code, <<"x">>)
  BY <1>1, Named DEF Stays
<1>3. Stays(Text!Code, <<"dollar", "1">>)
  <2>1. Lexes(Text!Code, <<"dollar">>, Text!Code, {"1"}) /\ "1" \in {"1"} /\ "dollar" \in Other /\ "1" \in Other
    BY ReadsCode, Named
  <2> QED
    BY <1>1, <2>1, StaysPair
<1>4. Stays(Text!Code, <<"minus", "x">>)
  <2>1. Lexes(Text!Code, <<"minus">>, Text!Code, Units \ {"minus"}) /\ "x" \in Units \ {"minus"} /\ "minus" \in Other /\ "x" \in Other
    BY ReadsCode, Named
  <2> QED
    BY <1>1, <2>1, StaysPair
<1> QED
  BY <1>0, <1>2, <1>3, <1>4

\* The pieces of a body between dollars, without a tag and with one.
LEMMA PiecesOfBodies ==
  /\ \A p \in Text!Pieces["body"] : p # Text!Line => Stays(Dollar(<<"dollar", "dollar">>), p)
  /\ \A p \in Text!Pieces["tagged"] : p # Text!Line => Stays(Dollar(<<"dollar", "t", "dollar">>), p)
<1>1. ASSUME NEW p \in Text!Pieces["body"], p # Text!Line PROVE Stays(Dollar(<<"dollar", "dollar">>), p)
  <2>0. p \in {<<"x">>, <<"q">>, <<"dollar", "t", "dollar", "x">>, <<"dollar", "x">>, <<"minus", "minus">>}
    BY <1>1 DEF Text!Pieces
  <2> DEFINE tag == <<"dollar", "dollar">>
             m == Dollar(tag)
  <2>1. tag \in {<<"dollar", "dollar">>, <<"dollar", "t", "dollar">>} /\ tag[2] = "dollar"
    OBVIOUS
  <2>2. (\A c \in Units : c # "dollar" => Lexes(m, <<c>>, m, Units)) /\ Lexes(m, <<"dollar">>, m, Units \ {"dollar"})
    <3>1. Lexes(m, <<"dollar">>, m, Units \ {tag[2]})
      BY <2>1, ReadsBody, Zenon
    <3> QED
      BY <2>1, <3>1, ReadsBody
  <2> SUFFICES Stays(m, p)
    OBVIOUS
  <2> HIDE DEF m
  <2>3. CASE p \in {<<"x">>, <<"q">>}
    BY <2>2, <2>3, Named DEF Stays
  <2>4. CASE p = <<"minus", "minus">>
    BY <2>2, <2>4, Named, StaysPair
  <2>5. Stays(m, <<"dollar", "x">>) /\ Stays(m, <<"dollar", "t">>)
    <3>1. "x" \in Units \ {"dollar"} /\ "t" \in Units \ {"dollar"} /\ "x" \in Other /\ "t" \in Other /\ "dollar" \in Other
      BY Named
    <3>2. Lexes(m, <<"x">>, m, Units) /\ Lexes(m, <<"t">>, m, Units)
      BY <2>2, <3>1
    <3> QED
      BY <2>2, <3>1, <3>2, StaysPair
  <2>6. CASE p = <<"dollar", "t", "dollar", "x">>
    <3> DEFINE w == <<"dollar", "t">>
               z == <<"dollar", "x">>
    <3>1. w \in Seq(Units) /\ z \in Seq(Units) /\ z # <<>> /\ z[1] \in Units
      BY DEF Units
    <3>2. w \o z = p
      BY <2>6, Joined
    <3>3. p \in Seq(Other)
      BY <2>6, Named
    <3>4. Lexes(m, w, m, Units) /\ Lexes(m, z, m, Units)
      BY <2>5 DEF Stays
    <3> HIDE DEF w, z
    <3>5. Lexes(m, w \o z, m, Units)
      BY <3>1, <3>4, ReadsBoth
    <3> QED
      BY <3>2, <3>3, <3>5 DEF Stays
  <2> QED
    BY <2>0, <2>3, <2>4, <2>5, <2>6
<1>2. ASSUME NEW p \in Text!Pieces["tagged"], p # Text!Line PROVE Stays(Dollar(<<"dollar", "t", "dollar">>), p)
  <2>0. p \in {<<"x">>, <<"q">>, <<"dollar", "dollar", "x">>, <<"slash", "star">>}
    BY <1>2 DEF Text!Pieces
  <2> DEFINE tag == <<"dollar", "t", "dollar">>
             m == Dollar(tag)
  <2>1. tag \in {<<"dollar", "dollar">>, <<"dollar", "t", "dollar">>} /\ tag[2] = "t"
    OBVIOUS
  <2>2. (\A c \in Units : c # "dollar" => Lexes(m, <<c>>, m, Units)) /\ Lexes(m, <<"dollar">>, m, Units \ {"t"})
    <3>1. Lexes(m, <<"dollar">>, m, Units \ {tag[2]})
      BY <2>1, ReadsBody, Zenon
    <3> QED
      BY <2>1, <3>1, ReadsBody
  <2> SUFFICES Stays(m, p)
    OBVIOUS
  <2> HIDE DEF m
  <2>3. CASE p \in {<<"x">>, <<"q">>}
    BY <2>2, <2>3, Named DEF Stays
  <2>4. CASE p = <<"slash", "star">>
    BY <2>2, <2>4, Named, StaysPair
  <2>5. CASE p = <<"dollar", "dollar", "x">>
    <3>1. "x" \in Units \ {"t"} /\ "dollar" \in Units \ {"t"} /\ "x" \in Other /\ "dollar" \in Units /\ "x" \in Units
      BY Named
    <3>2. Lexes(m, <<"x">>, m, Units)
      BY <2>2, <3>1
    <3>3. Lexes(m, <<"dollar", "x">>, m, Units)
      BY <2>2, <3>1, <3>2, ReadsPair
    <3> DEFINE z == <<"dollar", "x">>
    <3>4. z \in Seq(Units) /\ z # <<>> /\ z[1] \in Units \ {"t"} /\ <<"dollar">> \o z = p
      BY <2>5, <3>1, Joined
    <3>5. p \in Seq(Other)
      BY <2>5, Named
    <3>6. Lexes(m, z, m, Units)
      BY <3>3
    <3> HIDE DEF z
    <3>7. Lexes(m, <<"dollar">> \o z, m, Units)
      BY <2>2, <3>1, <3>4, <3>6, ReadsBefore
    <3> QED
      BY <3>4, <3>5, <3>7 DEF Stays
  <2> QED
    BY <2>0, <2>3, <2>4, <2>5
<1> QED
  BY <1>1, <1>2

\* No piece is empty.
LEMMA PieceIsSomething ==
  ASSUME NEW kind \in Text!Kinds, NEW p \in Text!Pieces[kind]
  PROVE  p # <<>>
<1>1. <<>> \notin Text!Plain
  BY DEF Text!Plain, Text!Line
<1>2. CASE kind = "code"
  BY <1>2 DEF Text!Pieces, Text!Line
<1>3. CASE kind \in {"string", "literal"}
  BY <1>1, <1>3 DEF Text!Pieces
<1>4. CASE kind = "estring"
  BY <1>4 DEF Text!Pieces, Text!Line
<1>5. CASE kind = "name"
  BY <1>5 DEF Text!Pieces, Text!Line
<1>6. CASE kind = "line"
  BY <1>6 DEF Text!Pieces, Text!Line
<1>7. CASE kind = "block"
  BY <1>7 DEF Text!Pieces, Text!Line
<1>8. CASE kind = "body"
  BY <1>8 DEF Text!Pieces, Text!Line
<1>9. CASE kind = "tagged"
  BY <1>9 DEF Text!Pieces, Text!Line
<1> QED
  BY <1>2, <1>3, <1>4, <1>5, <1>6, <1>7, <1>8, <1>9 DEF Text!Kinds

\* A piece is a line with the statement, such a line behind a backslash, or a text that
\* the lexer reads where it is.
LEMMA PieceReads ==
  ASSUME NEW kind \in Text!Kinds, NEW p \in Text!Pieces[kind]
  PROVE  \/ kind # "line" /\ p = Text!Line
         \/ kind = "estring" /\ p = <<"b">> \o Text!Line
         \/ ~(kind = "code" /\ p = Text!Line) /\ Stays(Mode(kind), p)
<1>1. CASE kind = "code"
  BY <1>1, PiecesOfCode DEF Mode
<1>2. CASE kind \in {"string", "literal"}
  <2>1. Text!Pieces[kind] = Text!Plain
    BY <1>2 DEF Text!Pieces
  <2> QED
    BY <1>2, <2>1, PiecesOfLiterals DEF Mode
<1>3. CASE kind = "estring"
  BY <1>3, PiecesOfEscapes DEF Mode
<1>4. CASE kind = "name"
  BY <1>4, PiecesOfNames DEF Mode
<1>5. CASE kind = "line"
  BY <1>5, PiecesOfLines DEF Mode
<1>6. CASE kind = "block"
  BY <1>6, PiecesOfComments DEF Mode
<1>7. CASE kind \in {"body", "tagged"}
  BY <1>7, PiecesOfBodies DEF Mode
<1> QED
  BY <1>1, <1>2, <1>3, <1>4, <1>5, <1>6, <1>7 DEF Text!Kinds

-----------------------------------------------------------------------------
(* The sink.                                                               *)

\* The units of a text.
All == Units \union {"n"}

\* The lexer from lex on is in mode m behind the line, if the line ends there or goes on
\* with a unit of N.
Holds(line, lex, m, N) ==
  \A v \in Seq(Units) :
    Stands(line, v, 0) /\ Before(N, v, Len(line)) => At(Text!Scanned(lex, v)[Len(line)], v, Len(line), m)

\* The lexer holds its mode on an empty line.
LEMMA HoldsNone ==
  ASSUME NEW m, m.mode # "comment", NEW N
  PROVE  Holds(<<>>, m, m, N)
<1> SUFFICES ASSUME NEW v \in Seq(Units) PROVE At(Text!Scanned(m, v)[0], v, 0, m)
  <2>1. Len(<<>>) = 0
    OBVIOUS
  <2> QED
    BY <2>1 DEF Holds
<1>1. Text!Scanned(m, v)[0] = [next |-> 1, lex |-> m]
  BY ScanSteps
<1> QED
  BY <1>1 DEF At

\* It holds its mode on a line to which a text is added that it reads.
LEMMA HoldsMore ==
  ASSUME NEW line \in Seq(Units), NEW w \in Seq(Units), w # <<>>, NEW lex, NEW m, NEW m2, NEW N, NEW N2,
         Holds(line, lex, m, N), w[1] \in N, Lexes(m, w, m2, N2)
  PROVE  Holds(line \o w, lex, m2, N2)
<1> DEFINE y == line \o w
<1>1. /\ Len(line) \in Nat /\ Len(w) \in Nat \ {0} /\ Len(y) = Len(line) + Len(w)
      /\ \A i \in 1 .. Len(line) : y[i] = line[i]
      /\ \A i \in 1 .. Len(w) : y[Len(line) + i] = w[i]
  BY ConcatOf
<1> HIDE DEF y
<1> SUFFICES ASSUME NEW v \in Seq(Units), Stands(y, v, 0), Before(N2, v, Len(y))
             PROVE  At(Text!Scanned(lex, v)[Len(y)], v, Len(y), m2)
  BY DEF Holds, y
<1>2. Stands(line, v, 0)
  BY <1>1 DEF Stands
<1>3. Stands(w, v, Len(line))
  <2>1. Len(line) + Len(w) <= Len(v)
    BY <1>1 DEF Stands
  <2> SUFFICES ASSUME NEW j \in 1 .. Len(w) PROVE v[Len(line) + j] = w[j]
    BY <2>1 DEF Stands
  <2>2. Len(line) + j \in 1 .. Len(y) /\ 0 + (Len(line) + j) = Len(line) + j /\ y[Len(line) + j] = w[j]
    BY <1>1
  <2> QED
    BY <2>2 DEF Stands
<1>4. Before(N, v, Len(line))
  <2>1. 1 \in 1 .. Len(w)
    BY <1>1
  <2>2. v[Len(line) + 1] = w[1]
    BY <1>3, <2>1 DEF Stands
  <2> QED
    BY <2>2 DEF Before
<1>5. At(Text!Scanned(lex, v)[Len(line)], v, Len(line), m)
  BY <1>2, <1>4 DEF Holds
<1> DEFINE at == Text!Scanned(lex, v)
<1>6. Runs(at, v)
  <2>1. Len(v) \in Nat
    OBVIOUS
  <2> QED
    BY <2>1, ScanSteps
<1>7. At(at[Len(line)], v, Len(line), m)
  BY <1>5
<1> HIDE DEF at
<1>8. At(at[Len(line) + Len(w)], v, Len(line) + Len(w), m2)
  BY <1>1, <1>3, <1>6, <1>7 DEF Lexes
<1> QED
  BY <1>1, <1>8 DEF at

\* Where the lexer is behind a line.
LEMMA HoldsEnd ==
  ASSUME NEW line \in Seq(Units), NEW lex, NEW m, NEW N, Holds(line, lex, m, N)
  PROVE  Text!Scanned(lex, line)[Len(line)].lex = m
<1>1. Stands(line, line, 0) /\ Before(N, line, Len(line))
  BY DEF Stands, Before
<1> QED
  BY <1>1 DEF Holds, At

\* What is known of the sink's state.
IsSink(s) ==
  /\ s = [line |-> s.line, lex |-> s.lex, replaced |-> s.replaced, read |-> s.read, aborted |-> s.aborted]
  /\ s.aborted \in BOOLEAN

\* What a unit of a line, the end of a line, and the end of a line with the statement in code do.
LEMMA WriteCases ==
  ASSUME NEW s, IsSink(s), NEW c
  PROVE  LET t == Text!Write(s, c)
             statement == s.lex.mode = "code" /\ s.line = <<"P">>
         IN /\ IsSink(t)
            /\ s.aborted => t = s
            /\ ~s.aborted /\ c # "n" => /\ t.line = Append(s.line, c) /\ t.lex = s.lex /\ t.replaced = s.replaced
                                        /\ t.read = s.read + 1 /\ ~t.aborted
            /\ ~s.aborted /\ c = "n" /\ statement /\ s.replaced # {} => t.aborted
            /\ ~s.aborted /\ c = "n" /\ ~(statement /\ s.replaced # {}) =>
                 /\ t.line = <<>> /\ t.lex = Text!Scan(s.lex, s.line, TRUE) /\ t.read = s.read + 1 /\ ~t.aborted
                 /\ t.replaced = IF statement THEN {s.read} ELSE s.replaced
<1> DEFINE line == s.line
           lex == s.lex
           replaced == s.replaced
           read == s.read
           aborted == s.aborted
           t == Text!Write(s, c)
           statement == lex.mode = "code" /\ line = <<"P">>
           then == Text!Scan(lex, line, TRUE)
<1>1. s = [line |-> line, lex |-> lex, replaced |-> replaced, read |-> read, aborted |-> aborted] /\ aborted \in BOOLEAN
  BY DEF IsSink
<1> HIDE DEF line, lex, replaced, read, aborted
<1>2. CASE s.aborted
  BY <1>2 DEF Text!Write
<1>3. CASE ~s.aborted /\ c # "n"
  <2>1. t = [s EXCEPT !.line = Append(@, c), !.read = @ + 1]
    BY <1>3, Zenon DEF Text!Write
  <2>2. t = [line |-> Append(line, c), lex |-> lex, replaced |-> replaced, read |-> read + 1, aborted |-> aborted]
    BY <1>1, <2>1
  <2> HIDE DEF t
  <2>3. t.line = Append(line, c) /\ t.lex = lex /\ t.replaced = replaced /\ t.read = read + 1 /\ t.aborted = aborted
    BY <2>2
  <2>4. IsSink(t)
    BY <1>1, <2>2, <2>3 DEF IsSink
  <2> QED
    BY <1>1, <1>3, <2>3, <2>4 DEF t, line, lex, replaced, read, aborted
<1>4. CASE ~s.aborted /\ c = "n" /\ statement /\ s.replaced # {}
  <2> DEFINE x == Text!WriteLine(s, TRUE)
  <2>0. statement <=> s.lex.mode = "code" /\ s.line = <<"P">>
    BY DEF line, lex
  <2> HIDE DEF statement
  <2>1. x = [s EXCEPT !.aborted = TRUE]
    BY <1>4, <2>0, Zenon DEF Text!WriteLine
  <2>2. t = [x EXCEPT !.line = <<>>, !.read = @ + 1]
    BY <1>4, Zenon DEF Text!Write
  <2>3. x = [line |-> line, lex |-> lex, replaced |-> replaced, read |-> read, aborted |-> TRUE]
    BY <1>1, <2>1
  <2> HIDE DEF t, x
  <2>4. t = [line |-> <<>>, lex |-> lex, replaced |-> replaced, read |-> read + 1, aborted |-> TRUE]
    BY <2>2, <2>3
  <2>5. t.line = <<>> /\ t.lex = lex /\ t.replaced = replaced /\ t.read = read + 1 /\ t.aborted = TRUE
    BY <2>4
  <2>6. IsSink(t)
    BY <2>4, <2>5 DEF IsSink
  <2> QED
    BY <1>4, <2>0, <2>5, <2>6 DEF t
<1>5. CASE ~s.aborted /\ c = "n" /\ ~(statement /\ s.replaced # {})
  <2> DEFINE x == Text!WriteLine(s, TRUE)
             now == IF statement THEN {read} ELSE replaced
  <2>0. statement <=> s.lex.mode = "code" /\ s.line = <<"P">>
    BY DEF line, lex
  <2>1. x = [s EXCEPT !.replaced = now, !.lex = then]
    <3> DEFINE p == s.lex.mode = "code" /\ s.line = <<"P">>
    <3>1. x = [s EXCEPT !.replaced = IF p THEN {s.read} ELSE @, !.lex = Text!Scan(s.lex, s.line, TRUE)]
      <4>1. ~(p /\ s.replaced # {})
        BY <1>5, <2>0
      <4> QED
        BY <4>1, Zenon DEF Text!WriteLine
    <3>2. now = IF p THEN {s.read} ELSE s.replaced
      BY <2>0 DEF read, replaced
    <3> QED
      BY <3>1, <3>2 DEF line, lex
  <2>2. t = [x EXCEPT !.line = <<>>, !.read = @ + 1]
    BY <1>5, Zenon DEF Text!Write
  <2> HIDE DEF statement, now, then
  <2>3. x = [line |-> line, lex |-> then, replaced |-> now, read |-> read, aborted |-> aborted]
    BY <1>1, <2>1
  <2> HIDE DEF t, x
  <2>4. t = [line |-> <<>>, lex |-> then, replaced |-> now, read |-> read + 1, aborted |-> aborted]
    BY <2>2, <2>3
  <2>5. t.line = <<>> /\ t.lex = then /\ t.replaced = now /\ t.read = read + 1 /\ t.aborted = aborted
    BY <2>4
  <2>6. IsSink(t)
    BY <1>1, <2>4, <2>5 DEF IsSink
  <2>7. now = (IF s.lex.mode = "code" /\ s.line = <<"P">> THEN {s.read} ELSE s.replaced) /\ then = Text!Scan(s.lex, s.line, TRUE)
    BY <2>0 DEF now, read, replaced, then, lex, line
  <2>8. ~t.aborted /\ t.read = s.read + 1
    BY <1>5, <2>5 DEF aborted, read
  <2> QED
    BY <1>5, <2>0, <2>5, <2>6, <2>7, <2>8 DEF t
<1> QED
  BY <1>2, <1>3, <1>4, <1>5 DEF t, statement, lex, line

\* The sink behind each unit of a text (Transform).
SinkOf(text) ==
  LET sink[k \in 0 .. Len(text)] == IF k = 0 THEN Text!Fresh ELSE Text!Write(sink[k - 1], text[k])
  IN sink

\* The sink behind a text.
After(text) == SinkOf(text)[Len(text)]

\* The result of the filter is its sink behind the last unit, closed.
LEMMA TransformMeans ==
  ASSUME NEW text
  PROVE  Text!Transform(text) = Text!Close(After(text))
  BY Zenon DEF Text!Transform, After, SinkOf

\* The states of the sink on a text exist.
LEMMA SinkSteps ==
  ASSUME NEW text, Len(text) \in Nat
  PROVE  /\ SinkOf(text)[0] = Text!Fresh
         /\ \A k \in 1 .. Len(text) : SinkOf(text)[k] = Text!Write(SinkOf(text)[k - 1], text[k])
<1> DEFINE n == Len(text)
           first == Text!Fresh
           P(x, i) == Text!Write(x, text[i])
           Is(f, k) == f = [i \in 0 .. k |-> IF i = 0 THEN first ELSE P(f[i - 1], i)]
           S == {k \in Nat : \E f : Is(f, k)}
<1> HIDE DEF P, first
<1>1. 0 \in S
  <2> DEFINE f == [i \in 0 .. 0 |-> first]
  <2>1. Is(f, 0)
    OBVIOUS
  <2> QED
    BY <2>1
<1>2. ASSUME NEW k \in Nat, k \in S PROVE k + 1 \in S
  <2> PICK f : Is(f, k)
    BY <1>2
  <2> DEFINE g == [i \in 0 .. k + 1 |-> IF i = k + 1 THEN P(f[k], k + 1) ELSE f[i]]
             h == [i \in 0 .. k + 1 |-> IF i = 0 THEN first ELSE P(g[i - 1], i)]
  <2>1. \A i \in 0 .. k + 1 : g[i] = h[i]
    <3> TAKE i \in 0 .. k + 1
    <3>1. CASE i = k + 1
      BY <3>1
    <3>2. CASE i = 0
      BY <3>2
    <3>3. CASE i \in 1 .. k
      <4>1. g[i] = f[i] /\ g[i - 1] = f[i - 1] /\ h[i] = P(g[i - 1], i)
        BY <3>3
      <4>2. f[i] = P(f[i - 1], i)
        BY <3>3
      <4> QED
        BY <4>1, <4>2
    <3> QED
      BY <3>1, <3>2, <3>3
  <2>2. DOMAIN g = 0 .. k + 1 /\ DOMAIN h = 0 .. k + 1 /\ g = [i \in DOMAIN g |-> g[i]] /\ h = [i \in DOMAIN h |-> h[i]]
    OBVIOUS
  <2> HIDE DEF g
  <2>3. g = h
    <3> HIDE DEF h
    <3> QED
      BY <2>1, <2>2
  <2>4. Is(g, k + 1)
    BY <2>3
  <2> HIDE DEF Is
  <2> QED
    BY <2>4
<1>3. n \in S
  <2> HIDE DEF S
  <2> QED
    BY <1>1, <1>2, Induction
<1> DEFINE at == CHOOSE f : Is(f, n)
<1>4. Is(at, n)
  BY <1>3, Zenon
<1>5. SinkOf(text) = at
  BY Zenon DEF SinkOf, first, P
<1> HIDE DEF at, n
<1>6. at[0] = first /\ \A i \in 1 .. n : at[i] = P(at[i - 1], i)
  <2>1. n \in Nat
    BY DEF n
  <2> QED
    BY <1>4, <2>1
<1> QED
  BY <1>5, <1>6 DEF first, P, n

\* A text unit by unit.
LEMMA AfterNone == After(<<>>) = Text!Fresh
<1>1. Len(<<>>) = 0
  OBVIOUS
<1>2. Len(<<>>) \in Nat
  OBVIOUS
<1> QED
  BY <1>1, <1>2, SinkSteps DEF After

\* The sink behind a text and one more unit.
LEMMA AfterOne ==
  ASSUME NEW u \in Seq(All), NEW c \in All
  PROVE  After(Append(u, c)) = Text!Write(After(u), c)
<1> DEFINE n == Len(u)
           v == Append(u, c)
           f == SinkOf(u)
           g == SinkOf(v)
<1>1. n \in Nat /\ Len(v) = n + 1 /\ v[n + 1] = c /\ \A k \in 1 .. n : v[k] = u[k]
  OBVIOUS
<1>2. f[0] = Text!Fresh /\ \A k \in 1 .. n : f[k] = Text!Write(f[k - 1], u[k])
  <2>1. Len(u) \in Nat
    OBVIOUS
  <2> QED
    BY <2>1, SinkSteps
<1> HIDE DEF f, n, v
<1>3. g[0] = Text!Fresh /\ \A k \in 1 .. n + 1 : g[k] = Text!Write(g[k - 1], v[k])
  <2>1. Len(v) \in Nat /\ Len(v) = n + 1
    BY <1>1
  <2>2. g[0] = Text!Fresh /\ \A k \in 1 .. Len(v) : g[k] = Text!Write(g[k - 1], v[k])
    BY <2>1, SinkSteps
  <2> QED
    BY <2>1, <2>2
<1> HIDE DEF g
<1> DEFINE S == {k \in Nat : k <= n => g[k] = f[k]}
<1>4. 0 \in S
  BY <1>2, <1>3
<1>5. ASSUME NEW k \in Nat, k \in S PROVE k + 1 \in S
  <2> SUFFICES ASSUME k + 1 <= n PROVE g[k + 1] = f[k + 1]
    OBVIOUS
  <2>1. k + 1 \in 1 .. n /\ k + 1 \in 1 .. n + 1 /\ (k + 1) - 1 = k /\ g[k] = f[k]
    BY <1>1, <1>5
  <2> QED
    BY <1>1, <1>2, <1>3, <2>1
<1>6. n \in S
  <2> HIDE DEF S
  <2> QED
    BY <1>1, <1>4, <1>5, Induction
<1>7. g[n + 1] = Text!Write(f[n], c)
  <2>1. n + 1 \in 1 .. n + 1 /\ (n + 1) - 1 = n /\ g[n] = f[n]
    BY <1>1, <1>6
  <2> QED
    BY <1>1, <1>3, <2>1
<1> QED
  BY <1>1, <1>7 DEF After, f, g, v, n

\* Sequences from behind.
LEMMA Appended ==
  ASSUME NEW S, NEW u \in Seq(S)
  PROVE  /\ u \o <<>> = u
         /\ \A f \in Seq(S), c \in S : u \o Append(f, c) = Append(u \o f, c)
<1>1. u \o <<>> = u
  OBVIOUS
<1>2. ASSUME NEW f \in Seq(S), NEW c \in S PROVE u \o Append(f, c) = Append(u \o f, c)
  OBVIOUS
<1> QED
  BY <1>1, <1>2

\* A text that is not empty has a last unit.
LEMMA LastOf ==
  ASSUME NEW w \in Seq(Units), NEW k \in Nat, Len(w) = k + 1
  PROVE  \E f \in Seq(Units), c \in Units : Len(f) = k /\ w = Append(f, c)
<1> DEFINE f == SubSeq(w, 1, k)
<1>1. f \in Seq(Units) /\ Len(f) = k /\ w[k + 1] \in Units /\ \A i \in 1 .. k : f[i] = w[i]
  OBVIOUS
<1> HIDE DEF f
<1> DEFINE y == Append(f, w[k + 1])
<1>2. y \in Seq(Units) /\ Len(y) = k + 1 /\ \A i \in 1 .. k + 1 : y[i] = w[i]
  BY <1>1
<1>3. w = y
  <2> HIDE DEF y
  <2> QED
    BY <1>2, SeqEqual
<1> QED
  BY <1>1, <1>3

\* The sink t has the text w, without the end of a line, behind what s has.
Took(s, t, w) ==
  /\ IsSink(t)
  /\ s.aborted => t = s
  /\ ~s.aborted => /\ t.line = s.line \o w /\ t.lex = s.lex /\ t.replaced = s.replaced
                   /\ t.read = s.read + Len(w) /\ ~t.aborted

\* A text of a line, written behind another.
LEMMA AfterUnits ==
  ASSUME NEW u \in Seq(All), NEW w \in Seq(Units), IsSink(After(u)),
         ~After(u).aborted => After(u).line \in Seq(Units) /\ After(u).read \in Nat
  PROVE  Took(After(u), After(u \o w), w)
<1> DEFINE s == After(u)
           S == {k \in Nat : \A z \in Seq(Units) : Len(z) = k => Took(s, After(u \o z), z)}
<1>0. IsSink(s) /\ (~s.aborted => s.line \in Seq(Units) /\ s.read \in Nat)
  OBVIOUS
<1>1. 0 \in S
  <2> SUFFICES ASSUME NEW z \in Seq(Units), Len(z) = 0 PROVE Took(s, After(u \o z), z)
    OBVIOUS
  <2>1. z = <<>> /\ u \o z = u
    OBVIOUS
  <2>2. After(u \o z) = s
    BY <2>1
  <2>3. ~s.aborted => s.line \o z = s.line /\ s.read + Len(z) = s.read
    BY <1>0, <2>1
  <2> HIDE DEF s
  <2> QED
    BY <1>0, <2>2, <2>3 DEF Took
<1>2. ASSUME NEW k \in Nat, k \in S PROVE k + 1 \in S
  <2> SUFFICES ASSUME NEW z \in Seq(Units), Len(z) = k + 1 PROVE Took(s, After(u \o z), z)
    BY <1>2
  <2>1. PICK f \in Seq(Units), c \in Units : Len(f) = k /\ z = Append(f, c)
    <3>1. z \in Seq(Units) /\ Len(z) = k + 1 /\ k \in Nat
      OBVIOUS
    <3> HIDE DEF S
    <3> QED
      BY <3>1, LastOf
  <2>2. u \o f \in Seq(All) /\ c \in All /\ c # "n" /\ f \in Seq(All) /\ Units \subseteq All
    <3>1. Units \subseteq All /\ c # "n"
      BY DEF All, Units
    <3>2. f \in Seq(All)
      BY <3>1
    <3> QED
      BY <3>1, <3>2
  <2>3. u \o z = Append(u \o f, c)
    BY <2>1, <2>2, Appended
  <2> DEFINE t == After(u \o f)
             r == After(u \o z)
  <2>4. r = Text!Write(t, c)
    BY <2>2, <2>3, AfterOne
  <2>5. Took(s, t, f)
    BY <1>2, <2>1
  <2> HIDE DEF s, t, r
  <2>6. /\ IsSink(r) /\ (t.aborted => r = t)
        /\ ~t.aborted => /\ r.line = Append(t.line, c) /\ r.lex = t.lex /\ r.replaced = t.replaced
                         /\ r.read = t.read + 1 /\ ~r.aborted
    <3>1. IsSink(t)
      BY <2>5 DEF Took
    <3> QED
      BY <2>2, <2>4, <3>1, WriteCases, Zenon
  <2>7. CASE s.aborted
    BY <2>5, <2>6, <2>7 DEF Took, r
  <2>8. CASE ~s.aborted
    <3>1. t.line = s.line \o f /\ t.lex = s.lex /\ t.replaced = s.replaced /\ t.read = s.read + Len(f) /\ ~t.aborted
      BY <2>5, <2>8 DEF Took
    <3>2. r.line = s.line \o z
      <4>1. s.line \in Seq(Units)
        BY <1>0, <2>8
      <4>2. s.line \o Append(f, c) = Append(s.line \o f, c)
        <5> DEFINE line == s.line
        <5>1. line \in Seq(Units)
          BY <4>1
        <5> HIDE DEF line
        <5>2. line \o Append(f, c) = Append(line \o f, c)
          BY <5>1
        <5> QED
          BY <5>2 DEF line
      <4> QED
        BY <2>1, <2>6, <3>1, <4>2
    <3>3. r.read = s.read + Len(z)
      BY <1>0, <2>1, <2>6, <2>8, <3>1
    <3> QED
      BY <2>6, <2>8, <3>1, <3>2, <3>3 DEF Took, r
  <2> QED
    BY <2>7, <2>8
<1>3. Len(w) \in S
  <2>1. Len(w) \in Nat
    OBVIOUS
  <2> HIDE DEF S
  <2> QED
    BY <1>1, <1>2, <2>1, Induction
<1> QED
  BY <1>3

\* The sink s behind a text of n units is right: the lexer of the line that is not complete
\* is in mode m before a unit of N; places are where the statement stood in code.
SaneSink(s, n, m, N, places) ==
  /\ IsSink(s) /\ places \subseteq 0 .. n
  /\ s.aborted => \E a, b \in places : a # b
  /\ ~s.aborted => /\ s.read = n /\ s.replaced = places /\ \A a, b \in places : a = b
                   /\ s.line \in Seq(Other) /\ Holds(s.line, s.lex, m, N)

Sane(u, m, N, places) == u \in Seq(All) /\ SaneSink(After(u), Len(u), m, N, places)

\* A text of a line behind it.
LEMMA SaneText ==
  ASSUME NEW u, NEW m, NEW N, NEW places, Sane(u, m, N, places),
         NEW w \in Seq(Other), w # <<>>, w[1] \in N, NEW m2, NEW N2, Lexes(m, w, m2, N2)
  PROVE  Sane(u \o w, m2, N2, places)
<1> DEFINE s == After(u)
           t == After(u \o w)
<1>1. u \in Seq(All) /\ SaneSink(s, Len(u), m, N, places)
  BY DEF Sane
<1>2. Other \subseteq Units /\ Units \subseteq All
  BY DEF Other, All
<1>3. w \in Seq(Units) /\ w \in Seq(All)
  BY <1>2
<1>4. u \o w \in Seq(All) /\ Len(u \o w) = Len(u) + Len(w) /\ Len(u) \in Nat /\ Len(w) \in Nat
  BY <1>1, <1>3
<1> HIDE DEF s
<1>5. ~s.aborted => s.line \in Seq(Units) /\ s.line \in Seq(Other) /\ s.read \in Nat
  <2>1. ~s.aborted => s.line \in Seq(Other) /\ s.read = Len(u)
    BY <1>1 DEF SaneSink
  <2> QED
    BY <1>2, <1>4, <2>1
<1>6. Took(s, t, w)
  <2>1. IsSink(s)
    BY <1>1 DEF SaneSink
  <2> QED
    BY <1>1, <1>3, <1>5, <2>1, AfterUnits DEF s
<1> HIDE DEF t
<1>7. places \subseteq 0 .. Len(u) + Len(w)
  BY <1>1, <1>4 DEF SaneSink
<1>8. CASE s.aborted
  <2>1. t = s /\ IsSink(t) /\ \E a, b \in places : a # b
    BY <1>1, <1>6, <1>8 DEF Took, SaneSink
  <2>2. t.aborted
    BY <1>8, <2>1
  <2>3. SaneSink(t, Len(u) + Len(w), m2, N2, places)
    BY <1>7, <2>1, <2>2 DEF SaneSink
  <2> QED
    BY <1>4, <2>3 DEF Sane, t
<1>9. CASE ~s.aborted
  <2>1. /\ s.read = Len(u) /\ s.replaced = places /\ (\A a, b \in places : a = b)
        /\ Holds(s.line, s.lex, m, N)
    BY <1>1, <1>9 DEF SaneSink
  <2>2. /\ IsSink(t) /\ t.line = s.line \o w /\ t.lex = s.lex /\ t.replaced = s.replaced
        /\ t.read = s.read + Len(w) /\ ~t.aborted
    BY <1>6, <1>9 DEF Took
  <2> DEFINE line == s.line
  <2>3. line \in Seq(Units) /\ line \in Seq(Other) /\ Holds(line, s.lex, m, N)
    BY <1>5, <1>9, <2>1
  <2> HIDE DEF line
  <2>4. line \o w \in Seq(Other) /\ Holds(line \o w, s.lex, m2, N2)
    BY <1>3, <2>3, HoldsMore
  <2>5. t.line \in Seq(Other) /\ Holds(t.line, t.lex, m2, N2)
    BY <2>2, <2>4 DEF line
  <2>6. SaneSink(t, Len(u) + Len(w), m2, N2, places)
    BY <1>7, <2>1, <2>2, <2>5 DEF SaneSink
  <2> QED
    BY <1>4, <2>6 DEF Sane, t
<1> QED
  BY <1>8, <1>9

\* What an end of the line does to a mode.
Ended(m) == IF m.mode = "comment" THEN Text!Code ELSE m

\* The end of a line ends a line comment and nothing else.
LEMMA EndedMode ==
  ASSUME NEW m
  PROVE  Ended(m).mode # "comment" /\ (m.mode # "comment" => Ended(m) = m)
  BY Modes DEF Ended

\* The end of a line, that was not the statement.
LEMMA SaneEnd ==
  ASSUME NEW u, NEW m, NEW N, NEW places, Sane(u, m, N, places), NEW N2
  PROVE  LET t == After(Append(u, "n"))
         IN /\ Sane(Append(u, "n"), Ended(m), N2, places)
            /\ ~t.aborted => t.line = <<>> /\ t.lex = Ended(m)
<1> DEFINE s == After(u)
           t == After(Append(u, "n"))
           m2 == Ended(m)
<1>1. u \in Seq(All) /\ SaneSink(s, Len(u), m, N, places) /\ "n" \in All
  BY DEF Sane, All
<1>2. t = Text!Write(s, "n")
  BY <1>1, AfterOne
<1>3. Append(u, "n") \in Seq(All) /\ Len(Append(u, "n")) = Len(u) + 1 /\ Len(u) \in Nat
  BY <1>1
<1>4. IsSink(s) /\ places \subseteq 0 .. Len(u) + 1
  BY <1>1, <1>3 DEF SaneSink
<1> HIDE DEF s, t, m2
<1>5. CASE s.aborted
  <2>1. t = s
    BY <1>2, <1>4, <1>5, WriteCases
  <2>2. SaneSink(t, Len(u) + 1, m2, N2, places)
    BY <1>1, <1>4, <1>5, <2>1 DEF SaneSink
  <2>3. t.aborted
    BY <1>5, <2>1
  <2> QED
    BY <1>3, <2>2, <2>3 DEF Sane, t, m2
<1>6. CASE ~s.aborted
  <2>1. /\ s.read = Len(u) /\ s.replaced = places /\ (\A a, b \in places : a = b)
        /\ s.line \in Seq(Other) /\ Holds(s.line, s.lex, m, N)
    BY <1>1, <1>6 DEF SaneSink
  <2>2. s.line # <<"P">>
    <3>1. s.line = <<"P">> => s.line[1] = "P" /\ Len(s.line) = 1
      OBVIOUS
    <3>2. "P" \notin Other
      BY DEF Other
    <3> QED
      BY <2>1, <3>1, <3>2
  <2>3. /\ IsSink(t) /\ t.line = <<>> /\ t.lex = Text!Scan(s.lex, s.line, TRUE) /\ t.read = s.read + 1 /\ ~t.aborted
        /\ t.replaced = s.replaced
    BY <1>2, <1>4, <1>6, <2>2, WriteCases
  <2>4. t.lex = m2
    <3>1. Text!Scanned(s.lex, s.line)[Len(s.line)].lex = m
      <4> DEFINE line == s.line
      <4>1. line \in Seq(Units) /\ Holds(line, s.lex, m, N)
        BY <2>1 DEF Other
      <4> HIDE DEF line
      <4>2. Text!Scanned(s.lex, line)[Len(line)].lex = m
        BY <4>1, HoldsEnd
      <4> QED
        BY <4>2 DEF line
    <3> QED
      BY <2>3, <3>1, Zenon DEF Text!Scan, Ended, m2
  <2>5. Holds(t.line, t.lex, m2, N2) /\ t.line \in Seq(Other)
    <3>1. m2.mode # "comment"
      BY EndedMode DEF m2
    <3>2. Holds(<<>>, m2, m2, N2)
      BY <3>1, HoldsNone
    <3>3. <<>> \in Seq(Other)
      OBVIOUS
    <3> QED
      BY <2>3, <2>4, <3>2, <3>3, Zenon
  <2>6. SaneSink(t, Len(u) + 1, m2, N2, places)
    BY <1>4, <2>1, <2>3, <2>5 DEF SaneSink
  <2> QED
    BY <1>3, <2>3, <2>4, <2>6 DEF Sane, t, m2
<1> QED
  BY <1>5, <1>6

\* The statement as a line of its own.
LEMMA SaneLine ==
  ASSUME NEW u, NEW m, NEW N, NEW places, Sane(u, m, N, places), m.mode # "comment",
         Lexes(m, <<"P">>, m, Units)
  PROVE  Sane(u \o Text!Line, m, Units, IF m.mode = "code" THEN places \union {Len(u) + 2} ELSE places)
<1> DEFINE u1 == Append(u, "n")
           u2 == Append(u1, "P")
           u3 == Append(u2, "n")
           s == After(u1)
           r == After(u2)
           t == After(u3)
           n == Len(u)
           now == IF m.mode = "code" THEN places \union {n + 2} ELSE places
<1>0. u \in Seq(All) /\ "n" \in All /\ "P" \in All /\ "P" \in Units /\ "P" # "n"
  BY DEF Sane, All, Units
<1>1. /\ u1 \in Seq(All) /\ u2 \in Seq(All) /\ u3 \in Seq(All) /\ n \in Nat
      /\ Len(u1) = n + 1 /\ Len(u2) = n + 2 /\ Len(u3) = n + 3
  BY <1>0
<1>2. u \o Text!Line = u3
  BY <1>0 DEF Text!Line
<1>3. SaneSink(s, n + 1, m, Units, places) /\ (~s.aborted => s.line = <<>> /\ s.lex = m)
  BY <1>1, SaneEnd, EndedMode DEF Sane
<1>4. r = Text!Write(s, "P")
  BY <1>0, <1>1, AfterOne
<1>5. t = Text!Write(r, "n")
  BY <1>0, <1>1, AfterOne
<1>6. places \subseteq 0 .. n
  BY DEF Sane, SaneSink
<1>7. now \subseteq 0 .. n + 3 /\ places \subseteq now
  <2> HIDE DEF n
  <2>1. places \subseteq 0 .. n + 3 /\ n + 2 \in 0 .. n + 3
    BY <1>1, <1>6
  <2> QED
    BY <2>1
<1> SUFFICES SaneSink(t, n + 3, m, Units, now)
  BY <1>1, <1>2 DEF Sane
<1> HIDE DEF s, r, t, n, now, u1, u2, u3
<1>8. CASE s.aborted
  <2>1. IsSink(s) /\ \E a, b \in places : a # b
    BY <1>3, <1>8 DEF SaneSink
  <2>2. r = s
    BY <1>4, <1>8, <2>1, WriteCases
  <2>3. t = s
    BY <1>5, <1>8, <2>1, <2>2, WriteCases
  <2> QED
    BY <1>7, <1>8, <2>1, <2>3 DEF SaneSink
<1>9. CASE ~s.aborted
  <2>1. /\ IsSink(s) /\ s.line = <<>> /\ s.lex = m /\ s.read = n + 1 /\ s.replaced = places
        /\ \A a, b \in places : a = b
    BY <1>3, <1>9 DEF SaneSink
  <2>2. IsSink(r) /\ r.line = <<"P">> /\ r.lex = m /\ r.read = n + 2 /\ r.replaced = places /\ ~r.aborted
    <3>1. /\ IsSink(r) /\ r.line = Append(s.line, "P") /\ r.lex = s.lex /\ r.replaced = s.replaced
          /\ r.read = s.read + 1 /\ ~r.aborted
      BY <1>0, <1>4, <1>9, <2>1, WriteCases, Zenon
    <3>2. Append(<<>>, "P") = <<"P">>
      OBVIOUS
    <3> QED
      BY <1>1, <2>1, <3>1, <3>2
  <2>3. Text!Scan(r.lex, r.line, TRUE) = m
    <3> DEFINE line == <<"P">>
               none == <<>>
    <3>1. line \in Seq(Units) /\ none \in Seq(Units) /\ line # <<>> /\ line[1] \in Units /\ none \o line = line
      BY <1>0
    <3>2. Holds(none, m, m, Units) /\ Lexes(m, line, m, Units)
      BY HoldsNone
    <3> HIDE DEF line, none
    <3>3. Holds(none \o line, m, m, Units)
      BY <3>1, <3>2, HoldsMore
    <3>4. Text!Scanned(m, line)[Len(line)].lex = m
      BY <3>1, <3>3, HoldsEnd
    <3>5. Text!Scan(m, line, TRUE) = m
      BY <3>4, Zenon DEF Text!Scan
    <3> QED
      BY <2>2, <3>5 DEF line
  <2>4. CASE m.mode = "code" /\ places # {}
    <3>1. t.aborted /\ IsSink(t)
      BY <1>5, <2>2, <2>4, WriteCases
    <3>2. \E a, b \in now : a # b
      <4>1. PICK a \in places : TRUE
        BY <2>4
      <4>2. n + 2 \in now /\ a \in now /\ a # n + 2
        BY <1>1, <1>6, <2>4 DEF now
      <4> QED
        BY <4>2
    <3> QED
      BY <1>7, <3>1, <3>2 DEF SaneSink
  <2>5. CASE ~(m.mode = "code" /\ places # {})
    <3>1. /\ IsSink(t) /\ t.line = <<>> /\ t.lex = m /\ t.read = n + 3 /\ ~t.aborted
          /\ t.replaced = IF m.mode = "code" THEN {n + 2} ELSE places
      <4>1. r.lex.mode = "code" /\ r.line = <<"P">> <=> m.mode = "code"
        BY <2>2
      <4>2. ~((r.lex.mode = "code" /\ r.line = <<"P">>) /\ r.replaced # {})
        BY <2>2, <2>5
      <4>3. /\ IsSink(t) /\ t.line = <<>> /\ t.lex = Text!Scan(r.lex, r.line, TRUE) /\ t.read = r.read + 1 /\ ~t.aborted
            /\ t.replaced = IF r.lex.mode = "code" /\ r.line = <<"P">> THEN {r.read} ELSE r.replaced
        BY <1>5, <2>2, <4>2, WriteCases, Zenon
      <4>4. t.read = n + 3
        BY <1>1, <2>2, <4>3
      <4>5. t.lex = m
        BY <2>3, <4>3
      <4>6. t.replaced = IF m.mode = "code" THEN {n + 2} ELSE places
        BY <2>2, <4>1, <4>3
      <4> QED
        BY <4>3, <4>4, <4>5, <4>6
    <3>2. t.replaced = now /\ \A a, b \in now : a = b
      BY <2>1, <2>5, <3>1 DEF now
    <3>3. t.line \in Seq(Other) /\ Holds(t.line, t.lex, m, Units)
      <4>1. Holds(<<>>, m, m, Units)
        BY HoldsNone
      <4> QED
        BY <3>1, <4>1
    <3> QED
      BY <1>7, <3>1, <3>2, <3>3 DEF SaneSink
  <2> QED
    BY <2>4, <2>5
<1> QED
  BY <1>8, <1>9

-----------------------------------------------------------------------------
(* Segments, and the texts of them.                                        *)

\* A segment has a kind, and pieces of that kind.
Segment == UNION {[kind : {k}, pieces : Seq(Text!Pieces[k])] : k \in Text!Kinds}

IsSegment(s) == s.kind \in Text!Kinds /\ s.pieces \in Seq(Text!Pieces[s.kind])

\* The fields of a segment.
LEMMA SegmentFields == \A s \in Segment : IsSegment(s)
<1> SUFFICES ASSUME NEW k \in Text!Kinds, NEW s \in [kind : {k}, pieces : Seq(Text!Pieces[k])]
             PROVE  IsSegment(s)
  BY DEF Segment
<1> QED
  BY DEF IsSegment

\* Openers, pieces and closers are texts.
LEMMA PartsAreTexts ==
  ASSUME NEW kind \in Text!Kinds
  PROVE  /\ Text!Opener[kind] \in Seq(All) /\ Text!Closer[kind] \in Seq(All)
         /\ \A p \in Text!Pieces[kind] : p \in Seq(All)
<1>1. Seq(Other) \subseteq Seq(All) /\ "n" \in All /\ "P" \in All /\ "b" \in All
  BY DEF Other, All, Units
<1>2. Text!Line \in Seq(All) /\ <<"b">> \in Seq(All) /\ <<"n">> \in Seq(All) /\ <<>> \in Seq(All)
  BY <1>1 DEF Text!Line
<1>3. <<"b">> \o Text!Line \in Seq(All)
  BY <1>2
<1>4. Text!Opener[kind] \in Seq(All)
  BY <1>1, OpenerReads
<1>5. Text!Closer[kind] \in Seq(All)
  BY <1>1, <1>2, CloserReads
<1>6. \A p \in Text!Pieces[kind] : p \in Seq(All)
  BY <1>1, <1>2, <1>3, PieceReads DEF Stays
<1> QED
  BY <1>4, <1>5, <1>6

\* The text of a segment, piece by piece.
LEMMA SegmentSteps ==
  ASSUME NEW s, IsSegment(s)
  PROVE  LET text == Text!SegmentText(s)
         IN /\ text[0] = Text!Opener[s.kind]
            /\ \A j \in 1 .. Len(s.pieces) : text[j] = text[j - 1] \o s.pieces[j]
            /\ \A j \in 0 .. Len(s.pieces) : text[j] \in Seq(All)
<1> DEFINE n == Len(s.pieces)
           D == Seq(All)
           first == Text!Opener[s.kind]
           p == s.pieces
           P(x, j) == x \o p[j]
           Is(f) == f = [j \in 0 .. n |-> IF j = 0 THEN first ELSE P(f[j - 1], j)]
           at == CHOOSE f : Is(f)
           step == [j \in 1 .. n |-> [x \in D |-> P(x, j)]]
<1>1. n \in Nat /\ first \in Seq(All) /\ p \in Seq(Seq(All))
  BY PartsAreTexts DEF IsSegment
<1>n. n \in Nat
  BY <1>1
<1>2. \A j \in 1 .. n : p[j] \in Seq(All)
  BY <1>1
<1>3. Text!SegmentText(s) = at
  BY Zenon DEF Text!SegmentText
<1> HIDE DEF first, p, n, P
<1>4. step \in [1 .. n -> [D -> D]]
  <2>1. \A j \in 1 .. n : \A x \in D : P(x, j) \in D
    BY <1>2 DEF P
  <2> QED
    BY <2>1
<1>5. PICK f \in [0 .. n -> D] : f[0] = first /\ \A i \in 1 .. n : f[i] = step[i][f[i - 1]]
  <2>1. first \in D
    BY <1>1
  <2> HIDE DEF D, step
  <2> QED
    BY <1>n, <1>4, <2>1, Recursion
<1>6. \A j \in 1 .. n : f[j] = P(f[j - 1], j)
  <2> TAKE j \in 1 .. n
  <2>1. f[j - 1] \in D
    BY <1>n
  <2> QED
    BY <1>5, <2>1
<1>7. Is(f)
  <2> DEFINE h == [j \in 0 .. n |-> IF j = 0 THEN first ELSE P(f[j - 1], j)]
  <2>1. \A j \in 0 .. n : f[j] = h[j]
    <3> TAKE j \in 0 .. n
    <3>1. j = 0 \/ j \in 1 .. n
      BY <1>n
    <3>2. f[0] = first
      BY <1>5
    <3> QED
      BY <1>6, <3>1, <3>2
  <2>2. DOMAIN f = 0 .. n /\ f = [j \in 0 .. n |-> f[j]] /\ h = [j \in 0 .. n |-> h[j]]
    BY <1>5
  <2> HIDE DEF h
  <2>3. f = h
    BY <2>1, <2>2
  <2> QED
    BY <2>3 DEF h
<1>8. Is(at)
  BY <1>7, Zenon
<1> HIDE DEF at
<1>9. at[0] = first /\ \A j \in 1 .. n : at[j] = P(at[j - 1], j)
  BY <1>n, <1>8
<1> DEFINE S == {j \in Nat : j <= n => at[j] \in Seq(All)}
<1>10. 0 \in S
  BY <1>1, <1>9
<1>11. ASSUME NEW j \in Nat, j \in S PROVE j + 1 \in S
  <2> SUFFICES ASSUME j + 1 <= n PROVE at[j + 1] \in Seq(All)
    OBVIOUS
  <2>1. j + 1 \in 1 .. n /\ (j + 1) - 1 = j /\ at[j] \in Seq(All)
    BY <1>1, <1>11
  <2>2. at[j + 1] = at[j] \o p[j + 1] /\ p[j + 1] \in Seq(All)
    BY <1>2, <1>9, <2>1 DEF P
  <2> QED
    BY <2>1, <2>2
<1>12. \A j \in 0 .. n : at[j] \in Seq(All)
  <2>1. Nat \subseteq S
    <3> HIDE DEF S
    <3> QED
      BY <1>10, <1>11, Induction
  <2> QED
    BY <1>1, <2>1
<1> QED
  BY <1>3, <1>9, <1>12 DEF first, p, n, P

\* What ends a segment, if the text is not cut there.
Ending(segments, cut, i) == IF cut /\ i = Len(segments) THEN <<>> ELSE Text!Closer[segments[i].kind]

\* The text of a segment before its closer.
Body(s) == Text!SegmentText(s)[Len(s.pieces)]

\* A segment of a text, what it says and what ends it are texts.
LEMMA SegmentIsText ==
  ASSUME NEW segments \in Seq(Segment), NEW cut, NEW i \in 1 .. Len(segments)
  PROVE  IsSegment(segments[i]) /\ Body(segments[i]) \in Seq(All) /\ Ending(segments, cut, i) \in Seq(All)
<1>1. IsSegment(segments[i])
  <2>1. segments[i] \in Segment
    OBVIOUS
  <2> QED
    BY <2>1, SegmentFields
<1> DEFINE s == segments[i]
<1> HIDE DEF s
<1>2. IsSegment(s) /\ Len(s.pieces) \in Nat /\ s.kind \in Text!Kinds
  BY <1>1 DEF s, IsSegment
<1>3. Body(s) \in Seq(All)
  <2>1. Len(s.pieces) \in 0 .. Len(s.pieces)
    BY <1>2
  <2> QED
    BY <1>2, <2>1, SegmentSteps DEF Body
<1>4. Ending(segments, cut, i) \in Seq(All)
  <2>1. Text!Closer[s.kind] \in Seq(All) /\ <<>> \in Seq(All)
    BY <1>2, PartsAreTexts
  <2> QED
    BY <2>1 DEF Ending, s
<1> QED
  BY <1>2, <1>3, <1>4 DEF s

\* The text, segment by segment.
LEMMA TextSteps ==
  ASSUME NEW segments \in Seq(Segment), NEW cut
  PROVE  LET text == Text!TextOf(segments, cut)
         IN /\ text[0] = <<>>
            /\ \A i \in 1 .. Len(segments) : text[i] = text[i - 1] \o Body(segments[i]) \o Ending(segments, cut, i)
            /\ \A i \in 0 .. Len(segments) : text[i] \in Seq(All)
<1> DEFINE n == Len(segments)
           D == Seq(All)
           first == <<>>
           B(i) == Body(segments[i])
           E(i) == Ending(segments, cut, i)
           P(x, i) == x \o B(i) \o E(i)
           Is(f) == f = [i \in 0 .. n |-> IF i = 0 THEN first ELSE P(f[i - 1], i)]
           at == CHOOSE f : Is(f)
           step == [i \in 1 .. n |-> [x \in D |-> P(x, i)]]
<1>1. n \in Nat /\ first \in Seq(All)
  OBVIOUS
<1>2. \A i \in 1 .. n : B(i) \in Seq(All) /\ E(i) \in Seq(All)
  BY SegmentIsText
<1>3. Text!TextOf(segments, cut) = at
  BY Zenon DEF Text!TextOf, Body, Ending
<1>n. n \in Nat
  BY <1>1
<1> HIDE DEF first, B, E, n, P
<1>4. step \in [1 .. n -> [D -> D]]
  <2>1. \A i \in 1 .. n : \A x \in D : P(x, i) \in D
    BY <1>2 DEF P
  <2> QED
    BY <2>1
<1>5. PICK f \in [0 .. n -> D] : f[0] = first /\ \A i \in 1 .. n : f[i] = step[i][f[i - 1]]
  <2>1. first \in D
    BY <1>1
  <2> HIDE DEF D, step
  <2> QED
    BY <1>n, <1>4, <2>1, Recursion
<1>6. \A i \in 1 .. n : f[i] = P(f[i - 1], i)
  <2> TAKE i \in 1 .. n
  <2>1. f[i - 1] \in D
    BY <1>n
  <2> QED
    BY <1>5, <2>1
<1>7. Is(f)
  <2> DEFINE h == [i \in 0 .. n |-> IF i = 0 THEN first ELSE P(f[i - 1], i)]
  <2>1. \A i \in 0 .. n : f[i] = h[i]
    <3> TAKE i \in 0 .. n
    <3>1. i = 0 \/ i \in 1 .. n
      BY <1>n
    <3>2. f[0] = first
      BY <1>5
    <3> QED
      BY <1>6, <3>1, <3>2
  <2>2. DOMAIN f = 0 .. n /\ f = [i \in 0 .. n |-> f[i]] /\ h = [i \in 0 .. n |-> h[i]]
    BY <1>5
  <2> HIDE DEF h
  <2>3. f = h
    BY <2>1, <2>2
  <2> QED
    BY <2>3 DEF h
<1>8. Is(at)
  BY <1>7, Zenon
<1> HIDE DEF at
<1>9. at[0] = first /\ \A i \in 1 .. n : at[i] = P(at[i - 1], i)
  BY <1>n, <1>8
<1> DEFINE S == {i \in Nat : i <= n => at[i] \in Seq(All)}
<1>10. 0 \in S
  BY <1>1, <1>9
<1>11. ASSUME NEW i \in Nat, i \in S PROVE i + 1 \in S
  <2> SUFFICES ASSUME i + 1 <= n PROVE at[i + 1] \in Seq(All)
    OBVIOUS
  <2>1. i + 1 \in 1 .. n /\ (i + 1) - 1 = i /\ at[i] \in Seq(All)
    BY <1>1, <1>11
  <2>2. at[i + 1] = at[i] \o B(i + 1) \o E(i + 1) /\ B(i + 1) \in Seq(All) /\ E(i + 1) \in Seq(All)
    BY <1>2, <1>9, <2>1 DEF P
  <2> QED
    BY <2>1, <2>2
<1>12. \A i \in 0 .. n : at[i] \in Seq(All)
  <2>1. Nat \subseteq S
    <3> HIDE DEF S
    <3> QED
      BY <1>10, <1>11, Induction
  <2> QED
    BY <1>1, <2>1
<1> QED
  BY <1>3, <1>9, <1>12 DEF first, B, E, n, P

-----------------------------------------------------------------------------
(* What the sink makes of a text.                                          *)

\* The places of the statement in the first j pieces, and in the first i segments.
PlacesIn(s, j) == {Len(Text!SegmentText(s)[k - 1]) + 2 : k \in {k \in 1 .. j : s.kind = "code" /\ s.pieces[k] = Text!Line}}
Shifted(n, places) == {n + e : e \in places}

\* A condition on what follows may be stronger.
LEMMA SaneBefore ==
  ASSUME NEW u, NEW m, NEW N, NEW places, Sane(u, m, N, places), NEW N2, N2 \subseteq N
  PROVE  Sane(u, m, N2, places)
<1>1. \A line, lex : Holds(line, lex, m, N) => Holds(line, lex, m, N2)
  <2> SUFFICES ASSUME NEW line, NEW lex, Holds(line, lex, m, N), NEW v \in Seq(Units), Stands(line, v, 0),
                      Before(N2, v, Len(line))
               PROVE  At(Text!Scanned(lex, v)[Len(line)], v, Len(line), m)
    BY DEF Holds
  <2>1. Before(N, v, Len(line))
    BY DEF Before
  <2> QED
    BY <2>1 DEF Holds
<1> QED
  BY <1>1, Zenon DEF Sane, SaneSink

\* The modes of the kinds.
LEMMA KindModes ==
  ASSUME NEW kind \in Text!Kinds
  PROVE  /\ Mode(kind).mode = "comment" <=> kind = "line"
         /\ Mode(kind).mode = "code" <=> kind = "code"
         /\ kind = "code" => Mode(kind) = Text!Code
         /\ kind = "line" => Mode(kind) = Comment
         /\ kind = "estring" => Mode(kind) = Escape
  BY Modes DEF Mode, Text!Kinds, Block, Dollar

\* One more piece.
LEMMA PieceSane ==
  ASSUME NEW kind \in Text!Kinds, NEW p \in Text!Pieces[kind], NEW u, NEW places, Sane(u, Mode(kind), Units, places)
  PROVE  Sane(u \o p, Mode(kind), Units,
              IF kind = "code" /\ p = Text!Line THEN places \union {Len(u) + 2} ELSE places)
<1> DEFINE m == Mode(kind)
<1>0. p # <<>> /\ (m.mode = "comment" <=> kind = "line") /\ (m.mode = "code" <=> kind = "code")
  BY PieceIsSomething, KindModes
<1>1. CASE kind # "line" /\ p = Text!Line
  <2>1. Lexes(m, <<"P">>, m, Units)
    BY <1>1, StatementReads
  <2>2. Sane(u \o Text!Line, m, Units, IF m.mode = "code" THEN places \union {Len(u) + 2} ELSE places)
    BY <1>0, <1>1, <2>1, SaneLine
  <2> QED
    BY <1>0, <1>1, <2>2
<1>2. CASE kind = "estring" /\ p = <<"b">> \o Text!Line
  <2>1. m = Escape /\ m.mode # "comment" /\ m.mode # "code"
    BY <1>0, <1>2, KindModes
  <2> DEFINE w == <<"b">>
  <2>2. w \in Seq(Other) /\ w # <<>> /\ w[1] \in Units /\ w \in Seq(All)
    BY DEF Other, Units, All
  <2>3. Lexes(m, w, m, {}) /\ Lexes(m, <<"P">>, m, Units)
    BY <1>2, <2>1, ReadsEscaped, StatementReads
  <2>4. (u \o w) \o Text!Line = u \o p
    <3>1. u \in Seq(All) /\ Text!Line \in Seq(All)
      BY DEF Sane, Text!Line, All, Units
    <3> HIDE DEF w
    <3>2. (u \o w) \o Text!Line = u \o (w \o Text!Line)
      BY <2>2, <3>1, ConcatAssociative
    <3> QED
      BY <1>2, <3>2 DEF w
  <2> HIDE DEF w, m
  <2>5. Sane(u \o w, m, {}, places)
    BY <2>2, <2>3, SaneText DEF m
  <2>6. Sane((u \o w) \o Text!Line, m, Units, IF m.mode = "code" THEN places \union {Len(u \o w) + 2} ELSE places)
    BY <2>1, <2>3, <2>5, SaneLine
  <2> QED
    BY <1>2, <2>1, <2>4, <2>6 DEF m
<1>3. CASE ~(kind = "code" /\ p = Text!Line) /\ Stays(m, p)
  <2>1. p \in Seq(Other) /\ Lexes(m, p, m, Units)
    BY <1>3 DEF Stays
  <2>2. p[1] \in Units
    BY <1>0, <2>1 DEF Other
  <2>3. Sane(u \o p, m, Units, places)
    BY <1>0, <2>1, <2>2, SaneText
  <2> QED
    BY <1>3, <2>3
<1> QED
  BY <1>1, <1>2, <1>3, PieceReads

\* The pieces of a segment.
LEMMA SegmentSane ==
  ASSUME NEW s, IsSegment(s), NEW u, NEW places, Sane(u, Text!Code, Units \ {"q", "d"}, places),
         NEW j \in 0 .. Len(s.pieces)
  PROVE  Sane(u \o Text!SegmentText(s)[j], Mode(s.kind), Units, places \union Shifted(Len(u), PlacesIn(s, j)))
<1> DEFINE text == Text!SegmentText(s)
           n == Len(s.pieces)
           kind == s.kind
           p == s.pieces
           m == Mode(kind)
           Now(k) == places \union Shifted(Len(u), PlacesIn(s, k))
           S == {k \in Nat : k <= n => Sane(u \o text[k], m, Units, Now(k))}
<1>1. n \in Nat /\ kind \in Text!Kinds /\ p \in Seq(Text!Pieces[kind]) /\ u \in Seq(All) /\ Len(u) \in Nat
  BY DEF IsSegment, Sane
<1>n. n = Len(p)
  OBVIOUS
<1>2. /\ text[0] = Text!Opener[kind]
      /\ \A k \in 1 .. n : text[k] = text[k - 1] \o p[k]
      /\ \A k \in 0 .. n : text[k] \in Seq(All)
  BY SegmentSteps
<1>p. \A k : PlacesIn(s, k) = {Len(text[i - 1]) + 2 : i \in {i \in 1 .. k : kind = "code" /\ p[i] = Text!Line}}
  BY DEF PlacesIn
<1> HIDE DEF text, n, kind, p, m
<1>3. 0 \in S
  <2>1. Now(0) = places
    <3>1. PlacesIn(s, 0) = {}
      BY <1>p
    <3> QED
      BY <3>1 DEF Shifted
  <2> DEFINE w == Text!Opener[kind]
  <2>2. w \in Seq(Other) /\ w # <<>> /\ w[1] \in Units \ {"q", "d"} /\ Lexes(Text!Code, w, m, Units)
    BY <1>1, OpenerReads DEF m, Units
  <2> HIDE DEF w
  <2>3. Sane(u \o w, m, Units, places)
    BY <2>2, SaneText
  <2> QED
    BY <1>2, <2>1, <2>3 DEF w
<1>4. ASSUME NEW k \in Nat, k \in S PROVE k + 1 \in S
  <2> SUFFICES ASSUME k + 1 <= n PROVE Sane(u \o text[k + 1], m, Units, Now(k + 1))
    OBVIOUS
  <2> DEFINE q == p[k + 1]
             v == u \o text[k]
  <2>1. k + 1 \in 1 .. n /\ k \in 0 .. n /\ (k + 1) - 1 = k
    BY <1>1
  <2>2. Sane(v, m, Units, Now(k))
    BY <1>1, <1>4
  <2>3. q \in Text!Pieces[kind] /\ text[k + 1] = text[k] \o q /\ text[k] \in Seq(All)
    <3>1. q \in Text!Pieces[kind]
      BY <1>1, <1>n, <2>1
    <3>2. text[k + 1] = text[k] \o q /\ text[k] \in Seq(All)
      BY <1>2, <2>1
    <3> QED
      BY <3>1, <3>2
  <2>4. q \in Seq(All)
    BY <1>1, <2>3, PartsAreTexts
  <2>5. v \o q = u \o text[k + 1] /\ Len(v) = Len(u) + Len(text[k]) /\ Len(text[k]) \in Nat
    <3>1. v \o q = u \o (text[k] \o q)
      <4> DEFINE t == text[k]
                 z == q
      <4>1. t \in Seq(All) /\ z \in Seq(All) /\ u \in Seq(All)
        BY <1>1, <2>3, <2>4
      <4> HIDE DEF t, z
      <4>2. (u \o t) \o z = u \o (t \o z)
        BY <4>1, ConcatAssociative
      <4> QED
        BY <4>2 DEF t, z
    <3>2. Len(v) = Len(u) + Len(text[k]) /\ Len(text[k]) \in Nat
      BY <1>1, <2>3
    <3> QED
      BY <2>3, <3>1, <3>2
  <2> HIDE DEF q, v, Now
  <2> DEFINE more == IF kind = "code" /\ q = Text!Line THEN Now(k) \union {Len(v) + 2} ELSE Now(k)
  <2>6. Sane(v \o q, m, Units, more)
    BY <1>1, <2>2, <2>3, PieceSane DEF m
  <2>7. Now(k + 1) = more
    <3>1. PlacesIn(s, k + 1) = IF kind = "code" /\ q = Text!Line
                               THEN PlacesIn(s, k) \union {Len(text[k]) + 2} ELSE PlacesIn(s, k)
      <4> DEFINE L(i) == Len(text[i - 1]) + 2
                 C(i) == kind = "code" /\ p[i] = Text!Line
      <4>1. PlacesIn(s, k + 1) = {L(i) : i \in {i \in 1 .. k + 1 : C(i)}} /\ PlacesIn(s, k) = {L(i) : i \in {i \in 1 .. k : C(i)}}
        BY <1>p
      <4>2. L(k + 1) = Len(text[k]) + 2 /\ (C(k + 1) <=> kind = "code" /\ q = Text!Line)
        BY <2>1 DEF q
      <4> HIDE DEF L, C
      <4>3. \A i : i \in 1 .. k + 1 <=> i \in 1 .. k \/ i = k + 1
        OBVIOUS
      <4>4. {L(i) : i \in {i \in 1 .. k + 1 : C(i)}}
              = IF C(k + 1) THEN {L(i) : i \in {i \in 1 .. k : C(i)}} \union {L(k + 1)} ELSE {L(i) : i \in {i \in 1 .. k : C(i)}}
        BY <4>3
      <4> QED
        BY <4>1, <4>2, <4>4
    <3>2. \A A, e : Shifted(Len(u), A \union {e}) = Shifted(Len(u), A) \union {Len(u) + e}
      BY DEF Shifted
    <3>3. Len(u) + (Len(text[k]) + 2) = Len(v) + 2
      BY <1>1, <2>5
    <3>4. CASE kind = "code" /\ q = Text!Line
      <4>1. Shifted(Len(u), PlacesIn(s, k + 1)) = Shifted(Len(u), PlacesIn(s, k)) \union {Len(v) + 2}
        <5>1. Shifted(Len(u), PlacesIn(s, k) \union {Len(text[k]) + 2})
                = Shifted(Len(u), PlacesIn(s, k)) \union {Len(u) + (Len(text[k]) + 2)}
          BY <3>2, Zenon
        <5>2. PlacesIn(s, k + 1) = PlacesIn(s, k) \union {Len(text[k]) + 2}
          BY <3>1, <3>4
        <5> QED
          BY <3>3, <5>1, <5>2, Zenon
      <4> QED
        BY <3>4, <4>1 DEF Now
    <3>5. CASE ~(kind = "code" /\ q = Text!Line)
      BY <3>1, <3>5 DEF Now
    <3> QED
      BY <3>4, <3>5
  <2> QED
    BY <2>5, <2>6, <2>7
<1>5. j \in S
  <2>1. j \in Nat
    OBVIOUS
  <2> HIDE DEF S
  <2> QED
    BY <1>3, <1>4, <2>1, Induction
<1> QED
  BY <1>1, <1>5 DEF text, n, kind, p, m

\* The places of the statement in the first i segments.
PlacesOf(segments, cut, i) ==
  UNION {Shifted(Len(Text!TextOf(segments, cut)[k - 1]), Text!StatementsOf(segments[k])) : k \in 1 .. i}

\* The end of a segment.
LEMMA CloserSane ==
  ASSUME NEW kind \in Text!Kinds, NEW u, NEW places, Sane(u, Mode(kind), Units, places)
  PROVE  Sane(u \o Text!Closer[kind], Text!Code, Units \ {"q", "d"}, places)
<1> DEFINE w == Text!Closer[kind]
           m == Mode(kind)
<1>0. u \in Seq(All) /\ "n" \in All
  BY DEF Sane, All
<1>1. CASE kind = "code" /\ w = <<>> /\ m = Text!Code
  <2>1. u \o w = u
    BY <1>0, <1>1
  <2>2. Sane(u, Text!Code, Units, places)
    BY <1>1
  <2> QED
    BY <2>1, <2>2, SaneBefore
<1>2. CASE kind = "line" /\ w = <<"n">> /\ m = Comment
  <2>1. u \o w = Append(u, "n")
    BY <1>0, <1>2
  <2>2. Ended(m) = Text!Code
    BY <1>2, KindModes DEF Ended
  <2>3. Sane(Append(u, "n"), Ended(m), Units \ {"q", "d"}, places)
    <3> HIDE DEF m
    <3>1. Sane(u, m, Units, places)
      BY DEF m
    <3> QED
      BY <3>1, SaneEnd
  <2> QED
    BY <2>1, <2>2, <2>3
<1>3. CASE w \in Seq(Other) /\ w # <<>> /\ Lexes(m, w, Text!Code, Units \ {"q", "d"})
  <2>1. w[1] \in Units
    BY <1>3 DEF Other
  <2> HIDE DEF w, m
  <2>2. Sane(u, m, Units, places)
    BY DEF m
  <2>3. Sane(u \o w, Text!Code, Units \ {"q", "d"}, places)
    BY <1>3, <2>1, <2>2, SaneText
  <2> QED
    BY <2>3 DEF w
<1> QED
  BY <1>1, <1>2, <1>3, CloserReads

\* Where the lexer is behind the first i segments.
ModeBehind(segments, cut, i) ==
  IF cut /\ i = Len(segments) /\ i # 0 THEN Mode(segments[i].kind) ELSE Text!Code

\* The text as far as each of its segments.
LEMMA TextSane ==
  ASSUME NEW segments \in Seq(Segment), NEW cut, NEW i \in 0 .. Len(segments)
  PROVE  Sane(Text!TextOf(segments, cut)[i], ModeBehind(segments, cut, i), Units \ {"q", "d"}, PlacesOf(segments, cut, i))
<1> DEFINE text == Text!TextOf(segments, cut)
           n == Len(segments)
           N == Units \ {"q", "d"}
           M(k) == ModeBehind(segments, cut, k)
           L(k) == PlacesOf(segments, cut, k)
           S == {k \in Nat : k <= n => Sane(text[k], M(k), N, L(k))}
<1>1. n \in Nat
  OBVIOUS
<1>2. /\ text[0] = <<>>
      /\ \A k \in 1 .. n : text[k] = text[k - 1] \o Body(segments[k]) \o Ending(segments, cut, k)
      /\ \A k \in 0 .. n : text[k] \in Seq(All)
  BY TextSteps
<1>l. \A k : L(k) = UNION {Shifted(Len(text[j - 1]), Text!StatementsOf(segments[j])) : j \in 1 .. k}
  BY DEF PlacesOf
<1>m. \A k \in 0 .. n - 1 : M(k) = Text!Code
  BY <1>1 DEF ModeBehind
<1> HIDE DEF text, M, L
<1>3. 0 \in S
  <2>1. L(0) = {}
    BY <1>l
  <2>2. M(0) = Text!Code
    BY DEF M, ModeBehind
  <2>3. After(<<>>) = [line |-> <<>>, lex |-> Text!Code, replaced |-> {}, read |-> 0, aborted |-> FALSE]
    BY AfterNone DEF Text!Fresh
  <2>4. Holds(<<>>, Text!Code, Text!Code, N)
    BY HoldsNone, Modes
  <2> DEFINE s == After(<<>>)
  <2> HIDE DEF s, N
  <2>5. s.line = <<>> /\ s.lex = Text!Code /\ s.replaced = {} /\ s.read = 0 /\ s.aborted = FALSE
    BY <2>3 DEF s
  <2>6. IsSink(s)
    BY <2>3, <2>5 DEF IsSink, s
  <2>7. Len(<<>>) = 0 /\ <<>> \in Seq(All) /\ <<>> \in Seq(Other)
    OBVIOUS
  <2>8. SaneSink(s, 0, Text!Code, N, {})
    BY <2>4, <2>5, <2>6, <2>7, Zenon DEF SaneSink
  <2> QED
    BY <1>2, <2>1, <2>2, <2>7, <2>8 DEF Sane, s
<1>4. ASSUME NEW k \in Nat, k \in S PROVE k + 1 \in S
  <2> SUFFICES ASSUME k + 1 <= n PROVE Sane(text[k + 1], M(k + 1), N, L(k + 1))
    OBVIOUS
  <2> DEFINE s == segments[k + 1]
             u == text[k]
             e == Ending(segments, cut, k + 1)
             b == Body(s)
  <2>1. k + 1 \in 1 .. n /\ k \in 0 .. n /\ k \in 0 .. n - 1 /\ (k + 1) - 1 = k
    BY <1>1
  <2>2. IsSegment(s) /\ b \in Seq(All) /\ e \in Seq(All)
    BY <2>1, SegmentIsText
  <2>3. Sane(u, Text!Code, N, L(k)) /\ u \in Seq(All)
    BY <1>1, <1>2, <1>4, <1>m, <2>1
  <2>4. text[k + 1] = (u \o b) \o e
    BY <1>2, <2>1
  <2>5. L(k + 1) = L(k) \union Shifted(Len(u), Text!StatementsOf(s))
    <3> DEFINE F(j) == Shifted(Len(text[j - 1]), Text!StatementsOf(segments[j]))
    <3>1. L(k + 1) = UNION {F(j) : j \in 1 .. k + 1} /\ L(k) = UNION {F(j) : j \in 1 .. k}
      BY <1>l
    <3>2. F(k + 1) = Shifted(Len(u), Text!StatementsOf(s))
      BY <2>1
    <3> HIDE DEF F
    <3>3. \A j : j \in 1 .. k + 1 <=> j \in 1 .. k \/ j = k + 1
      OBVIOUS
    <3>4. UNION {F(j) : j \in 1 .. k + 1} = (UNION {F(j) : j \in 1 .. k}) \union F(k + 1)
      <4>1. {F(j) : j \in 1 .. k + 1} = {F(j) : j \in 1 .. k} \union {F(k + 1)}
        BY <3>3
      <4>2. \A A, B : UNION (A \union {B}) = (UNION A) \union B
        OBVIOUS
      <4> QED
        BY <4>1, <4>2
    <3> QED
      BY <3>1, <3>2, <3>4
  <2>6. e = IF cut /\ k + 1 = n THEN <<>> ELSE Text!Closer[s.kind]
    BY DEF Ending
  <2>7. M(k + 1) = IF cut /\ k + 1 = n THEN Mode(s.kind) ELSE Text!Code
    <3>1. k + 1 # 0
      OBVIOUS
    <3> QED
      BY <3>1, Zenon DEF M, ModeBehind
  <2> HIDE DEF s, u, e
  <2>8. Sane(u \o b, Mode(s.kind), Units, L(k + 1))
    <3> DEFINE j == Len(s.pieces)
    <3>1. j \in 0 .. Len(s.pieces)
      BY <2>2 DEF IsSegment
    <3>2. PlacesIn(s, j) = Text!StatementsOf(s)
      <4>1. DOMAIN s.pieces = 1 .. j
        BY <2>2 DEF IsSegment
      <4> QED
        BY <4>1, Zenon DEF PlacesIn, Text!StatementsOf
    <3> HIDE DEF j
    <3>3. Sane(u \o Text!SegmentText(s)[j], Mode(s.kind), Units, L(k) \union Shifted(Len(u), PlacesIn(s, j)))
      BY <2>2, <2>3, <3>1, SegmentSane
    <3>4. b = Text!SegmentText(s)[j]
      BY DEF Body, j
    <3> QED
      BY <2>5, <3>2, <3>3, <3>4
  <2> HIDE DEF b
  <2>9. s.kind \in Text!Kinds
    BY <2>2 DEF IsSegment
  <2>10. CASE cut /\ k + 1 = n
    <3>1. (u \o b) \o e = u \o b
      BY <2>2, <2>3, <2>6, <2>10
    <3>2. Sane(u \o b, Mode(s.kind), N, L(k + 1))
      BY <2>8, SaneBefore
    <3> QED
      BY <2>4, <2>7, <2>10, <3>1, <3>2
  <2>11. CASE ~(cut /\ k + 1 = n)
    <3>1. Sane((u \o b) \o Text!Closer[s.kind], Text!Code, N, L(k + 1))
      BY <2>8, <2>9, CloserSane
    <3> QED
      BY <2>4, <2>6, <2>7, <2>11, <3>1
  <2> QED
    BY <2>10, <2>11
<1>5. i \in S
  <2>1. i \in Nat
    OBVIOUS
  <2> HIDE DEF S
  <2> QED
    BY <1>3, <1>4, <2>1, Induction
<1> QED
  BY <1>5 DEF text, M, L

\* The end of a text.
LEMMA CloseSane ==
  ASSUME NEW u, NEW m, NEW N, NEW places, Sane(u, m, N, places)
  PROVE  LET after == Text!Close(After(u))
         IN /\ ~after.aborted <=> Text!Complete(m) /\ \E e \in places : places = {e}
            /\ ~after.aborted => after.replaced = places
<1> DEFINE s == After(u)
           t == IF s.aborted \/ s.line = <<>> THEN s ELSE Text!WriteLine(s, FALSE)
           after == Text!Close(s)
           last == t.replaced = {} \/ ~Text!Complete(t.lex)
           once == \E e \in places : places = {e}
<1>1. SaneSink(s, Len(u), m, N, places)
  BY DEF Sane
<1>2. after = [t EXCEPT !.aborted = @ \/ last]
  BY Zenon DEF Text!Close
<1> HIDE DEF s, t, after
<1>3. ASSUME IsSink(t) PROVE /\ after.aborted <=> t.aborted \/ last
                             /\ after.replaced = t.replaced
  <2> DEFINE line == t.line
             lex == t.lex
             replaced == t.replaced
             read == t.read
             aborted == t.aborted
  <2>1. t = [line |-> line, lex |-> lex, replaced |-> replaced, read |-> read, aborted |-> aborted] /\ aborted \in BOOLEAN
    BY <1>3 DEF IsSink
  <2> HIDE DEF line, lex, replaced, read, aborted, last
  <2>2. after = [line |-> line, lex |-> lex, replaced |-> replaced, read |-> read, aborted |-> aborted \/ last]
    BY <1>2, <2>1
  <2>3. after.replaced = replaced /\ after.aborted = (aborted \/ last)
    BY <2>2
  <2> QED
    BY <2>3, Zenon DEF replaced, aborted
<1>4. CASE s.aborted
  <2>1. t = s /\ IsSink(t) /\ t.aborted
    BY <1>1, <1>4 DEF t, SaneSink
  <2>2. ~once
    BY <1>1, <1>4 DEF SaneSink
  <2> QED
    BY <1>3, <2>1, <2>2 DEF after, s
<1>5. CASE ~s.aborted
  <2>1. /\ IsSink(s) /\ s.replaced = places /\ (\A a, b \in places : a = b)
        /\ s.line \in Seq(Other) /\ Holds(s.line, s.lex, m, N)
    BY <1>1, <1>5 DEF SaneSink
  <2>2. Text!Scanned(s.lex, s.line)[Len(s.line)].lex = m
    <3> DEFINE line == s.line
    <3>1. line \in Seq(Units) /\ Holds(line, s.lex, m, N)
      BY <2>1 DEF Other
    <3> HIDE DEF line
    <3>2. Text!Scanned(s.lex, line)[Len(line)].lex = m
      BY <3>1, HoldsEnd
    <3> QED
      BY <3>2 DEF line
  <2>3. IsSink(t) /\ ~t.aborted /\ t.replaced = places /\ t.lex = m
    <3>1. CASE s.line = <<>>
      <4>1. t = s
        BY <3>1 DEF t
      <4>2. s.lex = m
        <5>1. Text!Scanned(s.lex, <<>>)[0] = [next |-> 1, lex |-> s.lex] /\ Len(<<>>) = 0
          <6>1. Len(<<>>) = 0 /\ Len(<<>>) \in Nat
            OBVIOUS
          <6> QED
            BY <6>1, ScanSteps
        <5>2. [next |-> 1, lex |-> s.lex].lex = s.lex
          OBVIOUS
        <5> QED
          BY <2>2, <3>1, <5>1, <5>2, Zenon
      <4> QED
        BY <1>5, <2>1, <4>1, <4>2
    <3>2. CASE s.line # <<>>
      <4>1. s.line # <<"P">>
        <5>1. s.line = <<"P">> => s.line[1] = "P" /\ Len(s.line) = 1
          OBVIOUS
        <5>2. "P" \notin Other
          BY DEF Other
        <5> QED
          BY <2>1, <5>1, <5>2
      <4>2. Text!Scan(s.lex, s.line, FALSE) = m
        BY <2>2, Zenon DEF Text!Scan
      <4>3. t = [s EXCEPT !.replaced = s.replaced, !.lex = m]
        <5>1. t = Text!WriteLine(s, FALSE)
          BY <1>5, <3>2 DEF t
        <5>2. Text!WriteLine(s, FALSE) = [s EXCEPT !.replaced = s.replaced, !.lex = Text!Scan(s.lex, s.line, FALSE)]
          BY <4>1, Zenon DEF Text!WriteLine
        <5> QED
          BY <4>2, <5>1, <5>2
      <4> DEFINE line == s.line
                 lex == s.lex
                 replaced == s.replaced
                 read == s.read
                 aborted == s.aborted
      <4>4. s = [line |-> line, lex |-> lex, replaced |-> replaced, read |-> read, aborted |-> aborted] /\ aborted \in BOOLEAN
        BY <2>1 DEF IsSink
      <4>5. t = [s EXCEPT !.replaced = replaced, !.lex = m]
        BY <4>3
      <4>6. replaced = places /\ ~aborted
        BY <1>5, <2>1
      <4> HIDE DEF line, lex, replaced, read, aborted
      <4>7. t = [line |-> line, lex |-> m, replaced |-> replaced, read |-> read, aborted |-> aborted]
        BY <4>4, <4>5
      <4>8. t.line = line /\ t.lex = m /\ t.replaced = replaced /\ t.read = read /\ t.aborted = aborted
        BY <4>7
      <4>9. IsSink(t)
        BY <4>4, <4>7, <4>8 DEF IsSink
      <4> QED
        BY <4>6, <4>8, <4>9
    <3> QED
      BY <3>1, <3>2
  <2>4. once <=> places # {}
    BY <2>1
  <2>5. after.replaced = places /\ (after.aborted <=> places = {} \/ ~Text!Complete(m))
    BY <1>3, <2>3
  <2> HIDE DEF once, last
  <2>6. /\ ~after.aborted <=> Text!Complete(m) /\ once
        /\ ~after.aborted => after.replaced = places
    BY <2>4, <2>5
  <2> QED
    BY <2>6 DEF after, s, once
<1> QED
  BY <1>4, <1>5

\* A text of any segments is handled as ReplacesTheStatement says.
LEMMA TextIsHandled ==
  ASSUME NEW segments \in Seq(Segment), NEW cut
  PROVE  Text!ReplacesTheStatement(segments, cut)
<1> DEFINE n == Len(segments)
           u == Text!TextOf(segments, cut)[n]
           m == ModeBehind(segments, cut, n)
           places == PlacesOf(segments, cut, n)
           whole == ~cut \/ n = 0 \/ segments[n].kind \in {"code", "line"}
           after == Text!Transform(u)
<1>1. n \in Nat /\ DOMAIN segments = 1 .. n
  OBVIOUS
<1>2. Sane(u, m, Units \ {"q", "d"}, places)
  <2>1. n \in 0 .. Len(segments)
    BY <1>1
  <2> HIDE DEF n
  <2> QED
    BY <2>1, TextSane
<1>3. places = Text!Statements(segments, cut)
  BY <1>1, Zenon DEF PlacesOf, Shifted, Text!Statements
<1>4. Text!Complete(m) <=> whole
  <2>1. CASE cut /\ n # 0
    <3>1. segments[n].kind \in Text!Kinds
      <4>1. n \in 1 .. Len(segments)
        BY <1>1, <2>1
      <4>2. segments[n] \in Segment
        BY <4>1
      <4> QED
        BY <4>2, SegmentFields DEF IsSegment
    <3>2. m = Mode(segments[n].kind)
      BY <2>1 DEF ModeBehind
    <3> HIDE DEF n, m
    <3> QED
      BY <2>1, <3>1, <3>2, KindModes DEF Text!Complete
  <2>2. CASE ~(cut /\ n # 0)
    <3>1. m = Text!Code
      BY <2>2 DEF ModeBehind
    <3> HIDE DEF n, m
    <3> QED
      BY <2>2, <3>1, Modes DEF Text!Complete
  <2> QED
    BY <2>1, <2>2
<1>5. after = Text!Close(After(u))
  BY TransformMeans
<1>6. Text!ReplacesTheStatement(segments, cut) <=>
        /\ ~after.aborted <=> whole /\ \E e \in Text!Statements(segments, cut) : Text!Statements(segments, cut) = {e}
        /\ ~after.aborted => after.replaced = Text!Statements(segments, cut)
  BY Zenon DEF Text!ReplacesTheStatement
<1> HIDE DEF u, m, places, whole, after
<1>7. /\ ~after.aborted <=> Text!Complete(m) /\ \E e \in places : places = {e}
      /\ ~after.aborted => after.replaced = places
  BY <1>2, <1>5, CloseSane
<1> QED
  BY <1>3, <1>4, <1>6, <1>7, Zenon

\* The filter on the schema dump handles texts of any length: it accepts them exactly when
\* they are whole and CREATE SCHEMA public; stands in their code once, and replaces it
\* there - whatever stands in literals, escape strings, quoted names, comments and bodies
\* around it (capture_sql.go:50-93).
THEOREM StatementReplaced ==
  ASSUME algorithm = "text" => input.segments \in Seq(Segment)
  PROVE  StatementIsReplaced
  BY TextIsHandled DEF StatementIsReplaced

\* The texts that are built step by step are such texts, so that what the run checks is an
\* instance of the above.
THEOREM BuiltTextsReplaced == InputSpec => []StatementIsReplaced
<1> DEFINE Built == algorithm = "text" => input \in [segments : Seq(Segment), cut : BOOLEAN]
<1>1. InputInit => Built
  <2>1. [segments |-> <<>>, cut |-> FALSE] \in [segments : Seq(Segment), cut : BOOLEAN]
    OBVIOUS
  <2> QED
    BY <2>1, Zenon DEF InputInit
<1>2. ASSUME Built, [InputNext]_inputVars PROVE Built'
  <2>1. ASSUME algorithm = "text", Texts, UNCHANGED algorithm PROVE Built'
    <3> DEFINE n == Len(input.segments)
    <3>0. input \in [segments : Seq(Segment), cut : BOOLEAN] /\ n \in Nat
      BY <1>2, <2>1
    <3>1. CASE AddSegment
      <4> PICK k \in Text!Kinds :
                 input' = [input EXCEPT !.segments = Append(@, [kind |-> k, pieces |-> <<>>])]
        BY <3>1, Zenon DEF AddSegment
      <4>1. [kind |-> k, pieces |-> <<>>] \in Segment
        BY DEF Segment
      <4> QED
        BY <3>0, <4>1
    <3>2. CASE AddPiece
      <4>1. n \in 1 .. n /\ input.segments[n] \in Segment
        BY <3>0, <3>2 DEF AddPiece, Segments
      <4> DEFINE s == input.segments[n]
      <4> PICK p \in Text!Pieces[s.kind] :
                 input' = [input EXCEPT !.segments[n].pieces = Append(@, p)]
        BY <3>2, Zenon DEF AddPiece, Segments
      <4>2. [s EXCEPT !.pieces = Append(@, p)] \in Segment
        <5>1. PICK k \in Text!Kinds : s \in [kind : {k}, pieces : Seq(Text!Pieces[k])]
          BY <4>1 DEF Segment
        <5>2. s.kind = k /\ p \in Text!Pieces[k] /\ Append(s.pieces, p) \in Seq(Text!Pieces[k])
          <6>1. s.kind = k /\ s.pieces \in Seq(Text!Pieces[k])
            BY <5>1
          <6>2. p \in Text!Pieces[k]
            BY <6>1
          <6>3. \A W : \A t \in Seq(W), e \in W : Append(t, e) \in Seq(W)
            OBVIOUS
          <6> QED
            BY <6>1, <6>2, <6>3, Zenon
        <5>3. s = [kind |-> s.kind, pieces |-> s.pieces]
          BY <5>1
        <5> HIDE DEF s
        <5>4. [s EXCEPT !.pieces = Append(@, p)] \in [kind : {k}, pieces : Seq(Text!Pieces[k])]
          BY <5>2, <5>3
        <5> QED
          BY <5>4 DEF Segment
      <4> DEFINE more == [s EXCEPT !.pieces = Append(@, p)]
      <4>3. input' = [input EXCEPT !.segments = [@ EXCEPT ![n] = more]]
        OBVIOUS
      <4>4. more \in Segment
        BY <4>2
      <4> HIDE DEF more, n
      <4>5. [input.segments EXCEPT ![n] = more] \in Seq(Segment)
        <5>1. input.segments \in Seq(Segment) /\ n \in 1 .. Len(input.segments)
          BY <3>0, <4>1 DEF n
        <5> QED
          BY <4>4, <5>1, ExceptSeq, Zenon
      <4> QED
        BY <3>0, <4>3, <4>5
    <3>3. CASE Cut
      BY <3>0, <3>3 DEF Cut
    <3> QED
      BY <2>1, <3>1, <3>2, <3>3 DEF Texts
  <2>2. CASE UNCHANGED inputVars
    BY <1>2, <2>2 DEF inputVars
  <2>3. ASSUME InputNext, algorithm = "text" PROVE Texts /\ UNCHANGED algorithm
    BY <2>3, Zenon DEF InputNext, Restores, Lists, Reports, Manifests
  <2>4. algorithm # "text" => Built' \/ UNCHANGED inputVars
    BY <1>2, Zenon DEF InputNext
  <2> QED
    BY <1>2, <2>1, <2>2, <2>3, <2>4
<1>3. Built => StatementIsReplaced
  BY StatementReplaced
<1> QED
  BY <1>1, <1>2, <1>3, PTL DEF InputSpec

-----------------------------------------------------------------------------
(* The rehearsal.                                                          *)

\* The steps of Run, and those of its clean-up.
Steps   == {"prepare", "start", "starting", "create", "fill", "dump", "archive", "await",
            "awaitBroken", "verify", "drop", "restore", "check"}
Cleanup == {"look", "stop", "remove"}

\* Every variable keeps its type: flags and errors, and what has more values.
FlagType ==
  /\ {existing, prior, dir, mayRun, pidfile} \subseteq BOOLEAN
  /\ ret \subseteq {"step", "cleanup"}

\* The other variables.
ValueType ==
  /\ pc \in {"root", "returned"} \cup Steps \cup Cleanup
  /\ server \in {"none", "forked", "serving", "gone"}
  /\ found \in {"none", "forked", "serving", "gone"}
  /\ dump \in {"none", "running", "ok", "failed"}
  /\ archive \in {"none", "whole", "short", "damaged"}
  /\ source \in {"none", "filled", "dropped"}
  /\ target \in {"none", "empty", "partial", "restored"}

TypeOK == FlagType /\ ValueType

\* The archive was written from a dump that succeeded, whatever became of it.
Dumped == dump = "ok" /\ archive \in {"whole", "damaged"}

\* From the dump to the drop: pg_dump is over before anybody relies on the archive.
DumpInv ==
  /\ pc \in {"root", "prepare", "start", "starting", "fill", "dump", "archive", "await",
            "verify", "drop"} => source # "dropped"
  /\ pc = "await" => dump # "running" /\ (dump = "ok" => Dumped)
  /\ pc \in {"verify", "drop"} => Dumped

\* The server in its directory, and the one the clean-up did not see.
ServerInv ==
  /\ pc \in {"root", "prepare", "start"} => server = "none"
  /\ server # "none" \/ pc = "starting" => mayRun
  /\ pc \in Steps \cup Cleanup => dir
  /\ server = "serving" /\ dir => pidfile
  /\ pc = "remove" /\ server \in {"forked", "serving"} => found = "forked"

\* What has been decided about the answer.
AnswerInv ==
  /\ pc \in {"root"} \cup Steps => ~prior
  /\ pc # "returned" => ret = {}
  /\ pc \in Cleanup \cup {"returned"} /\ ~prior => target = "restored" \/ existing
  /\ pc = "returned" /\ dir => "cleanup" \in ret \/ server = "none"

\* The invariant of the rehearsal.
Inv == /\ TypeOK /\ DumpInv /\ ServerInv /\ AnswerInv
       /\ SourceOutlivesItsDump /\ EndIsHonest

\* The actions, in groups.
ClusterStep   == MakeRoot \/ Prepare \/ Start \/ Fork \/ Started
ServerStep    == Lock \/ ServerEnds \/ Damage
CaptureStep   == Fill \/ StartDump \/ DumpEnds \/ Archive \/ Await \/ Verify \/ Drop
RestoreStep   == CreateTarget \/ Restore \/ Check
CleanupStep   == Look \/ Stop \/ RemoveDirectory

USE DEF Steps, Cleanup, Dumped, Goto, Broken, Serving, Return, progress, cluster, copy, bases
-----------------------------------------------------------------------------
\* The invariant holds before the rehearsal.
LEMMA InitInv == Init => Inv
  BY DEF Init, Inv, TypeOK, FlagType, ValueType, DumpInv, ServerInv, AnswerInv, SourceOutlivesItsDump, EndIsHonest

\* Flags stay flags, and errors are those of a step or of the clean-up.
LEMMA FlagStep == Inv /\ Next => FlagType'
<1> SUFFICES ASSUME Inv, Next PROVE FlagType'
  OBVIOUS
<1> USE DEF Inv, TypeOK, FlagType
<1>1. CASE ClusterStep
  BY <1>1 DEF ClusterStep, MakeRoot, Prepare, Start, Fork, Started
<1>2. CASE ServerStep
  BY <1>2 DEF ServerStep, Lock, ServerEnds, Damage
<1>3. CASE CaptureStep
  BY <1>3 DEF CaptureStep, Fill, StartDump, DumpEnds, Archive, Await, Verify, Drop
<1>4. CASE RestoreStep
  BY <1>4 DEF RestoreStep, CreateTarget, Restore, Check
<1>5. CASE CleanupStep
  BY <1>5 DEF CleanupStep, Look, Stop, RemoveDirectory
<1> QED
  BY <1>1, <1>2, <1>3, <1>4, <1>5 DEF Next, ClusterStep, ServerStep, CaptureStep, RestoreStep, CleanupStep

\* Every other variable keeps its values.
LEMMA ValueStep == Inv /\ Next => ValueType'
<1> SUFFICES ASSUME Inv, Next PROVE ValueType'
  OBVIOUS
<1> USE DEF Inv, TypeOK, ValueType
<1>1. CASE ClusterStep
  BY <1>1 DEF ClusterStep, MakeRoot, Prepare, Start, Fork, Started
<1>2. CASE ServerStep
  BY <1>2 DEF ServerStep, Lock, ServerEnds, Damage
<1>3. CASE CaptureStep
  BY <1>3 DEF CaptureStep, Fill, StartDump, DumpEnds, Archive, Await, Verify, Drop
<1>4. CASE RestoreStep
  BY <1>4 DEF RestoreStep, CreateTarget, Restore, Check
<1>5. CASE CleanupStep
  BY <1>5 DEF CleanupStep, Look, Stop, RemoveDirectory
<1> QED
  BY <1>1, <1>2, <1>3, <1>4, <1>5 DEF Next, ClusterStep, ServerStep, CaptureStep, RestoreStep, CleanupStep

\* What is read behind the dump is a dump that succeeded: Await asks pg_dump before the
\* archive is verified, and the archive is written no more.
LEMMA DumpStep == Inv /\ Next => DumpInv'
<1> SUFFICES ASSUME Inv, Next PROVE DumpInv'
  OBVIOUS
<1> USE DEF Inv, DumpInv, SourceOutlivesItsDump
<1>1. CASE ClusterStep
  BY <1>1 DEF ClusterStep, MakeRoot, Prepare, Start, Fork, Started
<1>2. CASE ServerStep
  BY <1>2 DEF ServerStep, Lock, ServerEnds, Damage
<1>3. CASE CaptureStep
  BY <1>3 DEF CaptureStep, Fill, StartDump, DumpEnds, Archive, Await, Verify, Drop
<1>4. CASE RestoreStep
  BY <1>4 DEF RestoreStep, CreateTarget, Restore, Check
<1>5. CASE CleanupStep
  BY <1>5 DEF CleanupStep, Look, Stop, RemoveDirectory
<1> QED
  BY <1>1, <1>2, <1>3, <1>4, <1>5 DEF Next, ClusterStep, ServerStep, CaptureStep, RestoreStep, CleanupStep

\* The source is dropped behind such a dump only.
LEMMA SourceStep == Inv /\ Next => SourceOutlivesItsDump'
<1> SUFFICES ASSUME Inv, Next PROVE SourceOutlivesItsDump'
  OBVIOUS
<1> USE DEF Inv, DumpInv, SourceOutlivesItsDump
<1>1. CASE ClusterStep
  BY <1>1 DEF ClusterStep, MakeRoot, Prepare, Start, Fork, Started
<1>2. CASE ServerStep
  <2>1. CASE Lock
    BY <2>1 DEF Lock
  <2>2. CASE ServerEnds
    BY <2>2 DEF ServerEnds
  <2>3. CASE Damage
    BY <2>3 DEF Damage
  <2> QED
    BY <1>2, <2>1, <2>2, <2>3 DEF ServerStep
<1>3. CASE CaptureStep
  BY <1>3 DEF CaptureStep, Fill, StartDump, DumpEnds, Archive, Await, Verify, Drop
<1>4. CASE RestoreStep
  BY <1>4 DEF RestoreStep, CreateTarget, Restore, Check
<1>5. CASE CleanupStep
  BY <1>5 DEF CleanupStep, Look, Stop, RemoveDirectory
<1> QED
  BY <1>1, <1>2, <1>3, <1>4, <1>5 DEF Next, ClusterStep, ServerStep, CaptureStep, RestoreStep, CleanupStep

\* The clean-up removes the directory of no server that it could have seen.
LEMMA FoundStep == Inv /\ Next => ServerInv'
<1> SUFFICES ASSUME Inv, Next PROVE ServerInv'
  OBVIOUS
<1> USE DEF Inv, ServerInv
<1>1. CASE ClusterStep
  BY <1>1 DEF ClusterStep, MakeRoot, Prepare, Start, Fork, Started
<1>2. CASE ServerStep
  <2>1. CASE Lock
    BY <2>1 DEF Lock
  <2>2. CASE ServerEnds
    BY <2>2 DEF ServerEnds
  <2>3. CASE Damage
    BY <2>3 DEF Damage
  <2> QED
    BY <1>2, <2>1, <2>2, <2>3 DEF ServerStep
<1>3. CASE CaptureStep
  BY <1>3 DEF CaptureStep, Fill, StartDump, DumpEnds, Archive, Await, Verify, Drop
<1>4. CASE RestoreStep
  BY <1>4 DEF RestoreStep, CreateTarget, Restore, Check
<1>5. CASE CleanupStep
  BY <1>5 DEF CleanupStep, Look, Stop, RemoveDirectory
<1> QED
  BY <1>1, <1>2, <1>3, <1>4, <1>5 DEF Next, ClusterStep, ServerStep, CaptureStep, RestoreStep, CleanupStep

\* The clean-up begins without an error only behind the last check, and says so if it
\* leaves the directory.
LEMMA AnswerStep == Inv /\ Next => AnswerInv'
<1> SUFFICES ASSUME Inv, Next PROVE AnswerInv'
  OBVIOUS
<1> USE DEF Inv, AnswerInv, ServerInv
<1>1. CASE ClusterStep
  <2>1. CASE MakeRoot
    BY <2>1 DEF MakeRoot
  <2>2. CASE Prepare
    BY <2>2 DEF Prepare
  <2>3. CASE Start
    BY <2>3 DEF Start
  <2>4. CASE Fork
    BY <2>4 DEF Fork
  <2>5. CASE Started
    BY <2>5 DEF Started
  <2> QED
    BY <1>1, <2>1, <2>2, <2>3, <2>4, <2>5 DEF ClusterStep
<1>2. CASE ServerStep
  <2>1. CASE Lock
    BY <2>1 DEF Lock
  <2>2. CASE ServerEnds
    BY <2>2 DEF ServerEnds
  <2>3. CASE Damage
    BY <2>3 DEF Damage
  <2> QED
    BY <1>2, <2>1, <2>2, <2>3 DEF ServerStep
<1>3. CASE CaptureStep
  BY <1>3 DEF CaptureStep, Fill, StartDump, DumpEnds, Archive, Await, Verify, Drop
<1>4. CASE RestoreStep
  BY <1>4 DEF RestoreStep, CreateTarget, Restore, Check
<1>5. CASE CleanupStep
  BY <1>5 DEF CleanupStep, Look, Stop, RemoveDirectory
<1> QED
  BY <1>1, <1>2, <1>3, <1>4, <1>5 DEF Next, ClusterStep, ServerStep, CaptureStep, RestoreStep, CleanupStep

\* What a rehearsal has returned stays true.
LEMMA EndStep == Inv /\ Next => EndIsHonest'
<1> SUFFICES ASSUME Inv, Next PROVE EndIsHonest'
  OBVIOUS
<1> USE DEF Inv, ServerInv, AnswerInv, EndIsHonest
<1>1. CASE ClusterStep
  <2>1. CASE MakeRoot
    BY <2>1 DEF MakeRoot
  <2>2. CASE Prepare
    BY <2>2 DEF Prepare
  <2>3. CASE Start
    BY <2>3 DEF Start
  <2>4. CASE Fork
    BY <2>4 DEF Fork
  <2>5. CASE Started
    BY <2>5 DEF Started
  <2> QED
    BY <1>1, <2>1, <2>2, <2>3, <2>4, <2>5 DEF ClusterStep
<1>2. CASE ServerStep
  <2>1. CASE Lock
    BY <2>1 DEF Lock
  <2>2. CASE ServerEnds
    BY <2>2 DEF ServerEnds
  <2>3. CASE Damage
    BY <2>3 DEF Damage
  <2> QED
    BY <1>2, <2>1, <2>2, <2>3 DEF ServerStep
<1>3. CASE CaptureStep
  BY <1>3 DEF CaptureStep, Fill, StartDump, DumpEnds, Archive, Await, Verify, Drop
<1>4. CASE RestoreStep
  BY <1>4 DEF RestoreStep, CreateTarget, Restore, Check
<1>5. CASE CleanupStep
  BY <1>5 DEF CleanupStep, Look, Stop, RemoveDirectory
<1> QED
  BY <1>1, <1>2, <1>3, <1>4, <1>5 DEF Next, ClusterStep, ServerStep, CaptureStep, RestoreStep, CleanupStep

\* The invariant holds throughout.
LEMMA Invariance == Spec => []Inv
<1>1. Inv /\ [Next]_(vars) => Inv'
  <2> SUFFICES ASSUME Inv, [Next]_(vars) PROVE Inv'
    OBVIOUS
  <2>1. CASE UNCHANGED vars
    BY <2>1 DEF vars, Inv, TypeOK, FlagType, ValueType, DumpInv, ServerInv, AnswerInv,
                SourceOutlivesItsDump, EndIsHonest
  <2>2. CASE Next
    BY <2>2, FlagStep, ValueStep, DumpStep, SourceStep, FoundStep, AnswerStep, EndStep
       DEF Inv, TypeOK
  <2> QED
    BY <2>1, <2>2
<1> QED
  BY InitInv, <1>1, PTL DEF Spec

-----------------------------------------------------------------------------
\* The variables of the rehearsal keep their types.
THEOREM TypeCorrect == Spec => []TypeOK
<1>1. Inv => TypeOK
  BY DEF Inv
<1> QED
  BY <1>1, Invariance, PTL

\* The source is dropped only behind a whole dump of it, although the archive is
\* published before pg_dump has said how it ended and verification cannot tell a short
\* dump from a whole one (Run in recovery.go).
THEOREM SourceOutlives == Spec => []SourceOutlivesItsDump
<1>1. Inv => SourceOutlivesItsDump
  BY DEF Inv
<1> QED
  BY <1>1, Invariance, PTL

\* A serving cluster keeps its directory unless the clean-up looked before the server had
\* locked it, what is left behind is reported, and no error is lost (cleanupCluster in
\* recovery.go).
THEOREM HonestEnd == Spec => []EndIsHonest
<1>1. Inv => EndIsHonest
  BY DEF Inv
<1> QED
  BY <1>1, Invariance, PTL
=============================================================================
