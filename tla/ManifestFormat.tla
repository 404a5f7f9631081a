--------------------------- MODULE ManifestFormat ---------------------------
(***************************************************************************)
(* What ParseManifest and Validate accept (internal/archive/manifest.go).  *)
(*                                                                         *)
(* A document is an object: a sequence of members [name, bad, value], bad  *)
(* where the decoder refuses the value; the components are a sequence of   *)
(* objects.  A key is a sequence of parts [base, ending, upper]: the name  *)
(* before the first dot, what follows, and whether it is written in upper  *)
(* case.  A scope and a digest are well formed or not.  The text of JSON   *)
(* and the limits on bytes, parts and nesting are left out.                *)
(***************************************************************************)
EXTENDS Integers, Sequences, FiniteSets, SequencesExt

CONSTANTS
  MaxComponents,   \* how many components an archive may have
  MaxTotalBytes,   \* the largest sum of lengths
  MaxInt           \* the largest integer: 2^63 - 1

ASSUME SizeAssumption == MaxInt \in Nat /\ MaxTotalBytes \in 1 .. MaxInt /\ MaxComponents \in Nat

\* What is left of an integer in as many bits as MaxInt and a sign take.
Wrap(n) == ((n + MaxInt + 1) % (2 * (MaxInt + 1))) - (MaxInt + 1)

-----------------------------------------------------------------------------
(* Keys.                                                                   *)

WindowsDeviceName(part) == part.base \in {"con", "com1"}

\* What no part may be or contain, and the endings that Windows drops.
ForbiddenBases   == {"", "..", "a:b", "a*b"}
ForbiddenEndings == {".", " "}

ValidKey(key) ==
  /\ key # <<>>
  /\ \A part \in ToSet(key) : /\ part.base \notin ForbiddenBases
                              /\ part.ending \notin ForbiddenEndings
                              /\ ~WindowsDeviceName(part)

\* portableFold: what is left when upper and lower case are the same.
PortableFold(key) == [i \in DOMAIN key |-> <<key[i].base, key[i].ending>>]

-----------------------------------------------------------------------------
(* ParseManifest                                                           *)

ManifestNames  == {"format", "version", "components"}
ComponentNames == {"id", "key", "scope", "status", "length", "sha256"}

\* objectKey and the test at the end of an object: every name once, and no other.
WellFormed(object, names) ==
  /\ IsInjective([i \in DOMAIN object |-> object[i].name])
  /\ {object[i].name : i \in DOMAIN object} = names
  /\ \A i \in DOMAIN object : ~object[i].bad

Value(object, name) == object[CHOOSE i \in DOMAIN object : object[i].name = name].value

ParseComponent(object) == [name \in ComponentNames |-> Value(object, name)]

\* parseManifestObject, parseComponents: the manifest in a document, or nothing.
Parse(document) ==
  IF /\ WellFormed(document, ManifestNames)
     /\ \A object \in ToSet(Value(document, "components")) : WellFormed(object, ComponentNames)
  THEN LET objects == Value(document, "components")
       IN <<[format |-> Value(document, "format"), version |-> Value(document, "version"),
             components |-> [i \in DOMAIN objects |-> ParseComponent(objects[i])]]>>
  ELSE <<>>

-----------------------------------------------------------------------------
(* Validate                                                                *)

\* Mutant: the sum is compared, after it has been formed.
FitsAfterwards(length, total) == Wrap(total + length) <= MaxTotalBytes

\* The length is compared with what is left, so that no sum overflows.
Fits(length, total) == length <= Wrap(MaxTotalBytes - total)

ValidateComponent(s, c) ==
  IF /\ s.ok /\ c.id = s.next /\ ValidKey(c.key) /\ c.scope = "ok"
     /\ c.status \in {"complete", "incomplete"} /\ c.length >= 0 /\ Fits(c.length, s.total)
     /\ PortableFold(c.key) \notin s.keys /\ c.sha256 = "ok"
  THEN [s EXCEPT !.next = @ + 1, !.total = Wrap(@ + c.length),
                 !.keys = @ \union {PortableFold(c.key)}]
  ELSE [s EXCEPT !.ok = FALSE]

\* The loop over the components: what it knows behind the first i of them.
Validating(components) ==
  LET behind[i \in 0 .. Len(components)] ==
        IF i = 0 THEN [ok |-> TRUE, next |-> 0, total |-> 0, keys |-> {}]
        ELSE ValidateComponent(behind[i - 1], components[i])
  IN behind

Validate(m) ==
  /\ m.format = "sparc-archive" /\ m.version = 1
  /\ m.components # <<>> /\ Len(m.components) <= MaxComponents
  /\ Validating(m.components)[Len(m.components)].ok

ParseManifest(document) ==
  LET m == Parse(document) IN IF m # <<>> /\ Validate(m[1]) THEN m ELSE <<>>

-----------------------------------------------------------------------------

\* Two keys are one file where names are compared without case.
SameFile(k, l) ==
  /\ Len(k) = Len(l)
  /\ \A i \in DOMAIN k : k[i].base = l[i].base /\ k[i].ending = l[i].ending

\* The exact sums of the first i lengths.
Sums(components) ==
  LET sum[i \in 0 .. Len(components)] ==
        IF i = 0 THEN 0 ELSE sum[i - 1] + components[i].length
  IN sum

\* Every name once, and no other; every value can be decoded.
Unambiguous(object, names) ==
  /\ \A n \in names : Cardinality({i \in DOMAIN object : object[i].name = n}) = 1
  /\ \A i \in DOMAIN object : object[i].name \in names /\ ~object[i].bad

UsableComponents(components) ==
  /\ components # <<>> /\ Len(components) <= MaxComponents
  /\ Sums(components)[Len(components)] <= MaxTotalBytes
  /\ \A i \in DOMAIN components :
       /\ components[i].id = i - 1 /\ components[i].length >= 0 /\ ValidKey(components[i].key)
       /\ components[i].scope = "ok" /\ components[i].status \in {"complete", "incomplete"}
       /\ components[i].sha256 = "ok"
       /\ \A j \in 1 .. i - 1 : ~SameFile(components[i].key, components[j].key)

\* A manifest is accepted when and only when it can be used: nothing is named twice,
\* missing or unknown, so that it cannot be read in two ways; the components are
\* numbered in order, no two of them are one file on a system that ignores case, and
\* the exact sum of their lengths stays within the limit (docs/archive-format.md:20-32).
AcceptsTheUsable(document) ==
  LET objects == Value(document, "components")
  IN (ParseManifest(document) # <<>>) <=>
       /\ Unambiguous(document, ManifestNames)
       /\ \A o \in ToSet(objects) : Unambiguous(o, ComponentNames)
       /\ Value(document, "format") = "sparc-archive" /\ Value(document, "version") = 1
       /\ UsableComponents([i \in DOMAIN objects |-> ParseComponent(objects[i])])
=============================================================================
