----------------------- MODULE ExecutionEntries_proofs -----------------------
(***************************************************************************)
(* What the operators of ExecutionEntries do to any log, and to a log      *)
(* whose inputs are uniform: no inputs extend other, non-empty ones.  That *)
(* is what a switcher gives when it is always evaluated with the same      *)
(* strategies.                                                             *)
(***************************************************************************)
EXTENDS ExecutionEntries, TLAPS, SequenceTheorems, WellFoundedInduction

UniformSet(I) == \A i, j \in I : i # {} /\ i \subseteq j => i = j

\* An entry is filed under its key and inputs.
Filed(e, k, i) == e.key = k /\ e.inputs = i

\* No two positions of the log are filed alike.
FiledOnce(log) ==
    \A m, n \in 1..Len(log) : Filed(log[m], log[n].key, log[n].inputs) => m = n

\* Removing a position shifts the later ones.
LEMMA RemoveAtProperties ==
    ASSUME NEW S, NEW s \in Seq(S), NEW p \in 1..Len(s)
    PROVE  /\ RemoveAt(s, p) \in Seq(S)
           /\ Len(RemoveAt(s, p)) = Len(s) - 1
           /\ \A j \in 1..Len(s) - 1 :
                 RemoveAt(s, p)[j] = IF j < p THEN s[j] ELSE s[j + 1]
<1> DEFINE a == SubSeq(s, 1, p - 1)
           b == SubSeq(s, p + 1, Len(s))
<1>1. Len(s) \in Nat /\ p \in Int /\ \A m \in 1..Len(s) : s[m] \in S
  BY ElementOfSeq, LenProperties
<1>2. /\ a \in Seq(S)
      /\ Len(a) = p - 1
      /\ \A m \in 1..p - 1 : a[m] = s[m]
  BY <1>1, SubSeqProperties
<1>3. /\ b \in Seq(S)
      /\ Len(b) = Len(s) - p
      /\ \A m \in 1..Len(s) - p : b[m] = s[m + p]
  BY <1>1, SubSeqProperties
<1>4. RemoveAt(s, p) = a \o b
  BY DEF RemoveAt
<1> HIDE DEF a, b
<1>5. /\ a \o b \in Seq(S)
      /\ Len(a \o b) = Len(a) + Len(b)
      /\ \A j \in 1..Len(a) + Len(b) :
            (a \o b)[j] = IF j <= Len(a) THEN a[j] ELSE b[j - Len(a)]
  BY <1>2, <1>3, ConcatProperties
<1>6. Len(a) + Len(b) = Len(s) - 1
  BY <1>1, <1>2, <1>3
<1>7. ASSUME NEW j \in 1..Len(s) - 1
      PROVE  (a \o b)[j] = IF j < p THEN s[j] ELSE s[j + 1]
  <2>1. CASE j < p
    <3>1. j \in 1..p - 1 /\ j <= Len(a)
      BY <1>1, <1>2, <2>1
    <3> QED BY <1>2, <1>5, <1>6, <2>1, <3>1
  <2>2. CASE ~ (j < p)
    <3>1. /\ ~ (j <= Len(a))
          /\ j - Len(a) = j - (p - 1)
          /\ j - (p - 1) \in 1..Len(s) - p
          /\ (j - (p - 1)) + p = j + 1
      BY <1>1, <1>2, <2>2
    <3>2. b[j - (p - 1)] = s[j + 1]
      BY <1>3, <3>1
    <3> QED BY <1>5, <1>6, <2>2, <3>1, <3>2
  <2> QED BY <2>1, <2>2
<1> QED BY <1>4, <1>5, <1>6, <1>7

-----------------------------------------------------------------------------
(* Any log. *)

\* A non-empty set of positions has a smallest one.
LEMMA MinIsSmallest ==
    ASSUME NEW P \in SUBSET Nat, P # {}
    PROVE  Min(P) \in P /\ \A p \in P : Min(P) <= p
<1>1. \E x \in P : \A y \in P : ~ (<<y, x>> \in OpToRel(<, Nat))
  BY NatLessThanWellFounded, WFMin
<1>2. PICK x \in P : \A y \in P : ~ (<<y, x>> \in OpToRel(<, Nat))
  BY <1>1
<1>3. \A y \in P : x <= y
  <2> SUFFICES ASSUME NEW y \in P PROVE x <= y
    OBVIOUS
  <2>1. ~ (y < x)
    BY <1>2 DEF OpToRel
  <2> QED BY <2>1
<1> QED BY <1>3 DEF Min

\* A lookup finds the first entry that matches, if any does.
LEMMA GotIsFirst ==
    ASSUME NEW S, NEW log \in Seq(S), NEW k, NEW i
    PROVE  /\ \/ /\ Got(log, k, i) = {}
                 /\ \A m \in 1..Len(log) : ~ EntryMatches(log[m], k, i)
              \/ \E m \in 1..Len(log) :
                    /\ Got(log, k, i) = {log[m]}
                    /\ EntryMatches(log[m], k, i)
                    /\ \A n \in 1..Len(log) : EntryMatches(log[n], k, i) => m <= n
           /\ \A m \in 1..Len(log) :
                 /\ EntryMatches(log[m], k, i)
                 /\ \A n \in 1..Len(log) : EntryMatches(log[n], k, i) => m <= n
                 => Got(log, k, i) = {log[m]}
<1> DEFINE hits == {m \in 1..Len(log) : EntryMatches(log[m], k, i)}
<1>1. Got(log, k, i) = LET p == IF hits # {} THEN Min(hits) ELSE 0
                       IN  IF p = 0 THEN {} ELSE {log[p]}
  BY DEF Got, SelectInSeq
<1>2. hits \subseteq 1..Len(log) /\ hits \in SUBSET Nat
  BY LenProperties
<1>3. \A m \in 1..Len(log) : m \in hits <=> EntryMatches(log[m], k, i)
  OBVIOUS
<1> HIDE DEF hits
<1>4. hits # {} => Min(hits) \in hits /\ \A n \in hits : Min(hits) <= n
  BY <1>2, MinIsSmallest
<1>5. CASE hits = {}
  <2>1. Got(log, k, i) = {}
    BY <1>1, <1>5
  <2> QED BY <1>3, <1>5, <2>1
<1>6. CASE hits # {}
  <2>0. Min(hits) \in 1..Len(log) /\ Len(log) \in Nat
    BY <1>2, <1>4, <1>6, LenProperties
  <2>1. Min(hits) \in 1..Len(log) /\ Min(hits) # 0
    BY <2>0
  <2>2. Got(log, k, i) = {log[Min(hits)]}
    BY <1>1, <1>6, <2>1
  <2>3. \A m \in hits : (\A n \in hits : m <= n) => m = Min(hits)
    <3> SUFFICES ASSUME NEW m \in hits, \A n \in hits : m <= n PROVE m = Min(hits)
      OBVIOUS
    <3>1. m <= Min(hits) /\ Min(hits) <= m
      BY <1>4, <1>6
    <3>2. m \in Nat /\ Min(hits) \in Nat
      BY <1>2, <1>4, <1>6
    <3> QED BY <3>1, <3>2
  <2>4. /\ EntryMatches(log[Min(hits)], k, i)
        /\ \A n \in 1..Len(log) : EntryMatches(log[n], k, i) => Min(hits) <= n
    BY <1>3, <1>4, <1>6, <2>1
  <2>5. \A m \in 1..Len(log) :
           /\ EntryMatches(log[m], k, i)
           /\ \A n \in 1..Len(log) : EntryMatches(log[n], k, i) => m <= n
           => m = Min(hits)
    BY <1>2, <1>3, <2>3
  <2> QED BY <2>1, <2>2, <2>4, <2>5
<1> QED BY <1>5, <1>6

\* In particular it finds an entry of the log, and one that matches.
LEMMA GotMatches ==
    ASSUME NEW S, NEW log \in Seq(S), NEW k, NEW i
    PROVE  \A e \in Got(log, k, i) :
              /\ e \in S
              /\ EntryMatches(e, k, i)
              /\ \E m \in 1..Len(log) : e = log[m]
  BY GotIsFirst, ElementOfSeq

\* Adding keeps the log a log of the same entries and the new one.
LEMMA AddedTyped ==
    ASSUME NEW S, NEW log \in Seq(S), NEW k, NEW i, NEW r,
           [key |-> k, inputs |-> i, response |-> r] \in S
    PROVE  Added(log, k, i, r) \in Seq(S)
<1> DEFINE new  == [key |-> k, inputs |-> i, response |-> r]
           hits == {m \in 1..Len(log) : EntryMatches(log[m], k, i)}
           rest == RemoveFirstMatch(log, LAMBDA e : EntryMatches(e, k, i))
<1>1. Added(log, k, i, r) = Append(rest, new)
  BY DEF Added
<1>2. rest = IF hits # {} THEN RemoveAt(log, Min(hits)) ELSE log
  <2>1. (\E m \in 1..Len(log) : EntryMatches(log[m], k, i)) <=> hits # {}
    OBVIOUS
  <2> QED BY <2>1 DEF RemoveFirstMatch, SelectInSeq
<1>3. hits \subseteq 1..Len(log) /\ hits \in SUBSET Nat
  BY LenProperties
<1> HIDE DEF hits, rest, new
<1>4. hits # {} => Min(hits) \in 1..Len(log)
  BY <1>3, MinIsSmallest
<1>5. rest \in Seq(S)
  BY <1>2, <1>4, RemoveAtProperties
<1> QED BY <1>1, <1>5, AppendProperties DEF new

-----------------------------------------------------------------------------
(* A log of uniform inputs. *)

\* Among uniform inputs, an entry matches its own key and inputs only.
LEMMA MatchesItsOwn ==
    ASSUME NEW I, UniformSet(I), NEW e, e.inputs \in I, NEW k, NEW i \in I
    PROVE  EntryMatches(e, k, i) <=> Filed(e, k, i)
BY DEF UniformSet, EntryMatches, InputsMatch, Filed

\* A lookup finds what is filed under its key and inputs, and nothing else.
LEMMA GotIsFiled ==
    ASSUME NEW I, UniformSet(I), NEW S, \A e \in S : e.inputs \in I,
           NEW log \in Seq(S), FiledOnce(log), NEW k, NEW i \in I
    PROVE  /\ \A e \in Got(log, k, i) :
                 Filed(e, k, i) /\ \E m \in 1..Len(log) : e = log[m]
           /\ \A m \in 1..Len(log) : Filed(log[m], k, i) => Got(log, k, i) = {log[m]}
<1> DEFINE hits == {m \in 1..Len(log) : EntryMatches(log[m], k, i)}
<1>1. Got(log, k, i) = LET p == IF hits # {} THEN Min(hits) ELSE 0
                       IN  IF p = 0 THEN {} ELSE {log[p]}
  BY DEF Got, SelectInSeq
<1>2. \A m \in 1..Len(log) : m \in hits <=> Filed(log[m], k, i)
  BY ElementOfSeq, MatchesItsOwn
<1>3. \A m \in hits : hits = {m}
  BY <1>2 DEF FiledOnce, Filed
<1> HIDE DEF hits
<1>4. CASE hits = {}
  BY <1>1, <1>2, <1>4
<1>5. ASSUME NEW m \in hits
      PROVE  Got(log, k, i) = {log[m]} /\ m \in 1..Len(log)
  <2>1. hits = {m} /\ m \in 1..Len(log)
    BY <1>3, <1>5 DEF hits
  <2>2. Min({m}) = m
    BY <2>1 DEF Min
  <2>3. hits # {} /\ Min(hits) = m /\ m # 0
    BY <2>1, <2>2
  <2> QED BY <1>1, <2>1, <2>3
<1> QED BY <1>2, <1>4, <1>5

\* The log l is log with new in the place of what was filed like it.
Supersedes(l, log, new) ==
    /\ \E m \in 1..Len(l) : l[m] = new
    /\ \A m \in 1..Len(log) : ~ Filed(log[m], new.key, new.inputs) =>
          \E n \in 1..Len(l) : l[n] = log[m]
    /\ \A n \in 1..Len(l) :
          \/ l[n] = new
          \/ /\ ~ Filed(l[n], new.key, new.inputs)
             /\ \E m \in 1..Len(log) : l[n] = log[m]

\* Adding replaces what is filed under the same key and inputs, and leaves
\* everything else filed as it was.
LEMMA AddedFiles ==
    ASSUME NEW I, UniformSet(I), NEW S, \A e \in S : e.inputs \in I,
           NEW log \in Seq(S), FiledOnce(log), NEW k, NEW i \in I, NEW r,
           [key |-> k, inputs |-> i, response |-> r] \in S
    PROVE  /\ Added(log, k, i, r) \in Seq(S)
           /\ FiledOnce(Added(log, k, i, r))
           /\ Supersedes(Added(log, k, i, r), log,
                         [key |-> k, inputs |-> i, response |-> r])
<1> DEFINE new  == [key |-> k, inputs |-> i, response |-> r]
           hits == {m \in 1..Len(log) : EntryMatches(log[m], k, i)}
           rest == RemoveFirstMatch(log, LAMBDA e : EntryMatches(e, k, i))
<1>1. Added(log, k, i, r) = Append(rest, new)
  BY DEF Added
<1>2. rest = IF hits # {} THEN RemoveAt(log, Min(hits)) ELSE log
  <2>1. (\E m \in 1..Len(log) : EntryMatches(log[m], k, i)) <=> hits # {}
    OBVIOUS
  <2> QED BY <2>1 DEF RemoveFirstMatch, SelectInSeq
<1>3. \A m \in 1..Len(log) : m \in hits <=> Filed(log[m], k, i)
  BY ElementOfSeq, MatchesItsOwn
<1>4. \A m \in hits : hits = {m}
  BY <1>3 DEF FiledOnce, Filed
<1>5. /\ new \in S /\ Filed(new, k, i) /\ Len(log) \in Nat
      /\ new.key = k /\ new.inputs = i
  BY LenProperties DEF Filed
<1> HIDE DEF new, hits, rest
<1>6. /\ rest \in Seq(S)
      /\ FiledOnce(rest)
      /\ \A n \in 1..Len(rest) :
            ~ Filed(rest[n], k, i) /\ \E m \in 1..Len(log) : rest[n] = log[m]
      /\ \A m \in 1..Len(log) : ~ Filed(log[m], k, i) =>
            \E n \in 1..Len(rest) : rest[n] = log[m]
  <2>1. CASE hits = {}
    BY <1>2, <1>3, <2>1
  <2>2. CASE hits # {}
    <3>1. PICK p \in hits : hits = {p} /\ p \in 1..Len(log)
      BY <1>4, <2>2 DEF hits
    <3>2. Min({p}) = p
      BY <3>1 DEF Min
    <3>3. rest = RemoveAt(log, p)
      BY <1>2, <2>2, <3>1, <3>2
    <3>4. /\ rest \in Seq(S)
          /\ Len(rest) = Len(log) - 1
          /\ \A j \in 1..Len(log) - 1 : rest[j] = IF j < p THEN log[j] ELSE log[j + 1]
      BY <3>1, <3>3, RemoveAtProperties
    <3>5. \A n \in 1..Len(rest) : \E m \in 1..Len(log) :
             rest[n] = log[m] /\ m # p /\ m = IF n < p THEN n ELSE n + 1
      BY <1>5, <3>1, <3>4
    <3>6. FiledOnce(rest)
      BY <1>5, <3>1, <3>4, <3>5 DEF FiledOnce
    <3>7. \A m \in 1..Len(log) : m # p => \E n \in 1..Len(rest) : rest[n] = log[m]
      <4> SUFFICES ASSUME NEW m \in 1..Len(log), m # p
                   PROVE  \E n \in 1..Len(rest) : rest[n] = log[m]
        OBVIOUS
      <4>1. CASE m < p
        <5>1. m \in 1..Len(rest) /\ rest[m] = log[m]
          BY <1>5, <3>1, <3>4, <4>1
        <5> QED BY <5>1
      <4>2. CASE m > p
        <5>1. m - 1 \in 1..Len(rest) /\ rest[m - 1] = log[m]
          BY <1>5, <3>1, <3>4, <4>2
        <5> QED BY <5>1
      <4> QED BY <1>5, <3>1, <4>1, <4>2
    <3> QED BY <1>3, <3>1, <3>4, <3>5, <3>6, <3>7
  <2> QED BY <2>1, <2>2
<1>7. Len(rest) \in Nat
  BY <1>6, LenProperties
<1> DEFINE added == Append(rest, new)
<1>8. /\ added \in Seq(S)
      /\ Len(added) = Len(rest) + 1
      /\ \A n \in 1..Len(rest) : added[n] = rest[n]
      /\ added[Len(rest) + 1] = new
  BY <1>5, <1>6, AppendProperties
<1> HIDE DEF added
<1>9. \A n \in 1..Len(added) : n \in 1..Len(rest) \/ n = Len(rest) + 1
  BY <1>7, <1>8
<1>10. FiledOnce(added)
  <2> SUFFICES ASSUME NEW m \in 1..Len(added), NEW n \in 1..Len(added),
                      Filed(added[m], added[n].key, added[n].inputs)
               PROVE  m = n
    BY DEF FiledOnce
  <2>1. CASE m \in 1..Len(rest) /\ n \in 1..Len(rest)
    BY <1>6, <1>8, <2>1 DEF FiledOnce
  <2>2. CASE m \in 1..Len(rest) /\ n = Len(rest) + 1
    BY <1>5, <1>6, <1>8, <2>2 DEF Filed
  <2>3. CASE m = Len(rest) + 1 /\ n \in 1..Len(rest)
    BY <1>5, <1>6, <1>8, <2>3 DEF Filed
  <2> QED BY <1>9, <2>1, <2>2, <2>3
<1>11. Len(rest) + 1 \in 1..Len(added) /\ \A n \in 1..Len(rest) : n \in 1..Len(added)
  BY <1>7, <1>8
<1>12. Added(log, k, i, r) = added
  BY <1>1 DEF added
<1>13. \A n \in 1..Len(added) :
          \/ added[n] = new
          \/ ~ Filed(added[n], k, i) /\ \E m \in 1..Len(log) : added[n] = log[m]
  <2> SUFFICES ASSUME NEW n \in 1..Len(added)
               PROVE  \/ added[n] = new
                      \/ ~ Filed(added[n], k, i)
                         /\ \E m \in 1..Len(log) : added[n] = log[m]
    OBVIOUS
  <2>1. CASE n \in 1..Len(rest)
    <3>1. added[n] = rest[n]
      BY <1>8, <2>1
    <3> QED BY <1>6, <2>1, <3>1
  <2>2. CASE n = Len(rest) + 1
    BY <1>8, <2>2
  <2> QED BY <1>9, <2>1, <2>2
<1>14. \A m \in 1..Len(log) : ~ Filed(log[m], k, i) =>
          \E n \in 1..Len(added) : added[n] = log[m]
  <2> SUFFICES ASSUME NEW m \in 1..Len(log), ~ Filed(log[m], k, i)
               PROVE  \E n \in 1..Len(added) : added[n] = log[m]
    OBVIOUS
  <2>1. PICK n \in 1..Len(rest) : rest[n] = log[m]
    BY <1>6
  <2> QED BY <1>8, <1>11, <2>1
<1>15. \E m \in 1..Len(added) : added[m] = new
  BY <1>8, <1>11
<1>16. Supersedes(added, log, new)
  BY <1>5, <1>13, <1>14, <1>15 DEF Supersedes
<1> QED BY <1>8, <1>10, <1>12, <1>16 DEF new

\* A lookup after an entry superseded another sees it under its key and inputs,
\* and what it saw before everywhere else.
LEMMA GotAfter ==
    ASSUME NEW I, UniformSet(I), NEW S, \A e \in S : e.inputs \in I,
           NEW old \in Seq(S), FiledOnce(old), NEW l \in Seq(S), FiledOnce(l),
           NEW new, Supersedes(l, old, new), NEW k, NEW i \in I
    PROVE  /\ Filed(new, k, i) => Got(l, k, i) = {new}
           /\ ~ Filed(new, k, i) => Got(l, k, i) = Got(old, k, i)
<1>1. /\ \A e \in Got(l, k, i) :
            Filed(e, k, i) /\ \E m \in 1..Len(l) : e = l[m]
      /\ \A m \in 1..Len(l) : Filed(l[m], k, i) => Got(l, k, i) = {l[m]}
  BY GotIsFiled
<1>2. /\ \A e \in Got(old, k, i) :
            Filed(e, k, i) /\ \E m \in 1..Len(old) : e = old[m]
      /\ \A m \in 1..Len(old) : Filed(old[m], k, i) => Got(old, k, i) = {old[m]}
  BY GotIsFiled
<1>3. Filed(new, k, i) => Got(l, k, i) = {new}
  BY <1>1 DEF Supersedes
<1>4. ASSUME ~ Filed(new, k, i)
      PROVE  Got(l, k, i) = Got(old, k, i)
  <2>1. \A e : Filed(e, k, i) => e # new /\ ~ Filed(e, new.key, new.inputs)
    BY <1>4 DEF Filed
  <2>2. Got(l, k, i) \subseteq Got(old, k, i)
    BY <1>1, <1>2, <2>1 DEF Supersedes
  <2>3. Got(old, k, i) \subseteq Got(l, k, i)
    BY <1>1, <1>2, <2>1 DEF Supersedes
  <2> QED BY <2>2, <2>3
<1> QED BY <1>3, <1>4
=============================================================================
