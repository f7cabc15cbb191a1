-------------------------- MODULE SessionTreeProofs --------------------------
(***************************************************************************)
(* The tree of a conversation is sound, for every number of sessions, of   *)
(* handles, of entries and of losses.                                      *)
(***************************************************************************)
EXTENDS SessionTree, SequenceTheorems, FiniteSetTheorems, TLAPS

-----------------------------------------------------------------------------
(* The inductive invariant.                                                *)

Numbers == 1..Len(entries)

(* Entries name earlier ones; a compaction keeps an entry that was shown.  *)
EntriesSound ==
  \A e \in Numbers :
    /\ entries[e].parent \in 0..(e - 1)
    /\ entries[e].kind = "leaf" => entries[e].ref \in 0..(e - 1)
    /\ entries[e].kind = "compaction" =>
         entries[e].ref \in {None, RetainedTail} \cup Shown(entries[e].parent)

(* Only the first entry may have lost its parent.                          *)
OrderedIn(es, s) ==
  \A i \in 2..Len(s) :
    es[s[i]].parent = None \/ \E j \in 1..(i - 1) : s[j] = es[s[i]].parent

Ordered(s) == OrderedIn(entries, s)

LogsOrdered ==
  /\ \A s \in Sessions : log[s] \in Seq(Numbers) /\ Ordered(log[s])
  /\ \A h \in Handles : view[h] \in Seq(Numbers) /\ Ordered(view[h])

(* A handle stands on an entry that it sees, and what it sees of a session *)
(* that is not lost is there.                                              *)
HandlesSound ==
  \A h \in Handles : on[h] # "none" =>
    /\ status[on[h]] # "new"
    /\ leaf[h] \in {None} \cup Ids(Seen(h))
    /\ status[on[h]] = "live" => Ids(Seen(h)) \subseteq Ids(log[on[h]])

(* The log ends where the handle that wrote last stands.                   *)
LastStands ==
  \A s \in Sessions : lastBy[s] # "none" =>
    /\ on[lastBy[s]] = s
    /\ status[s] = "live" => ReplayedLeaf(log[s]) = leaf[lastBy[s]]

TreeInv ==
  /\ TypeOK /\ EntriesSound /\ LogsOrdered /\ HandlesSound /\ LastStands

-----------------------------------------------------------------------------
(* Lineages.                                                               *)

LEMMA LeastNatural ==
  ASSUME NEW T, T \subseteq Nat, T # {}
  PROVE  \E x \in T : \A y \in T : x <= y
<1>1. PICK x \in T : \A y \in T : ~(<<y, x>> \in OpToRel(<, Nat))
  BY NatLessThanWellFounded, WFMin
<1>2. ASSUME NEW y \in T
      PROVE  x <= y
  <2>1. x \in Nat /\ y \in Nat
    OBVIOUS
  <2>2. ~(y < x)
    BY <1>1, <2>1 DEF OpToRel
  <2> QED
    BY <2>1, <2>2
<1> QED
  BY <1>2

(* What every entry has.                                                   *)
Grounded == TypeOK /\ EntriesSound

LEMMA EntriesTyped ==
  ASSUME Grounded
  PROVE  /\ Len(entries) \in Nat
         /\ Numbers \subseteq Nat \ {0}
         /\ \A e \in Numbers :
              /\ entries[e] \in [kind : Kinds, parent : Nat, ref : Nat \cup {RetainedTail}]
              /\ entries[e].kind \in Kinds
              /\ entries[e].parent \in 0..(e - 1)
              /\ entries[e].parent \in 0..Len(entries)
              /\ entries[e].ref \in Nat \cup {RetainedTail}
<1>1. entries \in Seq([kind : Kinds, parent : Nat, ref : Nat \cup {RetainedTail}])
  BY DEF Grounded, TypeOK
<1>2. Len(entries) \in Nat
  BY <1>1, LenProperties
<1>3. ASSUME NEW e \in Numbers
      PROVE  entries[e] \in [kind : Kinds, parent : Nat, ref : Nat \cup {RetainedTail}]
  BY <1>1, ElementOfSeq DEF Numbers
<1>4. \A e \in Numbers : entries[e].parent \in 0..(e - 1)
  BY DEF Grounded, EntriesSound
<1> QED
  BY <1>2, <1>3, <1>4 DEF Numbers

(* A function that looks only at what is smaller is defined.               *)
LEMMA LineagesExist ==
  ASSUME NEW n \in Nat, NEW s,
         \A e \in 1..n : s[e].parent \in 0..(e - 1)
  PROVE  \E f : f = [e \in 0..n |-> IF e = None THEN {} ELSE f[s[e].parent] \cup {e}]
<1> DEFINE Ok(m) == \E f : f = [e \in 0..m |-> IF e = None THEN {} ELSE f[s[e].parent] \cup {e}]
           bad == {m \in 0..n : ~Ok(m)}
<1>1. CASE bad = {}
  <2> HIDE DEF Ok
  <2>1. n \in 0..n
    OBVIOUS
  <2>2. Ok(n)
    BY <1>1, <2>1
  <2> QED
    BY <2>2 DEF Ok
<1>2. CASE bad # {}
  <2>1. PICK m \in bad : \A k \in bad : m <= k
    <3> HIDE DEF Ok
    <3>1. bad \subseteq Nat
      OBVIOUS
    <3> HIDE DEF bad
    <3> QED
      BY <1>2, <3>1, LeastNatural
  <2>2. m # 0
    <3> DEFINE f == [e \in 0..0 |-> {}]
    <3>1. f = [e \in 0..0 |-> IF e = None THEN {} ELSE f[s[e].parent] \cup {e}]
      BY DEF None
    <3>2. Ok(0)
      BY <3>1
    <3> QED
      BY <3>2
  <2>3. m \in Nat /\ m \in 1..n /\ m - 1 \in 0..n /\ m - 1 \notin bad
    <3> HIDE DEF Ok
    <3>1. m \in 1..n /\ m - 1 \in 0..n
      BY <2>1, <2>2
    <3>2. m - 1 \notin bad
      BY <2>1, <3>1
    <3> QED
      BY <3>1, <3>2
  <2>4. PICK f : f = [e \in 0..(m - 1) |-> IF e = None THEN {} ELSE f[s[e].parent] \cup {e}]
    BY <2>3
  <2> DEFINE g == [e \in 0..m |-> IF e = m THEN f[s[m].parent] \cup {m} ELSE f[e]]
  <2>5. g = [e \in 0..m |-> IF e = None THEN {} ELSE g[s[e].parent] \cup {e}]
    <3> SUFFICES ASSUME NEW e \in 0..m
                 PROVE  g[e] = IF e = None THEN {} ELSE g[s[e].parent] \cup {e}
      OBVIOUS
    <3>1. CASE e = None
      BY <2>2, <2>3, <2>4, <3>1 DEF None
    <3>2. CASE e # None
      <4>1. s[e].parent \in 0..(e - 1) /\ e \in 1..n
        BY <2>3, <3>2 DEF None
      <4>2. s[e].parent \in 0..(m - 1) /\ s[e].parent # m
        BY <2>3, <4>1
      <4>3. g[s[e].parent] = f[s[e].parent]
        BY <4>2
      <4>4. CASE e = m
        BY <4>3, <4>4, <3>2
      <4>5. CASE e # m
        <5>1. e \in 0..(m - 1)
          BY <2>3, <4>5
        <5>2. f[e] = f[s[e].parent] \cup {e}
          BY <2>4, <3>2, <5>1
        <5> QED
          BY <3>2, <4>3, <4>5, <5>2
      <4> QED
        BY <4>4, <4>5
    <3> QED
      BY <3>1, <3>2
  <2>6. Ok(m)
    <3> HIDE DEF g
    <3> QED
      BY <2>5
  <2> QED
    BY <2>1, <2>6
<1> QED
  BY <1>1, <1>2

LEMMA LineageStep ==
  ASSUME Grounded
  PROVE  /\ Lineage(None) = {}
         /\ \A e \in Numbers : Lineage(e) = Lineage(entries[e].parent) \cup {e}
<1>1. \E f : f = [e \in 0..Len(entries) |->
                    IF e = None THEN {} ELSE f[entries[e].parent] \cup {e}]
  BY EntriesTyped, LineagesExist DEF Numbers
<1>2. Lineages = [e \in 0..Len(entries) |->
                    IF e = None THEN {} ELSE Lineages[entries[e].parent] \cup {e}]
  BY <1>1 DEF Lineages
<1>3. /\ None \in 0..Len(entries)
      /\ \A e \in Numbers : e \in 0..Len(entries) /\ e # None
  BY EntriesTyped DEF None, Numbers
<1> QED
  BY <1>2, <1>3 DEF Lineage

LEMMA LineageBelow ==
  ASSUME Grounded
  PROVE  \A e \in 0..Len(entries) : Lineage(e) \subseteq 1..e
<1> DEFINE bad == {e \in 0..Len(entries) : ~(Lineage(e) \subseteq 1..e)}
<1> SUFFICES ASSUME bad # {}
             PROVE  FALSE
  OBVIOUS
<1>0. Len(entries) \in Nat /\ bad \subseteq Nat
  BY EntriesTyped
<1>1. PICK e \in bad : \A x \in bad : e <= x
  <2> HIDE DEF bad
  <2> QED
    BY <1>0, LeastNatural
<1>2. e # None
  BY <1>1, LineageStep DEF None
<1>3. e \in Numbers /\ e \in Nat
  BY <1>0, <1>1, <1>2 DEF Numbers, None
<1>4. /\ entries[e].parent \in 0..(e - 1)
      /\ entries[e].parent \in 0..Len(entries)
  BY <1>3, EntriesTyped
<1>5. Lineage(entries[e].parent) \subseteq 1..entries[e].parent
  BY <1>1, <1>3, <1>4
<1>6. Lineage(e) \subseteq 1..e
  BY <1>3, <1>4, <1>5, LineageStep
<1> QED
  BY <1>1, <1>6

LEMMA CutLast ==
  ASSUME Grounded, NEW e \in 0..Len(entries), Cuts(e) # {}
  PROVE  Cut(e) \in Cuts(e) /\ \A f \in Cuts(e) : f <= Cut(e)
<1>1. Cuts(e) \subseteq 1..e /\ e \in Nat
  BY LineageBelow, EntriesTyped DEF Cuts
<1> DEFINE T == {e - f : f \in Cuts(e)}
<1>2. T \subseteq Nat /\ T # {}
  BY <1>1
<1>3. PICK t \in T : \A u \in T : t <= u
  <2> HIDE DEF T
  <2> QED
    BY <1>2, LeastNatural
<1>4. PICK f \in Cuts(e) : t = e - f
  BY <1>3
<1>5. \A g \in Cuts(e) : e - f <= e - g
  BY <1>3, <1>4
<1>6. \A g \in Cuts(e) : g <= f
  BY <1>1, <1>5
<1> QED
  BY <1>6 DEF Cut

LEMMA CutIs ==
  ASSUME Grounded, NEW e \in 0..Len(entries), NEW c \in Cuts(e), \A f \in Cuts(e) : f <= c
  PROVE  Cut(e) = c
<1>1. Cuts(e) \subseteq 1..e /\ e \in Nat
  BY LineageBelow, EntriesTyped DEF Cuts
<1>2. Cut(e) \in Cuts(e) /\ c <= Cut(e)
  BY CutLast
<1>3. Cut(e) <= c
  BY <1>2
<1> QED
  BY <1>1, <1>2, <1>3

(* What is shown grows with the branch, and starts anew at a compaction.   *)
LEMMA ShownNone ==
  ASSUME Grounded
  PROVE  Shown(None) = {}
BY LineageStep DEF Shown

LEMMA ShownPlain ==
  ASSUME Grounded, NEW e \in Numbers, entries[e].kind # "compaction"
  PROVE  Shown(e) = Shown(entries[e].parent) \cup {e}
<1> DEFINE up == entries[e].parent
<1>1. e \in Nat /\ up \in 0..(e - 1) /\ up \in 0..Len(entries) /\ e \in 0..Len(entries)
  BY EntriesTyped DEF Numbers
<1>2. Lineage(e) = Lineage(up) \cup {e} /\ Lineage(up) \subseteq 1..up
  BY <1>1, LineageStep, LineageBelow
<1>3. Cuts(e) = Cuts(up)
  BY <1>2 DEF Cuts
<1>4. ShownFrom(e) = ShownFrom(up) /\ ShownFrom(e) <= e
  <2>1. CASE Cuts(up) = {}
    BY <1>1, <1>3, <2>1 DEF ShownFrom, None
  <2>2. CASE Cuts(up) # {}
    <3>1. Cut(up) \in Cuts(up) /\ \A f \in Cuts(up) : f <= Cut(up)
      BY <1>1, <2>2, CutLast
    <3>2. Cut(e) = Cut(up)
      BY <1>1, <1>3, <3>1, CutIs
    <3>3. Cut(up) \in Numbers /\ Cut(up) < e /\ Cut(up) \in Nat
      BY <1>1, <1>2, <3>1, EntriesTyped DEF Cuts, Numbers
    <3>4. entries[Cut(up)].ref # e
      <4> DEFINE c == Cut(up)
      <4>1. entries[c].kind = "compaction" /\ entries[c].parent \in 0..(c - 1)
        BY <3>1, <3>3, EntriesTyped DEF Cuts
      <4>2. entries[c].ref \in {None, RetainedTail} \cup Shown(entries[c].parent)
        BY <3>3, <4>1 DEF Grounded, EntriesSound
      <4>3. Shown(entries[c].parent) \subseteq 1..entries[c].parent
        BY <3>3, <4>1, LineageBelow, EntriesTyped DEF Shown
      <4> QED
        BY <1>1, <3>3, <4>1, <4>2, <4>3 DEF None, RetainedTail
    <3>5. entries[Cut(up)].ref \in Lineage(e) <=> entries[Cut(up)].ref \in Lineage(up)
      BY <1>2, <3>4
    <3>6. ShownFrom(e) = ShownFrom(up)
      BY <1>3, <3>2, <3>5 DEF ShownFrom
    <3>7. ShownFrom(up) \in Lineage(up)
      BY <2>2, <3>1 DEF ShownFrom, Cuts
    <3> QED
      BY <1>1, <1>2, <3>6, <3>7
  <2> QED
    BY <2>1, <2>2
<1> QED
  BY <1>2, <1>4 DEF Shown

LEMMA ShownCompacted ==
  ASSUME Grounded, NEW e \in Numbers, entries[e].kind = "compaction"
  PROVE  /\ entries[e].ref \in {None, RetainedTail} => Shown(e) = {e}
         /\ entries[e].ref \notin {None, RetainedTail} =>
              /\ entries[e].ref \in Shown(entries[e].parent)
              /\ Shown(e) = {x \in Lineage(e) : x >= entries[e].ref}
              /\ entries[e].ref \in 1..(e - 1)
<1> DEFINE up == entries[e].parent
<1>1. e \in Nat /\ up \in 0..(e - 1) /\ up \in 0..Len(entries) /\ e \in 0..Len(entries)
  BY EntriesTyped DEF Numbers
<1>2. Lineage(e) = Lineage(up) \cup {e} /\ Lineage(up) \subseteq 1..up /\ Lineage(e) \subseteq 1..e
  BY <1>1, LineageStep, LineageBelow
<1>3. e \in Cuts(e) /\ \A f \in Cuts(e) : f <= e
  BY <1>2 DEF Cuts
<1>4. Cut(e) = e
  BY <1>1, <1>3, CutIs
<1>5. CASE entries[e].ref \in {None, RetainedTail}
  <2>1. entries[e].ref \notin Lineage(e)
    BY <1>2, <1>5 DEF None, RetainedTail
  <2>2. ShownFrom(e) = e
    BY <1>3, <1>4, <2>1 DEF ShownFrom
  <2>3. \A x \in Lineage(e) : x >= e => x = e
    BY <1>1, <1>2
  <2> QED
    BY <1>1, <1>2, <1>5, <2>2, <2>3 DEF Shown
<1>6. CASE entries[e].ref \notin {None, RetainedTail}
  <2>1. entries[e].ref \in Shown(up)
    BY <1>6 DEF Grounded, EntriesSound
  <2>2. entries[e].ref \in Lineage(up)
    BY <2>1 DEF Shown
  <2>3. ShownFrom(e) = entries[e].ref
    BY <1>2, <1>3, <1>4, <2>2 DEF ShownFrom
  <2>4. entries[e].ref \in 1..(e - 1)
    BY <1>1, <1>2, <2>2
  <2> QED
    BY <1>6, <2>1, <2>3, <2>4 DEF Shown
<1> QED
  BY <1>5, <1>6

-----------------------------------------------------------------------------
(* The walk.                                                               *)

To(e, stop) == IF entries[e].kind = "compaction" THEN entries[e].ref ELSE stop

Row(known, f, e) ==
  [stop \in 0..Len(entries) |->
     LET up == entries[e].parent
         to == IF entries[e].kind = "compaction" THEN entries[e].ref ELSE stop
     IN  IF StopsAt(e, stop) \/ to = RetainedTail \/ up = None THEN <<e>>
         ELSE IF up \in known THEN Append(f[up][to], e)
         ELSE <<None, e>>]

LEMMA RowLocal ==
  ASSUME Grounded, NEW known, NEW e \in Numbers, NEW f, NEW g,
         entries[e].parent \in known => f[entries[e].parent] = g[entries[e].parent]
  PROVE  Row(known, f, e) = Row(known, g, e)
BY DEF Row

LEMMA WalkExists ==
  ASSUME Grounded, NEW known, known \subseteq Numbers
  PROVE  \E f : f = [e \in known |-> Row(known, f, e)]
<1> DEFINE Upto(m) == {e \in known : e <= m}
           Ok(m) == \E f : f = [e \in Upto(m) |-> Row(known, f, e)]
           bad == {m \in 0..Len(entries) : ~Ok(m)}
<1>0. Len(entries) \in Nat /\ known \subseteq 1..Len(entries)
  BY EntriesTyped DEF Numbers
<1>1. CASE bad = {}
  <2>1. Ok(Len(entries))
    <3> HIDE DEF Ok
    <3> QED
      BY <1>0, <1>1
  <2>2. Upto(Len(entries)) = known
    <3>1. \A e \in known : e <= Len(entries)
      BY <1>0
    <3> QED
      BY <3>1
  <2> HIDE DEF Upto
  <2> QED
    BY <2>1, <2>2
<1>2. CASE bad # {}
  <2>1. PICK m \in bad : \A k \in bad : m <= k
    <3> HIDE DEF Ok
    <3>1. bad \subseteq Nat
      BY <1>0
    <3> HIDE DEF bad
    <3> QED
      BY <1>2, <3>1, LeastNatural
  <2>2. m # 0
    <3>1. Upto(0) = {}
      <4>1. \A e \in known : ~(e <= 0)
        BY <1>0
      <4> QED
        BY <4>1
    <3> DEFINE f == [e \in Upto(0) |-> {}]
    <3>2. f = [e \in Upto(0) |-> Row(known, f, e)]
      <4> HIDE DEF Upto
      <4> QED
        BY <3>1
    <3>3. Ok(0)
      <4> HIDE DEF Upto, f
      <4> QED
        BY <3>2
    <3> HIDE DEF Ok
    <3> QED
      BY <2>1, <3>3
  <2>3. m \in Nat /\ m \in 1..Len(entries) /\ m - 1 \in 0..Len(entries) /\ m - 1 \notin bad
    <3> HIDE DEF Ok
    <3>1. m \in 1..Len(entries) /\ m - 1 \in 0..Len(entries)
      BY <1>0, <2>1, <2>2
    <3>2. m - 1 \notin bad
      BY <1>0, <2>1, <3>1
    <3> QED
      BY <1>0, <3>1, <3>2
  <2>4. Ok(m - 1)
    <3> HIDE DEF Ok
    <3> QED
      BY <2>3
  <2>5. PICK f : f = [e \in Upto(m - 1) |-> Row(known, f, e)]
    BY <2>4
  <2> DEFINE g == [e \in Upto(m) |-> IF e = m THEN Row(known, f, m) ELSE f[e]]
  <2>6. ASSUME NEW e \in Upto(m)
        PROVE  Row(known, f, e) = Row(known, g, e)
    <3>1. e \in Numbers /\ e \in known /\ e \in 1..m
      BY <1>0, <2>3 DEF Numbers
    <3>2. entries[e].parent \in 0..(e - 1)
      BY <3>1, EntriesTyped
    <3>3. entries[e].parent \in known => entries[e].parent \in Upto(m) /\ entries[e].parent # m
      BY <2>3, <3>1, <3>2
    <3>4. entries[e].parent \in known => f[entries[e].parent] = g[entries[e].parent]
      <4> HIDE DEF Upto
      <4> QED
        BY <3>3
    <3> HIDE DEF g, Upto
    <3> QED
      BY <3>1, <3>4, RowLocal
  <2>7. ASSUME NEW e \in Upto(m)
        PROVE  g[e] = Row(known, f, e)
    <3>1. CASE e = m
      BY <3>1
    <3>2. CASE e # m
      <4>1. e \in Upto(m - 1)
        BY <1>0, <2>3, <3>2
      <4> HIDE DEF Upto
      <4> QED
        BY <2>5, <3>2, <4>1
    <3> QED
      BY <3>1, <3>2
  <2>8. g = [e \in Upto(m) |-> Row(known, g, e)]
    <3>1. \A e \in Upto(m) : g[e] = Row(known, g, e)
      <4> HIDE DEF Upto, g
      <4> QED
        BY <2>6, <2>7
    <3> HIDE DEF Upto
    <3> QED
      BY <3>1
  <2>9. Ok(m)
    <3> HIDE DEF g, Upto
    <3> QED
      BY <2>8
  <2> HIDE DEF Ok
  <2> QED
    BY <2>1, <2>9
<1> QED
  BY <1>1, <1>2

LEMMA WalkStep ==
  ASSUME Grounded, NEW known, known \subseteq Numbers
  PROVE  Walk(known) = [e \in known |-> Row(known, Walk(known), e)]
<1>1. \E f : f = [e \in known |-> Row(known, f, e)]
  BY WalkExists
<1>2. Walk(known) = CHOOSE f : f = [e \in known |-> Row(known, f, e)]
  BY DEF Walk, Row
<1> QED
  BY <1>1, <1>2

LEMMA WalkRow ==
  ASSUME Grounded, NEW known, known \subseteq Numbers,
         NEW e \in known, NEW stop \in 0..Len(entries)
  PROVE  Walk(known)[e][stop] =
           IF e = stop \/ To(e, stop) = RetainedTail \/ entries[e].parent = None THEN <<e>>
           ELSE IF entries[e].parent \in known
                THEN Append(Walk(known)[entries[e].parent][To(e, stop)], e)
           ELSE <<None, e>>
<1>1. Walk(known)[e] = Row(known, Walk(known), e)
  BY WalkStep
<1> QED
  BY <1>1 DEF Row, StopsAt, To

Rising(w) == \A i, j \in 1..Len(w) : i < j => w[i] < w[j]

Chained(w) == \A i \in 2..Len(w) : entries[w[i]].parent = w[i - 1]

(* A walk that reaches an end found a part of the lineage without a gap,   *)
(* and all that it was to find; one that is broken found, behind the mark, *)
(* an entry that has lost its parent.                                      *)
Walked(known, e, stop, w) ==
  /\ w \in Seq(Nat) /\ Len(w) \in Nat \ {0} /\ w[Len(w)] = e
  /\ w[1] # None =>
       /\ Ids(w) \subseteq known
       /\ Chained(w) /\ Rising(w)
       /\ Ids(w) = {x \in Lineage(e) : x >= w[1]}
       /\ stop \in {None} \cup Shown(e) => \A x \in Shown(e) : x >= stop => w[1] <= x
  /\ w[1] = None =>
       Len(w) >= 2 /\ w[2] \in known /\ entries[w[2]].parent \notin known \cup {None}

LEMMA IdsAppend ==
  ASSUME NEW S, NEW w \in Seq(S), NEW e \in S
  PROVE  Ids(Append(w, e)) = Ids(w) \cup {e}
<1> DEFINE v == Append(w, e)
<1>1. /\ Len(w) \in Nat /\ Len(v) = Len(w) + 1
      /\ \A i \in 1..Len(w) : v[i] = w[i]
      /\ v[Len(w) + 1] = e
  BY AppendProperties, LenProperties
<1> HIDE DEF v
<1>2. Ids(v) \subseteq Ids(w) \cup {e}
  <2> SUFFICES ASSUME NEW i \in 1..Len(v)
               PROVE  v[i] \in Ids(w) \cup {e}
    BY DEF Ids
  <2>1. i \in 1..Len(w) \/ i = Len(w) + 1
    BY <1>1
  <2> QED
    BY <1>1, <2>1 DEF Ids
<1>3. Ids(w) \subseteq Ids(v)
  <2> SUFFICES ASSUME NEW i \in 1..Len(w)
               PROVE  w[i] \in Ids(v)
    BY DEF Ids
  <2>1. i \in 1..Len(v)
    BY <1>1
  <2> QED
    BY <1>1, <2>1 DEF Ids
<1>4. e \in Ids(v)
  <2>1. Len(w) + 1 \in 1..Len(v)
    BY <1>1
  <2> QED
    BY <1>1, <2>1 DEF Ids
<1> QED
  BY <1>2, <1>3, <1>4 DEF v

LEMMA WalkedOne ==
  ASSUME Grounded, NEW known, known \subseteq Numbers,
         NEW e \in known, NEW stop \in 0..Len(entries),
         e = stop \/ To(e, stop) = RetainedTail \/ entries[e].parent = None
  PROVE  Walked(known, e, stop, <<e>>)
<1>1. /\ e \in Numbers /\ e \in Nat /\ e # None /\ e \in 0..Len(entries)
      /\ entries[e].parent \in 0..(e - 1)
      /\ entries[e].parent \in 0..Len(entries)
  BY EntriesTyped DEF Numbers, None
<1>2. Lineage(e) = Lineage(entries[e].parent) \cup {e} /\ Lineage(e) \subseteq 1..e
  BY <1>1, LineageStep, LineageBelow
<1>3. Ids(<<e>>) = {e}
  BY DEF Ids
<1>4. {x \in Lineage(e) : x >= e} = {e}
  <2>1. \A x \in Lineage(e) : x >= e => x = e
    BY <1>1, <1>2
  <2> QED
    BY <1>1, <1>2, <2>1
<1>5. ASSUME NEW x \in Shown(e), x >= stop
      PROVE  e <= x
  <2>1. x \in Lineage(e)
    BY DEF Shown
  <2>2. CASE e = stop
    BY <1>5, <2>2
  <2>3. CASE To(e, stop) = RetainedTail
    <3>1. entries[e].kind = "compaction" /\ entries[e].ref = RetainedTail
      BY <2>3 DEF To, RetainedTail
    <3>2. Shown(e) = {e}
      BY <1>1, <3>1, ShownCompacted
    <3> QED
      BY <1>1, <3>2
  <2>4. CASE entries[e].parent = None
    BY <1>1, <1>2, <2>1, <2>4, LineageStep
  <2> QED
    BY <2>2, <2>3, <2>4
<1>6. <<e>> \in Seq(Nat) /\ Len(<<e>>) = 1 /\ <<e>>[1] = e
  BY <1>1
<1>7. Chained(<<e>>) /\ Rising(<<e>>)
  BY <1>6 DEF Chained, Rising
<1> QED
  BY <1>1, <1>3, <1>4, <1>5, <1>6, <1>7 DEF Walked

LEMMA WalkedLost ==
  ASSUME Grounded, NEW known, known \subseteq Numbers,
         NEW e \in known, NEW stop, entries[e].parent \notin known \cup {None}
  PROVE  Walked(known, e, stop, <<None, e>>)
<1>1. e \in Nat
  BY EntriesTyped
<1>2. /\ <<None, e>> \in Seq(Nat) /\ Len(<<None, e>>) = 2
      /\ <<None, e>>[1] = None /\ <<None, e>>[2] = e
  BY <1>1 DEF None
<1> QED
  BY <1>2 DEF Walked

LEMMA WalkedOn ==
  ASSUME Grounded, NEW known, known \subseteq Numbers,
         NEW e \in known, NEW stop \in 0..Len(entries),
         e # stop, To(e, stop) # RetainedTail, entries[e].parent \in known,
         NEW w, Walked(known, entries[e].parent, To(e, stop), w)
  PROVE  Walked(known, e, stop, Append(w, e))
<1> DEFINE up == entries[e].parent
           v == Append(w, e)
<1>1. /\ e \in Numbers /\ e \in Nat /\ e # None /\ e \in 0..Len(entries)
      /\ up \in 0..(e - 1) /\ up \in 0..Len(entries) /\ up \in Numbers /\ up \in Nat /\ up # None
  BY EntriesTyped DEF Numbers, None
<1>2. /\ w \in Seq(Nat) /\ Len(w) \in Nat \ {0} /\ w[Len(w)] = up
  BY DEF Walked
<1>3. /\ v \in Seq(Nat) /\ Len(v) = Len(w) + 1
      /\ \A i \in 1..Len(w) : v[i] = w[i]
      /\ v[Len(w) + 1] = e
  BY <1>1, <1>2, AppendProperties
<1>4. v[1] = w[1] /\ (Len(w) >= 2 => v[2] = w[2])
  BY <1>2, <1>3
<1>5. Ids(v) = Ids(w) \cup {e}
  BY <1>1, <1>2, IdsAppend
<1>6. Lineage(e) = Lineage(up) \cup {e} /\ Lineage(e) \subseteq 1..e
  BY <1>1, LineageStep, LineageBelow
<1> HIDE DEF v
<1>7. ASSUME v[1] # None
      PROVE  Walked(known, e, stop, v)
  <2>1. /\ Ids(w) \subseteq known
        /\ Chained(w) /\ Rising(w)
        /\ Ids(w) = {x \in Lineage(up) : x >= w[1]}
        /\ To(e, stop) \in {None} \cup Shown(up) =>
             \A x \in Shown(up) : x >= To(e, stop) => w[1] <= x
    BY <1>4, <1>7 DEF Walked
  <2>2. w[1] \in Nat /\ w[1] <= up
    <3>1. w[1] \in Nat
      BY <1>2, ElementOfSeq
    <3>2. Len(w) = 1 \/ w[1] < w[Len(w)]
      <4>1. Len(w) = 1 \/ (1 \in 1..Len(w) /\ Len(w) \in 1..Len(w) /\ 1 < Len(w))
        <5>1. Len(w) \in Nat /\ Len(w) # 0
          BY <1>2
        <5>2. \A n \in Nat : n # 0 => n = 1 \/ (1 \in 1..n /\ n \in 1..n /\ 1 < n)
          OBVIOUS
        <5> QED
          BY ONLY <5>1, <5>2
      <4> QED
        BY <2>1, <4>1 DEF Rising
    <3> QED
      BY <1>1, <1>2, <3>1, <3>2
  <2>3. w[1] < e
    BY <1>1, <2>2
  <2>4. Ids(v) \subseteq known
    BY <1>5, <2>1
  <2>5. Chained(v)
    <3> SUFFICES ASSUME NEW i \in 2..Len(v)
                 PROVE  entries[v[i]].parent = v[i - 1]
      BY DEF Chained
    <3>1. CASE i = Len(w) + 1
      <4>1. i - 1 = Len(w) /\ Len(w) \in 1..Len(w)
        BY <1>2, <3>1
      <4> QED
        BY <1>2, <1>3, <3>1, <4>1
    <3>2. CASE i # Len(w) + 1
      <4>1. i \in 2..Len(w) /\ i \in 1..Len(w) /\ i - 1 \in 1..Len(w)
        BY <1>2, <1>3, <3>2
      <4> QED
        BY <1>3, <2>1, <4>1 DEF Chained
    <3> QED
      BY <3>1, <3>2
  <2>6. Rising(v)
    <3> SUFFICES ASSUME NEW i \in 1..Len(v), NEW j \in 1..Len(v), i < j
                 PROVE  v[i] < v[j]
      BY DEF Rising
    <3>1. i \in 1..Len(w)
      BY <1>2, <1>3
    <3>2. CASE j = Len(w) + 1
      <4>1. w[i] \in Ids(w)
        BY <3>1 DEF Ids
      <4>2. w[i] \in Lineage(up)
        BY <2>1, <4>1
      <4>3. w[i] \in 1..up
        BY <1>1, <4>2, LineageBelow
      <4>4. v[i] = w[i] /\ v[j] = e
        BY <1>3, <3>1, <3>2
      <4>5. w[i] < e
        BY ONLY <1>1, <4>3
      <4> QED
        BY ONLY <4>4, <4>5
    <3>3. CASE j # Len(w) + 1
      <4>0. Len(w) \in Nat /\ j \in 1..(Len(w) + 1)
        BY <1>2, <1>3
      <4>1. j \in 1..Len(w)
        BY ONLY <3>3, <4>0
      <4> QED
        BY <1>3, <2>1, <3>1, <4>1 DEF Rising
    <3> QED
      BY <3>2, <3>3
  <2>7. Ids(v) = {x \in Lineage(e) : x >= v[1]}
    BY <1>1, <1>4, <1>5, <1>6, <2>1, <2>2, <2>3
  <2>8. ASSUME stop \in {None} \cup Shown(e), NEW x \in Shown(e), x >= stop
        PROVE  v[1] <= x
    <3>1. CASE entries[e].kind = "compaction"
      <4>1. To(e, stop) = entries[e].ref
        BY <3>1 DEF To
      <4>2. CASE entries[e].ref = None
        <5>1. x = e
          BY <1>1, <3>1, <4>2, ShownCompacted
        <5> QED
          BY <1>1, <1>4, <2>2, <2>3, <5>1
      <4>3. CASE entries[e].ref # None
        <5>1. /\ entries[e].ref \in Shown(up)
              /\ Shown(e) = {y \in Lineage(e) : y >= entries[e].ref}
              /\ entries[e].ref \in 1..(e - 1)
          BY <1>1, <3>1, <4>1, <4>3, ShownCompacted
        <5>2. entries[e].ref >= To(e, stop)
          BY <1>1, <4>1, <5>1
        <5>3. w[1] <= entries[e].ref
          BY <2>1, <4>1, <5>1, <5>2
        <5>4. x \in Nat /\ x >= entries[e].ref
          BY <1>1, <1>6, <5>1
        <5> QED
          BY <1>1, <1>4, <2>2, <5>1, <5>3, <5>4
      <4> QED
        BY <4>2, <4>3
    <3>2. CASE entries[e].kind # "compaction"
      <4>1. To(e, stop) = stop
        BY <3>2 DEF To
      <4>2. Shown(e) = Shown(up) \cup {e}
        BY <1>1, <3>2, ShownPlain
      <4>3. stop \in {None} \cup Shown(up)
        BY <2>8, <4>2
      <4>4. CASE x = e
        BY <1>1, <1>4, <2>2, <2>3, <4>4
      <4>5. CASE x # e
        <5>1. x \in Shown(up) /\ x >= To(e, stop)
          BY <2>8, <4>1, <4>2, <4>5
        <5> QED
          BY <1>4, <2>1, <4>1, <4>3, <5>1
      <4> QED
        BY <4>4, <4>5
    <3> QED
      BY <3>1, <3>2
  <2>9. Len(v) \in Nat \ {0} /\ v[Len(v)] = e
    BY <1>2, <1>3
  <2>10. stop \in {None} \cup Shown(e) => \A x \in Shown(e) : x >= stop => v[1] <= x
    BY <2>8
  <2> QED
    BY ONLY <1>3, <1>7, <2>4, <2>5, <2>6, <2>7, <2>9, <2>10 DEF Walked
<1>8. ASSUME v[1] = None
      PROVE  Walked(known, e, stop, v)
  <2>1. Len(w) >= 2 /\ w[2] \in known /\ entries[w[2]].parent \notin known \cup {None}
    BY <1>4, <1>8 DEF Walked
  <2>2. Len(v) \in Nat \ {0} /\ v[Len(v)] = e /\ Len(v) >= 2
    BY <1>2, <1>3, <2>1
  <2> QED
    BY <1>3, <1>4, <1>8, <2>1, <2>2 DEF Walked
<1> QED
  BY <1>7, <1>8 DEF v

LEMMA WalkSound ==
  ASSUME Grounded, NEW known, known \subseteq Numbers
  PROVE  \A e \in known : \A stop \in 0..Len(entries) :
           Walked(known, e, stop, Walk(known)[e][stop])
<1> DEFINE Ok(e) == \A stop \in 0..Len(entries) : Walked(known, e, stop, Walk(known)[e][stop])
           bad == {e \in known : ~Ok(e)}
<1> SUFFICES ASSUME bad # {}
             PROVE  FALSE
  OBVIOUS
<1>1. PICK e \in bad : \A x \in bad : e <= x
  <2>1. bad \subseteq Nat
    BY EntriesTyped
  <2> HIDE DEF bad
  <2> QED
    BY <2>1, LeastNatural
<1>2. e \in known /\ e \in Numbers /\ e \in Nat
  BY <1>1, EntriesTyped
<1>3. PICK stop \in 0..Len(entries) : ~Walked(known, e, stop, Walk(known)[e][stop])
  BY <1>1 DEF bad, Ok
<1> HIDE DEF bad, Ok
<1>4. CASE e = stop \/ To(e, stop) = RetainedTail \/ entries[e].parent = None
  <2>1. Walk(known)[e][stop] = <<e>>
    <3>1. Walk(known)[e][stop] =
            IF e = stop \/ To(e, stop) = RetainedTail \/ entries[e].parent = None THEN <<e>>
            ELSE IF entries[e].parent \in known
                 THEN Append(Walk(known)[entries[e].parent][To(e, stop)], e)
            ELSE <<None, e>>
      BY <1>2, WalkRow
    <3> QED
      BY ONLY <1>4, <3>1
  <2> QED
    BY <1>2, <1>3, <1>4, <2>1, WalkedOne
<1>5. CASE ~(e = stop \/ To(e, stop) = RetainedTail \/ entries[e].parent = None)
  <2>1. CASE entries[e].parent \in known
    <3>1. Walk(known)[e][stop] = Append(Walk(known)[entries[e].parent][To(e, stop)], e)
      BY <1>2, <1>5, <2>1, WalkRow
    <3>2. Ok(entries[e].parent)
      <4> HIDE DEF Ok
      <4>1. entries[e].parent \in 0..(e - 1)
        BY <1>2, EntriesTyped
      <4>2. ~(e <= entries[e].parent)
        BY <1>2, <4>1
      <4>3. entries[e].parent \notin bad
        BY <1>1, <4>2
      <4> QED
        BY <2>1, <4>3 DEF bad
    <3>3. To(e, stop) \in 0..Len(entries)
      <4>1. CASE entries[e].kind # "compaction"
        BY <4>1 DEF To
      <4>2. CASE entries[e].kind = "compaction"
        <5>1. To(e, stop) = entries[e].ref
          BY <4>2 DEF To
        <5>2. entries[e].ref = None \/ entries[e].ref \in 1..(e - 1)
          BY <1>2, <1>5, <4>2, <5>1, ShownCompacted
        <5> QED
          BY <1>2, <5>1, <5>2, EntriesTyped DEF None, Numbers
      <4> QED
        BY <4>1, <4>2
    <3>4. Walked(known, entries[e].parent, To(e, stop), Walk(known)[entries[e].parent][To(e, stop)])
      BY <3>2, <3>3 DEF Ok
    <3> QED
      BY <1>2, <1>3, <1>5, <2>1, <3>1, <3>4, WalkedOn
  <2>2. CASE entries[e].parent \notin known
    <3>1. Walk(known)[e][stop] = <<None, e>>
      BY <1>2, <1>5, <2>2, WalkRow
    <3> QED
      BY <1>2, <1>3, <1>5, <2>2, <3>1, WalkedLost
  <2> QED
    BY <2>1, <2>2
<1> QED
  BY <1>4, <1>5

-----------------------------------------------------------------------------
(* The context.                                                            *)

(* A branch that can be read, as the handle sees it.                       *)
Readable(path, from) ==
  /\ path \in Seq(Numbers)
  /\ Rising(path)
  /\ Chained(path)
  /\ Ids(path) \subseteq Lineage(from)
  /\ Shown(from) \subseteq Ids(path)
  /\ path # <<>> => Ids(path) = {x \in Lineage(from) : x >= path[1]}

LEMMA PathReadable ==
  ASSUME Grounded, NEW known, known \subseteq Numbers,
         NEW from \in 0..Len(entries), ~Broken(Path(known, from))
  PROVE  /\ Readable(Path(known, from), from)
         /\ Ids(Path(known, from)) \subseteq known
<1> DEFINE path == Path(known, from)
<1>1. CASE from = None
  <2>1. path = <<>>
    BY <1>1 DEF Path
  <2>2. Len(<<>>) = 0 /\ <<>> \in Seq(Numbers) /\ Ids(<<>>) = {}
    BY EmptySeq DEF Ids
  <2>3. Shown(from) = {}
    BY <1>1, ShownNone
  <2>4. Rising(<<>>) /\ Chained(<<>>)
    BY <2>2 DEF Rising, Chained
  <2> QED
    BY <2>1, <2>2, <2>3, <2>4 DEF Readable
<1>2. CASE from # None
  <2>1. from \in known
    <3> SUFFICES ASSUME from \notin known
                 PROVE  FALSE
      OBVIOUS
    <3>1. path = <<None>>
      BY <1>2 DEF Path
    <3> QED
      BY <3>1 DEF Broken
  <2>2. path = Walk(known)[from][None]
    BY <1>2, <2>1 DEF Path
  <2>3. None \in 0..Len(entries)
    BY EntriesTyped DEF None
  <2>4. Walked(known, from, None, path)
    BY <2>1, <2>2, <2>3, WalkSound
  <2> HIDE DEF path
  <2>5. path \in Seq(Nat) /\ Len(path) \in Nat \ {0} /\ path # <<>>
    BY <2>4, EmptySeq DEF Walked
  <2>6. path[1] # None
    BY <2>5 DEF Broken, path
  <2>7. /\ Ids(path) \subseteq known
        /\ Chained(path) /\ Rising(path)
        /\ Ids(path) = {x \in Lineage(from) : x >= path[1]}
        /\ \A x \in Shown(from) : x >= None => path[1] <= x
    BY <2>4, <2>6 DEF Walked
  <2>8. path \in Seq(Numbers)
    <3>1. \A i \in 1..Len(path) : path[i] \in Numbers
      BY <2>7 DEF Ids
    <3> QED
      BY <2>5, <3>1, SeqDef, LenProperties
  <2>9. Shown(from) \subseteq Ids(path)
    <3> SUFFICES ASSUME NEW x \in Shown(from)
                 PROVE  x \in Ids(path)
      OBVIOUS
    <3>1. x \in Lineage(from)
      BY DEF Shown
    <3>2. x \in 1..from /\ from \in Nat
      BY <3>1, LineageBelow
    <3>3. path[1] \in Nat
      BY <2>5, ElementOfSeq
    <3>4. path[1] <= x
      BY <2>7, <3>2 DEF None
    <3> QED
      BY <2>7, <3>1, <3>2, <3>3, <3>4
  <2> QED
    BY <2>7, <2>8, <2>9 DEF Readable, path
<1> QED
  BY <1>1, <1>2

LEMMA CountOnce ==
  ASSUME NEW S, NEW s \in Seq(S), \A i, j \in 1..Len(s) : s[i] = s[j] => i = j
  PROVE  Cardinality(Ids(s)) = Len(s)
<1>1. Len(s) \in Nat /\ s \in [1..Len(s) -> S]
  BY LenProperties
<1>2. s \in [1..Len(s) -> Ids(s)]
  BY <1>1 DEF Ids
<1>3. s \in Bijection(1..Len(s), Ids(s))
  BY <1>2 DEF Bijection, Injection, Surjection, IsInjective, Ids
<1>4. ExistsBijection(1..Len(s), Ids(s))
  BY <1>3 DEF ExistsBijection
<1>5. IsFiniteSet(1..Len(s)) /\ Cardinality(1..Len(s)) = Len(s)
  <2>1. \A n \in Nat : IsFiniteSet(1..n) /\ Cardinality(1..n) = IF 1 > n THEN 0 ELSE n - 1 + 1
    BY FS_Interval, SMTT(30)
  <2>2. \A n \in Nat : n = IF 1 > n THEN 0 ELSE n - 1 + 1
    OBVIOUS
  <2> QED
    BY <1>1, <2>1, <2>2
<1> QED
  BY <1>4, <1>5, FS_Bijection

LEMMA RisingOrder ==
  ASSUME NEW s \in Seq(Numbers), Numbers \subseteq Nat, Rising(s)
  PROVE  /\ \A i, j \in 1..Len(s) : s[i] = s[j] => i = j
         /\ \A i, j \in 1..Len(s) : s[i] <= s[j] => i <= j
         /\ \A i, j \in 1..Len(s) : i <= j => s[i] <= s[j]
<1>1. \A i \in 1..Len(s) : s[i] \in Nat
  BY ElementOfSeq
<1>2. \A i, j \in 1..Len(s) : i < j => s[i] < s[j]
  BY DEF Rising
<1>3. \A i, j \in 1..Len(s) : i < j \/ j < i \/ i = j
  OBVIOUS
<1> QED
  BY ONLY <1>1, <1>2, <1>3

(* Where the context begins, and where the last compaction of it is.       *)
LEMMA CutShown ==
  ASSUME Grounded, NEW from \in 0..Len(entries), Cuts(from) # {}
  PROVE  /\ Cut(from) \in Cuts(from) /\ Cut(from) \in Lineage(from)
         /\ Cut(from) \in Numbers /\ Cut(from) \in Nat
         /\ ShownFrom(from) \in Nat /\ ShownFrom(from) <= Cut(from)
         /\ ShownFrom(from) \in Shown(from) /\ Cut(from) \in Shown(from)
         /\ entries[Cut(from)].ref \in Lineage(from) =>
              ShownFrom(from) = entries[Cut(from)].ref /\ ShownFrom(from) < Cut(from)
         /\ entries[Cut(from)].ref \notin Lineage(from) => ShownFrom(from) = Cut(from)
<1> DEFINE c == Cut(from)
<1>1. c \in Cuts(from) /\ c \in Lineage(from) /\ entries[c].kind = "compaction"
  BY CutLast DEF Cuts
<1>2. c \in 1..from /\ from \in Nat /\ Lineage(from) \subseteq 1..from
  BY <1>1, LineageBelow, EntriesTyped
<1>3. c \in Numbers /\ c \in Nat
  BY <1>2, EntriesTyped DEF Numbers
<1>4. entries[c].ref \in Lineage(from) => entries[c].ref < c
  <2>1. entries[c].ref \in {None, RetainedTail} => entries[c].ref \notin Lineage(from)
    BY <1>2 DEF None, RetainedTail
  <2>2. entries[c].ref \notin {None, RetainedTail} => entries[c].ref \in 1..(c - 1)
    BY <1>1, <1>3, ShownCompacted
  <2> QED
    BY <1>3, <2>1, <2>2
<1>5. /\ entries[c].ref \in Lineage(from) => ShownFrom(from) = entries[c].ref
      /\ entries[c].ref \notin Lineage(from) => ShownFrom(from) = c
  BY DEF ShownFrom
<1>6. ShownFrom(from) \in Lineage(from) /\ ShownFrom(from) \in Nat /\ ShownFrom(from) <= c
  BY <1>1, <1>2, <1>3, <1>4, <1>5
<1>7. ShownFrom(from) \in Shown(from) /\ c \in Shown(from)
  BY <1>1, <1>3, <1>6 DEF Shown
<1> QED
  BY <1>1, <1>3, <1>4, <1>5, <1>6, <1>7

LEMMA WholeContext ==
  ASSUME Grounded, NEW from \in 0..Len(entries), Cuts(from) = {},
         NEW path, Readable(path, from)
  PROVE  /\ ContextEntries(path) = path
         /\ Ids(path) = Shown(from)
         /\ Len(path) = Cardinality(Shown(from))
<1>1. path \in Seq(Numbers) /\ Rising(path) /\ Numbers \subseteq Nat
  BY EntriesTyped DEF Readable
<1>2. {i \in 1..Len(path) : entries[path[i]].kind = "compaction"} = {}
  BY DEF Cuts, Readable, Ids
<1>3. ContextEntries(path) = path
  BY <1>2 DEF ContextEntries
<1>4. Shown(from) = Lineage(from)
  <2>1. \A e \in Lineage(from) : e >= ShownFrom(from)
    BY LineageBelow DEF ShownFrom, None
  <2> QED
    BY <2>1 DEF Shown
<1>5. Ids(path) = Shown(from)
  BY <1>4 DEF Readable
<1>6. Cardinality(Ids(path)) = Len(path)
  BY <1>1, RisingOrder, CountOnce
<1> QED
  BY <1>3, <1>5, <1>6

LEMMA CompactedShape ==
  ASSUME Grounded, NEW from \in 0..Len(entries), Cuts(from) # {},
         NEW path, Readable(path, from)
  PROVE  \E l \in 1..Len(path) : \E k \in 1..l :
           /\ path[l] = Cut(from) /\ path[k] = ShownFrom(from)
           /\ ContextEntries(path) =
                (<<path[l]>> \o SubSeq(path, k, l - 1)) \o SubSeq(path, l + 1, Len(path))
<1>1. path \in Seq(Numbers) /\ Rising(path) /\ Numbers \subseteq Nat /\ Len(path) \in Nat
  BY EntriesTyped, LenProperties DEF Readable
<1>2. Cut(from) \in Ids(path) /\ ShownFrom(from) \in Ids(path)
  BY CutShown DEF Readable
<1>3. PICK l \in 1..Len(path) : path[l] = Cut(from)
  BY <1>2 DEF Ids
<1>4. PICK k \in 1..Len(path) : path[k] = ShownFrom(from)
  BY <1>2 DEF Ids
<1>5. k \in 1..l
  <2>1. path[k] <= path[l]
    BY <1>3, <1>4, CutShown
  <2>2. k <= l
    BY <1>1, <2>1, RisingOrder
  <2> QED
    BY <2>2
<1> DEFINE compactions == {i \in 1..Len(path) : entries[path[i]].kind = "compaction"}
           last == CHOOSE i \in compactions : \A j \in compactions : j <= i
           kept == {i \in 1..(last - 1) : path[i] = entries[path[last]].ref}
<1>6. l \in compactions /\ \A j \in compactions : j <= l
  <2>1. l \in compactions
    BY <1>3, CutShown DEF Cuts
  <2>2. ASSUME NEW j \in compactions
        PROVE  j <= l
    <3>1. path[j] \in Cuts(from)
      BY DEF Readable, Ids, Cuts
    <3>2. path[j] <= path[l]
      BY <1>3, <3>1, CutLast
    <3> QED
      BY <1>1, <3>2, RisingOrder
  <2> QED
    BY <2>1, <2>2
<1>7. last = l
  <2>1. last \in compactions /\ \A j \in compactions : j <= last
    <3> HIDE DEF compactions
    <3> QED
      BY <1>6
  <2>2. last \in Nat /\ l \in Nat /\ l <= last
    BY <1>6, <2>1
  <2>3. last <= l
    BY <1>6, <2>1
  <2> HIDE DEF last
  <2> QED
    BY <2>2, <2>3
<1>8. ContextEntries(path) =
        (<<path[last]>> \o (IF kept = {} THEN <<>> ELSE SubSeq(path, CHOOSE i \in kept : TRUE, last - 1)))
          \o SubSeq(path, last + 1, Len(path))
  <2>1. compactions # {}
    BY <1>6
  <2> QED
    BY <2>1 DEF ContextEntries
<1>9. \A i : i \in kept <=> i \in 1..(l - 1) /\ path[i] = entries[Cut(from)].ref
  <2> HIDE DEF last
  <2> QED
    BY <1>3, <1>7
<1>10. \A i \in 1..(l - 1) : i \in 1..Len(path)
  BY <1>1
<1>11. CASE entries[Cut(from)].ref \in Lineage(from)
  <2>1. ShownFrom(from) = entries[Cut(from)].ref /\ ShownFrom(from) < Cut(from)
    BY <1>11, CutShown
  <2>2. k # l /\ k \in 1..(l - 1)
    <3>1. k # l
      BY <1>3, <1>4, <2>1, CutShown
    <3> QED
      BY <1>5, <3>1
  <2>3. kept = {k}
    <3>1. k \in kept
      BY <1>3, <1>4, <1>7, <2>1, <2>2
    <3> HIDE DEF last, kept
    <3>2. ASSUME NEW i \in kept
          PROVE  i = k
      <4>1. i \in 1..Len(path) /\ path[i] = path[k]
        BY <1>4, <1>9, <1>10, <2>1
      <4> QED
        BY <1>1, <4>1, RisingOrder
    <3> QED
      BY <3>1, <3>2
  <2> HIDE DEF last, kept
  <2>4. (CHOOSE i \in kept : TRUE) = k /\ kept # {}
    BY <2>3
  <2> QED
    BY <1>3, <1>4, <1>5, <1>7, <1>8, <2>4
<1>12. CASE entries[Cut(from)].ref \notin Lineage(from)
  <2>1. ShownFrom(from) = Cut(from)
    BY <1>12, CutShown
  <2>2. k = l
    BY <1>1, <1>3, <1>4, <2>1, RisingOrder
  <2>3. kept = {}
    <3> SUFFICES ASSUME NEW i \in kept
                 PROVE  FALSE
      OBVIOUS
    <3> HIDE DEF last, kept
    <3>1. i \in 1..Len(path) /\ path[i] = entries[Cut(from)].ref
      BY <1>9, <1>10
    <3> QED
      BY <1>12, <3>1 DEF Readable, Ids
  <2>4. SubSeq(path, k, l - 1) = <<>>
    BY <2>2, SubSeqEmpty
  <2> HIDE DEF last, kept
  <2> QED
    BY <1>3, <1>4, <1>5, <1>7, <1>8, <2>3, <2>4
<1> QED
  BY <1>11, <1>12

(* A piece of a sequence, what is at l in front of it.                     *)
Turned(t, S, s, k, l) ==
  /\ t \in Seq(S) /\ Len(t) = Len(s) - k + 1 /\ t[1] = s[l]
  /\ \A i \in 2..(l - k + 1) : t[i] = s[k + i - 2]
  /\ \A i \in (l - k + 2)..(Len(s) - k + 1) : t[i] = s[k + i - 1]

LEMMA TurnedShape ==
  ASSUME NEW S, NEW s \in Seq(S), NEW l \in 1..Len(s), NEW k \in 1..l
  PROVE  Turned((<<s[l]>> \o SubSeq(s, k, l - 1)) \o SubSeq(s, l + 1, Len(s)), S, s, k, l)
<1> DEFINE a == SubSeq(s, k, l - 1)
           b == SubSeq(s, l + 1, Len(s))
           h == <<s[l]>> \o a
           t == h \o b
<1>1. Len(s) \in Nat /\ \A i \in 1..Len(s) : s[i] \in S
  BY ElementOfSeq, LenProperties
<1>2. /\ a \in Seq(S) /\ Len(a) = l - k
      /\ \A i \in 1..(l - k) : a[i] = s[k + i - 1]
  <2>1. \A i \in k..(l - 1) : s[i] \in S
    BY <1>1
  <2>2. /\ a \in Seq(S) /\ Len(a) = (IF k <= l - 1 THEN l - 1 - k + 1 ELSE 0)
        /\ \A i \in 1..(l - 1 - k + 1) : a[i] = s[k + i - 1]
    BY <2>1, SubSeqProperties
  <2>3. (IF k <= l - 1 THEN l - 1 - k + 1 ELSE 0) = l - k /\ l - 1 - k + 1 = l - k
    OBVIOUS
  <2> HIDE DEF a
  <2> QED
    BY <2>2, <2>3
<1>3. /\ b \in Seq(S) /\ Len(b) = Len(s) - l
      /\ \A i \in 1..(Len(s) - l) : b[i] = s[l + i]
  <2>1. \A i \in (l + 1)..Len(s) : s[i] \in S
    BY <1>1
  <2>2. /\ b \in Seq(S) /\ Len(b) = (IF l + 1 <= Len(s) THEN Len(s) - (l + 1) + 1 ELSE 0)
        /\ \A i \in 1..(Len(s) - (l + 1) + 1) : b[i] = s[l + 1 + i - 1]
    BY <1>1, <2>1, SubSeqProperties
  <2>3. /\ (IF l + 1 <= Len(s) THEN Len(s) - (l + 1) + 1 ELSE 0) = Len(s) - l
        /\ Len(s) - (l + 1) + 1 = Len(s) - l
        /\ \A i \in 1..(Len(s) - l) : l + 1 + i - 1 = l + i
    BY <1>1
  <2> HIDE DEF b
  <2> QED
    BY <2>2, <2>3
<1> HIDE DEF a, b
<1>4. /\ h \in Seq(S) /\ Len(h) = l - k + 1 /\ h[1] = s[l]
      /\ \A i \in 2..(l - k + 1) : h[i] = s[k + i - 2]
  <2>1. <<s[l]>> \in Seq(S) /\ Len(<<s[l]>>) = 1 /\ <<s[l]>>[1] = s[l]
    BY <1>1
  <2>2. h \in Seq(S) /\ Len(h) = 1 + Len(a)
    BY <1>2, <2>1, ConcatProperties
  <2>3. \A i \in 1..(1 + Len(a)) : h[i] = IF i <= 1 THEN <<s[l]>>[i] ELSE a[i - 1]
    BY <1>2, <2>1, ConcatProperties
  <2>4. ASSUME NEW i \in 2..(l - k + 1)
        PROVE  h[i] = s[k + i - 2]
    <3>1. i \in 1..(1 + Len(a)) /\ ~(i <= 1) /\ i - 1 \in 1..(l - k)
      BY <1>2
    <3>2. k + (i - 1) - 1 = k + i - 2
      OBVIOUS
    <3>3. h[i] = a[i - 1]
      BY <2>3, <3>1
    <3>4. a[i - 1] = s[k + (i - 1) - 1]
      BY <1>2, <3>1
    <3> QED
      BY <3>2, <3>3, <3>4
  <2>5. h[1] = s[l]
    <3>1. 1 \in 1..(1 + Len(a))
      BY <1>2
    <3> QED
      BY <2>1, <2>3, <3>1
  <2>6. Len(h) = l - k + 1
    BY <1>2, <2>2
  <2> QED
    BY <2>2, <2>4, <2>5, <2>6
<1> HIDE DEF h
<1>5. t \in Seq(S) /\ Len(t) = Len(h) + Len(b)
  BY <1>3, <1>4, ConcatProperties
<1>6. \A i \in 1..(Len(h) + Len(b)) : t[i] = IF i <= Len(h) THEN h[i] ELSE b[i - Len(h)]
  BY <1>3, <1>4, ConcatProperties
<1> HIDE DEF t
<1>7. Len(t) = Len(s) - k + 1
  BY <1>1, <1>3, <1>4, <1>5
<1>8. ASSUME NEW i \in 1..(l - k + 1)
      PROVE  t[i] = h[i]
  <2>1. i \in 1..(Len(h) + Len(b)) /\ i <= Len(h)
    BY <1>1, <1>3, <1>4
  <2> QED
    BY <1>6, <2>1
<1>9. ASSUME NEW i \in (l - k + 2)..(Len(s) - k + 1)
      PROVE  t[i] = s[k + i - 1]
  <2>1. i \in 1..(Len(h) + Len(b)) /\ ~(i <= Len(h)) /\ i - Len(h) \in 1..(Len(s) - l)
    BY <1>1, <1>3, <1>4
  <2>2. l + (i - Len(h)) = k + i - 1
    <3>1. Len(h) = l - k + 1
      BY <1>4
    <3> QED
      BY ONLY <3>1, l \in Nat, k \in Nat, i \in Int
  <2> QED
    BY <1>3, <1>6, <2>1, <2>2
<1>10. t[1] = s[l]
  BY <1>4, <1>8
<1>11. \A i \in 2..(l - k + 1) : t[i] = s[k + i - 2]
  BY <1>4, <1>8
<1> QED
  <2>1. Turned(t, S, s, k, l)
    BY <1>5, <1>7, <1>9, <1>10, <1>11 DEF Turned
  <2> QED
    BY <2>1 DEF t, h, a, b

LEMMA CompactedContext ==
  ASSUME Grounded, NEW from \in 0..Len(entries), Cuts(from) # {},
         NEW path, Readable(path, from)
  PROVE  LET context == ContextEntries(path)
         IN  /\ Ids(context) = Shown(from)
             /\ Len(context) = Cardinality(Shown(from))
             /\ context[1] = Cut(from)
             /\ \A i, j \in 2..Len(context) : i < j => context[i] < context[j]
<1> DEFINE context == ContextEntries(path)
           n == Len(path)
<1>1. path \in Seq(Numbers) /\ Rising(path) /\ Numbers \subseteq Nat /\ n \in Nat
  BY EntriesTyped, LenProperties DEF Readable
<1>2. PICK l \in 1..n : \E k \in 1..l :
           /\ path[l] = Cut(from) /\ path[k] = ShownFrom(from)
           /\ context = (<<path[l]>> \o SubSeq(path, k, l - 1)) \o SubSeq(path, l + 1, n)
  BY CompactedShape
<1>3. PICK k \in 1..l :
           /\ path[l] = Cut(from) /\ path[k] = ShownFrom(from)
           /\ context = (<<path[l]>> \o SubSeq(path, k, l - 1)) \o SubSeq(path, l + 1, n)
  BY <1>2
<1>4. /\ context \in Seq(Numbers) /\ Len(context) = n - k + 1 /\ context[1] = path[l]
      /\ \A i \in 2..(l - k + 1) : context[i] = path[k + i - 2]
      /\ \A i \in (l - k + 2)..(n - k + 1) : context[i] = path[k + i - 1]
  <2>1. path \in Seq(Numbers) /\ l \in 1..Len(path) /\ k \in 1..l
    BY <1>1
  <2>2. Turned(context, Numbers, path, k, l)
    BY <1>3, <2>1, TurnedShape
  <2> QED
    BY <2>2 DEF Turned
<1> HIDE DEF context
<1> DEFINE at(i) == IF i <= l - k + 1 THEN k + i - 2 ELSE k + i - 1
<1>5. \A i \in 2..Len(context) : at(i) \in k..n /\ at(i) # l /\ context[i] = path[at(i)]
  <2> SUFFICES ASSUME NEW i \in 2..Len(context)
               PROVE  at(i) \in k..n /\ at(i) # l /\ context[i] = path[at(i)]
    OBVIOUS
  <2>1. i \in 2..(n - k + 1)
    BY <1>4
  <2>2. CASE i <= l - k + 1
    <3>1. i \in 2..(l - k + 1) /\ at(i) = k + i - 2
      BY <2>1, <2>2
    <3> HIDE DEF at
    <3>2. context[i] = path[at(i)]
      BY <1>4, <3>1
    <3>3. at(i) \in k..n /\ at(i) # l
      BY <1>1, <3>1
    <3> QED
      BY <3>2, <3>3
  <2>3. CASE ~(i <= l - k + 1)
    <3>1. i \in (l - k + 2)..(n - k + 1) /\ at(i) = k + i - 1
      BY <1>1, <2>1, <2>3
    <3> HIDE DEF at
    <3>2. context[i] = path[at(i)]
      BY <1>4, <3>1
    <3>3. at(i) \in k..n /\ at(i) # l
      BY <1>1, <3>1
    <3> QED
      BY <3>2, <3>3
  <2> QED
    BY <2>2, <2>3
<1>6. \A j \in k..n : j # l => \E i \in 2..Len(context) : at(i) = j
  <2> SUFFICES ASSUME NEW j \in k..n, j # l
               PROVE  \E i \in 2..Len(context) : at(i) = j
    OBVIOUS
  <2>1. CASE j < l
    <3>1. j - k + 2 \in 2..(n - k + 1) /\ at(j - k + 2) = j
      BY <1>1, <2>1
    <3> HIDE DEF at
    <3> QED
      BY <1>4, <3>1
  <2>2. CASE j > l
    <3>1. j - k + 1 \in 2..(n - k + 1) /\ at(j - k + 1) = j
      BY <1>1, <2>2
    <3> HIDE DEF at
    <3> QED
      BY <1>4, <3>1
  <2>3. j < l \/ j > l
    OBVIOUS
  <2> QED
    BY <2>1, <2>2, <2>3
<1>7. \A i, j \in 2..Len(context) : i < j => at(i) < at(j)
  <2>1. \A i, j \in 2..(n - k + 1) : i < j => at(i) < at(j)
    BY <1>1
  <2> QED
    BY <1>4, <2>1
<1> HIDE DEF at
<1>8. Ids(path) = {x \in Lineage(from) : x >= path[1]} /\ Shown(from) \subseteq Ids(path)
      /\ Ids(path) \subseteq Lineage(from)
  <2>1. path # <<>>
    BY EmptySeq
  <2> QED
    BY <2>1 DEF Readable
<1>9. \A x : x \in Shown(from) <=> \E j \in k..n : x = path[j]
  <2>1. ASSUME NEW x \in Shown(from)
        PROVE  \E j \in k..n : x = path[j]
    <3>1. PICK j \in 1..n : x = path[j]
      BY <1>8 DEF Ids
    <3>2. path[k] <= path[j]
      BY <1>3, <3>1 DEF Shown
    <3>3. k <= j
      BY <1>1, <3>2, RisingOrder
    <3> QED
      BY <3>1, <3>3
  <2>2. ASSUME NEW j \in k..n
        PROVE  path[j] \in Shown(from)
    <3>1. j \in 1..n /\ k \in 1..n /\ k <= j
      BY <1>1
    <3>2. path[k] <= path[j]
      BY <1>1, <3>1, RisingOrder
    <3>3. path[j] \in Lineage(from)
      BY <1>8, <3>1 DEF Ids
    <3> QED
      BY <1>3, <3>2, <3>3 DEF Shown
  <2> QED
    BY <2>1, <2>2
<1>10. Ids(context) = Shown(from)
  <2>1. ASSUME NEW i \in 1..Len(context)
        PROVE  context[i] \in Shown(from)
    <3>1. CASE i = 1
      <4>1. l \in k..n
        BY <1>1
      <4> QED
        BY <1>4, <1>9, <3>1, <4>1
    <3>2. CASE i # 1
      <4>1. i \in 2..Len(context)
        BY <3>2
      <4> QED
        BY <1>5, <1>9, <4>1
    <3> QED
      BY <3>1, <3>2
  <2>2. ASSUME NEW x \in Shown(from)
        PROVE  x \in Ids(context)
    <3>1. PICK j \in k..n : x = path[j]
      BY <1>9
    <3>2. CASE j = l
      <4>1. 1 \in 1..Len(context)
        BY <1>1, <1>4
      <4> QED
        BY <1>4, <3>1, <3>2, <4>1 DEF Ids
    <3>3. CASE j # l
      <4>1. PICK i \in 2..Len(context) : at(i) = j
        BY <1>6, <3>3
      <4>2. i \in 1..Len(context)
        OBVIOUS
      <4> QED
        BY <1>5, <3>1, <4>1, <4>2 DEF Ids
    <3> QED
      BY <3>2, <3>3
  <2> QED
    BY <2>1, <2>2 DEF Ids
<1>11. \A i, j \in 1..Len(context) : context[i] = context[j] => i = j
  <2>1. \A i, j \in 2..Len(context) : context[i] = context[j] => i = j
    <3> SUFFICES ASSUME NEW i \in 2..Len(context), NEW j \in 2..Len(context),
                        context[i] = context[j]
                 PROVE  i = j
      OBVIOUS
    <3>1. at(i) \in 1..n /\ at(j) \in 1..n /\ path[at(i)] = path[at(j)]
      BY <1>1, <1>5
    <3>2. at(i) = at(j)
      BY <1>1, <3>1, RisingOrder
    <3>3. ~(at(i) < at(j)) /\ ~(at(j) < at(i))
      BY <3>1, <3>2
    <3> QED
      BY <1>7, <3>3
  <2>2. \A i \in 2..Len(context) : context[i] # context[1]
    <3> SUFFICES ASSUME NEW i \in 2..Len(context), context[i] = context[1]
                 PROVE  FALSE
      OBVIOUS
    <3>1. at(i) \in k..n /\ at(i) # l /\ path[at(i)] = path[l]
      BY <1>4, <1>5
    <3>2. at(i) \in 1..n
      BY <1>1, <3>1
    <3> QED
      BY <1>1, <3>1, <3>2, RisingOrder
  <2>3. \A i \in 1..Len(context) : i = 1 \/ i \in 2..Len(context)
    OBVIOUS
  <2> QED
    BY ONLY <2>1, <2>2, <2>3
<1>12. Len(context) = Cardinality(Shown(from))
  BY <1>4, <1>10, <1>11, CountOnce
<1>13. ASSUME NEW i \in 2..Len(context), NEW j \in 2..Len(context), i < j
       PROVE  context[i] < context[j]
  <2>1. at(i) \in 1..n /\ at(j) \in 1..n /\ at(i) < at(j)
    BY <1>1, <1>5, <1>7, <1>13
  <2>2. path[at(i)] < path[at(j)]
    BY <1>1, <2>1 DEF Rising
  <2> QED
    BY <1>5, <2>2
<1> QED
  BY <1>3, <1>4, <1>10, <1>12, <1>13 DEF context

-----------------------------------------------------------------------------
(* What the invariant says of handles.                                     *)

LEMMA SeenTyped ==
  ASSUME TreeInv, NEW h \in Handles, on[h] # "none"
  PROVE  /\ on[h] \in Sessions
         /\ Seen(h) \in Seq(Numbers) /\ Ordered(Seen(h))
         /\ Ids(Seen(h)) \subseteq Numbers
         /\ leaf[h] \in {None} \cup Ids(Seen(h))
         /\ leaf[h] \in 0..Len(entries)
<1>1. on[h] \in Sessions
  BY DEF TreeInv, TypeOK
<1>2. Seen(h) \in Seq(Numbers) /\ Ordered(Seen(h))
  BY <1>1 DEF TreeInv, LogsOrdered, Seen
<1>3. Ids(Seen(h)) \subseteq Numbers
  BY <1>2, ElementOfSeq DEF Ids
<1>4. leaf[h] \in {None} \cup Ids(Seen(h))
  BY DEF TreeInv, HandlesSound
<1>5. Grounded
  BY DEF TreeInv, Grounded
<1>6. None \in 0..Len(entries) /\ Numbers \subseteq 0..Len(entries)
  BY <1>5, EntriesTyped DEF None, Numbers
<1> QED
  BY <1>1, <1>2, <1>3, <1>4, <1>6

LEMMA BranchReadable ==
  ASSUME TreeInv, NEW h \in Handles, on[h] # "none", ~Broken(Branch(h))
  PROVE  Readable(Branch(h), leaf[h])
<1>1. Grounded
  BY DEF TreeInv, Grounded
<1> QED
  BY <1>1, SeenTyped, PathReadable DEF Branch

LEMMA ContextShown ==
  ASSUME TreeInv, NEW h \in Handles, on[h] # "none", ~Broken(Branch(h))
  PROVE  Ids(ContextEntries(Branch(h))) = Shown(leaf[h])
<1>1. Grounded
  BY DEF TreeInv, Grounded
<1>2. Readable(Branch(h), leaf[h]) /\ leaf[h] \in 0..Len(entries)
  BY BranchReadable, SeenTyped
<1>3. CASE Cuts(leaf[h]) = {}
  BY <1>1, <1>2, <1>3, WholeContext
<1>4. CASE Cuts(leaf[h]) # {}
  BY <1>1, <1>2, <1>4, CompactedContext
<1> QED
  BY <1>3, <1>4

LEMMA InvContextFaithful == TreeInv => ContextFaithful
<1> SUFFICES ASSUME TreeInv, NEW h \in Handles, on[h] # "none", ~Broken(Branch(h))
             PROVE  /\ Ids(ContextEntries(Branch(h))) = Shown(leaf[h])
                    /\ Len(ContextEntries(Branch(h))) = Cardinality(Shown(leaf[h]))
                    /\ Cuts(leaf[h]) # {} => ContextEntries(Branch(h))[1] = Cut(leaf[h])
                    /\ \A i, j \in (IF Cuts(leaf[h]) = {} THEN 1 ELSE 2)..Len(ContextEntries(Branch(h))) :
                         i < j => ContextEntries(Branch(h))[i] < ContextEntries(Branch(h))[j]
  BY DEF ContextFaithful
<1> DEFINE context == ContextEntries(Branch(h))
<1>1. Grounded
  BY DEF TreeInv, Grounded
<1>2. Readable(Branch(h), leaf[h]) /\ leaf[h] \in 0..Len(entries)
  BY BranchReadable, SeenTyped
<1>3. CASE Cuts(leaf[h]) = {}
  <2>1. /\ context = Branch(h) /\ Ids(context) = Shown(leaf[h])
        /\ Len(context) = Cardinality(Shown(leaf[h]))
    BY <1>1, <1>2, <1>3, WholeContext
  <2>2. \A i, j \in 1..Len(context) : i < j => context[i] < context[j]
    BY <1>2, <2>1 DEF Readable, Rising
  <2> HIDE DEF context
  <2> QED
    BY <1>3, <2>1, <2>2 DEF context
<1>4. CASE Cuts(leaf[h]) # {}
  <2>1. /\ Ids(context) = Shown(leaf[h])
        /\ Len(context) = Cardinality(Shown(leaf[h]))
        /\ context[1] = Cut(leaf[h])
        /\ \A i, j \in 2..Len(context) : i < j => context[i] < context[j]
    BY <1>1, <1>2, <1>4, CompactedContext
  <2> HIDE DEF context
  <2> QED
    BY <1>4, <2>1 DEF context
<1> QED
  BY <1>3, <1>4

LEMMA InvOnlyKnownDamage == TreeInv => OnlyKnownDamage
<1> SUFFICES ASSUME TreeInv
             PROVE  OnlyKnownDamage
  OBVIOUS
<1>1. Grounded
  BY DEF TreeInv, Grounded
<1>2. ASSUME NEW s \in Sessions, status[s] = "live", ~Loads(log[s])
      PROVE  entries[log[s][Len(log[s])]].kind = "leaf" /\ lastBy[s] = "none"
  <2>1. log[s] \in Seq(Numbers)
    BY DEF TreeInv, LogsOrdered
  <2>2. log[s] # <<>> /\ ReplayedLeaf(log[s]) \notin Ids(log[s]) \cup {None}
    BY <1>2 DEF Loads, ReplayedLeaf
  <2>3. log[s][Len(log[s])] \in Ids(log[s])
    BY <2>1, <2>2, EmptySeq DEF Ids
  <2>4. entries[log[s][Len(log[s])]].kind = "leaf"
    BY <2>2, <2>3 DEF ReplayedLeaf
  <2>5. ASSUME lastBy[s] # "none"
        PROVE  FALSE
    <3>1. lastBy[s] \in Handles /\ on[lastBy[s]] = s /\ ReplayedLeaf(log[s]) = leaf[lastBy[s]]
      BY <1>2, <2>5 DEF TreeInv, TypeOK, LastStands
    <3>2. on[lastBy[s]] # "none"
      BY <3>1, SessionTreeAssumption
    <3>3. /\ leaf[lastBy[s]] \in {None} \cup Ids(Seen(lastBy[s]))
          /\ Ids(Seen(lastBy[s])) \subseteq Ids(log[s])
      BY <1>2, <3>1, <3>2 DEF TreeInv, HandlesSound
    <3> QED
      BY <2>2, <3>1, <3>3
  <2> QED
    BY <2>4, <2>5
<1>3. ASSUME NEW h \in Handles, on[h] # "none", Broken(Branch(h))
      PROVE  /\ entries[Seen(h)[1]].parent # None
             /\ Branch(h)[2] = Seen(h)[1]
  <2> DEFINE known == Ids(Seen(h))
  <2>1. /\ Seen(h) \in Seq(Numbers) /\ Ordered(Seen(h)) /\ known \subseteq Numbers
        /\ leaf[h] \in {None} \cup known
    BY <1>3, SeenTyped
  <2>2. leaf[h] # None /\ leaf[h] \in known
    <3>1. leaf[h] # None
      BY <1>3 DEF Branch, Path, Broken
    <3> QED
      BY <2>1, <3>1
  <2>3. Branch(h) = Walk(known)[leaf[h]][None]
    BY <2>2 DEF Branch, Path
  <2>4. Walked(known, leaf[h], None, Branch(h))
    <3>1. None \in 0..Len(entries)
      BY <1>1, EntriesTyped DEF None
    <3> HIDE DEF known
    <3> QED
      BY <1>1, <2>1, <2>2, <2>3, <3>1, WalkSound
  <2>5. Branch(h)[2] \in known /\ entries[Branch(h)[2]].parent \notin known \cup {None}
    BY <1>3, <2>4 DEF Walked, Broken
  <2>6. PICK i \in 1..Len(Seen(h)) : Branch(h)[2] = Seen(h)[i]
    BY <2>5 DEF Ids
  <2>7. i = 1
    <3> SUFFICES ASSUME i # 1
                 PROVE  FALSE
      OBVIOUS
    <3>1. i \in 2..Len(Seen(h)) /\ Len(Seen(h)) \in Nat
      BY <2>1, LenProperties
    <3>2. \/ entries[Seen(h)[i]].parent = None
          \/ \E j \in 1..(i - 1) : Seen(h)[j] = entries[Seen(h)[i]].parent
      BY <2>1, <3>1 DEF Ordered, OrderedIn
    <3>3. PICK j \in 1..(i - 1) : Seen(h)[j] = entries[Seen(h)[i]].parent
      BY <2>5, <2>6, <3>2
    <3>4. j \in 1..Len(Seen(h))
      BY <3>1
    <3> QED
      BY <2>5, <2>6, <3>3, <3>4 DEF Ids
  <2> QED
    BY <2>5, <2>6, <2>7
<1> QED
  BY <1>2, <1>3 DEF OnlyKnownDamage

LEMMA InvParentsEarlier == TreeInv => ParentsEarlier
<1> SUFFICES ASSUME TreeInv, NEW s \in Sessions, NEW i \in 2..Len(log[s])
             PROVE  entries[log[s][i]].parent \in {None} \cup Ids(SubSeq(log[s], 1, i - 1))
  BY DEF ParentsEarlier
<1>1. log[s] \in Seq(Numbers) /\ Ordered(log[s]) /\ Len(log[s]) \in Nat
  BY LenProperties DEF TreeInv, LogsOrdered
<1>2. \A j \in 1..(i - 1) : log[s][j] \in Numbers
  BY <1>1, ElementOfSeq
<1>3. /\ Len(SubSeq(log[s], 1, i - 1)) = i - 1
      /\ \A j \in 1..(i - 1) : SubSeq(log[s], 1, i - 1)[j] = log[s][j]
  <2> DEFINE t == SubSeq(log[s], 1, i - 1)
  <2>1. /\ Len(t) = (IF 1 <= i - 1 THEN i - 1 - 1 + 1 ELSE 0)
        /\ \A j \in 1..(i - 1 - 1 + 1) : t[j] = log[s][1 + j - 1]
    BY <1>1, <1>2, SubSeqProperties
  <2>2. (IF 1 <= i - 1 THEN i - 1 - 1 + 1 ELSE 0) = i - 1 /\ i - 1 - 1 + 1 = i - 1
    OBVIOUS
  <2>3. \A j \in 1..(i - 1) : 1 + j - 1 = j
    OBVIOUS
  <2> HIDE DEF t
  <2> QED
    BY <2>1, <2>2, <2>3 DEF t
<1>4. CASE \E j \in 1..(i - 1) : log[s][j] = entries[log[s][i]].parent
  BY <1>3, <1>4 DEF Ids
<1>5. CASE entries[log[s][i]].parent = None
  BY <1>5
<1> QED
  BY <1>1, <1>4, <1>5 DEF Ordered, OrderedIn

LEMMA InvSound == TreeInv => TreeSound
<1>1. TreeInv => TypeOK /\ ResumeWhereLeft
  BY DEF TreeInv, ResumeWhereLeft, LastStands
<1> QED
  BY <1>1, InvContextFaithful, InvOnlyKnownDamage, InvParentsEarlier DEF TreeSound

-----------------------------------------------------------------------------
(* What entries say does not change when one is appended.                  *)

LEMMA QuietEntries ==
  ASSUME EntriesSound, entries' = entries
  PROVE  EntriesSound' /\ Numbers' = Numbers
<1>1. Numbers' = Numbers
  BY DEF Numbers
<1>2. Lineages' = Lineages
  BY DEF Lineages
<1>3. \A e : Lineage(e)' = Lineage(e)
  BY <1>2 DEF Lineage
<1>4. \A e : Cuts(e)' = Cuts(e)
  BY <1>3 DEF Cuts
<1>5. \A e : Cut(e)' = Cut(e)
  BY <1>4 DEF Cut
<1>6. \A e : Shown(e)' = Shown(e)
  BY <1>3, <1>4, <1>5 DEF Shown, ShownFrom
<1> QED
  BY <1>1, <1>6 DEF EntriesSound

LEMMA LongerTyped ==
  ASSUME Grounded, NEW x,
         x \in [kind : Kinds, parent : Nat, ref : Nat \cup {RetainedTail}],
         entries' = Append(entries, x)
  PROVE  /\ entries' \in Seq([kind : Kinds, parent : Nat, ref : Nat \cup {RetainedTail}])
         /\ Len(entries') = Len(entries) + 1
         /\ \A e \in Numbers : entries'[e] = entries[e]
         /\ entries'[Len(entries) + 1] = x
         /\ Numbers' = Numbers \cup {Len(entries) + 1}
<1>1. entries \in Seq([kind : Kinds, parent : Nat, ref : Nat \cup {RetainedTail}])
  BY DEF Grounded, TypeOK
<1>2. /\ entries' \in Seq([kind : Kinds, parent : Nat, ref : Nat \cup {RetainedTail}])
      /\ Len(entries') = Len(entries) + 1
      /\ \A e \in Numbers : entries'[e] = entries[e]
      /\ entries'[Len(entries) + 1] = x
  BY <1>1, AppendProperties DEF Numbers
<1>3. Len(entries) \in Nat
  BY EntriesTyped
<1>4. 1..(Len(entries) + 1) = (1..Len(entries)) \cup {Len(entries) + 1}
  BY <1>3
<1>5. Numbers' = Numbers \cup {Len(entries) + 1}
  BY <1>2, <1>4 DEF Numbers
<1> QED
  BY <1>2, <1>5

LEMMA LineageStays ==
  ASSUME Grounded, NEW x,
         x \in [kind : Kinds, parent : Nat, ref : Nat \cup {RetainedTail}],
         x.parent \in 0..Len(entries),
         entries' = Append(entries, x)
  PROVE  \A e \in 0..Len(entries) : Lineage(e)' = Lineage(e)
<1>0. /\ Len(entries) \in Nat /\ Len(entries') = Len(entries) + 1
      /\ \A e \in Numbers : entries'[e] = entries[e]
      /\ entries'[Len(entries) + 1] = x
  BY EntriesTyped, LongerTyped
<1>1. Len(entries') \in Nat /\ \A e \in 1..Len(entries') : entries'[e].parent \in 0..(e - 1)
  <2> SUFFICES ASSUME NEW e \in 1..Len(entries')
               PROVE  entries'[e].parent \in 0..(e - 1)
    BY <1>0
  <2>1. e \in Numbers \/ e = Len(entries) + 1
    BY <1>0 DEF Numbers
  <2>2. CASE e \in Numbers
    BY <1>0, <2>2, EntriesTyped
  <2>3. CASE e = Len(entries) + 1
    BY <1>0, <2>3
  <2> QED
    BY <2>1, <2>2, <2>3
<1>2. \E f : f = [e \in 0..Len(entries') |->
                    IF e = None THEN {} ELSE f[entries'[e].parent] \cup {e}]
  <2>1. PICK s : s = entries'
    OBVIOUS
  <2>2. Len(entries') \in Nat /\ \A e \in 1..Len(entries') : s[e].parent \in 0..(e - 1)
    BY <1>1, <2>1
  <2>3. \E f : f = [e \in 0..Len(entries') |-> IF e = None THEN {} ELSE f[s[e].parent] \cup {e}]
    BY <2>2, LineagesExist
  <2> QED
    BY <2>1, <2>3
<1>3. Lineages' = [e \in 0..Len(entries') |->
                    IF e = None THEN {} ELSE Lineages'[entries'[e].parent] \cup {e}]
  BY <1>2 DEF Lineages
<1> DEFINE bad == {e \in 0..Len(entries) : Lineages'[e] # Lineages[e]}
<1>4. bad = {}
  <2> SUFFICES ASSUME bad # {}
               PROVE  FALSE
    OBVIOUS
  <2>1. PICK e \in bad : \A y \in bad : e <= y
    <3>1. bad \subseteq Nat
      BY <1>0
    <3> HIDE DEF bad
    <3> QED
      BY <3>1, LeastNatural
  <2>2. e \in 0..Len(entries') /\ e \in 0..Len(entries)
    BY <1>0, <2>1
  <2>3. e # None
    <3> SUFFICES ASSUME e = None
                 PROVE  FALSE
      OBVIOUS
    <3>1. Lineages'[e] = {}
      BY <1>3, <2>2
    <3>2. Lineages[e] = {}
      BY LineageStep DEF Lineage
    <3> QED
      BY <2>1, <3>1, <3>2
  <2>4. e \in Numbers
    BY <1>0, <2>2, <2>3 DEF Numbers, None
  <2>5. Lineages'[e] = Lineages'[entries[e].parent] \cup {e}
    <3>1. Lineages'[e] = IF e = None THEN {} ELSE Lineages'[entries'[e].parent] \cup {e}
      BY <1>3, <2>2
    <3>2. entries'[e].parent = entries[e].parent
      BY <1>0, <2>4
    <3> QED
      BY <2>3, <3>1, <3>2
  <2>6. Lineages[e] = Lineages[entries[e].parent] \cup {e}
    BY <2>4, LineageStep DEF Lineage
  <2>7. entries[e].parent \in 0..Len(entries) /\ ~(e <= entries[e].parent)
    BY <2>2, <2>4, EntriesTyped
  <2>8. Lineages'[entries[e].parent] = Lineages[entries[e].parent]
    BY <2>1, <2>7
  <2> QED
    BY <2>1, <2>5, <2>6, <2>8
<1> QED
  BY <1>4 DEF Lineage

LEMMA ShownStays ==
  ASSUME Grounded, NEW x,
         x \in [kind : Kinds, parent : Nat, ref : Nat \cup {RetainedTail}],
         x.parent \in 0..Len(entries),
         entries' = Append(entries, x)
  PROVE  \A e \in 0..Len(entries) : Shown(e)' = Shown(e)
<1> SUFFICES ASSUME NEW e \in 0..Len(entries)
             PROVE  Shown(e)' = Shown(e)
  OBVIOUS
<1>1. Lineage(e)' = Lineage(e)
  BY LineageStays
<1>2. \A f \in Lineage(e) : f \in Numbers /\ entries'[f] = entries[f]
  BY LineageBelow, LongerTyped DEF Numbers
<1>3. Cuts(e)' = Cuts(e)
  BY <1>1, <1>2 DEF Cuts
<1>4. Cut(e)' = Cut(e)
  BY <1>3 DEF Cut
<1>5. ShownFrom(e)' = ShownFrom(e)
  <2>1. CASE Cuts(e) = {}
    BY <1>3, <2>1 DEF ShownFrom
  <2>2. CASE Cuts(e) # {}
    <3>1. Cut(e) \in Lineage(e)
      BY <2>2, CutShown
    <3>2. entries'[Cut(e)] = entries[Cut(e)]
      BY <1>2, <3>1
    <3> QED
      BY <1>1, <1>3, <1>4, <3>2 DEF ShownFrom
  <2> QED
    BY <2>1, <2>2
<1> QED
  BY <1>1, <1>5 DEF Shown

-----------------------------------------------------------------------------
(* The invariant holds at first.                                           *)

LEMMA EmptyOrdered ==
  /\ \A S : <<>> \in Seq(S)
  /\ Ordered(<<>>) /\ Ids(<<>>) = {} /\ ReplayedLeaf(<<>>) = None
<1>1. \A S : <<>> \in Seq(S) /\ Len(<<>>) = 0
  BY EmptySeq
<1> QED
  BY <1>1 DEF Ordered, OrderedIn, Ids, ReplayedLeaf

LEMMA InitInv == Init => TreeInv
<1> SUFFICES ASSUME Init
             PROVE  TreeInv
  OBVIOUS
<1> USE DEF Init
<1>1. TypeOK
  <2>1. users \subseteq Handles
    OBVIOUS
  <2>2. entries \in Seq([kind : Kinds, parent : Nat, ref : Nat \cup {RetainedTail}])
    BY EmptySeq
  <2>3. log \in [Sessions -> Seq(Nat)] /\ view \in [Handles -> Seq(Nat)]
    BY EmptySeq
  <2>4. leaf \in [Handles -> Nat]
    BY DEF None
  <2> QED
    BY <2>1, <2>2, <2>3, <2>4 DEF TypeOK
<1>2. EntriesSound
  <2>1. Numbers = {}
    BY EmptySeq DEF Numbers
  <2> QED
    BY <2>1 DEF EntriesSound
<1>3. LogsOrdered
  BY EmptyOrdered DEF LogsOrdered
<1>4. HandlesSound /\ LastStands
  BY DEF HandlesSound, LastStands
<1> QED
  BY <1>1, <1>2, <1>3, <1>4 DEF TreeInv

-----------------------------------------------------------------------------
(* Steps that append no entry.                                             *)

(* What says the same of a log as long as its entries say the same.        *)
LEMMA QuietLogs ==
  ASSUME entries' = entries
  PROVE  /\ \A s : Ordered(s)' = Ordered(s)
         /\ \A s : Ids(s)' = Ids(s)
         /\ \A s : ReplayedLeaf(s)' = ReplayedLeaf(s)
BY DEF Ordered, OrderedIn, Ids, ReplayedLeaf

(* A handle that was on no session comes to one that is new or live.       *)
LEMMA AttachKeeps ==
  ASSUME TreeInv, NEW h \in Handles, NEW s \in Sessions, NEW l, NEW v, NEW at,
         on[h] = "none",
         l \in Seq(Numbers), Ordered(l),
         v \in Seq(Numbers), Ordered(v), Ids(v) \subseteq Ids(l),
         at \in {None} \cup Ids(v),
         status[s] = "new" \/ (status[s] = "live" /\ l = log[s]),
         log' = [log EXCEPT ![s] = l],
         status' = [status EXCEPT ![s] = "live"],
         Attach(h, s, v, at),
         UNCHANGED <<backing, users, entries, lastBy>>
  PROVE  TreeInv'
<1>0. /\ TypeOK /\ EntriesSound /\ LogsOrdered /\ HandlesSound /\ LastStands
      /\ Grounded /\ Numbers \subseteq Nat
  <2>1. Grounded
    BY DEF TreeInv, Grounded
  <2> QED
    BY <2>1, EntriesTyped DEF TreeInv
<1>1. EntriesSound' /\ Numbers' = Numbers
  BY <1>0, QuietEntries
<1> DEFINE w == IF backing = "memory" THEN <<>> ELSE v
<1>2. /\ on' = [on EXCEPT ![h] = s]
      /\ view' = [view EXCEPT ![h] = w]
      /\ leaf' = [leaf EXCEPT ![h] = at]
  BY DEF Attach
<1>3. w \in Seq(Numbers) /\ Ordered(w)
  BY EmptyOrdered
<1> HIDE DEF w
<1>4. at \in Nat
  <2>1. Ids(v) \subseteq Numbers
    BY ElementOfSeq DEF Ids
  <2> QED
    BY <1>0, <2>1 DEF None
<1>5. l \in Seq(Nat) /\ w \in Seq(Nat)
  BY <1>0, <1>3, SeqMonotonic
<1>6. TypeOK'
  BY <1>0, <1>2, <1>4, <1>5 DEF TypeOK
<1>7. LogsOrdered'
  <2>1. \A t \in Sessions : log'[t] \in Seq(Numbers) /\ Ordered(log'[t])
    BY <1>0 DEF TypeOK, LogsOrdered
  <2>2. \A g \in Handles : view'[g] \in Seq(Numbers) /\ Ordered(view'[g])
    BY <1>0, <1>2, <1>3 DEF TypeOK, LogsOrdered
  <2>3. \A t : Ordered(t)' = Ordered(t)
    BY QuietLogs
  <2> QED
    BY <1>1, <2>1, <2>2, <2>3 DEF LogsOrdered, Ordered, OrderedIn
<1>8. HandlesSound'
  <2> SUFFICES ASSUME NEW g \in Handles, on'[g] # "none"
               PROVE  /\ status'[on'[g]] # "new"
                      /\ leaf'[g] \in {None} \cup Ids(Seen(g)')
                      /\ status'[on'[g]] = "live" => Ids(Seen(g)') \subseteq Ids(log'[on'[g]])
    BY DEF HandlesSound, Ids
  <2>1. CASE g = h
    <3>1. on'[g] = s /\ leaf'[g] = at /\ status'[s] = "live" /\ log'[s] = l
      BY <1>0, <1>2, <2>1 DEF TypeOK
    <3>2. Seen(g)' = IF backing = "memory" THEN l ELSE w
      BY <1>0, <1>2, <2>1, <3>1 DEF TypeOK, Seen
    <3>3. Seen(g)' = IF backing = "memory" THEN l ELSE v
      BY <3>2 DEF w
    <3> QED
      BY <3>1, <3>3
  <2>2. CASE g # h
    <3>1. on'[g] = on[g] /\ leaf'[g] = leaf[g] /\ view'[g] = view[g] /\ on[g] \in Sessions
      BY <1>0, <1>2, <2>2 DEF TypeOK
    <3>2. status[on[g]] # "new" /\ leaf[g] \in {None} \cup Ids(Seen(g))
      BY <1>0, <3>1 DEF HandlesSound
    <3>3. log'[on[g]] = log[on[g]] /\ status'[on[g]] = status[on[g]]
      BY <1>0, <3>1, <3>2 DEF TypeOK
    <3>4. Seen(g)' = Seen(g)
      BY <3>1, <3>3 DEF Seen
    <3> QED
      BY <1>0, <3>1, <3>2, <3>3, <3>4 DEF HandlesSound
  <2> QED
    BY <2>1, <2>2
<1>9. LastStands'
  <2> SUFFICES ASSUME NEW t \in Sessions, lastBy[t] # "none"
               PROVE  /\ on'[lastBy[t]] = t
                      /\ status'[t] = "live" => ReplayedLeaf(log[t])' = leaf'[lastBy[t]]
    BY DEF LastStands, ReplayedLeaf
  <2>1. lastBy[t] \in Handles /\ on[lastBy[t]] = t /\ t # "none"
    BY <1>0, SessionTreeAssumption DEF TypeOK, LastStands
  <2>2. lastBy[t] # h /\ status[t] # "new"
    BY <1>0, <2>1 DEF HandlesSound
  <2>3. on'[lastBy[t]] = t /\ leaf'[lastBy[t]] = leaf[lastBy[t]]
    BY <1>0, <1>2, <2>1, <2>2 DEF TypeOK
  <2>4. log'[t] = log[t] /\ (status'[t] = "live" => status[t] = "live")
    BY <1>0, <2>2 DEF TypeOK
  <2>5. ReplayedLeaf(log[t])' = ReplayedLeaf(log[t])
    BY <2>4 DEF ReplayedLeaf
  <2> QED
    BY <1>0, <2>3, <2>4, <2>5 DEF LastStands
<1> QED
  BY <1>1, <1>6, <1>7, <1>8, <1>9 DEF TreeInv

(* A session that was new is filled, and no handle comes to it.            *)
LEMMA FillKeeps ==
  ASSUME TreeInv, NEW s \in Sessions, NEW l,
         l \in Seq(Numbers), Ordered(l), status[s] = "new",
         log' = [log EXCEPT ![s] = l],
         status' = [status EXCEPT ![s] = "live"],
         UNCHANGED <<backing, users, entries, handleVars, lastBy>>
  PROVE  TreeInv'
<1>0. /\ TypeOK /\ EntriesSound /\ LogsOrdered /\ HandlesSound /\ LastStands
      /\ Grounded /\ Numbers \subseteq Nat
      /\ on' = on /\ view' = view /\ leaf' = leaf
  <2>1. Grounded
    BY DEF TreeInv, Grounded
  <2> QED
    BY <2>1, EntriesTyped DEF TreeInv, handleVars
<1>1. EntriesSound' /\ Numbers' = Numbers
  BY <1>0, QuietEntries
<1>2. l \in Seq(Nat)
  BY <1>0, SeqMonotonic
<1>3. TypeOK'
  BY <1>0, <1>2 DEF TypeOK
<1>4. LogsOrdered'
  <2>1. \A t \in Sessions : log'[t] \in Seq(Numbers) /\ Ordered(log'[t])
    BY <1>0 DEF TypeOK, LogsOrdered
  <2>2. \A g \in Handles : view'[g] \in Seq(Numbers) /\ Ordered(view'[g])
    BY <1>0 DEF LogsOrdered
  <2> QED
    BY <1>1, <2>1, <2>2 DEF LogsOrdered, Ordered, OrderedIn
<1>5. HandlesSound'
  <2> SUFFICES ASSUME NEW g \in Handles, on'[g] # "none"
               PROVE  /\ status'[on'[g]] # "new"
                      /\ leaf'[g] \in {None} \cup Ids(Seen(g)')
                      /\ status'[on'[g]] = "live" => Ids(Seen(g)') \subseteq Ids(log'[on'[g]])
    BY DEF HandlesSound, Ids
  <2>1. on[g] # "none" /\ on[g] \in Sessions /\ status[on[g]] # "new"
    BY <1>0 DEF TypeOK, HandlesSound
  <2>2. log'[on[g]] = log[on[g]] /\ status'[on[g]] = status[on[g]]
    BY <1>0, <2>1 DEF TypeOK
  <2>3. Seen(g)' = Seen(g)
    BY <1>0, <2>2 DEF Seen
  <2> QED
    BY <1>0, <2>2, <2>3 DEF HandlesSound
<1>6. LastStands'
  <2> SUFFICES ASSUME NEW t \in Sessions, lastBy[t] # "none"
               PROVE  /\ on[lastBy[t]] = t
                      /\ status'[t] = "live" => ReplayedLeaf(log[t])' = leaf[lastBy[t]]
    BY <1>0 DEF LastStands, ReplayedLeaf
  <2>1. lastBy[t] \in Handles /\ on[lastBy[t]] = t /\ t # "none"
    BY <1>0, SessionTreeAssumption DEF TypeOK, LastStands
  <2>2. t # s
    BY <1>0, <2>1 DEF HandlesSound
  <2>3. log'[t] = log[t] /\ status'[t] = status[t]
    BY <1>0, <2>2 DEF TypeOK
  <2>4. ReplayedLeaf(log[t])' = ReplayedLeaf(log[t])
    BY <2>3 DEF ReplayedLeaf
  <2> QED
    BY <1>0, <2>1, <2>3, <2>4 DEF LastStands
<1> QED
  BY <1>1, <1>3, <1>4, <1>5, <1>6 DEF TreeInv

(* A handle leaves, or a session is lost, or both.                         *)
LEMMA LossKeeps ==
  ASSUME TreeInv, NEW gone \in SUBSET Handles, NEW lost \in SUBSET Sessions,
         on' = [g \in Handles |-> IF g \in gone THEN "none" ELSE on[g]],
         view' = [g \in Handles |-> IF g \in gone THEN <<>> ELSE view[g]],
         leaf' = [g \in Handles |-> IF g \in gone THEN None ELSE leaf[g]],
         status' = [t \in Sessions |-> IF t \in lost THEN "lost" ELSE status[t]],
         log' = [t \in Sessions |-> IF t \in lost /\ backing # "memory" THEN <<>> ELSE log[t]],
         lastBy' = [t \in Sessions |->
                      IF t \in lost \/ lastBy[t] \in gone THEN "none" ELSE lastBy[t]],
         UNCHANGED <<backing, users, entries>>
  PROVE  TreeInv'
<1>0. /\ TypeOK /\ EntriesSound /\ LogsOrdered /\ HandlesSound /\ LastStands
  BY DEF TreeInv
<1>1. EntriesSound' /\ Numbers' = Numbers
  BY <1>0, QuietEntries
<1>2. TypeOK'
  <2>1. on' \in [Handles -> Sessions \cup {"none"}] /\ leaf' \in [Handles -> Nat]
    BY <1>0 DEF TypeOK, None
  <2>2. view' \in [Handles -> Seq(Nat)]
    BY <1>0, EmptyOrdered DEF TypeOK
  <2>3. log' \in [Sessions -> Seq(Nat)]
    BY <1>0, EmptyOrdered DEF TypeOK
  <2>4. status' \in [Sessions -> {"new", "live", "lost"}]
    BY <1>0 DEF TypeOK
  <2>5. lastBy' \in [Sessions -> Handles \cup {"none"}]
    BY <1>0 DEF TypeOK
  <2> QED
    BY <1>0, <2>1, <2>2, <2>3, <2>4, <2>5 DEF TypeOK
<1>3. LogsOrdered'
  <2>1. \A t \in Sessions : log'[t] \in Seq(Numbers) /\ Ordered(log'[t])
    BY <1>0, EmptyOrdered DEF LogsOrdered
  <2>2. \A g \in Handles : view'[g] \in Seq(Numbers) /\ Ordered(view'[g])
    BY <1>0, EmptyOrdered DEF LogsOrdered
  <2>3. entries' = entries
    OBVIOUS
  <2> QED
    BY ONLY <1>1, <2>1, <2>2, <2>3 DEF LogsOrdered, Ordered, OrderedIn
<1>4. HandlesSound'
  <2> SUFFICES ASSUME NEW g \in Handles, on'[g] # "none"
               PROVE  /\ status'[on'[g]] # "new"
                      /\ leaf'[g] \in {None} \cup Ids(Seen(g)')
                      /\ status'[on'[g]] = "live" => Ids(Seen(g)') \subseteq Ids(log'[on'[g]])
    BY DEF HandlesSound, Ids
  <2>1. /\ g \notin gone /\ on'[g] = on[g] /\ view'[g] = view[g] /\ leaf'[g] = leaf[g]
        /\ on[g] # "none" /\ on[g] \in Sessions
    BY <1>0 DEF TypeOK
  <2>2. /\ status'[on[g]] # "new"
        /\ status'[on[g]] = "live" => on[g] \notin lost /\ status[on[g]] = "live"
    BY <1>0, <2>1 DEF HandlesSound
  <2>3. Seen(g)' = Seen(g)
    BY <2>1 DEF Seen
  <2>4. on[g] \notin lost => log'[on[g]] = log[on[g]]
    BY <2>1
  <2> QED
    BY <1>0, <2>1, <2>2, <2>3, <2>4 DEF HandlesSound
<1>5. LastStands'
  <2> SUFFICES ASSUME NEW t \in Sessions, lastBy'[t] # "none"
               PROVE  /\ on'[lastBy'[t]] = t
                      /\ status'[t] = "live" => ReplayedLeaf(log[t])' = leaf'[lastBy'[t]]
    BY DEF LastStands, ReplayedLeaf
  <2>1. t \notin lost /\ lastBy[t] \notin gone /\ lastBy'[t] = lastBy[t]
    OBVIOUS
  <2>2. lastBy[t] \in Handles /\ on[lastBy[t]] = t
    BY <1>0, <2>1 DEF TypeOK, LastStands
  <2>3. on'[lastBy[t]] = on[lastBy[t]] /\ leaf'[lastBy[t]] = leaf[lastBy[t]]
    BY <2>1, <2>2
  <2>4. log'[t] = log[t] /\ status'[t] = status[t]
    BY <2>1
  <2>5. ReplayedLeaf(log[t])' = ReplayedLeaf(log[t])
    BY <2>4 DEF ReplayedLeaf
  <2> QED
    BY <1>0, <2>1, <2>2, <2>3, <2>4, <2>5 DEF LastStands
<1> QED
  BY <1>1, <1>2, <1>3, <1>4, <1>5 DEF TreeInv

-----------------------------------------------------------------------------
(* Steps that append an entry.                                             *)

LEMMA OrderedStays ==
  ASSUME Grounded, NEW x,
         x \in [kind : Kinds, parent : Nat, ref : Nat \cup {RetainedTail}],
         entries' = Append(entries, x),
         NEW s \in Seq(Numbers), Ordered(s)
  PROVE  /\ s \in Seq(Numbers')
         /\ OrderedIn(entries', s)
<1>1. /\ \A e \in Numbers : entries'[e] = entries[e]
      /\ Numbers' = Numbers \cup {Len(entries) + 1}
  BY LongerTyped
<1>2. s \in Seq(Numbers')
  BY <1>1, SeqMonotonic
<1>3. \A i \in 1..Len(s) : s[i] \in Numbers /\ entries'[s[i]] = entries[s[i]]
  BY <1>1, ElementOfSeq
<1>4. ASSUME NEW i \in 2..Len(s)
      PROVE  \/ entries'[s[i]].parent = None
             \/ \E j \in 1..(i - 1) : s[j] = entries'[s[i]].parent
  <2>1. i \in 1..Len(s)
    OBVIOUS
  <2>2. entries'[s[i]] = entries[s[i]]
    BY <1>3, <2>1
  <2> QED
    BY <2>2 DEF Ordered, OrderedIn
<1> QED
  BY <1>2, <1>4 DEF OrderedIn

LEMMA OrderedLonger ==
  ASSUME Grounded, NEW x,
         x \in [kind : Kinds, parent : Nat, ref : Nat \cup {RetainedTail}],
         entries' = Append(entries, x),
         NEW s \in Seq(Numbers), Ordered(s), x.parent \in {None} \cup Ids(s),
         NEW t, t = Append(s, Len(entries) + 1)
  PROVE  /\ t \in Seq(Numbers')
         /\ OrderedIn(entries', t)
<1>1. entries'[Len(entries) + 1] = x /\ Numbers' = Numbers \cup {Len(entries) + 1}
  BY LongerTyped
<1>2. /\ s \in Seq(Numbers')
      /\ \A i \in 2..Len(s) :
           \/ entries'[s[i]].parent = None
           \/ \E j \in 1..(i - 1) : s[j] = entries'[s[i]].parent
  BY OrderedStays DEF OrderedIn
<1>3. /\ t \in Seq(Numbers') /\ Len(t) = Len(s) + 1 /\ Len(s) \in Nat
      /\ \A i \in 1..Len(s) : t[i] = s[i]
      /\ t[Len(s) + 1] = Len(entries) + 1
  BY <1>1, <1>2, AppendProperties, LenProperties
<1>4. ASSUME NEW i \in 2..Len(t)
      PROVE  \/ entries'[t[i]].parent = None
             \/ \E j \in 1..(i - 1) : t[j] = entries'[t[i]].parent
  <2>1. CASE i = Len(s) + 1
    <3>1. entries'[t[i]] = x
      BY <1>1, <1>3, <2>1
    <3>2. CASE x.parent = None
      BY <3>1, <3>2
    <3>3. CASE x.parent # None
      <4>1. PICK j \in 1..Len(s) : s[j] = x.parent
        BY <3>3 DEF Ids
      <4>2. j \in 1..(i - 1) /\ t[j] = x.parent
        BY <1>3, <2>1, <4>1
      <4> QED
        BY <3>1, <4>2
    <3> QED
      BY <3>2, <3>3
  <2>2. CASE i # Len(s) + 1
    <3>1. i \in 2..Len(s) /\ i \in 1..Len(s) /\ \A j \in 1..(i - 1) : j \in 1..Len(s)
      BY <1>3, <2>2
    <3>2. t[i] = s[i] /\ \A j \in 1..(i - 1) : t[j] = s[j]
      BY <1>3, <3>1
    <3>3. \/ entries'[s[i]].parent = None
          \/ \E j \in 1..(i - 1) : s[j] = entries'[s[i]].parent
      BY <1>2, <3>1
    <3> QED
      BY <3>2, <3>3
  <2> QED
    BY <2>1, <2>2
<1> QED
  BY <1>3, <1>4 DEF OrderedIn

LEMMA AddKeeps ==
  ASSUME TreeInv, NEW h \in Handles, on[h] # "none",
         NEW kind \in Kinds, NEW ref \in Nat \cup {RetainedTail},
         kind = "leaf" => ref \in {None} \cup Ids(Seen(h)),
         kind = "compaction" => ref \in {None, RetainedTail} \cup Shown(leaf[h]),
         Add(h, kind, ref)
  PROVE  TreeInv'
<1> DEFINE new == Len(entries) + 1
           x == [kind |-> kind, parent |-> leaf[h], ref |-> ref]
           stay == backing = "jsonl" /\ status[on[h]] = "lost"
           at == IF kind = "leaf" THEN ref ELSE new
<1>0. /\ TypeOK /\ EntriesSound /\ LogsOrdered /\ HandlesSound /\ LastStands
      /\ Grounded /\ Len(entries) \in Nat
  <2>1. Grounded
    BY DEF TreeInv, Grounded
  <2> QED
    BY <2>1, EntriesTyped DEF TreeInv
<1>1. /\ entries' = Append(entries, x)
      /\ stay => log' = log /\ lastBy' = lastBy
      /\ ~stay => /\ log' = [log EXCEPT ![on[h]] = Append(log[on[h]], new)]
                  /\ lastBy' = [lastBy EXCEPT ![on[h]] = h]
      /\ view' = IF backing = "memory" THEN view
                 ELSE [view EXCEPT ![h] = Append(view[h], new)]
      /\ leaf' = [leaf EXCEPT ![h] = at]
      /\ backing' = backing /\ users' = users /\ status' = status /\ on' = on
  BY <1>0 DEF Add, TypeOK
<1>2. /\ on[h] \in Sessions
      /\ Seen(h) \in Seq(Numbers) /\ Ids(Seen(h)) \subseteq Numbers
      /\ leaf[h] \in {None} \cup Ids(Seen(h))
      /\ leaf[h] \in 0..Len(entries)
  BY SeenTyped
<1>3. /\ x \in [kind : Kinds, parent : Nat, ref : Nat \cup {RetainedTail}]
      /\ x.kind = kind /\ x.parent = leaf[h] /\ x.ref = ref
  BY <1>2
<1>4. /\ new \in Nat /\ new # None /\ new \notin Numbers
      /\ at \in Nat
  <2>1. new \in Nat /\ new # None /\ new \notin Numbers
    BY <1>0 DEF None, Numbers
  <2>2. kind = "leaf" => ref \in Nat
    BY <1>2, <1>0, EntriesTyped DEF None
  <2> HIDE DEF new
  <2> QED
    BY <2>1, <2>2
<1> HIDE DEF x, new, at
<1>5. /\ entries' \in Seq([kind : Kinds, parent : Nat, ref : Nat \cup {RetainedTail}])
      /\ Len(entries') = new
      /\ \A e \in Numbers : entries'[e] = entries[e]
      /\ entries'[new] = x
      /\ Numbers' = Numbers \cup {new}
  BY <1>0, <1>1, <1>3, LongerTyped DEF new
<1>6. EntriesSound'
  <2>1. \A e \in 0..Len(entries) : Shown(e)' = Shown(e)
    BY <1>0, <1>1, <1>2, <1>3, ShownStays
  <2> SUFFICES ASSUME NEW e \in Numbers'
               PROVE  /\ entries'[e].parent \in 0..(e - 1)
                      /\ entries'[e].kind = "leaf" => entries'[e].ref \in 0..(e - 1)
                      /\ entries'[e].kind = "compaction" =>
                           entries'[e].ref \in {None, RetainedTail} \cup Shown(entries[e].parent)'
    BY DEF EntriesSound
  <2>2. CASE e \in Numbers
    BY <1>0, <1>5, <2>1, <2>2, EntriesTyped DEF EntriesSound
  <2>3. CASE e = new
    <3>1. entries'[e] = x
      BY <1>5, <2>3
    <3>2. e - 1 = Len(entries)
      BY <1>0, <2>3 DEF new
    <3>3. kind = "leaf" => ref \in 0..Len(entries)
      BY <1>0, <1>2 DEF None, Numbers
    <3>4. PICK p \in 0..Len(entries) : p = leaf[h]
      BY <1>2
    <3>5. kind = "compaction" => ref \in {None, RetainedTail} \cup Shown(p)'
      BY <2>1, <3>4
    <3>6. entries'[e].parent = p /\ entries'[e].kind = kind /\ entries'[e].ref = ref
      BY <1>3, <3>1, <3>4
    <3>7. entries'[e].parent \in 0..(e - 1)
      BY <3>2, <3>6
    <3>8. entries'[e].kind = "leaf" => entries'[e].ref \in 0..(e - 1)
      BY <3>2, <3>3, <3>6
    <3>9. entries'[e].kind = "compaction" =>
            entries'[e].ref \in {None, RetainedTail} \cup Shown(entries[e].parent)'
      BY <3>5, <3>6
    <3> QED
      BY <3>7, <3>8, <3>9
  <2> QED
    BY <1>5, <2>2, <2>3
<1>7. \A s \in Seq(Nat) : Append(s, new) \in Seq(Nat)
  BY <1>4, AppendProperties
<1>8. TypeOK'
  <2>1. log' \in [Sessions -> Seq(Nat)] /\ lastBy' \in [Sessions -> Handles \cup {"none"}]
    <3>1. CASE stay
      BY <1>0, <1>1, <3>1 DEF TypeOK
    <3>2. CASE ~stay
      <4>1. /\ log' = [log EXCEPT ![on[h]] = Append(log[on[h]], new)]
            /\ lastBy' = [lastBy EXCEPT ![on[h]] = h]
        BY <1>1, <3>2
      <4>2. log \in [Sessions -> Seq(Nat)] /\ lastBy \in [Sessions -> Handles \cup {"none"}]
        BY <1>0 DEF TypeOK
      <4>3. Append(log[on[h]], new) \in Seq(Nat)
        BY <1>2, <1>7, <4>2
      <4>4. log' \in [Sessions -> Seq(Nat)]
        BY ONLY <4>1, <4>2, <4>3
      <4>5. lastBy' \in [Sessions -> Handles \cup {"none"}]
        BY <4>1, <4>2
      <4> QED
        BY <4>4, <4>5
    <3> QED
      BY <3>1, <3>2
  <2>2. view' \in [Handles -> Seq(Nat)]
    BY <1>0, <1>1, <1>7 DEF TypeOK
  <2>3. leaf' \in [Handles -> Nat]
    BY <1>0, <1>1, <1>4 DEF TypeOK
  <2> QED
    BY <1>0, <1>1, <1>5, <2>1, <2>2, <2>3 DEF TypeOK
<1>9. leaf[h] \in {None} \cup Ids(log[on[h]]) \/ stay
  <2>1. CASE backing = "memory"
    BY <1>2, <2>1 DEF Seen
  <2>2. CASE backing = "jsonl" /\ status[on[h]] # "lost"
    <3>1. status[on[h]] = "live"
      BY <1>0, <1>2, <2>2 DEF TypeOK, HandlesSound
    <3> QED
      BY <1>0, <1>2, <3>1 DEF HandlesSound
  <2> QED
    BY <1>0, <2>1, <2>2 DEF TypeOK
<1>10. LogsOrdered'
  <2> DEFINE Fine(s) == s \in Seq(Numbers') /\ OrderedIn(entries', s)
  <2>1. \A s \in Seq(Numbers) : Ordered(s) => Fine(s)
    BY <1>0, <1>1, <1>3, OrderedStays
  <2>2. \A s \in Seq(Numbers) : Ordered(s) /\ leaf[h] \in {None} \cup Ids(s) => Fine(Append(s, new))
    <3> SUFFICES ASSUME NEW s \in Seq(Numbers), Ordered(s), leaf[h] \in {None} \cup Ids(s),
                        NEW t, t = Append(s, new)
                 PROVE  Fine(t)
      OBVIOUS
    <3>1. x.parent \in {None} \cup Ids(s) /\ t = Append(s, Len(entries) + 1)
      BY <1>3 DEF new
    <3> QED
      BY <1>0, <1>1, <1>3, <3>1, OrderedLonger
  <2> HIDE DEF Fine
  <2>3. ASSUME NEW s \in Sessions
        PROVE  Fine(log'[s])
    <3>1. log[s] \in Seq(Numbers) /\ Ordered(log[s]) /\ Fine(log[s])
      BY <1>0, <2>1 DEF LogsOrdered
    <3>2. CASE stay \/ s # on[h]
      <4>1. log'[s] = log[s]
        BY <1>0, <1>1, <3>2 DEF TypeOK
      <4> QED
        BY <3>1, <4>1
    <3>3. CASE ~stay /\ s = on[h]
      <4>1. log'[s] = Append(log[s], new)
        BY <1>0, <1>1, <3>3 DEF TypeOK
      <4>2. leaf[h] \in {None} \cup Ids(log[s])
        BY <1>9, <3>3
      <4> QED
        BY <2>2, <3>1, <4>1, <4>2
    <3> QED
      BY <3>2, <3>3
  <2>4. ASSUME NEW g \in Handles
        PROVE  Fine(view'[g])
    <3>1. view[g] \in Seq(Numbers) /\ Ordered(view[g]) /\ Fine(view[g])
      BY <1>0, <2>1 DEF LogsOrdered
    <3>2. CASE backing = "memory" \/ g # h
      <4>1. view'[g] = view[g]
        BY <1>0, <1>1, <3>2 DEF TypeOK
      <4> QED
        BY <3>1, <4>1
    <3>3. CASE backing # "memory" /\ g = h
      <4>1. view'[g] = Append(view[g], new)
        BY <1>0, <1>1, <3>3 DEF TypeOK
      <4>2. leaf[h] \in {None} \cup Ids(view[g])
        BY <1>2, <3>3 DEF Seen
      <4> QED
        BY <2>2, <3>1, <4>1, <4>2
    <3> QED
      BY <3>2, <3>3
  <2> QED
    BY <2>3, <2>4 DEF Fine, LogsOrdered, Ordered, OrderedIn
<1>11. \A s \in Seq(Numbers) : Ids(Append(s, new)) = Ids(s) \cup {new}
  <2>1. Numbers \subseteq Nat
    BY <1>0, EntriesTyped
  <2>2. \A s \in Seq(Numbers) : s \in Seq(Nat)
    BY <2>1, SeqMonotonic
  <2> QED
    BY <1>4, <2>2, IdsAppend
<1>12. HandlesSound'
  <2> SUFFICES ASSUME NEW g \in Handles, on'[g] # "none"
               PROVE  /\ status'[on'[g]] # "new"
                      /\ leaf'[g] \in {None} \cup Ids(Seen(g)')
                      /\ status'[on'[g]] = "live" => Ids(Seen(g)') \subseteq Ids(log'[on'[g]])
    BY DEF HandlesSound, Ids
  <2>0. on' = on /\ status' = status /\ on[g] # "none"
    BY <1>1
  <2>1. /\ on[g] \in Sessions /\ status[on[g]] # "new"
        /\ leaf[g] \in {None} \cup Ids(Seen(g))
        /\ status[on[g]] = "live" => Ids(Seen(g)) \subseteq Ids(log[on[g]])
        /\ log[on[g]] \in Seq(Numbers) /\ view[g] \in Seq(Numbers)
    BY <1>0, <2>0 DEF TypeOK, HandlesSound, LogsOrdered
  <2>2. /\ ~stay /\ on[g] = on[h] => log'[on[g]] = Append(log[on[g]], new)
        /\ stay \/ on[g] # on[h] => log'[on[g]] = log[on[g]]
    BY <1>0, <1>1, <2>1 DEF TypeOK
  <2>3. Ids(log[on[g]]) \subseteq Ids(log'[on[g]])
    BY <1>11, <2>1, <2>2
  <2>4. /\ backing # "memory" /\ g = h => view'[g] = Append(view[g], new)
        /\ backing = "memory" \/ g # h => view'[g] = view[g]
    BY <1>0, <1>1 DEF TypeOK
  <2>5. Seen(g)' = IF backing = "memory" THEN log'[on[g]] ELSE view'[g]
    BY <1>1, <2>0 DEF Seen
  <2>6. Ids(Seen(g)) \subseteq Ids(Seen(g)')
    BY <1>11, <2>1, <2>3, <2>4, <2>5 DEF Seen
  <2>7. leaf'[g] \in {None} \cup Ids(Seen(g)')
    <3>1. CASE g # h
      BY <1>0, <1>1, <2>1, <2>6, <3>1 DEF TypeOK
    <3>2. CASE g = h
      <4>1. leaf'[g] = at
        BY <1>0, <1>1, <3>2 DEF TypeOK
      <4>2. CASE kind = "leaf"
        BY <2>6, <3>2, <4>1, <4>2 DEF at
      <4>3. CASE kind # "leaf"
        <5>1. leaf'[g] = new
          BY <4>1, <4>3 DEF at
        <5>2. CASE backing = "memory"
          <6>1. Seen(g)' = Append(log[on[g]], new)
            BY <2>2, <2>5, <3>2, <5>2
          <6> QED
            BY <1>11, <2>1, <5>1, <6>1
        <5>3. CASE backing # "memory"
          <6>1. Seen(g)' = Append(view[g], new)
            BY <2>4, <2>5, <3>2, <5>3
          <6> QED
            BY <1>11, <2>1, <5>1, <6>1
        <5> QED
          BY <5>2, <5>3
      <4> QED
        BY <4>2, <4>3
    <3> QED
      BY <3>1, <3>2
  <2>8. ASSUME status[on[g]] = "live"
        PROVE  Ids(Seen(g)') \subseteq Ids(log'[on[g]])
    <3>1. CASE backing = "memory"
      BY <2>5, <3>1
    <3>2. CASE backing # "memory" /\ g # h
      BY <2>1, <2>3, <2>4, <2>5, <2>8, <3>2 DEF Seen
    <3>3. CASE backing # "memory" /\ g = h
      <4>1. ~stay
        BY <2>8, <3>3
      <4>2. log'[on[g]] = Append(log[on[g]], new) /\ Seen(g)' = Append(view[g], new)
        BY <2>2, <2>4, <2>5, <3>3, <4>1
      <4> QED
        BY <1>11, <2>1, <2>8, <3>3, <4>2 DEF Seen
    <3> QED
      BY <3>1, <3>2, <3>3
  <2> QED
    BY <2>0, <2>1, <2>7, <2>8
<1>13. LastStands'
  <2> SUFFICES ASSUME NEW s \in Sessions, lastBy'[s] # "none"
               PROVE  /\ on[lastBy'[s]] = s
                      /\ status[s] = "live" => ReplayedLeaf(log[s])' = leaf'[lastBy'[s]]
    <3>1. on' = on /\ status' = status
      BY <1>1
    <3> QED
      BY <3>1 DEF LastStands, ReplayedLeaf
  <2>1. CASE ~stay /\ s = on[h]
    <3>1. lastBy'[s] = h /\ log'[s] = Append(log[s], new) /\ leaf'[h] = at
      BY <1>0, <1>1, <2>1 DEF TypeOK
    <3>2. log[s] \in Seq(Nat)
      BY <1>0 DEF TypeOK
    <3>3. /\ log'[s] # <<>> /\ Len(log'[s]) = Len(log[s]) + 1
          /\ log'[s][Len(log[s]) + 1] = new
      BY <1>4, <3>1, <3>2, AppendProperties, SMTT(30)
    <3>4. ReplayedLeaf(log[s])' = IF entries'[new].kind = "leaf" THEN entries'[new].ref ELSE new
      BY <3>3 DEF ReplayedLeaf
    <3>5. ReplayedLeaf(log[s])' = at
      BY <1>3, <1>5, <3>4 DEF at
    <3> QED
      BY <2>1, <3>1, <3>5
  <2>2. CASE stay \/ s # on[h]
    <3>1. lastBy'[s] = lastBy[s] /\ log'[s] = log[s]
      BY <1>0, <1>1, <2>2 DEF TypeOK
    <3>2. /\ lastBy[s] \in Handles /\ on[lastBy[s]] = s
          /\ status[s] = "live" => ReplayedLeaf(log[s]) = leaf[lastBy[s]]
      BY <1>0, <3>1 DEF TypeOK, LastStands
    <3>3. ASSUME status[s] = "live"
          PROVE  ReplayedLeaf(log[s])' = leaf'[lastBy[s]]
      <4>1. lastBy[s] # h
        BY <2>2, <3>2, <3>3
      <4>2. leaf'[lastBy[s]] = leaf[lastBy[s]]
        BY <1>0, <1>1, <3>2, <4>1 DEF TypeOK
      <4>3. ReplayedLeaf(log[s])' = ReplayedLeaf(log[s])
        <5>1. log[s] \in Seq(Numbers)
          BY <1>0 DEF LogsOrdered
        <5>2. log[s] # <<>> => log[s][Len(log[s])] \in Numbers
          BY <5>1, EmptySeq, ElementOfSeq
        <5>3. log[s] # <<>> => entries'[log[s][Len(log[s])]] = entries[log[s][Len(log[s])]]
          BY <1>5, <5>2
        <5> QED
          BY <3>1, <5>3 DEF ReplayedLeaf
      <4> QED
        BY <3>2, <3>3, <4>2, <4>3
    <3> QED
      BY <3>1, <3>2, <3>3
  <2> QED
    BY <2>1, <2>2
<1> QED
  BY <1>6, <1>8, <1>10, <1>12, <1>13 DEF TreeInv

-----------------------------------------------------------------------------
(* Every step keeps the invariant.                                         *)

LEMMA LogTyped ==
  ASSUME TreeInv, NEW s \in Sessions
  PROVE  /\ log[s] \in Seq(Numbers) /\ Ordered(log[s])
         /\ Ids(log[s]) \subseteq Numbers
<1>1. log[s] \in Seq(Numbers) /\ Ordered(log[s])
  BY DEF TreeInv, LogsOrdered
<1> QED
  BY <1>1, ElementOfSeq DEF Ids

LEMMA CreateKeeps ==
  ASSUME TreeInv, NEW h \in Handles, NEW s \in Sessions, Create(h, s)
  PROVE  TreeInv'
<1>1. /\ on[h] = "none" /\ status[s] = "new"
      /\ status' = [status EXCEPT ![s] = "live"]
      /\ Attach(h, s, <<>>, None)
      /\ UNCHANGED <<backing, users, entries, lastBy>>
  BY DEF Create
<1>2. log' = [log EXCEPT ![s] = log[s]]
  BY DEF Create, TreeInv, TypeOK
<1>3. log[s] \in Seq(Numbers) /\ Ordered(log[s])
  BY LogTyped
<1>4. <<>> \in Seq(Numbers) /\ Ordered(<<>>) /\ Ids(<<>>) \subseteq Ids(log[s])
  BY EmptyOrdered
<1>5. None \in {None} \cup Ids(<<>>)
  OBVIOUS
<1> QED
  BY <1>1, <1>2, <1>3, <1>4, <1>5, AttachKeeps

LEMMA OpenKeeps ==
  ASSUME TreeInv, NEW h \in Handles, NEW s \in Sessions, Open(h, s)
  PROVE  TreeInv'
<1>1. /\ on[h] = "none" /\ status[s] = "live"
      /\ Attach(h, s, log[s], ReplayedLeaf(log[s]))
      /\ UNCHANGED <<backing, users, entries, lastBy>>
  BY DEF Open
<1>2. log' = [log EXCEPT ![s] = log[s]] /\ status' = [status EXCEPT ![s] = "live"]
  BY <1>1 DEF Open, TreeInv, TypeOK
<1>3. log[s] \in Seq(Numbers) /\ Ordered(log[s])
  BY LogTyped
<1>4. ReplayedLeaf(log[s]) \in {None} \cup Ids(log[s])
  BY DEF Open, Loads
<1> QED
  BY <1>1, <1>2, <1>3, <1>4, AttachKeeps

LEMMA CloseKeeps ==
  ASSUME TreeInv, NEW h \in Handles, Close(h)
  PROVE  TreeInv'
<1> DEFINE gone == {h}
           lost == {}
<1>0. TypeOK
  BY DEF TreeInv
<1> USE DEF Close, Forget
<1>1. on' = [g \in Handles |-> IF g \in gone THEN "none" ELSE on[g]]
  BY <1>0 DEF TypeOK
<1>2. view' = [g \in Handles |-> IF g \in gone THEN <<>> ELSE view[g]]
  BY <1>0 DEF TypeOK
<1>3. leaf' = [g \in Handles |-> IF g \in gone THEN None ELSE leaf[g]]
  BY <1>0 DEF TypeOK
<1>4. status' = [t \in Sessions |-> IF t \in lost THEN "lost" ELSE status[t]]
  BY <1>0 DEF TypeOK
<1>5. log' = [t \in Sessions |-> IF t \in lost /\ backing # "memory" THEN <<>> ELSE log[t]]
  BY <1>0 DEF TypeOK
<1>6. lastBy' = [t \in Sessions |->
                   IF t \in lost \/ lastBy[t] \in gone THEN "none" ELSE lastBy[t]]
  OBVIOUS
<1>7. /\ gone \in SUBSET Handles /\ lost \in SUBSET Sessions
      /\ UNCHANGED <<backing, users, entries>>
  OBVIOUS
<1> HIDE DEF gone, lost
<1> QED
  BY <1>1, <1>2, <1>3, <1>4, <1>5, <1>6, <1>7, LossKeeps

LEMMA LoseShape ==
  ASSUME TypeOK, NEW s \in Sessions, Lose(s)
  PROVE  /\ status' = [t \in Sessions |-> IF t \in {s} THEN "lost" ELSE status[t]]
         /\ log' = [t \in Sessions |-> IF t \in {s} /\ backing # "memory" THEN <<>> ELSE log[t]]
<1>1. status' = [t \in Sessions |-> IF t \in {s} THEN "lost" ELSE status[t]]
  BY DEF Lose, TypeOK
<1>2. CASE backing = "memory"
  <2>1. log' = log
    BY <1>2 DEF Lose
  <2>2. log = [t \in Sessions |-> IF t \in {s} /\ backing # "memory" THEN <<>> ELSE log[t]]
    BY <1>2 DEF TypeOK
  <2> QED
    BY <1>1, <2>1, <2>2
<1>3. CASE backing # "memory"
  <2>1. log' = [log EXCEPT ![s] = <<>>]
    BY <1>3 DEF Lose
  <2>2. log' = [t \in Sessions |-> IF t \in {s} /\ backing # "memory" THEN <<>> ELSE log[t]]
    BY <1>3, <2>1 DEF TypeOK
  <2> QED
    BY <1>1, <2>2
<1> QED
  BY <1>2, <1>3

LEMMA CrashKeeps ==
  ASSUME TreeInv, NEW h \in Handles, Crash(h)
  PROVE  TreeInv'
<1> DEFINE gone == {h}
           lost == {on[h]}
<1>0. TypeOK /\ on[h] \in Sessions
  BY DEF TreeInv, TypeOK, Crash
<1>1. on' = [g \in Handles |-> IF g \in gone THEN "none" ELSE on[g]]
  BY <1>0 DEF TypeOK, Crash, Forget
<1>2. view' = [g \in Handles |-> IF g \in gone THEN <<>> ELSE view[g]]
  BY <1>0 DEF TypeOK, Crash, Forget
<1>3. leaf' = [g \in Handles |-> IF g \in gone THEN None ELSE leaf[g]]
  BY <1>0 DEF TypeOK, Crash, Forget
<1>4. /\ status' = [t \in Sessions |-> IF t \in lost THEN "lost" ELSE status[t]]
      /\ log' = [t \in Sessions |-> IF t \in lost /\ backing # "memory" THEN <<>> ELSE log[t]]
  <2>1. Lose(on[h])
    BY DEF Crash
  <2> QED
    BY <1>0, <2>1, LoseShape
<1>5. lastBy' = [t \in Sessions |->
                   IF t \in lost \/ lastBy[t] \in gone THEN "none" ELSE lastBy[t]]
  BY DEF Crash
<1>6. /\ gone \in SUBSET Handles /\ lost \in SUBSET Sessions
      /\ UNCHANGED <<backing, users, entries>>
  BY <1>0 DEF Crash
<1> HIDE DEF gone, lost
<1> QED
  BY <1>1, <1>2, <1>3, <1>4, <1>5, <1>6, LossKeeps

LEMMA DeleteKeeps ==
  ASSUME TreeInv, NEW s \in Sessions, Delete(s)
  PROVE  TreeInv'
<1> DEFINE gone == {}
           lost == {s}
<1>0. TypeOK /\ on' = on /\ view' = view /\ leaf' = leaf
  BY DEF TreeInv, Delete, handleVars
<1>1. on' = [g \in Handles |-> IF g \in gone THEN "none" ELSE on[g]]
  BY <1>0 DEF TypeOK
<1>2. view' = [g \in Handles |-> IF g \in gone THEN <<>> ELSE view[g]]
  BY <1>0 DEF TypeOK
<1>3. leaf' = [g \in Handles |-> IF g \in gone THEN None ELSE leaf[g]]
  BY <1>0 DEF TypeOK
<1>4. /\ status' = [t \in Sessions |-> IF t \in lost THEN "lost" ELSE status[t]]
      /\ log' = [t \in Sessions |-> IF t \in lost /\ backing # "memory" THEN <<>> ELSE log[t]]
  BY <1>0, LoseShape DEF Delete
<1>5. lastBy' = [t \in Sessions |->
                   IF t \in lost \/ lastBy[t] \in gone THEN "none" ELSE lastBy[t]]
  BY <1>0 DEF Delete, TypeOK
<1>6. /\ gone \in SUBSET Handles /\ lost \in SUBSET Sessions
      /\ UNCHANGED <<backing, users, entries>>
  BY DEF Delete
<1> HIDE DEF gone, lost
<1> QED
  BY <1>1, <1>2, <1>3, <1>4, <1>5, <1>6, LossKeeps

LEMMA AppendMessageKeeps ==
  ASSUME TreeInv, NEW h \in Handles, AppendMessage(h)
  PROVE  TreeInv'
<1>1. /\ on[h] # "none" /\ Add(h, "message", None)
      /\ "message" \in Kinds /\ None \in Nat \cup {RetainedTail}
  BY DEF AppendMessage, Kinds, None
<1> QED
  BY <1>1, AddKeeps

LEMMA AppendCompactionKeeps ==
  ASSUME TreeInv, NEW h \in Handles, NEW kept, AppendCompaction(h, kept)
  PROVE  TreeInv'
<1>1. /\ on[h] # "none" /\ ~Broken(Branch(h))
      /\ kept \in {None, RetainedTail} \cup Ids(ContextEntries(Branch(h)))
      /\ Add(h, "compaction", kept) /\ "compaction" \in Kinds
  BY DEF AppendCompaction, Keepable, Kinds
<1>2. kept \in {None, RetainedTail} \cup Shown(leaf[h])
  BY <1>1, ContextShown
<1>3. kept \in Nat \cup {RetainedTail}
  <2>1. Grounded
    BY DEF TreeInv, Grounded
  <2>2. leaf[h] \in 0..Len(entries)
    BY <1>1, SeenTyped
  <2>3. Shown(leaf[h]) \subseteq Nat
    BY <2>1, <2>2, LineageBelow DEF Shown
  <2> QED
    BY <1>2, <2>3 DEF None
<1> QED
  BY <1>1, <1>2, <1>3, AddKeeps

LEMMA MoveToKeeps ==
  ASSUME TreeInv, NEW h \in Handles, NEW target, MoveTo(h, target)
  PROVE  TreeInv'
<1>1. /\ on[h] # "none" /\ target \in {None} \cup Ids(Seen(h))
      /\ Add(h, "leaf", target) /\ "leaf" \in Kinds
  BY DEF MoveTo, Targets, Kinds
<1>2. target \in Nat \cup {RetainedTail}
  <2>1. Grounded
    BY DEF TreeInv, Grounded
  <2>2. Ids(Seen(h)) \subseteq Nat
    BY <1>1, <2>1, SeenTyped, EntriesTyped
  <2> QED
    BY <1>1, <2>2 DEF None
<1> QED
  BY <1>1, <1>2, AddKeeps

(* What a fork takes over is a log.                                        *)
LEMMA ForkedTyped ==
  ASSUME TreeInv, NEW s \in Sessions, NEW e, NEW before, Forkable(s, e, before)
  PROVE  /\ Forked(log[s], e, before) \in Seq(Numbers)
         /\ Ordered(Forked(log[s], e, before))
<1> DEFINE from == IF before THEN entries[e].parent ELSE e
           path == Path(Ids(log[s]), from)
<1>1. Grounded
  BY DEF TreeInv, Grounded
<1>2. CASE e = None
  BY <1>2, LogTyped DEF Forked
<1>3. CASE e # None
  <2>1. Forked(log[s], e, before) = path /\ ~Broken(path)
    BY <1>3 DEF Forked, Forkable
  <2>2. e \in Numbers
    BY <1>3, LogTyped DEF Forkable
  <2>3. from \in 0..Len(entries)
    BY <1>1, <2>2, EntriesTyped DEF Numbers
  <2> HIDE DEF from
  <2>4. Readable(path, from)
    BY <1>1, <2>1, <2>3, LogTyped, PathReadable
  <2> HIDE DEF path
  <2>5. path \in Seq(Numbers) /\ Chained(path)
    BY <2>4 DEF Readable
  <2>6. Ordered(path)
    <3> SUFFICES ASSUME NEW i \in 2..Len(path)
                 PROVE  \E j \in 1..(i - 1) : path[j] = entries[path[i]].parent
      BY DEF Ordered, OrderedIn
    <3>1. i - 1 \in 1..(i - 1)
      OBVIOUS
    <3> QED
      BY <2>5, <3>1 DEF Chained
  <2> QED
    BY <2>1, <2>5, <2>6
<1> QED
  BY <1>2, <1>3

LEMMA ForkKeeps ==
  ASSUME TreeInv, NEW h \in Handles, NEW s \in Sessions, NEW d \in Sessions,
         NEW e, NEW before, Fork(h, s, d, e, before)
  PROVE  TreeInv'
<1> DEFINE forked == Forked(log[s], e, before)
<1>1. forked \in Seq(Numbers) /\ Ordered(forked)
  BY ForkedTyped DEF Fork
<1>2. /\ on[h] = "none" /\ status[d] = "new"
      /\ log' = [log EXCEPT ![d] = forked]
      /\ status' = [status EXCEPT ![d] = "live"]
      /\ IF Loads(forked)
         THEN Attach(h, d, forked, ReplayedLeaf(forked))
         ELSE UNCHANGED <<on, view, leaf>>
      /\ UNCHANGED <<backing, users, entries, lastBy>>
  BY DEF Fork
<1> HIDE DEF forked
<1>3. CASE Loads(forked)
  <2>1. ReplayedLeaf(forked) \in {None} \cup Ids(forked)
    BY <1>3 DEF Loads
  <2>2. Attach(h, d, forked, ReplayedLeaf(forked))
    BY <1>2, <1>3
  <2> QED
    BY <1>1, <1>2, <2>1, <2>2, AttachKeeps
<1>4. CASE ~Loads(forked)
  <2>1. UNCHANGED <<backing, users, entries, handleVars, lastBy>>
    BY <1>2, <1>4 DEF handleVars
  <2> QED
    BY <1>1, <1>2, <2>1, FillKeeps
<1> QED
  BY <1>3, <1>4

LEMMA ForkCutKeeps ==
  ASSUME TreeInv, NEW s \in Sessions, NEW d \in Sessions,
         NEW e, NEW before, NEW n \in Nat, ForkCut(s, d, e, before, n)
  PROVE  TreeInv'
<1> DEFINE forked == Forked(log[s], e, before)
           part == SubSeq(forked, 1, n)
<1>1. forked \in Seq(Numbers) /\ Ordered(forked)
  BY ForkedTyped DEF ForkCut
<1>2. /\ status[d] = "new" /\ n < Len(forked)
      /\ log' = [log EXCEPT ![d] = part]
      /\ status' = [status EXCEPT ![d] = "live"]
      /\ UNCHANGED <<backing, users, entries, handleVars, lastBy>>
  BY DEF ForkCut
<1> HIDE DEF forked
<1>3. Len(forked) \in Nat /\ \A i \in 1..n : i \in 1..Len(forked) /\ forked[i] \in Numbers
  <2>1. Len(forked) \in Nat
    BY <1>1, LenProperties
  <2>2. \A i \in 1..n : i \in 1..Len(forked)
    BY <1>2, <2>1
  <2> QED
    BY <1>1, <2>1, <2>2, ElementOfSeq
<1>4. part \in Seq(Numbers) /\ Len(part) = n /\ \A i \in 1..n : part[i] = forked[i]
  <2>1. /\ part \in Seq(Numbers) /\ Len(part) = (IF 1 <= n THEN n - 1 + 1 ELSE 0)
        /\ \A i \in 1..(n - 1 + 1) : part[i] = forked[1 + i - 1]
    BY <1>3, SubSeqProperties
  <2>2. (IF 1 <= n THEN n - 1 + 1 ELSE 0) = n /\ n - 1 + 1 = n /\ \A i \in 1..n : 1 + i - 1 = i
    OBVIOUS
  <2> HIDE DEF part
  <2> QED
    BY <2>1, <2>2
<1> HIDE DEF part
<1>5. Ordered(part)
  <2> SUFFICES ASSUME NEW i \in 2..Len(part)
               PROVE  \/ entries[part[i]].parent = None
                      \/ \E j \in 1..(i - 1) : part[j] = entries[part[i]].parent
    BY DEF Ordered, OrderedIn
  <2>1. i \in 2..Len(forked) /\ i \in 1..n /\ \A j \in 1..(i - 1) : j \in 1..n
    BY <1>2, <1>3, <1>4
  <2>2. \/ entries[forked[i]].parent = None
        \/ \E j \in 1..(i - 1) : forked[j] = entries[forked[i]].parent
    BY <1>1, <2>1 DEF Ordered, OrderedIn
  <2> QED
    BY <1>4, <2>1, <2>2
<1> QED
  BY <1>2, <1>4, <1>5, FillKeeps

LEMMA StutterKeeps ==
  ASSUME TreeInv, UNCHANGED vars
  PROVE  TreeInv'
<1>0. /\ TypeOK /\ EntriesSound /\ LogsOrdered /\ HandlesSound /\ LastStands
      /\ on' = on /\ view' = view /\ leaf' = leaf /\ backing' = backing /\ users' = users
      /\ entries' = entries /\ log' = log /\ status' = status /\ lastBy' = lastBy
  BY DEF TreeInv, vars, handleVars
<1>1. EntriesSound' /\ Numbers' = Numbers
  BY <1>0, QuietEntries
<1>2. TypeOK'
  BY <1>0 DEF TypeOK
<1>3. LogsOrdered'
  BY <1>0, <1>1 DEF LogsOrdered, Ordered, OrderedIn
<1>4. HandlesSound'
  <2> SUFFICES ASSUME NEW g \in Handles, on'[g] # "none"
               PROVE  /\ status'[on'[g]] # "new"
                      /\ leaf'[g] \in {None} \cup Ids(Seen(g)')
                      /\ status'[on'[g]] = "live" => Ids(Seen(g)') \subseteq Ids(log'[on'[g]])
    BY DEF HandlesSound, Ids
  <2>1. Seen(g)' = Seen(g)
    BY <1>0 DEF Seen
  <2> QED
    BY <1>0, <2>1 DEF HandlesSound
<1>5. LastStands'
  BY <1>0 DEF LastStands, ReplayedLeaf
<1> QED
  BY <1>1, <1>2, <1>3, <1>4, <1>5 DEF TreeInv

LEMMA NextKeeps ==
  ASSUME TreeInv, [Next]_vars
  PROVE  TreeInv'
<1>0. users \subseteq Handles /\ 0..Len(entries) \subseteq Nat
  BY DEF TreeInv, TypeOK
<1>1. ASSUME NEW h \in users, NEW s \in Sessions, Create(h, s)
      PROVE  TreeInv'
  BY <1>0, <1>1, CreateKeeps
<1>2. ASSUME NEW h \in users, NEW s \in Sessions, Open(h, s)
      PROVE  TreeInv'
  BY <1>0, <1>2, OpenKeeps
<1>3. ASSUME NEW h \in users, Close(h)
      PROVE  TreeInv'
  BY <1>0, <1>3, CloseKeeps
<1>4. ASSUME NEW h \in users, Crash(h)
      PROVE  TreeInv'
  BY <1>0, <1>4, CrashKeeps
<1>5. ASSUME NEW h \in users, AppendMessage(h)
      PROVE  TreeInv'
  BY <1>0, <1>5, AppendMessageKeeps
<1>6. ASSUME NEW h \in users, NEW kept, AppendCompaction(h, kept)
      PROVE  TreeInv'
  BY <1>0, <1>6, AppendCompactionKeeps
<1>7. ASSUME NEW h \in users, NEW target, MoveTo(h, target)
      PROVE  TreeInv'
  BY <1>0, <1>7, MoveToKeeps
<1>8. ASSUME NEW s \in Sessions, Delete(s)
      PROVE  TreeInv'
  BY <1>8, DeleteKeeps
<1>9. ASSUME NEW s \in Sessions, NEW d \in Sessions, NEW e, NEW before,
             NEW h \in users, Fork(h, s, d, e, before)
      PROVE  TreeInv'
  BY <1>0, <1>9, ForkKeeps
<1>10. ASSUME NEW s \in Sessions, NEW d \in Sessions, NEW e, NEW before,
              NEW n \in 0..Len(entries), ForkCut(s, d, e, before, n)
       PROVE  TreeInv'
  BY <1>0, <1>10, ForkCutKeeps
<1>11. CASE UNCHANGED vars
  BY <1>11, StutterKeeps
<1> QED
  BY <1>1, <1>2, <1>3, <1>4, <1>5, <1>6, <1>7, <1>8, <1>9, <1>10, <1>11 DEF Next

(* Whatever is appended, moved, compacted, forked, deleted or torn, by     *)
(* whichever handles, the context a model is shown is what the branch and  *)
(* its last compaction promise; what cannot be opened or read is damage of *)
(* the two kinds known; parents stand before their children; and a session *)
(* resumes where the handle that wrote last stands                         *)
(* (read_path_to_root_or_compaction, default_context_entry_transform,      *)
(* ArraySessionIndex, read_session_entries_for_fork).                      *)
THEOREM TreeAlwaysSound == Spec => []TreeSound
<1>1. Init => TreeInv
  BY InitInv
<1>2. TreeInv /\ [Next]_vars => TreeInv'
  BY NextKeeps
<1>3. TreeInv => TreeSound
  BY InvSound
<1> QED
  BY <1>1, <1>2, <1>3, PTL DEF Spec
=============================================================================
