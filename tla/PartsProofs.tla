---------------------------- MODULE PartsProofs -----------------------------
(***************************************************************************)
(* Theorems of the components of Parts, each for every value of its        *)
(* constants.  A component has an inductive invariant of its own, a lemma for*)
(* each of its actions, and a theorem for each of its properties.          *)
(***************************************************************************)
EXTENDS Parts, SequenceTheorems, FiniteSetTheorems, NaturalsInduction,
        WellFoundedInduction, TLAPS

(* The largest and the smallest number of a bounded set.                   *)
LEMMA LeastNat ==
  ASSUME NEW T \in SUBSET Nat, T # {}
  PROVE  \E x \in T : \A y \in T : x <= y
<1>1. PICK x \in T : \A y \in T : ~ (<<y, x>> \in OpToRel(<, Nat))
  BY NatLessThanWellFounded, WFMin
<1>2. \A y \in T : x <= y
  <2> TAKE y \in T
  <2>1. x \in Nat /\ y \in Nat
    OBVIOUS
  <2>2. ~(y < x)
    BY <1>1, <2>1 DEF OpToRel
  <2> QED BY <2>1, <2>2
<1> QED BY <1>2

LEMMA GreatestNat ==
  ASSUME NEW m \in Nat, NEW T \in SUBSET (0..m), T # {}
  PROVE  \E x \in T : \A y \in T : x >= y
<1> DEFINE D == {d \in 0..m : m - d \in T}
<1>1. D \in SUBSET Nat /\ D # {}
  <2>1. PICK x \in T : TRUE
    OBVIOUS
  <2>2. x \in 0..m
    OBVIOUS
  <2>3. m - x \in 0..m /\ m - (m - x) = x
    BY <2>2
  <2> QED BY <2>1, <2>3
<1>2. PICK d \in D : \A y \in D : d <= y
  BY <1>1, LeastNat
<1>3. ASSUME NEW y \in T PROVE m - d >= y
  <2>1. y \in 0..m
    OBVIOUS
  <2>2. m - y \in 0..m /\ m - (m - y) = y
    BY <2>1
  <2>3. m - y \in D
    BY <2>2
  <2> QED BY <1>2, <2>1, <2>3
<1> QED BY <1>2, <1>3

-----------------------------------------------------------------------------
(***************************************************************************)
(* Settings: every process has its call, its marks and what it merged in   *)
(* step, and in a scope whose lock was never doubled one process at a time is*)
(* inside the lock, with what is stored in its hand.                       *)
(***************************************************************************)

AllKeys == S!Keys \cup {"old"}
Content == S!Doc \cup {S!NoFile, S!Blank, S!Torn}
WithLock == [op : {"load", "reload", "save"}, scope : S!Scopes]

SettingsTyped ==
  /\ stored \in [S!Scopes -> Content] /\ inEffect \in [Processes -> Content]
  /\ lockFile \in [S!Scopes -> Processes \cup {"none", "free"}]
  /\ at \in [Processes -> {"closed", "idle", "waiting", "entered", "truncated", "released"}]
  /\ todo \in [Processes -> Seq(WithLock)]
  /\ held \in [Processes -> [S!Scopes -> S!Doc]] /\ merged \in [Processes -> S!Doc]
  /\ dirty \in [Processes -> [S!Scopes -> SUBSET S!Keys]]
  /\ failed \in [Processes -> SUBSET S!Scopes] /\ damaged \subseteq S!Scopes
  /\ trusted \in [Processes -> BOOLEAN] /\ ideal \in [S!Scopes -> S!Doc]
  /\ calls \in Nat

(* A setting that is the default or that some save has written.            *)
Known(v) == v \in written \cup {0}
KnownDoc(d) == \A k \in AllKeys : Known(d[k])

(* The process is yet to load the settings of the scope.                   *)
Loads(p, s) == \E i \in DOMAIN todo[p] : todo[p][i].scope = s /\ todo[p][i].op # "save"

CallPlaced(p) ==
  /\ at[p] \in {"waiting", "entered", "truncated", "released"} => todo[p] # <<>>
  /\ at[p] = "closed" =>
       todo[p] = <<>> /\ \A s \in S!Scopes : dirty[p][s] = {} /\ held[p][s] = S!Empty
  /\ at[p] = "truncated" => inEffect[p] # S!Torn /\ S!Now(p).op = "save"

MergedNow(p) == merged[p] = S!Merge(held[p]["global"], held[p]["project"])

DistrustEmpties(p) ==
  ~trusted[p] =>
    /\ held[p]["project"] = S!Empty /\ dirty[p]["project"] = {}
    /\ \A i \in DOMAIN todo[p] : todo[p][i].scope = "global"

MarkedAreSet(p) ==
  \A s \in S!Scopes :
    /\ \A k \in dirty[p][s] : held[p][s][k] # 0
    /\ Loads(p, s) => dirty[p][s] = {}

(* A save that has let its lock go without an exception wrote what is      *)
(* marked.                                                                 *)
SavedKnown(p) ==
  at[p] = "released" /\ S!Now(p).op = "save" /\ inEffect[p] # S!Torn =>
    \A k \in dirty[p][S!Now(p).scope] : Known(held[p][S!Now(p).scope][k])

UnsavedMarked(p) ==
  \A s \in S!Scopes, k \in S!Keys :
    s \notin failed[p] /\ ~Loads(p, s) /\ ~Known(held[p][s][k]) => k \in dirty[p][s]

ProcessSound(p) ==
  /\ CallPlaced(p) /\ MergedNow(p) /\ DistrustEmpties(p)
  /\ MarkedAreSet(p) /\ SavedKnown(p) /\ UnsavedMarked(p)

(* In a scope that is not damaged at most one process is inside, it has    *)
(* what is stored in its hand, and what is stored is what it should be.    *)
OneInside(s) == \A p, q \in Processes : S!Inside(p, s) /\ S!Inside(q, s) => p = q

InHand(s) ==
  \A p \in Processes : S!Inside(p, s) =>
    /\ at[p] = "entered" /\ S!Now(p).op = "save" => inEffect[p] = stored[s]
    /\ at[p] = "truncated" => S!Parsed(inEffect[p]) = ideal[s]

StoredIdeal(s) ==
  /\ stored[s] \notin {S!Blank, S!Torn} => S!Parsed(stored[s]) = ideal[s]
  /\ stored[s] \in {S!Blank, S!Torn} => \E p \in Processes : S!Inside(p, s) /\ at[p] = "truncated"

ScopeSound(s) == s \notin damaged => OneInside(s) /\ InHand(s) /\ StoredIdeal(s)

ValuesKnown ==
  /\ \A s \in S!Scopes : stored[s] \in S!Doc => KnownDoc(stored[s])
  /\ \A p \in Processes : inEffect[p] \in S!Doc => KnownDoc(inEffect[p])

SettingsInv ==
  /\ SettingsTyped
  /\ \A p \in Processes : ProcessSound(p)
  /\ \A s \in S!Scopes : ScopeSound(s)
  /\ ValuesKnown

(* No settings have the shape of a file that is not there, empty or torn.  *)
LEMMA ContentsDiffer ==
  /\ S!NoFile \notin S!Doc /\ S!Blank \notin S!Doc /\ S!Torn \notin S!Doc
  /\ S!NoFile # S!Blank /\ S!NoFile # S!Torn /\ S!Blank # S!Torn
<1>1. \A x : <<x>> \notin S!Doc
  <2> SUFFICES ASSUME NEW x, <<x>> \in S!Doc PROVE FALSE
    OBVIOUS
  <2>1. "provider" \in 1..1 /\ "model" \in 1..1
    BY DEF S!Doc, S!Keys
  <2> QED BY <2>1
<1> QED BY <1>1 DEF S!NoFile, S!Blank, S!Torn

LEMMA EmptyDoc == S!Empty \in S!Doc /\ \A k \in AllKeys : S!Empty[k] = 0
BY DEF S!Empty, S!Doc, AllKeys

LEMMA DocValues ==
  ASSUME NEW d \in S!Doc
  PROVE  DOMAIN d = AllKeys /\ \A k \in AllKeys : d[k] \in Nat
BY DEF S!Doc, AllKeys

LEMMA DocsEqual ==
  ASSUME NEW d \in S!Doc, NEW e \in S!Doc, \A k \in AllKeys : d[k] = e[k]
  PROVE  d = e
BY DEF S!Doc, AllKeys

Clean(d) == d["old"] = 0 \/ d["provider"] # 0

(* What is parsed is in the new form, and nothing in it is new.            *)
LEMMA ParsedDoc ==
  ASSUME NEW c \in Content, c # S!Torn
  PROVE  /\ S!Parsed(c) \in S!Doc /\ Clean(S!Parsed(c))
         /\ c \in S!Doc => S!Parsed(c) = S!Migrated(c) /\ (Clean(c) => S!Parsed(c) = c)
         /\ (c \in S!Doc => KnownDoc(c)) => KnownDoc(S!Parsed(c))
<1>1. CASE c \in {S!NoFile, S!Blank}
  <2>1. S!Parsed(c) = S!Empty
    BY <1>1 DEF S!Parsed
  <2>2. "old" \in AllKeys
    BY DEF AllKeys
  <2> QED BY <1>1, <2>1, <2>2, EmptyDoc, ContentsDiffer DEF Clean, KnownDoc, Known
<1>2. CASE c \in S!Doc
  <2>1. S!Parsed(c) = S!Migrated(c)
    BY <1>2, ContentsDiffer DEF S!Parsed
  <2>2. CASE Clean(c)
    <3>1. S!Migrated(c) = c
      <4>1. c["provider"] = 0 => c["old"] = 0
        BY <2>2 DEF Clean
      <4> QED BY <4>1 DEF S!Migrated
    <3> QED BY <1>2, <2>1, <2>2, <3>1
  <2>3. CASE ~Clean(c)
    <3>1. S!Migrated(c) = [c EXCEPT !["provider"] = c["old"], !["old"] = 0]
      BY <2>3 DEF S!Migrated, Clean
    <3>2. /\ S!Migrated(c) \in S!Doc /\ S!Migrated(c)["old"] = 0 /\ S!Migrated(c)["provider"] = c["old"]
          /\ \A k \in AllKeys \ {"old", "provider"} : S!Migrated(c)[k] = c[k]
          /\ "old" \in AllKeys
      BY <1>2, <3>1 DEF S!Doc, S!Keys, AllKeys
    <3>3. KnownDoc(c) => KnownDoc(S!Migrated(c))
      BY <3>2 DEF KnownDoc, Known
    <3> QED BY <1>2, <2>1, <2>3, <3>2, <3>3 DEF Clean
  <2> QED BY <2>2, <2>3
<1> QED BY <1>1, <1>2 DEF Content

LEMMA MergeDoc ==
  ASSUME NEW d \in S!Doc, NEW e \in S!Doc
  PROVE  /\ S!Merge(d, e) \in S!Doc
         /\ \A k \in AllKeys : S!Merge(d, e)[k] = IF e[k] # 0 THEN e[k] ELSE d[k]
BY DEF S!Merge, S!Doc, AllKeys

LEMMA MergeEmpty ==
  ASSUME NEW d \in S!Doc
  PROVE  S!Merge(d, S!Empty) = d
<1>1. \A k \in AllKeys : S!Merge(d, S!Empty)[k] = d[k]
  BY EmptyDoc, MergeDoc
<1> QED BY <1>1, EmptyDoc, MergeDoc, DocsEqual

LEMMA SettingsInit == ASSUME S!Init PROVE SettingsInv
<1> DEFINE first == [S!Empty EXCEPT !["old"] = 1]
<1>1. /\ first \in S!Doc /\ first["old"] = 1 /\ \A k \in AllKeys \ {"old"} : first[k] = 0
  BY EmptyDoc DEF S!Doc, AllKeys
<1> HIDE DEF first
<1>2. "global" \in S!Scopes /\ "project" \in S!Scopes /\ \A s \in S!Scopes : s = "global" \/ s = "project"
  BY DEF S!Scopes
<1>3. /\ stored = [s \in S!Scopes |-> IF s = "global" THEN first ELSE S!NoFile]
      /\ ideal = [s \in S!Scopes |-> S!Parsed(stored[s])]
      /\ \A p \in Processes :
           /\ todo[p] = <<>> /\ at[p] = "closed" /\ inEffect[p] = S!NoFile /\ failed[p] = {}
           /\ merged[p] = S!Empty /\ trusted[p] = TRUE
           /\ \A s \in S!Scopes : held[p][s] = S!Empty /\ dirty[p][s] = {}
      /\ written = {1} /\ damaged = {}
  BY DEF S!Init, first
<1>4. \A s \in S!Scopes : stored[s] \in Content /\ stored[s] # S!Torn /\ stored[s] # S!Blank
  BY <1>1, <1>2, <1>3, ContentsDiffer DEF Content
<1>5. SettingsTyped
  <2>1. ideal \in [S!Scopes -> S!Doc]
    BY <1>3, <1>4, ParsedDoc
  <2>2. stored \in [S!Scopes -> Content]
    BY <1>3, <1>4
  <2>3. S!NoFile \in Content /\ <<>> \in Seq(WithLock)
    BY DEF Content
  <2>4. /\ inEffect \in [Processes -> Content] /\ todo \in [Processes -> Seq(WithLock)]
        /\ held \in [Processes -> [S!Scopes -> S!Doc]] /\ merged \in [Processes -> S!Doc]
    BY <2>3, EmptyDoc DEF S!Init
  <2>5. /\ lockFile \in [S!Scopes -> Processes \cup {"none", "free"}]
        /\ at \in [Processes -> {"closed", "idle", "waiting", "entered", "truncated", "released"}]
        /\ dirty \in [Processes -> [S!Scopes -> SUBSET S!Keys]]
        /\ failed \in [Processes -> SUBSET S!Scopes] /\ damaged \subseteq S!Scopes
        /\ trusted \in [Processes -> BOOLEAN] /\ calls \in Nat
    BY DEF S!Init
  <2> QED BY <2>1, <2>2, <2>4, <2>5 DEF SettingsTyped
<1>6. ASSUME NEW p \in Processes PROVE ProcessSound(p)
  <2>1. \A s \in S!Scopes : ~Loads(p, s)
    BY <1>3 DEF Loads
  <2>2. MergedNow(p)
    BY <1>2, <1>3, EmptyDoc, MergeEmpty DEF MergedNow
  <2>3. CallPlaced(p) /\ DistrustEmpties(p) /\ SavedKnown(p)
    BY <1>3 DEF CallPlaced, DistrustEmpties, SavedKnown
  <2>4. MarkedAreSet(p) /\ UnsavedMarked(p)
    BY <1>3, <2>1, EmptyDoc DEF MarkedAreSet, UnsavedMarked, Known, AllKeys
  <2> QED BY <2>2, <2>3, <2>4 DEF ProcessSound
<1>7. ASSUME NEW s \in S!Scopes PROVE ScopeSound(s)
  <2>1. \A p \in Processes : ~S!Inside(p, s)
    BY <1>3 DEF S!Inside
  <2> QED BY <1>3, <1>4, <2>1 DEF ScopeSound, OneInside, InHand, StoredIdeal
<1>8. ValuesKnown
  <2>1. KnownDoc(first)
    BY <1>1, <1>3 DEF KnownDoc, Known
  <2> QED BY <1>3, <2>1, ContentsDiffer DEF ValuesKnown
<1> QED BY <1>5, <1>6, <1>7, <1>8 DEF SettingsInv

(* A process that does nothing stays sound, whatever others save.          *)
OtherKept(q) ==
  /\ at'[q] = at[q] /\ todo'[q] = todo[q] /\ inEffect'[q] = inEffect[q] /\ held'[q] = held[q]
  /\ dirty'[q] = dirty[q] /\ failed'[q] = failed[q] /\ merged'[q] = merged[q] /\ trusted'[q] = trusted[q]

LEMMA OtherSound ==
  ASSUME NEW q \in Processes, ProcessSound(q), OtherKept(q), written \subseteq written'
  PROVE  ProcessSound(q)'
<1>1. \A s : Loads(q, s)' <=> Loads(q, s)
  BY DEF Loads, OtherKept
<1>2. \A v : Known(v) => Known(v)'
  BY DEF Known
<1>3. CallPlaced(q)' /\ MergedNow(q)' /\ DistrustEmpties(q)'
  BY DEF ProcessSound, OtherKept, CallPlaced, MergedNow, DistrustEmpties, S!Now
<1>4. MarkedAreSet(q)' /\ UnsavedMarked(q)'
  BY <1>1, <1>2 DEF ProcessSound, OtherKept, MarkedAreSet, UnsavedMarked
<1>5. SavedKnown(q)'
  BY <1>2 DEF ProcessSound, OtherKept, SavedKnown, S!Now
<1> QED BY <1>3, <1>4, <1>5 DEF ProcessSound

(* Where nobody goes in or out and the file stays, the scope stays sound.  *)
LEMMA ScopeKept ==
  ASSUME NEW s \in S!Scopes, ScopeSound(s),
         stored'[s] = stored[s], ideal'[s] = ideal[s], damaged \subseteq damaged',
         \A q \in Processes :
           /\ S!Inside(q, s)' <=> S!Inside(q, s)
           /\ S!Inside(q, s) => at'[q] = at[q] /\ todo'[q] = todo[q] /\ inEffect'[q] = inEffect[q]
  PROVE  ScopeSound(s)'
<1> SUFFICES ASSUME s \notin damaged PROVE (OneInside(s) /\ InHand(s) /\ StoredIdeal(s))'
  BY DEF ScopeSound
<1>1. OneInside(s)'
  BY DEF ScopeSound, OneInside
<1>2. InHand(s)'
  BY DEF ScopeSound, InHand, S!Parsed, S!Now, S!Migrated
<1>3. StoredIdeal(s)'
  BY DEF ScopeSound, StoredIdeal, S!Parsed, S!Migrated
<1> QED BY <1>1, <1>2, <1>3

(* What a step of a process that is not inside and stays out must show.    *)
LEMMA SettingsOutside ==
  ASSUME SettingsInv, NEW p \in Processes, SettingsTyped',
         at[p] \notin {"entered", "truncated"}, at'[p] \notin {"entered", "truncated"},
         \A q \in Processes \ {p} : OtherKept(q),
         UNCHANGED <<stored, ideal, written, damaged>>,
         inEffect'[p] \in {inEffect[p], S!NoFile, S!Torn},
         ProcessSound(p)'
  PROVE  SettingsInv'
<1>1. ASSUME NEW q \in Processes PROVE ProcessSound(q)'
  BY OtherSound DEF SettingsInv
<1>2. ASSUME NEW s \in S!Scopes PROVE ScopeSound(s)'
  <2>1. ASSUME NEW q \in Processes
        PROVE  /\ S!Inside(q, s)' <=> S!Inside(q, s)
               /\ S!Inside(q, s) => at'[q] = at[q] /\ todo'[q] = todo[q] /\ inEffect'[q] = inEffect[q]
    <3>1. CASE q = p
      BY <3>1 DEF S!Inside
    <3>2. CASE q # p
      BY <3>2 DEF OtherKept, S!Inside, S!Now
    <3> QED BY <3>1, <3>2
  <2> QED BY <2>1, ScopeKept DEF SettingsInv
<1>3. ValuesKnown'
  <2>1. \A d : KnownDoc(d) <=> KnownDoc(d)'
    BY DEF KnownDoc, Known
  <2> QED BY <2>1, ContentsDiffer DEF SettingsInv, ValuesKnown, OtherKept, KnownDoc, Known
<1> QED BY <1>1, <1>2, <1>3 DEF SettingsInv

LEMMA SettingsCheckExists ==
  ASSUME SettingsInv, NEW p \in Processes, S!CheckExists(p)
  PROVE  SettingsInv'
<1>1. /\ at[p] = "idle" /\ todo[p] # <<>> /\ at' = [at EXCEPT ![p] = "waiting"]
      /\ UNCHANGED <<stored, lockFile, todo, inEffect, held, dirty, failed, merged, trusted, calls,
                     ideal, written, damaged>>
  BY DEF S!CheckExists, S!memory
<1>2. SettingsTyped'
  BY <1>1 DEF SettingsInv, SettingsTyped
<1>3. at'[p] = "waiting" /\ \A q \in Processes \ {p} : OtherKept(q)
  BY <1>1 DEF SettingsInv, SettingsTyped, OtherKept
<1>4. ProcessSound(p)
  BY DEF SettingsInv
<1>5. ProcessSound(p)'
  BY <1>1, <1>3, <1>4 DEF ProcessSound, CallPlaced, MergedNow, DistrustEmpties, MarkedAreSet, SavedKnown,
        UnsavedMarked, Loads, Known
<1> QED BY <1>1, <1>2, <1>3, <1>5, SettingsOutside

LEMMA SettingsTimeOut ==
  ASSUME SettingsInv, NEW p \in Processes, S!TimeOut(p)
  PROVE  SettingsInv'
<1>1. /\ at[p] = "waiting" /\ at' = [at EXCEPT ![p] = "released"]
      /\ inEffect' = [inEffect EXCEPT ![p] = S!Torn]
      /\ UNCHANGED <<stored, lockFile, todo, held, dirty, failed, merged, trusted, calls,
                     ideal, written, damaged>>
  BY DEF S!TimeOut, S!memory
<1>2. SettingsTyped'
  BY <1>1 DEF SettingsInv, SettingsTyped, Content
<1>3. at'[p] = "released" /\ inEffect'[p] = S!Torn /\ \A q \in Processes \ {p} : OtherKept(q)
  BY <1>1 DEF SettingsInv, SettingsTyped, OtherKept
<1>4. ProcessSound(p)
  BY DEF SettingsInv
<1>5. ProcessSound(p)'
  BY <1>1, <1>3, <1>4 DEF ProcessSound, CallPlaced, MergedNow, DistrustEmpties, MarkedAreSet, SavedKnown,
        UnsavedMarked, Loads, Known
<1> QED BY <1>1, <1>2, <1>3, <1>5, SettingsOutside

LEMMA UpdatedTyped ==
  ASSUME NEW X, NEW Y, NEW f \in [X -> Y], NEW x, NEW y \in Y
  PROVE  [f EXCEPT ![x] = y] \in [X -> Y]
BY Zenon

LEMMA SettingsOpen ==
  ASSUME SettingsInv, NEW p \in Processes, NEW trust \in BOOLEAN, S!Open(p, trust)
  PROVE  SettingsInv'
<1> DEFINE plan == IF trust THEN <<S!Call("load", "global"), S!Call("load", "project")>>
                   ELSE <<S!Call("load", "global")>>
<1>1. /\ at[p] = "closed" /\ at' = [at EXCEPT ![p] = "idle"] /\ trusted' = [trusted EXCEPT ![p] = trust]
      /\ todo' = [todo EXCEPT ![p] = plan]
      /\ UNCHANGED <<stored, lockFile, inEffect, held, dirty, failed, merged, calls,
                     ideal, written, damaged>>
  BY DEF S!Open, S!Frame
<1>2. /\ plan \in Seq(WithLock)
      /\ ~trust => \A i \in DOMAIN plan : plan[i].scope = "global"
  <2>1. CASE trust
    BY <2>1 DEF S!Call, WithLock, S!Scopes
  <2>2. CASE ~trust
    BY <2>2 DEF S!Call, WithLock, S!Scopes
  <2> QED BY <2>1, <2>2
<1> HIDE DEF plan
<1>3. SettingsTyped'
  <2>1. todo' \in [Processes -> Seq(WithLock)] /\ trusted' \in [Processes -> BOOLEAN]
    BY <1>1, <1>2, UpdatedTyped DEF SettingsInv, SettingsTyped
  <2> QED BY <1>1, <2>1 DEF SettingsInv, SettingsTyped
<1>4. /\ at'[p] = "idle" /\ todo'[p] = plan /\ trusted'[p] = trust
      /\ \A q \in Processes \ {p} : OtherKept(q)
  BY <1>1 DEF SettingsInv, SettingsTyped, OtherKept
<1>5. ProcessSound(p)
  BY DEF SettingsInv
<1>6. \A s \in S!Scopes : dirty[p][s] = {} /\ held[p][s] = S!Empty
  BY <1>1, <1>5 DEF ProcessSound, CallPlaced
<1>7. CallPlaced(p)' /\ MergedNow(p)' /\ SavedKnown(p)'
  BY <1>1, <1>4, <1>5 DEF ProcessSound, CallPlaced, MergedNow, SavedKnown
<1>8. DistrustEmpties(p)'
  <2>1. "project" \in S!Scopes
    BY DEF S!Scopes
  <2> QED BY <1>1, <1>2, <1>4, <1>6, <2>1 DEF DistrustEmpties
<1>9. MarkedAreSet(p)'
  BY <1>1, <1>6 DEF MarkedAreSet
<1>10. UnsavedMarked(p)'
  BY <1>1, <1>6, EmptyDoc DEF UnsavedMarked, Known, AllKeys
<1> QED BY <1>1, <1>3, <1>4, <1>7, <1>8, <1>9, <1>10, SettingsOutside DEF ProcessSound

LEMMA SettingsReload ==
  ASSUME SettingsInv, NEW p \in Processes, S!Reload(p)
  PROVE  SettingsInv'
<1> DEFINE plan == IF trusted[p] THEN <<S!Call("reload", "global"), S!Call("reload", "project")>>
                   ELSE <<S!Call("reload", "global")>>
           none == [s \in S!Scopes |-> {}]
<1>1. /\ at[p] = "idle" /\ dirty' = [dirty EXCEPT ![p] = none] /\ todo' = [todo EXCEPT ![p] = plan]
      /\ calls' = calls + 1
      /\ UNCHANGED <<stored, lockFile, inEffect, at, held, failed, merged, trusted, ideal, written, damaged>>
  BY DEF S!Reload, S!Frame, S!Ready, S!Counted
<1>2. /\ plan \in Seq(WithLock)
      /\ ~trusted[p] => \A i \in DOMAIN plan : plan[i].scope = "global"
      /\ none \in [S!Scopes -> SUBSET S!Keys]
  <2>1. trusted[p] \in BOOLEAN
    BY DEF SettingsInv, SettingsTyped
  <2>2. CASE trusted[p]
    BY <2>2 DEF S!Call, WithLock, S!Scopes
  <2>3. CASE ~trusted[p]
    BY <2>3 DEF S!Call, WithLock, S!Scopes
  <2> QED BY <2>1, <2>2, <2>3
<1>3. \A s \in S!Scopes : trusted[p] \/ s = "global" =>
        \E i \in DOMAIN plan : plan[i].scope = s /\ plan[i].op # "save"
  <2>1. CASE trusted[p]
    <3>1. plan[1] = S!Call("reload", "global") /\ plan[2] = S!Call("reload", "project") /\ DOMAIN plan = 1..2
      BY <2>1
    <3> QED BY <3>1 DEF S!Scopes, S!Call
  <2>2. CASE ~trusted[p]
    <3>1. plan[1] = S!Call("reload", "global") /\ DOMAIN plan = 1..1
      BY <2>2
    <3> QED BY <2>2, <3>1 DEF S!Scopes, S!Call
  <2> QED BY <2>1, <2>2
<1> HIDE DEF plan
<1>4. SettingsTyped'
  BY <1>1, <1>2 DEF SettingsInv, SettingsTyped
<1>5. /\ todo'[p] = plan /\ (\A s \in S!Scopes : dirty'[p][s] = {})
      /\ \A q \in Processes \ {p} : OtherKept(q)
  BY <1>1 DEF SettingsInv, SettingsTyped, OtherKept
<1>6. ProcessSound(p)
  BY DEF SettingsInv
<1>7. CallPlaced(p)' /\ MergedNow(p)' /\ SavedKnown(p)'
  BY <1>1, <1>6 DEF ProcessSound, CallPlaced, MergedNow, SavedKnown
<1>8. DistrustEmpties(p)' /\ MarkedAreSet(p)'
  BY <1>1, <1>2, <1>5, <1>6 DEF ProcessSound, DistrustEmpties, MarkedAreSet, S!Scopes
<1>9. UnsavedMarked(p)'
  <2> SUFFICES ASSUME NEW s \in S!Scopes, NEW k \in S!Keys, ~Loads(p, s)', ~Known(held[p][s][k])
               PROVE  FALSE
    BY <1>1 DEF UnsavedMarked, Known
  <2>1. ~trusted[p] /\ s = "project"
    BY <1>3, <1>5 DEF Loads, S!Scopes
  <2>2. held[p][s] = S!Empty
    BY <1>6, <2>1 DEF ProcessSound, DistrustEmpties
  <2> QED BY <1>1, <2>2, EmptyDoc DEF Known, AllKeys
<1> QED BY <1>1, <1>4, <1>5, <1>7, <1>8, <1>9, SettingsOutside DEF ProcessSound

LEMMA SettingsSetProjectTrusted ==
  ASSUME SettingsInv, NEW p \in Processes, S!SetProjectTrusted(p)
  PROVE  SettingsInv'
<1>1. /\ at[p] = "idle" /\ todo[p] = <<>>
      /\ trusted' = [trusted EXCEPT ![p] = ~trusted[p]]
      /\ dirty' = [dirty EXCEPT ![p]["project"] = {}]
      /\ calls' = calls + 1
      /\ UNCHANGED <<stored, lockFile, inEffect, at, ideal, written, damaged>>
  BY DEF S!SetProjectTrusted, S!Frame, S!Ready, S!Counted
<1>2. "project" \in S!Scopes /\ "global" \in S!Scopes
  BY DEF S!Scopes
<1>3. ProcessSound(p) /\ \A s \in S!Scopes : ~Loads(p, s)
  BY <1>1 DEF SettingsInv, Loads
<1>4. trusted' \in [Processes -> BOOLEAN]
  <2>1. (~trusted[p]) \in BOOLEAN
    OBVIOUS
  <2> QED BY <1>1, <2>1, UpdatedTyped DEF SettingsInv, SettingsTyped
<1>5. dirty' \in [Processes -> [S!Scopes -> SUBSET S!Keys]] /\ calls' \in Nat
  <2>1. {} \in SUBSET S!Keys /\ calls \in Nat /\ dirty[p] \in [S!Scopes -> SUBSET S!Keys]
    BY DEF SettingsInv, SettingsTyped
  <2>2. [dirty[p] EXCEPT !["project"] = {}] \in [S!Scopes -> SUBSET S!Keys]
    BY <2>1, UpdatedTyped
  <2> QED BY <1>1, <2>1, <2>2 DEF SettingsInv, SettingsTyped
<1>6. /\ dirty'[p]["project"] = {}
      /\ \A s \in S!Scopes \ {"project"} : dirty'[p][s] = dirty[p][s]
      /\ \A q \in Processes \ {p} : dirty'[q] = dirty[q] /\ trusted'[q] = trusted[q]
      /\ trusted'[p] <=> ~trusted[p]
  BY <1>1, <1>2 DEF SettingsInv, SettingsTyped
<1>7. CASE trusted[p]
  <2>1. /\ held' = [held EXCEPT ![p]["project"] = S!Empty]
        /\ failed' = [failed EXCEPT ![p] = @ \ {"project"}]
        /\ merged' = [merged EXCEPT ![p] = held[p]["global"]]
        /\ todo' = todo
    BY <1>7 DEF S!SetProjectTrusted
  <2>2. SettingsTyped'
    BY <1>1, <1>2, <1>4, <1>5, <2>1, EmptyDoc DEF SettingsInv, SettingsTyped
  <2>3. /\ held'[p]["project"] = S!Empty /\ held'[p]["global"] = held[p]["global"]
        /\ \A s \in S!Scopes \ {"project"} : held'[p][s] = held[p][s]
        /\ merged'[p] = held[p]["global"] /\ failed'[p] = failed[p] \ {"project"}
        /\ held[p]["global"] \in S!Doc
        /\ \A q \in Processes \ {p} : OtherKept(q)
    BY <1>1, <1>2, <1>6, <2>1 DEF SettingsInv, SettingsTyped, OtherKept
  <2>4. CallPlaced(p)' /\ SavedKnown(p)'
    BY <1>1, <2>1 DEF CallPlaced, SavedKnown
  <2>5. MergedNow(p)'
    BY <2>3, MergeEmpty DEF MergedNow, S!Merge, S!Empty
  <2>6. DistrustEmpties(p)'
    BY <1>1, <1>6, <2>1, <2>3 DEF DistrustEmpties
  <2>7. \A s \in S!Scopes : ~Loads(p, s)'
    BY <1>1, <2>1 DEF Loads
  <2>8. MarkedAreSet(p)'
    BY <1>3, <1>6, <2>3, <2>7 DEF ProcessSound, MarkedAreSet
  <2>9. UnsavedMarked(p)'
    <3> SUFFICES ASSUME NEW s \in S!Scopes, NEW k \in S!Keys, s \notin failed'[p], ~Known(held'[p][s][k])
                 PROVE  k \in dirty'[p][s]
      BY <1>1 DEF UnsavedMarked, Known
    <3>1. s # "project"
      BY <2>3, EmptyDoc DEF Known, AllKeys
    <3> QED BY <1>3, <1>6, <2>3, <3>1 DEF ProcessSound, UnsavedMarked
  <2> QED BY <1>1, <2>2, <2>3, <2>4, <2>5, <2>6, <2>8, <2>9, SettingsOutside DEF ProcessSound
<1>8. CASE ~trusted[p]
  <2> DEFINE plan == <<S!Call("load", "project")>>
  <2>1. todo' = [todo EXCEPT ![p] = plan] /\ UNCHANGED <<held, failed, merged>>
    BY <1>8 DEF S!SetProjectTrusted
  <2>2. plan \in Seq(WithLock) /\ DOMAIN plan = 1..1 /\ plan[1].scope = "project" /\ plan[1].op # "save"
    BY <1>2 DEF S!Call, WithLock
  <2> HIDE DEF plan
  <2>3. SettingsTyped'
    BY <1>1, <1>4, <1>5, <2>1, <2>2 DEF SettingsInv, SettingsTyped
  <2>4. todo'[p] = plan /\ \A q \in Processes \ {p} : OtherKept(q)
    BY <1>1, <1>6, <2>1 DEF SettingsInv, SettingsTyped, OtherKept
  <2>5. CallPlaced(p)' /\ SavedKnown(p)' /\ MergedNow(p)' /\ DistrustEmpties(p)'
    BY <1>1, <1>3, <1>6, <1>8, <2>1 DEF ProcessSound, CallPlaced, SavedKnown, MergedNow, DistrustEmpties
  <2>6. \A s \in S!Scopes : Loads(p, s)' <=> s = "project"
    BY <2>2, <2>4 DEF Loads
  <2>7. MarkedAreSet(p)'
    BY <1>3, <1>6, <2>1, <2>6 DEF ProcessSound, MarkedAreSet
  <2>8. UnsavedMarked(p)'
    BY <1>1, <1>3, <1>6, <2>1, <2>6 DEF ProcessSound, UnsavedMarked, Known
  <2> QED BY <1>1, <2>3, <2>4, <2>5, <2>7, <2>8, SettingsOutside DEF ProcessSound
<1> QED BY <1>7, <1>8

LEMMA SettingsChange ==
  ASSUME SettingsInv, NEW p \in Processes, NEW s \in S!Scopes, NEW keys \in SUBSET S!Keys,
         S!Change(p, s, keys), s = "project" => trusted[p]
  PROVE  SettingsInv'
<1> DEFINE new == [k \in DOMAIN held[p][s] |-> IF k \in keys THEN calls + 1 ELSE held[p][s][k]]
           mine == [held[p] EXCEPT ![s] = new]
           plan == IF s \in failed[p] THEN <<>> ELSE <<S!Call("save", s)>>
<1>1. /\ at[p] = "idle" /\ todo[p] = <<>> /\ calls' = calls + 1
      /\ held' = [held EXCEPT ![p] = mine]
      /\ dirty' = [dirty EXCEPT ![p][s] = @ \cup keys]
      /\ merged' = [merged EXCEPT ![p] = S!Merge(mine["global"], mine["project"])]
      /\ todo' = [todo EXCEPT ![p] = plan]
      /\ UNCHANGED <<stored, lockFile, inEffect, at, failed, trusted, ideal, written, damaged>>
  BY DEF S!Change, S!Frame, S!Ready, S!Counted
<1>2. calls \in Nat /\ held[p][s] \in S!Doc /\ held[p] \in [S!Scopes -> S!Doc] /\ S!Keys \subseteq AllKeys
  BY DEF SettingsInv, SettingsTyped, AllKeys
<1>3. /\ new \in S!Doc
      /\ \A k \in AllKeys : new[k] = IF k \in keys THEN calls + 1 ELSE held[p][s][k]
  BY <1>2 DEF S!Doc, AllKeys
<1> HIDE DEF new
<1>4. /\ mine \in [S!Scopes -> S!Doc] /\ mine[s] = new
      /\ \A r \in S!Scopes \ {s} : mine[r] = held[p][r]
      /\ "global" \in S!Scopes /\ "project" \in S!Scopes
  BY <1>2, <1>3 DEF S!Scopes
<1> HIDE DEF mine
<1>5. /\ plan \in Seq(WithLock)
      /\ \A i \in DOMAIN plan : plan[i].scope = s /\ plan[i].op = "save"
  <2>1. CASE s \in failed[p]
    BY <2>1
  <2>2. CASE s \notin failed[p]
    <3>1. plan = <<S!Call("save", s)>> /\ S!Call("save", s) = [op |-> "save", scope |-> s]
      BY <2>2 DEF S!Call
    <3>2. S!Call("save", s) \in WithLock
      BY <3>1 DEF WithLock
    <3> HIDE DEF plan
    <3> QED BY <3>1, <3>2
  <2> QED BY <2>1, <2>2
<1> HIDE DEF plan
<1>6. SettingsTyped'
  <2>1. S!Merge(mine["global"], mine["project"]) \in S!Doc
    BY <1>4, MergeDoc
  <2>2. dirty' \in [Processes -> [S!Scopes -> SUBSET S!Keys]]
    BY <1>1 DEF SettingsInv, SettingsTyped
  <2> QED BY <1>1, <1>4, <1>5, <2>1, <2>2 DEF SettingsInv, SettingsTyped
<1>7. /\ todo'[p] = plan /\ held'[p] = mine /\ dirty'[p][s] = dirty[p][s] \cup keys
      /\ \A r \in S!Scopes \ {s} : dirty'[p][r] = dirty[p][r]
      /\ merged'[p] = S!Merge(mine["global"], mine["project"])
      /\ \A q \in Processes \ {p} : OtherKept(q)
  BY <1>1 DEF SettingsInv, SettingsTyped, OtherKept
<1>8. ProcessSound(p) /\ \A r \in S!Scopes : ~Loads(p, r)
  BY <1>1 DEF SettingsInv, Loads
<1>9. \A r \in S!Scopes : ~Loads(p, r)'
  BY <1>5, <1>7 DEF Loads
<1>10. CallPlaced(p)' /\ SavedKnown(p)'
  BY <1>1 DEF CallPlaced, SavedKnown
<1>11. MergedNow(p)'
  BY <1>7 DEF MergedNow, S!Merge
<1>12. DistrustEmpties(p)'
  BY <1>1, <1>4, <1>5, <1>7, <1>8 DEF ProcessSound, DistrustEmpties, S!Scopes
<1>13. MarkedAreSet(p)'
  <2> SUFFICES ASSUME NEW r \in S!Scopes, NEW k \in dirty'[p][r] PROVE mine[r][k] # 0
    BY <1>7, <1>9 DEF MarkedAreSet
  <2>1. k \in AllKeys
    BY <1>2, <1>6 DEF SettingsTyped
  <2>2. CASE r = s
    BY <1>2, <1>3, <1>4, <1>7, <1>8, <2>1, <2>2 DEF ProcessSound, MarkedAreSet
  <2>3. CASE r # s
    BY <1>4, <1>7, <1>8, <2>3 DEF ProcessSound, MarkedAreSet
  <2> QED BY <2>2, <2>3
<1>14. UnsavedMarked(p)'
  <2> SUFFICES ASSUME NEW r \in S!Scopes, NEW k \in S!Keys, r \notin failed[p], ~Known(mine[r][k])
               PROVE  k \in dirty'[p][r]
    BY <1>1, <1>7 DEF UnsavedMarked, Known
  <2>1. CASE r = s
    BY <1>2, <1>3, <1>4, <1>7, <1>8, <2>1 DEF ProcessSound, UnsavedMarked
  <2>2. CASE r # s
    BY <1>4, <1>7, <1>8, <2>2 DEF ProcessSound, UnsavedMarked
  <2> QED BY <2>1, <2>2
<1> QED BY <1>1, <1>6, <1>7, <1>10, <1>11, <1>12, <1>13, <1>14, SettingsOutside DEF ProcessSound

LEMMA NowPlaced ==
  ASSUME SettingsInv, NEW p \in Processes, at[p] \in {"waiting", "entered", "truncated", "released"}
  PROVE  /\ todo[p] \in Seq(WithLock) /\ todo[p] # <<>> /\ Len(todo[p]) >= 1
         /\ S!Now(p) = todo[p][1] /\ S!Now(p).scope \in S!Scopes
         /\ S!Now(p).op \in {"load", "reload", "save"}
<1>1. todo[p] \in Seq(WithLock) /\ todo[p] # <<>>
  BY DEF SettingsInv, SettingsTyped, ProcessSound, CallPlaced
<1>2. Len(todo[p]) >= 1 /\ todo[p][1] \in WithLock
  BY <1>1
<1> QED BY <1>1, <1>2 DEF S!Now, WithLock

LEMMA SettingsUnlink ==
  ASSUME SettingsInv, NEW p \in Processes, S!Unlink(p)
  PROVE  SettingsInv'
<1> DEFINE s == S!Now(p).scope
           broken == inEffect[p] = S!Torn
           rest == Tail(todo[p])
<1>1. /\ at[p] = "released" /\ at' = [at EXCEPT ![p] = "idle"] /\ todo' = [todo EXCEPT ![p] = rest]
      /\ inEffect' = [inEffect EXCEPT ![p] = S!NoFile]
      /\ lockFile' = [lockFile EXCEPT ![s] = "none"]
      /\ S!Returned(p) /\ trusted' = trusted
      /\ UNCHANGED <<stored, calls, ideal, written, damaged>>
  BY DEF S!Unlink, S!Returned
<1>2. /\ todo[p] \in Seq(WithLock) /\ todo[p] # <<>> /\ Len(todo[p]) >= 1
      /\ S!Now(p) = todo[p][1] /\ s \in S!Scopes /\ S!Now(p).op \in {"load", "reload", "save"}
  BY <1>1, NowPlaced
<1>3. /\ rest \in Seq(WithLock) /\ DOMAIN rest = 1..(Len(todo[p]) - 1)
      /\ \A i \in DOMAIN rest : i + 1 \in DOMAIN todo[p] /\ rest[i] = todo[p][i + 1]
  BY <1>2
<1> HIDE DEF rest
<1>4. /\ at' \in [Processes -> {"closed", "idle", "waiting", "entered", "truncated", "released"}]
      /\ todo' \in [Processes -> Seq(WithLock)] /\ inEffect' \in [Processes -> Content]
      /\ lockFile' \in [S!Scopes -> Processes \cup {"none", "free"}]
      /\ at'[p] = "idle" /\ todo'[p] = rest /\ inEffect'[p] = S!NoFile
      /\ \A q \in Processes \ {p} : at'[q] = at[q] /\ todo'[q] = todo[q] /\ inEffect'[q] = inEffect[q]
  BY <1>1, <1>3 DEF SettingsInv, SettingsTyped, Content
<1>5. ProcessSound(p)
  BY DEF SettingsInv
<1>6. CallPlaced(p)' /\ SavedKnown(p)'
  BY <1>4 DEF CallPlaced, SavedKnown
<1>7. \A r \in S!Scopes : Loads(p, r)' => Loads(p, r)
  BY <1>3, <1>4 DEF Loads
<1>8. \A r \in S!Scopes : Loads(p, r) => Loads(p, r)' \/ (r = s /\ S!Now(p).op # "save")
  <2> SUFFICES ASSUME NEW r \in S!Scopes, NEW i \in DOMAIN todo[p],
                      todo[p][i].scope = r, todo[p][i].op # "save"
               PROVE  Loads(p, r)' \/ (r = s /\ S!Now(p).op # "save")
    BY DEF Loads
  <2>1. CASE i = 1
    BY <1>2, <2>1
  <2>2. CASE i # 1
    <3>1. i - 1 \in DOMAIN rest /\ rest[i - 1] = todo[p][i]
      BY <1>2, <1>3, <2>2
    <3> QED BY <1>4, <3>1 DEF Loads
  <2> QED BY <2>1, <2>2
<1>10. (\A i \in DOMAIN todo[p] : todo[p][i].scope = "global") =>
         s = "global" /\ \A i \in DOMAIN rest : rest[i].scope = "global"
  BY <1>2, <1>3
<1>11. CASE S!Now(p).op = "save"
  <2>1. /\ dirty' = [dirty EXCEPT ![p][s] = IF broken THEN @ ELSE {}]
        /\ UNCHANGED <<held, failed, merged>>
    BY <1>1, <1>11 DEF S!Returned
  <2>2. dirty' \in [Processes -> [S!Scopes -> SUBSET S!Keys]]
    <3>1. /\ dirty[p] \in [S!Scopes -> SUBSET S!Keys]
          /\ (IF broken THEN dirty[p][s] ELSE {}) \in SUBSET S!Keys
      BY <1>2 DEF SettingsInv, SettingsTyped
    <3>2. [dirty[p] EXCEPT ![s] = IF broken THEN dirty[p][s] ELSE {}] \in [S!Scopes -> SUBSET S!Keys]
      BY <3>1, UpdatedTyped
    <3> QED BY <2>1, <3>2 DEF SettingsInv, SettingsTyped
  <2>3. SettingsTyped'
    BY <1>1, <1>4, <2>1, <2>2 DEF SettingsInv, SettingsTyped
  <2>4. /\ dirty'[p][s] = IF broken THEN dirty[p][s] ELSE {}
        /\ \A r \in S!Scopes \ {s} : dirty'[p][r] = dirty[p][r]
        /\ \A q \in Processes \ {p} : OtherKept(q)
    BY <1>1, <1>2, <1>4, <2>1 DEF SettingsInv, SettingsTyped, OtherKept
  <2>5. MergedNow(p)'
    BY <1>5, <2>1 DEF ProcessSound, MergedNow
  <2>6. DistrustEmpties(p)'
    BY <1>1, <1>4, <1>5, <1>10, <2>1, <2>4 DEF ProcessSound, DistrustEmpties, S!Scopes
  <2>7. MarkedAreSet(p)'
    BY <1>5, <1>7, <2>1, <2>4 DEF ProcessSound, MarkedAreSet
  <2>8. UnsavedMarked(p)'
    <3> SUFFICES ASSUME NEW r \in S!Scopes, NEW k \in S!Keys, r \notin failed[p], ~Loads(p, r)',
                        ~Known(held[p][r][k])
                 PROVE  k \in dirty'[p][r]
      BY <1>1, <2>1 DEF UnsavedMarked, Known
    <3>1. k \in dirty[p][r]
      BY <1>5, <1>8, <1>11 DEF ProcessSound, UnsavedMarked
    <3>2. r = s => broken
      BY <1>1, <1>5, <1>11, <3>1 DEF ProcessSound, SavedKnown
    <3> QED BY <2>4, <3>1, <3>2
  <2> QED BY <1>1, <1>4, <1>6, <2>3, <2>4, <2>5, <2>6, <2>7, <2>8, SettingsOutside DEF ProcessSound
<1>12. CASE S!Now(p).op # "save"
  <2> DEFINE loaded == IF ~broken THEN S!Parsed(inEffect[p])
                       ELSE IF S!Now(p).op = "reload" THEN held[p][s] ELSE S!Empty
             all == [held[p] EXCEPT ![s] = loaded]
  <2>1. /\ held' = [held EXCEPT ![p] = all]
        /\ failed' = [failed EXCEPT ![p] = IF broken THEN @ \cup {s} ELSE @ \ {s}]
        /\ merged' = [merged EXCEPT ![p] = S!Merge(all["global"], all["project"])]
        /\ dirty' = dirty
    BY <1>1, <1>12 DEF S!Returned
  <2>2. /\ loaded \in S!Doc
        /\ ~broken => KnownDoc(loaded)
    <3>1. inEffect[p] \in Content /\ held[p][s] \in S!Doc
      BY <1>2 DEF SettingsInv, SettingsTyped
    <3>2. inEffect[p] \in S!Doc => KnownDoc(inEffect[p])
      BY DEF SettingsInv, ValuesKnown
    <3>3. CASE broken
      BY <3>1, <3>3, EmptyDoc
    <3>4. CASE ~broken
      BY <3>1, <3>2, <3>4, ParsedDoc
    <3> QED BY <3>3, <3>4
  <2> HIDE DEF loaded
  <2>3. /\ all \in [S!Scopes -> S!Doc] /\ all[s] = loaded
        /\ \A r \in S!Scopes \ {s} : all[r] = held[p][r]
        /\ "global" \in S!Scopes /\ "project" \in S!Scopes
    BY <1>2, <2>2 DEF SettingsInv, SettingsTyped, S!Scopes
  <2> HIDE DEF all
  <2>4. SettingsTyped'
    <3>1. S!Merge(all["global"], all["project"]) \in S!Doc
      BY <2>3, MergeDoc
    <3>2. failed' \in [Processes -> SUBSET S!Scopes]
      BY <1>2, <2>1 DEF SettingsInv, SettingsTyped
    <3> QED BY <1>1, <1>4, <2>1, <2>3, <3>1, <3>2 DEF SettingsInv, SettingsTyped
  <2>5. /\ held'[p] = all /\ merged'[p] = S!Merge(all["global"], all["project"])
        /\ failed'[p] = IF broken THEN failed[p] \cup {s} ELSE failed[p] \ {s}
        /\ \A q \in Processes \ {p} : OtherKept(q)
    BY <1>1, <1>4, <2>1 DEF SettingsInv, SettingsTyped, OtherKept
  <2>6. MergedNow(p)'
    BY <2>5 DEF MergedNow, S!Merge
  <2>7. Loads(p, s) /\ dirty[p][s] = {}
    <3>1. 1 \in DOMAIN todo[p]
      BY <1>2
    <3>2. Loads(p, s)
      BY <1>2, <1>12, <3>1 DEF Loads
    <3> QED BY <1>2, <1>5, <3>2 DEF ProcessSound, MarkedAreSet
  <2>8. DistrustEmpties(p)'
    BY <1>1, <1>4, <1>5, <1>10, <2>1, <2>3, <2>5 DEF ProcessSound, DistrustEmpties
  <2>9. MarkedAreSet(p)'
    <3> SUFFICES ASSUME NEW r \in S!Scopes
                 PROVE  /\ \A k \in dirty[p][r] : all[r][k] # 0
                        /\ Loads(p, r)' => dirty[p][r] = {}
      BY <2>1, <2>5 DEF MarkedAreSet
    <3> QED BY <1>5, <1>7, <2>3, <2>7 DEF ProcessSound, MarkedAreSet
  <2>10. UnsavedMarked(p)'
    <3> SUFFICES ASSUME NEW r \in S!Scopes, NEW k \in S!Keys, r \notin failed'[p], ~Loads(p, r)',
                        ~Known(all[r][k])
                 PROVE  k \in dirty[p][r]
      BY <1>1, <2>1, <2>5 DEF UnsavedMarked, Known
    <3>1. r # s
      BY <2>2, <2>3, <2>5 DEF KnownDoc, AllKeys
    <3> QED BY <1>5, <1>8, <2>3, <2>5, <3>1 DEF ProcessSound, UnsavedMarked
  <2> QED BY <1>1, <1>4, <1>6, <2>4, <2>5, <2>6, <2>8, <2>9, <2>10, SettingsOutside DEF ProcessSound
<1> QED BY <1>11, <1>12

(* A step of a process inside one scope: the others have nobody in or out, *)
(* and their files stay.                                                   *)
LEMMA ElsewhereSound ==
  ASSUME SettingsInv, NEW p \in Processes, NEW s \in S!Scopes, NEW r \in S!Scopes, r # s,
         at[p] \in {"waiting", "entered", "truncated"}, S!Now(p).scope = s,
         todo'[p] = todo[p] \/ at'[p] = "closed",
         \A q \in Processes \ {p} : OtherKept(q),
         stored'[r] = stored[r], ideal'[r] = ideal[r], damaged \subseteq damaged'
  PROVE  ScopeSound(r)'
<1>1. ASSUME NEW q \in Processes
      PROVE  /\ S!Inside(q, r)' <=> S!Inside(q, r)
             /\ S!Inside(q, r) => at'[q] = at[q] /\ todo'[q] = todo[q] /\ inEffect'[q] = inEffect[q]
  <2>1. CASE q = p
    BY <2>1 DEF S!Inside, S!Now
  <2>2. CASE q # p
    BY <2>2 DEF OtherKept, S!Inside, S!Now
  <2> QED BY <2>1, <2>2
<1> QED BY <1>1, ScopeKept DEF SettingsInv

LEMMA OtherInside ==
  ASSUME NEW q, OtherKept(q), NEW s
  PROVE  S!Inside(q, s)' <=> S!Inside(q, s)
BY DEF OtherKept, S!Inside, S!Now

LEMMA SettingsEnter ==
  ASSUME SettingsInv, NEW p \in Processes, S!Enter(p)
  PROVE  SettingsInv'
<1> PICK s \in S!Scopes : s = S!Now(p).scope
  BY NowPlaced DEF S!Enter
<1> DEFINE got == IF existed[p] THEN stored[s] ELSE S!NoFile
           late == S!Now(p).op = "save" /\ ~existed[p] /\ stored[s] # S!NoFile
<1>1. /\ at[p] = "waiting" /\ at' = [at EXCEPT ![p] = "entered"]
      /\ lockFile' = [lockFile EXCEPT ![s] = p] /\ inEffect' = [inEffect EXCEPT ![p] = got]
      /\ damaged' = IF late \/ \E q \in Processes : S!Inside(q, s) THEN damaged \cup {s} ELSE damaged
      /\ UNCHANGED <<stored, todo, held, dirty, failed, merged, trusted, calls, ideal, written>>
  BY DEF S!Enter, S!memory
<1>2. todo[p] # <<>> /\ s \in S!Scopes
  BY <1>1, NowPlaced
<1>3. got \in Content /\ (got \in S!Doc => got = stored[s])
  BY <1>2, ContentsDiffer DEF SettingsInv, SettingsTyped, Content
<1>4. SettingsTyped'
  BY <1>1, <1>2, <1>3 DEF SettingsInv, SettingsTyped
<1>5. /\ at'[p] = "entered" /\ inEffect'[p] = got /\ \A q \in Processes \ {p} : OtherKept(q)
  BY <1>1 DEF SettingsInv, SettingsTyped, OtherKept
<1>6. ASSUME NEW q \in Processes PROVE ProcessSound(q)'
  <2>1. CASE q # p
    BY <1>1, <1>5, <2>1, OtherSound DEF SettingsInv
  <2>2. CASE q = p
    <3>1. ProcessSound(p)
      BY DEF SettingsInv
    <3> QED BY <1>1, <1>2, <1>5, <2>2, <3>1 DEF ProcessSound, CallPlaced, MergedNow, DistrustEmpties,
              MarkedAreSet, SavedKnown, UnsavedMarked, Loads, Known
  <2> QED BY <2>1, <2>2
<1>7. ASSUME NEW r \in S!Scopes PROVE ScopeSound(r)'
  <2>1. CASE r # s
    BY <1>1, <1>2, <1>5, <2>1, ElsewhereSound
  <2>2. CASE r = s
    <3> SUFFICES ASSUME s \notin damaged' PROVE (OneInside(s) /\ InHand(s) /\ StoredIdeal(s))'
      BY <2>2, <1>1 DEF ScopeSound
    <3>1. ~late /\ s \notin damaged /\ \A q \in Processes : ~S!Inside(q, s)
      BY <1>1
    <3>2. \A q \in Processes \ {p} : ~S!Inside(q, s)'
      BY <1>5, <3>1, OtherInside
    <3>3. S!Now(p)' = S!Now(p)
      BY <1>1 DEF S!Now
    <3>4. OneInside(s)'
      BY <3>2 DEF OneInside
    <3>5. InHand(s)'
      <4> SUFFICES ASSUME S!Now(p).op = "save" PROVE got = stored[s]
        BY <1>1, <1>5, <3>2, <3>3 DEF InHand
      <4> QED BY <3>1
    <3>6. StoredIdeal(s)'
      BY <1>1, <1>2, <3>1 DEF SettingsInv, ScopeSound, StoredIdeal, S!Parsed, S!Migrated
    <3> QED BY <3>4, <3>5, <3>6
  <2> QED BY <2>1, <2>2
<1>8. ValuesKnown'
  <2>1. \A d \in S!Doc : KnownDoc(d) <=> KnownDoc(d)'
    BY <1>1 DEF KnownDoc, Known
  <2> QED BY <1>1, <1>2, <1>3, <1>5, <2>1 DEF SettingsInv, ValuesKnown, OtherKept, KnownDoc, Known
<1> QED BY <1>4, <1>6, <1>7, <1>8 DEF SettingsInv

LEMMA SettingsTruncate ==
  ASSUME SettingsInv, NEW p \in Processes, S!Truncate(p)
  PROVE  SettingsInv'
<1> PICK s \in S!Scopes : s = S!Now(p).scope
  BY NowPlaced DEF S!Truncate
<1>1. /\ at[p] = "entered" /\ S!Now(p).op = "save" /\ inEffect[p] # S!Torn
      /\ stored' = [stored EXCEPT ![s] = S!Blank] /\ at' = [at EXCEPT ![p] = "truncated"]
      /\ UNCHANGED <<lockFile, todo, inEffect, held, dirty, failed, merged, trusted, calls,
                     ideal, written, damaged>>
  BY DEF S!Truncate, S!memory
<1>2. todo[p] # <<>> /\ s \in S!Scopes /\ S!Inside(p, s)
  BY <1>1, NowPlaced DEF S!Inside
<1>3. SettingsTyped'
  BY <1>1, <1>2 DEF SettingsInv, SettingsTyped, Content
<1>4. /\ at'[p] = "truncated" /\ stored'[s] = S!Blank /\ \A r \in S!Scopes \ {s} : stored'[r] = stored[r]
      /\ \A q \in Processes \ {p} : OtherKept(q)
  BY <1>1, <1>2 DEF SettingsInv, SettingsTyped, OtherKept
<1>5. ASSUME NEW q \in Processes PROVE ProcessSound(q)'
  <2>1. CASE q # p
    BY <1>1, <1>4, <2>1, OtherSound DEF SettingsInv
  <2>2. CASE q = p
    <3>1. ProcessSound(p)
      BY DEF SettingsInv
    <3> QED BY <1>1, <1>2, <1>4, <2>2, <3>1 DEF ProcessSound, CallPlaced, MergedNow, DistrustEmpties,
              MarkedAreSet, SavedKnown, UnsavedMarked, Loads, Known, S!Now
  <2> QED BY <2>1, <2>2
<1>6. ASSUME NEW r \in S!Scopes PROVE ScopeSound(r)'
  <2>1. CASE r # s
    BY <1>1, <1>2, <1>4, <2>1, ElsewhereSound
  <2>2. CASE r = s
    <3> SUFFICES ASSUME s \notin damaged PROVE (OneInside(s) /\ InHand(s) /\ StoredIdeal(s))'
      BY <2>2, <1>1 DEF ScopeSound
    <3>1. OneInside(s) /\ InHand(s) /\ StoredIdeal(s)
      BY <1>2 DEF SettingsInv, ScopeSound
    <3>2. \A q \in Processes \ {p} : ~S!Inside(q, s) /\ ~S!Inside(q, s)'
      <4>1. \A q \in Processes \ {p} : S!Inside(q, s)' <=> S!Inside(q, s)
        BY <1>4, OtherInside
      <4> QED BY <1>2, <3>1, <4>1 DEF OneInside
    <3>3. stored[s] \notin {S!Blank, S!Torn}
      BY <1>1, <3>1, <3>2 DEF StoredIdeal
    <3>4. S!Parsed(inEffect[p]) = ideal[s]
      BY <1>1, <1>2, <3>1, <3>3 DEF InHand, StoredIdeal
    <3>5. S!Now(p)' = S!Now(p) /\ S!Inside(p, s)' /\ S!Parsed(inEffect[p])' = S!Parsed(inEffect[p])
      BY <1>1, <1>4 DEF S!Now, S!Inside, S!Parsed, S!Migrated
    <3>6. OneInside(s)'
      BY <3>2 DEF OneInside
    <3>7. InHand(s)'
      BY <1>1, <1>4, <3>2, <3>4, <3>5 DEF InHand
    <3>8. StoredIdeal(s)'
      BY <1>4, <3>5 DEF StoredIdeal
    <3> QED BY <3>6, <3>7, <3>8
  <2> QED BY <2>1, <2>2
<1>7. ValuesKnown'
  <2>1. \A d \in S!Doc : KnownDoc(d) <=> KnownDoc(d)'
    BY <1>1 DEF KnownDoc, Known
  <2> QED BY <1>1, <1>4, <2>1, ContentsDiffer DEF SettingsInv, ValuesKnown, KnownDoc, Known
<1> QED BY <1>3, <1>5, <1>6, <1>7 DEF SettingsInv

LEMMA SettingsRelease ==
  ASSUME SettingsInv, NEW p \in Processes, S!Release(p)
  PROVE  SettingsInv'
<1> PICK s \in S!Scopes : s = S!Now(p).scope
  BY NowPlaced DEF S!Release
<1>1. /\ at[p] = "entered" /\ (S!Now(p).op = "save" => inEffect[p] = S!Torn)
      /\ lockFile' = [lockFile EXCEPT ![s] = IF @ = p THEN "free" ELSE @]
      /\ at' = [at EXCEPT ![p] = "released"]
      /\ UNCHANGED <<stored, todo, inEffect, held, dirty, failed, merged, trusted, calls,
                     ideal, written, damaged>>
  BY DEF S!Release, S!Unlocked, S!memory
<1>2. todo[p] # <<>>
  BY <1>1, NowPlaced
<1>3. SettingsTyped'
  <2>1. lockFile' \in [S!Scopes -> Processes \cup {"none", "free"}]
    BY <1>1 DEF SettingsInv, SettingsTyped
  <2> QED BY <1>1, <2>1 DEF SettingsInv, SettingsTyped
<1>4. at'[p] = "released" /\ \A q \in Processes \ {p} : OtherKept(q)
  BY <1>1 DEF SettingsInv, SettingsTyped, OtherKept
<1>5. ASSUME NEW q \in Processes PROVE ProcessSound(q)'
  <2>1. CASE q # p
    BY <1>1, <1>4, <2>1, OtherSound DEF SettingsInv
  <2>2. CASE q = p
    <3>1. ProcessSound(p)
      BY DEF SettingsInv
    <3> QED BY <1>1, <1>2, <1>4, <2>2, <3>1 DEF ProcessSound, CallPlaced, MergedNow, DistrustEmpties,
              MarkedAreSet, SavedKnown, UnsavedMarked, Loads, Known, S!Now
  <2> QED BY <2>1, <2>2
<1>6. ASSUME NEW r \in S!Scopes PROVE ScopeSound(r)'
  <2>1. CASE r # s
    BY <1>1, <1>4, <2>1, ElsewhereSound
  <2>2. CASE r = s
    <3> SUFFICES ASSUME s \notin damaged PROVE (OneInside(s) /\ InHand(s) /\ StoredIdeal(s))'
      BY <2>2, <1>1 DEF ScopeSound
    <3>1. OneInside(s) /\ InHand(s) /\ StoredIdeal(s)
      BY DEF SettingsInv, ScopeSound
    <3>2. \A q \in Processes \ {p} : S!Inside(q, s)' <=> S!Inside(q, s)
      BY <1>4, OtherInside
    <3>3. ~S!Inside(p, s)'
      BY <1>4 DEF S!Inside
    <3>4. OneInside(s)'
      BY <3>1, <3>2, <3>3 DEF OneInside
    <3>5. InHand(s)'
      BY <1>1, <1>4, <3>1, <3>2, <3>3 DEF InHand, OtherKept, S!Now, S!Parsed, S!Migrated
    <3>6. StoredIdeal(s)'
      BY <1>1, <1>4, <3>1, <3>2 DEF StoredIdeal, OtherKept, S!Parsed, S!Migrated
    <3> QED BY <3>4, <3>5, <3>6
  <2> QED BY <2>1, <2>2
<1>7. ValuesKnown'
  BY <1>1 DEF SettingsInv, ValuesKnown, KnownDoc, Known
<1> QED BY <1>3, <1>5, <1>6, <1>7 DEF SettingsInv

LEMMA SettingsWrite ==
  ASSUME SettingsInv, NEW p \in Processes, S!Write(p)
  PROVE  SettingsInv'
<1> PICK s \in S!Scopes : s = S!Now(p).scope
  BY NowPlaced DEF S!Write
<1> DEFINE base == S!Parsed(inEffect[p])
           new == S!Persisted(base, held[p][s], dirty[p][s])
           should == [k \in DOMAIN S!Empty |-> IF k \in dirty[p][s] THEN held[p][s][k] ELSE ideal[s][k]]
           values == {held[p][s][k] : k \in dirty[p][s]}
<1>1. /\ at[p] = "truncated" /\ stored' = [stored EXCEPT ![s] = new]
      /\ ideal' = [ideal EXCEPT ![s] = should] /\ written' = written \cup values
      /\ lockFile' = [lockFile EXCEPT ![s] = IF @ = p THEN "free" ELSE @]
      /\ at' = [at EXCEPT ![p] = "released"]
      /\ UNCHANGED <<todo, inEffect, held, dirty, failed, merged, trusted, calls, damaged>>
  BY DEF S!Write, S!Unlocked, S!memory
<1>2. todo[p] # <<>> /\ inEffect[p] # S!Torn /\ S!Now(p).op = "save"
  BY <1>1, NowPlaced DEF SettingsInv, ProcessSound, CallPlaced
<1>3. /\ inEffect[p] \in Content /\ held[p][s] \in S!Doc /\ dirty[p][s] \subseteq S!Keys /\ ideal[s] \in S!Doc
      /\ \A k \in dirty[p][s] : held[p][s][k] # 0
  BY DEF SettingsInv, SettingsTyped, ProcessSound, MarkedAreSet
<1>4. /\ base \in S!Doc /\ Clean(base) /\ KnownDoc(base)
  BY <1>2, <1>3, ParsedDoc DEF SettingsInv, ValuesKnown
<1> HIDE DEF base
<1>5. /\ new \in S!Doc
      /\ \A k \in AllKeys : new[k] = IF k \in dirty[p][s] THEN held[p][s][k] ELSE base[k]
  BY <1>3, <1>4 DEF S!Persisted, S!Doc, AllKeys
<1> HIDE DEF new
<1>6. /\ should \in S!Doc
      /\ \A k \in AllKeys : should[k] = IF k \in dirty[p][s] THEN held[p][s][k] ELSE ideal[s][k]
  BY <1>3 DEF S!Empty, S!Doc, AllKeys
<1> HIDE DEF should
<1>7. SettingsTyped'
  <2>1. lockFile' \in [S!Scopes -> Processes \cup {"none", "free"}]
    BY <1>1 DEF SettingsInv, SettingsTyped
  <2>2. stored' \in [S!Scopes -> Content] /\ ideal' \in [S!Scopes -> S!Doc]
    BY <1>1, <1>5, <1>6 DEF SettingsInv, SettingsTyped, Content
  <2> QED BY <1>1, <2>1, <2>2 DEF SettingsInv, SettingsTyped
<1>8. /\ at'[p] = "released" /\ \A q \in Processes \ {p} : OtherKept(q)
      /\ stored'[s] = new /\ ideal'[s] = should
      /\ \A r \in S!Scopes \ {s} : stored'[r] = stored[r] /\ ideal'[r] = ideal[r]
  BY <1>1 DEF SettingsInv, SettingsTyped, OtherKept
<1>9. \A v : Known(v) => Known(v)'
  BY <1>1 DEF Known
<1>10. \A k \in dirty[p][s] : Known(held[p][s][k])'
  BY <1>1 DEF Known
<1>11. ASSUME NEW q \in Processes PROVE ProcessSound(q)'
  <2>1. CASE q # p
    BY <1>1, <1>8, <2>1, OtherSound DEF SettingsInv
  <2>2. CASE q = p
    <3>1. ProcessSound(p)
      BY DEF SettingsInv
    <3>2. \A r : Loads(p, r)' <=> Loads(p, r)
      BY <1>1 DEF Loads
    <3>3. CallPlaced(p)' /\ MergedNow(p)' /\ DistrustEmpties(p)'
      BY <1>1, <1>2, <1>8, <3>1 DEF ProcessSound, CallPlaced, MergedNow, DistrustEmpties
    <3>4. MarkedAreSet(p)' /\ UnsavedMarked(p)'
      BY <1>1, <1>9, <3>1, <3>2 DEF ProcessSound, MarkedAreSet, UnsavedMarked
    <3>5. SavedKnown(p)'
      <4>1. S!Now(p)' = S!Now(p)
        BY <1>1 DEF S!Now
      <4> QED BY <1>1, <1>10, <4>1 DEF SavedKnown
    <3> QED BY <2>2, <3>3, <3>4, <3>5 DEF ProcessSound
  <2> QED BY <2>1, <2>2
<1>12. ASSUME NEW r \in S!Scopes PROVE ScopeSound(r)'
  <2>1. CASE r # s
    BY <1>1, <1>8, <2>1, ElsewhereSound
  <2>2. CASE r = s
    <3> SUFFICES ASSUME s \notin damaged PROVE (OneInside(s) /\ InHand(s) /\ StoredIdeal(s))'
      BY <2>2, <1>1 DEF ScopeSound
    <3>1. OneInside(s) /\ S!Inside(p, s) /\ base = ideal[s]
      BY <1>1, <1>2 DEF SettingsInv, ScopeSound, InHand, S!Inside, base
    <3>2. \A q \in Processes : ~S!Inside(q, s)'
      <4>1. ~S!Inside(p, s)'
        BY <1>8 DEF S!Inside
      <4>2. \A q \in Processes \ {p} : S!Inside(q, s)' <=> S!Inside(q, s)
        BY <1>8, OtherInside
      <4> QED BY <3>1, <4>1, <4>2 DEF OneInside
    <3>3. new = should
      BY <1>5, <1>6, <3>1, DocsEqual
    <3>4. Clean(new)
      <4>1. "old" \in AllKeys /\ "provider" \in AllKeys /\ "old" \notin S!Keys
        BY DEF AllKeys, S!Keys
      <4>2. new["old"] = base["old"]
        BY <1>3, <1>5, <4>1
      <4>3. new["provider"] = 0 => base["provider"] = 0
        BY <1>3, <1>5, <4>1
      <4> QED BY <1>4, <4>2, <4>3 DEF Clean
    <3>5. S!Parsed(new) = new
      BY <1>5, <3>4, ParsedDoc, ContentsDiffer DEF Content
    <3>6. StoredIdeal(s)'
      <4>1. S!Parsed(stored[s])' = S!Parsed(new)
        BY <1>8 DEF S!Parsed, S!Migrated
      <4> QED BY <1>5, <1>8, <3>3, <3>5, <4>1, ContentsDiffer DEF StoredIdeal
    <3> QED BY <3>2, <3>6 DEF OneInside, InHand
  <2> QED BY <2>1, <2>2
<1>13. ValuesKnown'
  <2>1. \A k \in AllKeys : new[k] \in written' \cup {0}
    <3> SUFFICES ASSUME NEW k \in AllKeys PROVE new[k] \in written' \cup {0}
      OBVIOUS
    <3>1. CASE k \in dirty[p][s]
      BY <1>1, <1>5, <3>1
    <3>2. CASE k \notin dirty[p][s]
      BY <1>1, <1>4, <1>5, <3>2 DEF KnownDoc, Known
    <3> QED BY <3>1, <3>2
  <2>2. \A r \in S!Scopes : stored'[r] \in S!Doc => \A k \in AllKeys : stored'[r][k] \in written' \cup {0}
    BY <1>1, <1>8, <2>1 DEF SettingsInv, ValuesKnown, KnownDoc, Known
  <2>3. \A q \in Processes : inEffect'[q] \in S!Doc => \A k \in AllKeys : inEffect'[q][k] \in written' \cup {0}
    BY <1>1 DEF SettingsInv, ValuesKnown, KnownDoc, Known
  <2> QED BY <2>2, <2>3 DEF ValuesKnown, KnownDoc, Known
<1> QED BY <1>7, <1>11, <1>12, <1>13 DEF SettingsInv

LEMMA SettingsCrash ==
  ASSUME SettingsInv, NEW p \in Processes, NEW content \in {S!Blank, S!Torn}, S!Crash(p, content)
  PROVE  SettingsInv'
<1> DEFINE cut == at[p] = "truncated"
           nothing == [t \in S!Scopes |-> S!Empty]
           none == [t \in S!Scopes |-> {}]
<1>1. /\ at[p] # "closed" /\ at' = [at EXCEPT ![p] = "closed"] /\ todo' = [todo EXCEPT ![p] = <<>>]
      /\ stored' = IF cut THEN [stored EXCEPT ![S!Now(p).scope] = content] ELSE stored
      /\ damaged' = IF cut THEN damaged \cup {S!Now(p).scope} ELSE damaged
      /\ lockFile' = [t \in S!Scopes |-> IF lockFile[t] = p THEN "free" ELSE lockFile[t]]
      /\ inEffect' = [inEffect EXCEPT ![p] = S!NoFile]
      /\ held' = [held EXCEPT ![p] = nothing] /\ dirty' = [dirty EXCEPT ![p] = none]
      /\ failed' = [failed EXCEPT ![p] = {}] /\ merged' = [merged EXCEPT ![p] = S!Empty]
      /\ trusted' = [trusted EXCEPT ![p] = TRUE]
      /\ UNCHANGED <<calls, ideal, written>>
  BY DEF S!Crash
<1>2. cut => S!Now(p).scope \in S!Scopes
  BY NowPlaced
<1>3. SettingsTyped'
  <2>1. content \in Content /\ S!NoFile \in Content /\ <<>> \in Seq(WithLock)
        /\ nothing \in [S!Scopes -> S!Doc] /\ none \in [S!Scopes -> SUBSET S!Keys]
    BY EmptyDoc DEF Content
  <2>2. stored' \in [S!Scopes -> Content] /\ damaged' \subseteq S!Scopes
    BY <1>1, <1>2, <2>1 DEF SettingsInv, SettingsTyped
  <2>3. lockFile' \in [S!Scopes -> Processes \cup {"none", "free"}]
    BY <1>1 DEF SettingsInv, SettingsTyped
  <2>4. held' \in [Processes -> [S!Scopes -> S!Doc]] /\ dirty' \in [Processes -> [S!Scopes -> SUBSET S!Keys]]
    <3> HIDE DEF nothing, none
    <3> QED BY <1>1, <2>1 DEF SettingsInv, SettingsTyped
  <2>5. trusted' \in [Processes -> BOOLEAN] /\ failed' \in [Processes -> SUBSET S!Scopes]
    BY <1>1, UpdatedTyped DEF SettingsInv, SettingsTyped
  <2> QED BY <1>1, <2>1, <2>2, <2>3, <2>4, <2>5, EmptyDoc DEF SettingsInv, SettingsTyped
<1>4. /\ at'[p] = "closed" /\ todo'[p] = <<>> /\ inEffect'[p] = S!NoFile /\ trusted'[p] = TRUE
      /\ merged'[p] = S!Empty
      /\ \A r \in S!Scopes : held'[p][r] = S!Empty /\ dirty'[p][r] = {}
      /\ \A q \in Processes \ {p} : OtherKept(q)
  BY <1>1 DEF SettingsInv, SettingsTyped, OtherKept
<1>5. ASSUME NEW q \in Processes PROVE ProcessSound(q)'
  <2>1. CASE q # p
    BY <1>1, <1>4, <2>1, OtherSound DEF SettingsInv
  <2>2. CASE q = p
    <3>1. CallPlaced(p)' /\ DistrustEmpties(p)' /\ SavedKnown(p)'
      BY <1>4 DEF CallPlaced, DistrustEmpties, SavedKnown, S!Empty
    <3>2. MergedNow(p)'
      <4>1. "global" \in S!Scopes /\ "project" \in S!Scopes
        BY DEF S!Scopes
      <4>2. merged'[p] = S!Merge(held'[p]["global"], held'[p]["project"])
        BY <1>4, <4>1, EmptyDoc, MergeEmpty
      <4> QED BY <4>2 DEF MergedNow, S!Merge
    <3>3. MarkedAreSet(p)'
      BY <1>4 DEF MarkedAreSet
    <3>4. UnsavedMarked(p)'
      BY <1>4, EmptyDoc DEF UnsavedMarked, Known, AllKeys
    <3> QED BY <2>2, <3>1, <3>2, <3>3, <3>4 DEF ProcessSound
  <2> QED BY <2>1, <2>2
<1>6. ASSUME NEW r \in S!Scopes PROVE ScopeSound(r)'
  <2> SUFFICES ASSUME r \notin damaged' PROVE (OneInside(r) /\ InHand(r) /\ StoredIdeal(r))'
    BY DEF ScopeSound
  <2>1. r \notin damaged /\ stored'[r] = stored[r] /\ ideal'[r] = ideal[r]
        /\ (cut => ~S!Inside(p, r))
    BY <1>1 DEF S!Inside, SettingsInv, SettingsTyped
  <2>2. OneInside(r) /\ InHand(r) /\ StoredIdeal(r)
    BY <2>1 DEF SettingsInv, ScopeSound
  <2>3. \A q \in Processes \ {p} : S!Inside(q, r)' <=> S!Inside(q, r)
    BY <1>4, OtherInside
  <2>4. ~S!Inside(p, r)'
    BY <1>4 DEF S!Inside
  <2>5. OneInside(r)'
    BY <2>2, <2>3, <2>4 DEF OneInside
  <2>6. InHand(r)'
    BY <1>4, <2>1, <2>2, <2>3, <2>4 DEF InHand, OtherKept, S!Now, S!Parsed, S!Migrated
  <2>7. StoredIdeal(r)'
    BY <1>4, <2>1, <2>2, <2>3 DEF StoredIdeal, OtherKept, S!Parsed, S!Migrated
  <2> QED BY <2>5, <2>6, <2>7
<1>7. ValuesKnown'
  <2>1. \A d : KnownDoc(d) <=> KnownDoc(d)'
    BY <1>1 DEF KnownDoc, Known
  <2>2. \A r \in S!Scopes : stored'[r] \in S!Doc => stored'[r] = stored[r]
    BY <1>1, <1>2, ContentsDiffer DEF SettingsInv, SettingsTyped
  <2> QED BY <1>1, <1>4, <2>1, <2>2, ContentsDiffer DEF SettingsInv, ValuesKnown, OtherKept, KnownDoc, Known
<1> QED BY <1>3, <1>5, <1>6, <1>7 DEF SettingsInv

LEMMA SettingsNext ==
  ASSUME SettingsInv, S!Next
  PROVE  SettingsInv'
<1>1. PICK p \in Processes :
        \/ S!CheckExists(p) \/ S!Enter(p) \/ S!TimeOut(p) \/ S!Truncate(p) \/ S!Release(p) \/ S!Write(p)
        \/ S!Unlink(p) \/ \E trust \in BOOLEAN : S!Open(p, trust)
        \/ S!Reload(p) \/ S!SetProjectTrusted(p)
        \/ S!SetPlain(p) \/ S!SetModelAndProvider(p) \/ S!SetProject(p)
        \/ \E k \in {"x", "y"} : S!SetNested(p, k)
        \/ \E content \in {S!Blank, S!Torn} : S!Crash(p, content)
  BY DEF S!Next
<1>2. ASSUME S!SetPlain(p) \/ S!SetModelAndProvider(p) \/ \E k \in {"x", "y"} : S!SetNested(p, k)
      PROVE  SettingsInv'
  <2>1. PICK keys \in SUBSET S!Keys : S!Change(p, "global", keys)
    BY <1>2 DEF S!SetPlain, S!SetModelAndProvider, S!SetNested, S!Keys
  <2> QED BY <2>1, SettingsChange DEF S!Scopes
<1>3. ASSUME S!SetProject(p) PROVE SettingsInv'
  BY <1>3, SettingsChange DEF S!SetProject, S!Scopes, S!Keys
<1> QED BY <1>1, <1>2, <1>3, SettingsCheckExists, SettingsEnter, SettingsTimeOut, SettingsTruncate, SettingsRelease,
      SettingsWrite, SettingsUnlink, SettingsOpen, SettingsReload, SettingsSetProjectTrusted, SettingsCrash

LEMMA SettingsStutter ==
  ASSUME SettingsInv, UNCHANGED settingsVars
  PROVE  SettingsInv'
<1> USE DEF settingsVars
<1>1. SettingsTyped'
  BY DEF SettingsInv, SettingsTyped
<1>2. \A q \in Processes : ProcessSound(q)'
  BY OtherSound DEF SettingsInv, OtherKept
<1>3. \A s \in S!Scopes : ScopeSound(s)'
  <2>1. \A q \in Processes, s \in S!Scopes : S!Inside(q, s)' <=> S!Inside(q, s)
    BY DEF S!Inside, S!Now
  <2> QED BY <2>1, ScopeKept DEF SettingsInv
<1>4. ValuesKnown'
  BY DEF SettingsInv, ValuesKnown, KnownDoc, Known
<1> QED BY <1>1, <1>2, <1>3, <1>4 DEF SettingsInv

LEMMA SettingsGives ==
  ASSUME SettingsInv
  PROVE  S!TrustDecides /\ S!SavesMerge
<1>1. \A s \in S!Scopes : s = "global" \/ s = "project"
  BY DEF S!Scopes
<1>2. "global" \in S!Scopes /\ "project" \in S!Scopes /\ S!Keys \subseteq AllKeys
  BY DEF S!Scopes, AllKeys
<1>3. S!TypeOK
  BY DEF SettingsInv, SettingsTyped, S!TypeOK, Content, WithLock
<1>4. ASSUME NEW p \in Processes, NEW k \in S!Keys
      PROVE  S!Effective(p, k, 0) = IF trusted[p] /\ held[p]["project"][k] # 0
                                    THEN held[p]["project"][k] ELSE held[p]["global"][k]
  <2>1. merged[p] = S!Merge(held[p]["global"], held[p]["project"])
    BY DEF SettingsInv, ProcessSound, MergedNow
  <2>2. held[p]["global"] \in S!Doc /\ held[p]["project"] \in S!Doc
    BY <1>2 DEF SettingsInv, SettingsTyped
  <2>3. merged[p][k] = IF held[p]["project"][k] # 0 THEN held[p]["project"][k] ELSE held[p]["global"][k]
    BY <1>2, <2>1, <2>2, MergeDoc
  <2>4. ~trusted[p] => held[p]["project"][k] = 0
    BY <1>2, EmptyDoc DEF SettingsInv, ProcessSound, DistrustEmpties
  <2> QED BY <2>3, <2>4 DEF S!Effective
<1>5. S!TrustDecides
  BY <1>3, <1>4 DEF S!TrustDecides, SettingsInv, ProcessSound, DistrustEmpties
<1>6. ASSUME NEW s \in S!Scopes \ damaged, stored[s] \in S!Doc PROVE S!Migrated(stored[s]) = ideal[s]
  <2>1. S!Parsed(stored[s]) = ideal[s]
    BY <1>6, ContentsDiffer DEF SettingsInv, ScopeSound, StoredIdeal
  <2> QED BY <1>6, <2>1, ContentsDiffer, ParsedDoc DEF Content
<1>7. ASSUME NEW p \in Processes, NEW s \in S!Scopes, NEW k \in S!Keys, S!Ready(p), s \notin failed[p],
             held[p][s][k] \notin written \cup {0}
      PROVE  k \in dirty[p][s]
  <2>1. ~Loads(p, s)
    BY <1>7 DEF S!Ready, Loads
  <2> QED BY <1>7, <2>1 DEF SettingsInv, ProcessSound, UnsavedMarked, Known
<1>8. S!SavesMerge
  BY <1>6, <1>7 DEF S!SavesMerge
<1> QED BY <1>5, <1>8

(* What the two theorems below rest on: every process and every scope of   *)
(* the settings stay sound.                                                *)
LEMMA SettingsAlwaysInv == Spec => [](part = "settings" => SettingsInv)
<1> DEFINE Inv == part = "settings" => SettingsInv
<1>1. Init => Inv
  BY SettingsInit DEF Init, Started
<1>2. Inv /\ [Next]_vars => Inv'
  <2> SUFFICES ASSUME Inv, [Next]_vars, part' = "settings" PROVE SettingsInv'
    OBVIOUS
  <2>1. CASE UNCHANGED vars
    BY <2>1, SettingsStutter DEF vars
  <2>2. CASE Next
    BY <2>2, SettingsNext DEF Next, Alone
  <2> QED BY <2>1, <2>2
<1> QED BY <1>1, <1>2, PTL DEF Spec

(* SettingsManager: for any number of processes and calls, an untrusted    *)
(* project has no say in what is in effect, and a trusted one decides.     *)
THEOREM TrustAlwaysDecides == Spec => []TrustDecides
<1>1. (part = "settings" => SettingsInv) => TrustDecides
  BY SettingsGives DEF TrustDecides
<1> QED BY <1>1, SettingsAlwaysInv, PTL

(* _persist_scoped_settings: through lock timeouts, crashes and saves of   *)
(* other processes, a file whose lock was kept has what every save wrote,  *)
(* and a change that is not in a file is still marked to be saved.         *)
THEOREM SavesAlwaysMerge == Spec => []SavesMerge
<1>1. (part = "settings" => SettingsInv) => SavesMerge
  BY SettingsGives DEF SavesMerge
<1> QED BY <1>1, SettingsAlwaysInv, PTL

-----------------------------------------------------------------------------
(***************************************************************************)
(* SqliteSessions: what a transaction has pending is as dense as what is   *)
(* stored, but for the entry that is inserted and not yet counted; a number*)
(* that a call drew before its transaction is not beyond the next free one.*)
(***************************************************************************)

(* A session's row and its entries agree.                                  *)
DenseRow(r) == r.seqs = 0..(r.size - 1) /\ (~r.exists => r.size = 0)

SqliteTyped ==
  /\ db \in Q!Tables
  /\ pending \in [Connections -> Q!Tables]
  /\ tx \in [Connections -> {"none", "open", "reading", "writing"}]
  /\ stage \in [Connections -> {"idle", "numbered", "inserted", "appended", "created", "deleted"}]
  /\ target \in [Connections -> Sessions \cup {"none"}]
  /\ seq \in [Connections -> Nat]
  /\ acked \subseteq Sessions \X Nat

StoredDense == \A s \in Sessions : DenseRow(db[s])

(* A call in the middle of append_entry has its session, and one past its  *)
(* first statement that wrote has the transaction.                         *)
CallsPlaced ==
  \A c \in Connections :
    /\ stage[c] \in {"numbered", "inserted", "appended"} => target[c] \in Sessions
    /\ stage[c] \in {"inserted", "appended", "created", "deleted"} => tx[c] = "writing"

OneWriter == \A c, d \in Connections : tx[c] = "writing" /\ tx[d] = "writing" => c = d

(* Between the INSERT and the UPDATE, one entry more than the size counts. *)
HalfWay(c, s) == stage[c] = "inserted" /\ target[c] = s

PendingDense ==
  \A c \in Connections : tx[c] = "writing" =>
    \A s \in Sessions :
      IF HalfWay(c, s)
      THEN /\ pending[c][s].exists
           /\ pending[c][s].seqs = 0..pending[c][s].size
           /\ seq[c] = pending[c][s].size
      ELSE DenseRow(pending[c][s])

AppendedThere ==
  \A c \in Connections :
    stage[c] = "appended" /\ pending[c][target[c]].exists => seq[c] \in pending[c][target[c]].seqs

(* The number that a call has drawn is not beyond the next free one.       *)
NumberedLow ==
  \A c \in Connections :
    stage[c] = "numbered" /\ Q!View(c)[target[c]].exists => seq[c] <= Q!View(c)[target[c]].size

(* What is pending only adds entries to a stored session, and a session    *)
(* that is pending only was not there when another call drew its number.   *)
PendingGrows ==
  \A c \in Connections : tx[c] = "writing" =>
    \A s \in Sessions : pending[c][s].exists =>
      IF db[s].exists THEN db[s].size <= pending[c][s].size
      ELSE \A d \in Connections : d # c /\ stage[d] = "numbered" /\ target[d] = s => seq[d] = 0

(* The id of a session that was created is not given again.                *)
IdsTaken ==
  /\ \A s \in Sessions : db[s].exists => s \in reserved
  /\ \A c \in Connections : tx[c] = "writing" =>
       \A s \in Sessions : pending[c][s].exists => s \in reserved
  /\ \A c \in Connections : stage[c] = "numbered" /\ seq[c] > 0 => target[c] \in reserved

AckedStored == \A a \in acked : a[2] \in db[a[1]].seqs

SqliteInv ==
  /\ SqliteTyped /\ StoredDense /\ CallsPlaced /\ OneWriter /\ PendingDense
  /\ AppendedThere /\ NumberedLow /\ PendingGrows /\ IdsTaken /\ AckedStored

LEMMA ViewTyped ==
  ASSUME SqliteTyped, NEW c \in Connections
  PROVE  /\ Q!View(c) \in Q!Tables
         /\ tx[c] = "writing" => Q!View(c) = pending[c]
         /\ tx[c] # "writing" => Q!View(c) = db
BY DEF SqliteTyped, Q!View

LEMMA NextSeqIsSize ==
  ASSUME NEW c \in Connections, NEW s \in Sessions,
         NEW n \in Nat, Q!View(c)[s].seqs = 0..(n - 1)
  PROVE  Q!NextSeq(c, s) = n
<1>1. CASE n = 0
  BY <1>1 DEF Q!NextSeq
<1>2. CASE n # 0
  <2>1. Q!Max(0..(n - 1)) = n - 1
    BY <1>2 DEF Q!Max
  <2> QED BY <1>2, <2>1 DEF Q!NextSeq
<1> QED BY <1>1, <1>2

LEMMA SqliteInit == ASSUME Q!Init PROVE SqliteInv
<1> USE DEF Q!Init, Q!NoSession
<1>1. SqliteTyped BY DEF SqliteTyped, Q!Tables
<1>2. StoredDense
  <2>1. \A s \in Sessions : db[s] = [exists |-> FALSE, seqs |-> {}, size |-> 0]
    OBVIOUS
  <2>2. {} = 0..(0 - 1)
    OBVIOUS
  <2> QED BY <2>1, <2>2 DEF StoredDense, DenseRow
<1> QED BY <1>1, <1>2 DEF SqliteInv, CallsPlaced, OneWriter, PendingDense, AppendedThere, NumberedLow,
        PendingGrows, IdsTaken, AckedStored, Q!View

(* A transaction that is begun shows what is stored.                       *)
LEMMA ViewDense ==
  ASSUME SqliteInv, NEW c \in Connections, stage[c] # "inserted", NEW s \in Sessions
  PROVE  /\ DenseRow(Q!View(c)[s])
         /\ Q!View(c)[s].exists => s \in reserved
         /\ Q!View(c)[s].exists /\ db[s].exists => db[s].size <= Q!View(c)[s].size
<1>1. CASE tx[c] = "writing"
  BY <1>1, ViewTyped DEF SqliteInv, PendingDense, HalfWay, IdsTaken, PendingGrows
<1>2. CASE tx[c] # "writing"
  <2>1. db[s].size \in Nat
    BY DEF SqliteInv, SqliteTyped, Q!Tables
  <2> QED BY <1>2, <2>1, ViewTyped DEF SqliteInv, StoredDense, IdsTaken
<1> QED BY <1>1, <1>2

(* A call that ends without a commit: blocked, failed or cut off.          *)
LEMMA Abandons ==
  ASSUME SqliteInv, NEW c \in Connections, NEW x \in {"none", "open", "reading", "writing"},
         NEW P \in Q!Tables,
         tx' = [tx EXCEPT ![c] = x], pending' = [pending EXCEPT ![c] = P], Q!Raises(c),
         x = "writing" => ~Q!OtherWrites(c) /\ stage[c] # "inserted" /\ P = Q!View(c),
         UNCHANGED <<db, acked>>, reserved \subseteq reserved'
  PROVE  SqliteInv'
<1>1. SqliteTyped'
  BY DEF SqliteInv, SqliteTyped, Q!Raises
<1>2. /\ \A d \in Connections \ {c} :
           /\ tx'[d] = tx[d] /\ pending'[d] = pending[d] /\ stage'[d] = stage[d]
           /\ target'[d] = target[d] /\ seq'[d] = seq[d] /\ Q!View(d)' = Q!View(d)
      /\ tx'[c] = x /\ pending'[c] = P /\ stage'[c] = "idle" /\ seq'[c] = 0
  BY DEF SqliteInv, SqliteTyped, Q!Raises, Q!View
<1>3. StoredDense' /\ AckedStored'
  BY DEF SqliteInv, StoredDense, AckedStored
<1>4. CallsPlaced'
  BY <1>2 DEF SqliteInv, CallsPlaced
<1>5. OneWriter'
  BY <1>2 DEF SqliteInv, OneWriter, Q!OtherWrites
<1>6. PendingDense'
  <2> SUFFICES ASSUME NEW d \in Connections, tx'[d] = "writing", NEW s \in Sessions
               PROVE  IF HalfWay(d, s)'
                      THEN /\ pending'[d][s].exists
                           /\ pending'[d][s].seqs = 0..pending'[d][s].size
                           /\ seq'[d] = pending'[d][s].size
                      ELSE DenseRow(pending'[d][s])
    BY DEF PendingDense, DenseRow
  <2>1. CASE d = c
    BY <1>2, <2>1, ViewDense DEF HalfWay
  <2>2. CASE d # c
    BY <1>2, <2>2 DEF SqliteInv, PendingDense, HalfWay
  <2> QED BY <2>1, <2>2
<1>7. AppendedThere'
  BY <1>2 DEF SqliteInv, AppendedThere
<1>8. NumberedLow'
  BY <1>2 DEF SqliteInv, NumberedLow
<1>9. PendingGrows'
  <2> SUFFICES ASSUME NEW d \in Connections, tx'[d] = "writing", NEW s \in Sessions, pending'[d][s].exists
               PROVE  IF db[s].exists THEN db[s].size <= pending'[d][s].size
                      ELSE \A e \in Connections : e # d /\ stage'[e] = "numbered" /\ target'[e] = s => seq'[e] = 0
    BY DEF PendingGrows
  <2>1. CASE d = c
    <3>1. CASE tx[c] = "writing"
      BY <1>2, <2>1, <3>1, ViewTyped DEF SqliteInv, PendingGrows
    <3>2. CASE tx[c] # "writing"
      BY <1>2, <2>1, <3>2, ViewTyped DEF SqliteInv, SqliteTyped, Q!Tables
    <3> QED BY <3>1, <3>2
  <2>2. CASE d # c
    BY <1>2, <2>2 DEF SqliteInv, PendingGrows
  <2> QED BY <2>1, <2>2
<1>10. IdsTaken'
  <2>1. \A s \in Sessions : db'[s].exists => s \in reserved'
    BY DEF SqliteInv, IdsTaken
  <2>2. ASSUME NEW d \in Connections, tx'[d] = "writing", NEW s \in Sessions, pending'[d][s].exists
        PROVE  s \in reserved'
    BY <1>2, <2>2, ViewDense DEF SqliteInv, IdsTaken
  <2>3. ASSUME NEW d \in Connections, stage'[d] = "numbered", seq'[d] > 0
        PROVE  target'[d] \in reserved'
    BY <1>2, <2>3 DEF SqliteInv, IdsTaken
  <2> QED BY <2>1, <2>2, <2>3 DEF IdsTaken
<1> QED BY <1>1, <1>3, <1>4, <1>5, <1>6, <1>7, <1>8, <1>9, <1>10 DEF SqliteInv

(* A statement that another writer keeps out, or that fails.               *)
LEMMA ExecuteRaises ==
  ASSUME SqliteInv, NEW c \in Connections, NEW ok \in BOOLEAN, NEW P, NEW then, Q!Execute(c, ok, P, then),
         Q!OtherWrites(c) \/ ~ok, ~Q!OtherWrites(c) => stage[c] # "inserted",
         UNCHANGED <<db, acked>>, reserved \subseteq reserved'
  PROVE  SqliteInv'
<1>1. CASE Q!OtherWrites(c)
  <2> DEFINE x == IF tx[c] = "none" THEN "open" ELSE tx[c]
  <2>1. tx[c] # "writing"
    BY <1>1 DEF SqliteInv, OneWriter, Q!OtherWrites
  <2>2. /\ x \in {"none", "open", "reading", "writing"} /\ x # "writing"
        /\ tx' = [tx EXCEPT ![c] = x] /\ Q!Raises(c)
    BY <1>1, <2>1 DEF Q!Execute, SqliteInv, SqliteTyped
  <2>3. pending[c] \in Q!Tables /\ pending' = [pending EXCEPT ![c] = pending[c]]
    BY <1>1 DEF Q!Execute, SqliteInv, SqliteTyped
  <2> HIDE DEF x
  <2> QED BY <2>2, <2>3, Abandons
<1>2. CASE ~Q!OtherWrites(c)
  <2>1. /\ tx' = [tx EXCEPT ![c] = "writing"] /\ Q!Raises(c)
        /\ pending' = [pending EXCEPT ![c] = Q!View(c)]
    BY <1>2 DEF Q!Execute
  <2>2. Q!View(c) \in Q!Tables
    BY ViewTyped DEF SqliteInv
  <2> QED BY <1>2, <2>1, <2>2, Abandons
<1> QED BY <1>1, <1>2

(* What a call sees once it has written.                                   *)
GoodTables(c, P, then) ==
  /\ P \in Q!Tables
  /\ \A s \in Sessions :
       /\ IF then = "inserted" /\ target[c] = s
          THEN P[s].exists /\ P[s].seqs = 0..P[s].size /\ seq[c] = P[s].size
          ELSE DenseRow(P[s])
       /\ P[s].exists => s \in reserved'
       /\ P[s].exists /\ db[s].exists => db[s].size <= P[s].size
       /\ P[s].exists /\ ~db[s].exists =>
            \A d \in Connections : d # c /\ stage[d] = "numbered" /\ target[d] = s => seq[d] = 0
  /\ then = "appended" /\ P[target[c]].exists => seq[c] \in P[target[c]].seqs

LEMMA Writes ==
  ASSUME SqliteInv, NEW c \in Connections, NEW P,
         NEW then \in {"inserted", "appended", "created", "deleted"},
         Q!Execute(c, TRUE, P, then), ~Q!OtherWrites(c),
         then \in {"inserted", "appended"} => target[c] \in Sessions,
         GoodTables(c, P, then), UNCHANGED <<db, acked>>, reserved \subseteq reserved'
  PROVE  SqliteInv'
<1>1. /\ tx' = [tx EXCEPT ![c] = "writing"] /\ pending' = [pending EXCEPT ![c] = P]
      /\ stage' = [stage EXCEPT ![c] = then] /\ UNCHANGED <<target, seq>>
  BY DEF Q!Execute
<1>2. SqliteTyped'
  BY <1>1 DEF SqliteInv, SqliteTyped, GoodTables
<1>3. /\ \A d \in Connections \ {c} :
           /\ tx'[d] = tx[d] /\ pending'[d] = pending[d] /\ stage'[d] = stage[d]
           /\ Q!View(d)' = Q!View(d) /\ tx[d] # "writing"
      /\ tx'[c] = "writing" /\ pending'[c] = P /\ stage'[c] = then
      /\ target' = target /\ seq' = seq /\ db' = db
  BY <1>1 DEF SqliteInv, SqliteTyped, Q!View, Q!OtherWrites
<1>4. StoredDense' /\ AckedStored'
  BY DEF SqliteInv, StoredDense, AckedStored
<1>5. CallsPlaced' /\ OneWriter'
  BY <1>3 DEF SqliteInv, CallsPlaced, OneWriter
<1>6. PendingDense'
  <2> SUFFICES ASSUME NEW s \in Sessions
               PROVE  IF HalfWay(c, s)'
                      THEN P[s].exists /\ P[s].seqs = 0..P[s].size /\ seq'[c] = P[s].size
                      ELSE DenseRow(P[s])
    BY <1>3 DEF PendingDense, HalfWay, DenseRow
  <2> QED BY <1>3 DEF GoodTables, HalfWay
<1>7. AppendedThere'
  BY <1>3 DEF SqliteInv, AppendedThere, GoodTables
<1>8. NumberedLow'
  BY <1>3 DEF SqliteInv, NumberedLow
<1>9. PendingGrows'
  <2> SUFFICES ASSUME NEW s \in Sessions, P[s].exists
               PROVE  IF db[s].exists THEN db[s].size <= P[s].size
                      ELSE \A d \in Connections : d # c /\ stage'[d] = "numbered" /\ target'[d] = s => seq'[d] = 0
    BY <1>3 DEF PendingGrows
  <2> QED BY <1>3 DEF GoodTables
<1>10. IdsTaken'
  <2>1. \A s \in Sessions : db'[s].exists => s \in reserved'
    BY DEF SqliteInv, IdsTaken
  <2>2. ASSUME NEW d \in Connections, tx'[d] = "writing", NEW s \in Sessions, pending'[d][s].exists
        PROVE  s \in reserved'
    BY <1>3, <2>2 DEF GoodTables
  <2>3. ASSUME NEW d \in Connections, stage'[d] = "numbered", seq'[d] > 0
        PROVE  target'[d] \in reserved'
    BY <1>3, <2>3 DEF SqliteInv, IdsTaken
  <2> QED BY <2>1, <2>2, <2>3 DEF IdsTaken
<1> QED BY <1>2, <1>4, <1>5, <1>6, <1>7, <1>8, <1>9, <1>10 DEF SqliteInv

(* Outside a call half-way, a new session's row and an empty one fit.      *)
LEMMA RowsFit ==
  ASSUME SqliteInv, NEW c \in Connections, Q!Idle(c), ~Q!OtherWrites(c), reserved \subseteq reserved',
         NEW s \in Sessions, NEW row \in {Q!NoSession, [Q!NoSession EXCEPT !.exists = TRUE]},
         row.exists => s \notin reserved /\ s \in reserved',
         NEW then \in {"created", "deleted"}
  PROVE  GoodTables(c, [Q!View(c) EXCEPT ![s] = row], then)
<1> DEFINE V == Q!View(c)
           P == [V EXCEPT ![s] = row]
<1>1. row \in [exists : BOOLEAN, seqs : SUBSET Nat, size : Nat] /\ row.seqs = {} /\ row.size = 0
  <2>1. {} \in SUBSET Nat
    OBVIOUS
  <2>2. CASE row = Q!NoSession
    BY <2>1, <2>2 DEF Q!NoSession
  <2>3. CASE row = [Q!NoSession EXCEPT !.exists = TRUE]
    BY <2>1, <2>3 DEF Q!NoSession
  <2> QED BY <2>2, <2>3
<1>2. V \in Q!Tables
  BY ViewTyped DEF SqliteInv
<1>3. P \in Q!Tables /\ P[s] = row /\ \A r \in Sessions \ {s} : P[r] = V[r]
  BY <1>1, <1>2 DEF Q!Tables
<1>4. DenseRow(row)
  <2>1. {} = 0..(0 - 1)
    OBVIOUS
  <2> QED BY <1>1, <2>1 DEF DenseRow
<1>5. \A r \in Sessions : V[r].exists /\ ~db[r].exists =>
        \A d \in Connections : d # c /\ stage[d] = "numbered" /\ target[d] = r => seq[d] = 0
  BY ViewTyped DEF SqliteInv, PendingGrows
<1>6. row.exists => \A d \in Connections : d # c /\ stage[d] = "numbered" /\ target[d] = s => seq[d] = 0
  BY DEF SqliteInv, IdsTaken, SqliteTyped
<1>7. row.exists => ~db[s].exists
  BY DEF SqliteInv, IdsTaken
<1> HIDE DEF P, V
<1>8. \A r \in Sessions :
         /\ DenseRow(V[r]) /\ (V[r].exists => r \in reserved)
         /\ V[r].exists /\ db[r].exists => db[r].size <= V[r].size
  BY ViewDense DEF Q!Idle, V
<1>9. GoodTables(c, P, then)
  <2> SUFFICES ASSUME NEW r \in Sessions
               PROVE  /\ DenseRow(P[r])
                      /\ P[r].exists => r \in reserved'
                      /\ P[r].exists /\ db[r].exists => db[r].size <= P[r].size
                      /\ P[r].exists /\ ~db[r].exists =>
                           \A d \in Connections :
                             d # c /\ stage[d] = "numbered" /\ target[d] = r => seq[d] = 0
    BY <1>3 DEF GoodTables
  <2>1. CASE r = s
    BY <2>1, <1>3, <1>4, <1>6, <1>7
  <2>2. CASE r # s
    BY <2>2, <1>3, <1>5, <1>8
  <2> QED BY <2>1, <2>2
<1> QED BY <1>9 DEF P, V

LEMMA SqliteCreate ==
  ASSUME SqliteInv, NEW c \in Connections, NEW s \in Sessions, Q!CreateSession(c, s)
  PROVE  SqliteInv'
<1> DEFINE row == [Q!NoSession EXCEPT !.exists = TRUE]
           P == [Q!View(c) EXCEPT ![s] = row]
<1>1. /\ Q!Idle(c) /\ s \notin reserved /\ reserved' = reserved \cup {s}
      /\ Q!Execute(c, TRUE, P, "created") /\ UNCHANGED <<db, acked>>
  BY DEF Q!CreateSession
<1>2. stage[c] # "inserted"
  BY <1>1 DEF Q!Idle
<1>3. CASE Q!OtherWrites(c)
  BY <1>1, <1>2, <1>3, ExecuteRaises
<1>4. CASE ~Q!OtherWrites(c)
  <2>1. GoodTables(c, P, "created")
    BY <1>1, <1>4, RowsFit
  <2> HIDE DEF P
  <2> QED BY <1>1, <1>4, <2>1, Writes
<1> QED BY <1>3, <1>4

LEMMA SqliteDelete ==
  ASSUME SqliteInv, NEW c \in Connections, NEW s \in Sessions, Q!DeleteSession(c, s)
  PROVE  SqliteInv'
<1> DEFINE P == [Q!View(c) EXCEPT ![s] = Q!NoSession]
<1>1. /\ Q!Idle(c) /\ reserved' = reserved
      /\ Q!Execute(c, TRUE, P, "deleted") /\ UNCHANGED <<db, acked>>
  BY DEF Q!DeleteSession
<1>2. stage[c] # "inserted" /\ ~Q!NoSession.exists
  BY <1>1 DEF Q!Idle, Q!NoSession
<1>3. CASE Q!OtherWrites(c)
  BY <1>1, <1>2, <1>3, ExecuteRaises
<1>4. CASE ~Q!OtherWrites(c)
  <2>1. GoodTables(c, P, "deleted")
    BY <1>1, <1>2, <1>4, RowsFit
  <2> HIDE DEF P
  <2> QED BY <1>1, <1>4, <2>1, Writes
<1> QED BY <1>3, <1>4

LEMMA SqliteAppend ==
  ASSUME SqliteInv, NEW c \in Connections, NEW s \in Sessions, Q!AppendEntry(c, s)
  PROVE  SqliteInv'
<1> DEFINE n == Q!View(c)[s].size
           x == IF tx[c] = "open" THEN "reading" ELSE tx[c]
<1>1. /\ stage[c] = "idle" /\ tx' = [tx EXCEPT ![c] = x]
      /\ stage' = [stage EXCEPT ![c] = "numbered"] /\ target' = [target EXCEPT ![c] = s]
      /\ seq' = [seq EXCEPT ![c] = Q!NextSeq(c, s)]
      /\ UNCHANGED <<db, reserved, pending, acked>>
  BY DEF Q!AppendEntry, Q!Selects, Q!Idle
<1>2. /\ DenseRow(Q!View(c)[s]) /\ (Q!View(c)[s].exists => s \in reserved)
      /\ Q!View(c) \in Q!Tables
  BY <1>1, ViewDense, ViewTyped DEF SqliteInv
<1>3. n \in Nat /\ Q!NextSeq(c, s) = n /\ (n > 0 => s \in reserved)
  BY <1>2, NextSeqIsSize DEF DenseRow, Q!Tables
<1> HIDE DEF n
<1>4. SqliteTyped'
  BY <1>1, <1>3 DEF SqliteInv, SqliteTyped
<1>5. /\ \A d \in Connections : (tx'[d] = "writing" <=> tx[d] = "writing") /\ Q!View(d)' = Q!View(d)
      /\ \A d \in Connections \ {c} : stage'[d] = stage[d] /\ target'[d] = target[d] /\ seq'[d] = seq[d]
      /\ stage'[c] = "numbered" /\ target'[c] = s /\ seq'[c] = n
      /\ db' = db /\ reserved' = reserved /\ pending' = pending /\ acked' = acked
  BY <1>1, <1>3 DEF SqliteInv, SqliteTyped, Q!View
<1>6. StoredDense' /\ AckedStored' /\ OneWriter' /\ AppendedThere'
  BY <1>5 DEF SqliteInv, StoredDense, AckedStored, OneWriter, AppendedThere
<1>7. CallsPlaced'
  BY <1>5 DEF SqliteInv, CallsPlaced
<1>8. PendingDense'
  <2> SUFFICES ASSUME NEW d \in Connections, tx[d] = "writing", NEW r \in Sessions
               PROVE  IF HalfWay(d, r)'
                      THEN /\ pending[d][r].exists
                           /\ pending[d][r].seqs = 0..pending[d][r].size
                           /\ seq'[d] = pending[d][r].size
                      ELSE DenseRow(pending[d][r])
    BY <1>5 DEF PendingDense, DenseRow
  <2> QED BY <1>1, <1>5 DEF SqliteInv, PendingDense, HalfWay
<1>9. NumberedLow'
  <2>1. Q!View(c)[s].exists => seq'[c] <= Q!View(c)[s].size
    BY <1>3, <1>5 DEF n
  <2> QED BY <1>5, <2>1 DEF SqliteInv, NumberedLow
<1>10. PendingGrows'
  <2> SUFFICES ASSUME NEW d \in Connections, tx[d] = "writing", NEW r \in Sessions, pending[d][r].exists
               PROVE  IF db[r].exists THEN db[r].size <= pending[d][r].size
                      ELSE \A e \in Connections : e # d /\ stage'[e] = "numbered" /\ target'[e] = r => seq'[e] = 0
    BY <1>5 DEF PendingGrows
  <2>1. c # d => Q!View(c) = db
    BY DEF SqliteInv, OneWriter, Q!View
  <2>2. ~db[s].exists => db[s].size = 0
    BY DEF SqliteInv, StoredDense, DenseRow
  <2> QED BY <1>5, <2>1, <2>2 DEF SqliteInv, PendingGrows, n
<1>11. IdsTaken'
  BY <1>3, <1>5 DEF SqliteInv, IdsTaken
<1> QED BY <1>4, <1>6, <1>7, <1>8, <1>9, <1>10, <1>11 DEF SqliteInv

LEMMA SqliteInsert ==
  ASSUME SqliteInv, NEW c \in Connections, Q!Insert(c)
  PROVE  SqliteInv'
<1> DEFINE s == target[c]
           V == Q!View(c)
           P == [V EXCEPT ![s].seqs = @ \cup {seq[c]}]
           ok == V[s].exists /\ seq[c] \notin V[s].seqs
<1>1. /\ stage[c] = "numbered" /\ Q!Execute(c, ok, P, "inserted") /\ UNCHANGED <<db, reserved, acked>>
  BY DEF Q!Insert
<1>2. s \in Sessions /\ V \in Q!Tables /\ seq[c] \in Nat
  BY <1>1, ViewTyped DEF SqliteInv, CallsPlaced, SqliteTyped
<1>3. ok \in BOOLEAN
  BY <1>2 DEF Q!Tables
<1>4. CASE Q!OtherWrites(c) \/ ~ok
  BY <1>1, <1>3, <1>4, ExecuteRaises
<1>5. CASE ~Q!OtherWrites(c) /\ ok
  <2>1. \A r \in Sessions :
           /\ DenseRow(V[r]) /\ (V[r].exists => r \in reserved)
           /\ V[r].exists /\ db[r].exists => db[r].size <= V[r].size
    BY <1>1, ViewDense
  <2>2. seq[c] = V[s].size
    <3>1. seq[c] <= V[s].size
      BY <1>1, <1>5 DEF SqliteInv, NumberedLow
    <3>2. V[s].seqs = 0..(V[s].size - 1) /\ V[s].size \in Nat
      BY <1>2, <2>1 DEF DenseRow, Q!Tables
    <3> QED BY <1>2, <1>5, <3>1, <3>2
  <2>3. /\ P \in Q!Tables /\ (\A r \in Sessions \ {s} : P[r] = V[r])
        /\ P[s].exists = V[s].exists /\ P[s].size = V[s].size /\ P[s].seqs = V[s].seqs \cup {seq[c]}
    BY <1>2 DEF Q!Tables
  <2>4. V[s].seqs = 0..(V[s].size - 1) /\ V[s].size \in Nat
    BY <1>2, <2>1 DEF DenseRow, Q!Tables
  <2>5. P[s].seqs = 0..P[s].size /\ P[s].exists
    <3>1. \A n \in Nat : (0..(n - 1)) \cup {n} = 0..n
      OBVIOUS
    <3> HIDE DEF P, V, s
    <3> QED BY <1>5, <2>2, <2>3, <2>4, <3>1
  <2>6. \A r \in Sessions : V[r].exists /\ ~db[r].exists =>
          \A d \in Connections : d # c /\ stage[d] = "numbered" /\ target[d] = r => seq[d] = 0
    BY ViewTyped DEF SqliteInv, PendingGrows
  <2>7. GoodTables(c, P, "inserted")
    <3> HIDE DEF P, V, ok
    <3>1. ASSUME NEW r \in Sessions
          PROVE  /\ IF target[c] = r
                    THEN P[r].exists /\ P[r].seqs = 0..P[r].size /\ seq[c] = P[r].size
                    ELSE DenseRow(P[r])
                 /\ P[r].exists => r \in reserved'
                 /\ P[r].exists /\ db[r].exists => db[r].size <= P[r].size
                 /\ P[r].exists /\ ~db[r].exists =>
                      \A d \in Connections :
                        d # c /\ stage[d] = "numbered" /\ target[d] = r => seq[d] = 0
      <4>1. CASE r = s
        BY <1>1, <2>1, <2>2, <2>3, <2>5, <2>6, <4>1
      <4>2. CASE r # s
        BY <1>1, <2>1, <2>3, <2>6, <4>2
      <4> QED BY <4>1, <4>2
    <3> QED BY <2>3, <3>1 DEF GoodTables
  <2>8. Q!Execute(c, TRUE, P, "inserted")
    BY <1>1, <1>5 DEF Q!Execute
  <2> HIDE DEF P, V, ok
  <2> QED BY <1>1, <1>2, <1>5, <2>7, <2>8, Writes
<1> QED BY <1>4, <1>5

LEMMA SqliteUpdate ==
  ASSUME SqliteInv, NEW c \in Connections, Q!Update(c)
  PROVE  SqliteInv'
<1> DEFINE s == target[c]
           V == pending[c]
           P == [V EXCEPT ![s].size = @ + 1]
<1>1. /\ stage[c] = "inserted" /\ Q!Execute(c, TRUE, [Q!View(c) EXCEPT ![s].size = @ + 1], "appended")
      /\ UNCHANGED <<db, reserved, acked>>
  BY DEF Q!Update
<1>2. s \in Sessions /\ tx[c] = "writing" /\ Q!View(c) = V /\ V \in Q!Tables /\ ~Q!OtherWrites(c)
  BY <1>1, ViewTyped DEF SqliteInv, CallsPlaced, OneWriter, Q!OtherWrites
<1>3. Q!Execute(c, TRUE, P, "appended")
  BY <1>1, <1>2
<1>4. /\ P \in Q!Tables /\ (\A r \in Sessions \ {s} : P[r] = V[r])
      /\ P[s].exists = V[s].exists /\ P[s].size = V[s].size + 1 /\ P[s].seqs = V[s].seqs
      /\ V[s].size \in Nat
  BY <1>2 DEF Q!Tables
<1>5. V[s].exists /\ V[s].seqs = 0..V[s].size /\ seq[c] = V[s].size
  BY <1>1, <1>2 DEF SqliteInv, PendingDense, HalfWay
<1>6. DenseRow(P[s]) /\ seq[c] \in P[s].seqs
  BY <1>4, <1>5 DEF DenseRow
<1>7. \A r \in Sessions \ {s} : DenseRow(V[r])
  BY <1>2 DEF SqliteInv, PendingDense, HalfWay
<1>8. \A r \in Sessions : V[r].exists =>
         /\ r \in reserved
         /\ db[r].exists => db[r].size <= V[r].size
         /\ ~db[r].exists => \A d \in Connections : d # c /\ stage[d] = "numbered" /\ target[d] = r => seq[d] = 0
  BY <1>2 DEF SqliteInv, PendingGrows, IdsTaken
<1>9. db[s].size \in Nat
  BY <1>2 DEF SqliteInv, SqliteTyped, Q!Tables
<1> HIDE DEF P, V
<1>10. ASSUME NEW r \in Sessions
       PROVE  /\ DenseRow(P[r])
              /\ P[r].exists => r \in reserved'
              /\ P[r].exists /\ db[r].exists => db[r].size <= P[r].size
              /\ P[r].exists /\ ~db[r].exists =>
                   \A d \in Connections : d # c /\ stage[d] = "numbered" /\ target[d] = r => seq[d] = 0
  <2>1. CASE r = s
    BY <1>1, <1>4, <1>6, <1>8, <1>9, <2>1
  <2>2. CASE r # s
    BY <1>1, <1>4, <1>7, <1>8, <2>2
  <2> QED BY <2>1, <2>2
<1>11. GoodTables(c, P, "appended")
  BY <1>4, <1>6, <1>10 DEF GoodTables
<1> QED BY <1>1, <1>2, <1>3, <1>11, Writes

LEMMA SqliteCommit ==
  ASSUME SqliteInv, NEW c \in Connections, Q!Commit(c)
  PROVE  SqliteInv'
<1> DEFINE empty == [s \in Sessions |-> Q!NoSession]
           V == pending[c]
<1>1. /\ stage[c] \in {"created", "appended", "deleted"} /\ Q!Raises(c) /\ reserved' = reserved
      /\ tx[c] = "writing" /\ Q!View(c) = V /\ V \in Q!Tables /\ ~Q!OtherWrites(c)
  BY ViewTyped DEF Q!Commit, SqliteInv, CallsPlaced, OneWriter, Q!OtherWrites
<1>2. CASE Q!OtherReads(c)
  <2>1. UNCHANGED <<db, tx, pending, acked>>
    BY <1>2 DEF Q!Commit
  <2>2. tx' = [tx EXCEPT ![c] = "writing"] /\ pending' = [pending EXCEPT ![c] = V]
    BY <1>1, <2>1 DEF SqliteInv, SqliteTyped
  <2> HIDE DEF V
  <2> QED BY <1>1, <2>1, <2>2, Abandons
<1>3. CASE ~Q!OtherReads(c)
  <2>1. /\ db' = V /\ tx' = [tx EXCEPT ![c] = "none"] /\ pending' = [pending EXCEPT ![c] = empty]
        /\ acked' = {a \in acked \cup IF stage[c] = "appended" THEN {<<target[c], seq[c]>>} ELSE {} :
                        V[a[1]].exists}
    BY <1>1, <1>3 DEF Q!Commit
  <2>2. empty \in Q!Tables
    BY DEF Q!Tables, Q!NoSession
  <2>3. /\ \A d \in Connections \ {c} :
             /\ tx'[d] = tx[d] /\ pending'[d] = pending[d] /\ stage'[d] = stage[d]
             /\ target'[d] = target[d] /\ seq'[d] = seq[d]
             /\ tx'[d] # "writing" /\ Q!View(d) = db /\ Q!View(d)' = V
        /\ tx'[c] = "none" /\ stage'[c] = "idle" /\ seq'[c] = 0
    BY <1>1, <2>1 DEF SqliteInv, SqliteTyped, Q!Raises, Q!OtherWrites, Q!View
  <2>4. \A s \in Sessions : DenseRow(V[s])
    BY <1>1 DEF SqliteInv, PendingDense, HalfWay
  <2>5. SqliteTyped'
    <3>1. acked' \subseteq Sessions \X Nat
      BY <1>1, <2>1 DEF SqliteInv, SqliteTyped, CallsPlaced
    <3> QED BY <1>1, <2>1, <2>2, <3>1 DEF SqliteInv, SqliteTyped, Q!Raises
  <2>6. StoredDense'
    BY <2>1, <2>4 DEF StoredDense
  <2>7. CallsPlaced' /\ OneWriter' /\ AppendedThere' /\ PendingDense' /\ PendingGrows'
    BY <2>3 DEF SqliteInv, CallsPlaced, OneWriter, AppendedThere, PendingDense, PendingGrows
  <2>8. NumberedLow'
    <3> SUFFICES ASSUME NEW d \in Connections \ {c}, stage[d] = "numbered", V[target[d]].exists
                 PROVE  seq[d] <= V[target[d]].size
      BY <2>3 DEF NumberedLow
    <3>1. target[d] \in Sessions /\ seq[d] \in Nat
      BY DEF SqliteInv, CallsPlaced, SqliteTyped
    <3>2. V[target[d]].size \in Nat /\ db[target[d]].size \in Nat
      BY <1>1, <3>1 DEF SqliteInv, SqliteTyped, Q!Tables
    <3>3. CASE db[target[d]].exists
      <4>1. db[target[d]].size <= V[target[d]].size
        BY <1>1, <3>1, <3>3 DEF SqliteInv, PendingGrows
      <4>2. seq[d] <= db[target[d]].size
        BY <2>3, <3>3 DEF SqliteInv, NumberedLow
      <4> QED BY <3>1, <3>2, <4>1, <4>2
    <3>4. CASE ~db[target[d]].exists
      <4>1. seq[d] = 0
        BY <1>1, <3>1, <3>4 DEF SqliteInv, PendingGrows
      <4> QED BY <3>2, <4>1
    <3> QED BY <3>3, <3>4
  <2>9. IdsTaken'
    BY <1>1, <2>1, <2>3 DEF SqliteInv, IdsTaken
  <2>10. AckedStored'
    <3> SUFFICES ASSUME NEW a \in acked' PROVE a[2] \in V[a[1]].seqs
      BY <2>1 DEF AckedStored
    <3>1. V[a[1]].exists
      BY <2>1
    <3>2. CASE a \in acked
      <4>1. a[1] \in Sessions /\ a[2] \in Nat /\ a[2] \in db[a[1]].seqs
        BY <3>2 DEF SqliteInv, SqliteTyped, AckedStored
      <4>2. db[a[1]].seqs = 0..(db[a[1]].size - 1) /\ (~db[a[1]].exists => db[a[1]].size = 0)
            /\ db[a[1]].size \in Nat
        BY <4>1 DEF SqliteInv, StoredDense, DenseRow, SqliteTyped, Q!Tables
      <4>3. db[a[1]].exists
        BY <4>1, <4>2
      <4>4. db[a[1]].size <= V[a[1]].size
        BY <1>1, <3>1, <4>1, <4>3 DEF SqliteInv, PendingGrows
      <4>5. V[a[1]].seqs = 0..(V[a[1]].size - 1) /\ V[a[1]].size \in Nat
        BY <1>1, <2>4, <4>1 DEF DenseRow, Q!Tables
      <4> QED BY <4>1, <4>2, <4>4, <4>5
    <3>3. CASE a \notin acked
      <4>1. stage[c] = "appended" /\ a = <<target[c], seq[c]>>
        BY <2>1, <3>3
      <4> QED BY <1>1, <3>1, <4>1 DEF SqliteInv, AppendedThere
    <3> QED BY <3>2, <3>3
  <2> QED BY <2>5, <2>6, <2>7, <2>8, <2>9, <2>10 DEF SqliteInv
<1> QED BY <1>2, <1>3

LEMMA SqliteLose ==
  ASSUME SqliteInv, NEW c \in Connections, Q!Lose(c)
  PROVE  SqliteInv'
<1> DEFINE empty == [s \in Sessions |-> Q!NoSession]
<1>1. /\ tx' = [tx EXCEPT ![c] = "none"] /\ pending' = [pending EXCEPT ![c] = empty]
      /\ Q!Raises(c) /\ UNCHANGED <<db, reserved, acked>>
  BY DEF Q!Lose
<1>2. empty \in Q!Tables
  BY DEF Q!Tables, Q!NoSession
<1> HIDE DEF empty
<1> QED BY <1>1, <1>2, Abandons

LEMMA SqliteRead ==
  ASSUME SqliteInv, NEW c \in Connections, Q!Read(c)
  PROVE  SqliteInv'
<1>1. /\ tx[c] = "open" /\ tx' = [tx EXCEPT ![c] = "reading"]
      /\ UNCHANGED <<db, pending, stage, target, seq, reserved, acked>>
  BY DEF Q!Read, Q!Selects
<1>2. /\ \A d \in Connections : (tx'[d] = "writing" <=> tx[d] = "writing") /\ Q!View(d)' = Q!View(d)
      /\ SqliteTyped'
  BY <1>1 DEF SqliteInv, SqliteTyped, Q!View
<1>3. \A d \in Connections, s \in Sessions : HalfWay(d, s)' <=> HalfWay(d, s)
  BY <1>1 DEF HalfWay
<1>4. PendingDense'
  BY <1>1, <1>2, <1>3 DEF SqliteInv, PendingDense, DenseRow
<1> QED BY <1>1, <1>2, <1>4 DEF SqliteInv, StoredDense, CallsPlaced, OneWriter, AppendedThere,
      NumberedLow, PendingGrows, IdsTaken, AckedStored, DenseRow

LEMMA SqliteNext ==
  ASSUME SqliteInv, Q!Next
  PROVE  SqliteInv'
<1> PICK c \in Connections :
      \/ \E s \in Sessions : Q!CreateSession(c, s) \/ Q!DeleteSession(c, s) \/ Q!AppendEntry(c, s)
      \/ Q!Insert(c) \/ Q!Update(c) \/ Q!Commit(c) \/ Q!Read(c) \/ Q!Lose(c)
  BY DEF Q!Next
<1> QED BY SqliteCreate, SqliteDelete, SqliteAppend, SqliteInsert, SqliteUpdate, SqliteCommit, SqliteRead, SqliteLose

LEMMA SqliteStutter ==
  ASSUME SqliteInv, UNCHANGED sqliteVars
  PROVE  SqliteInv'
<1> USE DEF sqliteVars
<1>1. \A c \in Connections : Q!View(c)' = Q!View(c)
  BY DEF Q!View
<1>2. \A c \in Connections, s \in Sessions : HalfWay(c, s)' <=> HalfWay(c, s)
  BY DEF HalfWay
<1>3. PendingDense'
  BY <1>2 DEF SqliteInv, PendingDense, DenseRow
<1> QED BY <1>1, <1>3 DEF SqliteInv, SqliteTyped, StoredDense, CallsPlaced, OneWriter,
      AppendedThere, NumberedLow, PendingGrows, IdsTaken, AckedStored, DenseRow

LEMMA SqliteGives ==
  ASSUME SqliteInv
  PROVE  Q!EntriesDense
BY DEF SqliteInv, SqliteTyped, StoredDense, DenseRow, OneWriter, AckedStored, Q!EntriesDense, Q!TypeOK, Q!Tables

(* append_entry: for every number of connections and sessions, the entries *)
(* of a stored session are numbered without a hole.                        *)
THEOREM EntriesStayDense == Spec => []EntriesDense
<1> DEFINE Inv == part = "sqlite" => SqliteInv
<1>1. Init => Inv
  BY SqliteInit DEF Init, Started
<1>2. Inv /\ [Next]_vars => Inv'
  <2> SUFFICES ASSUME Inv, [Next]_vars PROVE Inv'
    OBVIOUS
  <2> SUFFICES ASSUME part' = "sqlite" PROVE SqliteInv'
    OBVIOUS
  <2>1. CASE UNCHANGED vars
    BY <2>1, SqliteStutter DEF vars
  <2>2. CASE Next
    BY <2>2, SqliteNext DEF Next, Alone
  <2> QED BY <2>1, <2>2
<1>3. Inv => EntriesDense
  BY SqliteGives DEF EntriesDense
<1> QED BY <1>1, <1>2, <1>3, PTL DEF Spec

-----------------------------------------------------------------------------
(***************************************************************************)
(* LineEditor: the line, the cursor and the places in the history and the  *)
(* menu stay within their bounds, and what is drawn follows them.          *)
(***************************************************************************)

LineTyped ==
  /\ buf \in Seq(L!Printable) /\ draft \in Seq(L!Printable) /\ own \in Seq(L!Printable)
  /\ cursor \in 0..Len(buf) /\ browsing \in 0..Len(History) /\ index \in 0..(MenuSize - 1)
  /\ anchor \in Nat \cup {L!NoAnchor}
  /\ editing \in {"edit", "menu", "returned", "interrupted", "eof", "picked", "cancelled"}

LineInv ==
  /\ LineTyped
  /\ shown.line = buf /\ shown.cursor = cursor
  /\ IF browsing = 0 THEN buf = own ELSE draft = own

LEMMA LineInit ==
  ASSUME L!Init
  PROVE  LineInv
BY PartsAssumption DEF L!Init, LineInv, LineTyped, L!LineEditorAssumption

LEMMA LineStutter ==
  ASSUME LineInv, UNCHANGED editorVars
  PROVE  LineInv'
BY DEF LineInv, LineTyped, editorVars

LEMMA LineGives ==
  ASSUME LineInv
  PROVE  L!LineIsShown
BY DEF LineInv, LineTyped, L!LineIsShown, L!TypeOK

(* What is selected is cut off at most to the end of the line.             *)
LEMMA WithoutTyped ==
  ASSUME NEW t \in Seq(L!Printable), NEW lo \in Nat, NEW hi \in Nat, lo <= Len(t)
  PROVE  L!Without(t, lo, hi) \in Seq(L!Printable) /\ lo <= Len(L!Without(t, lo, hi))
<1> DEFINE left == SubSeq(t, 1, lo)
           right == SubSeq(t, hi + 1, Len(t))
<1>1. Len(t) \in Nat
  OBVIOUS
<1>2. left \in Seq(L!Printable) /\ Len(left) = lo
  BY <1>1
<1>3. right \in Seq(L!Printable)
  BY <1>1
<1>4. L!Without(t, lo, hi) = left \o right
  BY DEF L!Without
<1> HIDE DEF left, right
<1>5. left \o right \in Seq(L!Printable) /\ Len(left \o right) = Len(left) + Len(right) /\ Len(right) \in Nat
  BY <1>2, <1>3
<1> QED BY <1>1, <1>2, <1>4, <1>5

LEMMA SelectionTyped ==
  ASSUME NEW a \in Nat \cup {L!NoAnchor}, NEW c \in Nat, L!Selection(a, c) # <<>>
  PROVE  /\ L!Selection(a, c)[1] \in 0..c /\ L!Selection(a, c)[2] \in Nat
BY DEF L!Selection, L!NoAnchor

LEMMA WordLeftTyped ==
  ASSUME NEW t \in Seq(L!Printable), NEW i \in Nat
  PROVE  L!WordLeft(t, i) \in 0..i
<1> DEFINE starts == {j \in 0..(i - 1) : t[j + 1] # " " /\ (j = 0 \/ t[j] = " ")}
           T == {0} \cup starts
<1>1. starts \subseteq 0..i
  <2>1. 0..(i - 1) \subseteq 0..i
    OBVIOUS
  <2>2. starts \subseteq 0..(i - 1)
    OBVIOUS
  <2> HIDE DEF starts
  <2> QED BY <2>1, <2>2
<1> HIDE DEF starts
<1>2. T \in SUBSET (0..i) /\ T # {}
  BY <1>1
<1>3. L!Max(T) \in T
  <2> HIDE DEF T
  <2> QED BY <1>1, <1>2, GreatestNat DEF L!Max
<1>4. L!WordLeft(t, i) = L!Max(T)
  BY DEF L!WordLeft, starts
<1> QED BY <1>2, <1>3, <1>4

LEMMA WordRightTyped ==
  ASSUME NEW t \in Seq(L!Printable), NEW i \in Nat
  PROVE  L!WordRight(t, i) \in 0..Len(t)
<1> DEFINE ends == {j \in (i + 1)..Len(t) : t[j] # " " /\ (j = Len(t) \/ t[j + 1] = " ")}
           T == {Len(t)} \cup ends
<1>0. Len(t) \in Nat
  OBVIOUS
<1>1. ends \subseteq 0..Len(t)
  <2>1. \A m \in Nat : (i + 1)..m \subseteq 0..m
    OBVIOUS
  <2>2. ends \subseteq (i + 1)..Len(t)
    OBVIOUS
  <2> HIDE DEF ends
  <2> QED BY <1>0, <2>1, <2>2
<1> HIDE DEF ends
<1>2. T \in SUBSET (0..Len(t)) /\ T # {}
  <2>1. Len(t) \in 0..Len(t)
    BY <1>0
  <2> QED BY <1>1, <2>1, Zenon
<1>3. L!Min(T) \in T
  <2>1. T \in SUBSET Nat
    BY <1>0, <1>2
  <2> HIDE DEF T
  <2> QED BY <1>2, <2>1, LeastNat DEF L!Min
<1>4. L!WordRight(t, i) = L!Min(T)
  BY DEF L!WordRight, ends
<1> QED BY <1>2, <1>3, <1>4

LEMMA LineEdits ==
  ASSUME LineInv, NEW t \in Seq(L!Printable), NEW c \in 0..Len(t), NEW a \in Nat \cup {L!NoAnchor}, NEW s,
         L!Edits(t, c, a, s), UNCHANGED <<editing, index>>
  PROVE  LineInv'
BY DEF LineInv, LineTyped, L!Edits, L!Renders

LEMMA LineIgnored ==
  ASSUME LineInv, L!Ignored, UNCHANGED index,
         editing' \in {editing, "returned", "interrupted", "eof", "picked", "cancelled"}
  PROVE  LineInv'
BY DEF LineInv, LineTyped, L!Ignored

LEMMA LineDeletes ==
  ASSUME LineInv, NEW lo \in 0..Len(buf), NEW hi \in Nat, L!Deletes(lo, hi), UNCHANGED <<editing, index>>
  PROVE  LineInv'
<1> DEFINE sel == L!Selection(anchor, cursor)
<1>1. CASE sel # <<>>
  <2>1. sel[1] \in 0..Len(buf) /\ sel[2] \in Nat
    BY <1>1, SelectionTyped DEF LineInv, LineTyped
  <2>2. /\ L!Without(buf, sel[1], sel[2]) \in Seq(L!Printable)
        /\ sel[1] <= Len(L!Without(buf, sel[1], sel[2]))
    BY <2>1, WithoutTyped DEF LineInv, LineTyped
  <2>3. L!Edits(L!Without(buf, sel[1], sel[2]), sel[1], L!NoAnchor, <<>>)
    BY <1>1 DEF L!Deletes
  <2> DEFINE cut == L!Without(buf, sel[1], sel[2])
  <2>4. cut \in Seq(L!Printable) /\ sel[1] \in 0..Len(cut) /\ L!Edits(cut, sel[1], L!NoAnchor, <<>>)
    BY <2>1, <2>2, <2>3
  <2> HIDE DEF cut, sel
  <2> QED BY <2>4, LineEdits
<1>2. CASE sel = <<>> /\ lo = hi
  BY <1>2, LineIgnored DEF L!Deletes
<1>3. CASE sel = <<>> /\ lo # hi
  <2>1. L!Without(buf, lo, hi) \in Seq(L!Printable) /\ lo <= Len(L!Without(buf, lo, hi))
    BY WithoutTyped DEF LineInv, LineTyped
  <2>2. L!Edits(L!Without(buf, lo, hi), lo, anchor, L!Selection(anchor, lo))
    BY <1>3 DEF L!Deletes
  <2> QED BY <2>1, <2>2, LineEdits DEF LineInv, LineTyped
<1> QED BY <1>1, <1>2, <1>3

LEMMA LineInsert ==
  ASSUME LineInv, NEW ch \in L!Printable, L!Insert(ch)
  PROVE  LineInv'
<1> DEFINE sel == L!Selection(anchor, cursor)
           text == IF sel = <<>> THEN buf ELSE L!Without(buf, sel[1], sel[2])
           place == IF sel = <<>> THEN cursor ELSE sel[1]
           new == SubSeq(text, 1, place) \o <<ch>> \o SubSeq(text, place + 1, Len(text))
           pin == IF sel = <<>> THEN anchor ELSE L!NoAnchor
<1>1. text \in Seq(L!Printable) /\ place \in 0..Len(text)
  <2>1. CASE sel = <<>>
    BY <2>1 DEF LineInv, LineTyped
  <2>2. CASE sel # <<>>
    <3>1. sel[1] \in 0..Len(buf) /\ sel[2] \in Nat
      BY <2>2, SelectionTyped DEF LineInv, LineTyped
    <3> QED BY <2>2, <3>1, WithoutTyped DEF LineInv, LineTyped
  <2> QED BY <2>1, <2>2
<1>2. L!Edits(new, place + 1, pin, <<>>) /\ UNCHANGED <<editing, index>>
  BY DEF L!Insert, L!Editing
<1>3. pin \in Nat \cup {L!NoAnchor}
  BY DEF LineInv, LineTyped
<1> HIDE DEF text, place, pin
<1>4. new \in Seq(L!Printable) /\ place + 1 \in 0..Len(new)
  <2>1. SubSeq(text, 1, place) \in Seq(L!Printable) /\ Len(SubSeq(text, 1, place)) = place
    BY <1>1
  <2>2. SubSeq(text, place + 1, Len(text)) \in Seq(L!Printable) /\ <<ch>> \in Seq(L!Printable) /\ Len(<<ch>>) = 1
    BY <1>1
  <2>3. place + 1 \in Nat
    BY <1>1
  <2> DEFINE before == SubSeq(text, 1, place)
             after == SubSeq(text, place + 1, Len(text))
  <2>4. new = before \o <<ch>> \o after
    OBVIOUS
  <2> HIDE DEF before, after
  <2>5. before \in Seq(L!Printable) /\ Len(before) = place /\ after \in Seq(L!Printable)
    BY <2>1, <2>2 DEF before, after
  <2>6. before \o <<ch>> \o after \in Seq(L!Printable) /\ Len(before \o <<ch>> \o after) = place + 1 + Len(after)
    BY <2>2, <2>3, <2>5
  <2>7. Len(after) \in Nat
    BY <2>5
  <2> HIDE DEF new
  <2> QED BY <2>3, <2>4, <2>6, <2>7
<1> HIDE DEF new
<1> QED BY <1>2, <1>3, <1>4, LineEdits

LEMMA LineShiftMove ==
  ASSUME LineInv, NEW key, NEW c, L!ShiftMove(key, c)
  PROVE  LineInv'
<1>1. UNCHANGED <<editing, index>>
  BY DEF L!ShiftMove, L!Editing
<1>2. CASE c \notin 0..Len(buf)
  BY <1>1, <1>2, LineIgnored DEF L!ShiftMove
<1>3. CASE c \in 0..Len(buf)
  BY <1>1, <1>3 DEF L!ShiftMove, L!Renders, LineInv, LineTyped
<1> QED BY <1>2, <1>3

LEMMA LineMove ==
  ASSUME LineInv, NEW key, NEW c \in 0..Len(buf), NEW minds, L!Move(key, c, minds)
  PROVE  LineInv'
BY DEF L!Move, L!Editing, L!Renders, LineInv, LineTyped

LEMMA LineUp ==
  ASSUME LineInv, L!Up
  PROVE  LineInv'
<1>1. UNCHANGED <<editing, index>>
  BY DEF L!Up, L!Editing
<1>2. CASE History = <<>> \/ browsing = 1
  BY <1>1, <1>2, LineIgnored DEF L!Up
<1>3. CASE ~(History = <<>> \/ browsing = 1)
  <2> DEFINE to == IF browsing = 0 THEN Len(History) ELSE browsing - 1
  <2>1. History \in Seq(Seq(L!Printable))
    BY PartsAssumption DEF L!LineEditorAssumption
  <2>2. to \in 1..Len(History)
    BY <1>3, <2>1 DEF LineInv, LineTyped
  <2>3. History[to] \in Seq(L!Printable)
    BY <2>1, <2>2
  <2>4. browsing' = to /\ draft' = (IF browsing = 0 THEN buf ELSE draft) /\ L!Recalls(History[to])
    BY <1>3 DEF L!Up
  <2> HIDE DEF to
  <2> QED BY <1>1, <2>2, <2>3, <2>4 DEF L!Recalls, L!Renders, LineInv, LineTyped, L!NoAnchor
<1> QED BY <1>2, <1>3

LEMMA LineDown ==
  ASSUME LineInv, L!Down
  PROVE  LineInv'
<1>1. UNCHANGED <<editing, index>>
  BY DEF L!Down, L!Editing
<1>2. CASE browsing = 0
  BY <1>1, <1>2, LineIgnored DEF L!Down
<1>3. CASE browsing # 0
  <2>1. History \in Seq(Seq(L!Printable))
    BY PartsAssumption DEF L!LineEditorAssumption
  <2> DEFINE text == IF browsing < Len(History) THEN History[browsing + 1] ELSE draft
  <2>2. text \in Seq(L!Printable)
    BY <1>3, <2>1 DEF LineInv, LineTyped
  <2>3. /\ browsing' = IF browsing < Len(History) THEN browsing + 1 ELSE 0
        /\ L!Recalls(text) /\ UNCHANGED draft
    BY <1>3 DEF L!Down
  <2>4. browsing' = 0 => text = own
    BY <1>3, <2>3 DEF LineInv, LineTyped
  <2> HIDE DEF text
  <2> QED BY <1>1, <1>3, <2>1, <2>2, <2>3, <2>4 DEF L!Recalls, L!Renders, LineInv, LineTyped, L!NoAnchor
<1> QED BY <1>2, <1>3

LEMMA LineMenu ==
  ASSUME LineInv, L!MenuUp \/ L!MenuDown \/ L!MenuEnter \/ L!MenuCancel \/ L!MenuOther
  PROVE  LineInv'
<1>1. MenuSize \in Nat \ {0}
  BY PartsAssumption DEF L!LineEditorAssumption
<1>2. UNCHANGED <<buf, cursor, anchor, browsing, draft, shown, own>>
  BY DEF L!MenuUp, L!MenuDown, L!MenuEnter, L!MenuCancel, L!MenuOther, L!InMenu
<1>3. editing' \in {editing, "picked", "cancelled"} /\ index' \in 0..(MenuSize - 1)
  BY <1>1 DEF L!MenuUp, L!MenuDown, L!MenuEnter, L!MenuCancel, L!MenuOther, L!InMenu, LineInv, LineTyped
<1> QED BY <1>2, <1>3 DEF LineInv, LineTyped

LEMMA LineNext ==
  ASSUME LineInv, L!Next
  PROVE  LineInv'
<1> USE DEF L!Editing
<1>0. cursor \in 0..Len(buf) /\ Len(buf) \in Nat /\ buf \in Seq(L!Printable)
  BY DEF LineInv, LineTyped
<1>1. CASE \E key \in L!Plain \cup L!Sequence : L!Press(key)
  BY <1>1 DEF L!Press, LineInv, LineTyped
<1>2. CASE L!ShiftBackspace
  BY <1>0, <1>2, LineDeletes DEF L!ShiftBackspace
<1>3. CASE L!CtrlBackspace
  <2>1. L!WordLeft(buf, cursor) \in 0..Len(buf)
    BY <1>0, WordLeftTyped
  <2> QED BY <1>0, <1>3, <2>1, LineDeletes DEF L!CtrlBackspace
<1>4. CASE L!Backspace
  <2>1. L!Deletes(IF cursor = 0 THEN 0 ELSE cursor - 1, cursor) /\ UNCHANGED <<editing, index>>
    BY <1>4 DEF L!Backspace
  <2>2. (IF cursor = 0 THEN 0 ELSE cursor - 1) \in 0..Len(buf)
    BY <1>0
  <2> QED BY <1>0, <2>1, <2>2, LineDeletes
<1>5. CASE L!Delete
  <2>1. L!Deletes(cursor, IF cursor = Len(buf) THEN cursor ELSE cursor + 1) /\ UNCHANGED <<editing, index>>
    BY <1>5 DEF L!Delete
  <2>2. (IF cursor = Len(buf) THEN cursor ELSE cursor + 1) \in Nat
    BY <1>0
  <2> QED BY <1>0, <2>1, <2>2, LineDeletes
<1>6. CASE L!ShiftLeft \/ L!ShiftRight
  BY <1>6, LineShiftMove DEF L!ShiftLeft, L!ShiftRight
<1>7. CASE L!CtrlLeft
  <2>1. L!WordLeft(buf, cursor) \in 0..Len(buf)
    BY <1>0, WordLeftTyped
  <2> QED BY <1>7, <2>1, LineMove DEF L!CtrlLeft
<1>8. CASE L!CtrlRight
  <2>1. L!WordRight(buf, cursor) \in 0..Len(buf)
    BY <1>0, WordRightTyped
  <2> QED BY <1>8, <2>1, LineMove DEF L!CtrlRight
<1>9. CASE L!MoveLeft
  <2>1. (IF cursor = 0 THEN 0 ELSE cursor - 1) \in 0..Len(buf)
    BY <1>0
  <2> QED BY <1>9, <2>1, LineMove DEF L!MoveLeft
<1>10. CASE L!MoveRight
  <2>1. (IF cursor = Len(buf) THEN cursor ELSE cursor + 1) \in 0..Len(buf)
    BY <1>0
  <2> QED BY <1>10, <2>1, LineMove DEF L!MoveRight
<1>11. CASE L!Home \/ L!End
  <2>1. 0 \in 0..Len(buf) /\ Len(buf) \in 0..Len(buf)
    BY <1>0
  <2> QED BY <1>11, <2>1, LineMove DEF L!Home, L!End
<1>12. CASE L!Backtab
  BY <1>12 DEF L!Backtab, L!Renders, LineInv, LineTyped
<1>13. CASE L!Up \/ L!Down
  BY <1>13, LineUp, LineDown
<1>14. CASE L!Enter \/ L!CtrlC
  <2>1. L!Ignored /\ UNCHANGED index /\ editing' \in {"returned", "interrupted"}
    BY <1>14 DEF L!Enter, L!CtrlC, L!Ends, L!Ignored
  <2> QED BY <2>1, LineIgnored
<1>15. CASE L!CtrlD
  <2>1. L!Ignored /\ UNCHANGED index /\ editing' \in {editing, "eof"}
    BY <1>15 DEF L!CtrlD, L!Ends, L!Ignored
  <2> QED BY <2>1, LineIgnored
<1>16. CASE L!Swallowed
  BY <1>16, LineIgnored DEF L!Swallowed
<1>17. CASE \E ch \in L!Printable : L!Insert(ch)
  BY <1>17, LineInsert
<1>18. CASE L!MenuUp \/ L!MenuDown \/ L!MenuEnter \/ L!MenuCancel \/ L!MenuOther
  BY <1>18, LineMenu
<1> QED
  BY <1>1, <1>2, <1>3, <1>4, <1>5, <1>6, <1>7, <1>8, <1>9, <1>10, <1>11, <1>12, <1>13, <1>14, <1>15,
     <1>16, <1>17, <1>18 DEF L!Next, L!Handles

(* _edit_loop: whatever keys come, in whatever pieces, what is drawn is the *)
(* line and its cursor, and browsing the history gives the draft back.     *)
THEOREM LineAlwaysShown == Spec => []LineIsShown
<1> DEFINE Inv == part = "editor" => LineInv
<1>1. Init => Inv
  BY LineInit DEF Init, Started
<1>2. Inv /\ [Next]_vars => Inv'
  <2> SUFFICES ASSUME Inv, [Next]_vars, part' = "editor" PROVE LineInv'
    OBVIOUS
  <2>1. CASE UNCHANGED vars
    BY <2>1, LineStutter DEF vars
  <2>2. CASE Next
    BY <2>2, LineNext DEF Next, Alone
  <2> QED BY <2>1, <2>2
<1>3. Inv => LineIsShown
  BY LineGives DEF LineIsShown
<1> QED BY <1>1, <1>2, <1>3, PTL DEF Spec

-----------------------------------------------------------------------------
(***************************************************************************)
(* TuiApp: the flag, the panel and the future belong to one worker each,   *)
(* which may be unwinding; every submission has one fate.                  *)
(***************************************************************************)

Running == {"command", "turn"} \cup U!Picking
Stages == {"none", "pending"} \cup Running
Popup == [shown : BOOLEAN, items : Seq(Typed), at : Nat]
Job == [id : Nat, text : Typed \cup {"shortcut"}, at : Stages]

Fates ==
  {"posted", "empty", "stop", "usage", "queued", "started", "dropped", "cancelled", "delivered", "done"}

TuiTyped ==
  /\ worker \in Job
  /\ inbox \in Seq([id : Nat, text : Typed \cup {"shortcut"}])
  /\ submitted \in 0..MaxSubmissions /\ shortcuts \in Nat /\ changed \in Nat
  /\ prompt \in Typed /\ popup \in Popup
  /\ steer \in Seq(Nat) /\ fate \in Seq(Fates) /\ Len(fate) = submitted
  /\ \A w \in dying : w.at \in Running

(* One turn, whose flag is set, and one picker, whose future is the one.   *)
TurnsApart ==
  /\ inTurn <=> worker.at = "turn" \/ \E w \in dying : w.at = "turn"
  /\ worker.at = "turn" => \A w \in dying : w.at # "turn"
  /\ \A v, w \in dying : v.at = "turn" /\ w.at = "turn" => v = w
  /\ worker.at = "pending" /\ worker.text # "shortcut" => ~inTurn

PickersApart ==
  /\ panel <=> worker.at \in U!Picking \/ \E w \in dying : w.at \in U!Picking
  /\ worker.at \in U!Picking => future = worker.id /\ \A w \in dying : w.at \notin U!Picking
  /\ \A w \in dying : w.at \in U!Picking => future = w.id
  /\ \A v, w \in dying : v.at \in U!Picking /\ w.at \in U!Picking => v = w

(* What is posted has no other fate yet, and no fate is decided twice.     *)
FatesApart ==
  /\ \A i \in DOMAIN inbox :
       IF inbox[i].text = "shortcut" THEN inbox[i].id > MaxSubmissions
       ELSE inbox[i].id \in 1..submitted /\ fate[inbox[i].id] = "posted"
  /\ \A i, j \in DOMAIN inbox : i # j /\ inbox[i].text # "shortcut" => inbox[i].id # inbox[j].id
  /\ worker.id > submitted => worker.id > MaxSubmissions
  /\ worker.id \in 1..submitted => fate[worker.id] = "started"

SteersQueued ==
  /\ \A i, j \in DOMAIN steer : i # j => steer[i] # steer[j]
  /\ \A i \in DOMAIN steer : steer[i] \in 1..submitted
  /\ \A n \in 1..submitted : fate[n] = "queued" <=> \E i \in DOMAIN steer : steer[i] = n

TuiInv == TuiTyped /\ TurnsApart /\ PickersApart /\ U!PopupFits /\ FatesApart /\ SteersQueued

LEMMA TuiBounds ==
  /\ MaxSubmissions \in Nat /\ "" \in Typed /\ "shortcut" \notin Typed
  /\ \A t \in Typed : SuggestionsFor[t] \in Seq(Typed)
<1>1. "" \in {"", "hello", "/stop", "/steer", "/model", "/quit"}
  BY Zenon
<1> QED BY <1>1, PartsAssumption, Zenon DEF U!TuiAssumption

LEMMA TuiInit ==
  ASSUME U!Init
  PROVE  TuiInv
<1>1. prompt \in Typed /\ MaxSubmissions \in Nat
  <2>1. prompt = ""
    BY Zenon DEF U!Init
  <2> QED BY <2>1, TuiBounds, Zenon
<1>2. worker \in Job /\ worker.id = 0 /\ worker.at = "none"
  <2>1. worker = [id |-> 0, text |-> prompt, at |-> "none"]
    BY Zenon DEF U!Init, U!Nobody
  <2>2. "none" \in Stages
    BY DEF Stages
  <2> QED BY <1>1, <2>1, <2>2 DEF Job
<1>3. popup \in Popup /\ ~popup.shown
  <2>1. popup = [shown |-> FALSE, items |-> <<>>, at |-> 0]
    BY Zenon DEF U!Init
  <2>2. <<>> \in Seq(Typed)
    OBVIOUS
  <2>3. ~popup.shown
    BY <2>1
  <2> QED BY <2>1, <2>2, <2>3 DEF Popup
<1>4. /\ inbox = <<>> /\ steer = <<>> /\ fate = <<>> /\ submitted = 0 /\ shortcuts = 0
      /\ changed = 0 /\ dying = {}
  BY Zenon DEF U!Init
<1>5. TuiTyped
  <2>1. inbox \in Seq([id : Nat, text : Typed \cup {"shortcut"}]) /\ steer \in Seq(Nat) /\ fate \in Seq(Fates)
    BY <1>4
  <2>2. Len(fate) = submitted /\ submitted \in 0..MaxSubmissions
    BY <1>1, <1>4
  <2> QED BY <1>1, <1>2, <1>3, <1>4, <2>1, <2>2 DEF TuiTyped
<1>6. TurnsApart /\ PickersApart
  <2>1. ~inTurn /\ ~panel
    BY Zenon DEF U!Init
  <2> QED BY <1>2, <1>4, <2>1 DEF TurnsApart, PickersApart, U!Picking
<1>7. U!PopupFits
  BY <1>3 DEF U!PopupFits
<1>8. FatesApart /\ SteersQueued
  <2>1. DOMAIN inbox = {} /\ DOMAIN steer = {} /\ 1..submitted = {}
    BY <1>4
  <2> QED BY <1>2, <1>4, <2>1 DEF FatesApart, SteersQueued
<1> QED BY <1>5, <1>6, <1>7, <1>8 DEF TuiInv

LEMMA TuiStutter ==
  ASSUME TuiInv, UNCHANGED tuiVars
  PROVE  TuiInv'
BY DEF TuiInv, TuiTyped, TurnsApart, PickersApart, U!PopupFits, FatesApart, SteersQueued, tuiVars

(* No two entries of a queue without repetition are the same.              *)
LEMMA SteersDistinct ==
  ASSUME NEW s \in Seq(Nat), \A i, j \in DOMAIN s : i # j => s[i] # s[j]
  PROVE  Cardinality(U!Range(s)) = Len(s)
<1>1. Len(s) \in Nat /\ DOMAIN s = 1..Len(s)
  OBVIOUS
<1>2. IsFiniteSet(1..Len(s)) /\ Cardinality(1..Len(s)) = Len(s)
  BY <1>1, FS_Interval
<1>3. s \in Bijection(1..Len(s), U!Range(s))
  <2>1. s \in [1..Len(s) -> U!Range(s)]
    BY <1>1 DEF U!Range
  <2>2. \A x \in U!Range(s) : \E i \in 1..Len(s) : s[i] = x
    BY <1>1 DEF U!Range
  <2> QED BY <1>1, <2>1, <2>2 DEF Bijection, Injection, Surjection, IsInjective
<1>4. ExistsBijection(1..Len(s), U!Range(s))
  BY <1>3 DEF ExistsBijection
<1> QED BY <1>2, <1>4, FS_Bijection

LEMMA TuiCardinality == \A T : U!Cardinality(T) = Cardinality(T)
BY DEF U!Cardinality, Cardinality

LEMMA AtMostOne ==
  ASSUME NEW T, \A v, w \in T : v = w
  PROVE  Cardinality(T) <= 1
<1>1. CASE T = {}
  BY <1>1, FS_EmptySet
<1>2. CASE T # {}
  <2>1. PICK w \in T : TRUE
    BY <1>2
  <2>2. T = {w}
    BY <2>1
  <2> QED BY <2>2, FS_Singleton
<1> QED BY <1>1, <1>2

LEMMA TuiGives ==
  ASSUME TuiInv
  PROVE  U!TuiSound
<1>1. U!TypeOK
  BY DEF TuiInv, TuiTyped, U!TypeOK, Job, Stages, Running
<1>2. U!OneTurn
  <2>1. \A v, u \in {w \in U!Workers : w.at = "turn"} : v = u
    BY DEF TuiInv, TurnsApart, U!Workers
  <2>2. Cardinality({w \in U!Workers : w.at = "turn"}) <= 1
    BY <2>1, AtMostOne
  <2>3. inTurn <=> \E w \in U!Workers : w.at = "turn"
    BY DEF TuiInv, TurnsApart, U!Workers
  <2> QED BY <2>2, <2>3, TuiCardinality DEF U!OneTurn
<1>3. U!PickerCleared
  BY DEF TuiInv, PickersApart, U!Workers, U!PickerCleared
<1>4. U!QueuedKept
  <2>1. Cardinality(U!Range(steer)) = Len(steer)
    BY SteersDistinct DEF TuiInv, TuiTyped, SteersQueued
  <2>2. DOMAIN fate = 1..submitted
    BY DEF TuiInv, TuiTyped
  <2>3. \A n : n \in U!Range(steer) <=> \E i \in DOMAIN steer : steer[i] = n
    BY DEF U!Range
  <2>4. \A n \in 1..submitted : fate[n] = "queued" <=> n \in U!Range(steer)
    BY <2>3 DEF TuiInv, SteersQueued
  <2> QED BY <2>1, <2>2, <2>4, TuiCardinality DEF U!QueuedKept
<1> QED BY <1>1, <1>2, <1>3, <1>4 DEF TuiInv, U!TuiSound

-----------------------------------------------------------------------------
(* The popup when it is hidden, or when another of its items is lit.       *)
LEMMA PopupHidden ==
  ASSUME NEW r \in Popup, NEW q, q = [r EXCEPT !.shown = FALSE]
  PROVE  q \in Popup /\ ~q.shown
<1>1. q \in Popup
  BY DEF Popup
<1>2. ~q.shown
  BY DEF Popup
<1> QED BY <1>1, <1>2

LEMMA PopupMoved ==
  ASSUME NEW r \in Popup, NEW k \in Nat, NEW q, q = [r EXCEPT !.at = k]
  PROVE  q \in Popup /\ q.at = k /\ q.items = r.items /\ q.shown = r.shown
<1>1. q \in Popup
  BY DEF Popup
<1>2. q.at = k /\ q.items = r.items
  BY DEF Popup
<1>3. q.shown = r.shown
  BY DEF Popup
<1> QED BY <1>1, <1>2, <1>3

LEMMA TuiPrompt ==
  ASSUME TuiInv, (\E t \in Typed : U!Type(t)) \/ U!TextChanged \/ U!PopupKey
  PROVE  TuiInv'
<1>1. UNCHANGED <<inbox, worker, dying, inTurn, future, panel, dialogs, steer, stop, open, submitted, shortcuts, fate>>
  BY DEF U!Type, U!TextChanged, U!PopupKey, U!workerVars
<1>2. TurnsApart' /\ PickersApart' /\ FatesApart' /\ SteersQueued'
  BY <1>1 DEF TuiInv, TurnsApart, PickersApart, FatesApart, SteersQueued
<1>3. changed' \in Nat /\ prompt' \in Typed /\ popup' \in Popup /\ U!PopupFits'
  <2>1. CASE \E t \in Typed : U!Type(t)
    BY <2>1 DEF U!Type, U!Edit, TuiInv, TuiTyped, U!PopupFits
  <2>2. CASE U!TextChanged
    <3> DEFINE matches == SuggestionsFor[prompt]
    <3>1. matches \in Seq(Typed)
      BY TuiBounds, Zenon DEF TuiInv, TuiTyped
    <3>2. CASE matches = <<>>
      <4>1. popup' \in Popup /\ ~popup'.shown
        BY <2>2, <3>2, PopupHidden DEF U!TextChanged, TuiInv, TuiTyped
      <4>2. changed > 0 /\ changed' = changed - 1 /\ prompt' = prompt
        BY <2>2 DEF U!TextChanged
      <4> QED BY <4>1, <4>2 DEF TuiInv, TuiTyped, U!PopupFits
    <3>3. CASE matches # <<>>
      <4>1. popup' = [shown |-> TRUE, items |-> matches, at |-> 1] /\ changed > 0 /\ changed' = changed - 1 /\ prompt' = prompt
        BY <2>2, <3>3 DEF U!TextChanged
      <4>2. 1 \in DOMAIN matches
        BY <3>1, <3>3
      <4>3. popup' \in Popup
        BY <3>1, <4>1 DEF Popup
      <4>4. popup'.items = SuggestionsFor[prompt'] /\ popup'.at \in DOMAIN popup'.items
        BY <4>1, <4>2
      <4> QED BY <4>1, <4>3, <4>4 DEF TuiInv, TuiTyped, U!PopupFits
    <3> QED BY <3>2, <3>3
  <2>3. CASE U!PopupKey
    <3> DEFINE n == Len(popup.items)
    <3>1. popup.shown /\ popup.at \in 1..n /\ n \in Nat /\ popup.items \in Seq(Typed)
      <4>1. popup.items \in Seq(Typed)
        BY DEF TuiInv, TuiTyped, Popup
      <4>2. popup.shown
        BY <2>3, Zenon DEF U!PopupKey
      <4>3. popup.at \in DOMAIN popup.items
        BY <4>2, Zenon DEF TuiInv, U!PopupFits
      <4> QED BY <4>1, <4>2, <4>3
    <3>2. CASE U!Edit(popup.items[popup.at]) /\ popup' = [popup EXCEPT !.shown = FALSE]
      <4>1. popup' \in Popup /\ ~popup'.shown
        BY <3>2, PopupHidden DEF TuiInv, TuiTyped
      <4>2. popup.items[popup.at] \in Typed
        BY <3>1
      <4> QED BY <3>2, <4>1, <4>2 DEF U!Edit, TuiInv, TuiTyped, U!PopupFits
    <3>3. CASE popup' = [popup EXCEPT !.shown = FALSE] /\ UNCHANGED <<prompt, changed>>
      <4>1. popup' \in Popup /\ ~popup'.shown
        BY <3>3, PopupHidden DEF TuiInv, TuiTyped
      <4> QED BY <3>3, <4>1 DEF TuiInv, TuiTyped, U!PopupFits
    <3>4. ASSUME NEW step \in {1, n - 1}, UNCHANGED <<prompt, changed>>,
                 popup' = [popup EXCEPT !.at = ((@ - 1 + step) % n) + 1]
          PROVE  changed' \in Nat /\ prompt' \in Typed /\ popup' \in Popup /\ U!PopupFits'
      <4>1. (popup.at - 1 + step) % n \in 0..(n - 1)
        <5>1. popup.at - 1 + step \in Int /\ n \in Nat \ {0}
          BY <3>1
        <5> HIDE DEF n
        <5> QED BY <5>1
      <4>2. popup'.at \in 1..n /\ popup'.items = popup.items /\ popup'.shown = popup.shown
            /\ popup' \in Popup
        <5> DEFINE k == ((popup.at - 1 + step) % n) + 1
        <5>1. k \in 1..n /\ k \in Nat
          BY <3>1, <4>1
        <5>2. popup' = [popup EXCEPT !.at = k]
          BY <3>4
        <5> HIDE DEF k, n
        <5> QED BY <5>1, <5>2, PopupMoved DEF TuiInv, TuiTyped
      <4> QED BY <3>1, <3>4, <4>2 DEF TuiInv, TuiTyped, U!PopupFits
    <3> QED BY <2>3, <3>2, <3>3, <3>4 DEF U!PopupKey
  <2> QED BY <2>1, <2>2, <2>3
<1> QED BY <1>1, <1>2, <1>3 DEF TuiInv, TuiTyped

LEMMA TuiEnter ==
  ASSUME TuiInv, U!Enter
  PROVE  TuiInv'
<1>1. /\ submitted < MaxSubmissions /\ submitted' = submitted + 1
      /\ inbox' = Append(inbox, [id |-> submitted + 1, text |-> prompt])
      /\ fate' = Append(fate, "posted")
      /\ UNCHANGED <<worker, dying, inTurn, future, panel, steer, shortcuts, prompt, changed, popup>>
  BY DEF U!Enter, U!workerVars, U!editorPart
<1>2. submitted \in Nat /\ MaxSubmissions \in Nat /\ submitted' \in 0..MaxSubmissions
  <2>1. MaxSubmissions \in Nat
    BY TuiBounds, Zenon
  <2> QED BY <1>1, <2>1 DEF TuiInv, TuiTyped
<1>3. fate \in Seq(Fates) /\ Len(fate) = submitted /\ prompt # "shortcut" /\ prompt \in Typed
  <2>1. prompt # "shortcut" /\ prompt \in Typed
    BY TuiBounds, Zenon DEF TuiInv, TuiTyped
  <2> QED BY <2>1 DEF TuiInv, TuiTyped
<1>4. /\ fate' \in Seq(Fates) /\ Len(fate') = submitted'
      /\ fate'[submitted'] = "posted" /\ \A n \in 1..submitted : fate'[n] = fate[n]
  <2>1. "posted" \in Fates
    BY DEF Fates
  <2> QED BY <1>1, <1>2, <1>3, <2>1
<1> DEFINE Message == [id : Nat, text : Typed \cup {"shortcut"}]
           m == [id |-> submitted + 1, text |-> prompt]
<1>5. m \in Message /\ m.id = submitted' /\ m.text # "shortcut"
  BY <1>1, <1>2, <1>3
<1> HIDE DEF m
<1>6. inbox \in Seq(Message) /\ inbox' = Append(inbox, m)
  BY <1>1 DEF m, TuiInv, TuiTyped
<1> HIDE DEF Message
<1>7. /\ inbox' \in Seq(Message)
      /\ \A i \in DOMAIN inbox' : \/ i \in DOMAIN inbox /\ inbox'[i] = inbox[i]
                                  \/ i \notin DOMAIN inbox /\ i = Len(inbox) + 1 /\ inbox'[i] = m
  BY <1>5, <1>6
<1>8. TuiTyped'
  BY <1>1, <1>2, <1>4, <1>7 DEF TuiInv, TuiTyped, Message
<1>9. TurnsApart' /\ PickersApart' /\ U!PopupFits'
  BY <1>1 DEF TuiInv, TurnsApart, PickersApart, U!PopupFits
<1>10. FatesApart'
  <2>1. ASSUME NEW i \in DOMAIN inbox
        PROVE  IF inbox[i].text = "shortcut" THEN inbox[i].id > MaxSubmissions
               ELSE inbox[i].id \in 1..submitted /\ fate[inbox[i].id] = "posted"
    BY DEF TuiInv, FatesApart
  <2>2. \A i \in DOMAIN inbox' :
          IF inbox'[i].text = "shortcut" THEN inbox'[i].id > MaxSubmissions
          ELSE inbox'[i].id \in 1..submitted' /\ fate'[inbox'[i].id] = "posted"
    BY <1>1, <1>2, <1>4, <1>5, <1>7, <2>1
  <2>3. \A i, j \in DOMAIN inbox : i # j /\ inbox[i].text # "shortcut" => inbox[i].id # inbox[j].id
    BY DEF TuiInv, FatesApart
  <2>4. \A i \in DOMAIN inbox : inbox[i].id # submitted'
    BY <1>1, <1>2, <2>1
  <2>5. \A i, j \in DOMAIN inbox' : i # j /\ inbox'[i].text # "shortcut" => inbox'[i].id # inbox'[j].id
    BY <1>5, <1>7, <2>3, <2>4
  <2>6. /\ worker.id \in Nat /\ (worker.id > submitted => worker.id > MaxSubmissions)
        /\ (worker.id \in 1..submitted => fate[worker.id] = "started")
    BY DEF TuiInv, TuiTyped, Job, FatesApart
  <2>7. /\ worker.id > submitted' => worker.id > MaxSubmissions
        /\ worker.id \in 1..submitted' => fate'[worker.id] = "started"
    BY <1>1, <1>2, <1>4, <2>6
  <2> QED BY <1>1, <2>2, <2>5, <2>7 DEF FatesApart
<1>11. SteersQueued'
  <2>1. \A i \in DOMAIN steer : steer[i] \in 1..submitted
    BY DEF TuiInv, SteersQueued
  <2>2. 1..submitted' = 1..submitted \cup {submitted'} /\ submitted' \notin 1..submitted
    BY <1>1, <1>2
  <2>3. \A n \in 1..submitted' : fate'[n] = "queued" <=> \E i \in DOMAIN steer : steer[i] = n
    BY <1>4, <2>1, <2>2 DEF TuiInv, SteersQueued
  <2> QED BY <1>1, <2>1, <2>2, <2>3 DEF TuiInv, SteersQueued
<1> QED BY <1>8, <1>9, <1>10, <1>11 DEF TuiInv

LEMMA TuiPressShortcut ==
  ASSUME TuiInv, U!PressShortcut
  PROVE  TuiInv'
<1> DEFINE Message == [id : Nat, text : Typed \cup {"shortcut"}]
           m == [id |-> MaxSubmissions + shortcuts + 1, text |-> "shortcut"]
<1>1. /\ shortcuts' = shortcuts + 1 /\ inbox' = Append(inbox, m)
      /\ UNCHANGED <<worker, dying, inTurn, future, panel, steer, submitted, fate, prompt, changed, popup>>
  BY DEF U!PressShortcut, U!workerVars, U!editorPart
<1>2. shortcuts \in Nat /\ MaxSubmissions \in Nat /\ inbox \in Seq(Message)
  <2>1. MaxSubmissions \in Nat
    BY TuiBounds, Zenon
  <2> QED BY <2>1 DEF TuiInv, TuiTyped
<1>3. m \in Message /\ m.id > MaxSubmissions /\ m.text = "shortcut"
  BY <1>2
<1> HIDE DEF m, Message
<1>4. /\ inbox' \in Seq(Message)
      /\ \A i \in DOMAIN inbox' : \/ i \in DOMAIN inbox /\ inbox'[i] = inbox[i]
                                  \/ i \notin DOMAIN inbox /\ i = Len(inbox) + 1 /\ inbox'[i] = m
  BY <1>1, <1>2, <1>3
<1>5. TuiTyped'
  BY <1>1, <1>2, <1>4 DEF TuiInv, TuiTyped, Message
<1>6. TurnsApart' /\ PickersApart' /\ U!PopupFits' /\ SteersQueued'
  BY <1>1 DEF TuiInv, TurnsApart, PickersApart, U!PopupFits, SteersQueued
<1>7. FatesApart'
  <2>1. \A i \in DOMAIN inbox :
          IF inbox[i].text = "shortcut" THEN inbox[i].id > MaxSubmissions
          ELSE inbox[i].id \in 1..submitted /\ fate[inbox[i].id] = "posted"
    BY DEF TuiInv, FatesApart
  <2>2. \A i \in DOMAIN inbox' :
          IF inbox'[i].text = "shortcut" THEN inbox'[i].id > MaxSubmissions
          ELSE inbox'[i].id \in 1..submitted /\ fate[inbox'[i].id] = "posted"
    BY <1>3, <1>4, <2>1
  <2>3. \A i, j \in DOMAIN inbox : i # j /\ inbox[i].text # "shortcut" => inbox[i].id # inbox[j].id
    BY DEF TuiInv, FatesApart
  <2>4. submitted \in Nat /\ submitted <= MaxSubmissions
    BY <1>2 DEF TuiInv, TuiTyped
  <2>5. \A i \in DOMAIN inbox : inbox[i].text # "shortcut" => inbox[i].id # m.id
    <3> SUFFICES ASSUME NEW i \in DOMAIN inbox, inbox[i].text # "shortcut", inbox[i].id = m.id PROVE FALSE
      OBVIOUS
    <3>1. m.id \in 1..submitted
      BY <2>1
    <3> QED BY <1>2, <1>3, <2>4, <3>1
  <2>6. \A i, j \in DOMAIN inbox' : i # j /\ inbox'[i].text # "shortcut" => inbox'[i].id # inbox'[j].id
    BY <1>3, <1>4, <2>3, <2>5
  <2> QED BY <1>1, <2>2, <2>6 DEF TuiInv, FatesApart
<1> QED BY <1>5, <1>6, <1>7 DEF TuiInv

(* A fate that is decided.                                                 *)
LEMMA FateDecided ==
  ASSUME TuiInv, NEW id \in Nat, NEW what \in Fates, U!Decided(id, what)
  PROVE  /\ fate' \in Seq(Fates) /\ Len(fate') = submitted
         /\ \A n \in 1..submitted : fate'[n] = IF n = id THEN what ELSE fate[n]
<1>1. fate \in Seq(Fates) /\ Len(fate) = submitted /\ DOMAIN fate = 1..submitted /\ submitted \in Nat
  <2>1. MaxSubmissions \in Nat
    BY TuiBounds, Zenon
  <2> QED BY <2>1 DEF TuiInv, TuiTyped
<1>2. CASE id \in 1..submitted
  BY <1>1, <1>2 DEF U!Decided
<1>3. CASE id \notin 1..submitted
  BY <1>1, <1>3 DEF U!Decided
<1> QED BY <1>2, <1>3

(* The message that is handled, and those that stay.                       *)
LEMMA FirstMessage ==
  ASSUME TuiInv, inbox # <<>>, inbox' = Tail(inbox)
  PROVE  LET m == Head(inbox) IN
         /\ m \in [id : Nat, text : Typed \cup {"shortcut"}]
         /\ m.text = "shortcut" => m.id > MaxSubmissions
         /\ m.text # "shortcut" => m.id \in 1..submitted /\ fate[m.id] = "posted"
         /\ m.id # worker.id \/ m.text = "shortcut"
         /\ inbox' \in Seq([id : Nat, text : Typed \cup {"shortcut"}])
         /\ \A i \in DOMAIN inbox' :
              IF inbox'[i].text = "shortcut" THEN inbox'[i].id > MaxSubmissions
              ELSE /\ inbox'[i].id \in 1..submitted /\ fate[inbox'[i].id] = "posted"
                   /\ inbox'[i].id # m.id /\ inbox'[i].id # worker.id
         /\ \A i, j \in DOMAIN inbox' : i # j /\ inbox'[i].text # "shortcut" => inbox'[i].id # inbox'[j].id
<1> DEFINE Message == [id : Nat, text : Typed \cup {"shortcut"}]
           m == Head(inbox)
<1>1. inbox \in Seq(Message) /\ m = inbox[1] /\ 1 \in DOMAIN inbox
  BY DEF TuiInv, TuiTyped
<1>2. /\ \A i \in DOMAIN inbox :
           IF inbox[i].text = "shortcut" THEN inbox[i].id > MaxSubmissions
           ELSE inbox[i].id \in 1..submitted /\ fate[inbox[i].id] = "posted"
      /\ \A i, j \in DOMAIN inbox : i # j /\ inbox[i].text # "shortcut" => inbox[i].id # inbox[j].id
      /\ worker.id \in 1..submitted => fate[worker.id] = "started"
  BY DEF TuiInv, FatesApart
<1> HIDE DEF m, Message
<1>3. m \in Message /\ inbox' \in Seq(Message)
  BY <1>1
<1>4. \A i \in DOMAIN inbox' : i \in Nat /\ i + 1 \in DOMAIN inbox /\ inbox'[i] = inbox[i + 1] /\ i + 1 # 1
  BY <1>1
<1>5. ASSUME NEW i \in DOMAIN inbox'
      PROVE  IF inbox'[i].text = "shortcut" THEN inbox'[i].id > MaxSubmissions
             ELSE /\ inbox'[i].id \in 1..submitted /\ fate[inbox'[i].id] = "posted"
                  /\ inbox'[i].id # m.id /\ inbox'[i].id # worker.id
  BY <1>1, <1>2, <1>4
<1>6. \A i, j \in DOMAIN inbox' : i # j => i + 1 # j + 1
  BY <1>4
<1>7. \A i, j \in DOMAIN inbox' : i # j /\ inbox'[i].text # "shortcut" => inbox'[i].id # inbox'[j].id
  BY <1>2, <1>4, <1>6
<1>8. /\ m.text = "shortcut" => m.id > MaxSubmissions
      /\ m.text # "shortcut" => m.id \in 1..submitted /\ fate[m.id] = "posted"
      /\ m.id # worker.id \/ m.text = "shortcut"
  BY <1>1, <1>2
<1> QED BY <1>3, <1>5, <1>7, <1>8 DEF m, Message

LEMMA TuiHandleShortcutOrStart ==
  ASSUME TuiInv, inbox # <<>>, inbox' = Tail(inbox), U!StartWorker(Head(inbox)),
         Head(inbox).text # "shortcut" => ~inTurn,
         prompt' \in Typed, changed' \in Nat,
         U!PopupFits',
         UNCHANGED <<inTurn, future, panel, submitted, shortcuts, popup, steer>>
  PROVE  TuiInv'
<1> PICK m : m = Head(inbox)
  OBVIOUS
<1>1. /\ m \in [id : Nat, text : Typed \cup {"shortcut"}]
      /\ m.text = "shortcut" => m.id > MaxSubmissions
      /\ m.text # "shortcut" => m.id \in 1..submitted /\ fate[m.id] = "posted"
      /\ m.id # worker.id \/ m.text = "shortcut"
      /\ inbox' \in Seq([id : Nat, text : Typed \cup {"shortcut"}])
      /\ \A i \in DOMAIN inbox' :
           IF inbox'[i].text = "shortcut" THEN inbox'[i].id > MaxSubmissions
           ELSE /\ inbox'[i].id \in 1..submitted /\ fate[inbox'[i].id] = "posted"
                /\ inbox'[i].id # m.id /\ inbox'[i].id # worker.id
      /\ \A i, j \in DOMAIN inbox' : i # j /\ inbox'[i].text # "shortcut" => inbox'[i].id # inbox'[j].id
  BY FirstMessage
<1>2. /\ worker' = [id |-> m.id, text |-> m.text, at |-> "pending"]
      /\ dying' = IF worker.at \in {"none", "pending"} THEN dying ELSE dying \cup {worker}
      /\ fate' = [i \in DOMAIN fate |->
                    IF i = worker.id THEN (IF worker.at = "pending" THEN "dropped" ELSE "cancelled")
                    ELSE IF i = m.id THEN "started" ELSE fate[i]]
  BY DEF U!StartWorker
<1>3. fate \in Seq(Fates) /\ Len(fate) = submitted /\ DOMAIN fate = 1..submitted /\ submitted \in Nat
      /\ submitted <= MaxSubmissions /\ MaxSubmissions \in Nat
  <2>1. MaxSubmissions \in Nat
    BY TuiBounds, Zenon
  <2> QED BY <2>1 DEF TuiInv, TuiTyped
<1>4. /\ fate' \in Seq(Fates) /\ Len(fate') = submitted
      /\ \A n \in 1..submitted :
           /\ n # worker.id /\ n # m.id => fate'[n] = fate[n]
           /\ n # worker.id /\ n = m.id => fate'[n] = "started"
           /\ n = worker.id => fate'[n] \in {"dropped", "cancelled"}
  <2>1. {"dropped", "cancelled", "started"} \subseteq Fates
    BY DEF Fates
  <2> QED BY <1>2, <1>3, <2>1
<1>5. worker' \in Job /\ worker'.id = m.id /\ worker'.text = m.text /\ worker'.at = "pending"
  BY <1>1, <1>2 DEF Job, Stages
<1>6. worker.at \in Stages /\ \A w \in dying : w.at \in Running
  BY DEF TuiInv, TuiTyped, Job
<1>7. TuiTyped'
  <2>1. \A w \in dying' : w.at \in Running
    BY <1>2, <1>6 DEF Stages
  <2> QED BY <1>1, <1>4, <1>5, <2>1 DEF TuiInv, TuiTyped
<1>8. TurnsApart'
  BY <1>2, <1>5 DEF TuiInv, TurnsApart
<1>9. PickersApart'
  <2>1. worker'.at \notin U!Picking /\ "none" \notin U!Picking /\ "pending" \notin U!Picking
    BY <1>5 DEF U!Picking
  <2>2. PickersApart /\ UNCHANGED <<panel, future>>
    BY DEF TuiInv
  <2>3. CASE worker.at \in {"none", "pending"}
    <3>1. dying' = dying /\ worker.at \notin U!Picking
      BY <1>2, <2>1, <2>3
    <3> QED BY <2>1, <2>2, <3>1 DEF PickersApart
  <2>4. CASE worker.at \notin {"none", "pending"}
    <3>1. dying' = dying \cup {worker}
      BY <1>2, <2>4
    <3> QED BY <2>1, <2>2, <3>1 DEF PickersApart
  <2> QED BY <2>3, <2>4
<1>10. FatesApart'
  <2>1. \A i \in DOMAIN inbox' :
          IF inbox'[i].text = "shortcut" THEN inbox'[i].id > MaxSubmissions
          ELSE inbox'[i].id \in 1..submitted /\ fate'[inbox'[i].id] = "posted"
    <3> SUFFICES ASSUME NEW i \in DOMAIN inbox'
                 PROVE  IF inbox'[i].text = "shortcut" THEN inbox'[i].id > MaxSubmissions
                        ELSE inbox'[i].id \in 1..submitted /\ fate'[inbox'[i].id] = "posted"
      OBVIOUS
    <3>1. CASE inbox'[i].text = "shortcut"
      BY <1>1, <3>1
    <3>2. CASE inbox'[i].text # "shortcut"
      <4> DEFINE n == inbox'[i].id
      <4>1. n \in 1..submitted /\ fate[n] = "posted" /\ n # m.id /\ n # worker.id
        BY <1>1, <3>2
      <4> HIDE DEF n
      <4>2. fate'[n] = "posted"
        BY <1>4, <4>1
      <4>3. n \in 1..submitted /\ fate'[n] = "posted"
        BY <4>1, <4>2
      <4> USE DEF n
      <4> QED BY <3>2, <4>3
    <3> QED BY <3>1, <3>2
  <2>2. worker'.id > submitted => worker'.id > MaxSubmissions
    BY <1>1, <1>3, <1>5
  <2>3. worker'.id \in 1..submitted => fate'[worker'.id] = "started"
    BY <1>1, <1>3, <1>4, <1>5
  <2> QED BY <1>1, <2>1, <2>2, <2>3 DEF FatesApart
<1>11. SteersQueued'
  <2>1. worker.id \in 1..submitted => fate[worker.id] = "started"
    BY DEF TuiInv, FatesApart
  <2>2. m.id \in 1..submitted => fate[m.id] = "posted"
    BY <1>1, <1>3
  <2>3. \A n \in 1..submitted : fate'[n] = "queued" <=> fate[n] = "queued"
    BY <1>4, <2>1, <2>2
  <2> QED BY <2>3 DEF TuiInv, SteersQueued
<1> QED BY <1>7, <1>8, <1>9, <1>10, <1>11 DEF TuiInv

LEMMA TuiHandleAtOnce ==
  ASSUME TuiInv, inbox # <<>>, inbox' = Tail(inbox), Head(inbox).text # "shortcut",
         NEW what \in Fates \ {"posted"}, U!Decided(Head(inbox).id, what),
         steer' = IF what = "queued" THEN Append(steer, Head(inbox).id) ELSE steer,
         prompt' \in Typed, changed' \in Nat, U!PopupFits',
         UNCHANGED <<worker, dying, inTurn, future, panel, submitted, shortcuts, popup>>
  PROVE  TuiInv'
<1> PICK m : m = Head(inbox)
  OBVIOUS
<1>1. /\ m \in [id : Nat, text : Typed \cup {"shortcut"}]
      /\ m.id \in 1..submitted /\ fate[m.id] = "posted" /\ m.id # worker.id
      /\ inbox' \in Seq([id : Nat, text : Typed \cup {"shortcut"}])
      /\ \A i \in DOMAIN inbox' :
           IF inbox'[i].text = "shortcut" THEN inbox'[i].id > MaxSubmissions
           ELSE /\ inbox'[i].id \in 1..submitted /\ fate[inbox'[i].id] = "posted"
                /\ inbox'[i].id # m.id /\ inbox'[i].id # worker.id
      /\ \A i, j \in DOMAIN inbox' : i # j /\ inbox'[i].text # "shortcut" => inbox'[i].id # inbox'[j].id
  BY FirstMessage
<1>2. U!Decided(m.id, what) /\ steer' = IF what = "queued" THEN Append(steer, m.id) ELSE steer
  OBVIOUS
<1>3. /\ fate' \in Seq(Fates) /\ Len(fate') = submitted
      /\ \A n \in 1..submitted : fate'[n] = IF n = m.id THEN what ELSE fate[n]
  BY <1>1, <1>2, FateDecided
<1>4. /\ steer' \in Seq(Nat)
      /\ what # "queued" => UNCHANGED steer
      /\ what = "queued" =>
           \A i \in DOMAIN steer' : \/ i \in DOMAIN steer /\ steer'[i] = steer[i]
                                    \/ i \notin DOMAIN steer /\ i = Len(steer) + 1 /\ steer'[i] = m.id
      /\ what = "queued" => DOMAIN steer \subseteq DOMAIN steer' /\ Len(steer) + 1 \in DOMAIN steer' /\ Len(steer) + 1 \notin DOMAIN steer
  BY <1>1, <1>2 DEF TuiInv, TuiTyped
<1>5. TuiTyped'
  BY <1>1, <1>3, <1>4 DEF TuiInv, TuiTyped
<1>6. TurnsApart' /\ PickersApart'
  BY DEF TuiInv, TurnsApart, PickersApart
<1>7. FatesApart'
  <2>1. \A i \in DOMAIN inbox' :
          IF inbox'[i].text = "shortcut" THEN inbox'[i].id > MaxSubmissions
          ELSE inbox'[i].id \in 1..submitted /\ fate'[inbox'[i].id] = "posted"
    BY <1>1, <1>3
  <2>2. worker.id \in 1..submitted => fate'[worker.id] = "started"
    BY <1>1, <1>3 DEF TuiInv, FatesApart
  <2> QED BY <1>1, <2>1, <2>2 DEF TuiInv, FatesApart
<1>8. SteersQueued'
  <2>1. /\ \A i, j \in DOMAIN steer : i # j => steer[i] # steer[j]
        /\ \A i \in DOMAIN steer : steer[i] \in 1..submitted
        /\ \A n \in 1..submitted : fate[n] = "queued" <=> \E i \in DOMAIN steer : steer[i] = n
    BY DEF TuiInv, SteersQueued
  <2>2. \A i \in DOMAIN steer : steer[i] # m.id
    BY <1>1, <2>1
  <2>3. CASE what # "queued"
    <3>1. \A n \in 1..submitted : fate'[n] = "queued" <=> fate[n] = "queued"
      BY <1>1, <1>3, <2>3
    <3> QED BY <1>4, <2>1, <2>3, <3>1 DEF SteersQueued
  <2>4. CASE what = "queued"
    <3>1. \A i, j \in DOMAIN steer' : i # j => steer'[i] # steer'[j]
      BY <1>4, <2>1, <2>2, <2>4
    <3>2. \A i \in DOMAIN steer' : steer'[i] \in 1..submitted
      BY <1>1, <1>4, <2>1, <2>4
    <3>3. ASSUME NEW n \in 1..submitted PROVE fate'[n] = "queued" <=> \E i \in DOMAIN steer' : steer'[i] = n
      <4>1. CASE n = m.id
        <5>1. Len(steer) + 1 \in DOMAIN steer' /\ steer'[Len(steer) + 1] = m.id
          BY <1>4, <2>4
        <5> QED BY <1>3, <2>4, <4>1, <5>1
      <4>2. CASE n # m.id
        <5>1. fate'[n] = "queued" <=> \E i \in DOMAIN steer : steer[i] = n
          BY <1>3, <2>1, <4>2
        <5>2. \A i \in DOMAIN steer' : steer'[i] = n => i \in DOMAIN steer /\ steer[i] = n
          BY <1>4, <2>4, <4>2
        <5>3. \A i \in DOMAIN steer : i \in DOMAIN steer' /\ steer'[i] = steer[i]
          BY <1>4, <2>4
        <5> QED BY <5>1, <5>2, <5>3
      <4> QED BY <4>1, <4>2
    <3> QED BY <3>1, <3>2, <3>3 DEF SteersQueued
  <2> QED BY <2>3, <2>4
<1> QED BY <1>5, <1>6, <1>7, <1>8 DEF TuiInv

LEMMA TuiHandleMessage ==
  ASSUME TuiInv, U!HandleMessage
  PROVE  TuiInv'
<1> PICK m : m = Head(inbox)
  OBVIOUS
<1>1. /\ inbox # <<>> /\ inbox' = Tail(inbox)
      /\ UNCHANGED <<inTurn, future, panel, submitted, shortcuts, popup>>
  BY Zenon DEF U!HandleMessage
<1>2. \/ m.text = "shortcut" /\ U!StartWorker(m) /\ UNCHANGED <<steer, prompt, changed>>
      \/ /\ m.text # "shortcut"
         /\ prompt' \in Typed /\ (prompt' = prompt \/ changed' = changed + 1) /\ changed' \in {changed, changed + 1}
         /\ \/ U!Decided(m.id, "empty") /\ UNCHANGED <<worker, dying, steer>>
            \/ U!MidTurn(m)
            \/ ~inTurn /\ U!StartWorker(m) /\ UNCHANGED steer
  <2>1. CASE m.text = "shortcut" /\ U!StartWorker(m) /\ UNCHANGED <<steer, stop, prompt, changed>>
    BY <2>1
  <2>2. CASE /\ m.text # "shortcut"
             /\ prompt' = "" /\ changed' = changed + (IF prompt = "" THEN 0 ELSE 1)
             /\ \/ m.text = "" /\ U!Decided(m.id, "empty") /\ UNCHANGED <<worker, dying, steer, stop>>
                \/ m.text # "" /\ inTurn /\ U!MidTurn(m)
                \/ m.text # "" /\ ~inTurn /\ U!StartWorker(m) /\ UNCHANGED <<steer, stop>>
    <3>1. prompt' \in Typed
      BY <2>2, TuiBounds, Zenon
    <3>2. \/ U!Decided(m.id, "empty") /\ UNCHANGED <<worker, dying, steer>>
          \/ U!MidTurn(m)
          \/ ~inTurn /\ U!StartWorker(m) /\ UNCHANGED steer
      BY <2>2, Zenon
    <3>3. (prompt' = prompt /\ changed' = changed + 0) \/ changed' = changed + 1
      BY <2>2, Zenon
    <3>4. changed \in Nat
      BY DEF TuiInv, TuiTyped
    <3>5. (prompt' = prompt \/ changed' = changed + 1) /\ changed' \in {changed, changed + 1}
      BY <3>3, <3>4
    <3> QED BY <2>2, <3>1, <3>2, <3>5, Zenon
  <2> QED BY <2>1, <2>2, Zenon DEF U!HandleMessage
<1>3. prompt' \in Typed /\ changed' \in Nat /\ U!PopupFits'
  <2>1. prompt \in Typed /\ changed \in Nat
    BY DEF TuiInv, TuiTyped
  <2>2. prompt' \in Typed /\ ((prompt' = prompt /\ changed' = changed) \/ changed' = changed + 1)
    BY <1>2, <2>1
  <2> QED BY <1>1, <2>1, <2>2 DEF TuiInv, U!PopupFits
<1>4. CASE U!StartWorker(m) /\ UNCHANGED steer /\ (m.text # "shortcut" => ~inTurn)
  BY <1>1, <1>3, <1>4, TuiHandleShortcutOrStart
<1>5. CASE m.text # "shortcut" /\ U!Decided(m.id, "empty") /\ UNCHANGED <<worker, dying, steer>>
  <2>1. "empty" \in Fates \ {"posted"} /\ "empty" # "queued"
    BY DEF Fates
  <2>2. steer' = IF "empty" = "queued" THEN Append(steer, m.id) ELSE steer
    BY <1>5, <2>1
  <2>3. U!Decided(m.id, "empty") /\ m.text # "shortcut" /\ UNCHANGED <<worker, dying>>
    BY <1>5
  <2> QED BY <1>1, <1>3, <2>1, <2>2, <2>3, TuiHandleAtOnce
<1>6. CASE m.text # "shortcut" /\ U!MidTurn(m)
  <2>1. UNCHANGED <<worker, dying>>
    BY <1>6 DEF U!MidTurn
  <2>2. PICK what \in Fates \ {"posted"} :
          U!Decided(m.id, what) /\ steer' = IF what = "queued" THEN Append(steer, m.id) ELSE steer
    <3>1. {"stop", "usage", "queued"} \subseteq Fates \ {"posted"}
      BY DEF Fates
    <3>2. CASE m.text = "/stop"
      BY <1>6, <3>1, <3>2 DEF U!MidTurn
    <3>3. CASE m.text # "/stop" /\ m.text = "/steer"
      BY <1>6, <3>1, <3>3 DEF U!MidTurn
    <3>4. CASE m.text # "/stop" /\ m.text # "/steer"
      BY <1>6, <3>1, <3>4 DEF U!MidTurn
    <3> QED BY <3>2, <3>3, <3>4
  <2> QED BY <1>1, <1>3, <1>6, <2>1, <2>2, TuiHandleAtOnce
<1> QED BY <1>2, <1>4, <1>5, <1>6

LEMMA JobMoved ==
  ASSUME NEW w \in Job, NEW v, NEW at1 \in Stages, v = [w EXCEPT !.at = at1]
  PROVE  v \in Job /\ v.id = w.id /\ v.text = w.text /\ v.at = at1
BY DEF Job

LEMMA NobodyIsJob ==
  /\ U!Nobody \in Job /\ U!Nobody.id = 0 /\ U!Nobody.at = "none"
<1>1. "" \in Typed
  BY TuiBounds, Zenon
<1>2. PICK text \in Typed : text = ""
  BY <1>1, Zenon
<1>3. U!Nobody = [id |-> 0, text |-> text, at |-> "none"]
  BY <1>2, Zenon DEF U!Nobody
<1> QED BY <1>3 DEF Job, Stages

(* What is kept while only the workers move.                               *)
LEMMA WorkersOnly ==
  ASSUME TuiInv, worker' \in Job, \A w \in dying' : w.at \in Running,
         UNCHANGED <<inbox, submitted, shortcuts, prompt, changed, popup>>,
         \/ UNCHANGED <<fate, steer>> /\ worker'.id \in {0, worker.id}
         \/ U!Decided(worker.id, "done") /\ UNCHANGED steer /\ worker'.id = 0
  PROVE  TuiTyped' /\ U!PopupFits' /\ FatesApart' /\ SteersQueued'
<1>1. worker.id \in Nat /\ submitted \in Nat
  <2>1. MaxSubmissions \in Nat
    BY TuiBounds, Zenon
  <2> QED BY <2>1 DEF TuiInv, TuiTyped, Job
<1>2. U!PopupFits'
  BY DEF TuiInv, U!PopupFits
<1>3. CASE UNCHANGED <<fate, steer>> /\ worker'.id \in {0, worker.id}
  <2>1. TuiTyped' /\ SteersQueued'
    BY <1>3 DEF TuiInv, TuiTyped, SteersQueued
  <2>2. FatesApart'
    BY <1>1, <1>3 DEF TuiInv, FatesApart
  <2> QED BY <1>2, <2>1, <2>2
<1>4. CASE U!Decided(worker.id, "done") /\ UNCHANGED steer /\ worker'.id = 0
  <2>1. "done" \in Fates
    BY DEF Fates
  <2>2. /\ fate' \in Seq(Fates) /\ Len(fate') = submitted
        /\ \A n \in 1..submitted : fate'[n] = IF n = worker.id THEN "done" ELSE fate[n]
    BY <1>1, <1>4, <2>1, FateDecided
  <2>3. worker.id \in 1..submitted => fate[worker.id] = "started"
    BY DEF TuiInv, FatesApart
  <2>4. TuiTyped'
    BY <1>4, <2>2 DEF TuiInv, TuiTyped
  <2>5. \A n \in 1..submitted : /\ fate'[n] = "queued" <=> fate[n] = "queued"
                                /\ fate[n] = "posted" => fate'[n] = "posted"
    BY <2>2, <2>3
  <2>6. SteersQueued'
    BY <1>4, <2>5 DEF TuiInv, SteersQueued
  <2>7. FatesApart'
    BY <1>1, <1>4, <2>5 DEF TuiInv, FatesApart
  <2> QED BY <1>2, <2>4, <2>6, <2>7
<1> QED BY <1>3, <1>4

LEMMA TuiBegin ==
  ASSUME TuiInv, U!Begin
  PROVE  TuiInv'
<1>1. /\ worker.at = "pending" /\ \A w \in dying : w.at \notin U!Picking
      /\ UNCHANGED <<dying, steer, fate, inbox, submitted, shortcuts, prompt, changed, popup>>
  BY DEF U!Begin, U!Kept, U!editorPart
<1>2. worker \in Job /\ \A w \in dying : w.at \in Running
  BY DEF TuiInv, TuiTyped
<1>3. /\ "command" \in Running /\ "turn" \in Running /\ "picking" \in Running /\ Running \subseteq Stages
      /\ "picking" \in U!Picking /\ "turn" \notin U!Picking /\ "command" \notin U!Picking
      /\ "none" \notin U!Picking /\ "pending" \notin U!Picking
  BY DEF Running, Stages, U!Picking
<1>4. \/ /\ worker.text = "shortcut" \/ worker.text \in U!Slash \ {"/model"}
         /\ worker' = [worker EXCEPT !.at = "command"] /\ UNCHANGED <<inTurn, future, panel>>
      \/ worker' = U!Nobody /\ UNCHANGED <<inTurn, future, panel>>
      \/ worker' = [worker EXCEPT !.at = "picking"] /\ future' = worker.id /\ panel' = TRUE /\ UNCHANGED inTurn
      \/ /\ worker.text # "shortcut" /\ worker' = [worker EXCEPT !.at = "turn"] /\ inTurn' = TRUE
         /\ UNCHANGED <<future, panel>>
  BY DEF U!Begin
<1>5. CASE worker' = [worker EXCEPT !.at = "command"] /\ UNCHANGED <<inTurn, future, panel>>
  <2>1. worker' \in Job /\ worker'.id = worker.id /\ worker'.at = "command"
    BY <1>2, <1>3, <1>5, JobMoved
  <2>2. TuiTyped' /\ U!PopupFits' /\ FatesApart' /\ SteersQueued'
    BY <1>1, <1>2, <2>1, WorkersOnly
  <2>3. TurnsApart' /\ PickersApart'
    BY <1>1, <1>3, <1>5, <2>1 DEF TuiInv, TurnsApart, PickersApart
  <2> QED BY <2>2, <2>3 DEF TuiInv
<1>6. CASE worker' = U!Nobody /\ UNCHANGED <<inTurn, future, panel>>
  <2>1. worker' \in Job /\ worker'.id = 0 /\ worker'.at = "none"
    BY <1>6, NobodyIsJob
  <2>2. TuiTyped' /\ U!PopupFits' /\ FatesApart' /\ SteersQueued'
    BY <1>1, <1>2, <2>1, WorkersOnly
  <2>3. TurnsApart' /\ PickersApart'
    BY <1>1, <1>3, <1>6, <2>1 DEF TuiInv, TurnsApart, PickersApart
  <2> QED BY <2>2, <2>3 DEF TuiInv
<1>7. CASE worker' = [worker EXCEPT !.at = "picking"] /\ future' = worker.id /\ panel' = TRUE /\ UNCHANGED inTurn
  <2>1. worker' \in Job /\ worker'.id = worker.id /\ worker'.at = "picking"
    BY <1>2, <1>3, <1>7, JobMoved
  <2>2. TuiTyped' /\ U!PopupFits' /\ FatesApart' /\ SteersQueued'
    BY <1>1, <1>2, <2>1, WorkersOnly
  <2>3. TurnsApart' /\ PickersApart'
    BY <1>1, <1>3, <1>7, <2>1 DEF TuiInv, TurnsApart, PickersApart
  <2> QED BY <2>2, <2>3 DEF TuiInv
<1>8. CASE /\ worker.text # "shortcut" /\ worker' = [worker EXCEPT !.at = "turn"] /\ inTurn' = TRUE
           /\ UNCHANGED <<future, panel>>
  <2>1. worker' \in Job /\ worker'.id = worker.id /\ worker'.at = "turn"
    BY <1>2, <1>3, <1>8, JobMoved
  <2>2. TuiTyped' /\ U!PopupFits' /\ FatesApart' /\ SteersQueued'
    BY <1>1, <1>2, <2>1, WorkersOnly
  <2>3. ~inTurn
    BY <1>1, <1>8 DEF TuiInv, TurnsApart
  <2>4. TurnsApart'
    BY <1>1, <1>8, <2>1, <2>3 DEF TuiInv, TurnsApart
  <2>5. PickersApart'
    BY <1>1, <1>3, <1>8, <2>1 DEF TuiInv, PickersApart
  <2> QED BY <2>2, <2>4, <2>5 DEF TuiInv
<1> QED BY <1>4, <1>5, <1>6, <1>7, <1>8

LEMMA TuiDialog ==
  ASSUME TuiInv, U!AskUser \/ U!AnswerDialog
  PROVE  TuiInv'
<1>1. UNCHANGED <<worker, dying, inTurn, future, panel, steer, fate, inbox, submitted, shortcuts, prompt, changed, popup>>
  BY DEF U!AskUser, U!AnswerDialog, U!Kept, U!editorPart
<1> QED BY <1>1 DEF TuiInv, TuiTyped, TurnsApart, PickersApart, U!PopupFits, FatesApart, SteersQueued

(* The worker is done.                                                     *)
LEMMA WorkerDone ==
  ASSUME TuiInv, worker' = U!Nobody, U!Decided(worker.id, "done"),
         UNCHANGED <<dying, steer, inbox, submitted, shortcuts, prompt, changed, popup>>,
         \/ /\ worker.at \in {"turn", "command"} /\ inTurn' = (IF worker.at = "turn" THEN FALSE ELSE inTurn)
            /\ UNCHANGED <<future, panel>>
         \/ worker.at = "picked" /\ future' = 0 /\ panel' = FALSE /\ UNCHANGED inTurn
  PROVE  TuiInv'
<1>1. worker' \in Job /\ worker'.id = 0 /\ worker'.at = "none"
  BY NobodyIsJob
<1>2. \A w \in dying : w.at \in Running
  BY DEF TuiInv, TuiTyped
<1>3. TuiTyped' /\ U!PopupFits' /\ FatesApart' /\ SteersQueued'
  BY <1>1, <1>2, WorkersOnly
<1>4. /\ "none" \notin U!Picking /\ "turn" \notin U!Picking /\ "command" \notin U!Picking
      /\ "picked" \in U!Picking
  BY DEF U!Picking
<1>5. CASE worker.at = "turn"
  <2>1. inTurn' = FALSE /\ UNCHANGED <<future, panel>>
    BY <1>5
  <2> QED BY <1>1, <1>3, <1>4, <1>5, <2>1 DEF TuiInv, TurnsApart, PickersApart
<1>6. CASE worker.at = "command"
  <2>1. UNCHANGED <<inTurn, future, panel>>
    BY <1>6
  <2> QED BY <1>1, <1>3, <1>4, <1>6, <2>1 DEF TuiInv, TurnsApart, PickersApart
<1>7. CASE worker.at = "picked"
  <2>1. future' = 0 /\ panel' = FALSE /\ UNCHANGED inTurn
    BY <1>7
  <2> QED BY <1>1, <1>3, <1>4, <1>7, <2>1 DEF TuiInv, TurnsApart, PickersApart
<1> QED BY <1>5, <1>6, <1>7

LEMMA TuiBoundary ==
  ASSUME TuiInv, U!Boundary
  PROVE  TuiInv'
<1>1. /\ worker.at = "turn"
      /\ UNCHANGED <<dying, future, panel, inbox, submitted, shortcuts, prompt, changed, popup>>
  BY DEF U!Boundary, U!Kept, U!editorPart
<1>2. CASE worker' = U!Nobody /\ inTurn' = FALSE /\ U!Decided(worker.id, "done") /\ UNCHANGED steer
  BY <1>1, <1>2, WorkerDone
<1>3. CASE /\ steer' = <<>> /\ UNCHANGED <<worker, inTurn>>
           /\ fate' = [i \in DOMAIN fate |-> IF i \in U!Range(steer) THEN "delivered" ELSE fate[i]]
  <2>1. fate \in Seq(Fates) /\ Len(fate) = submitted /\ DOMAIN fate = 1..submitted /\ submitted \in Nat
    <3>1. MaxSubmissions \in Nat
      BY TuiBounds, Zenon
    <3> QED BY <3>1 DEF TuiInv, TuiTyped
  <2>2. /\ \A i \in DOMAIN steer : steer[i] \in 1..submitted
        /\ \A n \in 1..submitted : fate[n] = "queued" <=> n \in U!Range(steer)
    BY DEF TuiInv, SteersQueued, U!Range
  <2>3. fate' \in Seq(Fates) /\ Len(fate') = submitted
    <3>1. "delivered" \in Fates
      BY DEF Fates
    <3> QED BY <1>3, <2>1, <3>1
  <2>4. \A n \in 1..submitted : fate'[n] = IF fate[n] = "queued" THEN "delivered" ELSE fate[n]
    BY <1>3, <2>1, <2>2
  <2>5. TuiTyped'
    BY <1>1, <1>3, <2>3 DEF TuiInv, TuiTyped
  <2>6. FatesApart'
    BY <1>1, <1>3, <2>4 DEF TuiInv, FatesApart
  <2>7. SteersQueued'
    <3>1. DOMAIN steer' = {}
      BY <1>3
    <3>2. \A n \in 1..submitted : fate'[n] # "queued"
      BY <2>4
    <3> QED BY <1>1, <3>1, <3>2 DEF SteersQueued
  <2>8. TurnsApart' /\ PickersApart' /\ U!PopupFits'
    BY <1>1, <1>3 DEF TuiInv, TurnsApart, PickersApart, U!PopupFits
  <2> QED BY <2>5, <2>6, <2>7, <2>8 DEF TuiInv
<1> QED BY <1>2, <1>3 DEF U!Boundary

LEMMA TuiEnd ==
  ASSUME TuiInv, U!End
  PROVE  TuiInv'
BY WorkerDone DEF U!End, U!editorPart

LEMMA TuiPicker ==
  ASSUME TuiInv, U!Pick \/ U!Picked
  PROVE  TuiInv'
<1>1. CASE U!Pick
  <2>1. /\ worker.at = "picking" /\ worker' = [worker EXCEPT !.at = "picked"]
        /\ UNCHANGED <<dying, inTurn, future, panel, steer, fate, inbox, submitted, shortcuts, prompt, changed, popup>>
    BY <1>1 DEF U!Pick, U!Kept, U!editorPart
  <2>2. "picked" \in Stages /\ "picked" \in U!Picking /\ "picking" \in U!Picking
    BY DEF Stages, Running, U!Picking
  <2>3. worker \in Job /\ \A w \in dying : w.at \in Running
    BY DEF TuiInv, TuiTyped
  <2>4. worker' \in Job /\ worker'.id = worker.id /\ worker'.at = "picked"
    BY <2>1, <2>2, <2>3, JobMoved
  <2>5. TuiTyped' /\ U!PopupFits' /\ FatesApart' /\ SteersQueued'
    BY <2>1, <2>3, <2>4, WorkersOnly
  <2>6. TurnsApart' /\ PickersApart'
    BY <2>1, <2>2, <2>4 DEF TuiInv, TurnsApart, PickersApart
  <2> QED BY <2>5, <2>6 DEF TuiInv
<1>2. CASE U!Picked
  BY <1>2, WorkerDone DEF U!Picked, U!Kept, U!editorPart
<1> QED BY <1>1, <1>2

LEMMA TuiUnwound ==
  ASSUME TuiInv, NEW w \in dying, U!Unwound(w)
  PROVE  TuiInv'
<1>1. /\ dying' = dying \ {w}
      /\ inTurn' = (IF w.at = "turn" THEN FALSE ELSE inTurn)
      /\ future' = (IF w.at \in U!Picking THEN 0 ELSE future)
      /\ panel' = (IF w.at \in U!Picking THEN FALSE ELSE panel)
      /\ UNCHANGED <<worker, steer, fate, inbox, submitted, shortcuts, prompt, changed, popup>>
  BY DEF U!Unwound, U!Cleared, U!Kept, U!editorPart
<1>2. worker \in Job /\ \A v \in dying' : v.at \in Running
  BY <1>1 DEF TuiInv, TuiTyped
<1>3. TuiTyped' /\ U!PopupFits' /\ FatesApart' /\ SteersQueued'
  BY <1>1, <1>2, WorkersOnly
<1>4. TurnsApart'
  BY <1>1 DEF TuiInv, TurnsApart
<1>5. PickersApart'
  BY <1>1 DEF TuiInv, PickersApart
<1> QED BY <1>3, <1>4, <1>5 DEF TuiInv

LEMMA TuiNext ==
  ASSUME TuiInv, U!Next
  PROVE  TuiInv'
BY TuiPrompt, TuiEnter, TuiPressShortcut, TuiHandleMessage, TuiBegin, TuiDialog, TuiBoundary,
   TuiEnd, TuiPicker, TuiUnwound DEF U!Next

(* PiTuiApp: for any number of submissions and shortcuts, and in whatever  *)
(* order workers unwind, one turn runs at a time, the picker is cleared    *)
(* when nobody picks, and a steer is queued until it is delivered.         *)
THEOREM TuiAlwaysSound == Spec => []TuiSound
<1> DEFINE Inv == part = "tui" => TuiInv
<1>1. Init => Inv
  BY TuiInit DEF Init, Started
<1>2. Inv /\ [Next]_vars => Inv'
  <2> SUFFICES ASSUME Inv, [Next]_vars, part' = "tui" PROVE TuiInv'
    OBVIOUS
  <2>1. CASE UNCHANGED vars
    BY <2>1, TuiStutter DEF vars
  <2>2. CASE Next
    BY <2>2, TuiNext DEF Next, Alone
  <2> QED BY <2>1, <2>2
<1>3. Inv => TuiSound
  BY TuiGives DEF TuiSound
<1> QED BY <1>1, <1>2, <1>3, PTL DEF Spec

-----------------------------------------------------------------------------
(***************************************************************************)
(* Skills: a candidate that was applied is what the audit trail recorded,  *)
(* and has the number of the last version that it is.                      *)
(***************************************************************************)

Candidate ==
  [name : SkillNames, content : Nat, version : Nat, status : {"pending", "approved", "rejected"}]
Outcomes == {"yes", "no"}
UseOf(names) == [name : names, succeeded : Outcomes \cup {"open"}]
ReportOf(names) == [name : names, succeeded : Outcomes]

UsesTyped ==
  /\ reports \in Seq(ReportOf(SkillNames))
  /\ \E names : records \in Seq(UseOf(names))

SkillsTyped ==
  /\ candidates \in Seq(Candidate)
  /\ reviews \subseteq [candidate : Nat, approved : BOOLEAN]
  /\ history \in [SkillNames -> Seq(Nat)]
  /\ applied \in [SkillNames -> Seq(Nat)]

(* A review and a version are of a candidate that there is, a version of   *)
(* its name.                                                               *)
CandidatesThere ==
  /\ \A r \in reviews : r.candidate \in 1..Len(candidates)
  /\ \A n \in SkillNames : \A i \in 1..Len(history[n]) :
       history[n][i] \in 1..Len(candidates) /\ candidates[history[n][i]].name = n

Approved(content) == \E r \in reviews : r.approved /\ candidates[r.candidate].content = content

TrailTrue ==
  \A n \in SkillNames :
    /\ Len(applied[n]) = Len(history[n])
    /\ \A i \in 1..Len(history[n]) :
         applied[n][i] = candidates[history[n][i]].content /\ Approved(applied[n][i])

(* A candidate that was applied again has its last number: the entry with  *)
(* that number is the same candidate.                                      *)
VersionAt(n, i) == candidates[history[n][i]].version
VersionsNumbered ==
  \A n \in SkillNames : \A i \in 1..Len(history[n]) :
    /\ i <= VersionAt(n, i) /\ VersionAt(n, i) <= Len(history[n])
    /\ history[n][VersionAt(n, i)] = history[n][i]

RestoredTrue ==
  restored # K!NoRollback =>
    /\ restored.name \in SkillNames /\ restored.asked \in 1..Len(applied[restored.name])
    /\ restored.content = applied[restored.name][restored.asked]

SkillsInv ==
  /\ SkillsTyped /\ UsesTyped /\ CandidatesThere /\ TrailTrue /\ VersionsNumbered /\ RestoredTrue
  /\ K!RatesHonest

LEMMA SkillsCardinality ==
  \A T : K!Cardinality(T) = Cardinality(T) /\ (K!IsFiniteSet(T) <=> IsFiniteSet(T))
BY DEF K!Cardinality, Cardinality, K!IsFiniteSet, IsFiniteSet

LEMMA SequenceIsFunction ==
  ASSUME NEW T, NEW s \in Seq(T)
  PROVE  s = [i \in 1..Len(s) |-> s[i]]
OBVIOUS

LEMMA SkillsInit ==
  ASSUME K!Init
  PROVE  SkillsInv
<1> USE DEF K!Init
<1>1. SkillsTyped /\ UsesTyped
  <2>1. records \in Seq(UseOf({}))
    OBVIOUS
  <2> QED BY <2>1 DEF SkillsTyped, UsesTyped
<1>2. CandidatesThere /\ TrailTrue /\ VersionsNumbered /\ RestoredTrue
  BY DEF CandidatesThere, TrailTrue, VersionsNumbered, RestoredTrue
<1>3. K!RatesHonest
  <2> SUFFICES ASSUME NEW n \in SkillNames
               PROVE  /\ K!Closed(n) = {} /\ K!Successes(n) = {}
                      /\ {i \in DOMAIN reports : reports[i].name = n} = {}
                      /\ {i \in {i \in DOMAIN reports : reports[i].name = n} : reports[i].succeeded = "yes"} = {}
    BY DEF K!RatesHonest
  <2> QED BY DEF K!Closed, K!Successes
<1> QED BY <1>1, <1>2, <1>3 DEF SkillsInv

LEMMA RatesKept ==
  ASSUME K!RatesHonest, UNCHANGED <<records, reports>>
  PROVE  K!RatesHonest'
<1>1. ASSUME NEW n \in SkillNames
      PROVE  K!Closed(n)' = K!Closed(n) /\ K!Successes(n)' = K!Successes(n)
  <2>1. K!Closed(n)' = K!Closed(n)
    BY DEF K!Closed
  <2> QED BY <2>1 DEF K!Successes
<1> QED BY <1>1 DEF K!RatesHonest

(* What keeps the candidates, but for their status, keeps what is said of  *)
(* the versions.                                                           *)
LEMMA VersionsKept ==
  ASSUME SkillsInv, UNCHANGED <<history, applied, restored>>, reviews \subseteq reviews',
         \A d \in 1..Len(candidates) :
           /\ candidates'[d].content = candidates[d].content
           /\ candidates'[d].version = candidates[d].version
  PROVE  TrailTrue' /\ VersionsNumbered' /\ RestoredTrue'
<1> USE DEF SkillsInv
<1>1. ASSUME NEW x, Approved(x)
      PROVE  \E r \in reviews' : r.approved /\ candidates'[r.candidate].content = x
  BY <1>1 DEF Approved, CandidatesThere
<1>2. ASSUME NEW n \in SkillNames, NEW i \in 1..Len(history[n])
      PROVE  /\ applied[n][i] = candidates'[history[n][i]].content
             /\ \E r \in reviews' : r.approved /\ candidates'[r.candidate].content = applied[n][i]
             /\ candidates'[history[n][i]].version = candidates[history[n][i]].version
  <2>1. Approved(applied[n][i]) /\ applied[n][i] = candidates[history[n][i]].content
    BY <1>2 DEF TrailTrue
  <2>2. history[n][i] \in 1..Len(candidates)
    BY <1>2 DEF CandidatesThere
  <2> QED BY <1>1, <2>1, <2>2
<1>3. TrailTrue'
  BY <1>2 DEF TrailTrue, Approved
<1>4. VersionsNumbered'
  BY <1>2 DEF VersionsNumbered, VersionAt
<1>5. RestoredTrue'
  BY DEF RestoredTrue, K!NoRollback
<1> QED BY <1>3, <1>4, <1>5

LEMMA SkillsStutter ==
  ASSUME SkillsInv, UNCHANGED skillsVars
  PROVE  SkillsInv'
<1> USE DEF SkillsInv, skillsVars
<1>1. TrailTrue' /\ VersionsNumbered' /\ RestoredTrue' /\ K!RatesHonest'
  BY VersionsKept, RatesKept
<1> QED BY <1>1 DEF SkillsTyped, UsesTyped, CandidatesThere

LEMMA SkillsGives ==
  ASSUME SkillsInv
  PROVE  K!SkillsAudited
<1> USE DEF SkillsInv
<1>1. K!TypeOK
  <2>1. \A c \in DOMAIN candidates : candidates[c].status \in {"pending", "approved", "rejected"}
    <3>1. \A c \in DOMAIN candidates : candidates[c] \in Candidate
      BY DEF SkillsTyped
    <3> QED BY <3>1 DEF Candidate
  <2>2. ASSUME NEW n \in SkillNames PROVE K!Range(history[n]) \subseteq DOMAIN candidates
    <3>1. DOMAIN history[n] = 1..Len(history[n]) /\ DOMAIN candidates = 1..Len(candidates)
      BY DEF SkillsTyped
    <3> QED BY <3>1 DEF K!Range, CandidatesThere
  <2> QED BY <2>1, <2>2 DEF K!TypeOK
<1>2. K!TrailKept
  <2> SUFFICES ASSUME NEW n \in SkillNames
               PROVE  /\ [i \in DOMAIN history[n] |-> candidates[history[n][i]].content] = applied[n]
                      /\ \A c \in K!Range(history[n]) :
                           \E r \in reviews : r.approved /\ candidates[r.candidate].content = candidates[c].content
                      /\ history[n] # <<>> => candidates[history[n][Len(history[n])]].version = Len(history[n])
    BY DEF K!TrailKept
  <2>1. history[n] \in Seq(Nat) /\ applied[n] \in Seq(Nat)
    BY DEF SkillsTyped
  <2>2. [i \in DOMAIN history[n] |-> candidates[history[n][i]].content] = applied[n]
    <3>1. \A i \in 1..Len(history[n]) : candidates[history[n][i]].content = applied[n][i]
      BY DEF TrailTrue
    <3>2. applied[n] = [i \in 1..Len(applied[n]) |-> applied[n][i]]
      BY <2>1, SequenceIsFunction
    <3>3. Len(applied[n]) = Len(history[n]) /\ DOMAIN history[n] = 1..Len(history[n])
      BY <2>1 DEF TrailTrue
    <3> QED BY <3>1, <3>2, <3>3
  <2>3. ASSUME NEW c \in K!Range(history[n])
        PROVE  \E r \in reviews : r.approved /\ candidates[r.candidate].content = candidates[c].content
    <3>1. PICK i \in 1..Len(history[n]) : c = history[n][i]
      BY <2>1 DEF K!Range
    <3> QED BY <3>1 DEF TrailTrue, Approved
  <2>4. ASSUME history[n] # <<>> PROVE candidates[history[n][Len(history[n])]].version = Len(history[n])
    <3>1. Len(history[n]) \in 1..Len(history[n])
      BY <2>1, <2>4
    <3>2. history[n][Len(history[n])] \in 1..Len(candidates)
      BY <3>1 DEF CandidatesThere
    <3>3. candidates[history[n][Len(history[n])]] \in Candidate
      BY <3>2 DEF SkillsTyped
    <3>4. candidates[history[n][Len(history[n])]].version \in Nat
      BY <3>3 DEF Candidate
    <3>5. Len(history[n]) <= VersionAt(n, Len(history[n])) /\ VersionAt(n, Len(history[n])) <= Len(history[n])
      BY <3>1 DEF VersionsNumbered
    <3>6. VersionAt(n, Len(history[n])) = Len(history[n])
      BY <3>4, <3>5, <2>1 DEF VersionAt
    <3> QED BY <3>6 DEF VersionAt
  <2> QED BY <2>2, <2>3, <2>4
<1>3. K!RollbackFaithful
  BY DEF RestoredTrue, K!RollbackFaithful
<1> QED BY <1>1, <1>2, <1>3 DEF K!SkillsAudited

-----------------------------------------------------------------------------
(* What keeps the contents and names of candidates keeps what is said of   *)
(* the versions, but for their numbers.                                    *)
LEMMA SkillsGenerate ==
  ASSUME SkillsInv, NEW a \in K!Analysis, NEW n \in SkillNames, K!GenerateSkillCandidate(a, n)
  PROVE  SkillsInv'
<1> USE DEF SkillsInv
<1> DEFINE new == [name |-> n, content |-> Len(candidates) + 1, version |-> 1, status |-> "pending"]
<1>1. candidates \in Seq(Candidate) /\ new \in Candidate /\ candidates' = Append(candidates, new)
  BY DEF K!GenerateSkillCandidate, SkillsTyped, Candidate
<1>2. /\ candidates' \in Seq(Candidate) /\ Len(candidates') = Len(candidates) + 1
      /\ \A c \in 1..Len(candidates) : c \in 1..Len(candidates') /\ candidates'[c] = candidates[c]
  <2> HIDE DEF new
  <2> QED BY <1>1, AppendProperties
<1> HIDE DEF new
<1>3. UNCHANGED <<reviews, history, records, reports, applied, restored>>
  BY DEF K!GenerateSkillCandidate
<1>4. SkillsTyped' /\ UsesTyped'
  BY <1>2, <1>3 DEF SkillsTyped, UsesTyped
<1>5. CandidatesThere'
  BY <1>2, <1>3 DEF CandidatesThere
<1>6. TrailTrue' /\ VersionsNumbered' /\ RestoredTrue'
  BY <1>2, <1>3, VersionsKept
<1>7. K!RatesHonest'
  BY <1>3, RatesKept
<1> QED BY <1>4, <1>5, <1>6, <1>7

LEMMA SkillsReview ==
  ASSUME SkillsInv, NEW c \in DOMAIN candidates, NEW approve \in BOOLEAN, K!Review(c, approve)
  PROVE  SkillsInv'
<1> USE DEF SkillsInv
<1> DEFINE status == IF approve THEN "approved" ELSE "rejected"
<1>1. candidates \in Seq(Candidate) /\ c \in 1..Len(candidates)
  BY DEF SkillsTyped
<1>2. /\ candidates' \in Seq(Candidate) /\ Len(candidates') = Len(candidates)
      /\ \A d \in 1..Len(candidates) :
           /\ candidates'[d].name = candidates[d].name /\ candidates'[d].content = candidates[d].content
           /\ candidates'[d].version = candidates[d].version
  <2>1. candidates' = [candidates EXCEPT ![c] = [candidates[c] EXCEPT !.status = status]]
    BY DEF K!Review
  <2>2. candidates[c] \in Candidate
    BY <1>1
  <2>3. /\ [candidates[c] EXCEPT !.status = status] \in Candidate
        /\ [candidates[c] EXCEPT !.status = status].name = candidates[c].name
        /\ [candidates[c] EXCEPT !.status = status].content = candidates[c].content
        /\ [candidates[c] EXCEPT !.status = status].version = candidates[c].version
    BY <2>2 DEF Candidate
  <2> HIDE DEF status
  <2> QED BY <1>1, <2>1, <2>3, ExceptSeq
<1>3. UNCHANGED <<history, records, reports, applied, restored>>
  BY DEF K!Review
<1>4. /\ reviews \subseteq reviews'
      /\ reviews' \subseteq [candidate : Nat, approved : BOOLEAN]
      /\ \A r \in reviews' : r.candidate \in 1..Len(candidates)
  BY <1>1 DEF K!Review, SkillsTyped, CandidatesThere
<1>5. SkillsTyped' /\ UsesTyped'
  BY <1>2, <1>3, <1>4 DEF SkillsTyped, UsesTyped
<1>6. CandidatesThere'
  BY <1>2, <1>3, <1>4 DEF CandidatesThere
<1>7. TrailTrue' /\ VersionsNumbered' /\ RestoredTrue'
  BY <1>2, <1>3, <1>4, VersionsKept
<1>8. K!RatesHonest'
  BY <1>3, RatesKept
<1> QED BY <1>5, <1>6, <1>7, <1>8

-----------------------------------------------------------------------------
(* One more version of a name, of a candidate that gets its number.        *)
LEMMA OneMoreVersion ==
  ASSUME SkillsInv, NEW n \in SkillNames, NEW c \in Nat, NEW content \in Nat,
         NEW last \in Nat, last = Len(history[n]) + 1,
         candidates' \in Seq(Candidate), c \in 1..Len(candidates'),
         candidates'[c].name = n, candidates'[c].content = content, candidates'[c].version = last,
         \A d \in 1..Len(candidates) :
           /\ d \in 1..Len(candidates')
           /\ candidates'[d].name = candidates[d].name /\ candidates'[d].content = candidates[d].content
           /\ d # c => candidates'[d].version = candidates[d].version,
         history' = [history EXCEPT ![n] = Append(history[n], c)],
         applied' = [applied EXCEPT ![n] = Append(applied[n], content)],
         Approved(content), UNCHANGED <<reviews, records, reports>>,
         \/ UNCHANGED restored
         \/ /\ restored'.name = n /\ restored'.asked \in 1..Len(history[n])
            /\ restored'.content = applied[n][restored'.asked]
  PROVE  SkillsInv'
<1> USE DEF SkillsInv
<1>1. history[n] \in Seq(Nat) /\ applied[n] \in Seq(Nat) /\ Len(history[n]) \in Nat
  BY DEF SkillsTyped
<1>2. /\ Len(history'[n]) = last /\ history'[n][last] = c
      /\ \A i \in 1..Len(history[n]) : history'[n][i] = history[n][i]
      /\ \A m \in SkillNames : m # n => history'[m] = history[m]
      /\ history' \in [SkillNames -> Seq(Nat)]
  <2>1. history \in [SkillNames -> Seq(Nat)]
    BY DEF SkillsTyped
  <2>2. /\ Append(history[n], c) \in Seq(Nat) /\ Len(Append(history[n], c)) = last
        /\ Append(history[n], c)[last] = c
        /\ \A i \in 1..Len(history[n]) : Append(history[n], c)[i] = history[n][i]
    BY <1>1, AppendProperties
  <2> QED BY <2>1, <2>2
<1>3. /\ Len(applied'[n]) = last /\ applied'[n][last] = content
      /\ \A i \in 1..Len(history[n]) : applied'[n][i] = applied[n][i]
      /\ \A m \in SkillNames : m # n => applied'[m] = applied[m]
      /\ applied' \in [SkillNames -> Seq(Nat)]
  <2>1. applied \in [SkillNames -> Seq(Nat)] /\ Len(applied[n]) = Len(history[n])
    BY DEF SkillsTyped, TrailTrue
  <2>2. /\ Append(applied[n], content) \in Seq(Nat) /\ Len(Append(applied[n], content)) = last
        /\ Append(applied[n], content)[last] = content
        /\ \A i \in 1..Len(history[n]) : Append(applied[n], content)[i] = applied[n][i]
    BY <1>1, <2>1, AppendProperties
  <2> QED BY <2>1, <2>2
<1>4. SkillsTyped' /\ UsesTyped'
  BY <1>2, <1>3 DEF SkillsTyped, UsesTyped
<1>5. ASSUME NEW m \in SkillNames, NEW i \in 1..Len(history'[m])
      PROVE  \/ /\ i \in 1..Len(history[m]) /\ history'[m][i] = history[m][i]
                /\ applied'[m][i] = applied[m][i]
             \/ m = n /\ i = last /\ history'[m][i] = c /\ applied'[m][i] = content
  BY <1>1, <1>2, <1>3, <1>5
<1>6. CandidatesThere'
  <2>1. \A r \in reviews : r.candidate \in 1..Len(candidates')
    BY DEF CandidatesThere
  <2>2. ASSUME NEW m \in SkillNames, NEW i \in 1..Len(history'[m])
        PROVE  history'[m][i] \in 1..Len(candidates') /\ candidates'[history'[m][i]].name = m
    <3>1. CASE i \in 1..Len(history[m]) /\ history'[m][i] = history[m][i]
      <4>1. history[m][i] \in 1..Len(candidates) /\ candidates[history[m][i]].name = m
        BY <3>1 DEF CandidatesThere
      <4> QED BY <3>1, <4>1
    <3> QED BY <1>5, <2>2, <3>1
  <2> QED BY <2>1, <2>2 DEF CandidatesThere
<1>7. TrailTrue'
  <2>1. ASSUME NEW m \in SkillNames PROVE Len(applied'[m]) = Len(history'[m])
    BY <1>2, <1>3, <2>1 DEF TrailTrue
  <2>2. ASSUME NEW x, Approved(x)
        PROVE  \E r \in reviews : r.approved /\ candidates'[r.candidate].content = x
    BY <2>2 DEF Approved, CandidatesThere
  <2>3. ASSUME NEW m \in SkillNames, NEW i \in 1..Len(history'[m])
        PROVE  /\ applied'[m][i] = candidates'[history'[m][i]].content
               /\ \E r \in reviews : r.approved /\ candidates'[r.candidate].content = applied'[m][i]
    <3>1. CASE /\ i \in 1..Len(history[m]) /\ history'[m][i] = history[m][i]
               /\ applied'[m][i] = applied[m][i]
      <4>1. applied[m][i] = candidates[history[m][i]].content /\ Approved(applied[m][i])
        BY <3>1 DEF TrailTrue
      <4>2. history[m][i] \in 1..Len(candidates)
        BY <3>1 DEF CandidatesThere
      <4> QED BY <3>1, <4>1, <4>2, <2>2
    <3>2. CASE m = n /\ i = last /\ history'[m][i] = c /\ applied'[m][i] = content
      BY <3>2, <2>2
    <3> QED BY <1>5, <2>3, <3>1, <3>2
  <2> QED BY <2>1, <2>3 DEF TrailTrue, Approved
<1>8. VersionsNumbered'
  <2>1. ASSUME NEW m \in SkillNames, NEW i \in 1..Len(history'[m])
        PROVE  /\ VersionAt(m, i)' = candidates'[history'[m][i]].version
               /\ i <= VersionAt(m, i)' /\ VersionAt(m, i)' <= Len(history'[m])
               /\ history'[m][VersionAt(m, i)'] = history'[m][i]
    <3>0. PICK v : v = candidates'[history'[m][i]].version
      OBVIOUS
    <3> SUFFICES i <= v /\ v <= Len(history'[m]) /\ history'[m][v] = history'[m][i]
      BY <3>0 DEF VersionAt
    <3>1. CASE history'[m][i] = c
      <4>1. m = n
        <5>1. CASE i \in 1..Len(history[m]) /\ history'[m][i] = history[m][i]
          <6>1. c \in 1..Len(candidates) /\ candidates[c].name = m
            BY <3>1, <5>1 DEF CandidatesThere
          <6> QED BY <6>1
        <5> QED BY <1>5, <2>1, <5>1
      <4>2. v = last
        BY <3>0, <3>1
      <4> QED BY <4>1, <4>2, <3>1, <1>2
    <3>2. CASE history'[m][i] # c
      <4>1. i \in 1..Len(history[m]) /\ history'[m][i] = history[m][i]
        BY <1>5, <3>2
      <4>2. history[m][i] \in 1..Len(candidates)
        BY <4>1 DEF CandidatesThere
      <4>3. v = VersionAt(m, i)
        BY <3>0, <3>2, <4>1, <4>2 DEF VersionAt
      <4>4. i <= v /\ v <= Len(history[m]) /\ history[m][v] = history[m][i]
        BY <4>1, <4>3 DEF VersionsNumbered
      <4>5. v \in Nat
        <5>1. candidates[history[m][i]] \in Candidate
          BY <4>2 DEF SkillsTyped
        <5> QED BY <4>3, <5>1 DEF VersionAt, Candidate
      <4>6. v \in 1..Len(history[m]) /\ Len(history[m]) \in Nat
        <5>1. history[m] \in Seq(Nat) /\ i \in Nat /\ 1 <= i
          BY <4>1 DEF SkillsTyped
        <5> QED BY <4>4, <4>5, <5>1
      <4>7. history'[m][v] = history[m][v] /\ v <= Len(history'[m])
        <5>1. CASE m = n
          BY <4>6, <1>1, <1>2, <5>1
        <5>2. CASE m # n
          BY <4>6, <1>2, <5>2
        <5> QED BY <5>1, <5>2
      <4> QED BY <4>1, <4>4, <4>7
    <3> QED BY <3>1, <3>2
  <2> QED BY <2>1 DEF VersionsNumbered
<1>9. RestoredTrue'
  <2> SUFFICES ASSUME restored' # K!NoRollback
               PROVE  /\ restored'.name \in SkillNames
                      /\ restored'.asked \in 1..Len(applied'[restored'.name])
                      /\ restored'.content = applied'[restored'.name][restored'.asked]
    BY DEF RestoredTrue, K!NoRollback
  <2>1. /\ restored'.name \in SkillNames /\ restored'.asked \in 1..Len(applied[restored'.name])
        /\ restored'.content = applied[restored'.name][restored'.asked]
    BY DEF RestoredTrue, TrailTrue
  <2>2. Len(applied[n]) = Len(history[n])
    BY DEF TrailTrue
  <2>3. CASE restored'.name = n
    BY <1>1, <1>3, <2>1, <2>2, <2>3
  <2>4. CASE restored'.name # n
    BY <1>3, <2>1, <2>4
  <2> QED BY <2>3, <2>4
<1>10. K!RatesHonest'
  BY RatesKept
<1> QED BY <1>4, <1>6, <1>7, <1>8, <1>9, <1>10

LEMMA SkillsApply ==
  ASSUME SkillsInv, NEW r \in reviews, K!Apply(r)
  PROVE  SkillsInv'
<1>1. PICK c : c = r.candidate
  OBVIOUS
<1>2. PICK n : n = candidates[c].name
  OBVIOUS
<1>3. candidates \in Seq(Candidate) /\ c \in 1..Len(candidates) /\ r.approved
  BY <1>1 DEF SkillsInv, SkillsTyped, CandidatesThere, K!Apply
<1>4. candidates[c] \in Candidate /\ n \in SkillNames
  <2>1. candidates[c] \in Candidate
    BY <1>3
  <2> QED BY <1>2, <2>1 DEF Candidate
<1>5. PICK content \in Nat : content = candidates[c].content
  BY <1>4 DEF Candidate
<1>6. PICK last \in Nat : last = Len(history[n]) + 1
  BY <1>4 DEF SkillsInv, SkillsTyped
<1>7. /\ candidates' = [candidates EXCEPT ![c] = [candidates[c] EXCEPT !.version = last]]
      /\ history' = [history EXCEPT ![n] = Append(history[n], c)]
      /\ applied' = [applied EXCEPT ![n] = Append(applied[n], content)]
      /\ UNCHANGED <<reviews, records, reports, restored>>
  BY <1>1, <1>2, <1>5, <1>6 DEF K!Apply, K!Name, K!Remember
<1>8. /\ [candidates[c] EXCEPT !.version = last] \in Candidate
      /\ [candidates[c] EXCEPT !.version = last].name = n
      /\ [candidates[c] EXCEPT !.version = last].content = content
      /\ [candidates[c] EXCEPT !.version = last].version = last
  BY <1>2, <1>4, <1>5, <1>6 DEF Candidate
<1>9. /\ candidates' \in Seq(Candidate) /\ Len(candidates') = Len(candidates)
      /\ candidates'[c] = [candidates[c] EXCEPT !.version = last]
      /\ \A d \in 1..Len(candidates) : d # c => candidates'[d] = candidates[d]
  BY <1>3, <1>7, <1>8, ExceptSeq
<1>10. Approved(content)
  BY <1>1, <1>3, <1>5 DEF Approved
<1>11. \A d \in 1..Len(candidates) :
           /\ d \in 1..Len(candidates')
           /\ candidates'[d].name = candidates[d].name /\ candidates'[d].content = candidates[d].content
           /\ d # c => candidates'[d].version = candidates[d].version
  BY <1>2, <1>5, <1>8, <1>9
<1>12. c \in Nat /\ c \in 1..Len(candidates')
  BY <1>3, <1>9
<1>13. /\ candidates'[c].name = n /\ candidates'[c].content = content /\ candidates'[c].version = last
       /\ UNCHANGED restored /\ UNCHANGED <<reviews, records, reports>>
  BY <1>7, <1>8, <1>9
<1> QED BY <1>4, <1>5, <1>6, <1>7, <1>9, <1>10, <1>11, <1>12, <1>13, OneMoreVersion

LEMMA SkillsRollback ==
  ASSUME SkillsInv, NEW n \in SkillNames, NEW v \in 1..MaxCandidates, K!Rollback(n, v)
  PROVE  SkillsInv'
<1>0. PICK with : with = {i \in DOMAIN history[n] : candidates[history[n][i]].version = v}
  OBVIOUS
<1>1. history[n] \in Seq(Nat) /\ candidates \in Seq(Candidate) /\ MaxCandidates \in Nat
  BY PartsAssumption DEF SkillsInv, SkillsTyped, K!SkillsAssumption
<1>2. with \subseteq Nat /\ with # {} /\ with \subseteq 1..Len(history[n])
  <2>1. with # {}
    BY <1>0 DEF K!Rollback
  <2> QED BY <1>0, <1>1, <2>1
<1>3. PICK i \in with : i = K!Min(with)
  <2>1. \E x \in with : \A y \in with : x <= y
    BY <1>2, LeastNat
  <2> QED BY <2>1 DEF K!Min
<1>4. i \in 1..Len(history[n]) /\ candidates[history[n][i]].version = v
  BY <1>0, <1>1, <1>3
<1>5. PICK d \in 1..Len(candidates) : d = history[n][i] /\ candidates[d].name = n
  BY <1>4 DEF SkillsInv, CandidatesThere
<1>6. PICK found \in Candidate : found = candidates[d]
  BY <1>1
<1>7. PICK content \in Nat : content = found.content
  BY <1>6 DEF Candidate
<1>8. PICK last \in Nat : last = Len(history[n]) + 1
  BY <1>1
<1>9. PICK c \in Nat : c = Len(candidates) + 1
  BY <1>1
<1>10. PICK new : new = [found EXCEPT !.version = last]
  OBVIOUS
<1>11. new \in Candidate /\ new.name = n /\ new.content = content /\ new.version = last
  BY <1>5, <1>6, <1>7, <1>8, <1>10 DEF Candidate
<1>12. /\ candidates' = Append(candidates, new)
       /\ history' = [history EXCEPT ![n] = Append(history[n], c)]
       /\ applied' = [applied EXCEPT ![n] = Append(applied[n], content)]
       /\ restored' = [name |-> n, asked |-> v, content |-> content]
       /\ UNCHANGED <<reviews, records, reports>>
  <2>1. found = candidates[history[n][K!Min(with)]]
    BY <1>3, <1>5, <1>6
  <2> QED BY <2>1, <1>0, <1>7, <1>8, <1>9, <1>10 DEF K!Rollback, K!NextVersion, K!Remember
<1>13. /\ candidates' \in Seq(Candidate) /\ Len(candidates') = c /\ candidates'[c] = new
       /\ \A e \in 1..Len(candidates) : candidates'[e] = candidates[e]
  BY <1>1, <1>9, <1>11, <1>12, AppendProperties
<1>14. \A e \in 1..Len(candidates) :
           /\ e \in 1..Len(candidates')
           /\ candidates'[e].name = candidates[e].name /\ candidates'[e].content = candidates[e].content
           /\ e # c => candidates'[e].version = candidates[e].version
  BY <1>1, <1>9, <1>13
<1>15. VersionAt(n, i) = v
  BY <1>4 DEF VersionAt
<1>16. v \in 1..Len(history[n]) /\ history[n][v] = d
  <2>1. v <= Len(history[n]) /\ history[n][v] = history[n][i]
    BY <1>4, <1>15 DEF SkillsInv, VersionsNumbered
  <2> QED BY <1>1, <1>5, <2>1
<1>17. applied[n][v] = content /\ Approved(content)
  BY <1>6, <1>7, <1>16 DEF SkillsInv, TrailTrue
<1>18. /\ restored'.name = n /\ restored'.asked \in 1..Len(history[n])
       /\ restored'.content = applied[n][restored'.asked]
  BY <1>12, <1>16, <1>17
<1>19. c \in 1..Len(candidates')
  BY <1>9, <1>13
<1> QED BY <1>7, <1>8, <1>11, <1>12, <1>13, <1>14, <1>17, <1>18, <1>19, OneMoreVersion

-----------------------------------------------------------------------------
(* The skills in any order.                                                *)
Listings == {s \in [1..Cardinality(SkillNames) -> SkillNames] : K!IsInjective(s)}

LEMMA NamesInSequence ==
  ASSUME NEW skills \in Listings
  PROVE  skills \in Seq(SkillNames) /\ IsFiniteSet(DOMAIN skills)
<1>1. IsFiniteSet(SkillNames)
  BY PartsAssumption, SkillsCardinality DEF K!SkillsAssumption
<1>2. PICK m \in Nat : m = Cardinality(SkillNames)
  BY <1>1, FS_CardinalityType
<1>3. skills \in [1..m -> SkillNames]
  BY <1>2 DEF Listings
<1>4. IsFiniteSet(1..m)
  BY <1>2, FS_Interval
<1> QED BY <1>3, <1>4

(* Uses that are opened change no rate.                                    *)
LEMMA SkillsSelection ==
  ASSUME SkillsInv, NEW skills \in Listings, NEW score, K!RecordSelection(skills, score)
  PROVE  SkillsInv'
<1> USE DEF SkillsInv
<1>1. PICK chosen : chosen = K!InOrderOf(skills, score, K!Selected(skills, score))
  OBVIOUS
<1>2. PICK m \in Nat : m = K!Cardinality(K!Selected(skills, score))
  <2>1. IsFiniteSet(DOMAIN skills) /\ K!Selected(skills, score) \subseteq DOMAIN skills
    BY NamesInSequence DEF K!Selected
  <2> QED BY <2>1, FS_Subset, FS_CardinalityType, SkillsCardinality
<1>3. DOMAIN chosen = 1..m
  BY <1>1, <1>2 DEF K!InOrderOf
<1> DEFINE added == [i \in 1..m |-> [name |-> skills[chosen[i]], succeeded |-> "open"]]
<1>4. records' = records \o added
  BY <1>1, <1>3 DEF K!RecordSelection
<1>5. UNCHANGED <<candidates, reviews, history, reports, applied, restored>>
  BY DEF K!RecordSelection
<1>6. PICK names : records \in Seq(UseOf(names))
  BY DEF UsesTyped
<1>7. PICK all : all = names \cup {skills[chosen[i]] : i \in 1..m}
  OBVIOUS
<1>8. PICK Uses : Uses = UseOf(all)
  OBVIOUS
<1>9. records \in Seq(Uses) /\ added \in Seq(Uses) /\ Len(added) = m
  <2>1. UseOf(names) \subseteq Uses
    BY <1>7, <1>8 DEF UseOf
  <2>2. records \in Seq(Uses)
    BY <1>6, <2>1
  <2>3. \A i \in 1..m : [name |-> skills[chosen[i]], succeeded |-> "open"] \in Uses
    BY <1>7, <1>8 DEF UseOf
  <2>4. added \in [1..m -> Uses]
    BY <2>3
  <2> HIDE DEF added
  <2> QED BY <2>2, <2>4
<1>10. /\ records' \in Seq(Uses) /\ Len(records') = Len(records) + m
       /\ \A i \in 1..Len(records) : records'[i] = records[i]
       /\ \A i \in (Len(records) + 1)..(Len(records) + m) : records'[i].succeeded = "open"
  <2>1. \A i \in 1..m : added[i].succeeded = "open"
    OBVIOUS
  <2> HIDE DEF added
  <2>2. records' \in Seq(Uses) /\ Len(records') = Len(records) + m
    BY <1>4, <1>9, ConcatProperties
  <2>3. \A i \in 1..(Len(records) + m) :
           (records \o added)[i] = IF i <= Len(records) THEN records[i] ELSE added[i - Len(records)]
    BY <1>9, ConcatProperties
  <2>4. Len(records) \in Nat
    BY <1>9
  <2>5. \A i \in 1..Len(records) : records'[i] = records[i]
    BY <1>4, <2>3, <2>4
  <2>6. ASSUME NEW i \in (Len(records) + 1)..(Len(records) + m)
        PROVE  records'[i].succeeded = "open"
    <3>1. i - Len(records) \in 1..m /\ i \in 1..(Len(records) + m) /\ ~(i <= Len(records))
      BY <2>4
    <3>2. records'[i] = added[i - Len(records)]
      BY <1>4, <2>3, <3>1
    <3> QED BY <2>1, <3>1, <3>2
  <2> QED BY <2>2, <2>5, <2>6
<1> HIDE DEF added
<1>11. ASSUME NEW n \in SkillNames
       PROVE  K!Closed(n)' = K!Closed(n) /\ K!Successes(n)' = K!Successes(n)
  <2>1. DOMAIN records = 1..Len(records) /\ DOMAIN records' = 1..(Len(records) + m) /\ Len(records) \in Nat
    BY <1>9, <1>10
  <2>2. ASSUME NEW i \in 1..(Len(records) + m), records'[i].succeeded # "open"
        PROVE  i \in 1..Len(records)
    BY <1>10, <2>1, <2>2
  <2>3. K!Closed(n)' = K!Closed(n)
    BY <1>10, <2>1, <2>2 DEF K!Closed
  <2>4. K!Successes(n)' = K!Successes(n)
    <3>1. \A i \in K!Closed(n) : records'[i] = records[i]
      BY <1>10, <2>1 DEF K!Closed
    <3> QED BY <2>3, <3>1 DEF K!Successes
  <2> QED BY <2>3, <2>4
<1>12. K!RatesHonest'
  BY <1>5, <1>11 DEF K!RatesHonest
<1>13. CandidatesThere' /\ TrailTrue' /\ VersionsNumbered' /\ RestoredTrue'
  BY <1>5 DEF CandidatesThere, TrailTrue, Approved, VersionsNumbered, VersionAt, RestoredTrue
<1>14. SkillsTyped' /\ UsesTyped'
  BY <1>5, <1>8, <1>10 DEF SkillsTyped, UsesTyped
<1> QED BY <1>12, <1>13, <1>14

(* An outcome closes one record of the skill and is one report of it.      *)
LEMMA SkillsOutcome ==
  ASSUME SkillsInv, NEW n \in SkillNames, NEW s \in {"yes", "no"}, K!RecordOutcome(n, s)
  PROVE  SkillsInv'
<1> USE DEF SkillsInv
<1>1. UNCHANGED <<candidates, reviews, history, applied, restored>>
  BY DEF K!RecordOutcome
<1>2. PICK names : records \in Seq(UseOf(names))
  BY DEF UsesTyped
<1>3. PICK Uses : Uses = UseOf(names)
  OBVIOUS
<1>4. records \in Seq(Uses) /\ Len(records) \in Nat /\ DOMAIN records = 1..Len(records)
  BY <1>2, <1>3
<1>5. K!Open(n) \in SUBSET (0..Len(records)) /\ K!Open(n) # {}
  BY <1>4 DEF K!Open, K!RecordOutcome
<1>6. PICK i : i = K!Max(K!Open(n))
  OBVIOUS
<1>7. i \in K!Open(n)
  <2>1. \E x \in K!Open(n) : \A y \in K!Open(n) : x >= y
    BY <1>4, <1>5, GreatestNat
  <2> QED BY <1>6, <2>1 DEF K!Max
<1>8. i \in 1..Len(records) /\ records[i].name = n /\ records[i].succeeded = "open"
  BY <1>4, <1>7 DEF K!Open
<1>9. records' = [records EXCEPT ![i] = [records[i] EXCEPT !.succeeded = s]]
  BY <1>6 DEF K!RecordOutcome
<1>10. /\ [records[i] EXCEPT !.succeeded = s] \in Uses
       /\ [records[i] EXCEPT !.succeeded = s].name = n
       /\ [records[i] EXCEPT !.succeeded = s].succeeded = s
  <2>1. records[i] \in UseOf(names)
    BY <1>2, <1>8
  <2> QED BY <1>3, <1>8, <2>1 DEF Outcomes, UseOf
<1>11. /\ records' \in Seq(Uses) /\ Len(records') = Len(records)
       /\ records'[i].name = n /\ records'[i].succeeded = s
       /\ \A j \in 1..Len(records) : j # i => records'[j] = records[j]
  BY <1>4, <1>8, <1>9, <1>10, ExceptSeq
<1>12. PICK report : report = [name |-> n, succeeded |-> s]
  OBVIOUS
<1>13. PICK last \in Nat : last = Len(reports) + 1
  BY DEF UsesTyped
<1>14. PICK Reports : Reports = ReportOf(SkillNames)
  OBVIOUS
<1>15. reports \in Seq(Reports) /\ report \in Reports /\ report.name = n /\ report.succeeded = s
  BY <1>12, <1>14 DEF UsesTyped, Outcomes, ReportOf
<1>16. /\ reports' \in Seq(Reports) /\ Len(reports') = last /\ reports'[last] = report
       /\ \A j \in 1..Len(reports) : reports'[j] = reports[j]
  <2>1. reports' = Append(reports, report)
    BY <1>12 DEF K!RecordOutcome
  <2> QED BY <1>13, <1>15, <2>1, AppendProperties
<1>17. SkillsTyped' /\ UsesTyped'
  BY <1>1, <1>3, <1>11, <1>14, <1>16 DEF SkillsTyped, UsesTyped
<1>18. CandidatesThere' /\ TrailTrue' /\ VersionsNumbered' /\ RestoredTrue'
  BY <1>1 DEF CandidatesThere, TrailTrue, Approved, VersionsNumbered, VersionAt, RestoredTrue
<1>19. K!RatesHonest'
  <2> SUFFICES ASSUME NEW m \in SkillNames
               PROVE  /\ Cardinality(K!Closed(m)') = Cardinality({j \in DOMAIN reports' : reports'[j].name = m})
                      /\ Cardinality(K!Successes(m)')
                           = Cardinality({j \in {j \in DOMAIN reports' : reports'[j].name = m} : reports'[j].succeeded = "yes"})
    BY SkillsCardinality DEF K!RatesHonest
  <2> DEFINE of == {j \in DOMAIN reports : reports[j].name = m}
             won == {j \in of : reports[j].succeeded = "yes"}
             ofNext == {j \in DOMAIN reports' : reports'[j].name = m}
             wonNext == {j \in ofNext : reports'[j].succeeded = "yes"}
  <2>1. Cardinality(K!Closed(m)) = Cardinality(of) /\ Cardinality(K!Successes(m)) = Cardinality(won)
    BY SkillsCardinality DEF K!RatesHonest
  <2>2. DOMAIN records' = 1..Len(records) /\ DOMAIN reports = 1..Len(reports) /\ DOMAIN reports' = 1..last
        /\ Len(reports) \in Nat
    BY <1>11, <1>15, <1>16
  <2>3. \A j \in 1..last : j \in 1..Len(reports) \/ j = last
    BY <1>13, <2>2
  <2>4. last \notin 1..Len(reports) /\ \A j \in 1..Len(reports) : j \in 1..last
    BY <1>13, <2>2
  <2>5. CASE m # n
    <3>1. K!Closed(m)' = K!Closed(m) /\ K!Successes(m)' = K!Successes(m)
      <4>1. K!Closed(m)' = K!Closed(m)
        BY <1>4, <1>8, <1>11, <2>2, <2>5 DEF K!Closed
      <4>2. \A j \in K!Closed(m) : records'[j] = records[j]
        BY <1>4, <1>8, <1>11, <2>5 DEF K!Closed
      <4> QED BY <4>1, <4>2 DEF K!Successes
    <3>2. ofNext = of
      BY <1>15, <1>16, <2>2, <2>3, <2>4, <2>5
    <3>3. wonNext = won
      <4>1. \A j \in of : reports'[j] = reports[j]
        BY <1>16, <2>2
      <4> HIDE DEF of, ofNext
      <4> QED BY <3>2, <4>1
    <3> QED BY <2>1, <3>1, <3>2, <3>3
  <2>6. CASE m = n
    <3>1. K!Closed(m)' = K!Closed(m) \cup {i} /\ i \notin K!Closed(m)
      BY <1>4, <1>8, <1>11, <2>2, <2>6 DEF K!Closed
    <3>2. K!Successes(m)' = IF s = "yes" THEN K!Successes(m) \cup {i} ELSE K!Successes(m)
      <4>1. \A j \in K!Closed(m) : records'[j] = records[j]
        BY <1>4, <1>11, <3>1 DEF K!Closed
      <4> QED BY <1>11, <3>1, <4>1 DEF K!Successes
    <3>3. ofNext = of \cup {last} /\ last \notin of
      <4>1. reports'[last].name = m /\ last \in 1..last
        BY <1>13, <1>15, <1>16, <2>6
      <4>2. last \in ofNext /\ last \notin of
        BY <2>2, <2>4, <4>1
      <4>3. \A j \in of : j \in ofNext
        BY <1>16, <2>2, <2>4
      <4>4. \A j \in ofNext : j \in of \/ j = last
        BY <1>16, <2>2, <2>3
      <4> HIDE DEF of, ofNext
      <4> QED BY <4>2, <4>3, <4>4
    <3>4. wonNext = IF s = "yes" THEN won \cup {last} ELSE won
      <4>1. \A j \in of : reports'[j] = reports[j]
        BY <1>16, <2>2
      <4> HIDE DEF of, ofNext
      <4> QED BY <1>15, <1>16, <3>3, <4>1
    <3>5. i \notin K!Successes(m) /\ last \notin won
      BY <3>1, <3>3 DEF K!Successes
    <3>6. IsFiniteSet(K!Closed(m)) /\ IsFiniteSet(K!Successes(m)) /\ IsFiniteSet(of) /\ IsFiniteSet(won)
      <4>1. IsFiniteSet(1..Len(records)) /\ IsFiniteSet(1..Len(reports))
        BY <1>4, <2>2, FS_Interval
      <4>2. K!Closed(m) \subseteq 1..Len(records) /\ K!Successes(m) \subseteq 1..Len(records)
        BY <1>4 DEF K!Closed, K!Successes
      <4>3. of \subseteq 1..Len(reports) /\ won \subseteq 1..Len(reports)
        BY <2>2
      <4> HIDE DEF of, won
      <4> QED BY <4>1, <4>2, <4>3, FS_Subset
    <3> HIDE DEF of, won, ofNext, wonNext
    <3>7. Cardinality(K!Closed(m)') = Cardinality(ofNext)
      <4>1. Cardinality(K!Closed(m) \cup {i}) = Cardinality(K!Closed(m)) + 1
        BY <3>1, <3>6, FS_AddElement
      <4>2. Cardinality(of \cup {last}) = Cardinality(of) + 1
        BY <3>3, <3>6, FS_AddElement
      <4> QED BY <2>1, <3>1, <3>3, <4>1, <4>2
    <3>8. Cardinality(K!Successes(m)') = Cardinality(wonNext)
      <4>1. CASE s = "yes"
        <5>1. Cardinality(K!Successes(m) \cup {i}) = Cardinality(K!Successes(m)) + 1
          BY <3>5, <3>6, FS_AddElement
        <5>2. Cardinality(won \cup {last}) = Cardinality(won) + 1
          BY <3>5, <3>6, FS_AddElement
        <5> QED BY <2>1, <3>2, <3>4, <4>1, <5>1, <5>2
      <4>2. CASE s # "yes"
        BY <2>1, <3>2, <3>4, <4>2
      <4> QED BY <4>1, <4>2
    <3> QED BY <3>7, <3>8 DEF ofNext, wonNext, of, won
  <2> QED BY <2>5, <2>6
<1> QED BY <1>17, <1>18, <1>19

-----------------------------------------------------------------------------
LEMMA SkillsStep ==
  ASSUME SkillsInv, K!Next
  PROVE  SkillsInv'
<1>1. ASSUME NEW a \in K!Analysis, NEW n \in SkillNames, K!GenerateSkillCandidate(a, n) PROVE SkillsInv'
  BY <1>1, SkillsGenerate
<1>2. ASSUME NEW c \in DOMAIN candidates, NEW approve \in BOOLEAN, K!Review(c, approve) PROVE SkillsInv'
  BY <1>2, SkillsReview
<1>3. ASSUME NEW r \in reviews, K!Apply(r) PROVE SkillsInv'
  BY <1>3, SkillsApply
<1>4. ASSUME NEW n \in SkillNames, NEW v \in 1..MaxCandidates, K!Rollback(n, v) PROVE SkillsInv'
  BY <1>4, SkillsRollback
<1>5. ASSUME NEW skills \in Listings, NEW score, K!RecordSelection(skills, score) PROVE SkillsInv'
  BY <1>5, SkillsSelection
<1>6. ASSUME NEW n \in SkillNames, NEW s \in {"yes", "no"}, K!RecordOutcome(n, s) PROVE SkillsInv'
  BY <1>6, SkillsOutcome
<1>7. {s \in [1..K!Cardinality(SkillNames) -> SkillNames] : K!IsInjective(s)} = Listings
  BY SkillsCardinality DEF Listings
<1> QED BY <1>1, <1>2, <1>3, <1>4, <1>5, <1>6, <1>7 DEF K!Next

(* SkillRegistry and SkillUsageTracker: whatever is applied, applied again *)
(* and rolled back, each version keeps what was approved, a rollback gives *)
(* what the version asked for had, and success rates count what was        *)
(* reported.                                                               *)
THEOREM SkillsAlwaysAudited == Spec => []SkillsAudited
<1>1. Init => SkillsInv
  BY SkillsInit DEF Init, Started
<1>2. SkillsInv /\ [Next]_vars => SkillsInv'
  <2> SUFFICES ASSUME SkillsInv, [Next]_vars PROVE SkillsInv'
    OBVIOUS
  <2>1. CASE K!Next
    BY <2>1, SkillsStep
  <2>2. CASE UNCHANGED skillsVars
    BY <2>2, SkillsStutter
  <2> QED BY <2>1, <2>2 DEF Next, Alone, StandStill, vars
<1>3. SkillsInv => SkillsAudited
  BY SkillsGives DEF SkillsAudited
<1> QED BY <1>1, <1>2, <1>3, PTL DEF Spec

-----------------------------------------------------------------------------
(***************************************************************************)
(* MemoryStore: while no call meets the migration, the two threads are in  *)
(* the migration one at a time, and what they write differs in its text.   *)
(***************************************************************************)

Memories == [E!Ids -> E!Memory \cup {E!NoMemory}]
Phases ==
  {"idle", "ensure", "saved", "backed", "rebuilding", "swapped", "check", "row", "vector", "commit"}
CallOf(ids) ==
  [op : {"write", "update", "delete"}, type : E!Types, id : ids,
   cwd : {"any", "here", "there"}, text : 1..MaxTexts]
ScriptsOf(ids) == [E!Threads -> Seq(CallOf(ids))]

StoreTyped ==
  /\ disk \in E!Tables /\ (work = E!NoWork \/ work \in E!Tables) /\ backup \in E!Tables
  /\ rebuilt \in Memories /\ kept \in Memories
  /\ texts \in 0..MaxTexts /\ owner \in [1..MaxTexts -> Nat]
  /\ phase \in [E!Threads -> Phases]

ScriptsTyped == \E ids : script \in ScriptsOf(ids)

(* A call of another thread has another text, and after the first call of  *)
(* a script only deletions come.                                           *)
ScriptsPlaced ==
  \A t \in E!Threads :
    /\ phase[t] # "idle" => script[t] # <<>>
    /\ phase[t] = "vector" => script[t][1].id \in E!Ids
    /\ \A k \in 1..Len(script[t]) :
         /\ script[t][k].text <= texts
         /\ k # 1 => script[t][k].op = "delete"
         /\ \A u \in E!Threads : u # t =>
              \A m \in 1..Len(script[u]) : script[u][m].text # script[t][k].text

(* The call has a text whose row is not there yet.                         *)
ToWrite(t) ==
  script[t] # <<>> /\ script[t][1].op # "delete" /\ phase[t] \notin {"vector", "commit"}

OwnedVectors(vec) ==
  \A i \in E!Ids : vec[i] # 0 =>
    /\ vec[i] <= texts /\ owner[vec[i]] = i
    /\ \A t \in E!Threads : ToWrite(t) => vec[i] # script[t][1].text

(* While a thread is in the migration the other one does nothing.          *)
MigratesAlone(t) ==
  phase[t] \in {"saved", "backed", "rebuilding", "swapped"} =>
    /\ \A u \in E!Threads : u # t => phase[u] = "idle"
    /\ phase[t] \in {"saved", "backed"} => work = E!NoWork
    /\ phase[t] = "rebuilding" => rebuilt = E!Current.mem

RowOwned(t) ==
  phase[t] = "vector" /\ script[t][1].op # "delete" => owner[script[t][1].text] = script[t][1].id

Undisturbed ==
  /\ E!Current.mem = kept /\ OwnedVectors(disk.vec) /\ OwnedVectors(E!Current.vec)
  /\ \A t \in E!Threads : MigratesAlone(t) /\ RowOwned(t)

MemoryInv == StoreTyped /\ ScriptsTyped /\ ScriptsPlaced /\ (~raced => Undisturbed)

LEMMA MemoryBounds == MaxIds \in Nat /\ MaxTexts \in Nat /\ MaxIds >= 2 /\ MaxTexts >= 2
BY PartsAssumption DEF E!MemoryAssumption

LEMMA OtherThread ==
  ASSUME NEW t \in E!Threads
  PROVE  /\ E!Other(t) \in E!Threads /\ E!Other(t) # t
         /\ \A u \in E!Threads : u # t => u = E!Other(t)
BY DEF E!Other, E!Threads

(* The tables as they are now have the type of tables.                     *)
LEMMA CurrentTyped ==
  ASSUME StoreTyped
  PROVE  /\ E!Current \in E!Tables /\ E!NoWork \notin E!Tables
         /\ work = E!NoWork => E!Current = disk
         /\ work # E!NoWork => E!Current = work
<1>1. \A tables \in E!Tables : tables.next # 0
  BY DEF E!Tables
<1>2. E!NoWork \notin E!Tables
  BY <1>1 DEF E!NoWork
<1> QED BY <1>2 DEF StoreTyped, E!Current

LEMMA TablesParts ==
  ASSUME NEW tables \in E!Tables
  PROVE  /\ tables.next \in 1..(MaxIds + 1) /\ tables.soul \in BOOLEAN
         /\ tables.vec \in [E!Ids -> 0..MaxTexts] /\ tables.mem \in Memories
BY DEF E!Tables, Memories

LEMMA TablesWith ==
  ASSUME NEW tables \in E!Tables, NEW vec \in [E!Ids -> 0..MaxTexts], NEW mem \in Memories,
         NEW next \in 1..(MaxIds + 1), NEW soul \in BOOLEAN,
         NEW new, new = [tables EXCEPT !.mem = mem, !.vec = vec, !.next = next, !.soul = soul]
  PROVE  new \in E!Tables /\ new.mem = mem /\ new.vec = vec
BY DEF E!Tables, Memories

LEMMA ScriptTyped ==
  ASSUME NEW ids, NEW sc \in ScriptsOf(ids), NEW t \in E!Threads
  PROVE  /\ sc[t] \in Seq(CallOf(ids)) /\ Len(sc[t]) \in Nat /\ DOMAIN sc[t] = 1..Len(sc[t])
         /\ sc[t] # <<>> => /\ 1 \in 1..Len(sc[t]) /\ Head(sc[t]) = sc[t][1]
                            /\ sc[t][1] \in CallOf(ids)
BY DEF ScriptsOf

LEMMA CallParts ==
  ASSUME NEW ids, NEW call \in CallOf(ids)
  PROVE  /\ call.op \in {"write", "update", "delete"} /\ call.type \in E!Types
         /\ call.id \in ids /\ call.cwd \in {"any", "here", "there"} /\ call.text \in 1..MaxTexts
BY DEF CallOf

-----------------------------------------------------------------------------
(* What keeps the memories, and only moves vectors between the tables in   *)
(* the file and those of the transaction, keeps them undisturbed.          *)
LEMMA StaysUndisturbed ==
  ASSUME StoreTyped, Undisturbed, UNCHANGED owner, texts' \in Nat, texts <= texts',
         kept' = E!Current'.mem,
         disk'.vec = disk.vec \/ disk'.vec = E!Current.vec,
         E!Current'.vec = disk.vec \/ E!Current'.vec = E!Current.vec,
         \A u \in E!Threads : ToWrite(u)' =>
           \/ ToWrite(u) /\ script'[u][1].text = script[u][1].text
           \/ script'[u][1].text > texts,
         \A u \in E!Threads : phase'[u] = "vector" =>
           phase[u] = "vector" /\ script'[u][1] = script[u][1],
         \A u \in E!Threads : MigratesAlone(u)'
  PROVE  Undisturbed'
<1>1. ASSUME NEW vec \in [E!Ids -> 0..MaxTexts], OwnedVectors(vec)
      PROVE  \A i \in E!Ids : vec[i] # 0 =>
               /\ vec[i] <= texts' /\ owner'[vec[i]] = i
               /\ \A t \in E!Threads : ToWrite(t)' => vec[i] # script'[t][1].text
  <2> SUFFICES ASSUME NEW i \in E!Ids, vec[i] # 0
               PROVE  /\ vec[i] <= texts' /\ owner'[vec[i]] = i
                      /\ \A t \in E!Threads : ToWrite(t)' => vec[i] # script'[t][1].text
    OBVIOUS
  <2>1. /\ vec[i] <= texts /\ owner[vec[i]] = i
        /\ \A t \in E!Threads : ToWrite(t) => vec[i] # script[t][1].text
    BY <1>1 DEF OwnedVectors
  <2>2. vec[i] \in Nat /\ texts \in Nat
    BY MemoryBounds DEF StoreTyped
  <2>3. vec[i] <= texts'
    BY <2>1, <2>2
  <2>4. ASSUME NEW t \in E!Threads, ToWrite(t)' PROVE vec[i] # script'[t][1].text
    BY <2>1, <2>2, <2>4
  <2> QED BY <2>1, <2>3, <2>4
<1>2. disk.vec \in [E!Ids -> 0..MaxTexts] /\ E!Current.vec \in [E!Ids -> 0..MaxTexts]
  BY CurrentTyped, TablesParts DEF StoreTyped
<1>3. OwnedVectors(disk.vec) /\ OwnedVectors(E!Current.vec)
  BY DEF Undisturbed
<1>4. OwnedVectors(disk.vec)'
  <2>1. PICK vec \in [E!Ids -> 0..MaxTexts] : vec = disk'.vec /\ OwnedVectors(vec)
    BY <1>2, <1>3
  <2> QED BY <1>1, <2>1 DEF OwnedVectors
<1>5. OwnedVectors(E!Current.vec)'
  <2>1. PICK vec \in [E!Ids -> 0..MaxTexts] : vec = E!Current'.vec /\ OwnedVectors(vec)
    BY <1>2, <1>3
  <2> QED BY <1>1, <2>1 DEF OwnedVectors
<1>6. ASSUME NEW t \in E!Threads PROVE RowOwned(t)'
  BY DEF RowOwned, Undisturbed
<1> QED BY <1>4, <1>5, <1>6 DEF Undisturbed

(* A thread goes to another place of its call.                             *)
LEMMA ScriptsGo ==
  ASSUME StoreTyped, ScriptsPlaced, NEW t \in E!Threads, script[t] # <<>>,
         NEW to \in Phases \ {"vector", "commit"}, phase[t] \notin {"vector", "commit"},
         phase' = [phase EXCEPT ![t] = to],
         UNCHANGED <<script, texts>>
  PROVE  /\ ScriptsPlaced' /\ phase' \in [E!Threads -> Phases]
         /\ \A u \in E!Threads : ToWrite(u)' => ToWrite(u)
         /\ \A u \in E!Threads : phase'[u] = "vector" => phase[u] = "vector"
<1>1. /\ phase' \in [E!Threads -> Phases] /\ phase'[t] = to
      /\ \A u \in E!Threads : u # t => phase'[u] = phase[u]
  BY DEF StoreTyped
<1>2. \A u \in E!Threads : phase'[u] = "vector" => phase[u] = "vector"
  BY <1>1
<1>3. \A u \in E!Threads : phase'[u] # "idle" => script[u] # <<>>
  BY <1>1 DEF ScriptsPlaced
<1>4. ScriptsPlaced'
  BY <1>2, <1>3 DEF ScriptsPlaced
<1>5. \A u \in E!Threads : ToWrite(u)' => ToWrite(u)
  BY <1>1 DEF ToWrite
<1> QED BY <1>1, <1>2, <1>4, <1>5

(* A thread ends a call, or with it all that were to follow.               *)
LEMMA ScriptsEnd ==
  ASSUME StoreTyped, ScriptsTyped, ScriptsPlaced, NEW t \in E!Threads,
         NEW rest, rest = <<>> \/ (script[t] # <<>> /\ rest = Tail(script[t])),
         phase' = [phase EXCEPT ![t] = "idle"], script' = [script EXCEPT ![t] = rest],
         UNCHANGED texts
  PROVE  /\ ScriptsTyped' /\ ScriptsPlaced' /\ phase' \in [E!Threads -> Phases]
         /\ \A u \in E!Threads : ToWrite(u)' => ToWrite(u) /\ script'[u][1] = script[u][1]
         /\ \A u \in E!Threads : phase'[u] = "vector" =>
              phase[u] = "vector" /\ script'[u][1] = script[u][1]
<1>1. /\ phase' \in [E!Threads -> Phases] /\ phase'[t] = "idle"
      /\ \A u \in E!Threads : u # t => phase'[u] = phase[u]
  BY DEF StoreTyped, Phases
<1>2. PICK ids : script \in ScriptsOf(ids)
  BY DEF ScriptsTyped
<1>3. rest \in Seq(CallOf(ids)) /\ \A k \in 1..Len(rest) : k + 1 \in 1..Len(script[t]) /\ rest[k] = script[t][k + 1] /\ k + 1 # 1
  <2>1. CASE rest = <<>>
    BY <2>1
  <2>2. CASE script[t] # <<>> /\ rest = Tail(script[t])
    <3>1. script[t] \in Seq(CallOf(ids))
      BY <1>2, ScriptTyped
    <3> QED BY <2>2, <3>1
  <2> QED BY <2>1, <2>2
<1>4. script' \in ScriptsOf(ids) /\ script'[t] = rest /\ \A u \in E!Threads : u # t => script'[u] = script[u]
  BY <1>2, <1>3 DEF ScriptsOf
<1>5. ScriptsTyped'
  BY <1>4 DEF ScriptsTyped
<1>6. ASSUME NEW u \in E!Threads, NEW k \in 1..Len(script'[u])
      PROVE  \E m \in 1..Len(script[u]) : script'[u][k] = script[u][m] /\ (k # 1 => m # 1) /\ (u = t => m # 1)
  <2>1. CASE u = t
    BY <1>3, <1>4, <1>6, <2>1
  <2>2. CASE u # t
    BY <1>4, <1>6, <2>2
  <2> QED BY <2>1, <2>2
<1>7. ScriptsPlaced'
  <2> SUFFICES ASSUME NEW u \in E!Threads
               PROVE  /\ phase'[u] # "idle" => script'[u] # <<>>
                      /\ phase'[u] = "vector" => script'[u][1].id \in E!Ids
                      /\ \A k \in 1..Len(script'[u]) :
                           /\ script'[u][k].text <= texts'
                           /\ k # 1 => script'[u][k].op = "delete"
                           /\ \A v \in E!Threads : v # u =>
                                \A m \in 1..Len(script'[v]) : script'[v][m].text # script'[u][k].text
    BY DEF ScriptsPlaced
  <2>1. (phase'[u] # "idle" => script'[u] # <<>>) /\ (phase'[u] = "vector" => script'[u][1].id \in E!Ids)
    BY <1>1, <1>4 DEF ScriptsPlaced
  <2>2. ASSUME NEW k \in 1..Len(script'[u]) 
        PROVE  script'[u][k].text <= texts' /\ (k # 1 => script'[u][k].op = "delete")
    <3>1. PICK j \in 1..Len(script[u]) : script'[u][k] = script[u][j] /\ (k # 1 => j # 1)
      BY <1>6, <2>2
    <3> QED BY <3>1 DEF ScriptsPlaced
  <2>3. ASSUME NEW k \in 1..Len(script'[u]), NEW v \in E!Threads, v # u, NEW m \in 1..Len(script'[v])
        PROVE  script'[v][m].text # script'[u][k].text
    <3>1. PICK j \in 1..Len(script[u]) : script'[u][k] = script[u][j]
      BY <1>6, <2>3
    <3>2. PICK n \in 1..Len(script[v]) : script'[v][m] = script[v][n]
      BY <1>6, <2>3
    <3> QED BY <3>1, <3>2, <2>3 DEF ScriptsPlaced
  <2> QED BY <2>1, <2>2, <2>3
<1>8. ~ToWrite(t)'
  <2>1. ASSUME script'[t] # <<>> PROVE script'[t][1].op = "delete"
    <3>1. 1 \in 1..Len(script'[t])
      BY <1>4, <2>1, ScriptTyped
    <3>2. PICK m \in 1..Len(script[t]) : script'[t][1] = script[t][m] /\ m # 1
      BY <1>6, <3>1
    <3> QED BY <3>2 DEF ScriptsPlaced
  <2> QED BY <2>1 DEF ToWrite
<1>9. \A u \in E!Threads : ToWrite(u)' => ToWrite(u) /\ script'[u][1] = script[u][1]
  BY <1>1, <1>4, <1>8 DEF ToWrite
<1>10. \A u \in E!Threads : phase'[u] = "vector" => phase[u] = "vector" /\ script'[u][1] = script[u][1]
  BY <1>1, <1>4
<1> QED BY <1>1, <1>5, <1>7, <1>9, <1>10

-----------------------------------------------------------------------------
LEMMA MemoryStartCall ==
  ASSUME MemoryInv, NEW t \in E!Threads, E!StartCall(t)
  PROVE  MemoryInv'
<1> USE DEF MemoryInv
<1>1. /\ phase[t] = "idle" /\ script[t] # <<>>
      /\ raced' = (raced \/ E!Migrating(E!Other(t)))
      /\ UNCHANGED <<disk, work, backup, script, rebuilt, texts, kept, owner>>
  BY DEF E!StartCall
<1>2. PICK to \in {"check", "ensure", "row"} : phase' = [phase EXCEPT ![t] = to]
  BY DEF E!StartCall, E!Goes
<1>3. /\ ScriptsPlaced' /\ phase' \in [E!Threads -> Phases]
      /\ \A u \in E!Threads : ToWrite(u)' => ToWrite(u)
      /\ \A u \in E!Threads : phase'[u] = "vector" => phase[u] = "vector"
  <2>1. to \in Phases \ {"vector", "commit"}
    BY DEF Phases
  <2> QED BY <1>1, <1>2, <2>1, ScriptsGo
<1>4. StoreTyped' /\ ScriptsTyped'
  BY <1>1, <1>3 DEF StoreTyped, ScriptsTyped
<1>5. E!Current' = E!Current
  BY <1>1 DEF E!Current
<1>6. ASSUME ~raced' PROVE Undisturbed'
  <2>1. Undisturbed /\ phase[E!Other(t)] \notin {"saved", "backed", "rebuilding", "swapped"}
    BY <1>1, <1>6 DEF E!Migrating
  <2>2. \A u \in E!Threads : phase'[u] \notin {"saved", "backed", "rebuilding", "swapped"}
    BY <1>2, <2>1, OtherThread DEF StoreTyped
  <2>3. \A u \in E!Threads : MigratesAlone(u)'
    BY <2>2 DEF MigratesAlone
  <2>4. texts' \in Nat /\ texts <= texts'
    BY <1>1, MemoryBounds DEF StoreTyped
  <2>5. kept' = E!Current'.mem
    BY <1>1, <1>5, <2>1 DEF Undisturbed
  <2> QED BY <1>1, <1>3, <1>5, <2>1, <2>3, <2>4, <2>5, StaysUndisturbed
<1> QED BY <1>3, <1>4, <1>6

(* What a step in the migration, or to it, does to the other thread.       *)
LEMMA OthersNotMigrating ==
  ASSUME Undisturbed, NEW t \in E!Threads, phase[t] # "idle", StoreTyped,
         NEW to, phase' = [phase EXCEPT ![t] = to]
  PROVE  /\ phase'[t] = to
         /\ \A u \in E!Threads : u # t =>
              phase'[u] = phase[u] /\ phase'[u] \notin {"saved", "backed", "rebuilding", "swapped"}
<1>1. \A u \in E!Threads : u # t => phase[u] \notin {"saved", "backed", "rebuilding", "swapped"}
  BY DEF Undisturbed, MigratesAlone
<1> QED BY <1>1 DEF StoreTyped

LEMMA MemoryEnsure ==
  ASSUME MemoryInv, NEW t \in E!Threads, E!Ensure(t)
  PROVE  MemoryInv'
<1> USE DEF MemoryInv
<1>1. phase[t] = "ensure" /\ UNCHANGED <<backup, script, rebuilt, texts, kept, owner>>
  BY DEF E!Ensure
<1>2. script[t] # <<>>
  BY <1>1 DEF ScriptsPlaced
<1>3. PICK to \in {"row", "saved"} :
        /\ phase' = [phase EXCEPT ![t] = to]
        /\ to = "row" => UNCHANGED <<disk, work, raced>>
        /\ to = "saved" =>
             /\ disk' = E!Current /\ work' = E!NoWork
             /\ raced' = (raced \/ phase[E!Other(t)] # "idle")
  BY DEF E!Ensure, E!Goes
<1>4. /\ ScriptsPlaced' /\ phase' \in [E!Threads -> Phases]
      /\ \A u \in E!Threads : ToWrite(u)' => ToWrite(u)
      /\ \A u \in E!Threads : phase'[u] = "vector" => phase[u] = "vector"
  <2>1. to \in Phases \ {"vector", "commit"}
    BY DEF Phases
  <2> QED BY <1>1, <1>2, <1>3, <2>1, ScriptsGo
<1>5. E!Current' = E!Current /\ disk' \in E!Tables /\ (work' = E!NoWork \/ work' \in E!Tables)
      /\ (disk' = disk \/ disk' = E!Current)
  BY <1>3, CurrentTyped DEF E!Current, StoreTyped
<1>6. StoreTyped' /\ ScriptsTyped'
  BY <1>1, <1>4, <1>5 DEF StoreTyped, ScriptsTyped
<1>7. ASSUME ~raced' PROVE Undisturbed'
  <2>1. Undisturbed
    <3>1. ~raced
      BY <1>3, <1>7
    <3> QED BY <3>1
  <2>2. /\ phase'[t] = to
        /\ \A u \in E!Threads : u # t =>
             phase'[u] = phase[u] /\ phase'[u] \notin {"saved", "backed", "rebuilding", "swapped"}
    BY <1>1, <1>3, <2>1, OthersNotMigrating
  <2>3. to = "saved" => work' = E!NoWork /\ \A u \in E!Threads : u # t => phase'[u] = "idle"
    BY <1>3, <1>7, <2>2, OtherThread
  <2>4. \A u \in E!Threads : MigratesAlone(u)'
    BY <2>2, <2>3 DEF MigratesAlone
  <2>5. texts' \in Nat /\ texts <= texts'
    BY <1>1, MemoryBounds DEF StoreTyped
  <2>6. kept' = E!Current'.mem
    BY <1>1, <1>5, <2>1 DEF Undisturbed
  <2> QED BY <1>1, <1>4, <1>5, <2>1, <2>4, <2>5, <2>6, StaysUndisturbed
<1> QED BY <1>4, <1>6, <1>7

LEMMA MemoryCopyFile ==
  ASSUME MemoryInv, NEW t \in E!Threads, E!CopyFile(t)
  PROVE  MemoryInv'
<1> USE DEF MemoryInv
<1>1. /\ phase[t] = "saved" /\ backup' = disk /\ phase' = [phase EXCEPT ![t] = "backed"]
      /\ UNCHANGED <<disk, work, script, rebuilt, texts, kept, owner, raced>>
  BY DEF E!CopyFile, E!Goes
<1>2. script[t] # <<>>
  BY <1>1 DEF ScriptsPlaced
<1>3. /\ ScriptsPlaced' /\ phase' \in [E!Threads -> Phases]
      /\ \A u \in E!Threads : ToWrite(u)' => ToWrite(u)
      /\ \A u \in E!Threads : phase'[u] = "vector" => phase[u] = "vector"
  <2>1. "backed" \in Phases \ {"vector", "commit"}
    BY DEF Phases
  <2> QED BY <1>1, <1>2, <2>1, ScriptsGo
<1>4. StoreTyped' /\ ScriptsTyped'
  BY <1>1, <1>3 DEF StoreTyped, ScriptsTyped
<1>5. E!Current' = E!Current
  BY <1>1 DEF E!Current
<1>6. ASSUME ~raced' PROVE Undisturbed'
  <2>1. Undisturbed
    BY <1>1, <1>6
  <2>2. /\ phase'[t] = "backed"
        /\ \A u \in E!Threads : u # t =>
             phase'[u] = phase[u] /\ phase'[u] \notin {"saved", "backed", "rebuilding", "swapped"}
    BY <1>1, <2>1, OthersNotMigrating
  <2>3. work = E!NoWork /\ \A u \in E!Threads : u # t => phase[u] = "idle"
    BY <1>1, <2>1 DEF Undisturbed, MigratesAlone
  <2>4. \A u \in E!Threads : MigratesAlone(u)'
    BY <1>1, <2>2, <2>3 DEF MigratesAlone
  <2>5. texts' \in Nat /\ texts <= texts'
    BY <1>1, MemoryBounds DEF StoreTyped
  <2>6. kept' = E!Current'.mem
    BY <1>1, <1>5, <2>1 DEF Undisturbed
  <2> QED BY <1>1, <1>3, <1>5, <2>1, <2>4, <2>5, <2>6, StaysUndisturbed
<1> QED BY <1>3, <1>4, <1>6

LEMMA MemoryBeginMigration ==
  ASSUME MemoryInv, NEW t \in E!Threads, E!BeginMigration(t)
  PROVE  MemoryInv'
<1> USE DEF MemoryInv
<1>1. phase[t] = "backed" /\ UNCHANGED <<backup, texts, kept, owner, raced>>
  BY DEF E!BeginMigration
<1>2. script[t] # <<>>
  BY <1>1 DEF ScriptsPlaced
<1>3. texts' \in Nat /\ texts <= texts'
  BY <1>1, MemoryBounds DEF StoreTyped
<1>4. CASE work = E!NoWork
  <2>1. /\ work' = disk /\ rebuilt' = disk.mem /\ phase' = [phase EXCEPT ![t] = "rebuilding"]
        /\ UNCHANGED <<disk, script>>
    BY <1>4 DEF E!BeginMigration, E!Goes
  <2>2. /\ ScriptsPlaced' /\ phase' \in [E!Threads -> Phases]
        /\ \A u \in E!Threads : ToWrite(u)' => ToWrite(u)
        /\ \A u \in E!Threads : phase'[u] = "vector" => phase[u] = "vector"
    <3>1. "rebuilding" \in Phases \ {"vector", "commit"}
      BY DEF Phases
    <3> QED BY <1>1, <1>2, <2>1, <3>1, ScriptsGo
  <2>3. StoreTyped' /\ ScriptsTyped'
    <3>1. disk \in E!Tables /\ disk.mem \in Memories
      BY TablesParts DEF StoreTyped
    <3> QED BY <1>1, <2>1, <2>2, <3>1 DEF StoreTyped, ScriptsTyped
  <2>4. E!Current' = disk /\ E!Current = disk
    <3>1. disk \in E!Tables /\ E!NoWork \notin E!Tables
      BY CurrentTyped DEF StoreTyped
    <3> QED BY <1>4, <2>1, <3>1 DEF E!Current
  <2>5. ASSUME ~raced' PROVE Undisturbed'
    <3>1. Undisturbed
      BY <1>1, <2>5
    <3>2. /\ phase'[t] = "rebuilding"
          /\ \A u \in E!Threads : u # t =>
               phase'[u] = phase[u] /\ phase'[u] \notin {"saved", "backed", "rebuilding", "swapped"}
      BY <1>1, <2>1, <3>1, OthersNotMigrating
    <3>3. \A u \in E!Threads : u # t => phase[u] = "idle"
      BY <1>1, <3>1 DEF Undisturbed, MigratesAlone
    <3>4. rebuilt' = E!Current'.mem
      BY <2>1, <2>4
    <3>5. \A u \in E!Threads : MigratesAlone(u)'
      BY <3>2, <3>3, <3>4 DEF MigratesAlone
    <3>6. kept' = E!Current'.mem
      BY <1>1, <2>4, <3>1 DEF Undisturbed
    <3> QED BY <1>1, <1>3, <2>1, <2>2, <2>4, <3>1, <3>5, <3>6, StaysUndisturbed
  <2> QED BY <2>2, <2>3, <2>5
<1>5. CASE work # E!NoWork
  <2>1. /\ work' = E!NoWork /\ disk' = backup /\ UNCHANGED rebuilt
        /\ phase' = [phase EXCEPT ![t] = "idle"] /\ script' = [script EXCEPT ![t] = <<>>]
    BY <1>5 DEF E!BeginMigration, E!Fails, E!Goes
  <2>2. ScriptsTyped' /\ ScriptsPlaced' /\ phase' \in [E!Threads -> Phases]
    BY <1>1, <2>1, ScriptsEnd
  <2>3. StoreTyped'
    BY <1>1, <2>1, <2>2 DEF StoreTyped
  <2>4. raced'
    BY <1>1, <1>5 DEF Undisturbed, MigratesAlone
  <2> QED BY <2>2, <2>3, <2>4
<1> QED BY <1>4, <1>5

LEMMA MemorySwap ==
  ASSUME MemoryInv, NEW t \in E!Threads, E!Swap(t)
  PROVE  MemoryInv'
<1> USE DEF MemoryInv
<1>1. PICK tables : tables = [E!Current EXCEPT !.mem = rebuilt, !.soul = TRUE]
  OBVIOUS
<1>2. /\ phase[t] = "rebuilding" /\ phase' = [phase EXCEPT ![t] = "swapped"]
      /\ work = E!NoWork => disk' = tables /\ UNCHANGED work
      /\ work # E!NoWork => work' = tables /\ UNCHANGED disk
      /\ UNCHANGED <<backup, script, rebuilt, texts, kept, owner, raced>>
  BY <1>1 DEF E!Swap, E!Goes
<1>3. script[t] # <<>>
  BY <1>2 DEF ScriptsPlaced
<1>4. /\ ScriptsPlaced' /\ phase' \in [E!Threads -> Phases]
      /\ \A u \in E!Threads : ToWrite(u)' => ToWrite(u)
      /\ \A u \in E!Threads : phase'[u] = "vector" => phase[u] = "vector"
  <2>1. "swapped" \in Phases \ {"vector", "commit"}
    BY DEF Phases
  <2> QED BY <1>2, <1>3, <2>1, ScriptsGo
<1>5. tables \in E!Tables /\ tables.mem = rebuilt /\ tables.vec = E!Current.vec
  <2>1. PICK now \in E!Tables : now = E!Current
    BY CurrentTyped
  <2>2. rebuilt \in Memories
    BY DEF StoreTyped
  <2>3. tables = [now EXCEPT !.mem = rebuilt, !.soul = TRUE]
    BY <1>1, <2>1
  <2> QED BY <2>1, <2>2, <2>3 DEF E!Tables, Memories
<1>6. E!Current' = tables /\ (disk'.vec = disk.vec \/ disk'.vec = E!Current.vec)
  <2>1. E!NoWork \notin E!Tables
    BY CurrentTyped
  <2> QED BY <1>2, <1>5, <2>1 DEF E!Current
<1>7. StoreTyped' /\ ScriptsTyped'
  BY <1>2, <1>4, <1>5 DEF StoreTyped, ScriptsTyped
<1>8. ASSUME ~raced' PROVE Undisturbed'
  <2>1. Undisturbed
    BY <1>2, <1>8
  <2>2. /\ phase'[t] = "swapped"
        /\ \A u \in E!Threads : u # t =>
             phase'[u] = phase[u] /\ phase'[u] \notin {"saved", "backed", "rebuilding", "swapped"}
    BY <1>2, <2>1, OthersNotMigrating
  <2>3. (\A u \in E!Threads : u # t => phase[u] = "idle") /\ rebuilt = E!Current.mem
    BY <1>2, <2>1 DEF Undisturbed, MigratesAlone
  <2>4. \A u \in E!Threads : MigratesAlone(u)'
    BY <2>2, <2>3 DEF MigratesAlone
  <2>5. texts' \in Nat /\ texts <= texts'
    BY <1>2, MemoryBounds DEF StoreTyped
  <2>6. kept' = E!Current'.mem
    BY <1>2, <1>5, <1>6, <2>1, <2>3 DEF Undisturbed
  <2>7. E!Current'.vec = E!Current.vec
    BY <1>5, <1>6
  <2> QED BY <1>2, <1>4, <1>6, <2>1, <2>4, <2>5, <2>6, <2>7, StaysUndisturbed
<1> QED BY <1>4, <1>7, <1>8

LEMMA MemoryEndMigration ==
  ASSUME MemoryInv, NEW t \in E!Threads, E!EndMigration(t)
  PROVE  MemoryInv'
<1> USE DEF MemoryInv
<1>1. phase[t] = "swapped" /\ UNCHANGED <<backup, rebuilt, texts, kept, owner, raced>>
  BY DEF E!EndMigration
<1>2. script[t] # <<>>
  BY <1>1 DEF ScriptsPlaced
<1>3. texts' \in Nat /\ texts <= texts'
  BY <1>1, MemoryBounds DEF StoreTyped
<1>4. /\ ScriptsTyped' /\ ScriptsPlaced' /\ phase' \in [E!Threads -> Phases]
      /\ \A u \in E!Threads : ToWrite(u)' => ToWrite(u) /\ script'[u][1] = script[u][1]
      /\ \A u \in E!Threads : phase'[u] = "vector" =>
              phase[u] = "vector" /\ script'[u][1] = script[u][1]
      /\ \E to \in {"idle", "row"} : phase' = [phase EXCEPT ![t] = to]
  <2>1. CASE work = E!NoWork
    <3>1. phase' = [phase EXCEPT ![t] = "idle"] /\ script' = [script EXCEPT ![t] = <<>>]
      BY <2>1 DEF E!EndMigration, E!Fails, E!Goes
    <3> QED BY <1>1, <3>1, ScriptsEnd
  <2>2. CASE work # E!NoWork
    <3>1. phase' = [phase EXCEPT ![t] = "row"] /\ UNCHANGED script
      BY <2>2 DEF E!EndMigration, E!Goes
    <3>2. "row" \in Phases \ {"vector", "commit"}
      BY DEF Phases
    <3>3. /\ ScriptsPlaced' /\ phase' \in [E!Threads -> Phases]
          /\ \A u \in E!Threads : ToWrite(u)' => ToWrite(u)
          /\ \A u \in E!Threads : phase'[u] = "vector" => phase[u] = "vector"
      BY <1>1, <1>2, <3>1, <3>2, ScriptsGo
    <3> QED BY <3>1, <3>3 DEF ScriptsTyped
  <2> QED BY <2>1, <2>2
<1>5. E!Current' = E!Current /\ (disk' = disk \/ disk' = E!Current) /\ disk' \in E!Tables
      /\ (work' = E!NoWork \/ work' \in E!Tables)
  BY CurrentTyped DEF E!EndMigration, E!Current, StoreTyped
<1>6. StoreTyped'
  BY <1>1, <1>4, <1>5 DEF StoreTyped
<1>7. ASSUME ~raced' PROVE Undisturbed'
  <2>1. Undisturbed
    BY <1>1, <1>7
  <2>2. PICK to \in {"idle", "row"} : phase' = [phase EXCEPT ![t] = to]
    BY <1>4
  <2>3. /\ phase'[t] = to
        /\ \A u \in E!Threads : u # t =>
             phase'[u] = phase[u] /\ phase'[u] \notin {"saved", "backed", "rebuilding", "swapped"}
    BY <1>1, <2>1, <2>2, OthersNotMigrating
  <2>4. \A u \in E!Threads : MigratesAlone(u)'
    BY <2>3 DEF MigratesAlone
  <2>5. kept' = E!Current'.mem
    BY <1>1, <1>5, <2>1 DEF Undisturbed
  <2> QED BY <1>1, <1>3, <1>4, <1>5, <2>1, <2>4, <2>5, StaysUndisturbed
<1> QED BY <1>4, <1>6, <1>7

LEMMA MemoryCheck ==
  ASSUME MemoryInv, NEW t \in E!Threads, E!Check(t)
  PROVE  MemoryInv'
<1> USE DEF MemoryInv
<1>1. phase[t] = "check" /\ UNCHANGED <<disk, work, backup, rebuilt, texts, kept, owner, raced>>
  BY DEF E!Check
<1>2. script[t] # <<>>
  BY <1>1 DEF ScriptsPlaced
<1>3. texts' \in Nat /\ texts <= texts'
  BY <1>1, MemoryBounds DEF StoreTyped
<1>4. /\ ScriptsTyped' /\ ScriptsPlaced' /\ phase' \in [E!Threads -> Phases]
      /\ \A u \in E!Threads : ToWrite(u)' => ToWrite(u) /\ script'[u][1] = script[u][1]
      /\ \A u \in E!Threads : phase'[u] = "vector" =>
              phase[u] = "vector" /\ script'[u][1] = script[u][1]
      /\ \E to \in {"idle", "row"} : phase' = [phase EXCEPT ![t] = to]
  <2>1. CASE phase' = [phase EXCEPT ![t] = "idle"] /\ script' = [script EXCEPT ![t] = Tail(@)]
    BY <1>1, <1>2, <2>1, ScriptsEnd
  <2>2. CASE phase' = [phase EXCEPT ![t] = "row"] /\ UNCHANGED script
    <3>1. "row" \in Phases \ {"vector", "commit"}
      BY DEF Phases
    <3>2. /\ ScriptsPlaced' /\ phase' \in [E!Threads -> Phases]
          /\ \A u \in E!Threads : ToWrite(u)' => ToWrite(u)
          /\ \A u \in E!Threads : phase'[u] = "vector" => phase[u] = "vector"
      BY <1>1, <1>2, <2>2, <3>1, ScriptsGo
    <3> QED BY <2>2, <3>2 DEF ScriptsTyped
  <2> QED BY <2>1, <2>2 DEF E!Check, E!Goes, E!Ends
<1>5. E!Current' = E!Current
  BY <1>1 DEF E!Current
<1>6. StoreTyped'
  BY <1>1, <1>4 DEF StoreTyped
<1>7. ASSUME ~raced' PROVE Undisturbed'
  <2>1. Undisturbed
    BY <1>1, <1>7
  <2>2. PICK to \in {"idle", "row"} : phase' = [phase EXCEPT ![t] = to]
    BY <1>4
  <2>3. /\ phase'[t] = to
        /\ \A u \in E!Threads : u # t =>
             phase'[u] = phase[u] /\ phase'[u] \notin {"saved", "backed", "rebuilding", "swapped"}
    BY <1>1, <2>1, <2>2, OthersNotMigrating
  <2>4. \A u \in E!Threads : MigratesAlone(u)'
    BY <2>3 DEF MigratesAlone
  <2>5. kept' = E!Current'.mem
    BY <1>1, <1>5, <2>1 DEF Undisturbed
  <2> QED BY <1>1, <1>3, <1>4, <1>5, <2>1, <2>4, <2>5, StaysUndisturbed
<1> QED BY <1>4, <1>6, <1>7

LEMMA MemoryCommit ==
  ASSUME MemoryInv, NEW t \in E!Threads, E!Commit(t)
  PROVE  MemoryInv'
<1> USE DEF MemoryInv
<1>1. /\ phase[t] = "commit" /\ disk' = E!Current /\ work' = E!NoWork
      /\ phase' = [phase EXCEPT ![t] = "idle"] /\ script' = [script EXCEPT ![t] = Tail(script[t])]
      /\ UNCHANGED <<backup, rebuilt, texts, kept, owner, raced>>
  BY DEF E!Commit, E!Ends, E!Goes
<1>2. script[t] # <<>>
  BY <1>1 DEF ScriptsPlaced
<1>3. texts' \in Nat /\ texts <= texts'
  BY <1>1, MemoryBounds DEF StoreTyped
<1>4. /\ ScriptsTyped' /\ ScriptsPlaced' /\ phase' \in [E!Threads -> Phases]
      /\ \A u \in E!Threads : ToWrite(u)' => ToWrite(u) /\ script'[u][1] = script[u][1]
      /\ \A u \in E!Threads : phase'[u] = "vector" =>
              phase[u] = "vector" /\ script'[u][1] = script[u][1]
  BY <1>1, <1>2, ScriptsEnd
<1>5. E!Current' = E!Current
  BY <1>1 DEF E!Current
<1>6. StoreTyped'
  BY <1>1, <1>4, CurrentTyped DEF StoreTyped
<1>7. ASSUME ~raced' PROVE Undisturbed'
  <2>1. Undisturbed
    BY <1>1, <1>7
  <2>2. /\ phase'[t] = "idle"
        /\ \A u \in E!Threads : u # t =>
             phase'[u] = phase[u] /\ phase'[u] \notin {"saved", "backed", "rebuilding", "swapped"}
    BY <1>1, <2>1, OthersNotMigrating
  <2>3. \A u \in E!Threads : MigratesAlone(u)'
    BY <2>2 DEF MigratesAlone
  <2>4. kept' = E!Current'.mem
    BY <1>1, <1>5, <2>1 DEF Undisturbed
  <2> QED BY <1>1, <1>3, <1>4, <1>5, <2>1, <2>3, <2>4, StaysUndisturbed
<1> QED BY <1>4, <1>6, <1>7

-----------------------------------------------------------------------------
(* A row is written: the memory, and the text of it is now its own.        *)
LEMMA MemoryRowTables ==
  ASSUME StoreTyped, NEW id \in E!Ids, NEW next \in 1..(MaxIds + 1),
         NEW new \in E!Memory \cup {E!NoMemory},
         work' = [E!Current EXCEPT !.mem[id] = new, !.next = next],
         kept' = [kept EXCEPT ![id] = new]
  PROVE  /\ work' \in E!Tables /\ E!Current' = work' /\ kept' \in Memories
         /\ work'.vec = E!Current.vec
         /\ E!Current.mem = kept => work'.mem = kept'
<1>1. PICK now \in E!Tables : now = E!Current
  BY CurrentTyped
<1>2. now.mem \in Memories /\ kept \in Memories
  BY TablesParts DEF StoreTyped
<1>3. PICK mem \in Memories : mem = [now.mem EXCEPT ![id] = new]
  BY <1>2 DEF Memories
<1>4. work' = [now EXCEPT !.mem = mem, !.next = next]
  BY <1>1, <1>3
<1>5. work' \in E!Tables /\ work'.mem = mem /\ work'.vec = now.vec
  BY <1>4 DEF E!Tables, Memories
<1>6. E!Current' = work'
  BY <1>5, CurrentTyped DEF E!Current
<1>7. kept' \in Memories
  BY <1>2 DEF Memories
<1>8. E!Current.mem = kept => mem = kept'
  BY <1>1, <1>3
<1> QED BY <1>1, <1>5, <1>6, <1>7, <1>8

LEMMA SeqWider ==
  ASSUME NEW A, NEW C, A \subseteq C, NEW s \in Seq(A)
  PROVE  s \in Seq(C)
OBVIOUS

(* The first call of a thread learns the memory that it is about.          *)
LEMMA ScriptsNamed ==
  ASSUME ScriptsTyped, NEW t \in E!Threads, NEW id, script[t] # <<>>,
         script' = [script EXCEPT ![t][1].id = id]
  PROVE  /\ ScriptsTyped'
         /\ \A u \in E!Threads : u # t => script'[u] = script[u]
         /\ \A u \in E!Threads :
              /\ Len(script'[u]) = Len(script[u]) /\ (script'[u] # <<>>) = (script[u] # <<>>)
              /\ \A k \in 1..Len(script[u]) :
                   script'[u][k].text = script[u][k].text /\ script'[u][k].op = script[u][k].op
         /\ script'[t][1].id = id
<1>1. PICK ids : script \in ScriptsOf(ids)
  BY DEF ScriptsTyped
<1>2. PICK wide : wide = ids \cup {id}
  OBVIOUS
<1>3. /\ script[t] \in Seq(CallOf(ids)) /\ Len(script[t]) \in Nat /\ DOMAIN script[t] = 1..Len(script[t])
      /\ 1 \in 1..Len(script[t]) /\ script[t][1] \in CallOf(ids)
  BY <1>1, ScriptTyped
<1>4. PICK call \in CallOf(ids) : call = script[t][1]
  BY <1>3
<1>5. PICK named : named = [call EXCEPT !.id = id]
  OBVIOUS
<1>6. named \in CallOf(wide) /\ named.id = id /\ named.text = call.text /\ named.op = call.op
  BY <1>2, <1>5 DEF CallOf
<1>7. CallOf(ids) \subseteq CallOf(wide)
  BY <1>2 DEF CallOf
<1>8. PICK s \in Seq(CallOf(wide)) : s = script[t]
  BY <1>3, <1>7, SeqWider
<1>9. PICK renamed : renamed = [s EXCEPT ![1] = named]
  OBVIOUS
<1>10. /\ renamed \in Seq(CallOf(wide)) /\ Len(renamed) = Len(s) /\ renamed # <<>> /\ renamed[1] = named
       /\ \A k \in 1..Len(s) : k # 1 => renamed[k] = s[k]
  BY <1>3, <1>6, <1>8, <1>9
<1>11. script' = [script EXCEPT ![t] = renamed]
  BY <1>4, <1>5, <1>8, <1>9
<1>12. script'[t] = renamed /\ \A u \in E!Threads : u # t => script'[u] = script[u]
  BY <1>1, <1>11 DEF ScriptsOf
<1>13. script' \in ScriptsOf(wide)
  <2>1. \A u \in E!Threads : script[u] \in Seq(CallOf(wide))
    BY <1>1, <1>7, ScriptTyped, SeqWider
  <2> QED BY <1>1, <1>10, <1>11, <2>1 DEF ScriptsOf
<1>14. ScriptsTyped'
  BY <1>13 DEF ScriptsTyped
<1> QED BY <1>4, <1>6, <1>8, <1>10, <1>12, <1>14

LEMMA OtherTexts ==
  ASSUME ScriptsPlaced, NEW t \in E!Threads, NEW u \in E!Threads, u # t,
         NEW k \in 1..Len(script[t]), NEW m \in 1..Len(script[u])
  PROVE  script[u][m].text # script[t][k].text
BY DEF ScriptsPlaced

LEMMA MemoryRow ==
  ASSUME MemoryInv, NEW t \in E!Threads, E!Row(t)
  PROVE  MemoryInv'
<1> USE DEF MemoryInv
<1>1. phase[t] = "row" /\ script[t] # <<>>
  BY DEF E!Row, ScriptsPlaced
<1>2. PICK ids : script \in ScriptsOf(ids)
  BY DEF ScriptsTyped
<1>3. PICK call \in CallOf(ids) : call = script[t][1] /\ call = E!Now(t) /\ 1 \in 1..Len(script[t])
  BY <1>1, <1>2, ScriptTyped DEF E!Now
<1>4. PICK now \in E!Tables : now = E!Current
  BY CurrentTyped
<1>5. PICK id \in E!Ids : id = IF call.op = "write" THEN now.next ELSE call.id
  BY <1>3, <1>4 DEF E!Row
<1>6. PICK new : new = CASE call.op = "delete" -> E!NoMemory
               [] call.op = "write" -> [type |-> call.type, text |-> call.text, cwd |-> call.cwd]
               [] OTHER -> IF id \notin E!Stored(now) THEN E!NoMemory ELSE [now.mem[id] EXCEPT !.text = call.text]
  OBVIOUS
<1>7. PICK next : next = IF call.op = "write" THEN now.next + 1 ELSE now.next
  OBVIOUS
<1>8. /\ work' = [now EXCEPT !.mem[id] = new, !.next = next]
      /\ kept' = [kept EXCEPT ![id] = new]
      /\ owner' = (IF call.op = "delete" THEN owner ELSE [owner EXCEPT ![call.text] = id])
      /\ script' = [script EXCEPT ![t][1].id = id]
      /\ phase' = [phase EXCEPT ![t] = "vector"]
      /\ UNCHANGED <<disk, backup, rebuilt, texts, raced>>
  BY <1>3, <1>4, <1>5, <1>6, <1>7 DEF E!Row, E!Goes
<1>9. /\ call.op \in {"write", "update", "delete"} /\ call.type \in E!Types
      /\ call.cwd \in {"any", "here", "there"} /\ call.text \in 1..MaxTexts
  BY CallParts
<1>10. new \in E!Memory \cup {E!NoMemory}
  <2>1. CASE call.op = "delete"
    BY <1>6, <2>1
  <2>2. CASE call.op = "write"
    BY <1>6, <1>9, <2>2 DEF E!Memory
  <2>3. CASE call.op = "update"
    <3>1. now.mem[id] \in E!Memory \cup {E!NoMemory}
      BY TablesParts DEF Memories
    <3>2. CASE id \in E!Stored(now)
      <4>1. now.mem[id] \in E!Memory
        BY <3>1, <3>2 DEF E!Stored
      <4>2. PICK memory \in E!Memory : memory = now.mem[id]
        BY <4>1
      <4>3. [memory EXCEPT !.text = call.text] \in E!Memory
        BY <1>9 DEF E!Memory
      <4> QED BY <1>6, <2>3, <3>2, <4>2, <4>3
    <3>3. CASE id \notin E!Stored(now)
      BY <1>6, <2>3, <3>3
    <3> QED BY <3>2, <3>3
  <2> QED BY <1>9, <2>1, <2>2, <2>3
<1>11. next \in 1..(MaxIds + 1)
  <2>1. now.next \in 1..(MaxIds + 1) /\ MaxIds \in Nat
    BY TablesParts, MemoryBounds
  <2> QED BY <1>5, <1>7, <2>1 DEF E!Ids
<1>12. /\ work' \in E!Tables /\ E!Current' = work' /\ kept' \in Memories
       /\ work'.vec = E!Current.vec
       /\ E!Current.mem = kept => work'.mem = kept'
  BY <1>4, <1>8, <1>10, <1>11, MemoryRowTables
<1>13. /\ ScriptsTyped'
       /\ \A u \in E!Threads : u # t => script'[u] = script[u]
       /\ \A u \in E!Threads :
            /\ Len(script'[u]) = Len(script[u]) /\ (script'[u] # <<>>) = (script[u] # <<>>)
            /\ \A k \in 1..Len(script[u]) :
                 script'[u][k].text = script[u][k].text /\ script'[u][k].op = script[u][k].op
       /\ script'[t][1].id = id
  BY <1>1, <1>8, ScriptsNamed
<1>14. /\ phase' \in [E!Threads -> Phases] /\ phase'[t] = "vector"
       /\ \A u \in E!Threads : u # t => phase'[u] = phase[u]
  BY <1>8 DEF StoreTyped, Phases
<1>15. owner' \in [1..MaxTexts -> Nat]
  <2>1. id \in Nat /\ owner \in [1..MaxTexts -> Nat]
    BY MemoryBounds DEF E!Ids, StoreTyped
  <2> QED BY <1>8, <2>1
<1>16. StoreTyped'
  BY <1>8, <1>12, <1>14, <1>15 DEF StoreTyped
<1>17. ScriptsPlaced'
  <2>1. \A u \in E!Threads : phase'[u] # "idle" => script'[u] # <<>>
    BY <1>1, <1>13, <1>14 DEF ScriptsPlaced
  <2>2. \A u \in E!Threads : phase'[u] = "vector" => script'[u][1].id \in E!Ids
    BY <1>13, <1>14 DEF ScriptsPlaced
  <2>3. \A u \in E!Threads : \A k \in 1..Len(script'[u]) :
          script'[u][k].text <= texts' /\ (k # 1 => script'[u][k].op = "delete")
    BY <1>8, <1>13 DEF ScriptsPlaced
  <2>4. \A u, v \in E!Threads : v # u => \A k \in 1..Len(script'[u]) : \A m \in 1..Len(script'[v]) :
          script'[v][m].text # script'[u][k].text
    BY <1>13 DEF ScriptsPlaced
  <2> QED BY <2>1, <2>2, <2>3, <2>4 DEF ScriptsPlaced
<1>18. ASSUME ~raced' PROVE Undisturbed'
  <2>1. Undisturbed
    BY <1>8, <1>18
  <2>2. \A u \in E!Threads : ToWrite(u)' => u # t /\ ToWrite(u) /\ script'[u][1].text = script[u][1].text
    BY <1>13, <1>14 DEF ToWrite
  <2>3. \A n \in 1..MaxTexts : n # call.text => owner'[n] = owner[n]
    BY <1>8 DEF StoreTyped
  <2>4. call.op # "delete" => ToWrite(t)
    BY <1>1, <1>3 DEF ToWrite
  <2>5. ASSUME NEW vec \in [E!Ids -> 0..MaxTexts], OwnedVectors(vec)
        PROVE  \A i \in E!Ids : vec[i] # 0 =>
                 /\ vec[i] <= texts' /\ owner'[vec[i]] = i
                 /\ \A u \in E!Threads : ToWrite(u)' => vec[i] # script'[u][1].text
    <3> SUFFICES ASSUME NEW i \in E!Ids, vec[i] # 0
                 PROVE  /\ vec[i] <= texts' /\ owner'[vec[i]] = i
                        /\ \A u \in E!Threads : ToWrite(u)' => vec[i] # script'[u][1].text
      OBVIOUS
    <3>1. /\ vec[i] <= texts /\ owner[vec[i]] = i
          /\ \A u \in E!Threads : ToWrite(u) => vec[i] # script[u][1].text
      BY <2>5 DEF OwnedVectors
    <3>2. vec[i] \in 1..MaxTexts
      BY MemoryBounds
    <3>3. owner'[vec[i]] = i
      <4>1. CASE call.op = "delete"
        BY <1>8, <3>1, <4>1
      <4>2. CASE call.op # "delete"
        BY <1>3, <2>3, <2>4, <3>1, <3>2, <4>2
      <4> QED BY <4>1, <4>2
    <3> QED BY <1>8, <2>2, <3>1, <3>3
  <2>6. OwnedVectors(disk.vec)'
    <3>1. PICK vec \in [E!Ids -> 0..MaxTexts] : vec = disk'.vec /\ OwnedVectors(vec)
      BY <1>8, <2>1, TablesParts DEF Undisturbed, StoreTyped
    <3> QED BY <2>5, <3>1 DEF OwnedVectors
  <2>7. OwnedVectors(E!Current.vec)'
    <3>1. PICK vec \in [E!Ids -> 0..MaxTexts] : vec = E!Current'.vec /\ OwnedVectors(vec)
      BY <1>4, <1>12, <2>1, TablesParts DEF Undisturbed
    <3> QED BY <2>5, <3>1 DEF OwnedVectors
  <2>8. \A u \in E!Threads : phase'[u] \notin {"saved", "backed", "rebuilding", "swapped"}
    BY <1>1, <1>8, <2>1, OthersNotMigrating
  <2>9. \A u \in E!Threads : MigratesAlone(u)'
    BY <2>8 DEF MigratesAlone
  <2>10. ASSUME NEW u \in E!Threads, phase'[u] = "vector", script'[u][1].op # "delete"
         PROVE  owner'[script'[u][1].text] = script'[u][1].id
    <3>1. CASE u = t
      <4>1. script'[t][1].text = call.text /\ script'[t][1].op = call.op /\ call.op # "delete"
        BY <1>3, <1>13, <2>10, <3>1
      <4>2. owner'[call.text] = id
        BY <1>8, <1>9, <4>1 DEF StoreTyped
      <4> QED BY <1>13, <3>1, <4>1, <4>2
    <3>2. CASE u # t
      <4>1. phase[u] = "vector" /\ script'[u] = script[u] /\ script[u] # <<>>
        BY <1>13, <1>14, <2>10, <3>2 DEF ScriptsPlaced
      <4>2. 1 \in 1..Len(script[u]) /\ script[u][1] \in CallOf(ids)
        BY <1>2, <4>1, ScriptTyped
      <4>3. script[u][1].text # call.text /\ script[u][1].text \in 1..MaxTexts
        <5>1. script[u][1].text # script[t][1].text
          BY <1>3, <3>2, <4>2, OtherTexts
        <5>2. PICK other \in CallOf(ids) : other = script[u][1]
          BY <4>2
        <5> QED BY <1>3, <5>1, <5>2, CallParts
      <4>4. owner[script[u][1].text] = script[u][1].id
        BY <2>1, <2>10, <4>1 DEF Undisturbed, RowOwned
      <4> QED BY <2>3, <4>1, <4>3, <4>4
    <3> QED BY <3>1, <3>2
  <2>11. E!Current'.mem = kept'
    BY <1>12, <2>1 DEF Undisturbed
  <2> QED BY <2>6, <2>7, <2>9, <2>10, <2>11 DEF Undisturbed, RowOwned
<1> QED BY <1>13, <1>16, <1>17, <1>18

-----------------------------------------------------------------------------
LEMMA MemoryEmbed ==
  ASSUME MemoryInv, NEW t \in E!Threads, NEW available, E!Embed(t, available)
  PROVE  MemoryInv'
<1> USE DEF MemoryInv
<1>1. /\ phase[t] = "vector" /\ phase' = [phase EXCEPT ![t] = "commit"]
      /\ UNCHANGED <<disk, backup, script, rebuilt, texts, kept, owner, raced>>
  BY DEF E!Embed, E!Goes
<1>2. script[t] # <<>> /\ script[t][1].id \in E!Ids
  BY <1>1 DEF ScriptsPlaced
<1>3. PICK ids : script \in ScriptsOf(ids)
  BY DEF ScriptsTyped
<1>4. PICK call \in CallOf(ids) : call = script[t][1] /\ call = E!Now(t) /\ 1 \in 1..Len(script[t])
  BY <1>2, <1>3, ScriptTyped DEF E!Now
<1>5. PICK now \in E!Tables : now = E!Current
  BY CurrentTyped
<1>6. \/ work' = work
      \/ work' = [now EXCEPT !.vec[call.id] = IF call.op = "delete" THEN 0 ELSE call.text]
  BY <1>4, <1>5 DEF E!Embed
<1>7. /\ phase' \in [E!Threads -> Phases] /\ phase'[t] = "commit"
      /\ \A u \in E!Threads : u # t => phase'[u] = phase[u]
  BY <1>1 DEF StoreTyped, Phases
<1>8. ScriptsTyped' /\ ScriptsPlaced'
  <2>1. \A u \in E!Threads : phase'[u] # "idle" => script[u] # <<>>
    BY <1>2, <1>7 DEF ScriptsPlaced
  <2>2. \A u \in E!Threads : phase'[u] = "vector" => phase[u] = "vector"
    BY <1>7
  <2> QED BY <1>1, <2>1, <2>2 DEF ScriptsPlaced, ScriptsTyped
<1>9. \A u \in E!Threads : ToWrite(u)' => u # t /\ ToWrite(u)
  BY <1>1, <1>7 DEF ToWrite
<1>10. ASSUME Undisturbed PROVE \A u \in E!Threads : MigratesAlone(u)'
  <2>1. \A u \in E!Threads : phase'[u] \notin {"saved", "backed", "rebuilding", "swapped"}
    BY <1>1, <1>10, OthersNotMigrating
  <2> QED BY <2>1 DEF MigratesAlone
<1>11. texts' \in Nat /\ texts <= texts'
  BY <1>1, MemoryBounds DEF StoreTyped
<1>12. CASE work' = work
  <2>1. E!Current' = E!Current
    BY <1>1, <1>12 DEF E!Current
  <2>2. StoreTyped'
    BY <1>1, <1>7, <1>12 DEF StoreTyped
  <2>3. ASSUME ~raced' PROVE Undisturbed'
    <3>1. Undisturbed
      BY <1>1, <2>3
    <3>2. kept' = E!Current'.mem
      BY <1>1, <2>1, <3>1 DEF Undisturbed
    <3>3. \A u \in E!Threads : phase'[u] = "vector" => phase[u] = "vector" /\ script'[u][1] = script[u][1]
      BY <1>1, <1>7
    <3> QED BY <1>1, <1>9, <1>10, <1>11, <2>1, <3>1, <3>2, <3>3, StaysUndisturbed
  <2> QED BY <1>8, <2>2, <2>3
<1>13. CASE work' = [now EXCEPT !.vec[call.id] = IF call.op = "delete" THEN 0 ELSE call.text]
  <2>1. call.text \in 1..MaxTexts /\ call.id \in E!Ids
    BY <1>2, <1>4, CallParts
  <2>2. PICK text \in 0..MaxTexts : text = IF call.op = "delete" THEN 0 ELSE call.text
    BY <2>1, MemoryBounds
  <2>3. PICK vec : vec = [now.vec EXCEPT ![call.id] = text]
    OBVIOUS
  <2>4. now.vec \in [E!Ids -> 0..MaxTexts] /\ now.mem \in Memories /\ now.next \in 1..(MaxIds + 1) /\ now.soul \in BOOLEAN
    BY TablesParts
  <2>5. vec \in [E!Ids -> 0..MaxTexts] /\ vec[call.id] = text
        /\ \A i \in E!Ids : i # call.id => vec[i] = now.vec[i]
    BY <2>1, <2>3, <2>4
  <2>6. work' = [now EXCEPT !.vec = vec]
    BY <1>13, <2>2, <2>3
  <2>7. work' \in E!Tables /\ work'.mem = now.mem /\ work'.vec = vec
    BY <2>5, <2>6 DEF E!Tables, Memories
  <2>8. E!Current' = work'
    BY <2>7, CurrentTyped DEF E!Current
  <2>9. StoreTyped'
    BY <1>1, <1>7, <2>7 DEF StoreTyped
  <2>10. ASSUME ~raced' PROVE Undisturbed'
    <3>1. Undisturbed
      BY <1>1, <2>10
    <3>2. E!Current'.mem = kept'
      BY <1>1, <1>5, <2>7, <2>8, <3>1 DEF Undisturbed
    <3>3. OwnedVectors(disk.vec) /\ OwnedVectors(now.vec)
      BY <1>5, <3>1 DEF Undisturbed
    <3>4. OwnedVectors(disk.vec)'
      BY <1>1, <1>9, <3>3 DEF OwnedVectors
    <3>5. ASSUME NEW i \in E!Ids, vec[i] # 0
          PROVE  /\ vec[i] <= texts' /\ owner'[vec[i]] = i
                 /\ \A u \in E!Threads : ToWrite(u)' => vec[i] # script'[u][1].text
      <4>1. CASE i = call.id
        <5>1. call.op # "delete" /\ vec[i] = call.text
          BY <2>2, <2>5, <3>5, <4>1
        <5>2. call.text <= texts
          BY <1>4 DEF ScriptsPlaced
        <5>3. owner[call.text] = call.id
          BY <1>1, <1>4, <3>1, <5>1 DEF Undisturbed, RowOwned
        <5>4. ASSUME NEW u \in E!Threads, ToWrite(u)' PROVE call.text # script[u][1].text
          <6>1. u # t /\ script[u] # <<>>
            BY <1>9, <5>4 DEF ToWrite
          <6>2. 1 \in 1..Len(script[u])
            BY <1>3, <6>1, ScriptTyped
          <6>3. script[u][1].text # script[t][1].text
            BY <1>4, <6>1, <6>2, OtherTexts
          <6> QED BY <1>4, <6>3
        <5> QED BY <1>1, <4>1, <5>1, <5>2, <5>3, <5>4
      <4>2. CASE i # call.id
        <5>1. vec[i] = now.vec[i]
          BY <2>5, <4>2
        <5> QED BY <1>1, <1>9, <3>3, <3>5, <5>1 DEF OwnedVectors
      <4> QED BY <4>1, <4>2
    <3>6. OwnedVectors(E!Current.vec)'
      BY <2>7, <2>8, <3>5 DEF OwnedVectors
    <3>7. \A u \in E!Threads : RowOwned(u)'
      BY <1>1, <1>7, <3>1 DEF Undisturbed, RowOwned
    <3> QED BY <1>10, <3>1, <3>2, <3>4, <3>6, <3>7 DEF Undisturbed
  <2> QED BY <1>8, <2>9, <2>10
<1> QED BY <1>6, <1>12, <1>13

-----------------------------------------------------------------------------
(* What a command makes a thread call next: calls that share one new text, *)
(* of which only the first may write.                                      *)
Scripted(made) ==
  \E ids :
    /\ made \in Seq(CallOf(ids))
    /\ \A k \in 1..Len(made) : made[k].text = texts + 1 /\ (k # 1 => made[k].op = "delete")

LEMMA MemoryCalls ==
  ASSUME MemoryInv, NEW t \in E!Threads, NEW made, E!Calls(t, made), texts < MaxTexts => Scripted(made)
  PROVE  MemoryInv'
<1> USE DEF MemoryInv
<1>1. /\ phase[t] = "idle" /\ script[t] = <<>> /\ texts < MaxTexts
      /\ script' = [script EXCEPT ![t] = made] /\ texts' = texts + 1
      /\ UNCHANGED <<disk, work, backup, phase, rebuilt, kept, owner, raced>>
  BY DEF E!Calls
<1>2. PICK old : script \in ScriptsOf(old)
  BY DEF ScriptsTyped
<1>3. PICK new : made \in Seq(CallOf(new))
                 /\ \A k \in 1..Len(made) : made[k].text = texts + 1 /\ (k # 1 => made[k].op = "delete")
  BY <1>1 DEF Scripted
<1>4. PICK wide : wide = old \cup new
  OBVIOUS
<1>5. CallOf(old) \subseteq CallOf(wide) /\ CallOf(new) \subseteq CallOf(wide)
  BY <1>4 DEF CallOf
<1>6. made \in Seq(CallOf(wide)) /\ \A u \in E!Threads : script[u] \in Seq(CallOf(wide))
  BY <1>2, <1>3, <1>5, ScriptTyped, SeqWider
<1>7. script' \in ScriptsOf(wide) /\ script'[t] = made /\ \A u \in E!Threads : u # t => script'[u] = script[u]
  BY <1>1, <1>2, <1>6 DEF ScriptsOf
<1>8. texts \in Nat /\ MaxTexts \in Nat /\ texts' \in 0..MaxTexts /\ texts' \in Nat /\ texts <= texts' /\ texts < texts'
  BY <1>1, MemoryBounds DEF StoreTyped
<1>9. StoreTyped' /\ ScriptsTyped'
  BY <1>1, <1>7, <1>8 DEF StoreTyped, ScriptsTyped
<1>10. \A u \in E!Threads : \A k \in 1..Len(script[u]) : script[u][k].text <= texts /\ script[u][k].text \in Nat
  <2> SUFFICES ASSUME NEW u \in E!Threads, NEW k \in 1..Len(script[u])
               PROVE  script[u][k].text <= texts /\ script[u][k].text \in Nat
    OBVIOUS
  <2>1. PICK call \in CallOf(wide) : call = script[u][k]
    BY <1>6
  <2>2. call.text \in Nat
    BY CallParts, MemoryBounds
  <2> QED BY <2>1, <2>2 DEF ScriptsPlaced
<1>11. ScriptsPlaced'
  <2>1. \A u \in E!Threads : (phase'[u] # "idle" => script'[u] # <<>>) /\ (phase'[u] = "vector" => script'[u][1].id \in E!Ids)
    BY <1>1, <1>7 DEF ScriptsPlaced
  <2>2. ASSUME NEW u \in E!Threads, NEW k \in 1..Len(script'[u])
        PROVE  script'[u][k].text <= texts' /\ (k # 1 => script'[u][k].op = "delete")
    <3>1. CASE u = t
      BY <1>1, <1>3, <1>7, <1>8, <2>2, <3>1
    <3>2. CASE u # t
      BY <1>7, <1>8, <1>10, <2>2, <3>2 DEF ScriptsPlaced
    <3> QED BY <3>1, <3>2
  <2>3. ASSUME NEW u \in E!Threads, NEW k \in 1..Len(script'[u]), NEW v \in E!Threads, v # u,
               NEW m \in 1..Len(script'[v])
        PROVE  script'[v][m].text # script'[u][k].text
    <3>1. CASE u = t
      <4>1. script'[u][k].text = texts + 1 /\ script'[v] = script[v]
        BY <1>3, <1>7, <2>3, <3>1
      <4> QED BY <1>8, <1>10, <2>3, <4>1
    <3>2. CASE v = t
      <4>1. script'[v][m].text = texts + 1 /\ script'[u] = script[u]
        BY <1>3, <1>7, <2>3, <3>2
      <4> QED BY <1>8, <1>10, <2>3, <4>1
    <3>3. CASE u # t /\ v # t
      BY <1>7, <2>3, <3>3 DEF ScriptsPlaced
    <3> QED BY <3>1, <3>2, <3>3
  <2> QED BY <2>1, <2>2, <2>3 DEF ScriptsPlaced
<1>12. E!Current' = E!Current
  BY <1>1 DEF E!Current
<1>13. ASSUME ~raced' PROVE Undisturbed'
  <2>1. Undisturbed
    BY <1>1, <1>13
  <2>2. kept' = E!Current'.mem
    BY <1>1, <1>12, <2>1 DEF Undisturbed
  <2>3. ASSUME NEW u \in E!Threads, ToWrite(u)'
        PROVE  \/ ToWrite(u) /\ script'[u][1].text = script[u][1].text
               \/ script'[u][1].text > texts
    <3>1. CASE u = t
      <4>1. made # <<>> /\ 1 \in 1..Len(made)
        BY <1>3, <1>7, <2>3, <3>1 DEF ToWrite
      <4> QED BY <1>3, <1>7, <1>8, <3>1, <4>1
    <3>2. CASE u # t
      BY <1>1, <1>7, <2>3, <3>2 DEF ToWrite
    <3> QED BY <3>1, <3>2
  <2>4. \A u \in E!Threads : phase'[u] = "vector" => phase[u] = "vector" /\ script'[u][1] = script[u][1]
    BY <1>1, <1>7
  <2>5. \A u \in E!Threads : MigratesAlone(u)'
    BY <1>1, <1>12, <2>1 DEF Undisturbed, MigratesAlone
  <2> QED BY <1>1, <1>8, <1>12, <2>1, <2>2, <2>3, <2>4, <2>5, StaysUndisturbed
<1> QED BY <1>9, <1>11, <1>13

LEMMA CallMade ==
  ASSUME MemoryInv, texts < MaxTexts, NEW op \in {"write", "update", "delete"}, NEW type \in E!Types,
         NEW ids, NEW id \in ids, NEW cwd \in {"any", "here", "there"},
         NEW call, call = E!Call(op, type, id, cwd)
  PROVE  call \in CallOf(ids) /\ call.text = texts + 1 /\ call.op = op
<1>1. PICK text \in 1..MaxTexts : text = texts + 1
  BY MemoryBounds DEF MemoryInv, StoreTyped
<1>2. call = [op |-> op, type |-> type, id |-> id, cwd |-> cwd, text |-> text]
  BY <1>1 DEF E!Call
<1> QED BY <1>1, <1>2 DEF CallOf

LEMMA OneCall ==
  ASSUME MemoryInv, texts < MaxTexts, NEW op \in {"write", "update", "delete"}, NEW type \in E!Types,
         NEW id, NEW cwd \in {"any", "here", "there"}
  PROVE  Scripted(<<E!Call(op, type, id, cwd)>>)
<1>1. PICK call : call = E!Call(op, type, id, cwd)
  OBVIOUS
<1>2. call \in CallOf({id}) /\ call.text = texts + 1
  BY <1>1, CallMade
<1>3. PICK made : made = <<call>>
  OBVIOUS
<1>4. made \in Seq(CallOf({id})) /\ Len(made) = 1 /\ made[1] = call
  BY <1>2, <1>3
<1>5. \A k \in 1..Len(made) : made[k].text = texts + 1 /\ (k # 1 => made[k].op = "delete")
  BY <1>2, <1>4
<1>6. Scripted(made)
  BY <1>4, <1>5 DEF Scripted
<1>7. made = <<E!Call(op, type, id, cwd)>>
  BY <1>1, <1>3
<1> QED BY <1>6, <1>7, Zenon

LEMMA MemoryOneCall ==
  ASSUME MemoryInv, NEW t \in E!Threads, NEW op \in {"write", "update", "delete"}, NEW type \in E!Types,
         NEW id, NEW cwd \in {"any", "here", "there"}, E!Calls(t, <<E!Call(op, type, id, cwd)>>)
  PROVE  MemoryInv'
BY OneCall, MemoryCalls

LEMMA MemoryCardinality ==
  \A T : E!Cardinality(T) = Cardinality(T) /\ (E!IsFiniteSet(T) <=> IsFiniteSet(T))
BY DEF E!Cardinality, Cardinality, E!IsFiniteSet, IsFiniteSet

LEMMA MemorySoulClear ==
  ASSUME MemoryInv, E!SoulClear
  PROVE  MemoryInv'
<1> DEFINE call(i) == E!Call("delete", "soul", E!NewestFirst(E!Souls)[i], "any")
<1>1. PICK n : n = E!Cardinality(E!Souls)
  OBVIOUS
<1>2. n \in Nat
  <2>1. IsFiniteSet(1..MaxIds)
    BY MemoryBounds, FS_Interval
  <2>2. E!Souls \subseteq 1..MaxIds
    BY DEF E!Souls, E!Stored, E!Ids
  <2>3. IsFiniteSet(E!Souls)
    BY <2>1, <2>2, FS_Subset
  <2> QED BY <1>1, <2>3, FS_CardinalityType, MemoryCardinality
<1>3. PICK made : made = [i \in 1..n |-> call(i)]
  OBVIOUS
<1>4. E!Calls("main", made)
  BY <1>1, <1>3 DEF E!SoulClear
<1>5. ASSUME texts < MaxTexts PROVE Scripted(made)
  <2>1. texts + 1 \in 1..MaxTexts
    BY <1>5, MemoryBounds DEF MemoryInv, StoreTyped
  <2>2. PICK ids : ids = {E!NewestFirst(E!Souls)[i] : i \in 1..n}
    OBVIOUS
  <2>3. \A i \in 1..n : call(i) \in CallOf(ids) /\ call(i).text = texts + 1 /\ call(i).op = "delete"
    <3> SUFFICES ASSUME NEW i \in 1..n
                 PROVE  call(i) \in CallOf(ids) /\ call(i).text = texts + 1 /\ call(i).op = "delete"
      OBVIOUS
    <3>1. PICK id \in ids : id = E!NewestFirst(E!Souls)[i]
      BY <2>2
    <3>2. call(i) = [op |-> "delete", type |-> "soul", id |-> id, cwd |-> "any", text |-> texts + 1]
      BY <3>1 DEF E!Call
    <3> QED BY <2>1, <3>2 DEF CallOf, E!Types
  <2> HIDE DEF call
  <2>4. made \in Seq(CallOf(ids)) /\ Len(made) = n /\ \A i \in 1..n : made[i] = call(i)
    BY <1>2, <1>3, <2>3
  <2> QED BY <2>3, <2>4 DEF Scripted
<1> QED BY <1>4, <1>5, MemoryCalls DEF E!Threads

LEMMA MemorySoulAudit ==
  ASSUME MemoryInv, NEW first \in E!Ids, NEW other \in E!Ids, E!SoulAudit(first, other)
  PROVE  MemoryInv'
<1>1. PICK made : made = <<E!Call("update", "soul", first, "any"), E!Call("delete", "soul", other, "any")>>
  OBVIOUS
<1>2. E!Calls("main", made)
  BY <1>1 DEF E!SoulAudit
<1>3. ASSUME texts < MaxTexts PROVE Scripted(made)
  <2>1. "soul" \in E!Types
    BY DEF E!Types
  <2>2. PICK one \in CallOf(E!Ids) : one = E!Call("update", "soul", first, "any") /\ one.text = texts + 1
    BY <1>3, <2>1, CallMade
  <2>3. PICK two \in CallOf(E!Ids) : /\ two = E!Call("delete", "soul", other, "any")
                                     /\ two.text = texts + 1 /\ two.op = "delete"
    BY <1>3, <2>1, CallMade
  <2>4. made = <<one, two>>
    BY <1>1, <2>2, <2>3
  <2>5. /\ made \in Seq(CallOf(E!Ids)) /\ Len(made) = 2 /\ made[1] = one /\ made[2] = two
    BY <2>4
  <2>6. \A k \in 1..Len(made) : made[k].text = texts + 1 /\ (k # 1 => made[k].op = "delete")
    BY <2>2, <2>3, <2>5
  <2> QED BY <2>5, <2>6 DEF Scripted
<1> QED BY <1>2, <1>3, MemoryCalls DEF E!Threads

LEMMA MemoryRestart ==
  ASSUME MemoryInv, NEW vec, E!Restart(vec)
  PROVE  MemoryInv'
<1> USE DEF MemoryInv
<1>1. /\ work' = E!NoWork /\ kept' = disk.mem
      /\ script' = [t \in E!Threads |-> <<>>] /\ phase' = [t \in E!Threads |-> "idle"]
      /\ UNCHANGED <<disk, backup, rebuilt, texts, owner, raced>>
  BY DEF E!Restart
<1>2. disk.mem \in Memories
  BY TablesParts DEF StoreTyped
<1>3. phase' \in [E!Threads -> Phases]
  BY <1>1 DEF Phases
<1>4. StoreTyped'
  BY <1>1, <1>2, <1>3 DEF StoreTyped
<1>5. ScriptsTyped'
  <2>1. script' \in ScriptsOf(E!Ids)
    BY <1>1 DEF ScriptsOf
  <2> QED BY <2>1 DEF ScriptsTyped
<1>6. ScriptsPlaced'
  BY <1>1 DEF ScriptsPlaced
<1>7. E!Current' = disk
  BY <1>1 DEF E!Current
<1>8. ASSUME ~raced' PROVE Undisturbed'
  <2>1. Undisturbed
    BY <1>1, <1>8
  <2>2. texts' \in Nat /\ texts <= texts'
    BY <1>1, MemoryBounds DEF StoreTyped
  <2>3. \A u \in E!Threads : ~ToWrite(u)' /\ phase'[u] = "idle"
    BY <1>1 DEF ToWrite
  <2>4. \A u \in E!Threads : MigratesAlone(u)'
    BY <2>3 DEF MigratesAlone
  <2> QED BY <1>1, <1>7, <2>1, <2>2, <2>3, <2>4, StaysUndisturbed
<1> QED BY <1>4, <1>5, <1>6, <1>8

LEMMA MemoryInit ==
  ASSUME E!Init
  PROVE  MemoryInv
<1>1. PICK souls \in {0, 2} :
        disk = [next |-> IF souls = 0 THEN 2 ELSE 3, soul |-> souls # 0, vec |-> [i \in E!Ids |-> 0],
               mem |-> [i \in E!Ids |->
                 IF i <= souls THEN [type |-> "soul", text |-> i, cwd |-> "any"]
                 ELSE IF i = 1 THEN [type |-> "decision", text |-> 1, cwd |-> "any"] ELSE E!NoMemory]]
  BY DEF E!Init
<1>2. /\ work = E!NoWork /\ backup = disk /\ rebuilt = disk.mem
      /\ script = [t \in E!Threads |-> <<>>] /\ phase = [t \in E!Threads |-> "idle"]
      /\ texts = 2 /\ kept = disk.mem /\ owner = [n \in 1..MaxTexts |-> IF n <= 2 THEN n ELSE 0]
  BY DEF E!Init
<1>3. PICK mem : mem = [i \in E!Ids |->
                 IF i <= souls THEN [type |-> "soul", text |-> i, cwd |-> "any"]
                 ELSE IF i = 1 THEN [type |-> "decision", text |-> 1, cwd |-> "any"] ELSE E!NoMemory]
  OBVIOUS
<1>4. mem \in Memories
  <2>1. \A i \in E!Ids : i \in 1..MaxIds /\ (i <= souls => i \in 1..MaxTexts) /\ 1 \in 1..MaxTexts
    BY MemoryBounds DEF E!Ids
  <2>2. \A i \in E!Ids : mem[i] \in E!Memory \cup {E!NoMemory}
    BY <1>3, <2>1 DEF E!Memory, E!Types
  <2> QED BY <1>3, <2>2 DEF Memories
<1>5. PICK vec : vec = [i \in E!Ids |-> 0]
  OBVIOUS
<1>6. vec \in [E!Ids -> 0..MaxTexts] /\ \A i \in E!Ids : vec[i] = 0
  BY <1>5, MemoryBounds
<1>7. disk = [next |-> IF souls = 0 THEN 2 ELSE 3, soul |-> souls # 0, vec |-> vec, mem |-> mem]
  BY <1>1, <1>3, <1>5
<1>8. PICK next \in 1..(MaxIds + 1) : next = IF souls = 0 THEN 2 ELSE 3
  BY MemoryBounds
<1>9. disk \in E!Tables /\ disk.mem = mem /\ disk.vec = vec
  BY <1>4, <1>6, <1>7, <1>8 DEF E!Tables, Memories
<1>10. owner \in [1..MaxTexts -> Nat] /\ texts \in 0..MaxTexts /\ phase \in [E!Threads -> Phases]
  BY <1>2, MemoryBounds DEF Phases
<1>11. StoreTyped
  BY <1>2, <1>4, <1>9, <1>10 DEF StoreTyped
<1>12. ScriptsTyped
  <2>1. script \in ScriptsOf(E!Ids)
    BY <1>2 DEF ScriptsOf
  <2> QED BY <2>1 DEF ScriptsTyped
<1>13. ScriptsPlaced
  BY <1>2 DEF ScriptsPlaced
<1>14. E!Current = disk
  BY <1>2 DEF E!Current
<1>15. OwnedVectors(vec)
  BY <1>6 DEF OwnedVectors
<1>16. \A t \in E!Threads : MigratesAlone(t) /\ RowOwned(t)
  BY <1>2 DEF MigratesAlone, RowOwned
<1>17. Undisturbed
  BY <1>2, <1>9, <1>14, <1>15, <1>16 DEF Undisturbed
<1> QED BY <1>11, <1>12, <1>13, <1>17 DEF MemoryInv

LEMMA MemoryStutter ==
  ASSUME MemoryInv, UNCHANGED memoryVars
  PROVE  MemoryInv'
<1>1. UNCHANGED <<disk, work, backup, script, phase, rebuilt, texts, kept, owner, raced>>
  BY DEF memoryVars
<1>2. E!Current' = E!Current
  BY <1>1 DEF E!Current
<1>3. StoreTyped' /\ ScriptsTyped' /\ ScriptsPlaced'
  BY <1>1 DEF MemoryInv, StoreTyped, ScriptsTyped, ScriptsPlaced
<1>4. ASSUME Undisturbed PROVE Undisturbed'
  BY <1>1, <1>2, <1>4 DEF Undisturbed, OwnedVectors, ToWrite, MigratesAlone, RowOwned
<1> QED BY <1>1, <1>3, <1>4 DEF MemoryInv

LEMMA MemoryGives ==
  ASSUME MemoryInv
  PROVE  E!MemoriesKept
<1>1. E!TypeOK
  BY DEF MemoryInv, StoreTyped, ScriptsPlaced, Phases, E!TypeOK
<1>2. ASSUME E!Quiet, ~raced PROVE disk.mem = kept
  BY <1>2 DEF MemoryInv, Undisturbed, E!Quiet, E!Current
<1>3. ASSUME ~raced, NEW i \in E!Ids, E!Current.vec[i] # 0 PROVE owner[E!Current.vec[i]] = i
  BY <1>3 DEF MemoryInv, Undisturbed, OwnedVectors
<1> QED BY <1>1, <1>2, <1>3 DEF E!MemoriesKept

LEMMA MemoryNext ==
  ASSUME MemoryInv, E!Next
  PROVE  MemoryInv'
<1>1. ASSUME NEW t \in E!Threads,
             \/ E!StartCall(t) \/ E!Ensure(t) \/ E!CopyFile(t) \/ E!BeginMigration(t) \/ E!Swap(t)
             \/ E!EndMigration(t) \/ E!Check(t) \/ E!Row(t) \/ E!Commit(t)
             \/ \E available \in BOOLEAN : E!Embed(t, available)
      PROVE  MemoryInv'
  BY <1>1, MemoryStartCall, MemoryEnsure, MemoryCopyFile, MemoryBeginMigration, MemorySwap,
     MemoryEndMigration, MemoryCheck, MemoryRow, MemoryCommit, MemoryEmbed
<1> USE DEF E!Threads, E!Types
<1>2. ASSUME NEW type \in E!Types, E!Remember(type) PROVE MemoryInv'
  BY <1>2, MemoryOneCall DEF E!Remember
<1>3. ASSUME NEW type \in E!Types, NEW id \in E!Ids, E!RememberMerge(type, id) PROVE MemoryInv'
  BY <1>3, MemoryOneCall DEF E!RememberMerge
<1>4. ASSUME NEW cwd \in {"here", "there"}, NEW duplicate, E!WriteWithPolicy(cwd, duplicate) PROVE MemoryInv'
  BY <1>4, MemoryOneCall DEF E!WriteWithPolicy
<1>5. ASSUME E!SoulAdd PROVE MemoryInv'
  BY <1>5, MemoryOneCall DEF E!SoulAdd
<1>6. ASSUME NEW id \in E!Ids, E!SoulReplace(id) \/ E!SoulEdit(id) \/ E!SoulRemove(id) PROVE MemoryInv'
  BY <1>6, MemoryOneCall DEF E!SoulReplace, E!SoulEdit, E!SoulRemove
<1> HIDE DEF E!Threads, E!Types
<1>7. ASSUME NEW first \in E!Ids, NEW other \in E!Ids, E!SoulAudit(first, other) PROVE MemoryInv'
  BY <1>7, MemorySoulAudit
<1>8. ASSUME NEW vec, E!Restart(vec) PROVE MemoryInv'
  BY <1>8, MemoryRestart
<1> QED BY <1>1, <1>2, <1>3, <1>4, <1>5, <1>6, <1>7, <1>8, MemorySoulClear DEF E!Next

(* MemoryStore.write, update and delete: for any number of memories and    *)
(* calls, and wherever the two threads meet outside the migration, no      *)
(* change of a memory is lost and no vector is of another memory's text.   *)
THEOREM MemoriesAlwaysKept == Spec => []MemoriesKept
<1> DEFINE Inv == part = "memory" => MemoryInv
<1>1. Init => Inv
  BY MemoryInit DEF Init, Started
<1>2. Inv /\ [Next]_vars => Inv'
  <2> SUFFICES ASSUME Inv, [Next]_vars, part' = "memory" PROVE MemoryInv'
    OBVIOUS
  <2>1. CASE UNCHANGED vars
    BY <2>1, MemoryStutter DEF vars
  <2>2. CASE Next
    BY <2>2, MemoryNext DEF Next, Alone
  <2> QED BY <2>1, <2>2
<1>3. Inv => MemoriesKept
  BY MemoryGives DEF MemoriesKept
<1> QED BY <1>1, <1>2, <1>3, PTL DEF Spec

-----------------------------------------------------------------------------
(* The coding tools.  What a recursive function over the places of a text  *)
(* computes is found by a fold, which exists by induction.                 *)

(* Induction over the numbers up to n, for a set of them.                  *)
LEMMA UpTo ==
  ASSUME NEW n \in Nat, NEW G, 0 \in G, \A i \in 1..n : i - 1 \in G => i \in G
  PROVE  \A i \in 0..n : i \in G
<1> SUFFICES ASSUME {i \in 0..n : i \notin G} # {} PROVE FALSE
  OBVIOUS
<1>1. PICK bad : bad = {i \in 0..n : i \notin G}
  OBVIOUS
<1>2. bad \in SUBSET Nat /\ bad # {}
  BY <1>1
<1>3. PICK m \in bad : \A k \in bad : m <= k
  BY <1>2, LeastNat
<1>4. m \in 1..n
  BY <1>1, <1>3
<1>5. m - 1 \in 0..n /\ ~(m <= m - 1)
  BY <1>4
<1>6. m - 1 \in G
  BY <1>1, <1>3, <1>5
<1> QED BY <1>1, <1>3, <1>4, <1>6

(* A fold exists: the values after each step of a sequence of steps.       *)
StepsOf(n, V) == [(1..n) \X V -> V]

FoldOf(n, V, base, step, f) ==
  f \in [0..n -> V] /\ f[0] = base /\ \A i \in 1..n : f[i] = step[<<i, f[i - 1]>>]

LEMMA FoldExists ==
  ASSUME NEW n \in Nat, NEW V, NEW base \in V, NEW step \in StepsOf(n, V)
  PROVE  \E f : FoldOf(n, V, base, step, f)
<1> USE DEF StepsOf
<1> DEFINE Ok(m) == \E f \in [0..m -> V] : f[0] = base /\ \A i \in 1..m : f[i] = step[<<i, f[i - 1]>>]
           good == {m \in 0..n : Ok(m)}
<1>1. Ok(0)
  <2> DEFINE f == [i \in 0..0 |-> base]
  <2>1. f \in [0..0 -> V] /\ f[0] = base /\ \A i \in 1..0 : FALSE
    OBVIOUS
  <2> QED BY <2>1
<1>2. ASSUME NEW m \in 1..n, Ok(m - 1) PROVE Ok(m)
  <2>1. PICK f \in [0..(m - 1) -> V] :
          f[0] = base /\ \A i \in 1..(m - 1) : f[i] = step[<<i, f[i - 1]>>]
    BY <1>2
  <2> DEFINE g == [i \in 0..m |-> IF i = m THEN step[<<m, f[m - 1]>>] ELSE f[i]]
  <2>2. m - 1 \in 0..(m - 1) /\ <<m, f[m - 1]>> \in (1..n) \X V
    OBVIOUS
  <2>3. step[<<m, f[m - 1]>>] \in V
    BY <2>2
  <2>4. g \in [0..m -> V]
    BY <2>3
  <2>5. g[0] = base
    <3>1. 0 \in 0..(m - 1) /\ 0 # m /\ 0 \in 0..m
      OBVIOUS
    <3> QED BY <2>1, <3>1
  <2>6. ASSUME NEW i \in 1..m PROVE g[i] = step[<<i, g[i - 1]>>]
    <3>1. i \in 0..m /\ i - 1 \in 0..m /\ i - 1 # m
      OBVIOUS
    <3>2. CASE i = m
      BY <3>1, <3>2
    <3>3. CASE i # m
      <4>1. i \in 1..(m - 1)
        BY <3>3
      <4> QED BY <2>1, <3>1, <3>3, <4>1
    <3> QED BY <3>2, <3>3
  <2> HIDE DEF g
  <2> QED BY <2>4, <2>5, <2>6
<1> HIDE DEF Ok
<1>3. 0 \in good /\ \A i \in 1..n : i - 1 \in good => i \in good
  BY <1>1, <1>2
<1>4. n \in good
  <2> HIDE DEF good
  <2> QED BY <1>3, UpTo
<1> QED BY <1>4 DEF Ok, FoldOf

Text == Seq(B!Letters)

LEMMA TextFacts ==
  ASSUME NEW s \in Text
  PROVE  /\ Len(s) \in Nat /\ \A i \in 1..Len(s) : s[i] \in B!Letters
         /\ <<>> \in Text
         /\ \A c \in B!Letters : Append(s, c) \in Text
BY DEF Text

(* read_text.                                                              *)
LEMMA TranslatedTyped ==
  ASSUME NEW s \in Text
  PROVE  B!Translated(s) \in Text
<1> DEFINE Rec(u) == [i \in 0..Len(s) |->
              IF i = 0 THEN <<>>
              ELSE IF s[i] = "lf" /\ i > 1 /\ s[i - 1] = "cr" THEN u[i - 1]
              ELSE Append(u[i - 1], IF s[i] = "cr" THEN "lf" ELSE s[i])]
           upto == CHOOSE u : u = Rec(u)
           step == [p \in (1..Len(s)) \X Text |->
              IF s[p[1]] = "lf" /\ p[1] > 1 /\ s[p[1] - 1] = "cr" THEN p[2]
              ELSE Append(p[2], IF s[p[1]] = "cr" THEN "lf" ELSE s[p[1]])]
<1>1. \A i \in 1..Len(s), t \in Text :
        /\ t \in Text /\ Append(t, IF s[i] = "cr" THEN "lf" ELSE s[i]) \in Text
  <2> TAKE i \in 1..Len(s), t \in Text
  <2>1. (IF s[i] = "cr" THEN "lf" ELSE s[i]) \in B!Letters
    BY TextFacts DEF B!Letters
  <2> QED BY <2>1, TextFacts
<1>2. step \in StepsOf(Len(s), Text)
  BY <1>1 DEF StepsOf
<1>3. PICK f : FoldOf(Len(s), Text, <<>>, step, f)
  <2>1. Len(s) \in Nat /\ <<>> \in Text
    BY TextFacts
  <2> HIDE DEF step
  <2> QED BY <1>2, <2>1, FoldExists
<1>4. \A i \in 1..Len(s) : <<i, f[i - 1]>> \in (1..Len(s)) \X Text
  <2> TAKE i \in 1..Len(s)
  <2>1. i - 1 \in 0..Len(s)
    BY TextFacts
  <2> QED BY <1>3, <2>1 DEF FoldOf
<1>5. f = Rec(f)
  <2>1. \A i \in 0..Len(s) : i # 0 => i \in 1..Len(s)
    BY TextFacts
  <2>2. \A i \in 1..Len(s) : step[<<i, f[i - 1]>>] =
          IF s[i] = "lf" /\ i > 1 /\ s[i - 1] = "cr" THEN f[i - 1]
          ELSE Append(f[i - 1], IF s[i] = "cr" THEN "lf" ELSE s[i])
    BY <1>4
  <2> HIDE DEF step
  <2> QED BY <1>3, <2>1, <2>2 DEF FoldOf
<1>6. upto = Rec(upto)
  <2> HIDE DEF Rec
  <2> QED BY <1>5
<1> HIDE DEF upto
<1>7. upto[Len(s)] \in Text
  <2> DEFINE G == {i \in 0..Len(s) : upto[i] \in Text}
  <2>1. 0 \in G
    BY <1>6, TextFacts
  <2>2. ASSUME NEW i \in 1..Len(s), i - 1 \in G PROVE i \in G
    <3>1. i \in 0..Len(s) /\ i # 0
      BY TextFacts
    <3> QED BY <1>1, <1>6, <2>2, <3>1
  <2>3. Len(s) \in G
    <3> HIDE DEF G
    <3>1. Len(s) \in Nat /\ Len(s) \in 0..Len(s)
      BY TextFacts
    <3> QED BY <2>1, <2>2, <3>1, UpTo
  <2> QED BY <2>3
<1> QED BY <1>7 DEF B!Translated, upto

(* splitlines.                                                             *)
LEMMA LinesTyped ==
  ASSUME NEW s \in Text
  PROVE  B!Lines(s) \in Seq(Text)
<1> DEFINE Reads == [lines : Seq(Text), last : Text]
           Rec(u) == [i \in 0..Len(s) |->
              IF i = 0 THEN [lines |-> <<>>, last |-> <<>>]
              ELSE LET read == u[i - 1]
                   IN  IF s[i] = "lf" THEN [lines |-> Append(read.lines, read.last), last |-> <<>>]
                       ELSE [read EXCEPT !.last = Append(@, s[i])]]
           upto == CHOOSE u : u = Rec(u)
           Next1(c, read) ==
             IF c = "lf" THEN [lines |-> Append(read.lines, read.last), last |-> <<>>]
             ELSE [read EXCEPT !.last = Append(@, c)]
           step == [p \in (1..Len(s)) \X Reads |-> Next1(s[p[1]], p[2])]
<1>1. [lines |-> <<>>, last |-> <<>>] \in Reads
  BY TextFacts
<1>2. \A c \in B!Letters, read \in Reads : Next1(c, read) \in Reads
  <2> TAKE c \in B!Letters, read \in Reads
  <2>1. read.last \in Text /\ read.lines \in Seq(Text)
    OBVIOUS
  <2>2. <<>> \in Text /\ Append(read.last, c) \in Text /\ Append(read.lines, read.last) \in Seq(Text)
    BY <2>1, TextFacts
  <2> QED BY <2>1, <2>2
<1>3. \A i \in 1..Len(s) : i \in 0..Len(s) /\ i - 1 \in 0..Len(s) /\ i # 0 /\ s[i] \in B!Letters
  BY TextFacts
<1>4. Len(s) \in Nat
  BY TextFacts
<1> HIDE DEF Reads, Next1
<1>5. step \in StepsOf(Len(s), Reads)
  BY <1>2, <1>3 DEF StepsOf
<1>6. PICK f : FoldOf(Len(s), Reads, [lines |-> <<>>, last |-> <<>>], step, f)
  <2> HIDE DEF step
  <2> QED BY <1>1, <1>4, <1>5, FoldExists
<1>7. \A i \in 1..Len(s) : f[i] = Next1(s[i], f[i - 1])
  <2> TAKE i \in 1..Len(s)
  <2>1. <<i, f[i - 1]>> \in (1..Len(s)) \X Reads
    BY <1>3, <1>6 DEF FoldOf
  <2> QED BY <1>6, <2>1 DEF FoldOf
<1>8. f = Rec(f)
  <2>1. \A i \in 0..Len(s) : i # 0 => i \in 1..Len(s)
    BY <1>4
  <2> HIDE DEF step
  <2> QED BY <1>6, <1>7, <2>1 DEF Next1, FoldOf
<1>9. upto = Rec(upto)
  <2> HIDE DEF Rec
  <2> QED BY <1>8
<1> HIDE DEF upto
<1>10. upto[Len(s)] \in Reads
  <2> DEFINE G == {i \in 0..Len(s) : upto[i] \in Reads}
  <2>1. 0 \in G
    BY <1>1, <1>4, <1>9
  <2>2. ASSUME NEW i \in 1..Len(s), i - 1 \in G PROVE i \in G
    <3>1. upto[i] = Next1(s[i], upto[i - 1])
      BY <1>3, <1>9 DEF Next1
    <3> QED BY <1>2, <1>3, <2>2, <3>1
  <2>3. Len(s) \in G
    <3> HIDE DEF G
    <3>1. Len(s) \in 0..Len(s)
      BY <1>4
    <3> QED BY <1>4, <2>1, <2>2, <3>1, UpTo
  <2> QED BY <2>3
<1>11. PICK all : all = upto[Len(s)]
  OBVIOUS
<1>12. all.lines \in Seq(Text) /\ Append(all.lines, all.last) \in Seq(Text)
  <2>1. all.lines \in Seq(Text) /\ all.last \in Text
    BY <1>10, <1>11 DEF Reads
  <2> QED BY <2>1
<1>13. B!Lines(s) = IF all.last = <<>> THEN all.lines ELSE Append(all.lines, all.last)
  BY <1>11 DEF B!Lines, upto
<1> QED BY <1>12, <1>13

(* count: where it finds `old', and finds it apart.                        *)
Finds(s, old) ==
  {found \in Seq(1..(Len(s) + 1)) :
     /\ \A k \in 1..Len(found) : B!StartsAt(s, found[k], old)
     /\ \A k \in 1..(Len(found) - 1) : found[k + 1] >= found[k] + Len(old)}

LEMMA FoundPlaces ==
  ASSUME NEW s \in Text, NEW old \in Text
  PROVE  B!Found(s, old) \in Finds(s, old)
<1> DEFINE Rec(u) == [i \in 0..Len(s) |->
              IF i = 0 THEN <<>>
              ELSE LET found == u[i - 1]
                   IN  IF B!StartsAt(s, i, old) /\ (found = <<>> \/ i >= found[Len(found)] + Len(old))
                       THEN Append(found, i) ELSE found]
           upto == CHOOSE u : u = Rec(u)
           Next1(i, found) ==
             IF B!StartsAt(s, i, old) /\ (found = <<>> \/ i >= found[Len(found)] + Len(old))
             THEN Append(found, i) ELSE found
           step == [p \in (1..Len(s)) \X Finds(s, old) |-> Next1(p[1], p[2])]
<1>1. <<>> \in Finds(s, old)
  BY DEF Finds
<1>2. Len(s) \in Nat /\ Len(old) \in Nat
  BY TextFacts
<1>3. \A i \in 1..Len(s) : i \in 0..Len(s) /\ i - 1 \in 0..Len(s) /\ i # 0 /\ i \in 1..(Len(s) + 1)
  BY <1>2
<1>4. \A i \in 1..Len(s), found \in Finds(s, old) : Next1(i, found) \in Finds(s, old)
  <2> TAKE i \in 1..Len(s), found \in Finds(s, old)
  <2>1. CASE B!StartsAt(s, i, old) /\ (found = <<>> \/ i >= found[Len(found)] + Len(old))
    <3>1. PICK n \in Nat : n = Len(found)
      BY DEF Finds
    <3>2. PICK more : more = Append(found, i)
      OBVIOUS
    <3>3. /\ more \in Seq(1..(Len(s) + 1)) /\ Len(more) = n + 1 /\ more[n + 1] = i
          /\ \A k \in 1..n : more[k] = found[k]
      BY <1>3, <3>1, <3>2 DEF Finds
    <3>4. \A k \in 1..(n + 1) : B!StartsAt(s, more[k], old)
      <4> TAKE k \in 1..(n + 1)
      <4>1. k = n + 1 \/ k \in 1..n
        OBVIOUS
      <4> QED BY <2>1, <3>1, <3>3, <4>1 DEF Finds
    <3>5. \A k \in 1..n : more[k + 1] >= more[k] + Len(old)
      <4> TAKE k \in 1..n
      <4>1. k = n \/ (k \in 1..(n - 1) /\ k + 1 \in 1..n)
        OBVIOUS
      <4>2. CASE k = n
        <5>1. found # <<>>
          BY <3>1, <4>2
        <5> QED BY <2>1, <3>1, <3>3, <4>2, <5>1
      <4>3. CASE k \in 1..(n - 1) /\ k + 1 \in 1..n
        BY <3>1, <3>3, <4>3 DEF Finds
      <4> QED BY <4>1, <4>2, <4>3
    <3>6. Next1(i, found) = more
      BY <2>1, <3>2
    <3>7. Len(more) - 1 = n
      BY <3>3
    <3> QED BY <3>3, <3>4, <3>5, <3>6, <3>7 DEF Finds
  <2>2. CASE ~(B!StartsAt(s, i, old) /\ (found = <<>> \/ i >= found[Len(found)] + Len(old)))
    BY <2>2
  <2> QED BY <2>1, <2>2
<1>5. CASE old = <<>>
  <2>1. B!Found(s, old) = [i \in 1..(Len(s) + 1) |-> i]
    BY <1>5 DEF B!Found
  <2>2. PICK found : found = [i \in 1..(Len(s) + 1) |-> i]
    OBVIOUS
  <2>3. found \in Seq(1..(Len(s) + 1)) /\ Len(found) = Len(s) + 1 /\ \A i \in 1..(Len(s) + 1) : found[i] = i
    BY <1>2, <2>2
  <2>4. Len(old) = 0
    BY <1>5
  <2>5. \A i \in 1..(Len(s) + 1) : B!StartsAt(s, i, old)
    <3> TAKE i \in 1..(Len(s) + 1)
    <3>1. i \in Nat /\ i - 1 \in Int /\ i > i - 1 /\ i + 0 - 1 = i - 1 /\ i - 1 <= Len(s)
      BY <1>2
    <3>2. SubSeq(s, i, i - 1) = <<>>
      BY <3>1, SubSeqEmpty DEF Text
    <3>3. i + Len(old) - 1 = i - 1
      BY <2>4, <3>1
    <3>4. SubSeq(s, i, i + Len(old) - 1) = old /\ i + Len(old) - 1 <= Len(s)
      BY <1>5, <3>1, <3>2, <3>3
    <3> QED BY <3>4 DEF B!StartsAt
  <2>6. \A k \in 1..(Len(found) - 1) : found[k + 1] >= found[k] + Len(old)
    <3> TAKE k \in 1..(Len(found) - 1)
    <3>1. k \in 1..(Len(s) + 1) /\ k + 1 \in 1..(Len(s) + 1)
      BY <1>2, <2>3
    <3>2. found[k] = k /\ found[k + 1] = k + 1
      BY <2>3, <3>1
    <3> QED BY <2>4, <3>1, <3>2
  <2>7. found \in Finds(s, old)
    BY <2>3, <2>5, <2>6 DEF Finds
  <2> QED BY <2>1, <2>2, <2>7
<1> HIDE DEF Next1
<1>6. CASE old # <<>>
  <2>1. step \in StepsOf(Len(s), Finds(s, old))
    BY <1>4 DEF StepsOf
  <2>2. PICK f : FoldOf(Len(s), Finds(s, old), <<>>, step, f)
    <3> HIDE DEF step
    <3> QED BY <1>1, <1>2, <2>1, FoldExists
  <2>3. \A i \in 1..Len(s) : f[i] = Next1(i, f[i - 1])
    <3> TAKE i \in 1..Len(s)
    <3>1. <<i, f[i - 1]>> \in (1..Len(s)) \X Finds(s, old)
      BY <1>3, <2>2 DEF FoldOf
    <3> QED BY <2>2, <3>1 DEF FoldOf
  <2>4. f = Rec(f)
    <3>1. \A i \in 0..Len(s) : i # 0 => i \in 1..Len(s)
      BY <1>2
    <3> HIDE DEF step
    <3> QED BY <2>2, <2>3, <3>1 DEF Next1, FoldOf
  <2>5. upto = Rec(upto)
    <3> HIDE DEF Rec
    <3> QED BY <2>4
  <2> HIDE DEF upto
  <2>6. upto[Len(s)] \in Finds(s, old)
    <3> DEFINE G == {i \in 0..Len(s) : upto[i] \in Finds(s, old)}
    <3>1. 0 \in G
      BY <1>1, <1>2, <2>5
    <3>2. ASSUME NEW i \in 1..Len(s), i - 1 \in G PROVE i \in G
      <4>1. upto[i] = Next1(i, upto[i - 1])
        BY <1>3, <2>5 DEF Next1
      <4> QED BY <1>3, <1>4, <3>2, <4>1
    <3>3. Len(s) \in G
      <4> HIDE DEF G
      <4>1. Len(s) \in 0..Len(s)
        BY <1>2
      <4> QED BY <1>2, <3>1, <3>2, <4>1, UpTo
    <3> QED BY <3>3
  <2> QED BY <1>6, <2>6 DEF B!Found, upto
<1> QED BY <1>5, <1>6

LEMMA PartOfText ==
  ASSUME NEW s \in Text, NEW a \in 1..(Len(s) + 1), NEW b \in (a - 1)..Len(s)
  PROVE  SubSeq(s, a, b) \in Text /\ Len(SubSeq(s, a, b)) = b - a + 1
<1>1. Len(s) \in Nat /\ a \in Int /\ b \in Int /\ 1 <= a /\ a <= b + 1 /\ b <= Len(s)
  BY TextFacts
<1>2. \A i \in a..b : s[i] \in B!Letters
  <2>1. \A i \in a..b : i \in 1..Len(s)
    BY <1>1
  <2> QED BY <2>1, TextFacts
<1> QED BY <1>1, <1>2, SubSeqProperties DEF Text

LEMMA JoinedText ==
  ASSUME NEW s \in Text, NEW t \in Text
  PROVE  s \o t \in Text /\ Len(s \o t) = Len(s) + Len(t)
BY ConcatProperties DEF Text

(* A part of a text stays where it is when the text is continued.          *)
LEMMA LiesLeft ==
  ASSUME NEW s \in Text, NEW t \in Text, NEW p \in Text, NEW a \in Nat \ {0}, B!StartsAt(s, a, p)
  PROVE  B!StartsAt(s \o t, a, p)
<1>1. PICK m \in Nat : m = Len(s)
  BY TextFacts
<1>2. PICK n \in Nat : n = Len(p)
  BY TextFacts
<1>3. PICK e \in Int : e = a + n - 1
  OBVIOUS
<1>4. e <= m /\ SubSeq(s, a, e) = p
  BY <1>1, <1>2, <1>3 DEF B!StartsAt
<1>5. Len(s \o t) \in Nat /\ m <= Len(s \o t)
  <2>1. Len(s \o t) = m + Len(t) /\ Len(t) \in Nat
    BY <1>1, JoinedText, TextFacts
  <2> QED BY <2>1
<1>6. SubSeq(s \o t, a, e) = p
  <2>1. CASE n = 0
    <3>1. e < a
      BY <1>3, <2>1
    <3> QED BY <1>4, <3>1, SubSeqEmpty
  <2>2. CASE n # 0
    <3>1. a \in 1..Len(s) /\ e \in 1..Len(s)
      BY <1>1, <1>3, <1>4, <2>2
    <3>2. SubSeq(s \o t, a, e) = SubSeq(s, a, e)
      BY <3>1, SubSeqOfConcat1 DEF Text
    <3> QED BY <1>4, <3>2
  <2> QED BY <2>1, <2>2
<1>7. e <= Len(s \o t)
  BY <1>1, <1>4, <1>5
<1> QED BY <1>2, <1>3, <1>6, <1>7 DEF B!StartsAt

(* What is joined to a text starts where that ends.                        *)
LEMMA LiesRight ==
  ASSUME NEW s \in Text, NEW t \in Text, NEW a, a = Len(s) + 1
  PROVE  a \in Nat \ {0} /\ B!StartsAt(s \o t, a, t)
<1>1. PICK m \in Nat : m = Len(s)
  BY TextFacts
<1>2. PICK n \in Nat : n = Len(t)
  BY TextFacts
<1>3. PICK e \in Nat : e = m + n
  OBVIOUS
<1>4. Len(s \o t) = e /\ a + n - 1 = e /\ a = m + 1
  BY <1>1, <1>2, <1>3, JoinedText
<1>5. SubSeq(s \o t, a, e) = t
  <2>1. CASE n = 0
    <3>1. t = <<>>
      BY <1>2, <2>1, EmptySeq DEF Text
    <3>2. e < a /\ a \in Int
      BY <1>3, <1>4, <2>1
    <3> QED BY <3>1, <3>2, SubSeqEmpty
  <2>2. CASE n # 0
    <3>1. a \in (Len(s) + 1)..(Len(s) + Len(t)) /\ e \in (Len(s) + 1)..(Len(s) + Len(t))
      BY <1>1, <1>2, <1>3, <1>4, <2>2
    <3>2. SubSeq(s \o t, a, e) = SubSeq(t, a - Len(s), e - Len(s))
      BY <3>1, SubSeqOfConcat2 DEF Text
    <3>3. a - Len(s) = 1 /\ e - Len(s) = Len(t)
      BY <1>1, <1>2, <1>3, <1>4
    <3>4. SubSeq(t, 1, Len(t)) = t
      BY SubSeqFull DEF Text
    <3> QED BY <3>2, <3>3, <3>4
  <2> QED BY <2>1, <2>2
<1>6. a \in Nat \ {0}
  BY <1>4
<1> QED BY <1>2, <1>4, <1>5, <1>6 DEF B!StartsAt

(* Where the new string, and the piece behind the k-th place, come to lie. *)
NewAt(found, k, d) == found[k] + (k - 1) * d
KeptAt(found, k, old, d) == (IF k = 0 THEN 1 ELSE found[k] + Len(old)) + k * d
Kept(s, found, k, old) ==
  SubSeq(s, IF k = 0 THEN 1 ELSE found[k] + Len(old), IF k = Len(found) THEN Len(s) ELSE found[k + 1] - 1)
Lies(made, place, bit) == place \in Nat \ {0} /\ B!StartsAt(made, place, bit)

LEMMA PutTogether ==
  ASSUME NEW s, NEW made, NEW found, NEW old, NEW new, NEW n, n = Len(found),
         NEW d, d = Len(new) - Len(old),
         Len(made) = Len(s) + n * d,
         \A k \in 1..n : B!StartsAt(s, found[k], old) /\ Lies(made, NewAt(found, k, d), new),
         \A k \in 0..n : Lies(made, KeptAt(found, k, old, d), Kept(s, found, k, old))
  PROVE  B!ReplacedAt(made, s, found, old, new)
BY DEF B!ReplacedAt, Lies, NewAt, KeptAt, Kept

(* replace: every place that was found, and nothing else.                  *)
LEMMA Replaces ==
  ASSUME NEW s \in Text, NEW old \in Text, NEW new \in Text,
         NEW found \in Finds(s, old), NEW n \in Nat \ {0}, n = Len(found)
  PROVE  /\ B!Replaced(s, found, old, new) \in Text
         /\ B!ReplacedAt(B!Replaced(s, found, old, new), s, found, old, new)
<1> DEFINE Rec(u) == [i \in 0..Len(found) |->
              IF i = 0 THEN SubSeq(s, 1, found[1] - 1)
              ELSE u[i - 1] \o new
                   \o SubSeq(s, found[i] + Len(old), IF i = Len(found) THEN Len(s) ELSE found[i + 1] - 1)]
           upto == CHOOSE u : u = Rec(u)
           End(i) == IF i = Len(found) THEN Len(s) ELSE found[i + 1] - 1
           Piece(i) == SubSeq(s, found[i] + Len(old), End(i))
           first == SubSeq(s, 1, found[1] - 1)
           step == [p \in (1..n) \X Text |-> p[2] \o new \o Piece(p[1])]
           d == Len(new) - Len(old)
<1>1. Len(s) \in Nat /\ Len(old) \in Nat /\ Len(new) \in Nat
  BY TextFacts
<1>2. \A k \in 1..n : found[k] \in 1..(Len(s) + 1) /\ found[k] + Len(old) - 1 <= Len(s)
  BY DEF Finds, B!StartsAt
<1>3. \A k \in 1..(n - 1) : found[k + 1] >= found[k] + Len(old)
  BY DEF Finds
<1>4. ASSUME NEW i \in 1..n
      PROVE  /\ i \in 0..n /\ i - 1 \in 0..n /\ i # 0
             /\ End(i - 1) = found[i] - 1 /\ End(i) \in Int
             /\ Piece(i) \in Text /\ Len(Piece(i)) = End(i) - (found[i] + Len(old)) + 1
  <2>1. i \in 0..n /\ i - 1 \in 0..n /\ i # 0 /\ i - 1 # n /\ (i - 1) + 1 = i
    OBVIOUS
  <2>2. End(i - 1) = found[i] - 1
    BY <2>1
  <2>3. found[i] + Len(old) \in 1..(Len(s) + 1)
    BY <1>1, <1>2
  <2>4. End(i) \in (found[i] + Len(old) - 1)..Len(s)
    <3>1. CASE i = n
      BY <1>1, <1>2, <3>1
    <3>2. CASE i # n
      <4>1. i \in 1..(n - 1) /\ i + 1 \in 1..n
        BY <3>2
      <4>2. found[i + 1] >= found[i] + Len(old) /\ found[i + 1] \in 1..(Len(s) + 1) /\ found[i] \in Nat
        BY <1>2, <1>3, <4>1
      <4>3. End(i) = found[i + 1] - 1
        BY <3>2
      <4> QED BY <1>1, <4>2, <4>3
    <3> QED BY <3>1, <3>2
  <2> HIDE DEF End
  <2>5. Piece(i) \in Text /\ Len(Piece(i)) = End(i) - (found[i] + Len(old)) + 1
    <3>1. PICK a \in Int : a = found[i] + Len(old)
      BY <2>3
    <3>2. PICK b : b = End(i)
      OBVIOUS
    <3>3. a \in 1..(Len(s) + 1) /\ b \in (a - 1)..Len(s)
      <4>1. a - 1 = found[i] + Len(old) - 1
        BY <1>1, <1>2, <3>1
      <4> QED BY <2>3, <2>4, <3>1, <3>2, <4>1
    <3>4. SubSeq(s, a, b) \in Text /\ Len(SubSeq(s, a, b)) = b - a + 1
      BY <3>3, PartOfText
    <3> QED BY <3>1, <3>2, <3>4 DEF Piece
  <2>6. End(i) \in Int
    BY <1>1, <2>3, <2>4
  <2> QED BY <2>1, <2>2, <2>5, <2>6
<1>5. first \in Text /\ Len(first) = End(0)
  <2>1. found[1] \in 1..(Len(s) + 1)
    BY <1>2
  <2>2. 1 \in 1..(Len(s) + 1) /\ found[1] - 1 \in (1 - 1)..Len(s) /\ (found[1] - 1) - 1 + 1 = found[1] - 1
    BY <1>1, <2>1
  <2>3. first \in Text /\ Len(first) = found[1] - 1
    BY <2>2, PartOfText
  <2>4. 1 \in 1..n /\ 1 - 1 = 0
    OBVIOUS
  <2> QED BY <1>4, <2>3, <2>4
<1> HIDE DEF End, Piece, first
<1>6. \A i \in 1..n, t \in Text :
        /\ t \o new \o Piece(i) \in Text
        /\ Len(t \o new \o Piece(i)) = Len(t) + Len(new) + Len(Piece(i))
  <2> TAKE i \in 1..n, t \in Text
  <2>1. t \o new \in Text /\ Len(t \o new) = Len(t) + Len(new)
    BY JoinedText
  <2> QED BY <1>4, <2>1, JoinedText
<1>7. step \in StepsOf(n, Text)
  BY <1>6 DEF StepsOf
<1>8. PICK f : FoldOf(n, Text, first, step, f)
  <2> HIDE DEF step
  <2> QED BY <1>5, <1>7, FoldExists
<1>9. \A i \in 1..n : f[i] = f[i - 1] \o new \o Piece(i)
  <2> TAKE i \in 1..n
  <2>1. <<i, f[i - 1]>> \in (1..n) \X Text
    BY <1>4, <1>8 DEF FoldOf
  <2> QED BY <1>8, <2>1 DEF FoldOf
<1>10. f = Rec(f)
  <2>1. \A i \in 0..n : i # 0 => i \in 1..n
    OBVIOUS
  <2>2. \A i \in 1..n : f[i] = f[i - 1] \o new
            \o SubSeq(s, found[i] + Len(old), IF i = Len(found) THEN Len(s) ELSE found[i + 1] - 1)
    BY <1>9 DEF Piece, End
  <2>3. f[0] = SubSeq(s, 1, found[1] - 1) /\ f = [i \in 0..n |-> f[i]]
    BY <1>8 DEF FoldOf, first
  <2> HIDE DEF step
  <2> QED BY <2>1, <2>2, <2>3
<1>11. upto = Rec(upto)
  <2> HIDE DEF Rec
  <2> QED BY <1>10
<1> HIDE DEF upto
<1>12. upto[0] = first /\ \A i \in 1..n : upto[i] = upto[i - 1] \o new \o Piece(i)
  <2>1. upto[0] = SubSeq(s, 1, found[1] - 1)
    <3>1. 0 \in 0..n
      OBVIOUS
    <3> QED BY <1>11, <3>1
  <2>2. ASSUME NEW i \in 1..n
        PROVE  upto[i] = upto[i - 1] \o new
                 \o SubSeq(s, found[i] + Len(old), IF i = Len(found) THEN Len(s) ELSE found[i + 1] - 1)
    BY <1>4, <1>11
  <2> HIDE DEF Rec
  <2> QED BY <2>1, <2>2 DEF Piece, End, first
<1>13. B!Replaced(s, found, old, new) = upto[n]
  BY DEF B!Replaced, upto
<1>14. PICK dd \in Int : dd = d
  BY <1>1
<1> DEFINE Part(k) == IF k = 0 THEN first ELSE Piece(k)
           New(k) == NewAt(found, k, dd)
           Old(k) == KeptAt(found, k, old, dd)
<1>15. \A k \in 0..n : Part(k) = Kept(s, found, k, old)
  <2> TAKE k \in 0..n
  <2>1. CASE k = 0
    <3>1. 0 # Len(found) /\ 0 + 1 = 1
      OBVIOUS
    <3>2. Kept(s, found, 0, old) = SubSeq(s, 1, found[1] - 1)
      BY <3>1 DEF Kept
    <3> QED BY <2>1, <3>2 DEF first
  <2>2. CASE k # 0
    BY <2>2 DEF Kept, Piece, End
  <2> QED BY <2>1, <2>2
<1>16. \A k \in 0..n : Part(k) \in Text
  <2> TAKE k \in 0..n
  <2>1. k = 0 \/ k \in 1..n
    OBVIOUS
  <2> QED BY <1>4, <1>5, <2>1
<1> DEFINE G == {i \in 0..n :
              /\ upto[i] \in Text /\ Len(upto[i]) = End(i) + i * dd
              /\ \A k \in 1..i : Lies(upto[i], New(k), new)
              /\ \A k \in 0..i : Lies(upto[i], Old(k), Part(k))}
<1>17. 0 \in G
  <2>1. upto[0] \in Text /\ Len(upto[0]) = End(0) + 0 * dd
    <3>1. 0 * dd = 0 /\ End(0) \in Int /\ End(0) + 0 = End(0)
      <4>1. Len(first) \in Nat
        BY <1>5, TextFacts
      <4> QED BY <1>1, <1>5, <4>1
    <3> QED BY <1>5, <1>12, <3>1
  <2>2. Lies(upto[0], Old(0), Part(0))
    <3>1. Old(0) = 1
      <4>1. 0 * dd = 0 /\ 1 + 0 = 1
        OBVIOUS
      <4> QED BY <4>1 DEF KeptAt
    <3>2. B!StartsAt(first, 1, first)
      <4>1. SubSeq(first, 1, Len(first)) = first /\ Len(first) \in Nat
        BY <1>5, TextFacts, SubSeqFull DEF Text
      <4>2. 1 + Len(first) - 1 = Len(first) /\ Len(first) <= Len(first)
        BY <4>1
      <4> QED BY <4>1, <4>2 DEF B!StartsAt
    <3> QED BY <1>12, <3>1, <3>2 DEF Lies
  <2>3. \A k \in 1..0 : FALSE
    OBVIOUS
  <2>4. \A k \in 0..0 : k = 0
    OBVIOUS
  <2> HIDE DEF Part, Old, New
  <2> QED BY <2>1, <2>2, <2>3, <2>4
<1>18. ASSUME NEW i \in 1..n, i - 1 \in G PROVE i \in G
  <2>1. PICK before \in Text : before = upto[i - 1]
    BY <1>18
  <2>2. PICK piece \in Text : piece = Piece(i)
    BY <1>4
  <2>3. upto[i] = before \o new \o piece
    BY <1>12, <2>1, <2>2
  <2>4. before \o new \in Text /\ Len(before \o new) = Len(before) + Len(new)
    BY JoinedText
  <2>5. upto[i] \in Text /\ Len(upto[i]) = Len(before) + Len(new) + Len(piece)
    BY <2>3, <2>4, JoinedText
  <2>6. PICK m \in Int : m = (i - 1) * dd
    OBVIOUS
  <2>7. PICK w \in Int : w = i * dd /\ w = m + dd
    <3>1. i * dd = m + dd /\ i * dd \in Int
      BY <2>6
    <3> QED BY <3>1
  <2>8. Len(before) = found[i] - 1 + m
    BY <1>4, <1>18, <2>1, <2>6
  <2>9. Len(piece) = End(i) - (found[i] + Len(old)) + 1 /\ End(i) \in Int /\ found[i] \in Int
    BY <1>2, <1>4, <2>2
  <2>10. dd = Len(new) - Len(old)
    BY <1>14
  <2>11. Len(upto[i]) = End(i) + i * dd
    <3>1. Len(upto[i]) = End(i) + w
      <4>1. PICK e \in Int : e = End(i)
        BY <2>9
      <4>2. PICK p \in Int : p = found[i]
        BY <2>9
      <4>3. PICK lo \in Int : lo = Len(old)
        BY <1>1
      <4>4. PICK ln \in Int : ln = Len(new)
        BY <1>1
      <4>5. Len(upto[i]) = (p - 1 + m) + ln + (e - (p + lo) + 1) /\ w = m + (ln - lo)
        BY <2>5, <2>7, <2>8, <2>9, <2>10, <4>1, <4>2, <4>3, <4>4
      <4>6. (p - 1 + m) + ln + (e - (p + lo) + 1) = e + (m + (ln - lo))
        OBVIOUS
      <4> QED BY <4>1, <4>5, <4>6
    <3> QED BY <2>7, <3>1
  <2>12. New(i) = Len(before) + 1
    BY <2>6, <2>8, <2>9 DEF NewAt
  <2>13. Old(i) = Len(before \o new) + 1
    <3>1. Old(i) = found[i] + Len(old) + w
      BY <1>4, <2>7 DEF KeptAt
    <3>2. PICK p \in Int : p = found[i]
      BY <2>9
    <3>3. PICK lo \in Int : lo = Len(old)
      BY <1>1
    <3>4. PICK ln \in Int : ln = Len(new)
      BY <1>1
    <3>5. Old(i) = p + lo + w /\ w = m + (ln - lo) /\ Len(before \o new) + 1 = (p - 1 + m) + ln + 1
      BY <2>4, <2>7, <2>8, <2>10, <3>1, <3>2, <3>3, <3>4
    <3>6. p + lo + (m + (ln - lo)) = (p - 1 + m) + ln + 1
      OBVIOUS
    <3> QED BY <3>5, <3>6
  <2> HIDE DEF New, Old, Part
  <2>14. ASSUME NEW place, NEW bit \in Text, Lies(before, place, bit)
         PROVE  Lies(upto[i], place, bit)
    <3>1. place \in Nat \ {0} /\ B!StartsAt(before, place, bit)
      BY <2>14 DEF Lies
    <3>2. B!StartsAt(before \o new, place, bit)
      BY <3>1, LiesLeft
    <3>3. B!StartsAt(before \o new \o piece, place, bit)
      BY <2>4, <3>1, <3>2, LiesLeft
    <3> QED BY <2>3, <3>1, <3>3 DEF Lies
  <2>15. Lies(upto[i], New(i), new)
    <3>1. New(i) \in Nat \ {0} /\ B!StartsAt(before \o new, New(i), new)
      BY <2>12, LiesRight
    <3>2. B!StartsAt(before \o new \o piece, New(i), new)
      BY <2>4, <3>1, LiesLeft
    <3> QED BY <2>3, <3>1, <3>2 DEF Lies
  <2>16. Lies(upto[i], Old(i), Part(i))
    <3>1. Old(i) \in Nat \ {0} /\ B!StartsAt(before \o new \o piece, Old(i), piece)
      BY <2>4, <2>13, LiesRight
    <3>2. Part(i) = piece
      BY <1>4, <2>2 DEF Part
    <3> QED BY <2>3, <3>1, <3>2 DEF Lies
  <2>17. \A k \in 1..i : k = i \/ k \in 1..(i - 1)
    OBVIOUS
  <2>18. \A k \in 0..i : k = i \/ k \in 0..(i - 1)
    OBVIOUS
  <2>19. \A k \in 0..(i - 1) : Part(k) \in Text
    <3>1. \A k \in 0..(i - 1) : k \in 0..n
      OBVIOUS
    <3> QED BY <1>16, <3>1
  <2>20. /\ \A k \in 1..(i - 1) : Lies(before, New(k), new)
         /\ \A k \in 0..(i - 1) : Lies(before, Old(k), Part(k))
    BY <1>18, <2>1
  <2>21. \A k \in 1..i : Lies(upto[i], New(k), new)
    BY <2>14, <2>15, <2>17, <2>20
  <2>22. \A k \in 0..i : Lies(upto[i], Old(k), Part(k))
    BY <2>14, <2>16, <2>18, <2>19, <2>20
  <2> QED BY <1>4, <2>5, <2>11, <2>21, <2>22
<1>19. n \in G
  <2> HIDE DEF G
  <2>1. n \in 0..n
    OBVIOUS
  <2> QED BY <1>17, <1>18, <2>1, UpTo
<1>20. End(n) = Len(s)
  BY DEF End
<1>21. PICK made : made = upto[n]
  OBVIOUS
<1>22. /\ made \in Text /\ Len(made) = Len(s) + n * dd
       /\ \A k \in 1..n : Lies(made, NewAt(found, k, dd), new)
       /\ \A k \in 0..n : Lies(made, KeptAt(found, k, old, dd), Kept(s, found, k, old))
  <2>1. \A k \in 0..n : Lies(made, Old(k), Part(k))
    BY <1>19, <1>21
  <2>2. \A k \in 0..n : Lies(made, KeptAt(found, k, old, dd), Kept(s, found, k, old))
    <3> HIDE DEF Part
    <3> QED BY <1>15, <2>1
  <2> QED BY <1>19, <1>20, <1>21, <2>2
<1>23. \A k \in 1..n : B!StartsAt(s, found[k], old)
  BY DEF Finds
<1>24. B!ReplacedAt(made, s, found, old, new)
  <2>1. dd = Len(new) - Len(old)
    BY <1>14
  <2> HIDE DEF d, G
  <2> QED BY <1>22, <1>23, <2>1, PutTogether
<1> QED BY <1>13, <1>21, <1>22, <1>24

LEMMA ReplacesAll ==
  ASSUME NEW s \in Text, NEW old \in Text, NEW new \in Text,
         NEW found \in Finds(s, old), Len(found) # 0
  PROVE  /\ B!Replaced(s, found, old, new) \in Text
         /\ B!ReplacedAt(B!Replaced(s, found, old, new), s, found, old, new)
<1>1. PICK n \in Nat \ {0} : n = Len(found)
  BY DEF Finds
<1> QED BY <1>1, Replaces

OnDisk == [kind : {"text", "absent", "binary"}, text : Text]
InEdit == [at : {"idle", "write"}, old : Text, new : Text, all : BOOLEAN, text : Text, count : Nat]
Pages == [next : Nat, lines : Seq(Text), done : BOOLEAN]
Results == [op : {"none", "edit", "write", "read", "run"}, ok : BOOLEAN, count : Nat, code : Int,
            timedOut : BOOLEAN, ended : {"none", "exits", "timeout", "raises", "missing"},
            opened : BOOLEAN]

ToolTyped ==
  /\ file \in OnDisk /\ was \in OnDisk /\ edit \in InEdit /\ reader \in Pages
  /\ outcome \in Results /\ ops \in 0..MaxOps /\ meddled \in Seq(Text)

(* That `made' is `text' with every place of `old' replaced by `new', and   *)
(* that there is one, if not all were to be.                               *)
Exact(text, made, old, new, all, count) ==
  /\ B!ReplacedAt(made, text, B!Found(text, old), old, new)
  /\ count = Len(B!Found(text, old)) /\ (~all => count = 1)

(* What an edit is about to write was made from the file as it was read;   *)
(* the file is as it was then, or as others made it.                       *)
EditPlanned ==
  edit.at = "write" =>
    /\ Exact(B!Translated(was.text), edit.text, edit.old, edit.new, edit.all, edit.count)
    /\ file = IF meddled = <<>> THEN was ELSE [kind |-> "text", text |-> meddled[1]]

EditDone ==
  outcome.op = "edit" /\ outcome.ok /\ edit.at = "idle" =>
    Exact(B!Translated(was.text), file.text, edit.old, edit.new, edit.all, outcome.count)

(* The pages read so far are the first lines of the file.                  *)
PagesRead ==
  file.kind # "absent" =>
    LET lines == B!Lines(B!Translated(file.text))
    IN  /\ reader.next <= Len(lines) /\ reader.lines = SubSeq(lines, 1, reader.next)
        /\ reader.done => reader.next = Len(lines)

ToolInv ==
  /\ ToolTyped /\ EditPlanned /\ EditDone /\ B!FailureKnown /\ PagesRead /\ B!RunHonest

LEMMA ToolConstants ==
  /\ Texts \subseteq Text /\ Needles \subseteq Text /\ PageSize \in Nat \ {0} /\ MaxOps \in Nat
  /\ {0, 1} \subseteq ExitCodes /\ ExitCodes \subseteq Int
BY PartsAssumption DEF B!ToolBoxAssumption, Text

LEMMA ToolGives == ToolInv => B!ToolsHonest
<1> SUFFICES ASSUME ToolInv PROVE B!ToolsHonest
  OBVIOUS
<1>1. B!TypeOK
  BY DEF ToolInv, ToolTyped, B!TypeOK, OnDisk, InEdit, Text
<1>2. B!EditExact
  BY DEF ToolInv, EditDone, Exact, B!EditExact
<1>3. B!PagesWhole
  <2> SUFFICES ASSUME reader.done, file.kind # "absent"
               PROVE  reader.lines = B!Lines(B!Translated(file.text))
    BY DEF B!PagesWhole
  <2>1. PICK lines : lines = B!Lines(B!Translated(file.text))
    OBVIOUS
  <2>2. lines \in Seq(Text)
    BY <2>1, TranslatedTyped, LinesTyped DEF ToolInv, ToolTyped, OnDisk
  <2>3. reader.lines = SubSeq(lines, 1, Len(lines))
    BY <2>1 DEF ToolInv, PagesRead
  <2> QED BY <2>1, <2>2, <2>3, SubSeqFull
<1> QED BY <1>1, <1>2, <1>3 DEF ToolInv, B!ToolsHonest

LEMMA NothingRead ==
  ASSUME reader = B!AtStart, file \in OnDisk
  PROVE  PagesRead
<1>1. PICK lines : lines = B!Lines(B!Translated(file.text))
  OBVIOUS
<1>2. lines \in Seq(Text)
  BY <1>1, TranslatedTyped, LinesTyped DEF OnDisk
<1>3. 0 <= Len(lines) /\ SubSeq(lines, 1, 0) = <<>>
  BY <1>2, SubSeqEmpty
<1> QED BY <1>1, <1>3 DEF PagesRead, B!AtStart

LEMMA NothingReadNext == reader' = B!AtStart /\ file' \in OnDisk => PagesRead'
<1>1. B!AtStart' = B!AtStart /\ OnDisk' = OnDisk
  BY DEF B!AtStart
<1> SUFFICES ASSUME reader' = B!AtStart, file' \in OnDisk PROVE PagesRead'
  OBVIOUS
<1>2. PICK lines : lines = B!Lines(B!Translated(file'.text))
  OBVIOUS
<1>3. lines \in Seq(Text)
  BY <1>2, TranslatedTyped, LinesTyped DEF OnDisk
<1>4. 0 <= Len(lines) /\ SubSeq(lines, 1, 0) = <<>>
  BY <1>3, SubSeqEmpty
<1> QED BY <1>2, <1>4 DEF PagesRead, B!AtStart

LEMMA ToolInit == ASSUME B!Init PROVE ToolInv
<1>1. <<>> \in Text /\ B!Encodable \subseteq Text
  BY ToolConstants, TextFacts DEF B!Encodable, Text
<1>2. file \in OnDisk /\ was = file
  BY <1>1 DEF B!Init, OnDisk
<1>3. ToolTyped
  <2>1. edit \in InEdit
    BY <1>1 DEF B!Init, B!NoEdit, InEdit
  <2>2. reader \in Pages
    BY <1>1 DEF B!Init, B!AtStart, Pages
  <2>3. outcome \in Results
    BY DEF B!Init, B!NoOutcome, Results
  <2>4. ops \in 0..MaxOps
    BY ToolConstants DEF B!Init
  <2>5. meddled \in Seq(Text)
    BY DEF B!Init
  <2> QED BY <1>2, <2>1, <2>2, <2>3, <2>4, <2>5, Zenon DEF ToolTyped
<1>4. PagesRead
  BY <1>2, NothingRead DEF B!Init
<1>5. EditPlanned /\ EditDone /\ B!FailureKnown /\ B!RunHonest
  BY DEF B!Init, B!NoEdit, B!NoOutcome, EditPlanned, EditDone, B!FailureKnown, B!RunHonest
<1> QED BY <1>3, <1>4, <1>5 DEF ToolInv

LEMMA ToolStutter == ASSUME ToolInv, UNCHANGED toolBoxVars PROVE ToolInv'
BY DEF ToolInv, ToolTyped, EditPlanned, EditDone, PagesRead, B!FailureKnown, B!RunHonest, toolBoxVars

LEMMA OpBound == ASSUME ToolInv, B!Op PROVE ops' \in 0..MaxOps
BY ToolConstants DEF B!Op, ToolInv, ToolTyped

LEMMA OutcomeTyped ==
  ASSUME NEW op \in {"none", "edit", "write", "read", "run"}, NEW ok \in BOOLEAN
  PROVE  /\ B!Outcome(op, ok) \in Results /\ B!Outcome(op, ok).op = op /\ B!Outcome(op, ok).ok = ok
         /\ B!Outcome(op, ok).opened = FALSE
<1>1. PICK none : none = B!NoOutcome
  OBVIOUS
<1>2. none \in Results /\ none.opened = FALSE
  BY <1>1 DEF B!NoOutcome, Results
<1>3. CASE ok = TRUE
  <2>1. B!Outcome(op, ok) = [none EXCEPT !.op = op, !.ok = TRUE]
    BY <1>1, <1>3 DEF B!Outcome
  <2> QED BY <1>2, <1>3, <2>1 DEF Results
<1>4. CASE ok = FALSE
  <2>1. B!Outcome(op, ok) = [none EXCEPT !.op = op, !.ok = FALSE]
    BY <1>1, <1>4 DEF B!Outcome
  <2> QED BY <1>2, <1>4, <2>1 DEF Results
<1> QED BY <1>3, <1>4

LEMMA EditFits ==
  ASSUME NEW text \in Text, NEW old \in Text, NEW new \in Text, NEW all \in BOOLEAN,
         NEW count \in Nat \ {0}, count = Len(B!Found(text, old)), ~B!Ambiguous(count, all)
  PROVE  LET made == B!Replaced(text, B!Places(text, old, all), old, new)
         IN  made \in Text /\ Exact(text, made, old, new, all, count)
<1>1. PICK found : found = B!Found(text, old)
  OBVIOUS
<1>2. found \in Finds(text, old)
  BY <1>1, FoundPlaces
<1>3. B!Places(text, old, all) = found
  <2>1. CASE all
    BY <1>1, <2>1 DEF B!Places
  <2>2. CASE ~all
    <3>1. Len(found) = 1 /\ found \in Seq(1..(Len(text) + 1))
      BY <1>1, <1>2, <2>2 DEF Finds, B!Ambiguous
    <3>2. SubSeq(found, 1, 1) = found
      BY <3>1, SubSeqFull
    <3> QED BY <1>1, <2>2, <3>2 DEF B!Places
  <2> QED BY <2>1, <2>2
<1>4. PICK made : made = B!Replaced(text, found, old, new)
  OBVIOUS
<1>5. made \in Text /\ B!ReplacedAt(made, text, found, old, new)
  <2>1. Len(found) # 0
    BY <1>1
  <2> QED BY <1>2, <1>4, <2>1, ReplacesAll
<1>6. ~all => count = 1
  BY DEF B!Ambiguous
<1> QED BY <1>1, <1>3, <1>4, <1>5, <1>6 DEF Exact

(* A tool is called.                                                       *)
LEMMA Begun ==
  ASSUME ToolInv, B!Begin
  PROVE  /\ edit.at = "idle" /\ was' = file /\ was' \in OnDisk /\ meddled' = <<>>
         /\ meddled' \in Seq(Text) /\ ops' \in 0..MaxOps
<1>1. edit.at = "idle" /\ was' = file /\ meddled' = <<>> /\ ops' \in 0..MaxOps
  BY OpBound DEF B!Begin
<1>2. <<>> \in Seq(Text)
  OBVIOUS
<1> QED BY <1>1, <1>2 DEF ToolInv, ToolTyped

LEMMA NoEditTyped == B!NoEdit \in InEdit /\ B!NoEdit.at = "idle"
BY TextFacts DEF InEdit, B!NoEdit, Text

LEMMA ToolEditRead == ASSUME ToolInv, B!EditRead PROVE ToolInv'
<1>1. PICK text : text = B!Translated(file.text)
  OBVIOUS
<1>2. PICK old \in Needles, new \in Needles, all \in BOOLEAN : B!Edits(old, new, all)
  BY DEF B!EditRead
<1>3. PICK count : count = Len(B!Found(text, old))
  OBVIOUS
<1>4. /\ was' = file /\ was' \in OnDisk /\ meddled' = <<>> /\ meddled' \in Seq(Text)
      /\ reader' = reader /\ ops' \in 0..MaxOps /\ old \in Text /\ new \in Text
  BY Begun, ToolConstants DEF B!EditRead
<1>5. text \in Text /\ count \in Nat
  <2>1. text \in Text
    BY <1>1, TranslatedTyped DEF ToolInv, ToolTyped, OnDisk
  <2>2. B!Found(text, old) \in Finds(text, old)
    BY <1>4, <2>1, FoundPlaces
  <2> QED BY <1>3, <2>1, <2>2 DEF Finds
<1>6. CASE B!Refuse("edit")
  <2>1. /\ file' = file /\ edit' \in InEdit /\ edit'.at = "idle" /\ outcome' \in Results
        /\ outcome'.op = "edit" /\ outcome'.ok = FALSE /\ outcome'.opened = FALSE
    BY <1>6, OutcomeTyped, NoEditTyped DEF B!Refuse
  <2>2. ToolTyped'
    BY <1>4, <2>1 DEF ToolInv, ToolTyped
  <2>3. PagesRead'
    BY <1>4, <2>1 DEF ToolInv, PagesRead
  <2>4. EditPlanned' /\ EditDone' /\ B!FailureKnown' /\ B!RunHonest'
    BY <1>4, <2>1 DEF EditPlanned, EditDone, B!FailureKnown, B!RunHonest
  <2> QED BY <2>2, <2>3, <2>4 DEF ToolInv
<1>7. CASE /\ file.kind = "text" /\ count > 0 /\ ~B!Ambiguous(count, all)
           /\ edit' = [at |-> "write", old |-> old, new |-> new, all |-> all, count |-> count,
                       text |-> B!Replaced(text, B!Places(text, old, all), old, new)]
           /\ UNCHANGED <<file, outcome>>
  <2>1. PICK made : made = B!Replaced(text, B!Places(text, old, all), old, new)
    OBVIOUS
  <2>2. made \in Text /\ Exact(text, made, old, new, all, count)
    BY <1>3, <1>4, <1>5, <1>7, <2>1, EditFits
  <2>3. edit' \in InEdit /\ edit'.at = "write" /\ edit'.text = made /\ edit'.old = old /\ edit'.new = new
        /\ edit'.all = all /\ edit'.count = count
    BY <1>4, <1>5, <1>7, <2>1, <2>2 DEF InEdit
  <2>4. ToolTyped'
    BY <1>4, <1>7, <2>3 DEF ToolInv, ToolTyped
  <2>5. PagesRead'
    BY <1>4, <1>7 DEF ToolInv, PagesRead
  <2>6. EditPlanned'
    BY <1>1, <1>4, <1>7, <2>2, <2>3 DEF EditPlanned
  <2>7. EditDone' /\ B!FailureKnown'
    BY <2>3 DEF EditDone, B!FailureKnown
  <2>8. B!RunHonest'
    BY <1>7 DEF ToolInv, B!RunHonest
  <2> QED BY <2>4, <2>5, <2>6, <2>7, <2>8 DEF ToolInv
<1> QED BY <1>1, <1>2, <1>3, <1>6, <1>7 DEF B!Edits

(* write_text: the outcome and the file that a tool which writes leaves.   *)
Left(text, here) ==
  /\ here.kind = "text"
  /\ \E n \in 0..Len(text) : here.text = SubSeq(text, 1, n)
  /\ "lone" \in B!Range(text) => here.text = <<>>

LEMMA Wrote ==
  ASSUME file \in OnDisk, NEW op \in {"edit", "write"}, NEW text \in Text, NEW count \in Nat,
         B!WriteText(op, text, count)
  PROVE  /\ file' \in OnDisk /\ outcome' \in Results /\ outcome'.op = op
         /\ outcome'.ok => file'.text = text /\ outcome'.count = count
         /\ ~outcome'.ok => IF outcome'.opened THEN Left(text, file') ELSE file' = file
<1>1. PICK fine : fine = B!Outcome(op, TRUE)
  OBVIOUS
<1>2. PICK bad : bad = B!Outcome(op, FALSE)
  OBVIOUS
<1>3. fine \in Results /\ fine.op = op /\ fine.ok = TRUE /\ bad \in Results /\ bad.op = op /\ bad.ok = FALSE
      /\ bad.opened = FALSE
  BY <1>1, <1>2, OutcomeTyped
<1>4. CASE "lone" \notin B!Range(text) /\ file' = [kind |-> "text", text |-> text]
           /\ outcome' = [fine EXCEPT !.count = count, !.opened = TRUE]
  <2>1. file' \in OnDisk /\ file'.text = text
    BY <1>4 DEF OnDisk
  <2>2. outcome' \in Results /\ outcome'.op = op /\ outcome'.ok = TRUE /\ outcome'.count = count
    BY <1>3, <1>4 DEF Results
  <2> QED BY <2>1, <2>2
<1>5. CASE /\ \E n \in 0..Len(text) :
                /\ "lone" \in B!Range(text) => n = 0
                /\ file' = [kind |-> "text", text |-> SubSeq(text, 1, n)]
           /\ outcome' = [bad EXCEPT !.opened = TRUE]
  <2>1. PICK n \in 0..Len(text) : /\ "lone" \in B!Range(text) => n = 0
                                 /\ file' = [kind |-> "text", text |-> SubSeq(text, 1, n)]
    BY <1>5
  <2>2. SubSeq(text, 1, n) \in Text
    <3>1. 1 \in 1..(Len(text) + 1) /\ n \in (1 - 1)..Len(text)
      BY TextFacts
    <3> QED BY <3>1, PartOfText
  <2>3. n = 0 => SubSeq(text, 1, n) = <<>>
    <3>1. SubSeq(text, 1, 0) = <<>>
      BY SubSeqEmpty
    <3> QED BY <3>1
  <2>4. file' \in OnDisk /\ Left(text, file')
    BY <2>1, <2>2, <2>3 DEF OnDisk, Left
  <2>5. outcome' \in Results /\ outcome'.op = op /\ outcome'.ok = FALSE /\ outcome'.opened = TRUE
    BY <1>3, <1>5 DEF Results
  <2> QED BY <2>4, <2>5
<1>6. CASE outcome' = bad /\ UNCHANGED file
  BY <1>3, <1>6
<1> QED BY <1>1, <1>2, <1>4, <1>5, <1>6 DEF B!WriteText

LEMMA ToolEditWrite == ASSUME ToolInv, B!EditWrite PROVE ToolInv'
<1>1. /\ edit.at = "write" /\ edit' = [edit EXCEPT !.at = "idle"] /\ B!WriteText("edit", edit.text, edit.count)
      /\ reader' = B!AtStart /\ UNCHANGED <<ops, was, meddled>>
  BY DEF B!EditWrite
<1>2. /\ edit \in InEdit /\ file \in OnDisk /\ edit.text \in Text /\ edit.count \in Nat
  BY DEF ToolInv, ToolTyped, InEdit
<1>3. /\ edit' \in InEdit /\ edit'.at = "idle" /\ edit'.text = edit.text /\ edit'.old = edit.old
      /\ edit'.new = edit.new /\ edit'.all = edit.all
  BY <1>1, <1>2 DEF InEdit
<1>4. /\ file' \in OnDisk /\ outcome' \in Results /\ outcome'.op = "edit"
      /\ outcome'.ok => file'.text = edit.text /\ outcome'.count = edit.count
      /\ ~outcome'.ok => IF outcome'.opened THEN Left(edit.text, file') ELSE file' = file
  BY <1>1, <1>2, Wrote
<1>5. reader' \in Pages
  BY <1>1, TextFacts DEF B!AtStart, Pages
<1>6. ToolTyped'
  BY <1>1, <1>3, <1>4, <1>5 DEF ToolInv, ToolTyped
<1>7. PagesRead'
  BY <1>1, <1>4, NothingReadNext
<1>8. EditPlanned' /\ B!RunHonest'
  BY <1>3, <1>4 DEF EditPlanned, B!RunHonest
<1>9. EditDone'
  BY <1>1, <1>3, <1>4 DEF ToolInv, EditPlanned, EditDone
<1>10. B!FailureKnown'
  BY <1>1, <1>3, <1>4 DEF ToolInv, EditPlanned, Left, B!FailureKnown
<1> QED BY <1>6, <1>7, <1>8, <1>9, <1>10 DEF ToolInv

LEMMA ToolWriteFile == ASSUME ToolInv, B!WriteFile PROVE ToolInv'
<1>1. PICK text \in Texts :
        B!WriteText("write", text, 0) /\ edit' = [B!NoEdit EXCEPT !.text = text]
  BY DEF B!WriteFile
<1>2. /\ text \in Text /\ file \in OnDisk /\ ops' \in 0..MaxOps /\ reader' = B!AtStart
      /\ was' = file /\ was' \in OnDisk /\ meddled' = <<>> /\ meddled' \in Seq(Text)
  BY Begun, ToolConstants DEF B!WriteFile, ToolInv, ToolTyped
<1>3. edit' \in InEdit /\ edit'.at = "idle" /\ edit'.text = text
  BY <1>1, <1>2, TextFacts DEF InEdit, B!NoEdit
<1>4. /\ file' \in OnDisk /\ outcome' \in Results /\ outcome'.op = "write"
      /\ ~outcome'.ok => IF outcome'.opened THEN Left(text, file') ELSE file' = file
  BY <1>1, <1>2, Wrote
<1>5. reader' \in Pages
  BY <1>2, TextFacts DEF B!AtStart, Pages
<1>6. ToolTyped'
  BY <1>2, <1>3, <1>4, <1>5 DEF ToolInv, ToolTyped
<1>7. PagesRead'
  BY <1>2, <1>4, NothingReadNext
<1>8. EditPlanned' /\ EditDone' /\ B!RunHonest'
  BY <1>3, <1>4 DEF EditPlanned, EditDone, B!RunHonest
<1>9. B!FailureKnown'
  BY <1>2, <1>3, <1>4 DEF Left, B!FailureKnown
<1> QED BY <1>6, <1>7, <1>8, <1>9 DEF ToolInv

LEMMA ToolMeddle ==
  ASSUME ToolInv, NEW text \in B!Encodable, B!Meddle(text)
  PROVE  ToolInv'
<1>1. /\ B!Op /\ file' = [kind |-> "text", text |-> text] /\ meddled' = <<text>> /\ reader' = B!AtStart
      /\ outcome' = B!NoOutcome /\ UNCHANGED <<edit, was>>
  BY DEF B!Meddle
<1>2. text \in Text /\ ops' \in 0..MaxOps
  BY <1>1, OpBound, ToolConstants DEF B!Encodable
<1>3. file' \in OnDisk /\ reader' \in Pages /\ meddled' \in Seq(Text)
  BY <1>1, <1>2, TextFacts DEF OnDisk, B!AtStart, Pages
<1>4. outcome' \in Results /\ outcome'.op = "none"
  BY <1>1 DEF B!NoOutcome, Results
<1>5. ToolTyped'
  BY <1>1, <1>2, <1>3, <1>4 DEF ToolInv, ToolTyped
<1>6. PagesRead'
  BY <1>1, <1>3, NothingReadNext
<1>7. EditPlanned'
  <2>1. meddled' # <<>> /\ meddled'[1] = text
    BY <1>1
  <2> QED BY <1>1, <2>1 DEF ToolInv, EditPlanned
<1>8. EditDone' /\ B!FailureKnown' /\ B!RunHonest'
  BY <1>4 DEF EditDone, B!FailureKnown, B!RunHonest
<1> QED BY <1>5, <1>6, <1>7, <1>8 DEF ToolInv

LEMMA ReadKeeps ==
  ASSUME ToolInv, B!Begin, edit' = B!NoEdit, UNCHANGED file, outcome' \in Results,
         outcome'.op = "read", reader' \in Pages, PagesRead'
  PROVE  ToolInv'
BY Begun, NoEditTyped DEF ToolInv, ToolTyped, EditPlanned, EditDone, B!FailureKnown, B!RunHonest

LEMMA ToolReadFile == ASSUME ToolInv, B!ReadFile PROVE ToolInv'
<1>1. PICK lines : lines = B!Lines(B!Translated(file.text))
  OBVIOUS
<1>2. PICK end : end = IF reader.next + PageSize < Len(lines) THEN reader.next + PageSize ELSE Len(lines)
  OBVIOUS
<1>3. /\ B!Begin /\ ~reader.done /\ edit' = B!NoEdit /\ UNCHANGED file
      /\ \/ /\ file.kind = "absent" \/ (reader.next > 0 /\ reader.next >= Len(lines))
            /\ outcome' = B!Outcome("read", FALSE) /\ reader' = [reader EXCEPT !.done = TRUE]
         \/ /\ ~(file.kind = "absent" \/ (reader.next > 0 /\ reader.next >= Len(lines)))
            /\ outcome' = B!Outcome("read", TRUE)
            /\ reader' = [next |-> end, done |-> end = Len(lines),
                          lines |-> reader.lines \o SubSeq(lines, reader.next + 1, end)]
  BY <1>1, <1>2 DEF B!ReadFile
<1>4. lines \in Seq(Text) /\ Len(lines) \in Nat
  BY <1>1, TranslatedTyped, LinesTyped DEF ToolInv, ToolTyped, OnDisk
<1>5. reader \in Pages /\ reader.next \in Nat /\ reader.lines \in Seq(Text)
  BY DEF ToolInv, ToolTyped, Pages
<1>6. outcome' \in Results /\ outcome'.op = "read"
  BY <1>3, OutcomeTyped
<1>7. CASE /\ file.kind = "absent" \/ (reader.next > 0 /\ reader.next >= Len(lines))
           /\ reader' = [reader EXCEPT !.done = TRUE]
  <2>1. reader' \in Pages /\ reader'.next = reader.next /\ reader'.lines = reader.lines
    BY <1>5, <1>7 DEF Pages
  <2>2. PagesRead'
    <3>1. file'.kind # "absent" => reader.next = Len(lines)
      BY <1>1, <1>3, <1>4, <1>5, <1>7 DEF ToolInv, PagesRead
    <3> QED BY <1>1, <1>3, <2>1, <3>1 DEF ToolInv, PagesRead
  <2> QED BY <1>3, <1>4, <1>6, <2>1, <2>2, ReadKeeps DEF ToolInv
<1>8. CASE /\ ~(file.kind = "absent" \/ (reader.next > 0 /\ reader.next >= Len(lines)))
           /\ reader' = [next |-> end, done |-> end = Len(lines),
                         lines |-> reader.lines \o SubSeq(lines, reader.next + 1, end)]
  <2>1. PICK next \in Nat : next = reader.next
    BY <1>5
  <2>2. next <= Len(lines) /\ reader.lines = SubSeq(lines, 1, next)
    BY <1>1, <1>8, <2>1 DEF ToolInv, PagesRead
  <2>3. end \in next..Len(lines) /\ end \in Nat
    BY <1>2, <1>4, <2>1, <2>2, ToolConstants
  <2>4. SubSeq(lines, 1, next) \o SubSeq(lines, next + 1, end) = SubSeq(lines, 1, end)
    <3>1. 1 \in 1..(Len(lines) + 1) /\ next \in (1 - 1)..Len(lines)
      BY <1>4, <2>2
    <3> QED BY <1>4, <2>3, <3>1, ConcatAdjacentSubSeq
  <2>5. SubSeq(lines, 1, end) \in Seq(Text)
    <3>1. \A i \in 1..end : lines[i] \in Text
      BY <1>4, <2>3
    <3> QED BY <2>3, <3>1, SubSeqProperties
  <2>6. PICK seen : seen = SubSeq(lines, 1, end)
    OBVIOUS
  <2>7. reader' = [next |-> end, done |-> end = Len(lines), lines |-> seen]
    BY <1>8, <2>1, <2>2, <2>4, <2>6
  <2>8. reader' \in Pages
    BY <2>3, <2>5, <2>6, <2>7 DEF Pages
  <2>9. PagesRead'
    <3>1. file' = file /\ end <= Len(lines)
      BY <1>3, <1>4, <2>3
    <3> QED BY <1>1, <2>6, <2>7, <3>1 DEF PagesRead
  <2> QED BY <1>3, <1>4, <1>6, <2>8, <2>9, ReadKeeps DEF ToolInv
<1> QED BY <1>3, <1>7, <1>8

(* The outcome of a command that ended as `how' with `code'.               *)
Ran(result, how, code) ==
  result \in Results /\ result.op = "run" /\ result.ok = FALSE /\ result.ended = how /\ result.code = code

LEMMA CommandTyped ==
  ASSUME NEW how \in {"exits", "timeout", "raises", "missing"}, NEW code \in Int, NEW result,
         result = B!Command(how, code, FALSE)
  PROVE  Ran(result, how, code) /\ result.timedOut = FALSE
<1>1. PICK ran : ran = B!Outcome("run", FALSE)
  OBVIOUS
<1>2. ran \in Results /\ ran.op = "run" /\ ran.ok = FALSE
  BY <1>1, OutcomeTyped
<1>3. result = [ran EXCEPT !.ended = how, !.code = code, !.timedOut = FALSE]
  BY <1>1 DEF B!Command
<1> QED BY <1>2, <1>3 DEF Results, Ran

LEMMA LateTyped ==
  ASSUME NEW how \in {"exits", "timeout", "raises", "missing"}, NEW code \in Int, NEW result,
         result = B!Command(how, code, TRUE)
  PROVE  Ran(result, how, code) /\ result.timedOut = TRUE
<1>1. PICK ran : ran = B!Outcome("run", FALSE)
  OBVIOUS
<1>2. ran \in Results /\ ran.op = "run" /\ ran.ok = FALSE
  BY <1>1, OutcomeTyped
<1>3. result = [ran EXCEPT !.ended = how, !.code = code, !.timedOut = TRUE]
  BY <1>1 DEF B!Command
<1> QED BY <1>2, <1>3 DEF Results, Ran

(* What no backend may say of a command.                                   *)
Honest(result) ==
  /\ result \in Results /\ result.op = "run"
  /\ result.ok <=> result.ended = "exits" /\ result.code = 0
  /\ result.ended = "timeout" => result.timedOut
  /\ result.timedOut => ~result.ok

LEMMA LocalRunHonest ==
  ASSUME NEW how \in {"exits", "timeout", "raises"}, NEW code \in Int, NEW says \in BOOLEAN,
         NEW result, result = B!LocalRun(how, code, says)
  PROVE  Honest(result)
<1>1. CASE how = "exits" /\ code = 0
  <2>1. PICK fine : fine = B!Command(how, code, FALSE)
    OBVIOUS
  <2>2. Ran(fine, how, code) /\ fine.timedOut = FALSE
    BY <2>1, CommandTyped
  <2>3. result = [fine EXCEPT !.ok = TRUE]
    BY <1>1, <2>1 DEF B!LocalRun
  <2> QED BY <1>1, <2>2, <2>3 DEF Ran, Honest, Results
<1>2. CASE ~(how = "exits" /\ code = 0) /\ (how = "timeout" \/ says)
  <2>1. PICK late \in Int : late = -1
    OBVIOUS
  <2>2. result = B!Command(how, late, TRUE)
    <3>1. CASE how = "timeout"
      BY <3>1, <2>1 DEF B!LocalRun
    <3>2. CASE says = TRUE
      BY <1>2, <3>2, <2>1 DEF B!LocalRun
    <3> QED BY <1>2, <3>1, <3>2
  <2>3. Ran(result, how, late) /\ result.timedOut = TRUE
    BY <2>2, LateTyped
  <2> QED BY <2>1, <2>3 DEF Ran, Honest
<1>3. CASE how = "exits" /\ code # 0 /\ ~says
  <2>1. says = FALSE
    BY <1>3
  <2>2. result = B!Command(how, code, FALSE)
    BY <1>3, <2>1 DEF B!LocalRun
  <2>3. Ran(result, how, code) /\ result.timedOut = FALSE
    BY <2>2, CommandTyped
  <2> QED BY <1>3, <2>3 DEF Ran, Honest
<1>4. CASE how = "raises" /\ ~says
  <2>1. PICK one \in Int : one = 1
    OBVIOUS
  <2>2. says = FALSE
    BY <1>4
  <2>3. result = B!Command(how, one, FALSE)
    BY <1>4, <2>1, <2>2 DEF B!LocalRun
  <2>4. Ran(result, how, one) /\ result.timedOut = FALSE
    BY <2>3, CommandTyped
  <2> QED BY <1>4, <2>4 DEF Ran, Honest
<1> QED BY <1>1, <1>2, <1>3, <1>4

LEMMA ShellRunHonest ==
  ASSUME NEW how \in {"exits", "timeout", "raises", "missing"}, NEW code \in Int, NEW says \in BOOLEAN,
         NEW result, result = B!ShellRun(how, code, says)
  PROVE  Honest(result)
<1>1. CASE how = "exits"
  <2>1. PICK ran : ran = B!Command(how, code, FALSE)
    OBVIOUS
  <2>2. Ran(ran, how, code) /\ ran.timedOut = FALSE
    BY <2>1, CommandTyped
  <2>3. result = [ran EXCEPT !.ok = (code = 0)]
    BY <1>1, <2>1 DEF B!ShellRun
  <2>4. CASE code = 0
    <3>1. result = [ran EXCEPT !.ok = TRUE]
      BY <2>3, <2>4
    <3> QED BY <1>1, <2>2, <2>4, <3>1 DEF Ran, Honest, Results
  <2>5. CASE code # 0
    <3>1. result = [ran EXCEPT !.ok = FALSE]
      BY <2>3, <2>5
    <3> QED BY <1>1, <2>2, <2>5, <3>1 DEF Ran, Honest, Results
  <2> QED BY <2>4, <2>5
<1>2. CASE how = "timeout"
  <2>1. PICK late \in Int : late = -1
    OBVIOUS
  <2>2. result = B!Command(how, late, TRUE)
    BY <1>2, <2>1 DEF B!ShellRun
  <2>3. Ran(result, how, late) /\ result.timedOut = TRUE
    BY <2>2, LateTyped
  <2> QED BY <1>2, <2>3 DEF Ran, Honest
<1>3. CASE how = "missing" \/ how = "raises"
  <2>1. PICK broken \in Int : broken = (IF how = "missing" THEN 127 ELSE 1)
    OBVIOUS
  <2>2. result = B!Command(how, broken, FALSE)
    BY <1>3, <2>1 DEF B!ShellRun
  <2>3. Ran(result, how, broken) /\ result.timedOut = FALSE
    BY <2>2, CommandTyped
  <2> QED BY <1>3, <2>3 DEF Ran, Honest
<1> QED BY <1>1, <1>2, <1>3

LEMMA ToolRunCommand == ASSUME ToolInv, B!RunCommand PROVE ToolInv'
<1>1. B!Begin /\ edit' = B!NoEdit /\ UNCHANGED <<file, reader>>
  BY DEF B!RunCommand
<1>2. PICK how \in {"exits", "timeout", "raises", "missing"}, code \in ExitCodes, says \in BOOLEAN :
        (outcome' = B!LocalRun(how, code, says) /\ how # "missing") \/ outcome' = B!ShellRun(how, code, says)
  BY DEF B!RunCommand
<1>3. code \in Int
  BY ToolConstants
<1>4. Honest(outcome')
  <2>1. PICK result : result = outcome'
    OBVIOUS
  <2> QED BY <1>2, <1>3, <2>1, LocalRunHonest, ShellRunHonest
<1>5. ToolTyped' /\ PagesRead'
  BY <1>1, <1>4, Begun, NoEditTyped DEF ToolInv, ToolTyped, PagesRead, Honest
<1>6. EditPlanned' /\ EditDone' /\ B!FailureKnown' /\ B!RunHonest'
  BY <1>1, <1>4, NoEditTyped DEF EditPlanned, EditDone, B!FailureKnown, B!RunHonest, Honest
<1> QED BY <1>5, <1>6 DEF ToolInv

LEMMA ToolNext == ASSUME ToolInv, B!Next PROVE ToolInv'
BY ToolEditRead, ToolEditWrite, ToolReadFile, ToolRunCommand, ToolWriteFile, ToolMeddle DEF B!Next

(* edit_file, write_file, read_file and the backends: for texts of any     *)
(* length, and whoever writes the file between the steps of an edit, an    *)
(* edit that succeeds leaves what it read, as read_text gives it, with the *)
(* new string at every place that it counted and every piece between as it *)
(* was; a tool that failed before it opened the file left it alone, and one*)
(* that failed later left a first part of its text; the pages of a file are*)
(* its lines; no command that failed or timed out is reported as fine.     *)
THEOREM ToolsAlwaysHonest == Spec => []ToolsHonest
<1> DEFINE Inv == part = "tools" => ToolInv
<1>1. Init => Inv
  BY ToolInit DEF Init, Started
<1>2. Inv /\ [Next]_vars => Inv'
  <2> SUFFICES ASSUME Inv, [Next]_vars, part' = "tools" PROVE ToolInv'
    OBVIOUS
  <2>1. CASE UNCHANGED vars
    BY <2>1, ToolStutter DEF vars
  <2>2. CASE Next
    BY <2>2, ToolNext DEF Next, Alone
  <2> QED BY <2>1, <2>2
<1>3. Inv => ToolsHonest
  BY ToolGives DEF ToolsHonest
<1> QED BY <1>1, <1>2, <1>3, PTL DEF Spec
=============================================================================
