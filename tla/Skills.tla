------------------------------- MODULE Skills -------------------------------
(***************************************************************************)
(* The learning loop: what a finished run may propose, the review of a     *)
(* skill candidate, the registry of versions, and the tracker of which     *)
(* skills were selected and how they did.  A candidate is an object, known *)
(* by its number: a registry and a review hold the same one.               *)
(***************************************************************************)
EXTENDS Naturals, Sequences, FiniteSets, FiniteSetsExt

CONSTANTS
  SkillNames,
  TopK, MaxScore,  \* SkillSelector: top_k; relevance is 0..MaxScore
  MaxCandidates,   \* bound: candidate objects
  MaxUses          \* bound: usage records and outcomes

SkillsAssumption ==
  /\ IsFiniteSet(SkillNames)
  /\ MaxCandidates \in Nat /\ MaxUses \in Nat /\ TopK \in Nat /\ MaxScore \in Nat

VARIABLES
  candidates,  \* <<[name, content, version, status], ...>>
  reviews,     \* SkillReviewResults: [candidate, approved]
  history,     \* SkillRegistry._versions, by name: numbers of candidates
  records,     \* SkillUsageTracker._records: <<[name, succeeded], ...>>
  reports,     \* history: outcomes that were accepted, <<[name, succeeded], ...>>
  applied,     \* history, by name: the content of each version when it was made
  restored     \* history: the last rollback: name, version asked, what it brought

skillsVars == <<candidates, reviews, history, records, reports, applied, restored>>

NoRollback == [name |-> "none", asked |-> 0, content |-> 0]

Init ==
  /\ candidates = <<>> /\ reviews = {} /\ records = <<>> /\ reports = <<>>
  /\ history = [n \in SkillNames |-> <<>>] /\ applied = [n \in SkillNames |-> <<>>]
  /\ restored = NoRollback

-----------------------------------------------------------------------------
(* Candidates.                                                             *)

\* A run: the attempts of its steps, and whether it was done.  Only a repaired
\* run is worth a skill, only one that succeeded is worth remembering.
Analysis == [attempts : {<<1>>, <<2>>, <<1, 3>>}, succeeded : BOOLEAN]
RepairedSteps(a) == Cardinality({i \in DOMAIN a.attempts : a.attempts[i] > 1})

GenerateSkillCandidate(a, n) ==
  /\ RepairedSteps(a) > 0 /\ Len(candidates) < MaxCandidates
  /\ candidates' = Append(candidates, [name |-> n, content |-> Len(candidates) + 1,
                                       version |-> 1, status |-> "pending"])
  /\ UNCHANGED <<reviews, history, records, reports, applied, restored>>

Review(c, approve) ==
  /\ candidates' = [candidates EXCEPT ![c].status = IF approve THEN "approved" ELSE "rejected"]
  /\ reviews' = reviews \cup {[candidate |-> c, approved |-> approve]}
  /\ UNCHANGED <<history, records, reports, applied, restored>>

-----------------------------------------------------------------------------
(* SkillRegistry.                                                          *)

Name(c) == candidates[c].name
Remember(n, content) == applied' = [applied EXCEPT ![n] = Append(@, content)]

\* apply: the candidate itself is appended, again if it was before.
Apply(r) ==
  /\ r.approved /\ Len(history[Name(r.candidate)]) < MaxCandidates
  /\ LET n == Name(r.candidate) IN
       /\ candidates' = [candidates EXCEPT ![r.candidate].version = Len(history[n]) + 1]
       /\ history' = [history EXCEPT ![n] = Append(@, r.candidate)]
       /\ Remember(n, candidates[r.candidate].content)
  /\ UNCHANGED <<reviews, records, reports, restored>>

\* Mutant: the copy has the number of the version before it.
NextVersionLate(n) == Len(history[n])

NextVersion(n) == Len(history[n]) + 1

\* rollback: a copy of the first candidate with that version is appended.
Rollback(n, v) ==
  /\ Len(candidates) < MaxCandidates
  /\ LET with == {i \in DOMAIN history[n] : candidates[history[n][i]].version = v} IN
       /\ with # {}
       /\ LET found == candidates[history[n][Min(with)]] IN
            /\ candidates' = Append(candidates, [found EXCEPT !.version = NextVersion(n)])
            /\ history' = [history EXCEPT ![n] = Append(@, Len(candidates) + 1)]
            /\ Remember(n, found.content)
            /\ restored' = [name |-> n, asked |-> v, content |-> found.content]
  /\ UNCHANGED <<reviews, records, reports>>

-----------------------------------------------------------------------------
(* SkillSelector and SkillUsageTracker.                                    *)

\* Sorted by relevance, the first first among equals: how many are before one.
Rank(skills, score, i) ==
  Cardinality({j \in DOMAIN skills : score[j] > score[i] \/ (score[j] = score[i] /\ j < i)})

\* The top ones that are relevant at all.
Selected(skills, score) ==
  {i \in DOMAIN skills : Rank(skills, score, i) < TopK /\ score[i] > 0}

InOrderOf(skills, score, chosen) ==
  [k \in 1..Cardinality(chosen) |-> CHOOSE i \in chosen : Rank(skills, score, i) = k - 1]

RecordSelection(skills, score) ==
  LET chosen == InOrderOf(skills, score, Selected(skills, score)) IN
    /\ Len(records) + Len(chosen) <= MaxUses
    /\ records' = records \o [i \in DOMAIN chosen |-> [name |-> skills[chosen[i]], succeeded |-> "open"]]
    /\ UNCHANGED <<candidates, reviews, history, reports, applied, restored>>

Open(n) == {i \in DOMAIN records : records[i].name = n /\ records[i].succeeded = "open"}

\* record_outcome: the newest open record of the skill; without one, nothing.
RecordOutcome(n, succeeded) ==
  /\ Open(n) # {}
  /\ records' = [records EXCEPT ![Max(Open(n))].succeeded = succeeded]
  /\ reports' = Append(reports, [name |-> n, succeeded |-> succeeded])
  /\ UNCHANGED <<candidates, reviews, history, applied, restored>>

Closed(n) == {i \in DOMAIN records : records[i].name = n /\ records[i].succeeded # "open"}
Successes(n) == {i \in Closed(n) : records[i].succeeded = "yes"}

Next ==
  \/ \E a \in Analysis, n \in SkillNames : GenerateSkillCandidate(a, n)
  \/ \E c \in DOMAIN candidates, approve \in BOOLEAN : Review(c, approve)
  \/ \E r \in reviews : Apply(r)
  \/ \E n \in SkillNames, v \in 1..MaxCandidates : Rollback(n, v)
  \/ \E skills \in {s \in [1..Cardinality(SkillNames) -> SkillNames] : IsInjective(s)},
        score \in [1..Cardinality(SkillNames) -> 0..MaxScore] : RecordSelection(skills, score)
  \/ \E n \in SkillNames, s \in {"yes", "no"} : RecordOutcome(n, s)

-----------------------------------------------------------------------------
TypeOK ==
  /\ \A c \in DOMAIN candidates : candidates[c].status \in {"pending", "approved", "rejected"}
  /\ \A n \in SkillNames : Range(history[n]) \subseteq DOMAIN candidates

\* The audit trail: nobody changes what a version was, only what was approved
\* is in it, and the current version has the highest number.
TrailKept ==
  \A n \in SkillNames :
    /\ [i \in DOMAIN history[n] |-> candidates[history[n][i]].content] = applied[n]
    /\ \A c \in Range(history[n]) :
         \E r \in reviews : r.approved /\ candidates[r.candidate].content = candidates[c].content
    /\ history[n] # <<>> => candidates[history[n][Len(history[n])]].version = Len(history[n])

\* A rollback brings back what the version that was asked for had.
RollbackFaithful ==
  restored # NoRollback => restored.content = applied[restored.name][restored.asked]

\* The success rate of a skill is that of the outcomes reported for it.
RatesHonest ==
  \A n \in SkillNames :
    LET of == {i \in DOMAIN reports : reports[i].name = n} IN
      /\ Cardinality(Closed(n)) = Cardinality(of)
      /\ Cardinality(Successes(n)) = Cardinality({i \in of : reports[i].succeeded = "yes"})

SkillsAudited == TypeOK /\ TrailKept /\ RollbackFaithful /\ RatesHonest
=============================================================================
