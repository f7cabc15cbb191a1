---------------------------- MODULE MemorySearch ----------------------------
(***************************************************************************)
(* search of the MemoryStore: the rankings of the text index and of the    *)
(* vectors, which may be any, are fused, and what is fused is looked up    *)
(* and cut.  A search changes nothing.                                     *)
(***************************************************************************)
EXTENDS MemoryStore, SequencesExt

(* reciprocal_rank_fusion: the sum of 1 / (60 + rank), here times          *)
(* 61 * 62 * 63, which is exact for three ranks.                           *)
Score(id, lists) ==
  FoldSet(LAMBDA i, sum : sum + 238266 \div (60 + CHOOSE r \in DOMAIN lists[i] : lists[i][r] = id), 0,
          {i \in DOMAIN lists : id \in Range(lists[i])})

\* Mutant: the smallest score first.
FusedUpwards(lists) ==
  SetToSortSeq(Range(FlattenSeq(lists)), LAMBDA a, b : Score(a, lists) < Score(b, lists))

Fused(lists) ==
  LET all == FlattenSeq(lists)
      First(id) == CHOOSE i \in DOMAIN all : all[i] = id /\ \A j \in 1..(i - 1) : all[j] # id
  IN  SetToSortSeq(Range(all), LAMBDA a, b :
        \/ Score(a, lists) > Score(b, lists)
        \/ Score(a, lists) = Score(b, lists) /\ First(a) < First(b))

(* What search returns of what FTS5 and sqlite-vec rank, once it is fused. *)
Search(fused, cwd, topK) ==
  LET fits == SelectSeq(fused, LAMBDA id :
                id \in Stored(Current) /\ (cwd = "any" \/ Current.mem[id].cwd \in {"any", cwd}))
  IN  SubSeq(fits, 1, IF Len(fits) < topK THEN Len(fits) ELSE topK)

-----------------------------------------------------------------------------
(* search: whatever the two rankings are, also with vectors of memories    *)
(* that are gone, it returns memories that are there, in their project,    *)
(* each once and at most top_k, and never one before another that both     *)
(* rankings put first.                                                     *)
SearchSound ==
  LET vectors == SetToSortSeq({i \in Ids : disk.vec[i] # 0}, LAMBDA a, b : a < b)
      Before(list, a, b) == \E i, j \in DOMAIN list : i < j /\ list[i] = a /\ list[j] = b
      Honest(found, lists, cwd, topK) ==
        /\ Len(found) <= topK
        /\ \A i, j \in DOMAIN found : i # j => found[i] # found[j]
        /\ \A i \in DOMAIN found :
             /\ disk.mem[found[i]] # NoMemory
             /\ cwd = "here" => disk.mem[found[i]].cwd # "there"
        /\ \A a, b \in Range(found) :
             (\A k \in DOMAIN lists : Before(lists[k], a, b)) => Before(found, a, b)
  IN  Quiet => \A fts \in SetToAllKPermutations(Stored(disk)) : \A lists \in {<<fts>>, <<fts, vectors>>} :
        LET fused == Fused(lists)
        IN  \A cwd \in {"any", "here"}, topK \in {1, 3} :
              Honest(Search(fused, cwd, topK), lists, cwd, topK)
=============================================================================
