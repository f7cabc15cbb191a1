--------------------------- MODULE SqliteSessions ---------------------------
(***************************************************************************)
(* SQLiteSessionRepository: the sessions and their entries in one database *)
(* that several connections share.  Each call is statements and a commit;  *)
(* what raises between them leaves the connection in its transaction.      *)
(***************************************************************************)
EXTENDS Integers, FiniteSets, FiniteSetsExt

CONSTANTS
  Connections,
  Sessions,
  MaxAppends,  \* bound: appends begun
  MaxCrashes   \* bound: connections lost, each coming back

SqliteAssumption ==
  "none" \notin Sessions /\ MaxAppends \in Nat /\ MaxCrashes \in Nat

VARIABLES
  db,       \* tables sessions and session_entries, as committed
  tx,       \* of a connection: "none", or a transaction and its lock
  pending,  \* of a connection in a "writing" transaction: the tables it sees
  stage,    \* of a connection: "idle" or what its call does next
  target,   \* of a connection: the session of the call
  seq,      \* of a connection: next_seq of append_entry
  taken,    \* session ids so far: uuid4 gives none twice
  appends, crashes,
  acked     \* history: <<session, seq>> that append_entry returned

sqlVars == <<db, tx, pending, stage, target, seq, taken, appends, crashes, acked>>

NoSession == [exists |-> FALSE, seqs |-> {}, size |-> 0]
View(c) == IF tx[c] = "writing" THEN pending[c] ELSE db
Idle(c) == stage[c] = "idle"
OtherWrites(c) == \E d \in Connections \ {c} : tx[d] = "writing"
OtherReads(c) == \E d \in Connections \ {c} : tx[d] = "reading"

Init ==
  /\ db = [s \in Sessions |-> NoSession]
  /\ tx = [c \in Connections |-> "none"] /\ pending = [c \in Connections |-> db]
  /\ stage = [c \in Connections |-> "idle"] /\ target = [c \in Connections |-> "none"]
  /\ seq = [c \in Connections |-> 0]
  /\ taken = {} /\ appends = 0 /\ crashes = 0 /\ acked = {}

-----------------------------------------------------------------------------
(* sqlite3: BEGIN before the first statement that writes, one writer, no   *)
(* commit while another transaction reads; no call ends a transaction that *)
(* a statement failed in.                                                  *)

Raises(c) ==
  /\ stage' = [stage EXCEPT ![c] = "idle"] /\ target' = [target EXCEPT ![c] = "none"]
  /\ seq' = [seq EXCEPT ![c] = 0]

(* A statement that writes; what its call does then, when it is ok.        *)
Execute(c, ok, tables, then) ==
  IF OtherWrites(c)
  THEN /\ tx' = [tx EXCEPT ![c] = IF @ = "none" THEN "open" ELSE @]
       /\ Raises(c) /\ UNCHANGED pending
  ELSE /\ tx' = [tx EXCEPT ![c] = "writing"]
       /\ pending' = [pending EXCEPT ![c] = IF ok THEN tables ELSE View(c)]
       /\ IF ok THEN stage' = [stage EXCEPT ![c] = then] /\ UNCHANGED <<target, seq>> ELSE Raises(c)

(* A SELECT in a transaction keeps its lock until the transaction ends.    *)
Selects(c) == tx' = [tx EXCEPT ![c] = IF @ = "open" THEN "reading" ELSE @]

Commit(c) ==
  /\ stage[c] \in {"created", "appended", "deleted"}
  /\ IF OtherReads(c) THEN UNCHANGED <<db, tx, pending, acked>>
     ELSE /\ db' = View(c)
          /\ tx' = [tx EXCEPT ![c] = "none"]
          /\ pending' = [pending EXCEPT ![c] = [s \in Sessions |-> NoSession]]
          /\ acked' = {a \in acked \cup IF stage[c] = "appended" THEN {<<target[c], seq[c]>>} ELSE {} :
                         View(c)[a[1]].exists}
  /\ Raises(c)
  /\ UNCHANGED <<taken, appends, crashes>>

-----------------------------------------------------------------------------

CreateSession(c, s) ==
  /\ Idle(c) /\ s \notin taken
  /\ taken' = taken \cup {s}
  /\ Execute(c, TRUE, [View(c) EXCEPT ![s] = [NoSession EXCEPT !.exists = TRUE]], "created")
  /\ UNCHANGED <<db, appends, crashes, acked>>

DeleteSession(c, s) ==
  /\ Idle(c)
  /\ Execute(c, TRUE, [View(c) EXCEPT ![s] = NoSession], "deleted")
  /\ UNCHANGED <<db, taken, appends, crashes, acked>>

\* Mutant: numbered from the size, from 1.
NextSeqBySize(c, s) == View(c)[s].size + 1

NextSeq(c, s) == IF View(c)[s].seqs = {} THEN 0 ELSE Max(View(c)[s].seqs) + 1

AppendEntry(c, s) ==
  /\ Idle(c) /\ appends < MaxAppends
  /\ Selects(c)
  /\ stage' = [stage EXCEPT ![c] = "numbered"] /\ target' = [target EXCEPT ![c] = s]
  /\ seq' = [seq EXCEPT ![c] = NextSeq(c, s)]
  /\ appends' = appends + 1
  /\ UNCHANGED <<db, taken, pending, crashes, acked>>

(* The primary key and the foreign key.                                    *)
Insert(c) ==
  LET s == target[c]
  IN  /\ stage[c] = "numbered"
      /\ Execute(c, View(c)[s].exists /\ seq[c] \notin View(c)[s].seqs,
                 [View(c) EXCEPT ![s].seqs = @ \cup {seq[c]}], "inserted")
      /\ UNCHANGED <<db, taken, appends, crashes, acked>>

Update(c) ==
  /\ stage[c] = "inserted"
  /\ Execute(c, TRUE, [View(c) EXCEPT ![target[c]].size = @ + 1], "appended")
  /\ UNCHANGED <<db, taken, appends, crashes, acked>>

(* open_session, list_sessions, get_entries.                               *)
Read(c) ==
  /\ Idle(c) /\ tx[c] = "open"
  /\ Selects(c)
  /\ UNCHANGED <<db, pending, stage, target, seq, taken, appends, crashes, acked>>

(* close, or the end of the process: what is pending is rolled back.       *)
Lose(c) ==
  /\ crashes < MaxCrashes /\ crashes' = crashes + 1
  /\ tx' = [tx EXCEPT ![c] = "none"]
  /\ pending' = [pending EXCEPT ![c] = [s \in Sessions |-> NoSession]]
  /\ Raises(c)
  /\ UNCHANGED <<db, taken, appends, acked>>

Next ==
  \E c \in Connections :
    \/ \E s \in Sessions : CreateSession(c, s) \/ DeleteSession(c, s) \/ AppendEntry(c, s)
    \/ Insert(c) \/ Update(c) \/ Commit(c) \/ Read(c) \/ Lose(c)

Spec == Init /\ [][Next]_sqlVars

-----------------------------------------------------------------------------
(***************************************************************************)
(* Properties                                                              *)
(***************************************************************************)

Tables == [Sessions -> [exists : BOOLEAN, seqs : SUBSET Nat, size : Nat]]

TypeOK ==
  /\ tx \in [Connections -> {"none", "open", "reading", "writing"}]
  /\ stage \in [Connections -> {"idle", "numbered", "inserted", "appended", "created", "deleted"}]
  /\ \A s \in Sessions : db[s].exists \in BOOLEAN /\ db[s].size \in Nat
  /\ target \in [Connections -> Sessions \cup {"none"}] /\ seq \in [Connections -> Nat]

(* append_entry: the entries of a stored session are numbered from 0       *)
(* without a hole and its size counts them; what append_entry returned is  *)
(* stored until the session is deleted; and there is one writer, whatever  *)
(* the connections interleave, whichever calls raise half-way, and also    *)
(* when a transaction that a failed call left is committed by a later one. *)
EntriesDense ==
  /\ TypeOK
  /\ \A s \in Sessions :
       /\ db[s].seqs = 0..(db[s].size - 1)
       /\ ~db[s].exists => db[s].size = 0
  /\ \A a \in acked : a[2] \in db[a[1]].seqs
  /\ \A c, d \in Connections : tx[c] = "writing" /\ tx[d] = "writing" => c = d
=============================================================================
