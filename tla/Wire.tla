-------------------------------- MODULE Wire --------------------------------
(***************************************************************************)
(* The remote protocol: pi_server's sessions and their snapshot, the       *)
(* messages of pi_protocol (validated, written as CBOR, framed by a length *)
(* prefix) and the client's side, which decodes a byte stream cut into     *)
(* chunks at any place and shows the last snapshot.                        *)
(*                                                                         *)
(* A cell stands for the bytes of one head or of one text: <<kind, arg>>.  *)
(* A length prefix is two cells, the digits of the length in base LenBase  *)
(* (four bytes in the code).  The transport that carries the cells is not  *)
(* in the repository: actions Chunk and Hangup are what any would do.      *)
(***************************************************************************)
EXTENDS Integers, Sequences, FiniteSets, SequencesExt, TLC

CONSTANTS
  SessionIds,  \* the sessions' ids (uuid4 in the code)
  Clients,     \* connections that attach to sessions
  LenBase,     \* values of a cell of a length prefix
  MaxFrame,    \* max_frame_length, and with it max_byte_length, in cells
  MaxDepth,    \* max_depth
  MaxItems,    \* max_container_length
  MaxCommands, \* calls of the session manager in a behaviour
  MaxSends,    \* messages that are sent in a behaviour
  Pieces       \* sizes of a chunk, besides all that is left

WireAssumption ==
  /\ {LenBase, MaxFrame, MaxDepth, MaxItems, MaxCommands, MaxSends} \subseteq Nat
  /\ MaxFrame < LenBase * LenBase - 1 /\ Pieces \subseteq Nat \ {0}

VARIABLES
  live,      \* SessionManager._sessions: id -> session
  holders,   \* history: who attached to which session and did not let go
  commands,  \* calls so far
  wire,      \* cells that were sent and not delivered
  sent,      \* history: every frame sent: where it ends, what it says
  buffer,    \* FrameDecoder._buffer
  state,     \* FrameDecoder._state
  failed,    \* _ValidatedMessageDecoder._failed
  got,       \* the messages that push returned
  arrived,   \* history: the number of cells delivered
  view       \* ClientState.sessions: id -> summary

serverVars == <<live, holders, commands>>
lineVars == <<wire, sent, buffer, state, failed, got, arrived, view>>
wireVars == <<serverVars, lineVars>>

(***************************************************************************)
(* Values: texts, numbers, booleans, null, lists and maps in key order.    *)
(***************************************************************************)
Text(w) == <<"text", w>>
Bool(b) == <<"bool", b>>
Null == <<"null", 0>>
List(s) == <<"list", s>>
Map(pairs) == <<"map", pairs>>

IsText(v) == v[1] = "text"
IsId(v) == IsText(v) /\ v[2] # ""
IsMap(v) == v[1] = "map"
IsList(v, P(_)) == v[1] = "list" /\ \A i \in DOMAIN v[2] : P(v[2][i])
Keys(v) == {v[2][i][1] : i \in DOMAIN v[2]}
Get(v, k) == IF k \in Keys(v) THEN v[2][CHOOSE i \in DOMAIN v[2] : v[2][i][1] = k][2] ELSE Null

(* What the writer puts on the line for a value, a key being a text.       *)
TextCells(w) == IF w = "" THEN << <<"text", 0>> >> ELSE << <<"text", 1>>, <<"word", w>> >>

RECURSIVE Cells(_)
Cells(v) ==
  CASE v[1] = "text" -> TextCells(v[2])
    [] v[1] = "list" -> << <<"list", Len(v[2])>> >> \o
                        FlattenSeq([i \in DOMAIN v[2] |-> Cells(v[2][i])])
    [] v[1] = "map"  -> << <<"map", Len(v[2])>> >> \o
                        FlattenSeq([i \in DOMAIN v[2] |-> TextCells(v[2][i][1]) \o Cells(v[2][i][2])])
    [] OTHER         -> <<v>>

(* The limits _encode_value checks on the way down.                        *)
RECURSIVE Encodable(_, _)
Encodable(v, depth) ==
  /\ depth <= MaxDepth
  /\ v[1] \in {"list", "map"} => Len(v[2]) <= MaxItems
  /\ v[1] = "list" => \A i \in DOMAIN v[2] : Encodable(v[2][i], depth + 1)
  /\ v[1] = "map" => \A i \in DOMAIN v[2] : Encodable(v[2][i][2], depth + 1)

(***************************************************************************)
(* The strict reader.  A step is [ok, value, at]: at is the next offset.   *)
(***************************************************************************)
Broken == [ok |-> FALSE, value |-> Null, at |-> 0]
Took(v, at) == [ok |-> TRUE, value |-> v, at |-> at]

ReadText(c, at) ==
  CASE c[at][2] = 0 -> Took(Text(""), at + 1)
    [] c[at][2] > 0 /\ at < Len(c) /\ c[at + 1][1] = "word" -> Took(Text(c[at + 1][2]), at + 2)
    [] OTHER -> Broken

RECURSIVE ReadItem(_, _, _), ReadList(_, _, _, _, _), ReadMap(_, _, _, _, _)
ReadList(c, at, depth, n, items) ==
  IF n = 0 THEN Took(List(items), at)
  ELSE LET r == ReadItem(c, at, depth)
       IN IF r.ok THEN ReadList(c, r.at, depth, n - 1, Append(items, r.value)) ELSE Broken
ReadMap(c, at, depth, n, pairs) ==
  IF n = 0 THEN Took(Map(pairs), at)
  ELSE LET k == ReadItem(c, at, depth)
           r == ReadItem(c, k.at, depth)
       IN IF k.ok /\ IsText(k.value) /\ k.value[2] \notin Keys(Map(pairs)) /\ r.ok
          THEN ReadMap(c, r.at, depth, n - 1, Append(pairs, <<k.value[2], r.value>>)) ELSE Broken
ReadItem(c, at, depth) ==
  IF depth > MaxDepth \/ at > Len(c) THEN Broken
  ELSE CASE c[at][1] = "text" -> ReadText(c, at)
         [] c[at][1] = "list" /\ c[at][2] <= MaxItems -> ReadList(c, at + 1, depth + 1, c[at][2], <<>>)
         [] c[at][1] = "map" /\ c[at][2] <= MaxItems -> ReadMap(c, at + 1, depth + 1, c[at][2], <<>>)
         [] c[at][1] \in {"int", "bool", "null"} -> Took(c[at], at + 1)
         [] OTHER -> Broken

(* decode_cbor: exactly one item.                                          *)
Decode(c) ==
  LET r == ReadItem(c, 1, 0)
  IN IF Len(c) <= MaxFrame /\ r.ok /\ r.at = Len(c) + 1 THEN r ELSE Broken

(***************************************************************************)
(* Which values are messages.  Times and the phase, always valid, are left *)
(* out of a summary.                                                       *)
(***************************************************************************)
ModelRef(v) ==
  IsMap(v) /\ Keys(v) = {"provider", "id"} /\ IsId(Get(v, "provider")) /\ IsId(Get(v, "id"))

SummaryKeys == {"id", "name", "cwd", "model", "thinkingLevel", "attached", "locked"}

SessionSummary(v) ==
  /\ IsMap(v) /\ Keys(v) \subseteq SummaryKeys
  /\ IsId(Get(v, "id")) /\ IsId(Get(v, "cwd"))
  /\ "name" \in Keys(v) => IsText(Get(v, "name"))
  /\ ModelRef(Get(v, "model"))
  /\ Get(v, "thinkingLevel") \in {Text("off"), Text("high")}
  /\ Get(v, "attached")[1] = "bool" /\ Get(v, "locked")[1] = "bool"

(* A summary has no key but its own and a snapshot must have four more, so *)
(* that no value is a session snapshot.                                    *)
SessionSnapshot(v) ==
  /\ SessionSummary(v)
  /\ {"revision", "transcript", "queuedSteer", "queuedSteerCount"} \subseteq Keys(v)

ServerSnapshot(v) ==
  /\ IsMap(v) /\ Keys(v) = {"serverId", "sessions"}
  /\ IsId(Get(v, "serverId"))
  /\ IsList(Get(v, "sessions"), SessionSummary)

CommandResult(v) ==
  /\ IsMap(v)
  /\ \/ Get(v, "command") = Text("list") /\ Keys(v) = {"command", "sessions"}
        /\ IsList(Get(v, "sessions"), SessionSummary)
     \/ Get(v, "command") = Text("detach") /\ Keys(v) = {"command", "sessionId"}
        /\ IsId(Get(v, "sessionId"))
     \/ Get(v, "command") = Text("attach") /\ Keys(v) = {"command", "session"}
        /\ SessionSnapshot(Get(v, "session"))

ServerEvent(v) ==
  /\ IsMap(v)
  /\ \/ Get(v, "type") = Text("server_snapshot") /\ ServerSnapshot(Get(v, "snapshot"))
        /\ Keys(v) = {"type", "snapshot"}
     \/ Get(v, "type") = Text("session_removed") /\ IsId(Get(v, "sessionId"))
        /\ Keys(v) = {"type", "sessionId"}

ServerMessage(v) ==
  /\ IsMap(v)
  /\ \/ Get(v, "type") = Text("event") /\ Keys(v) = {"type", "event"} /\ ServerEvent(Get(v, "event"))
     \/ /\ Get(v, "type") = Text("response") /\ Keys(v) \subseteq {"type", "id", "ok", "result", "error"}
        /\ IsId(Get(v, "id")) /\ Get(v, "ok")[1] = "bool"
        /\ IF Get(v, "ok")[2] THEN CommandResult(Get(v, "result")) /\ "error" \notin Keys(v)
                              ELSE IsMap(Get(v, "error")) /\ "result" \notin Keys(v)

(* encode_server_message: checked, within the limits, framed.              *)
Accepted(v) == ServerMessage(v) /\ Encodable(v, 0) /\ Len(Cells(v)) <= MaxFrame
Prefix(n) == << <<"len", n \div LenBase>>, <<"len", n % LenBase>> >>
Frame(cells) == Prefix(Len(cells)) \o cells

(***************************************************************************)
(* The server's sessions.                                                  *)
(***************************************************************************)
Init ==
  /\ live = <<>> /\ holders = {} /\ commands = 0
  /\ wire = <<>> /\ sent = <<>> /\ buffer = <<>> /\ state = "open" /\ failed = FALSE
  /\ got = <<>> /\ arrived = 0 /\ view = <<>>

(* Commands come while nothing is under way: they and the line do not read *)
(* each other's state, and the other orders would be the same.             *)
Command ==
  commands < MaxCommands /\ wire = <<>> /\ commands' = commands + 1 /\ UNCHANGED lineVars

CreateSession(s) ==
  /\ Command /\ s \notin DOMAIN live
  /\ \E x \in {[name |-> Null, cwd |-> "", model |-> ""], [name |-> Text("n"), cwd |-> "/", model |-> "m"]} :
       live' = (s :> (x @@ [thinking |-> "off", attached |-> FALSE, locked_by |-> "none"])) @@ live
  /\ UNCHANGED holders

DeleteSession(s) ==
  /\ Command /\ s \in DOMAIN live /\ live[s].locked_by = "none"
  /\ live' = [t \in DOMAIN live \ {s} |-> live[t]]
  /\ UNCHANGED holders

AttachSession(s, c) ==
  /\ Command /\ s \in DOMAIN live /\ live[s].locked_by \in {"none", c}
  /\ live' = [live EXCEPT ![s].locked_by = c, ![s].attached = TRUE]
  /\ holders' = holders \cup {<<c, s>>}

DetachSession(s, c) ==
  /\ Command /\ s \in DOMAIN live
  /\ live' = IF live[s].locked_by = c THEN [live EXCEPT ![s].locked_by = "none", ![s].attached = FALSE]
             ELSE live
  /\ holders' = holders \ {<<c, s>>}

(* No lock is asked for here.                                              *)
SetModel(s) ==
  /\ Command /\ s \in DOMAIN live
  /\ live' = [live EXCEPT ![s].model = "m"] /\ UNCHANGED holders
SetThinking(s) ==
  /\ Command /\ s \in DOMAIN live
  /\ live' = [live EXCEPT ![s].thinking = "high"] /\ UNCHANGED holders

(* create_snapshot, the sessions in any order.                             *)
Summary(s) ==
  LET x == live[s]
  IN Map(<< <<"id", Text(s)>>, <<"name", x.name>>, <<"cwd", Text(x.cwd)>>,
            <<"model", Map(<< <<"provider", Text(x.model)>>, <<"id", Text(x.model)>> >>)>>,
            <<"thinkingLevel", Text(x.thinking)>>, <<"attached", Bool(x.attached)>>,
            <<"locked", Bool(x.locked_by # "none")>> >>)
Snapshot(order) ==
  Map(<< <<"serverId", Text("pi")>>, <<"sessions", List([i \in DOMAIN order |-> Summary(order[i])])>> >>)

(***************************************************************************)
(* The line: what is sent, and what a peer of another make might send.     *)
(***************************************************************************)
Event(kind, field, v) ==
  Map(<< <<"type", Text("event")>>, <<"event", Map(<< <<"type", Text(kind)>>, <<field, v>> >>)>> >>)

Broadcasts ==
  {Event("server_snapshot", "snapshot", Snapshot(order)) : order \in SetToSeqs(DOMAIN live)} \cup
  {Event("session_removed", "sessionId", Text(s)) : s \in SessionIds \ DOMAIN live}

(* Payloads that are no message: nothing, a tag, one key twice, two items, *)
(* lists deeper than MaxDepth, a value of another shape.                   *)
Deep == [i \in 1 .. MaxDepth + 2 |-> <<"list", 1>>]
Garbage ==
  { <<>>, << <<"tag", 0>> >>, << <<"null", 0>>, <<"null", 0>> >>, Append(Deep, <<"null", 0>>),
    << <<"map", 2>> >> \o TextCells("type") \o TextCells("event") \o TextCells("type") \o TextCells("event"),
    TextCells("event") }

Sending == Len(sent) < MaxSends /\ state # "ended"
Put(cells, v) ==
  /\ wire' = wire \o cells
  /\ sent' = Append(sent, [end |-> arrived + Len(wire) + Len(cells), says |-> v])
  /\ UNCHANGED <<buffer, state, failed, got, arrived, view, serverVars>>

(* At most one frame of a behaviour is bad (a bound).                      *)
Sane == \A i \in DOMAIN sent : sent[i].says # Null

Send == Sending /\ \E v \in Broadcasts : Accepted(v) /\ Put(Frame(Cells(v)), v)
SendGarbage == Sending /\ Sane /\ \E cells \in Garbage : Put(Frame(cells), Null)
SendOversize == Sending /\ Sane /\ Put(Prefix(MaxFrame + 1), Null)

(***************************************************************************)
(* FrameDecoder.push: the frames that are complete, and whether a length   *)
(* was beyond the limit.                                                   *)
(***************************************************************************)
RECURSIVE FramesLate(_, _)
FramesLate(b, out) ==
  LET n == b[1][2] * LenBase + b[2][2]
  IN IF Len(b) < 2 THEN [frames |-> out, left |-> b, bad |-> FALSE]
     ELSE IF n > MaxFrame THEN [frames |-> <<>>, left |-> <<>>, bad |-> TRUE]
     ELSE IF Len(b) <= 2 + n THEN [frames |-> out, left |-> b, bad |-> FALSE]
     ELSE FramesLate(SubSeq(b, 3 + n, Len(b)), Append(out, SubSeq(b, 3, 2 + n)))

RECURSIVE Frames(_, _)
Frames(b, out) ==
  LET n == b[1][2] * LenBase + b[2][2]
  IN IF Len(b) < 2 THEN [frames |-> out, left |-> b, bad |-> FALSE]
     ELSE IF n > MaxFrame THEN [frames |-> <<>>, left |-> <<>>, bad |-> TRUE]
     ELSE IF Len(b) < 2 + n THEN [frames |-> out, left |-> b, bad |-> FALSE]
     ELSE Frames(SubSeq(b, 3 + n, Len(b)), Append(out, SubSeq(b, 3, 2 + n)))

(* ClientState.update_snapshot.                                            *)
Shown(v, old) ==
  LET e == Get(v, "event")
      list == Get(Get(e, "snapshot"), "sessions")[2]
  IN IF Get(e, "type") # Text("server_snapshot") THEN old
     ELSE [s \in {Get(list[i], "id")[2] : i \in DOMAIN list} |->
             list[CHOOSE i \in DOMAIN list : Get(list[i], "id")[2] = s]]

(* _ValidatedMessageDecoder.push: one bad frame and the whole chunk is     *)
(* refused, the good frames before it included.                            *)
Chunk(n) ==
  /\ state # "ended" /\ wire # <<>> /\ n <= Len(wire)
  /\ wire' = SubSeq(wire, n + 1, Len(wire)) /\ arrived' = arrived + n
  /\ IF failed THEN UNCHANGED <<buffer, state, failed, got, view>>
     ELSE LET r == Frames(buffer \o SubSeq(wire, 1, n), <<>>)
              said == [i \in DOMAIN r.frames |-> Decode(r.frames[i])]
              good == ~r.bad /\ \A i \in DOMAIN said : said[i].ok /\ ServerMessage(said[i].value)
          IN /\ buffer' = r.left
             /\ state' = IF r.bad THEN "failed" ELSE state
             /\ failed' = ~good
             /\ got' = IF good THEN got \o [i \in DOMAIN said |-> said[i].value] ELSE got
             /\ view' = IF good THEN FoldLeft(LAMBDA old, m : Shown(m.value, old), view, said) ELSE view
  /\ UNCHANGED <<sent, serverVars>>

(* The line is closed, with what was still on it lost, and end() is called *)
Hangup ==
  /\ state # "ended" /\ sent # <<>>
  /\ wire' = <<>>
  /\ failed' = (failed \/ buffer # <<>>)
  /\ buffer' = IF failed THEN buffer ELSE <<>>
  /\ state' = "ended"
  /\ UNCHANGED <<sent, got, arrived, view, serverVars>>

Next ==
  \/ \E s \in SessionIds : \/ CreateSession(s) \/ DeleteSession(s) \/ SetModel(s) \/ SetThinking(s)
                    \/ \E c \in Clients : AttachSession(s, c) \/ DetachSession(s, c)
  \/ Send \/ SendGarbage \/ SendOversize \/ Hangup
  \/ \E n \in Pieces \cup {Len(wire)} : Chunk(n)

(***************************************************************************)
(* Properties.                                                             *)
(***************************************************************************)
TypeOK ==
  /\ DOMAIN live \subseteq SessionIds /\ holders \subseteq Clients \X SessionIds
  /\ state \in {"open", "failed", "ended"} /\ failed \in BOOLEAN
  /\ arrived \in Nat /\ DOMAIN view \subseteq SessionIds

(* A stream is understood alike however it is cut: the client has exactly  *)
(* the messages that came completely, in order and as they were sent, and  *)
(* fails when the first frame that is none came, not before and not later; *)
(* all a bad frame can take with it are messages of its own chunk.         *)
Came == SelectSeq(sent, LAMBDA f : f.end <= arrived)
Bad == {i \in DOMAIN Came : Came[i].says = Null}
Sound == IF Bad = {} THEN Came ELSE SubSeq(Came, 1, (CHOOSE i \in Bad : \A j \in Bad : i <= j) - 1)
StreamUnderstood ==
  LET said == [i \in DOMAIN Sound |-> Sound[i].says]
  IN /\ IsPrefix(got, said) /\ (Bad = {} => got = said)
     /\ state # "ended" => (failed <=> Bad # {})

(* The client shows the sessions of the last snapshot that it was told,    *)
(* and none that a later snapshot does not have.                           *)
Told == {i \in DOMAIN got : Get(Get(got[i], "event"), "type") = Text("server_snapshot")}
ViewIsTold ==
  LET list == Get(Get(Get(got[CHOOSE i \in Told : \A j \in Told : j <= i], "event"), "snapshot"), "sessions")[2]
  IN IF Told = {} THEN view = <<>> ELSE {view[s] : s \in DOMAIN view} = ToSet(list)

(* Who attached keeps the session until it detaches: nobody else is let in *)
(* and nobody deletes the session under it.                                *)
AttachedKeeps == \A h \in holders : h[2] \in DOMAIN live /\ live[h[2]].locked_by = h[1]

Remote == TypeOK /\ StreamUnderstood /\ ViewIsTold /\ AttachedKeeps
=============================================================================
