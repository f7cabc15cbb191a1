------------------------------ MODULE MCParts ------------------------------
(***************************************************************************)
(* For model checking: the components of Parts, and beside them those that *)
(* are only model-checked.  They share no state either: a behaviour        *)
(* chooses one component and keeps to it.                                  *)
(***************************************************************************)
EXTENDS Parts, TLC

CONSTANTS
  Writers, SessionIds, GroupOf, MaxEntries, MaxCuts,        \* SessionFiles
  Catalogs, Providers, Defaults, Patterns, ScopeLists, Levels, TokenRank, MaxStarts, \* ModelSelection
  ProjectDir, GlobalDir, Configured, EntryPoints, BaseTools, MaxRewrites,
  MaxToolCalls                                              \* Extensions

VARIABLES
  present, used, text, active, next, copy, made, cuts, log, hurt, snapshot,
  authors,
  catalog, auth, current, saved, last, starts,
  exists, code, loaded, errors, providers, tools, extNames, tool, answers,
  unanswered, rewrites, toolCalls, claimed

G == INSTANCE MemorySearch
F == INSTANCE SessionFiles
M == INSTANCE ModelSelection
X == INSTANCE Extensions

ASSUME OtherPartsAssumption ==
  /\ F!SessionFilesAssumption /\ M!SelectionAssumption
  /\ X!ExtensionsAssumption

filesVars ==
  <<present, used, text, active, next, copy, made, cuts, log, hurt, snapshot,
    authors>>
selectionVars == <<catalog, auth, current, saved, last, starts>>
extensionsVars ==
  <<exists, code, loaded, errors, providers, tools, extNames, tool, answers,
    unanswered, rewrites, toolCalls, claimed>>

otherVars == <<filesVars, selectionVars, extensionsVars>>

-----------------------------------------------------------------------------
(* The components that are not chosen stand still in one initial state.    *)
InitAll ==
  /\ part \in {"settings", "sqlite", "memory", "skills", "tui", "editor", "tools",
              "files", "selection", "extensions"}
  /\ Started
  /\ part # "selection" => catalog = <<>> /\ auth = {}
  /\ part # "extensions" =>
       /\ exists = {}
       /\ code = [f \in DOMAIN EntryPoints |-> CHOOSE c \in EntryPoints[f] : TRUE]
  /\ F!Init /\ M!Init /\ X!Init

AloneAmongAll ==
  /\ Alone
  /\ StandStill("files", filesVars) /\ StandStill("selection", selectionVars)
  /\ StandStill("extensions", extensionsVars)

NextAll ==
  \/ Next /\ UNCHANGED otherVars
  \/ part = "files" /\ F!Next /\ AloneAmongAll
  \/ part = "selection" /\ M!Next /\ AloneAmongAll
  \/ part = "extensions" /\ X!Next /\ AloneAmongAll

SpecAll == InitAll /\ [][NextAll]_<<vars, otherVars>>

(* Processes, writers and connections are the same two model values.       *)
Symmetry == Permutations(Processes)

-----------------------------------------------------------------------------
(* The instances.                                                          *)

SameGroup == [s \in SessionIds |-> "a"]

OfP(id) == [provider |-> "p", id |-> id]
OfQ(id) == [provider |-> "q", id |-> id]

(* Models that shadow each other: dated and aliased, with a slash or a     *)
(* colon in the id, with their own provider's name in it, the same id of   *)
(* two providers.                                                          *)
SomeCatalogs ==
  { <<>>,
    <<OfP(<<"a">>), OfP(<<"a", "-date">>), OfQ(<<"a">>), OfQ(<<"p", "/", "a">>)>>,
    <<OfP(<<"p", "/", "a">>), OfP(<<"a", ":", "hi">>), OfQ(<<"b", "-date">>),
      OfQ(<<"b", "-date", "-date">>)>>,
    <<OfP(<<"a">>), OfP(<<"p", "/", "a">>), OfP(<<"q", "/", "a">>), OfP(<<"b">>)>>,
    <<OfP(<<"p", "/", "a">>), OfP(<<"q", "/", "a">>), OfQ(<<"p", "/", "a">>)>>,
    <<OfQ(<<"b">>), OfP(<<"b", ":", "x">>)>> }

SomeDefaults == << <<"q", <<"b">>>>, <<"p", <<"a">>>> >>

SomePatterns ==
  { <<>>, <<"a">>, <<"b">>, <<"p", "/", "a">>, <<"p", "/", "p", "/", "a">>,
    <<"q", "/", "b">>, <<"a", ":", "hi">>, <<"a", ":", "x">>,
    <<"p", "/", "c", ":", "hi">>, <<"*">>, <<"p", "/", "*", ":", "hi">>,
    <<":", "hi">>, <<"r", "/", "a">>, <<"p", "/">>, <<"q", "/", "a">> }

(* Every pattern before one that finds the same models, or all of them.    *)
SomeScopes ==
  {<<>>} \cup (SomePatterns \X {<<"a">>, <<"*">>, <<"p", "/", "*", ":", "hi">>})

InAsciiOrder == <<"*", "-date", "/", ":", "a", "b", "c", "hi", "p", "q", "r", "x">>

Does(name, arg) == [do |-> name, arg |-> arg]
Entry(sort, listed, points) == [kind |-> sort, listed |-> listed, points |-> points]

InProject == <<Entry("file", <<>>, <<"a">>), Entry("package", <<"b">>, <<"c">>)>>
InHome == <<Entry("private", <<>>, <<"b">>), Entry("file", <<>>, <<"c">>)>>
InSettings == <<Entry("file", <<>>, <<"a">>), Entry("file", <<>>, <<"b">>)>>

(* They share a tool's name, patch, block, excuse, accuse, fail and return *)
(* what is no result.                                                      *)
SomeEntryPoints ==
  [a |-> {<<Does("tool", "bash"), Does("on_call", "patch")>>,
          <<Does("provider", "p"), Does("raise", "")>>,
          <<Does("on_call", "block")>>},
   b |-> {<<Does("tool", "bash"), Does("tool", "x"), Does("on_result", "excuse")>>,
          <<Does("unregister", "p"), Does("on_call", "spoil"), Does("on_result", "mistype")>>},
   c |-> {<<Does("on_call", "raise"), Does("on_result", "raise"), Does("on_result", "accuse")>>,
          <<Does("tool", "x"), Does("on_call", "mistype")>>}]

TwoBaseTools == <<"bash", "read">>

SomeTexts == {<<"a", "a", "b">>, <<"a", "cr", "lf", "a">>, <<"lone">>}
SomeNeedles == {<<>>, <<"a">>, <<"lf", "a">>, <<"lone">>}
SomeExitCodes == {-9, 0, 1}

Typewritten == <<<<"a">>, <<"a", " ", "a">>>>

Inputs == {"", "hello", "/stop", "/steer", "/model", "/quit", "/"}

Suggested == [t \in Inputs |-> IF t = "/" THEN <<"/model", "/quit">> ELSE <<>>]

-----------------------------------------------------------------------------
(***************************************************************************)
(* Properties                                                              *)
(***************************************************************************)

(* SessionFiles: a session reads back as what was appended.                *)
EntriesHonest == part = "files" => F!EntriesHonest

(* SessionFiles: a fork or branch has every entry it was to copy.          *)
ForkWhole == part = "files" => F!ForkWhole

(* MemoryStore: search returns memories that are there, the best first.    *)
SearchSound == part = "memory" => G!SearchSound


(* Extensions: tools follow what is loaded; a call runs as approved and is *)
(* answered once, or its prompt raises for one of the known reasons.       *)
ExtensionsContained == part = "extensions" => X!ExtensionsContained
=============================================================================
