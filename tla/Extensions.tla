----------------------------- MODULE Extensions -----------------------------
(***************************************************************************)
(* Extensions: which files are loaded, what their entry points register,   *)
(* what a reload replaces, and a tool call on its way through the handlers *)
(* of the extensions, the permission gate and the tool.  An entry point is *)
(* the sequence of the calls it makes on the ExtensionAPI.                 *)
(***************************************************************************)
EXTENDS Naturals, Sequences, FiniteSets, SequencesExt

CONSTANTS
  ProjectDir, GlobalDir, Configured,  \* entries of the extension directories, in order
  EntryPoints,   \* what entry points do: sets of them by file
  BaseTools,     \* names of the tools of the session itself
  MaxRewrites,   \* bound: changes of the files
  MaxToolCalls   \* bound: tool calls

Files == DOMAIN EntryPoints

ExtensionsAssumption ==
  /\ MaxRewrites \in Nat /\ MaxToolCalls \in Nat
  /\ \A e \in UNION {Range(ProjectDir), Range(GlobalDir), Range(Configured)} :
        /\ e.kind \in {"file", "private", "package"}
        /\ Range(e.listed) \cup Range(e.points) \subseteq Files

VARIABLES
  exists,     \* the files that are there
  code,       \* the entry point of a file
  loaded,     \* LoadExtensionsResult.extensions: <<[path, calls], ...>>
  errors,     \* paths in LoadExtensionsResult.errors
  providers,  \* providers that extensions put into MutableModels
  tools,      \* AgentSession._tools: <<[name, owner], ...>>
  extNames,   \* AgentSession._extension_tool_names
  tool,       \* the tool call in progress
  answers,    \* ToolResultMessages
  unanswered, \* tool calls whose prompt raised before there was one
  rewrites, toolCalls,
  claimed     \* history: names of tools that extensions have registered

extensionsVars ==
  <<exists, code, loaded, errors, providers, tools, extNames, tool, answers,
    unanswered, rewrites, toolCalls, claimed>>

NoCall ==
  [at |-> "none", name |-> "", queue |-> <<>>, args |-> <<>>, blocked |-> FALSE,
   approved |-> <<>>, ran |-> "nothing", given |-> <<>>, isError |-> FALSE]

-----------------------------------------------------------------------------
(* Discovery.                                                              *)

Existing(files) == SelectSeq(files, LAMBDA f : f \in exists)

\* _resolve_extension_entries: the manifest's files, else the first entry point.
Resolved(e) ==
  LET listed == Existing(e.listed)
      points == Existing(e.points)
  IN  IF listed # <<>> THEN listed
      ELSE IF points # <<>> THEN <<Head(points)>> ELSE <<>>

\* A name that begins with an underscore is not an extension.
Discovered(e) ==
  CASE e.kind = "file" -> Existing(e.points)
    [] e.kind = "package" -> Resolved(e)
    [] OTHER -> <<>>

\* A configured file is taken even if it is not there.
Explicit(e) == IF e.kind = "package" THEN Resolved(e) ELSE e.points

DiscoverInDir(dir) == FlattenSeq([i \in DOMAIN dir |-> Discovered(dir[i])])

AddNew(paths, f) == IF f \in Range(paths) THEN paths ELSE Append(paths, f)

DiscoverExtensionPaths ==
  FoldLeft(AddNew, <<>>,
           DiscoverInDir(ProjectDir) \o DiscoverInDir(GlobalDir)
           \o FlattenSeq([i \in DOMAIN Configured |-> Explicit(Configured[i])]))

-----------------------------------------------------------------------------
(* Loading.                                                                *)

\* The calls that an entry point makes before it raises, if it does.
Made(calls) ==
  LET raises == {i \in DOMAIN calls : calls[i].do = "raise"}
  IN  IF raises = {} THEN calls ELSE SubSeq(calls, 1, Min(raises) - 1)

Fails(f) == f \notin exists \/ \E i \in DOMAIN code[f] : code[f][i].do = "raise"

Registered(ext, what) ==
  LET own == SelectSeq(ext.calls, LAMBDA c : c.do = what)
  IN  [i \in DOMAIN own |-> [name |-> own[i].arg, owner |-> ext.path]]

AllRegistered(exts, what) ==
  FlattenSeq([i \in DOMAIN exts |-> Registered(exts[i], what)])

\* set_provider and delete_provider take effect while the file is being loaded.
Provided(known, f) ==
  IF f \notin exists THEN known
  ELSE LET Provide(set, c) ==
             CASE c.do = "provider" -> set \cup {c.arg}
               [] c.do = "unregister" -> set \ {c.arg}
               [] OTHER -> set
       IN  FoldLeft(Provide, known, Made(code[f]))

Load ==
  LET paths == DiscoverExtensionPaths
      good  == SelectSeq(paths, LAMBDA f : ~Fails(f))
  IN  /\ loaded' = [i \in DOMAIN good |-> [path |-> good[i], calls |-> code[good[i]]]]
      /\ errors' = {f \in Range(paths) : Fails(f)}
      /\ providers' = FoldLeft(Provided, providers, paths)

Names(ts) == {ts[i].name : i \in DOMAIN ts}

\* Mutant: the tools of the extensions that were loaded before stay.
KeepOld(kept) == /\ Load
                 /\ tools' = tools \o AllRegistered(loaded', "tool")
                 /\ extNames' = Names(AllRegistered(loaded', "tool"))
                 /\ claimed' = claimed \cup extNames'

LoadTools(kept) ==
  /\ Load
  /\ tools' = kept \o AllRegistered(loaded', "tool")
  /\ extNames' = Names(AllRegistered(loaded', "tool"))
  /\ claimed' = claimed \cup extNames'

Init ==
  /\ exists \in SUBSET Files /\ code \in [Files -> UNION {EntryPoints[f] : f \in Files}]
  /\ \A f \in Files : code[f] \in EntryPoints[f]
  /\ loaded = <<>> /\ errors = {} /\ providers = {} /\ extNames = {}
  /\ tools = [i \in DOMAIN BaseTools |-> [name |-> BaseTools[i], owner |-> "base"]]
  /\ tool = [NoCall EXCEPT !.at = "unloaded"] /\ answers = 0 /\ unanswered = 0
  /\ rewrites = 0 /\ toolCalls = 0 /\ claimed = {}

\* The session is constructed.
Construct ==
  /\ tool.at = "unloaded" /\ tool' = NoCall
  /\ LoadTools(tools)
  /\ UNCHANGED <<exists, code, answers, unanswered, rewrites, toolCalls>>

Reload ==
  /\ tool.at = "none"
  /\ LoadTools(SelectSeq(tools, LAMBDA t : t.name \notin extNames))
  /\ UNCHANGED <<exists, code, tool, answers, unanswered, rewrites, toolCalls>>

\* A file of an extension is written or removed, at any time.
Rewrite(f) ==
  /\ rewrites < MaxRewrites /\ rewrites' = rewrites + 1
  /\ \/ /\ exists' = exists \ {f} /\ f \in exists /\ UNCHANGED code
     \/ /\ exists' = exists \cup {f}
        /\ \E c \in EntryPoints[f] : code' = [code EXCEPT ![f] = c]
  /\ UNCHANGED <<loaded, errors, providers, tools, extNames, tool, answers, unanswered, toolCalls, claimed>>

-----------------------------------------------------------------------------
(* A tool call.                                                            *)

Fixed == UNCHANGED <<exists, code, loaded, providers, tools, extNames, rewrites, claimed>>

CallTool(name) ==
  /\ tool.at = "none" /\ toolCalls < MaxToolCalls /\ toolCalls' = toolCalls + 1
  /\ tool' = [NoCall EXCEPT !.at = "before", !.name = name,
                            !.queue = AllRegistered(loaded, "on_call")]
  /\ UNCHANGED <<errors, answers, unanswered>> /\ Fixed

\* An exception that nothing catches ends the prompt, and with it the call.
Raise ==
  /\ tool' = [tool EXCEPT !.at = "raised"] /\ unanswered' = unanswered + 1
  /\ UNCHANGED answers

\* One handler of "tool_call": it may patch the arguments, raise or block.
CallHandler ==
  /\ tool.at = "before" /\ tool.queue # <<>> /\ Head(tool.queue).name # "mistype"
  /\ LET h == Head(tool.queue) IN
       /\ tool' = [tool EXCEPT
            !.queue = Tail(@),
            !.args = IF h.name \in {"patch", "spoil"} THEN Append(@, h.owner) ELSE @,
            !.blocked = h.name = "block",
            !.isError = h.name = "block",
            !.at = IF h.name = "block" THEN "answer" ELSE @]
       /\ errors' = IF h.name \in {"raise", "spoil"} THEN errors \cup {h.owner} ELSE errors
  /\ UNCHANGED <<answers, unanswered, toolCalls>> /\ Fixed

\* A handler returns something that has no "block", or after the tool no
\* "content": only the handler itself is called inside a try.
HandlerMistypes ==
  /\ tool.at \in {"before", "after"} /\ tool.queue # <<>>
  /\ Head(tool.queue).name = "mistype" /\ Raise
  /\ UNCHANGED <<errors, toolCalls>> /\ Fixed

\* The permission gate is asked about the arguments as they are now.
Permit ==
  /\ tool.at = "before" /\ tool.queue = <<>>
  /\ \E yes \in BOOLEAN :
        tool' = [tool EXCEPT !.at = IF yes THEN "execute" ELSE "answer",
                             !.approved = tool.args, !.isError = ~yes]
  /\ UNCHANGED <<errors, answers, unanswered, toolCalls>> /\ Fixed

GateRaises ==
  /\ tool.at = "before" /\ tool.queue = <<>> /\ Raise
  /\ UNCHANGED <<errors, toolCalls>> /\ Fixed

\* The first AgentTool of that name, else what is built in.
Runner(name) ==
  LET own == SelectSeq(tools, LAMBDA t : t.name = name /\ t.owner # "base")
  IN  IF own # <<>> THEN Head(own).owner ELSE "base"

\* What an AgentTool raises is its result.
Execute ==
  /\ tool.at = "execute"
  /\ \E fails \in BOOLEAN :
        tool' = [tool EXCEPT !.at = "after", !.ran = Runner(tool.name), !.given = tool.args,
                             !.isError = fails, !.queue = AllRegistered(loaded, "on_result")]
  /\ UNCHANGED <<errors, answers, unanswered, toolCalls>> /\ Fixed

\* What a built-in tool raises (arguments of a wrong type, say) is not.
BuiltInRaises ==
  /\ tool.at = "execute" /\ Runner(tool.name) = "base" /\ Raise
  /\ UNCHANGED <<errors, toolCalls>> /\ Fixed

\* One handler of "tool_result": only what it sets takes effect.
ResultHandler ==
  /\ tool.at = "after" /\ tool.queue # <<>> /\ Head(tool.queue).name # "mistype"
  /\ LET h == Head(tool.queue) IN
       /\ tool' = [tool EXCEPT !.queue = Tail(@),
                     !.isError = CASE h.name = "excuse" -> FALSE
                                   [] h.name = "accuse" -> TRUE
                                   [] OTHER -> @]
       /\ errors' = IF h.name = "raise" THEN errors \cup {h.owner} ELSE errors
  /\ UNCHANGED <<answers, unanswered, toolCalls>> /\ Fixed

\* The ToolResultMessage is appended.
Answer ==
  /\ \/ tool.at = "answer"
     \/ tool.at = "after" /\ tool.queue = <<>>
  /\ tool' = [tool EXCEPT !.at = "answered"] /\ answers' = answers + 1
  /\ UNCHANGED <<errors, unanswered, toolCalls>> /\ Fixed

\* The next tool call, the end of the round, or another prompt.
Done ==
  /\ tool.at \in {"answered", "raised"} /\ tool' = NoCall
  /\ UNCHANGED <<errors, answers, unanswered, toolCalls>> /\ Fixed

Next ==
  \/ Construct \/ Reload \/ CallHandler \/ Permit \/ Execute \/ ResultHandler \/ Answer \/ Done
  \/ HandlerMistypes \/ GateRaises \/ BuiltInRaises
  \/ \E f \in Files : Rewrite(f)
  \/ \E n \in Range(BaseTools) \cup extNames : CallTool(n)

-----------------------------------------------------------------------------
TypeOK ==
  /\ exists \subseteq Files /\ extNames \subseteq claimed /\ answers \in 0..MaxToolCalls
  /\ tool.at \in {"unloaded", "none", "before", "execute", "after", "answer", "answered", "raised"}
  /\ \A i \in DOMAIN tools : tools[i].owner \in Files \cup {"base"}

\* What runs is what the gate was shown, the arguments as the handlers left
\* them, those that raised included; what was blocked never runs; a call gets
\* one answer, a refused one an error, or ends its prompt without any.  That
\* an extension's own tool or handler raises never leaves a call unanswered:
\* if an extension's tool has run, only a mistyped result of a handler does.
RanAsApproved ==
  /\ tool.ran # "nothing" => tool.given = tool.approved /\ ~tool.blocked
  /\ answers + unanswered = toolCalls - (IF tool.at \in {"before", "execute", "after", "answer"} THEN 1 ELSE 0)
  /\ tool.at = "answered" /\ tool.ran = "nothing" => tool.isError
  /\ tool.at = "raised" /\ tool.ran \notin {"nothing", "base"} =>
       \E h \in Range(AllRegistered(loaded, "on_result")) : h.name = "mistype"

\* The session has the tools of the extensions that are loaded and of no
\* other, a file that failed has added none, and each tool of the session
\* itself whose name no extension took is there once.
ToolsFresh ==
  /\ {tools[i] : i \in DOMAIN tools} \ {[name |-> n, owner |-> "base"] : n \in Range(BaseTools)}
       = Range(AllRegistered(loaded, "tool"))
  /\ \A n \in Range(BaseTools) \ claimed :
        Cardinality({i \in DOMAIN tools : tools[i].name = n}) = 1
  /\ \A i, j \in DOMAIN loaded : loaded[i].path = loaded[j].path => i = j

ExtensionsContained == TypeOK /\ RanAsApproved /\ ToolsFresh
=============================================================================
