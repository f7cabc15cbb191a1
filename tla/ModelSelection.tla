--------------------------- MODULE ModelSelection ---------------------------
(***************************************************************************)
(* model_resolver: which model a command line, a scope of patterns, the    *)
(* saved settings or a resumed session mean, over several starts of the    *)
(* program between which providers gain and lose their authentication.     *)
(*                                                                         *)
(* A text is a sequence of tokens, equal up to case.  Providers are texts  *)
(* of one token; an id may contain "/" and ":".  A model's name is its id. *)
(***************************************************************************)
EXTENDS Integers, Sequences, FiniteSets, SequencesExt

CONSTANTS
  Catalogs,  \* sets of models, in the order of the catalog
  Providers, \* the providers' tokens
  Defaults,  \* default_model_per_provider, in order: << <<provider, id>>, ... >>
  Patterns,  \* texts a user gives as a model
  ScopeLists, \* sequences of such texts that the settings give as a scope
  Levels,    \* tokens that are thinking levels
  TokenRank, \* the order of tokens, as a sequence
  MaxStarts  \* starts of the program

SelectionAssumption ==
  /\ MaxStarts \in Nat
  /\ \A c \in Catalogs : \A i \in DOMAIN c : c[i].provider \in Providers

VARIABLES
  catalog, \* get_models()
  auth,    \* providers for which has_configured_auth
  current, \* <<model>> in use, or <<>>
  saved,   \* <<model>> the session was saved with, or <<>>
  last,    \* the last resolution: how, what was asked, what came out
  starts

selectionVars == <<catalog, auth, current, saved, last, starts>>

Model(provider, id) == [provider |-> provider, id |-> id]
Canonical(m) == <<m.provider, "/">> \o m.id
Available == SelectSeq(catalog, LAMBDA m : m.provider \in auth)
GetModel(provider, id) == SelectSeq(catalog, LAMBDA m : m = Model(provider, id))
First(s) == IF s = <<>> THEN <<>> ELSE <<s[1]>>
Only(s) == IF Len(s) = 1 THEN s ELSE <<>>

(* The first and the last position of a token, 0 if there is none.         *)
Find(text, token) == SelectInSeq(text, LAMBDA t : t = token)
RFind(text, token) == SelectLastInSeq(text, LAMBDA t : t = token)
Before(text, i) == SubSeq(text, 1, i - 1)
After(text, i) == SubSeq(text, i + 1, Len(text))
Within(part, text) == \E i \in 0 .. Len(text) - Len(part) : SubSeq(text, i + 1, i + Len(part)) = part

(* fnmatch, for "*".                                                       *)
RECURSIVE Fits(_, _)
Fits(text, glob) ==
  CASE glob = <<>>    -> text = <<>>
    [] glob # <<>> /\ Head(glob) = "*" -> \E i \in 0 .. Len(text) : Fits(After(text, i), Tail(glob))
    [] OTHER          -> text # <<>> /\ Head(text) = Head(glob) /\ Fits(Tail(text), Tail(glob))

Rank(token) == CHOOSE i \in DOMAIN TokenRank : TokenRank[i] = token
TextBelow(a, b) ==
  \/ IsStrictPrefix(a, b)
  \/ \E i \in DOMAIN a \cap DOMAIN b : SubSeq(a, 1, i - 1) = SubSeq(b, 1, i - 1) /\ Rank(a[i]) < Rank(b[i])

(***************************************************************************)
(* Matching a text with models.                                            *)
(***************************************************************************)
IsAlias(id) == id = <<>> \/ Last(id) # "-date"

(* An ambiguous reference is none: the later ways are not tried then.      *)
FindExact(ref, models) ==
  LET slash == Find(ref, "/")
      canonical == SelectSeq(models, LAMBDA m : Canonical(m) = ref)
      split == SelectSeq(models, LAMBDA m : slash > 1 /\ <<m.provider>> = Before(ref, slash) /\ m.id = After(ref, slash))
  IN IF ref = <<>> THEN <<>>
     ELSE IF canonical # <<>> THEN Only(canonical)
     ELSE IF split # <<>> THEN Only(split)
     ELSE Only(SelectSeq(models, LAMBDA m : m.id = ref))

(* sort(reverse=True): the highest id, the first model of those with it.   *)
Highest(models) ==
  First(SelectSeq(models, LAMBDA m : \A i \in DOMAIN models : ~TextBelow(m.id, models[i].id)))
TryMatch(pattern, models) ==
  LET exact == FindExact(pattern, models)
      partial == SelectSeq(models, LAMBDA m : Within(pattern, m.id))
      aliases == SelectSeq(partial, LAMBDA m : IsAlias(m.id))
  IN IF exact # <<>> THEN exact
     ELSE IF aliases # <<>> THEN Highest(aliases)
     ELSE Highest(partial)

Parse(model, level, warned) == [model |-> model, level |-> level, warned |-> warned]
RECURSIVE ParsePattern(_, _, _)
ParsePattern(pattern, models, lenient) ==
  LET match == TryMatch(pattern, models)
      colon == RFind(pattern, ":")
      suffix == After(pattern, colon)
      valid == Len(suffix) = 1 /\ suffix[1] \in Levels
      rest == ParsePattern(Before(pattern, colon), models, lenient)
  IN CASE match # <<>> -> Parse(match, "", FALSE)
       [] match = <<>> /\ (colon = 0 \/ (~valid /\ ~lenient)) -> Parse(<<>>, "", FALSE)
       [] OTHER -> IF rest.model = <<>> THEN rest
                   ELSE IF valid THEN Parse(rest.model, IF rest.warned THEN "" ELSE suffix[1], rest.warned)
                   ELSE Parse(rest.model, "", TRUE)


Joined(scope, models, level) ==
  scope \o [i \in DOMAIN SelectSeq(models, LAMBDA m : \A k \in DOMAIN scope : scope[k].model # m) |->
              [model |-> SelectSeq(models, LAMBDA m : \A k \in DOMAIN scope : scope[k].model # m)[i], level |-> level]]

GlobParts(pattern) ==
  LET colon == RFind(pattern, ":")
      suffix == After(pattern, colon)
  IN IF colon # 0 /\ Len(suffix) = 1 /\ suffix[1] \in Levels
     THEN [glob |-> Before(pattern, colon), level |-> suffix[1]] ELSE [glob |-> pattern, level |-> ""]
GlobModels(glob) ==
  IF FindExact(glob, Available) # <<>> THEN FindExact(glob, Available)
  ELSE SelectSeq(Available, LAMBDA m : Fits(Canonical(m), glob) \/ Fits(m.id, glob))

ScopeStep(acc, pattern) ==
  LET parts == GlobParts(pattern)
      parsed == ParsePattern(pattern, Available, TRUE)
      models == IF Find(pattern, "*") # 0 THEN GlobModels(parts.glob) ELSE parsed.model
      level == IF Find(pattern, "*") # 0 THEN parts.level ELSE parsed.level
      warned == Find(pattern, "*") = 0 /\ parsed.warned
  IN [scope |-> Joined(acc.scope, models, level),
      told |-> acc.told \cup (IF models = <<>> \/ warned THEN {pattern} ELSE {})]
Scope(patterns) == FoldLeft(ScopeStep, [scope |-> <<>>, told |-> {}], patterns)

(***************************************************************************)
(* resolve_cli_model: provider is a token, or "" when none was given.      *)
(* The outcome has a model or is an error, or neither for an empty text;   *)
(* custom: built for an unknown id.                                        *)
(***************************************************************************)
Outcome(model, level, custom) == [model |-> model, level |-> level, custom |-> custom]
Known == {catalog[i].provider : i \in DOMAIN catalog}
RawExact(text) == First(SelectSeq(catalog, LAMBDA m : m.id = text \/ Canonical(m) = text))

Inferred(provider, text) ==
  provider = "" /\ Find(text, "/") = 2 /\ text[1] \in Known
PatternFor(provider, text) ==
  IF Inferred(provider, text) \/ (provider # "" /\ Find(text, "/") = 2 /\ text[1] = provider)
  THEN After(text, 2) ELSE text

(* The inferred provider is not authenticated, but exactly one that is has *)
(* a model whose id is the whole text.                                     *)
Preferred(text, model) ==
  Only(SelectSeq(catalog, LAMBDA m : m.id = text /\ m # model /\ m.provider \in auth))

(* build_fallback_model, for a provider with models.                       *)
Custom(provider, pattern) ==
  LET colon == RFind(pattern, ":")
      suffix == After(pattern, colon)
  IN IF colon # 0 /\ Len(suffix) = 1 /\ suffix[1] \in Levels
     THEN Outcome(<<Model(provider, Before(pattern, colon))>>, suffix[1], TRUE)
     ELSE Outcome(<<Model(provider, pattern)>>, "", TRUE)

ResolveCli(provider, text) ==
  LET inferred == Inferred(provider, text)
      from == IF inferred THEN text[1] ELSE provider
      pattern == PatternFor(provider, text)
      parsed == ParsePattern(pattern, IF from = "" THEN catalog
                                      ELSE SelectSeq(catalog, LAMBDA m : m.provider = from), FALSE)
      better == Preferred(text, parsed.model[1])
      whole == ParsePattern(text, catalog, FALSE)
  IN IF text = <<>> \/ (provider # "" /\ provider \notin Known) THEN Outcome(<<>>, "", FALSE)
     ELSE IF from = "" /\ RawExact(text) # <<>> THEN Outcome(RawExact(text), "", FALSE)
     ELSE IF parsed.model # <<>>
     THEN IF inferred /\ parsed.model[1].provider \notin auth /\ better # <<>>
          THEN Outcome(better, "", FALSE) ELSE Outcome(parsed.model, parsed.level, FALSE)
     ELSE IF inferred /\ RawExact(text) # <<>> THEN Outcome(RawExact(text), "", FALSE)
     ELSE IF inferred /\ whole.model # <<>> THEN Outcome(whole.model, whole.level, FALSE)
     ELSE IF from # "" THEN Custom(from, pattern) ELSE Outcome(<<>>, "", FALSE)

(***************************************************************************)
(* The program starts, saves its model, ends, and resumes.                 *)
(***************************************************************************)
FirstAvailable ==
  LET known == SelectSeq(Defaults, LAMBDA d : \E i \in DOMAIN Available : Available[i] = Model(d[1], d[2]))
  IN IF known # <<>> THEN <<Model(known[1][1], known[1][2])>> ELSE First(Available)

NoLast == [how |-> "none", provider |-> "", asked |-> <<>>, scope |-> <<>>, told |-> {}, model |-> <<>>, custom |-> FALSE]

Init ==
  /\ catalog \in Catalogs /\ auth \in SUBSET Providers
  /\ current = <<>> /\ saved = <<>> /\ last = NoLast /\ starts = 0

Start == starts < MaxStarts /\ current = <<>> /\ starts' = starts + 1
Choose(how, provider, asked, scope, model, custom) ==
  /\ current' = model /\ saved' = IF model = <<>> THEN saved ELSE model
  /\ last' = [how |-> how, provider |-> provider, asked |-> asked, scope |-> scope.scope, told |-> scope.told,
              model |-> model, custom |-> custom]
  /\ UNCHANGED <<catalog, auth>>

(* find_initial_model asks the command line only with both flags, neither  *)
(* empty; otherwise resolve_cli_model is called by itself.  An error ends  *)
(* it.                                                                     *)
StartWithModel(provider, text) ==
  /\ Start /\ catalog # <<>>
  /\ \E r \in {ResolveCli(provider, text)} :
       Choose("cli", provider, <<text>>, [scope |-> <<>>, told |-> {}], r.model, r.custom)

(* find_initial_model without a command line: the scope's first model, the *)
(* saved default if it is authenticated, the first available model.        *)
StartWithScope(patterns) ==
  /\ Start
  /\ \E r \in {Scope(patterns)} :
     LET default == IF saved = <<>> THEN <<>> ELSE GetModel(saved[1].provider, saved[1].id)
     IN Choose("scope", "", patterns, r,
               IF r.scope # <<>> THEN <<r.scope[1].model>>
               ELSE IF default # <<>> /\ default[1].provider \in auth THEN default
               ELSE FirstAvailable, FALSE)

(* restore_model_from_session, with no model in use.                       *)
Resume ==
  /\ Start /\ saved # <<>>
  /\ LET r == GetModel(saved[1].provider, saved[1].id)
     IN Choose("resume", "", <<>>, [scope |-> <<>>, told |-> {}],
               IF r # <<>> /\ r[1].provider \in auth THEN r ELSE FirstAvailable, FALSE)

Exit ==
  /\ current # <<>> /\ current' = <<>> /\ last' = NoLast /\ UNCHANGED <<catalog, auth, saved, starts>>
Login(q) ==
  /\ q \notin auth /\ current = <<>> /\ auth' = auth \cup {q} /\ last' = NoLast
  /\ UNCHANGED <<catalog, current, saved, starts>>
Logout(q) ==
  /\ q \in auth /\ current = <<>> /\ auth' = auth \ {q} /\ last' = NoLast
  /\ UNCHANGED <<catalog, current, saved, starts>>

Next ==
  \/ \E provider \in Providers \cup {""}, text \in Patterns : StartWithModel(provider, text)
  \/ \E patterns \in ScopeLists : StartWithScope(patterns)
  \/ Resume \/ Exit
  \/ \E q \in Providers : Login(q) \/ Logout(q)

(***************************************************************************)
(* Properties.                                                             *)
(***************************************************************************)
TypeOK ==
  /\ catalog \in Catalogs /\ auth \subseteq Providers /\ Len(current) <= 1 /\ Len(saved) <= 1
  /\ starts \in 0 .. MaxStarts

(* --provider is binding, whatever the text after --model looks like, an   *)
(* empty text chooses nothing, and a model is made up only for an id that  *)
(* no model has.  A text that begins with the provider is read without it: *)
(* a model of the provider that has just the rest as its id or as its      *)
(* reference is preferred to all that merely contain it, unless the        *)
(* provider was inferred, cannot be used, and another one that can has a   *)
(* model with the whole text as its id.  Nothing is promised to a model of *)
(* the provider whose id is the whole text, the provider's name included.  *)
Named(provider, text) ==
  {m \in ToSet(catalog) :
     /\ m.provider = provider \/ (provider = "" /\ (Inferred("", text) => m.provider = text[1]))
     /\ PatternFor(provider, text) \in {m.id, Canonical(m)}}
CliHonoured ==
  last.how = "cli" =>
    LET text == last.asked[1]
        named == Named(last.provider, text)
    IN /\ text = <<>> => last.model = <<>>
       /\ named # {} /\ text # <<>> => last.model # <<>>
       /\ \A m \in ToSet(last.model) :
            /\ last.provider # "" => m.provider = last.provider
            /\ named # {} => \/ m \in named
                             \/ Inferred(last.provider, text) /\ m.id = text /\ text[1] \notin auth /\ m.provider \in auth
            /\ last.custom => m \notin ToSet(catalog)

(* A scope has every model once, only models that can be used, and says of *)
(* each pattern that found nothing that it did; the first model starts.    *)
ScopeHonest ==
  last.how = "scope" =>
    LET models == [i \in DOMAIN last.scope |-> last.scope[i].model]
    IN /\ IsInjective(models) /\ ToSet(models) \subseteq ToSet(Available)
       /\ \A i \in DOMAIN last.asked :
            Find(last.asked[i], "*") # 0 /\ last.asked[i] \notin last.told =>
              \E m \in ToSet(models) : Fits(Canonical(m), GlobParts(last.asked[i]).glob) \/ Fits(m.id, GlobParts(last.asked[i]).glob)
       /\ models # <<>> => last.model = <<models[1]>>
       /\ last.model # <<>> => last.model[1].provider \in auth

(* A session goes on with its own model whenever that can be used, and     *)
(* never with one that cannot.                                             *)
ResumeHonest ==
  last.how = "resume" =>
    /\ last.model # <<>> => last.model[1] \in ToSet(Available)
    /\ Available # <<>> => last.model # <<>>

=============================================================================
