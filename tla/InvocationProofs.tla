--------------------------- MODULE InvocationProofs ---------------------------
(***************************************************************************)
(* One invocation: what resolution gives for every ladder, configuration and  *)
(* spelling, the two readings of a command line, for whatever may be typed    *)
(* and configured, and three parts that are functions: the ids of messages,   *)
(* the waits of a rate limit, and the judges of a worker's reply.             *)
(***************************************************************************)
EXTENDS Invocation, MessageIds, RateLimits, Replies, WellFoundedInduction, TLAPS

(* A set of naturals has a least element.                                   *)
LEMMA LeastNumber ==
  ASSUME NEW S \in SUBSET Nat, S # {}
  PROVE  \E x \in S : \A y \in S : x <= y
<1>1. PICK x \in S : \A y \in S : ~(<<y, x>> \in OpToRel(<, Nat))
  BY NatLessThanWellFounded, WFMin
<1>2. \A y \in S : ~(y < x)
  BY <1>1 DEF OpToRel
<1> QED BY <1>2

(* A set of naturals below a bound has a greatest one.                       *)
LEMMA GreatestNumber ==
  ASSUME NEW n \in Nat, NEW S \in SUBSET (1..n), S # {}
  PROVE  \E x \in S : \A y \in S : y <= x
<1> DEFINE Below == {d \in 0..n : n - d \in S}
<1>1. \A x \in S : n - x \in Below
  <2> SUFFICES ASSUME NEW x \in S PROVE n - x \in Below
    OBVIOUS
  <2>1. x \in 1..n /\ n - x \in 0..n /\ n - (n - x) = x
    OBVIOUS
  <2> QED BY <2>1
<1>2. PICK d \in Below : \A e \in Below : d <= e
  <2>1. PICK x \in S : TRUE
    OBVIOUS
  <2>2. n - x \in Below
    BY <1>1
  <2>3. Below \in SUBSET Nat
    OBVIOUS
  <2> QED BY <2>2, <2>3, LeastNumber
<1>3. ASSUME NEW y \in S PROVE y <= n - d
  <2>1. d <= n - y /\ d \in 0..n /\ y \in 1..n
    BY <1>1, <1>2
  <2> QED BY <2>1
<1>4. n - d \in S
  OBVIOUS
<1> QED BY <1>3, <1>4

(* Of some spellings, one is the last in the order of the map.               *)
LEMMA LatestIsOne ==
  ASSUME NEW keys \in SUBSET Key, keys # {}
  PROVE  Latest(keys) \in keys
<1>1. {Rank[k] : k \in keys} \in SUBSET Nat /\ {Rank[k] : k \in keys} # {}
  BY KeyAssumption
<1>2. PICK r \in {Rank[k] : k \in keys} : \A q \in {Rank[k] : k \in keys} : r <= q
  BY <1>1, LeastNumber
<1>3. \E k \in keys : \A l \in keys : Rank[k] <= Rank[l]
  BY <1>2
<1> QED BY <1>3 DEF Latest

(* resolve_variant answers with a rung of the model's own ladder. It is the   *)
(* rung of the level that was asked for whenever the ladder has one, and      *)
(* otherwise the ladder's top rung, for a request above `high` alone.        *)
THEOREM VariantIsOffered ==
  ASSUME NEW Rung, NEW ladder \in Seq(Rung), NEW requested \in 1..Len(Ladder),
         Variant(requested, ladder) # NoVariant
  PROVE  \E i \in Rungs(ladder) :
           /\ Variant(requested, ladder) = ladder[i]
           /\ \/ Parse(ladder[i]) = requested
              \/ /\ requested > High
                 /\ \A j \in Rungs(ladder) : j <= i /\ Parse(ladder[j]) # requested
<1> DEFINE exact == {i \in Rungs(ladder) : Parse(ladder[i]) = requested}
<1>1. Rungs(ladder) \in SUBSET (1..Len(ladder)) /\ Len(ladder) \in Nat
  BY DEF Rungs
<1>2. CASE exact # {}
  <2>1. exact \in SUBSET Nat
    BY <1>1
  <2>2. \E i \in exact : \A j \in exact : i <= j
    BY <2>1, <1>2, LeastNumber
  <2>3. (CHOOSE i \in exact : IsFirst(i, exact)) \in exact
    BY <2>2 DEF IsFirst
  <2>4. Variant(requested, ladder) = ladder[CHOOSE i \in exact : IsFirst(i, exact)]
    BY <1>2 DEF Variant
  <2> QED BY <2>3, <2>4
<1>3. CASE exact = {}
  <2>1. /\ Rungs(ladder) # {} /\ requested > High
        /\ Variant(requested, ladder)
             = ladder[CHOOSE i \in Rungs(ladder) : IsLast(i, Rungs(ladder))]
    BY <1>3 DEF Variant
  <2>2. \E i \in Rungs(ladder) : \A j \in Rungs(ladder) : j <= i
    BY <1>1, <2>1, GreatestNumber
  <2>3. PICK i \in Rungs(ladder) :
          /\ i = (CHOOSE l \in Rungs(ladder) : IsLast(l, Rungs(ladder)))
          /\ \A j \in Rungs(ladder) : j <= i
    BY <2>2 DEF IsLast
  <2>4. \A j \in Rungs(ladder) : Parse(ladder[j]) # requested
    BY <1>3
  <2> QED BY <2>1, <2>3, <2>4
<1> QED BY <1>2, <1>3

(* No dispatch runs with less effort than it asked for up to `high`: the      *)
(* variant then stands for the very level, or the command is refused.        *)
THEOREM NeverLowered ==
  ASSUME NEW Rung, NEW ladder \in Seq(Rung), NEW requested \in 1..High,
         Variant(requested, ladder) # NoVariant
  PROVE  Parse(Variant(requested, ladder)) = requested
<1>1. requested \in 1..Len(Ladder) /\ ~(requested > High)
  BY DEF High, Ladder
<1> QED BY <1>1, VariantIsOffered

(* `:x -e xhigh` agree and `:x -e h` conflict: two efforts are accepted       *)
(* together exactly when either alone is accepted and means the same level.  *)
THEOREM EffortsAgree ==
  ASSUME NEW inline, NEW flag, inline # Absent, flag # Absent
  PROVE  SelectEffort(inline, flag).error = "none"
           <=> (Parse(inline) # 0 /\ Parse(inline) = Parse(flag))
<1> DEFINE Level == Parse(inline)
<1>1. \A w : Parse(w) \in 0..5
  BY DEF Parse, EffortForms
<1>2. \A i, j \in 1..5 : Ladder[i] = Ladder[j] => i = j
  BY DEF Ladder
<1>3. \A w : Parse(w) # 0 => /\ Normalize(w) = Ladder[Parse(w)]
                             /\ Parse(Normalize(w)) = Parse(w)
  BY DEF Parse, EffortForms, Normalize, Ladder
<1>4. \A w : Parse(w) = 0 => Normalize(w) = w
  BY DEF Normalize
<1>5. Parse(inline) # 0 => (Normalize(inline) = Normalize(flag) <=> Parse(inline) = Parse(flag))
  <2>1. Parse(inline) # 0 /\ Normalize(inline) = Normalize(flag) => Parse(inline) = Parse(flag)
    BY <1>3, <1>4
  <2>2. Parse(inline) # 0 /\ Parse(inline) = Parse(flag) => Normalize(inline) = Normalize(flag)
    BY <1>3
  <2> QED BY <2>1, <2>2
<1>6. SelectEffort(inline, flag) =
        IF Normalize(inline) # Normalize(flag) THEN Failed("effort_conflict")
        ELSE IF Parse(inline) = 0 THEN Failed("effort_unsupported")
        ELSE Asking(Parse(inline))
  BY DEF SelectEffort
<1>7. /\ Failed("effort_conflict").error # "none"
      /\ Failed("effort_unsupported").error # "none"
      /\ Asking(Parse(inline)).error = "none"
  BY DEF Failed, Asking
<1>8. CASE Parse(inline) = 0
  BY <1>6, <1>7, <1>8
<1>9. CASE Parse(inline) # 0
  BY <1>5, <1>6, <1>7, <1>9
<1> QED BY <1>8, <1>9

(* A synonym of the merged configuration always leads to a model of it, so    *)
(* that an unknown alias is one that nobody configured.                      *)
THEOREM SynonymsLead ==
  ASSUME NEW supplied, DOMAIN supplied \subseteq Key,
         \A k \in DOMAIN Merged(supplied) : Merged(supplied)[k].synonyms \subseteq Key
  PROVE  LET catalog == ModelCatalog(supplied)
         IN  \A s \in DOMAIN catalog.synonyms : catalog.synonyms[s] \in DOMAIN catalog.models
<1> DEFINE all == Merged(supplied)
           Claim(s) == {k \in DOMAIN all : \E t \in all[k].synonyms : Normal[t] = s}
           claimed == {Normal[t] : t \in UNION {all[k].synonyms : k \in DOMAIN all}}
<1>1. DOMAIN all \subseteq Key
  <2>1. DOMAIN all = DOMAIN Shipped \cup DOMAIN supplied
    BY DEF Merged
  <2> QED BY <2>1, KeyAssumption
<1>2. ASSUME NEW s \in claimed
      PROVE  Latest(Claim(s)) \in DOMAIN all
  <2>1. PICK k \in DOMAIN all : \E t \in all[k].synonyms : s = Normal[t]
    BY <1>2
  <2>2. Claim(s) \in SUBSET Key /\ Claim(s) # {}
    BY <1>1, <2>1
  <2>3. Latest(Claim(s)) \in Claim(s)
    BY <2>2, LatestIsOne
  <2> QED BY <2>3
<1>3. /\ ModelCatalog(supplied).synonyms = [s \in claimed |-> Normal[Latest(Claim(s))]]
      /\ DOMAIN ModelCatalog(supplied).models = {Normal[k] : k \in DOMAIN all}
  BY DEF ModelCatalog
<1> HIDE DEF all, Claim, claimed
<1>4. \A s \in claimed : Normal[Latest(Claim(s))] \in {Normal[k] : k \in DOMAIN all}
  BY <1>2
<1> QED BY <1>3, <1>4

(* The shipped `flash`, whose provider refuses tools, is refused under every   *)
(* spelling, synonym and effort until the file names it.                     *)
THEOREM ToollessRefused ==
  ASSUME NEW supplied, NEW key \in Key, NEW inline, NEW flag,
         \A k \in DOMAIN supplied : Normal[k] # "flash",
         Canonical(ModelCatalog(supplied), Normal[key]) = "flash"
  PROVE  Tooled(ResolveModel(ModelCatalog(supplied), key, inline, flag)).error # "none"
<1> DEFINE catalog == ModelCatalog(supplied)
           resolved == ResolveModel(catalog, key, inline, flag)
<1>1. "flash" \in DOMAIN Shipped /\ Shipped["flash"].toolless
  BY DEF Shipped
<1>2. Normal["flash"] = "flash" /\ "flash" \in DOMAIN Merged(supplied)
  BY <1>1, KeyAssumption DEF Merged
<1>3. "flash" \in DOMAIN catalog.models /\ catalog.models["flash"].toolless
  <2>1. Toolless(supplied, "flash")
    BY <1>1, <1>2 DEF Toolless, Overridden
  <2>2. catalog.models = [n \in {Normal[k] : k \in DOMAIN Merged(supplied)} |->
          [ladder |-> Merged(supplied)[Latest({k \in DOMAIN Merged(supplied) : Normal[k] = n})].ladder,
           toolless |-> Toolless(supplied, n)]]
    BY DEF ModelCatalog
  <2>3. "flash" \in {Normal[k] : k \in DOMAIN Merged(supplied)}
    BY <1>2
  <2> QED BY <2>1, <2>2, <2>3
<1> HIDE DEF catalog
<1>4. CASE resolved.error # "none"
  BY <1>4 DEF Tooled, catalog
<1>5. CASE resolved.error = "none"
  <2>1. resolved.toolless = catalog.models["flash"].toolless
    <3>1. SelectEffort(inline, flag).error = "none"
      BY <1>3, <1>5 DEF ResolveModel, catalog
    <3> QED BY <1>3, <1>5, <3>1 DEF ResolveModel, Failed, catalog
  <2> QED BY <1>3, <1>5, <2>1 DEF Tooled, Failed, catalog
<1> QED BY <1>4, <1>5

-----------------------------------------------------------------------------
(* The parser and main.rs step through the arguments together; after each     *)
(* they agree on `--json` and on whether `--` came.                          *)

(* What is read so far. A line whose very first word is `--` is the one       *)
(* exception: the parser takes it for a model, main for the end of options.  *)
ReadAlike ==
  /\ expects \in {"verb", "ref", "session id", "cwd", "display name", "no more", "options",
                  "-e", "-r", "-t", "--since", "text", "nothing"}
  /\ expects = "verb" => ~scan.literal /\ verb # "--"
  /\ expects # "nothing" /\ verb # "--" =>
       /\ scan.json <=> "--json" \in taken
       /\ scan.literal <=> expects = "text"
  /\ scan \in [json : BOOLEAN, help : BOOLEAN, literal : BOOLEAN]

LEMMA ScanStep ==
  ASSUME NEW arg, Scan(arg), ReadAlike
  PROVE  /\ scan' \in [json : BOOLEAN, help : BOOLEAN, literal : BOOLEAN]
         /\ scan.literal => scan'.json = scan.json /\ scan'.literal
         /\ ~scan.literal => /\ scan'.json <=> (scan.json \/ arg = "--json")
                             /\ scan'.literal <=> arg = "--"
BY DEF Scan, ReadAlike

LEMMA ReadStep ==
  ASSUME ReadAlike, NEW arg, Argue(arg)
  PROVE  ReadAlike'
<1>1. Scan(arg)
  BY DEF Argue
<1>2. CASE ReadVerb(arg)
  BY <1>1, <1>2, ScanStep DEF ReadAlike, ReadVerb, Take, Expect, Control
<1>3. CASE ReadReference(arg)
  BY <1>1, <1>3, ScanStep DEF ReadAlike, ReadReference, Expect, Refuse, Refs
<1>4. CASE ReadOperand(arg)
  BY <1>1, <1>4, ScanStep DEF ReadAlike, ReadOperand, Expect, Refuse, Dashed
<1>5. CASE ReadOption(arg)
  <2>0. expects = "options" /\ verb' = verb
    BY <1>5 DEF ReadOption
  <2>1. CASE arg \in Switches /\ Take(arg, "options")
    <3>1. arg # "--"
      BY <2>1 DEF Switches
    <3> QED BY <1>1, <2>0, <2>1, <3>1, ScanStep DEF ReadAlike, Take
  <2>2. CASE arg \in Valued /\ Expect(arg)
    <3>1. arg \in {"-e", "-r", "-t", "--since"}
      BY <2>2 DEF Valued
    <3> QED BY <1>1, <2>0, <2>2, <3>1, ScanStep DEF ReadAlike, Expect
  <2>3. CASE arg = "--" /\ Expect("text")
    BY <1>1, <2>0, <2>3, ScanStep DEF ReadAlike, Expect
  <2>4. CASE arg \notin Dashed /\ Word
    <3>1. arg # "--" /\ arg # "--json"
      BY <2>4 DEF Dashed
    <3> QED BY <1>1, <2>0, <2>4, <3>1, ScanStep DEF ReadAlike, Word
  <2>5. CASE Refuse
    BY <1>1, <2>0, <2>5, ScanStep DEF ReadAlike, Refuse
  <2> QED BY <1>5, <2>1, <2>2, <2>3, <2>4, <2>5 DEF ReadOption
<1>6. CASE ReadText(arg)
  BY <1>1, <1>6, ScanStep DEF ReadAlike, ReadText, Word
<1>7. CASE ReadValue(arg)
  <2>1. CASE Unfit(expects, arg)
    BY <1>1, <1>7, <2>1, ScanStep DEF ReadAlike, ReadValue, Refuse
  <2>2. CASE ~Unfit(expects, arg)
    <3>1. arg # "--" /\ arg # "--json"
      BY <1>7, <2>2 DEF ReadValue, Unfit, Dashed, Positive, Numbers
    <3>2. /\ expects \in {"-e", "-r", "-t", "--since"} /\ verb' = verb
          /\ taken' = taken \cup {expects} /\ expects' = "options"
      BY <1>7, <2>2 DEF ReadValue
    <3>3. "--json" \in taken' <=> "--json" \in taken
      BY <3>2
    <3> QED BY <1>1, <3>1, <3>2, <3>3, ScanStep DEF ReadAlike
  <2> QED BY <2>1, <2>2
<1>8. CASE ReadNothing
  BY <1>1, <1>8, ScanStep DEF ReadAlike, ReadNothing
<1> QED BY <1>2, <1>3, <1>4, <1>5, <1>6, <1>7, <1>8 DEF Argue

(* A command that runs agrees with main on JSON, for any arguments, models    *)
(* and flags, so long as nobody configures a model called `--`.              *)
THEOREM ScannersAlwaysAgree ==
  ASSUME "--" \notin DOMAIN Split,
         \A f \in Files : f # Broken =>
           \A e : Tooled(ResolveModel(ModelCatalog(f), "--", Absent, e)).error = "invalid_model"
  PROVE  LineSpec => []ScannersAgree
<1> DEFINE Runs == (Control \ {"__attach"}) \cup {"dispatch"}
           Inv  == ReadAlike /\ file \in Files /\ ScannersAgree
<1>1. LineInit => Inv
  BY DEF LineInit, ReadAlike, ScannersAgree, Control, Absent
<1>2. ASSUME Inv, [LineNext]_lineVars
      PROVE  Inv'
  <2>1. CASE UNCHANGED lineVars
    BY <1>2, <2>1 DEF ReadAlike, ScannersAgree, lineVars
  <2>2. ASSUME NEW arg, Argue(arg)
        PROVE  Inv'
    <3>1. command' = "none" /\ file' = file
      BY <2>2 DEF Argue
    <3>2. ReadAlike'
      BY <1>2, <2>2, ReadStep
    <3> QED BY <1>2, <3>1, <3>2 DEF ScannersAgree, Control
  <2>3. CASE EndOfLine
    <3>1. ReadAlike' /\ file' \in Files
      BY <1>2, <2>3 DEF ReadAlike, EndOfLine
    <3>2. ASSUME command' \in Runs
          PROVE  scan'.json <=> "--json" \in taken'
      <4>1. command' = Parsed /\ file # Broken /\ UNCHANGED <<scan, taken, verb>>
        BY <2>3, <3>2 DEF EndOfLine, Control
      <4>2. expects \in {"options", "text", "no more"}
        BY <3>2, <4>1 DEF Parsed, Control
      <4>3. verb # "--"
        <5> SUFFICES ASSUME verb = "--" PROVE FALSE
          OBVIOUS
        <5>1. Kind = "dispatch"
          BY DEF Kind, Control
        <5>2. Target = Tooled(ResolveModel(ModelCatalog(file), "--", Absent, effort))
          BY DEF Target
        <5>3. Target.error = "invalid_model"
          BY <1>2, <4>1, <5>2
        <5>4. Parsed = Target.error
          BY <4>2, <5>1, <5>3 DEF Parsed
        <5> QED BY <3>2, <4>1, <5>3, <5>4 DEF Control
      <4> QED BY <1>2, <4>1, <4>2, <4>3 DEF ReadAlike
    <3> QED BY <3>1, <3>2 DEF ScannersAgree
  <2> QED BY <1>2, <2>1, <2>2, <2>3 DEF LineNext
<1>3. Inv => ScannersAgree
  OBVIOUS
<1> QED BY <1>1, <1>2, <1>3, PTL DEF LineSpec

-----------------------------------------------------------------------------
(* The flags that were taken are published, those expected too.               *)

Published ==
  /\ expects = "verb" => taken \subseteq {"--json"}
  /\ Kind # "__attach" => taken \cup ({expects} \cap Dashed) \subseteq Grammar(Kind)

LEMMA KindCases == Kind \in Control \cup {"dispatch"}
  BY DEF Kind

(* The tables of the parsers and of the published grammar are the same.       *)
LEMMA TablesAgree ==
  Kind # "__attach" => Switches \cup Valued = Grammar(Kind) /\ "--json" \in Grammar(Kind)
<1> HIDE DEF Kind
<1>1. CASE Kind = "dispatch"
  BY <1>1 DEF Switches, Valued, Grammar
<1>2. CASE Kind \in Control \ {"ls", "__attach"}
  BY <1>2 DEF Switches, Valued, Grammar, Control
<1>3. CASE Kind = "ls"
  BY <1>3 DEF Switches, Valued, Grammar
<1>4. QED
  BY <1>1, <1>2, <1>3, KindCases

LEMMA PublishedStep ==
  ASSUME Published, NEW arg, Argue(arg)
  PROVE  Published'
<1>1. CASE ReadVerb(arg)
  <2>1. CASE arg = "--json" /\ Take(arg, "verb") /\ UNCHANGED verb
    <3>1. Kind' = Kind
      BY <2>1 DEF Kind
    <3>2. taken' \subseteq {"--json"} /\ expects' = "verb"
      BY <1>1, <2>1 DEF ReadVerb, Take, Published
    <3>3. QED
      BY <3>1, <3>2, TablesAgree DEF Published, Dashed, Grammar
  <2>2. CASE taken' = taken /\ expects' \in {"ref", "options"}
    BY <1>1, <2>2 DEF ReadVerb, Published, Dashed, Grammar
  <2>3. QED
    BY <1>1, <2>1, <2>2 DEF ReadVerb, Expect
<1>2. ASSUME verb' = verb,
             \/ taken' = taken
             \/ taken' = {}
             \/ taken' = taken \cup ({expects} \cap Dashed)
             \/ \E flag \in Switches : taken' = taken \cup {flag},
             expects' # "verb",
             expects' \notin Dashed \/ expects' \in Valued \/ expects' = expects
      PROVE  Published'
  <2>1. Kind' = Kind /\ Grammar(Kind)' = Grammar(Kind)
    BY <1>2 DEF Kind, Grammar
  <2>2. Kind # "__attach" =>
          taken' \subseteq Grammar(Kind) /\ {expects'} \cap Dashed \subseteq Grammar(Kind)
    BY <1>2, TablesAgree DEF Published
  <2>3. QED
    BY <1>2, <2>1, <2>2 DEF Published
<1>3. CASE ReadReference(arg)
  BY <1>2, <1>3 DEF ReadReference, Expect, Refuse, Dashed
<1>4. CASE ReadOperand(arg)
  BY <1>2, <1>4 DEF ReadOperand, Expect, Refuse, Dashed
<1>5. CASE ReadOption(arg)
  <2>0. expects = "options" /\ verb' = verb
    BY <1>5 DEF ReadOption
  <2>1. CASE arg \in Switches /\ Take(arg, "options")
    BY <1>2, <2>0, <2>1 DEF Take, Dashed
  <2>2. CASE arg \in Valued /\ Expect(arg)
    <3>1. arg # "verb"
      BY <2>2 DEF Valued
    <3>2. QED
      BY <1>2, <2>0, <2>2, <3>1 DEF Expect
  <2>3. CASE arg = "--" /\ Expect("text")
    BY <1>2, <2>0, <2>3 DEF Expect, Dashed
  <2>4. CASE Word
    BY <1>2, <2>0, <2>4 DEF Word
  <2>5. CASE Refuse
    BY <1>2, <2>0, <2>5 DEF Refuse, Dashed
  <2>6. QED
    BY <1>5, <2>1, <2>2, <2>3, <2>4, <2>5 DEF ReadOption
<1>6. CASE ReadText(arg)
  BY <1>2, <1>6 DEF ReadText, Word
<1>7. CASE ReadValue(arg)
  <2>1. CASE Unfit(expects, arg)
    BY <1>2, <1>7, <2>1 DEF ReadValue, Refuse, Dashed
  <2>2. CASE ~Unfit(expects, arg)
    <3>1. expects \in Dashed /\ verb' = verb /\ taken' = taken \cup {expects}
            /\ expects' = "options"
      BY <1>7, <2>2 DEF ReadValue, Dashed
    <3>2. QED
      BY <1>2, <3>1 DEF Dashed
  <2>3. QED
    BY <2>1, <2>2
<1>8. CASE ReadNothing
  BY <1>2, <1>8 DEF ReadNothing
<1>9. QED
  BY <1>1, <1>3, <1>4, <1>5, <1>6, <1>7, <1>8 DEF Argue

(* Whatever is typed, a command takes no flag but those that help, schemas and *)
(* the skill publish for it, and each of these is open to it.                *)
THEOREM GrammarIsFollowed == LineSpec => []GrammarIsParsed
<1>1. LineInit => Published
  BY DEF LineInit, Published, Dashed, Kind, Absent
<1>2. Published /\ [LineNext]_lineVars => Published'
  <2> SUFFICES ASSUME Published, [LineNext]_lineVars PROVE Published'
    OBVIOUS
  <2>1. CASE UNCHANGED <<verb, expects, taken>>
    BY <2>1 DEF Published, Kind, Grammar
  <2>2. ASSUME NEW arg, Argue(arg)
        PROVE  Published'
    BY <2>2, PublishedStep
  <2>3. QED
    BY <2>1, <2>2 DEF LineNext, EndOfLine, lineVars
<1>3. Published => GrammarIsParsed
  BY TablesAgree DEF Published, GrammarIsParsed
<1>4. QED
  BY <1>1, <1>2, <1>3, PTL DEF LineSpec

(* The parser's next state, whatever the argument is taken for.              *)
LEMMA ArgueTypes ==
  ASSUME LineTypeOK, NEW arg \in Verb \cup Argument, Argue(arg), expects = "verb" \/ arg \in Argument
  PROVE  LineTypeOK'
<1> USE DEF LineTypeOK
<1>1. scan' \in [json : BOOLEAN, help : BOOLEAN, literal : BOOLEAN]
  <2>1. CASE scan.literal
    BY <2>1 DEF Argue, Scan
  <2>2. CASE ~scan.literal
    <3>1. /\ (scan.json \/ arg = "--json") \in BOOLEAN
          /\ (scan.help \/ arg = "-h") \in BOOLEAN /\ (arg = "--") \in BOOLEAN
      OBVIOUS
    <3>2. QED
      BY <2>2, <3>1 DEF Argue, Scan
  <2>3. QED
    BY <2>1, <2>2
<1>2. /\ UNCHANGED <<file, command>> /\ file \in Files
  BY DEF Argue
<1>3. ASSUME Refuse, verb' = verb PROVE LineTypeOK'
  BY <1>1, <1>2, <1>3 DEF Refuse
<1>4. ASSUME NEW what \in {"session id", "cwd", "display name", "no more", "options", "ref",
                          "-e", "-r", "-t", "--since", "text"},
             Expect(what), verb' \in Verb \cup Argument \cup {Absent}
      PROVE  LineTypeOK'
  BY <1>1, <1>2, <1>4 DEF Expect
<1>5. CASE ReadVerb(arg)
  <2>1. CASE arg = "--json" /\ Take(arg, "verb") /\ UNCHANGED verb
    BY <1>1, <1>2, <2>1 DEF Take, Dashed
  <2>2. CASE arg # "--json" /\ verb' = arg /\ Expect(IF arg \in Control \ {"ls"} THEN "ref" ELSE "options")
    BY <1>4, <2>2
  <2>3. QED
    BY <1>5, <2>1, <2>2 DEF ReadVerb
<1>6. CASE ReadReference(arg)
  BY <1>3, <1>4, <1>6 DEF ReadReference
<1>7. CASE ReadOperand(arg)
  BY <1>3, <1>4, <1>7 DEF ReadOperand
<1>8. CASE ReadOption(arg)
  <2>1. CASE arg \in Switches /\ Take(arg, "options") /\ UNCHANGED verb
    <3>1. Switches \subseteq Dashed
      BY DEF Switches, Dashed
    <3>2. QED
      BY <1>1, <1>2, <2>1, <3>1 DEF Take
  <2>2. CASE arg \in Valued /\ Expect(arg) /\ UNCHANGED verb
    <3>1. Valued \subseteq {"-e", "-r", "-t", "--since"}
      BY DEF Valued
    <3>2. QED
      BY <1>4, <2>2, <3>1
  <2>3. CASE Expect("text") /\ UNCHANGED verb
    BY <1>4, <2>3
  <2>4. CASE Word /\ UNCHANGED verb
    BY <1>1, <1>2, <2>4 DEF Word
  <2>5. CASE Refuse /\ UNCHANGED verb
    BY <1>3, <2>5
  <2>6. QED
    BY <1>8, <2>1, <2>2, <2>3, <2>4, <2>5 DEF ReadOption
<1>9. CASE ReadText(arg)
  BY <1>1, <1>2, <1>9 DEF ReadText, Word
<1>10. CASE ReadValue(arg)
  <2>1. expects \in {"-e", "-r", "-t", "--since"} /\ verb' = verb /\ arg \in Argument
    BY <1>10 DEF ReadValue
  <2>2. CASE Unfit(expects, arg)
    BY <1>3, <1>10, <2>2 DEF ReadValue
  <2>3. CASE ~Unfit(expects, arg)
    <3>1. /\ taken' = taken \cup {expects} /\ expects' = "options"
          /\ effort' \in {arg, effort} /\ UNCHANGED worded
      BY <1>10, <2>3 DEF ReadValue
    <3>2. taken' \subseteq Dashed
      BY <2>1, <3>1 DEF Dashed
    <3>3. QED
      BY <1>1, <1>2, <2>1, <3>1, <3>2
  <2>4. QED
    BY <2>2, <2>3
<1>11. CASE ReadNothing
  BY <1>1, <1>2, <1>11 DEF ReadNothing
<1>12. QED
  BY <1>5, <1>6, <1>7, <1>8, <1>9, <1>10, <1>11 DEF Argue

LEMMA InitLine == LineInit => LineTypeOK
<1> SUFFICES ASSUME LineInit PROVE LineTypeOK
  OBVIOUS
<1>1. [json |-> FALSE, help |-> FALSE, literal |-> FALSE]
        \in [json : BOOLEAN, help : BOOLEAN, literal : BOOLEAN]
  OBVIOUS
<1>2. worded \in BOOLEAN
  BY DEF LineInit
<1>3. QED
  BY <1>1, <1>2 DEF LineInit, LineTypeOK

LEMMA NextLine == LineTypeOK /\ [LineNext]_lineVars => LineTypeOK'
<1> SUFFICES ASSUME LineTypeOK, [LineNext]_lineVars PROVE LineTypeOK'
  OBVIOUS
<1>1. CASE UNCHANGED <<file, verb, expects, worded, taken, effort, scan>>
  BY <1>1 DEF LineTypeOK
<1>2. ASSUME NEW arg \in Verb \cup Argument, Argue(arg), expects = "verb" \/ arg \in Argument
      PROVE  LineTypeOK'
  BY <1>2, ArgueTypes
<1>3. QED
  BY <1>1, <1>2 DEF LineNext, EndOfLine, lineVars

(* The types of a line, whatever may be typed and configured: the parser      *)
(* never waits for the value of anything but the four flags that have one.    *)
THEOREM LineTypes == LineSpec => []LineTypeOK
  BY InitLine, NextLine, PTL DEF LineSpec

-----------------------------------------------------------------------------
(* The parts that are functions.                                            *)

LEMMA Divided ==
  ASSUME NEW n \in Nat, n > 0, NEW t \in Nat
  PROVE  /\ t \div n \in Nat
         /\ t - (t \div n) * n \in Nat /\ t - (t \div n) * n < n
BY SMT

LEMMA Reduced ==
  ASSUME NEW n \in Nat, n > 0, NEW w \in Nat, NEW y \in Nat, y < n
  PROVE  (w * n + y) % n = y
BY SMT

LEMMA ClocksAreMany == Clocks \in Nat /\ Clocks > 0
  BY SMT DEF Clocks, Ticks

(* What the low 48 bits keep: the reading within its window, and the count.  *)
LEMMA LowBits ==
  ASSUME NEW t \in Nat, NEW c \in 1..(Ticks - 1)
  PROVE  Prefix([last |-> t, counter |-> c]) = (t - Window(t) * Clocks) * Ticks + c
<1> DEFINE w == Window(t)
           r == t - w * Clocks
<1>1. w \in Nat /\ r \in Nat /\ r < Clocks /\ Clocks \in Nat /\ Clocks > 0
  BY ClocksAreMany, Divided DEF Window
<1>2. c \in Nat /\ c < 4096
  BY DEF Ticks
<1>3. t = w * Clocks + r
  BY <1>1
<1> HIDE DEF w, r
<1> DEFINE n == 4096 * Clocks
           y == r * 4096 + c
<1>4. n \in Nat /\ n > 0 /\ w \in Nat /\ y \in Nat /\ y < n
  BY <1>1, <1>2, SMT
<1>5. t * 4096 + c = w * n + y
  BY <1>1, <1>2, <1>3, SMT
<1>6. Prefix([last |-> t, counter |-> c]) = (t * 4096 + c) % n
  BY DEF Prefix, Ticks
<1> HIDE DEF n, y
<1>7. (w * n + y) % n = y
  BY <1>4, Reduced
<1> QED BY <1>5, <1>6, <1>7 DEF w, r, y, Ticks

(* A generator mints ids in ascending order, all of them valid, while its      *)
(* clock does not go back, mints fewer than 4096 of them in one millisecond    *)
(* and stays in one window of 2^36 milliseconds of Unix time.                 *)
THEOREM Ascending ==
  ASSUME NEW t \in Nat, NEW c \in 1..(Ticks - 1), NEW now \in Nat,
         t <= now, Window(now) = Window(t),
         Count([last |-> t, counter |-> c], now) < Ticks
  PROVE  LET before == [last |-> t, counter |-> c]
         IN  /\ Prefix(before) < Prefix(Minted(before, now))
             /\ Valid(Prefix(Minted(before, now)))
             /\ Valid(Prefix(Minted(Fresh, now)))
<1> DEFINE n == Count([last |-> t, counter |-> c], now)
           Ahead == n \in 1..4095 /\ (t < now \/ c < n)
           from == Window(t) * Clocks
<1>0. c \in 1..4095 /\ t \in Nat /\ now \in Nat /\ t <= now
  BY DEF Ticks
<1>1. Ahead
  <2>1. t = now => Ahead
    BY DEF Count, Ticks
  <2>2. t < now => Ahead
    BY DEF Count
  <2>3. t = now \/ t < now
    BY <1>0
  <2> HIDE DEF Ahead
  <2> QED BY <2>1, <2>2, <2>3
<1> HIDE DEF n
<1>2. /\ from \in Int /\ Clocks \in Nat /\ Clocks > 0
      /\ t - from \in Nat /\ now - from \in Nat /\ now - from < Clocks
  BY <1>0, ClocksAreMany, Divided DEF Window
<1>3. Prefix([last |-> t, counter |-> c]) = (t - from) * Ticks + c
  BY LowBits
<1>4. /\ Prefix(Minted([last |-> t, counter |-> c], now)) = (now - from) * Ticks + n
      /\ Prefix(Minted(Fresh, now)) = (now - from) * Ticks + 1
  <2>1. /\ Minted([last |-> t, counter |-> c], now) = [last |-> now, counter |-> n]
        /\ Minted(Fresh, now) = [last |-> now, counter |-> 1]
    BY <1>0 DEF Minted, n, Fresh, Count
  <2>2. n \in 1..(Ticks - 1) /\ 1 \in 1..(Ticks - 1)
    BY <1>1 DEF Ticks
  <2> QED BY <2>1, <2>2, LowBits
<1> HIDE DEF from
<1>5. (t - from) * 4096 + c < (now - from) * 4096 + n
  BY <1>0, <1>1, <1>2, SMT
<1>6. /\ (now - from) * 4096 + n \in 1..(4096 * Clocks - 1)
      /\ (now - from) * 4096 + 1 \in 1..(4096 * Clocks - 1)
  BY <1>0, <1>1, <1>2, SMT
<1> QED BY <1>3, <1>4, <1>5, <1>6 DEF Valid, Ticks

(* From one window to the next they descend: what is minted within 2^36        *)
(* milliseconds after an id, but in the window that follows, sorts before it.  *)
THEOREM DescendingAtTheWrap ==
  ASSUME NEW t \in Nat, NEW c \in 1..(Ticks - 1), NEW now \in Nat,
         now - t < Clocks, Window(now) = Window(t) + 1
  PROVE  LET before == [last |-> t, counter |-> c]
         IN  Prefix(Minted(before, now)) < Prefix(before)
<1> DEFINE from == Window(t) * Clocks
<1>1. /\ Clocks \in Nat /\ Clocks > 0 /\ Window(t) \in Nat /\ from \in Int
      /\ t - from \in Nat /\ 4096 = Ticks
  BY ClocksAreMany, Divided DEF Window, Ticks
<1>2. t # now
  BY <1>1
<1>3. Minted([last |-> t, counter |-> c], now) = [last |-> now, counter |-> 1]
  BY <1>2 DEF Minted, Count
<1>4. Prefix([last |-> now, counter |-> 1]) = (now - Window(now) * Clocks) * Ticks + 1
  <2>1. 1 \in 1..(Ticks - 1)
    BY DEF Ticks
  <2> QED BY <2>1, LowBits
<1>5. Window(now) * Clocks = from + Clocks
  BY <1>1, SMT
<1>6. Prefix([last |-> t, counter |-> c]) = (t - from) * Ticks + c
  BY LowBits
<1> HIDE DEF from
<1>7. (now - (from + Clocks)) * 4096 + 1 < (t - from) * 4096 + c
  <2>1. c \in Nat /\ c > 0
    BY DEF Ticks
  <2>2. now - (from + Clocks) < t - from
    BY <1>1
  <2> QED BY <1>1, <2>1, <2>2, SMT
<1> QED BY <1>1, <1>3, <1>4, <1>5, <1>6, <1>7

-----------------------------------------------------------------------------
(* The leap days before a year and in it: what adding one to a year does to     *)
(* the quotients.                                                           *)
LEMMA YearStep ==
  ASSUME NEW y \in Int
  PROVE  /\ (y + 1) % 400 = (IF y % 400 = 399 THEN 0 ELSE (y % 400) + 1)
         /\ (y + 1) \div 400 = (IF y % 400 = 399 THEN y \div 400 + 1 ELSE y \div 400)
         /\ y % 400 \in 0..399 /\ y \div 400 \in Int
OBVIOUS

LEMMA LeapInEra ==
  ASSUME NEW y \in Int
  PROVE  IsLeap(y) <=> (y % 400) % 4 = 0 /\ ((y % 400) % 100 # 0 \/ y % 400 = 0)
BY DEF IsLeap

(* A leap year or not, the last day of February is followed by the first day of *)
(* the next year of the calculation.                                        *)
LEMMA AcrossFebruary ==
  ASSUME NEW y \in Int
  PROVE  DayOfCalendar(y, 0) = DayOfCalendar(y - 1, 336 + DaysInMonth(y, 2)) + 1
<1> DEFINE e == (y - 1) \div 400
           r == (y - 1) % 400
<1>1. e \in Int /\ r \in 0..399
  BY SMT
<1>2. /\ y % 400 = (IF r = 399 THEN 0 ELSE r + 1)
      /\ y \div 400 = (IF r = 399 THEN e + 1 ELSE e)
  BY SMT, YearStep, y - 1 \in Int, (y - 1) + 1 = y
<1> HIDE DEF e, r
<1>a. /\ DayOfCalendar(y, 0) = (y \div 400) * 146097 + DayOfEra(y % 400, 0)
      /\ DayOfCalendar(y - 1, 336 + DaysInMonth(y, 2))
           = e * 146097 + DayOfEra(r, 336 + DaysInMonth(y, 2))
  BY SMT DEF DayOfCalendar, e, r
<1>3. CASE r = 399
  <2>1. y % 400 = 0 /\ y \div 400 = e + 1 /\ DaysInMonth(y, 2) = 29
    BY SMT, <1>2, <1>3, LeapInEra DEF DaysInMonth
  <2>2. DayOfEra(0, 0) = 0 /\ DayOfEra(399, 365) = 146096
    BY SMT DEF DayOfEra
  <2> QED BY SMT, <1>1, <1>3, <1>a, <2>1, <2>2
<1>4. CASE r # 399
  <2>1. y % 400 = r + 1 /\ y \div 400 = e
    BY SMT, <1>2, <1>4
  <2>2. DaysInMonth(y, 2) = IF (r + 1) % 4 = 0 /\ (r + 1) % 100 # 0 THEN 29 ELSE 28
    BY SMT, <1>1, <1>4, <2>1, LeapInEra DEF DaysInMonth
  <2>3. (r + 1) \div 4 = r \div 4 + (IF (r + 1) % 4 = 0 THEN 1 ELSE 0)
    BY SMT, <1>1
  <2>4. (r + 1) \div 100 = r \div 100 + (IF (r + 1) % 100 = 0 THEN 1 ELSE 0)
    BY SMT, <1>1
  <2>5. (r + 1) % 100 = 0 => (r + 1) % 4 = 0
    BY SMT, <1>1
  <2>6. DayOfEra(r + 1, 0) = DayOfEra(r, 336 + DaysInMonth(y, 2)) + 1
    BY SMT, <1>1, <2>2, <2>3, <2>4, <2>5 DEF DayOfEra
  <2>7. DayOfEra(r, 336 + DaysInMonth(y, 2)) \in Int
    BY SMT, <1>1, <2>2 DEF DayOfEra
  <2> QED BY SMT, <1>1, <1>a, <2>1, <2>6, <2>7
<1> QED BY SMT, <1>3, <1>4

(* Within a year of the calculation the days run on from month to month.       *)
LEMMA AcrossMonths ==
  ASSUME NEW y \in Int, NEW m \in 1..12, m # 2
  PROVE  DayOfYear(IF m = 12 THEN 1 ELSE m + 1, 1) = DayOfYear(m, DaysInMonth(y, m)) + 1
BY SMT DEF DayOfYear, ShiftedMonth, DaysInMonth

LEMMA WithinMonth ==
  ASSUME NEW m \in 1..12, NEW d \in Nat
  PROVE  DayOfYear(m, d) \in Int /\ DayOfYear(m, d + 1) = DayOfYear(m, d) + 1
BY SMT DEF DayOfYear, ShiftedMonth

LEMMA DayAfter ==
  ASSUME NEW y \in Int, NEW n \in Int
  PROVE  /\ DayOfCalendar(y, n) \in Int
         /\ DayOfCalendar(y, n + 1) = DayOfCalendar(y, n) + 1
BY SMT, YearStep DEF DayOfCalendar, DayOfEra

(* failure.rs, days_from_civil: the number of the first of January 1970 is 0,  *)
(* and every date has the number after that of the day before, over the ends    *)
(* of months, leap years and centuries alike. So it counts the days since the   *)
(* epoch, for every year.                                                   *)
THEOREM DaysAreCounted ==
  ASSUME NEW y \in Int, NEW m \in 1..12, NEW d \in 1..DaysInMonth(y, m)
  PROVE  LET next == NextDay(y, m, d)
         IN  /\ DaysFromCivil(1970, 1, 1) = 0
             /\ DaysFromCivil(next[1], next[2], next[3]) = DaysFromCivil(y, m, d) + 1
<1> DEFINE next == NextDay(y, m, d)
           Days(adjusted, n) == DayOfCalendar(adjusted, n) - 719468
<1>0. d \in Nat /\ DaysInMonth(y, m) \in {28, 29, 30, 31}
  BY SMT DEF DaysInMonth
<1>1. DaysFromCivil(1970, 1, 1) = 0
  BY SMT DEF DaysFromCivil, DayOfCalendar, DayOfEra, DayOfYear, ShiftedMonth, AdjustedYear
<1>2. ASSUME NEW a \in Int, NEW n \in Int
      PROVE  Days(a, n + 1) = Days(a, n) + 1
  BY SMT, DayAfter
<1>3. DaysFromCivil(y, m, d) = Days(AdjustedYear(y, m), DayOfYear(m, d))
  BY SMT DEF DaysFromCivil
<1>4. AdjustedYear(y, m) \in Int /\ DayOfYear(m, d) \in Int
  <2>1. AdjustedYear(y, m) \in Int
    BY SMT DEF AdjustedYear
  <2>2. DayOfYear(m, d) \in Int
    BY <1>0, WithinMonth, Zenon
  <2> QED BY <2>1, <2>2
<1>5. CASE d < DaysInMonth(y, m)
  <2>1. next = <<y, m, d + 1>>
    BY SMT, <1>5 DEF NextDay
  <2>2. DaysFromCivil(y, m, d + 1) = Days(AdjustedYear(y, m), DayOfYear(m, d) + 1)
    BY SMT, <1>0, WithinMonth DEF DaysFromCivil
  <2> QED BY SMT, <1>1, <1>2, <1>3, <1>4, <2>1, <2>2
<1>6. CASE d = DaysInMonth(y, m) /\ m # 2
  <2> DEFINE month == IF m = 12 THEN 1 ELSE m + 1
             year == IF m = 12 THEN y + 1 ELSE y
  <2>1. next = <<year, month, 1>>
    BY SMT, <1>6 DEF NextDay
  <2>2. AdjustedYear(year, month) = AdjustedYear(y, m)
    BY SMT, <1>6 DEF AdjustedYear
  <2>3. DayOfYear(month, 1) = DayOfYear(m, d) + 1
    BY SMT, <1>6, AcrossMonths
  <2>4. DaysFromCivil(year, month, 1) = Days(AdjustedYear(y, m), DayOfYear(m, d) + 1)
    BY SMT, <2>2, <2>3 DEF DaysFromCivil
  <2> QED BY SMT, <1>1, <1>2, <1>3, <1>4, <2>1, <2>4
<1>7. CASE d = DaysInMonth(y, m) /\ m = 2
  <2>1. next = <<y, 3, 1>>
    BY SMT, <1>7 DEF NextDay
  <2>2. AdjustedYear(y, 3) = y /\ AdjustedYear(y, 2) = y - 1
    BY SMT DEF AdjustedYear
  <2>3. DayOfYear(3, 1) = 0 /\ DayOfYear(2, d) = 336 + DaysInMonth(y, 2)
    BY SMT, <1>0, <1>7 DEF DayOfYear, ShiftedMonth
  <2>4. DaysFromCivil(y, 3, 1) = Days(y, 0)
    BY SMT, <2>2, <2>3 DEF DaysFromCivil
  <2>5. DaysFromCivil(y, m, d) = Days(y - 1, 336 + DaysInMonth(y, 2))
    BY SMT, <1>3, <1>7, <2>2, <2>3
  <2>6. Days(y, 0) = Days(y - 1, 336 + DaysInMonth(y, 2)) + 1
    <3> DEFINE n == 336 + DaysInMonth(y, 2)
    <3>1. y - 1 \in Int /\ n \in Int
      BY <1>0, <1>7
    <3>2. DayOfCalendar(y, 0) = DayOfCalendar(y - 1, n) + 1
      BY AcrossFebruary
    <3> HIDE DEF n
    <3>3. DayOfCalendar(y - 1, n) \in Int
      <4> DEFINE x == y - 1
      <4>1. x \in Int BY <3>1
      <4> HIDE DEF x
      <4>2. DayOfCalendar(x, n) \in Int
        BY <4>1, <3>1, DayAfter
      <4> QED BY <4>2 DEF x
    <3>4. DayOfCalendar(y, 0) \in Int
      BY DayAfter
    <3>5. Days(y, 0) = Days(y - 1, n) + 1
      BY SMT, <3>2, <3>3, <3>4
    <3> QED BY <3>5 DEF n
  <2> QED BY SMT, <1>1, <2>1, <2>4, <2>5, <2>6
<1> QED BY SMT, <1>0, <1>5, <1>6, <1>7
----------------------------------------------------------------------------
(* The decoder refuses nothing that the schema allows, and allows nothing that *)
(* the schema refuses: an implementer that keeps to what it was told is not    *)
(* refused for its shape.                                                     *)
THEOREM ImplJudgesAgree ==
  ASSUME NEW reply \in ImplReply
  PROVE  ImplSchema(reply) <=> ImplRefused(reply) = "nothing"
<1>1. ASSUME NEW i \in DOMAIN reply.files
      PROVE  FileAllowed(reply.files[i]) <=> ~FileRefused(reply.files[i])
  <2>1. PICK reported \in ReportedFile : reported = reply.files[i]
    BY DEF ImplReply
  <2>2. reported.chars \in Nat
    BY DEF ReportedFile
  <2>3. FileAllowed(reported) <=> ~FileRefused(reported)
    BY <2>2 DEF FileAllowed, FileRefused
  <2> QED BY <2>1, <2>3
<1>2. Len(reply.files) \in Nat /\ reply.note.chars \in Nat
  BY DEF ImplReply, Text
<1>3. CASE \A i \in DOMAIN reply.files : ~FileRefused(reply.files[i])
  BY <1>1, <1>2, <1>3 DEF ImplSchema, ImplRefused
<1>4. CASE \E i \in DOMAIN reply.files : FileRefused(reply.files[i])
  BY <1>1, <1>4 DEF ImplSchema, ImplRefused
<1> QED BY <1>3, <1>4

(* For a review that holds for findings whose line fits into 32 bits: the      *)
(* schema bounds a line only from below. A note that is given as null, which   *)
(* the decoder takes for an absent one, is not distinguished here.            *)
THEOREM ReviewJudgesAgree ==
  ASSUME NEW reply \in ReviewReply,
         MaxLine \in Nat,
         \A i \in DOMAIN reply.findings : reply.findings[i].line <= MaxLine
  PROVE  ReviewSchema(reply) <=> ReviewRefused(reply) = "nothing"
<1>1. ASSUME NEW i \in DOMAIN reply.findings
      PROVE  FindingAllowed(reply.findings[i]) <=> ~FindingRefused(reply.findings[i])
  <2>1. reply.findings[i] \in ReviewFinding
    BY DEF ReviewReply
  <2> QED BY <2>1 DEF ReviewFinding, Text, FindingAllowed, FindingRefused
<1>2. Len(reply.findings) \in Nat /\ (reply.note # Null => reply.note.chars \in Nat)
  BY DEF ReviewReply, Text
<1>3. CASE \A i \in DOMAIN reply.findings : ~FindingRefused(reply.findings[i])
  BY <1>1, <1>2, <1>3 DEF ReviewSchema, ReviewRefused
<1>4. CASE \E i \in DOMAIN reply.findings : FindingRefused(reply.findings[i])
  BY <1>1, <1>4 DEF ReviewSchema, ReviewRefused
<1> QED BY <1>3, <1>4

(* A reply that says done and passes the floor has said something: a clean     *)
(* review has a note, and one with findings tells what is wrong and what to do. *)
THEOREM DoneSpeaks ==
  ASSUME NEW reply \in ReviewReply, reply.status = "done", ReviewFloor(reply)
  PROVE  \/ reply.note # Null /\ reply.note.words >= 15
         \/ \E i \in DOMAIN reply.findings :
              reply.findings[i].summary.words >= 6 /\ reply.findings[i].fix.words >= 6
<1>1. CASE reply.findings = <<>>
  BY <1>1 DEF ReviewFloor
<1>2. CASE reply.findings # <<>>
  <2>1. 1 \in DOMAIN reply.findings
    BY <1>2 DEF ReviewReply
  <2> QED BY <2>1 DEF ReviewFloor
<1> QED BY <1>1, <1>2
=============================================================================
