------------------------------ MODULE Resolution ------------------------------
(***************************************************************************)
(* From a model alias and an effort to a model and the variant it is asked   *)
(* for: the catalog of crates/oca-core/src/resolver.rs and the configuration *)
(* of crates/oca-state/src/config.rs that it is built from.                  *)
(*                                                                         *)
(* An effort is the spelling that was given, without the blanks around it    *)
(* and in lower case, which is how every comparison of the code takes it.    *)
(***************************************************************************)
EXTENDS Naturals, Sequences, TLC

CONSTANTS Key,     \* the spellings of a model's alias, in files and on the command line
          Normal,  \* the spelling the catalog compares: trimmed, in lower case
          Rank     \* how far a spelling stands from the end of a BTreeMap

-----------------------------------------------------------------------------
(* Efforts *)

Ladder == <<"low", "medium", "high", "xhigh", "max">>
High == 3

(* Effort::parse: the level a spelling stands for, 0 for none.               *)
EffortForms ==
  [l |-> 1, low |-> 1, m |-> 2, medium |-> 2, h |-> 3, high |-> 3,
   x |-> 4, xhigh |-> 4, max |-> 5]
Parse(word) == IF word \in DOMAIN EffortForms THEN EffortForms[word] ELSE 0

(* normalize_effort: two spellings of one level are the same effort, and a    *)
(* word that is none is only itself.                                         *)
Normalize(word) == IF Parse(word) = 0 THEN word ELSE Ladder[Parse(word)]

(* The rungs of a ladder that stand for a level; config.rs takes any word.   *)
Rungs(ladder) == {i \in DOMAIN ladder : Parse(ladder[i]) # 0}

NoVariant == "none"

IsFirst(i, S) == i \in S /\ \A j \in S : i <= j
IsLast(i, S)  == i \in S /\ \A j \in S : j <= i

(* resolve_variant: the first rung of the level itself; the top rung instead *)
(* only for a request above `high`.                                          *)
Variant(requested, ladder) ==
  LET exact == {i \in Rungs(ladder) : Parse(ladder[i]) = requested}
  IN  IF exact # {} THEN ladder[CHOOSE i \in exact : IsFirst(i, exact)]
      ELSE IF Rungs(ladder) # {} /\ requested > High
           THEN ladder[CHOOSE i \in Rungs(ladder) : IsLast(i, Rungs(ladder))]
           ELSE NoVariant

Absent == "absent"
Failed(code)  == [error |-> code]
Asking(level) == [error |-> "none", level |-> level]

(* select_effort: inline is what follows the colon, flag the value of `-e`.   *)
(* Two that differ conflict, before either is known to be an effort.         *)
SelectEffort(inline, flag) ==
  LET given == IF inline # Absent THEN inline ELSE flag
  IN  IF given = Absent THEN Failed("effort_required")
      ELSE IF inline # Absent /\ flag # Absent /\ Normalize(inline) # Normalize(flag)
           THEN Failed("effort_conflict")
      ELSE IF Parse(given) = 0 THEN Failed("effort_unsupported")
      ELSE Asking(Parse(given))

-----------------------------------------------------------------------------
(* The catalog: models and synonyms under normal names.                      *)

(* resolve_model: a synonym is followed once, and before any model of that    *)
(* name is looked for; the name is judged before the effort.                 *)
Canonical(catalog, name) ==
  IF name \in DOMAIN catalog.synonyms THEN catalog.synonyms[name] ELSE name

ResolveModel(catalog, key, inline, flag) ==
  LET name   == Canonical(catalog, Normal[key])
      model  == catalog.models[name]
      effort == SelectEffort(inline, flag)
  IN  IF name \notin DOMAIN catalog.models THEN Failed("invalid_model")
      ELSE IF effort.error # "none" THEN effort
      ELSE IF Variant(effort.level, model.ladder) = NoVariant
           THEN Failed("effort_unsupported")
      ELSE [error |-> "none", name |-> name, level |-> effort.level,
            variant |-> Variant(effort.level, model.ladder), toolless |-> model.toolless]

(* validate_tooled: a dispatch always sends tools.                           *)
Tooled(resolved) ==
  IF resolved.error = "none" /\ resolved.toolless
  THEN Failed("model_unsupported_tooled") ELSE resolved

-----------------------------------------------------------------------------
(* The configuration: what config.toml supplies, over the compiled defaults. *)

(* DEFAULT_MODEL_DEFINITIONS *)
Complete == [ladder |-> Ladder, synonyms |-> {}, toolless |-> FALSE]
Shipped ==
  [luna |-> Complete, sol |-> Complete, terra |-> Complete,
   flash |-> [ladder |-> <<"high", "max">>, synonyms |-> {"deepseek"}, toolless |-> TRUE]]

ASSUME KeyAssumption ==
  /\ Normal \in [Key -> Key]
  /\ Rank \in [Key -> Nat]
  /\ \A k, l \in Key : Rank[k] = Rank[l] => k = l
  /\ \A k \in Key : Normal[Normal[k]] = Normal[k]
  /\ \A k \in DOMAIN Shipped :
       /\ k \in Key /\ Normal[k] = k
       /\ \A s \in Shipped[k].synonyms : s \in Key /\ Normal[s] = s

(* ModelConfig::default, for the fields an added model leaves out.           *)
Blank == [ladder |-> <<>>, synonyms |-> {}, toolless |-> FALSE]

(* from_toml_str and merge_tables: a table is laid over the default table of  *)
(* the same spelling, field by field; every other default stays.             *)
Merged(supplied) ==
  [k \in DOMAIN Shipped \cup DOMAIN supplied |->
     LET base == IF k \in DOMAIN Shipped THEN Shipped[k] ELSE Blank
     IN  IF k \in DOMAIN supplied THEN supplied[k] @@ base ELSE base]

(* OcaConfig::model_catalog inserts the models in the order of their         *)
(* spellings: of two with one normal name, and of two claims to a synonym,    *)
(* the last stays. A model the file names, in any spelling, runs tools.      *)
Latest(keys) == CHOOSE k \in keys : \A l \in keys : Rank[k] <= Rank[l]
Overridden(supplied, name) == \E k \in DOMAIN supplied : Normal[k] = name
Toolless(supplied, name) ==
  /\ ~Overridden(supplied, name)
  /\ \E k \in DOMAIN Shipped : Normal[k] = name /\ Shipped[k].toolless

ModelCatalog(supplied) ==
  LET all      == Merged(supplied)
      Named(n) == {k \in DOMAIN all : Normal[k] = n}
      Claim(s) == {k \in DOMAIN all : \E t \in all[k].synonyms : Normal[t] = s}
  IN  [models |-> [n \in {Normal[k] : k \in DOMAIN all} |->
                     [ladder |-> all[Latest(Named(n))].ladder,
                      toolless |-> Toolless(supplied, n)]],
       synonyms |-> [s \in {Normal[t] : t \in UNION {all[k].synonyms : k \in DOMAIN all}} |->
                       Normal[Latest(Claim(s))]]]
=============================================================================
