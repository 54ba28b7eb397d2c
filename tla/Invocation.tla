------------------------------ MODULE Invocation ------------------------------
(***************************************************************************)
(* One invocation of oca, from its arguments to a command or an error:       *)
(* crates/oca-cli/src/lib.rs, which parses them, and main.rs, which looks     *)
(* through the same arguments for `--json` and `--help` on its own, before    *)
(* and whether or not they parse. The two read along here: an argument is     *)
(* whatever the user types next, and the line may end anywhere.               *)
(*                                                                         *)
(* Of a text only whether it is empty is kept, of the long and the short      *)
(* spelling of a flag only the short one.                                    *)
(***************************************************************************)
EXTENDS Resolution

CONSTANTS Verb,       \* what may be typed for a command
          Argument,   \* what may be typed elsewhere, and before it
          Split,      \* the arguments with a colon: what stands before and after it
          Broken,     \* a config.toml that does not load
          Files       \* what config.toml may supply, or Broken

ASSUME ArgumentAssumption == Verb \cup Argument \subseteq Key

VARIABLES
  file,      \* the configuration of this invocation
  verb,      \* the command, Absent before it is read
  expects,   \* what the parser takes the next argument for
  worded,    \* the trailing text is not empty
  taken,     \* the flags the parser has taken, and Absent or the value of `-e`
  effort,
  scan,      \* main's own reading: json, help, and whether `--` came yet
  command     \* "none" while the line is typed, then a command, help or an error

lineVars == <<file, verb, expects, worded, taken, effort, scan, command>>


(* is_ok of a parsed number or ref id, for the arguments in use.             *)
Positive == {"7"}
Numbers  == {"0", "7"}
Refs     == {"w4f2a1"}
Dashed   == {"--", "--json", "-e", "-r", "-w", "-b", "--headless", "-t", "--since",
             "--all", "--blocked", "--count", "-h", "-?"}

-----------------------------------------------------------------------------
(* The grammar that is published to help, schemas and the skill.             *)
Grammar(of) ==
  {"--json"} \cup
    CASE of = "dispatch" -> {"-e", "-r", "-w", "-b", "--headless"}
      [] of = "m"        -> {"-e"}
      [] of = "f"        -> {"-t"}
      [] of = "ls"       -> {"--all", "--blocked", "--count"}
      [] of = "events"   -> {"--since"}
      [] OTHER            -> {}

Control == {"m", "q", "f", "k", "ls", "events", "push", "pr", "__attach"}

(* Exact tokens are verbs; anything else is a model to dispatch to.          *)
Kind == IF verb \in Control THEN verb ELSE "dispatch"

(* The flags of each parser, without and with a value.                       *)
Switches ==
  CASE Kind = "dispatch" -> {"--json", "-w", "-b", "--headless"}
    [] Kind = "ls"       -> {"--json", "--all", "--blocked", "--count"}
    [] OTHER             -> {"--json"}

(* Mutant of Valued: q takes the effort that only m can honour.              *)
ValuedWithQueue ==
  CASE Kind = "dispatch" -> {"-e", "-r"}
    [] Kind \in {"m", "q"} -> {"-e"}
    [] Kind = "f"        -> {"-t"}
    [] Kind = "events"   -> {"--since"}
    [] OTHER             -> {}

Valued ==
  CASE Kind = "dispatch" -> {"-e", "-r"}
    [] Kind = "m"        -> {"-e"}
    [] Kind = "f"        -> {"-t"}
    [] Kind = "events"   -> {"--since"}
    [] OTHER             -> {}
TakesText == Kind \in {"dispatch", "m", "q"}

LineInit ==
  /\ file \in Files
  /\ verb = Absent /\ expects = "verb" /\ worded = FALSE
  /\ taken = {} /\ effort = Absent
  /\ scan = [json |-> FALSE, help |-> FALSE, literal |-> FALSE]
  /\ command = "none"

-----------------------------------------------------------------------------
(* main.rs: option_before_end, twice.                                       *)
Scan(arg) ==
  scan' = IF scan.literal THEN scan
          ELSE [json |-> scan.json \/ arg = "--json", help |-> scan.help \/ arg = "-h",
                literal |-> arg = "--"]

Expect(what) == expects' = what /\ UNCHANGED <<worded, taken, effort>>
Refuse ==     \* an error discards what was read
  expects' = "nothing" /\ worded' = FALSE /\ taken' = {} /\ effort' = Absent
Take(flag, next) ==
  /\ expects' = next /\ taken' = taken \cup {flag}
  /\ UNCHANGED <<worded, effort>>

(* parse_arguments: leading `--json`s are global, whatever the command.      *)
ReadVerb(arg) ==
  /\ expects = "verb"
  /\ \/ arg = "--json" /\ Take(arg, "verb") /\ UNCHANGED verb
     \/ /\ arg # "--json" /\ verb' = arg
        /\ Expect(IF arg \in Control \ {"ls"} THEN "ref" ELSE "options")

(* required_reference *)
ReadReference(arg) ==
  /\ expects = "ref" /\ UNCHANGED verb
  /\ IF arg \in Refs THEN Expect(IF Kind = "__attach" THEN "session id" ELSE "options")
     ELSE Refuse

(* parse_attach: three more operands, and nothing after them.                *)
ReadOperand(arg) ==
  /\ expects \in {"session id", "cwd", "display name", "no more"} /\ UNCHANGED verb
  /\ IF arg \in Dashed \/ expects = "no more" THEN Refuse
     ELSE Expect(CASE expects = "session id" -> "cwd"
                   [] expects = "cwd" -> "display name"
                   [] OTHER -> "no more")

(* The loops of parse_dispatch, parse_message, parse_follow, parse_list,      *)
(* parse_events and parse_json_only.                                        *)
Word == worded' = TRUE /\ UNCHANGED <<expects, taken, effort>>

ReadOption(arg) ==
  /\ expects = "options" /\ UNCHANGED verb
  /\ \/ arg \in Switches /\ Take(arg, "options")
     \/ arg \in Valued /\ Expect(arg)
     \/ TakesText /\ arg = "--" /\ Expect("text")
     \/ TakesText /\ arg \notin Dashed /\ Word
     \/ /\ arg \notin Switches \cup Valued
        /\ ~TakesText \/ (arg \in Dashed /\ arg # "--")
        /\ Refuse

ReadText(arg) == expects = "text" /\ Word /\ UNCHANGED verb

(* Mutant of Unfit: a flag is taken for a role.                              *)
UnfitDashed(flag, value) ==
  \/ flag = "-e" /\ value \in Dashed
  \/ flag = "-e" /\ Kind = "m" /\ Parse(value) = 0
  \/ flag = "-t" /\ value \notin Positive
  \/ flag = "--since" /\ value \notin Numbers
  \/ flag # "-r" /\ flag \in taken
(* What each flag asks of its value; only `-r` may be given again.           *)
Unfit(flag, value) ==
  \/ flag \in {"-e", "-r"} /\ value \in Dashed
  \/ flag = "-e" /\ Kind = "m" /\ Parse(value) = 0
  \/ flag = "-t" /\ value \notin Positive
  \/ flag = "--since" /\ value \notin Numbers
  \/ flag # "-r" /\ flag \in taken

ReadValue(arg) ==
  /\ expects \in {"-e", "-r", "-t", "--since"} /\ UNCHANGED verb
  /\ IF Unfit(expects, arg) THEN Refuse
     ELSE /\ taken' = taken \cup {expects} /\ expects' = "options"
          /\ effort' = IF expects = "-e" THEN arg ELSE effort
          /\ UNCHANGED worded

(* After an error the parser is done; main has read all arguments anyway.    *)
ReadNothing == expects = "nothing" /\ UNCHANGED <<verb, expects, worded, taken, effort>>

Argue(arg) ==
  /\ command = "none" /\ Scan(arg) /\ UNCHANGED <<file, command>>
  /\ \/ ReadVerb(arg) \/ ReadReference(arg) \/ ReadOperand(arg)
     \/ ReadOption(arg) \/ ReadText(arg) \/ ReadValue(arg) \/ ReadNothing

-----------------------------------------------------------------------------
(* The end of the line *)

(* parse_dispatch ends with the model, then its tools, then the prompt.      *)
Target ==
  LET parts == IF verb \in DOMAIN Split THEN Split[verb] ELSE <<verb, Absent>>
  IN  Tooled(ResolveModel(ModelCatalog(file), parts[1], parts[2], effort))

Parsed ==
  IF expects \notin {"options", "text", "no more"} THEN "usage"
  ELSE IF Kind = "dispatch" /\ Target.error # "none" THEN Target.error
  ELSE IF TakesText /\ ~worded THEN "usage"
  ELSE Kind

(* main: help first, then the configuration, then the command.               *)
EndOfLine ==
  /\ command = "none"
  /\ command' = IF scan.help THEN "help"
               ELSE IF file = Broken THEN "usage" ELSE Parsed
  /\ UNCHANGED <<file, verb, expects, worded, taken, effort, scan>>

LineNext ==
  \/ EndOfLine
  \/ \E arg \in Argument : Argue(arg)
  \/ \E arg \in Verb : expects = "verb" /\ Argue(arg)

LineSpec == LineInit /\ [][LineNext]_lineVars

-----------------------------------------------------------------------------
LineTypeOK ==
  /\ file \in Files /\ verb \in Verb \cup Argument \cup {Absent}
  /\ expects \in {"verb", "ref", "session id", "cwd", "display name", "no more", "options",
                  "-e", "-r", "-t", "--since", "text", "nothing"}
  /\ worded \in BOOLEAN /\ taken \subseteq Dashed
  /\ effort \in Argument \cup {Absent}
  /\ scan \in [json : BOOLEAN, help : BOOLEAN, literal : BOOLEAN]

(* main.rs decides the form of an error before the line is parsed, and the    *)
(* command the form of its result: a command that runs was asked for JSON by   *)
(* one reading exactly when it was by the other, so that no option value,     *)
(* text or `--` hides a `--json` from one of them (lib.rs, main.rs).          *)
ScannersAgree ==
  command \in (Control \ {"__attach"}) \cup {"dispatch"} => (scan.json <=> "--json" \in taken)

(* The grammar that help, the schemas and the skill are made from is the one   *)
(* the parser follows: whatever is typed, a command has taken no flag but      *)
(* those it publishes, and every one of them is open to it.                  *)
GrammarIsParsed ==
  (verb # Absent /\ Kind # "__attach") =>
    /\ taken \cup ({expects} \cap Dashed) \subseteq Grammar(Kind)
    /\ expects = "options" => Grammar(Kind) \subseteq Switches \cup Valued
=============================================================================
