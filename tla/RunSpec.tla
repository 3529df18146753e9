------------------------------- MODULE RunSpec -------------------------------
(***************************************************************************)
(* The run spec (runs/spec.py), its hash (runs/hashing.py) and what        *)
(* `tc connectivity readiness` evaluates from it (connectivity/readiness.py*)
(* up to the files it writes, which Connectivity models).                  *)
(*                                                                         *)
(* A YAML string is [word, padded]: its text without the white space       *)
(* around it, "" when nothing else is there, and whether there was any.    *)
(* The run_id, the venue and the readiness block stand for the other       *)
(* fields of their kinds; literals and nested models are checked alike.    *)
(***************************************************************************)
EXTENDS Naturals, FiniteSets, Sequences

CONSTANTS
    Nil,            \* a YAML null or a missing key
    NotText,        \* a value that is no string
    NotList,        \* a value that is no list
    EnvName,        \* words that match ^[A-Z_][A-Z0-9_]*$
    SpecFamilies    \* sets of specs as written

\* The specs that YAML can hold, and how their values differ.
Text == [word : STRING, padded : BOOLEAN]
AnyText == Text \cup {Nil, NotText}
NameList == Seq(AnyText) \cup {Nil, NotList}
Block == [enabled : BOOLEAN, venue : AnyText, required : NameList, optional : NameList]
NormalBlock == [enabled : BOOLEAN, venue : STRING \cup {Nil}, required : Seq(STRING),
                optional : Seq(STRING)]
WrittenSpec ==
    [unknownKey : BOOLEAN, run_id : AnyText, venue : AnyText, readiness : Block \cup {Nil}]

ASSUME TextAssumption ==
    /\ NotText # Nil /\ NotList # Nil
    /\ Nil \notin Text /\ NotText \notin Text
    /\ Nil \notin Seq(AnyText) /\ NotList \notin Seq(AnyText)
    /\ Nil \notin Block \cup NormalBlock
    /\ EnvName \subseteq STRING \ {""}
    /\ \A F \in SpecFamilies : F \subseteq WrittenSpec

VARIABLES
    spec,       \* the spec as written
    env         \* the environment: unset, blank or set for every name
specVars == <<spec, env>>

EnvValues == {"unset", "blank", "set"}

IsText(v) == v \notin {Nil, NotText}

-----------------------------------------------------------------------------
(* Mutated forms: slips that the code could contain. *)

\* Names are compared as they are written.
NoRepeatsRaw(names) == \A i, j \in DOMAIN names : names[i] = names[j] => i = j

\* A variable that exists is present.
IsPresentAtAll(name, e) == e[name] # "unset"

-----------------------------------------------------------------------------
(* Field validators *)

\* A required string: _validate_non_empty_strings and its like.
RequiredOK(v) == IsText(v) /\ v.word # ""

\* An optional string: null, or any string; a blank one becomes null.
OptionalOK(v) == v = Nil \/ IsText(v)
Normalized(v) == IF v = Nil THEN Nil ELSE IF v.word = "" THEN Nil ELSE v.word

\* _validate_env_name_lists: null is an empty list; every name matches the pattern.
NamesOf(v) == IF v = Nil THEN <<>> ELSE v
NamesOK(v) ==
    /\ v # NotList
    /\ \A i \in DOMAIN NamesOf(v) :
          RequiredOK(NamesOf(v)[i]) /\ NamesOf(v)[i].word \in EnvName

\* _validate_duplicates_and_overlap sees the names that were stripped.
Words(names) == [i \in DOMAIN names |-> names[i].word]
NoRepeats(names) ==
    \A i, j \in DOMAIN names : names[i].word = names[j].word => i = j
NoOverlap(b) ==
    \A i \in DOMAIN NamesOf(b.required), j \in DOMAIN NamesOf(b.optional) :
        NamesOf(b.required)[i].word # NamesOf(b.optional)[j].word

\* ConnectivityReadinessSpec
BlockOK(b) ==
    /\ OptionalOK(b.venue)
    /\ NamesOK(b.required) /\ NamesOK(b.optional)
    /\ NoRepeats(NamesOf(b.required)) /\ NoRepeats(NamesOf(b.optional))
    /\ NoOverlap(b)

-----------------------------------------------------------------------------
(* load_run_spec, run_spec_to_normalized_dict, compute_config_sha256 *)

\* _validate_connectivity_readiness_venue, on normalized venues
VenueAgrees(s) ==
    Normalized(s.readiness.venue) \in {Nil, s.venue.word}

Loads(s) ==
    /\ ~s.unknownKey
    /\ RequiredOK(s.run_id) /\ RequiredOK(s.venue)
    /\ s.readiness # Nil => BlockOK(s.readiness) /\ VenueAgrees(s)

Normal(s) ==
    [run_id |-> s.run_id.word, venue |-> s.venue.word,
     readiness |->
        IF s.readiness = Nil THEN Nil
        ELSE [enabled  |-> s.readiness.enabled,
              venue    |-> Normalized(s.readiness.venue),
              required |-> Words(NamesOf(s.readiness.required)),
              optional |-> Words(NamesOf(s.readiness.optional))]]

\* Canonical JSON with sorted keys, and SHA-256: one digest per normal form.
ConfigHash(s) == Normal(s)

-----------------------------------------------------------------------------
(* evaluate_connectivity_readiness on a spec that loaded *)

\* _is_present_env
IsPresent(name, e) == e[name] = "set"

Disabled ==
    [enabled |-> FALSE, state |-> "disabled", present |-> {}, missing |-> {},
     missing_required_count |-> 0]

\* The lists are sorted in the payload: sets here.  The counter counts list items.
Evaluate(s, e) ==
    LET block == Normal(s).readiness
        names == block.required \o block.optional
        missingRequired == {i \in DOMAIN block.required : ~IsPresent(block.required[i], e)}
    IN  IF block = Nil THEN Disabled
        ELSE IF ~block.enabled THEN Disabled
        ELSE [enabled |-> TRUE,
              state   |-> IF missingRequired = {} THEN "configured"
                          ELSE "missing_credentials",
              present |-> {names[i] : i \in {j \in DOMAIN names : IsPresent(names[j], e)}},
              missing |-> {names[i] : i \in {j \in DOMAIN names : ~IsPresent(names[j], e)}},
              missing_required_count |-> Cardinality(missingRequired)]

SpecInit ==
    /\ \E F \in SpecFamilies : spec \in F
    /\ env \in [EnvName -> EnvValues]

RunSpecSpec == SpecInit /\ [][UNCHANGED specVars]_specVars

-----------------------------------------------------------------------------
(* Properties *)

\* Every declared name is either present or missing, once; the counter, the state
\* and the lists tell the same, and a variable that is set to white space is
\* missing.  The optional names have no say in the state.
ReadinessByEnvironment ==
    Loads(spec) /\ spec.readiness # Nil =>
        LET r == Evaluate(spec, env)
            b == spec.readiness
            lacks(names) == {names[i].word : i \in
                {j \in DOMAIN names : env[names[j].word] # "set"}}
        IN  b.enabled =>
              /\ r.present \cap r.missing = {}
              /\ Cardinality(r.present) + Cardinality(r.missing)
                    = Len(NamesOf(b.required)) + Len(NamesOf(b.optional))
              /\ r.missing_required_count = Cardinality(lacks(NamesOf(b.required)))
              /\ r.missing = lacks(NamesOf(b.required)) \cup lacks(NamesOf(b.optional))
              /\ r.state = "configured" <=> lacks(NamesOf(b.required)) = {}

\* The same spec without white space around its strings, and with null for optional
\* strings and lists that say nothing.
PlainText(v) == IF IsText(v) THEN [v EXCEPT !.padded = FALSE] ELSE v
PlainOptional(v) == IF IsText(v) /\ v.word = "" THEN Nil ELSE PlainText(v)
PlainNames(v) ==
    IF v \in {NotList, Nil, <<>>} THEN IF v = NotList THEN v ELSE Nil
    ELSE [i \in DOMAIN v |-> PlainText(v[i])]
PlainBlock(b) ==
    IF b = Nil THEN Nil
    ELSE [b EXCEPT !.venue = PlainOptional(@),
                   !.required = PlainNames(@), !.optional = PlainNames(@)]
Plain(s) ==
    [s EXCEPT !.run_id = PlainText(@), !.venue = PlainText(@), !.readiness = PlainBlock(@)]

\* White space and empty optional values change neither whether a spec loads nor
\* its hash: config_sha256 in metadata.json stands for what the run was told.
HashIgnoresSpelling ==
    /\ Loads(spec) <=> Loads(Plain(spec))
    /\ Loads(spec) => ConfigHash(spec) = ConfigHash(Plain(spec))
=============================================================================
