----------------------------- MODULE ReplayText -----------------------------
(***************************************************************************)
(* What the two kernels make of a replay file before the first tick: the   *)
(* Python kernel's load_replay and run_replay, the Rust kernel's           *)
(* parse_strict, validate_replay and run_replay_value.  KernelLoad says    *)
(* what the checks mean; here is which JSON each of them takes, in their   *)
(* order, and the code a file is refused with.                             *)
(*                                                                         *)
(* A file is a good one but for its faults.  A fault is a value of another *)
(* kind at a place: [order, text, faults], where faults maps places to     *)
(* kinds and a place is <<entity, field>>, or <<0, field>> outside of all. *)
(***************************************************************************)
EXTENDS Integers, Sequences, FiniteSets, SequencesExt

CONSTANT Files           \* the replay files

VARIABLES document, verdict  \* a file, and what each kernel has said of it
loaderVars == <<document, verdict>>

Unread == "unread"

\* What JSON may hold at a place, and what matters of it: a `far` integer is an i64 out of
\* the range asked for, a `wide` one no i64; `-0` is written with its sign; a `word` is an
\* identifier nobody knows, a `line` a known one with a line feed; an object or a list is
\* one of those that are due at the place.
JsonKinds == {"absent", "null", "bool", "far", "wide", "-0", "float", "word", "line", "text",
          "list", "object"}

NotRefused == "accepted"
Raises   == "raises"     \* an exception without a code

Row(field, takes, code) == [at |-> <<0, field>>, takes |-> takes, code |-> code]
All(fields, takes, code) == [i \in DOMAIN fields |-> Row(fields[i], takes, code)]
Of(entity, rows) == [i \in DOMAIN rows |-> [rows[i] EXCEPT !.at = <<entity, @[2]>>]]

OfEach(names, rows) == FlattenSeq([i \in DOMAIN names |-> Of(names[i], rows)])

\* The first row that does not take what is there.
FirstRefusal(rows, faults) ==
  LET bad == {i \in DOMAIN rows : rows[i].at \in DOMAIN faults /\ faults[rows[i].at] \notin rows[i].takes}
  IN IF bad = {} THEN NotRefused ELSE rows[CHOOSE i \in bad : \A j \in bad : i <= j].code

-----------------------------------------------------------------------------
(* The Python kernel. *)

\* isinstance(value, int), _is_int, IDENTIFIER.match (whose $ stands before a last line
\* feed too) and isinstance(value, str).
PyInteger    == {"far", "wide", "-0"}
PyI64        == {"far", "-0"}
PyIdentifier == {"word", "line"}
PyString     == {"word", "line", "text"}

\* json.loads with its parse_constant.
PyText(text) ==
  CASE text \in {"good", "says NaN", "deep", "1e400"} -> NotRefused
    [] text = "NaN" -> "E_NON_FINITE"
    [] text = "not UTF-8" -> Raises
    [] OTHER -> "E_INVALID_JSON"

PyReplay ==
  All(<<"replay">>, {"object"}, "E_REPLAY_SHAPE")
  \o All(<<"keys">>, {}, "E_UNKNOWN_FIELD")
  \o All(<<"sim_replay">>, {}, "E_REPLAY_VERSION")
  \o All(<<"ticks">>, {"-0"}, "E_TICKS_RANGE")
  \o All(<<"seed">>, {"absent"} \cup PyInteger, "E_SEED_TYPE")
  \o All(<<"entities">>, {"object"}, "E_ENTITIES_SHAPE")

\* _validate_contract; the storage is looked up in a dictionary.
PyContract ==
  All(<<"sim_contract">>, {}, "E_CONTRACT_VERSION")
  \o All(<<"state", "variable">>, {"object"}, "E_CONTRACT_SHAPE")
  \o All(<<"storage">>, JsonKinds \ {"list", "object"}, Raises)
  \o All(<<"storage">>, {}, "E_CONTRACT_SHAPE")
  \o All(<<"affordances">>, {"list"}, "E_CONTRACT_SHAPE")
  \o All(<<"verb">>, PyIdentifier, "E_CONTRACT_SHAPE")
  \o All(<<"parameters">>, {"object"}, "E_CONTRACT_SHAPE")
  \o All(<<"parameter">>, {"absent"} \cup PyI64, "E_CONTRACT_SHAPE")
  \o All(<<"navigation">>, {"absent", "object"}, "E_CONTRACT_SHAPE")
  \o All(<<"never_blocks">>, {"absent", "bool"}, "E_CONTRACT_SHAPE")
  \o All(<<"blocks_below">>, {"absent", "list"}, "E_CONTRACT_SHAPE")
  \o All(<<"rule">>, {"object"}, "E_CONTRACT_SHAPE")
  \o All(<<"rule var">>, PyString, "E_CONTRACT_SHAPE")
  \o All(<<"threshold">>, PyI64, "E_CONTRACT_SHAPE")
  \o All(<<"semantics">>, JsonKinds \ {"absent"}, "E_CONTRACT_SHAPE")

\* check_value, where an integer is due.
PyValue(fields) == All(fields, PyI64, "E_SEMANTICS_SHAPE")
PyOptional(fields) == All(fields, {"absent"} \cup PyI64, "E_SEMANTICS_SHAPE")

\* check_guards: none where there is None.
PyGuards(fields) == All(fields, {"absent", "null", "list"}, "E_SEMANTICS_SHAPE")

\* check_effect, of an add of the argument and of a set_control.
PyEffects ==
  All(<<"effects">>, {"absent", "list"}, "E_SEMANTICS_SHAPE")
  \o All(<<"op", "effect keys", "effect var", "clamp keys">>, {}, "E_SEMANTICS_SHAPE")
  \o PyGuards(<<"when">>)
  \o All(<<"control">>, PyIdentifier, "E_SEMANTICS_SHAPE")
  \o PyValue(<<"value", "control value">>)
  \o All(<<"sign">>, {"absent"}, "E_SEMANTICS_SHAPE")
  \o All(<<"clamp">>, {"absent", "object"}, "E_SEMANTICS_SHAPE")
  \o PyOptional(<<"min", "max", "default">>)

\* _validate_semantics; a block that is None is none.
PySemantics ==
  All(<<"semantics">>, {"null", "object"}, "E_SEMANTICS_SHAPE")
  \o All(<<"block", "spec", "guard", "integrator">>, {"object"}, "E_SEMANTICS_SHAPE")
  \o All(<<"integrators", "requires">>, {"absent", "list"}, "E_SEMANTICS_SHAPE")
  \o All(<<"block keys", "spec keys", "spec arg", "required">>, {}, "E_SEMANTICS_SHAPE")
  \o PyGuards(<<"guards">>)
  \o All(<<"guard var", "guard test", "guard keys">>, {}, "E_SEMANTICS_SHAPE")
  \o All(<<"exists">>, {"bool"}, "E_SEMANTICS_SHAPE")
  \o PyValue(<<"gt">>) \o PyEffects
  \o All(<<"verb", "integrator keys", "integrator var">>, {}, "E_SEMANTICS_SHAPE")
  \o All(<<"toward">>, PyIdentifier, "E_SEMANTICS_SHAPE") \o PyValue(<<"rate">>)

\* The loop over the entities; a pin may be a hash of something else, or that with a line
\* feed, or letters.
PyEntity ==
  All(<<"name">>, PyIdentifier, "E_ENTITY_ENTRY")
  \o All(<<"entry", "contract">>, {"object"}, "E_ENTITY_ENTRY")
  \o PyContract \o PySemantics
  \o All(<<"contract_sha256">>, {"other hash", "line"}, "E_ENTITY_ENTRY")

\* validate_clause and validate_wires, of a wire with a clause over a control and one over
\* a variable and a verb that takes a count.
PyClause ==
  All(<<"clause">>, {"object"}, "E_WIRE_SHAPE")
  \o All(<<"clause entity", "clause test", "clause var">>, {}, "E_WIRE_SHAPE")
  \o All(<<"clause control">>, PyIdentifier, "E_WIRE_SHAPE")
  \o All(<<"clause keys">>, {}, "E_WIRE_SHAPE")
  \o All(<<"clause exists">>, {"bool"}, "E_WIRE_SHAPE")
  \o All(<<"clause literal">>, PyI64, "E_WIRE_SHAPE")

PyWires ==
  All(<<"wires">>, {"absent", "list"}, "E_WIRE_SHAPE")
  \o All(<<"wire">>, {"object"}, "E_WIRE_SHAPE")
  \o All(<<"wire keys">>, {}, "E_WIRE_SHAPE")
  \o All(<<"wire name">>, PyIdentifier, "E_WIRE_SHAPE")
  \o All(<<"when of wire">>, {"list"}, "E_WIRE_SHAPE") \o PyClause
  \o All(<<"then of wire">>, {"list"}, "E_WIRE_SHAPE")
  \o All(<<"act">>, {"object"}, "E_WIRE_SHAPE")
  \o All(<<"act keys", "act entity", "act verb">>, {}, "E_WIRE_SHAPE")
  \o All(<<"act arg">>, {"-0"}, "E_WIRE_SHAPE")

PyEvents ==
  All(<<"initial">>, {"absent", "object"}, "E_INITIAL_SHAPE")
  \o All(<<"initial name">>, {}, "E_UNKNOWN_ENTITY")
  \o All(<<"events">>, {"absent", "list"}, "E_EVENTS_SHAPE")
  \o All(<<"event">>, {"list"}, "E_EVENT_SHAPE")
  \o All(<<"tick">>, {"-0"}, "E_EVENT_TICK_RANGE")
  \o All(<<"event entity">>, {}, "E_UNKNOWN_ENTITY")
  \o All(<<"event verb">>, PyIdentifier, "E_BAD_VERB")

\* The rest of run_replay: the hashes of all contracts, which may hold more than is read,
\* then the initial values of all entities, _coerce_initial, and the events as they come.
PyHash == All(<<"contract_sha256">>, {}, "E_CONTRACT_HASH")

PyInitial ==
  All(<<"initial of">>, {"absent", "object"}, Raises)
  \o All(<<"initial var">>, {}, "E_INITIAL_UNKNOWN_VAR")
  \o All(<<"initial value">>, {"absent"} \cup PyI64, "E_INITIAL_TYPE")

PyRun ==
  All(<<"event verb">>, {}, "E_UNDECLARED_AFFORDANCE")
  \o All(<<"arg">>, PyInteger, "E_ARGUMENT_TYPE")
  \o All(<<"arg">>, {"-0"}, "E_ARGUMENT_RANGE")

PyRows(names) ==
  PyReplay \o OfEach(names, PyEntity) \o PyWires \o PyEvents
    \o OfEach(names, PyHash) \o OfEach(names, PyInitial) \o PyRun

PyLoads(f) ==
  IF PyText(f.text) # NotRefused THEN PyText(f.text)
  ELSE FirstRefusal(PyRows(f.order), f.faults)

-----------------------------------------------------------------------------
(* The Rust kernel.  serde_json holds a number as an i64, a u64 or a       *)
(* float, and -0 is a float; as_i64 takes the first.                       *)

RustI64        == {"far"}
RustIdentifier == {"word"}
RustString     == {"word", "line", "text"}

\* reject_non_finite looks for the words before anything is parsed.
RustText(text) ==
  CASE text = "good" -> NotRefused
    [] text \in {"NaN", "says NaN", "broken, then NaN"} -> "E_NON_FINITE"
    [] OTHER -> "E_INVALID_JSON"

RustReplay ==
  All(<<"replay">>, {"object"}, "E_REPLAY_SHAPE")
  \o All(<<"keys">>, {}, "E_UNKNOWN_FIELD")
  \o All(<<"sim_replay">>, {}, "E_REPLAY_VERSION")
  \o All(<<"ticks">>, {}, "E_TICKS_RANGE")
  \o All(<<"seed">>, {"absent"} \cup RustI64, "E_SEED_TYPE")
  \o All(<<"entities">>, {"object"}, "E_ENTITIES_SHAPE")

RustContract ==
  All(<<"sim_contract">>, {}, "E_CONTRACT_VERSION")
  \o All(<<"state", "variable">>, {"object"}, "E_CONTRACT_SHAPE")
  \o All(<<"storage">>, {}, "E_CONTRACT_SHAPE")
  \o All(<<"affordances">>, {"list"}, "E_CONTRACT_SHAPE")
  \o All(<<"verb">>, RustIdentifier, "E_CONTRACT_SHAPE")
  \o All(<<"parameters">>, {"object"}, "E_CONTRACT_SHAPE")
  \o All(<<"parameter">>, {"absent"} \cup RustI64, "E_CONTRACT_SHAPE")
  \o All(<<"navigation">>, {"absent", "object"}, "E_CONTRACT_SHAPE")
  \o All(<<"never_blocks">>, {"absent", "bool"}, "E_CONTRACT_SHAPE")
  \o All(<<"blocks_below">>, {"absent", "list"}, "E_CONTRACT_SHAPE")
  \o All(<<"rule">>, {"object"}, "E_CONTRACT_SHAPE")
  \o All(<<"rule var">>, RustString, "E_CONTRACT_SHAPE")
  \o All(<<"threshold">>, RustI64, "E_CONTRACT_SHAPE")
  \o All(<<"semantics">>, JsonKinds \ {"absent"}, "E_CONTRACT_SHAPE")

RustValue(fields)    == All(fields, RustI64, "E_SEMANTICS_SHAPE")
RustOptional(fields) == All(fields, {"absent"} \cup RustI64, "E_SEMANTICS_SHAPE")

\* A null is there, and no list.
RustGuards(fields) == All(fields, {"absent", "list"}, "E_SEMANTICS_SHAPE")

RustEffectRows ==
  All(<<"effects">>, {"absent", "list"}, "E_SEMANTICS_SHAPE")
  \o All(<<"op", "effect keys", "effect var", "clamp keys">>, {}, "E_SEMANTICS_SHAPE")
  \o RustGuards(<<"when">>)
  \o All(<<"control">>, RustIdentifier, "E_SEMANTICS_SHAPE")
  \o RustValue(<<"value", "control value">>)
  \o All(<<"sign">>, {"absent"}, "E_SEMANTICS_SHAPE")
  \o All(<<"clamp">>, {"absent", "object"}, "E_SEMANTICS_SHAPE")
  \o RustOptional(<<"min", "max", "default">>)

RustSemantics ==
  All(<<"semantics">>, {"object"}, "E_SEMANTICS_SHAPE")
  \o All(<<"block", "spec", "guard", "integrator">>, {"object"}, "E_SEMANTICS_SHAPE")
  \o All(<<"integrators", "requires">>, {"absent", "list"}, "E_SEMANTICS_SHAPE")
  \o All(<<"block keys", "spec keys", "spec arg", "required">>, {}, "E_SEMANTICS_SHAPE")
  \o RustGuards(<<"guards">>)
  \o All(<<"guard var", "guard test", "guard keys">>, {}, "E_SEMANTICS_SHAPE")
  \o All(<<"exists">>, {"bool"}, "E_SEMANTICS_SHAPE")
  \o RustValue(<<"gt">>) \o RustEffectRows
  \o All(<<"verb", "integrator keys", "integrator var">>, {}, "E_SEMANTICS_SHAPE")
  \o All(<<"toward">>, RustIdentifier, "E_SEMANTICS_SHAPE") \o RustValue(<<"rate">>)

\* is_lower_hex_64: any small letters and digits.
RustPin == {"other hash", "letters"}

\* (as it would be with the pin looked at first)
RustEntity_PinFirst ==
  All(<<"name">>, RustIdentifier, "E_ENTITY_ENTRY")
  \o All(<<"entry">>, {"object"}, "E_ENTITY_ENTRY")
  \o All(<<"contract_sha256">>, RustPin, "E_ENTITY_ENTRY")
  \o All(<<"contract">>, {"object"}, "E_ENTITY_ENTRY")
  \o RustContract \o RustSemantics

RustEntity ==
  All(<<"name">>, RustIdentifier, "E_ENTITY_ENTRY")
  \o All(<<"entry", "contract">>, {"object"}, "E_ENTITY_ENTRY")
  \o RustContract \o RustSemantics \o All(<<"contract_sha256">>, RustPin, "E_ENTITY_ENTRY")

RustClause ==
  All(<<"clause">>, {"object"}, "E_WIRE_SHAPE")
  \o All(<<"clause entity", "clause test", "clause var">>, {}, "E_WIRE_SHAPE")
  \o All(<<"clause control">>, RustIdentifier, "E_WIRE_SHAPE")
  \o All(<<"clause keys">>, {}, "E_WIRE_SHAPE")
  \o All(<<"clause exists">>, {"bool"}, "E_WIRE_SHAPE")
  \o All(<<"clause literal">>, RustI64, "E_WIRE_SHAPE")

RustWires ==
  All(<<"wires">>, {"absent", "list"}, "E_WIRE_SHAPE")
  \o All(<<"wire">>, {"object"}, "E_WIRE_SHAPE")
  \o All(<<"wire keys">>, {}, "E_WIRE_SHAPE")
  \o All(<<"wire name">>, RustIdentifier, "E_WIRE_SHAPE")
  \o All(<<"when of wire">>, {"list"}, "E_WIRE_SHAPE") \o RustClause
  \o All(<<"then of wire">>, {"list"}, "E_WIRE_SHAPE")
  \o All(<<"act">>, {"object"}, "E_WIRE_SHAPE")
  \o All(<<"act keys", "act entity", "act verb">>, {}, "E_WIRE_SHAPE")
  \o All(<<"act arg">>, {}, "E_WIRE_SHAPE")

RustEvents ==
  All(<<"initial">>, {"absent", "object"}, "E_INITIAL_SHAPE")
  \o All(<<"initial name">>, {}, "E_UNKNOWN_ENTITY")
  \o All(<<"events">>, {"absent", "list"}, "E_EVENTS_SHAPE")
  \o All(<<"event">>, {"list"}, "E_EVENT_SHAPE")
  \o All(<<"tick">>, {}, "E_EVENT_TICK_RANGE")
  \o All(<<"event entity">>, {}, "E_UNKNOWN_ENTITY")
  \o All(<<"event verb">>, RustIdentifier, "E_BAD_VERB")

\* canonical_json spells what is no i64 in its own way.
RustHash ==
  All(<<"extra">>, JsonKinds \ {"wide", "-0", "float"}, "E_CONTRACT_HASH")
  \o All(<<"contract_sha256">>, {}, "E_CONTRACT_HASH")

\* Initial values that are no object are none.
RustInitial ==
  All(<<"initial var">>, {}, "E_INITIAL_UNKNOWN_VAR")
  \o All(<<"initial value">>, {"absent"} \cup RustI64, "E_INITIAL_TYPE")

RustRun ==
  All(<<"event verb">>, {}, "E_UNDECLARED_AFFORDANCE")
  \o All(<<"arg">>, RustI64, "E_ARGUMENT_TYPE")
  \o All(<<"arg">>, {}, "E_ARGUMENT_RANGE")

RustRows(names) ==
  RustReplay \o OfEach(names, RustEntity) \o RustWires \o RustEvents
    \o OfEach(names, RustHash) \o OfEach(names, RustInitial) \o RustRun

\* A Map is sorted, so entities come in the order of their names: the n-th is the one that
\* n - 1 are before.
ByName(names) ==
  LET all == ToSet(names)
  IN [n \in DOMAIN names |-> CHOOSE name \in all : Cardinality({other \in all : other < name}) = n - 1]

RustLoads(f) ==
  IF RustText(f.text) # NotRefused THEN RustText(f.text)
  ELSE FirstRefusal(RustRows(ByName(f.order)), f.faults)
-----------------------------------------------------------------------------
(* Where they part. *)

\* Where an integer is due, and where an identifier or a hash is.
IntegerFields ==
  {"ticks", "seed", "parameter", "threshold", "gt", "value", "control value", "min", "max", "default",
   "rate", "clause literal", "act arg", "tick", "initial value", "arg"}
IdentifierFields ==
  {"name", "verb", "control", "toward", "wire name", "clause control", "event verb", "contract_sha256"}

\* Things that are there or not, rather than left out of an object that is there; and
\* what stands for several ways of being wrong.
Elements == {"replay", "name", "entry", "variable", "verb", "parameter", "rule", "guard", "spec arg",
             "integrator", "required", "wire", "clause", "act", "event", "tick", "event entity",
             "event verb", "arg", "initial name", "initial var"}

Possible(field, kind) ==
  /\ kind = "absent" => field \notin Elements
  /\ kind \in {"other hash", "letters"} => field = "contract_sha256"

\* Known to part them: `-0` and a last line feed wherever an integer or an identifier is due,
\* integers beyond 64 bits that are no part of the world, null where nothing may stand,
\* what the Python kernel trips over, letters for a hash, and numbers only the hash reads.
Gap(field, kind) ==
  \/ kind = "-0" /\ field \in IntegerFields \cup {"extra"}
  \/ kind = "line" /\ field \in IdentifierFields
  \/ kind = "wide" /\ field \in {"seed", "arg", "extra"}
  \/ kind = "null" /\ field \in {"semantics", "guards", "when"}
  \/ field = "storage" /\ kind \in {"list", "object"}
  \/ field = "initial of" /\ kind \notin {"absent", "object"}
  \/ field = "contract_sha256" /\ kind = "letters"
  \/ field = "extra" /\ kind = "float"

GapIn(f) ==
  \/ f.text \in {"says NaN", "deep", "1e400", "not UTF-8", "broken, then NaN"}
  \/ \E place \in DOMAIN f.faults : Gap(place[2], f.faults[place])

InOrder(f) == [f EXCEPT !.order = ByName(@)]

\* The lists of entities there are, and the faults: no other kind of value, and none where it
\* cannot be.
ASSUME FilesAreFiles ==
  \A f \in Files :
    /\ f \in [order : Seq(Nat \ {0}), text : STRING, faults : {f.faults}]
    /\ \A place \in DOMAIN f.faults :
         /\ f.faults[place] \in JsonKinds \cup {"other hash", "letters"}
         /\ Possible(place[2], f.faults[place])

-----------------------------------------------------------------------------
(* The two of them over one file. *)

LoaderInit ==
  /\ document \in Files
  /\ verdict = [kernel \in {"python", "rust"} |-> Unread]

Answers(kernel, code) ==
  /\ verdict[kernel] = Unread
  /\ verdict' = [verdict EXCEPT ![kernel] = code]
  /\ UNCHANGED document

LoaderNext == Answers("python", PyLoads(document)) \/ Answers("rust", RustLoads(document))

LoaderSpec == LoaderInit /\ [][LoaderNext]_loaderVars

\* What one kernel refuses the other refuses, with the same code, whatever is wrong with a
\* file and however many things are, but for the gaps, and but that the Rust kernel takes the
\* entities in the order of their names ("refused up front with a stable code, so parity
\* holds for rejections too", tools/sim/kernel.py:490).
LoadersAgree ==
  Unread \notin {verdict["python"], verdict["rust"]} /\ ~GapIn(document) =>
    verdict["rust"] = PyLoads(InOrder(document))

\* The gaps are gaps: one and nothing else parts the kernels.
GapsPart(f) == GapIn(f) => RustLoads(f) # PyLoads(f)

-----------------------------------------------------------------------------
\* For a choice of files: one fault of every place and code that leaves them agreed.
Telling(rows) ==
  LET faults == {f \in {rows[i].at : i \in DOMAIN rows} \X JsonKinds :
                   Possible(f[1][2], f[2]) /\ ~Gap(f[1][2], f[2])}
      Code(f) == FirstRefusal(rows, f[1] :> f[2])
  IN {CHOOSE f \in faults : f[1] = c[1] /\ Code(f) = c[2] :
        c \in {<<f[1], Code(f)>> : f \in faults}}
=============================================================================
