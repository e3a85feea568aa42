-------------------------------- MODULE Loader --------------------------------
(***************************************************************************)
(* c/src/schemas.c, tf_schemas_load_dir: the tables of methods, states,    *)
(* arcs and weights, read from four files.  Python (schemas.py) gives the  *)
(* YAML files to a YAML parser; C reads them line by line, in a section    *)
(* that the last heading opened, with what it remembers of earlier lines.  *)
(*                                                                         *)
(* A line is trimmed, without its comment: dash says whether it starts     *)
(* with "- ", key is what stands before its colon (none for an item of a   *)
(* list), value or list what stands behind.                                *)
(***************************************************************************)
EXTENDS Integers, Sequences, SequencesExt, FiniteSets

CONSTANTS
    Files,           \* [methods, machine, rubric, trajectory]
    Subscores,       \* the six keys of a rubric
    Numerals,        \* values that strtod reads to their end; Zero is one
    Zero, StatesRef, \* "state-machine.states"
    MaxMethods, MaxTriggers, MaxStates, MaxTerminal, MaxArcs, MaxPresets \* TF_MAX_*

ASSUME LoaderAssumption ==
    /\ Zero \in Numerals
    /\ \A cap \in {MaxMethods, MaxTriggers, MaxStates, MaxTerminal, MaxArcs, MaxPresets} : cap \in Nat

Line(indent, dash, key, value) ==
    [indent |-> indent, dash |-> dash, key |-> key, value |-> value, listed |-> FALSE, list |-> << >>]
Heading(key) == Line(0, FALSE, key, "")
Item(value) == Line(2, TRUE, "", value)
ListLine(key, list) == [Line(2, FALSE, key, "") EXCEPT !.listed = TRUE, !.list = list]
IsHeading(line, keys) == ~line.dash /\ ~line.listed /\ line.value = "" /\ line.key \in keys

NoWeights == [key \in Subscores |-> Zero]
NoTables ==
    [methods |-> {}, triggers |-> << >>, states |-> << >>, terminal |-> << >>, initial |-> "",
     arcs |-> << >>, default |-> NoWeights, presets |-> << >>, aggregation |-> "",
     resolved |-> FALSE, enum |-> << >>]

VARIABLES
    files,
    phase,    \* the file being read; "loaded" or "failed" at the end
    rest,     \* lines of it still to come
    section,  \* the heading above
    from, trigger, \* current_from, current_trigger
    preset,   \* current_preset is set: to the last one of the table
    tables    \* TfSchemas
vars == <<files, phase, rest, section, from, trigger, preset, tables>>

Fail ==
    /\ phase' = "failed" /\ tables' = NoTables
    /\ UNCHANGED <<files, rest, section, from, trigger, preset>>
Go(next, lines) ==
    /\ phase' = next /\ rest' = lines /\ section' = ""
    /\ UNCHANGED <<files, from, trigger, preset>>

\* A step within a file: one line.
Line1 == Head(rest)
Read(file) == phase = file /\ rest # << >> /\ rest' = Tail(rest) /\ UNCHANGED <<files, phase>>
Keep == UNCHANGED <<section, from, trigger, preset>>

\* load_methods_json: the names; their params schemas are module MethodParams.
LoadMethods ==
    /\ phase = "methods"
    /\ LET names == files.methods
       IN  IF names = {} \/ Cardinality(names) > MaxMethods THEN Fail
           ELSE /\ Go("machine", files.machine)
                /\ tables' = [tables EXCEPT !.methods = names,
                                            !.triggers = [name \in names |-> << >>]]

-----------------------------------------------------------------------------
(* load_state_machine_yaml.                                                 *)

Sections == {"states", "terminal_states", "transitions", "method_triggers"}
MachineHeading ==
    /\ Read("machine") /\ IsHeading(Line1, Sections)
    /\ section' = Line1.key
    /\ UNCHANGED <<from, trigger, preset, tables>>
InitialState ==
    /\ Read("machine") /\ ~Line1.dash /\ Line1.key = "initial_state"
    /\ section' = ""
    /\ tables' = [tables EXCEPT !.initial = Line1.value]
    /\ UNCHANGED <<from, trigger, preset>>

InMachine(name) ==
    /\ phase = "machine" /\ rest # << >> /\ section = name
    /\ ~IsHeading(Line1, Sections) /\ (Line1.dash \/ Line1.key # "initial_state")

\* add_state, add_terminal_state: an item goes to the end of its table, if there is room.
Append1(field, cap) ==
    IF Len(tables[field]) >= cap THEN Fail
    ELSE /\ Read("machine") /\ Keep
         /\ tables' = [tables EXCEPT ![field] = Append(@, Line1.value)]
StateItem == InMachine("states") /\ Line1.dash /\ Append1("states", MaxStates)
TerminalItem == InMachine("terminal_states") /\ Line1.dash /\ Append1("terminal", MaxTerminal)

\* Mutant: the trigger of the entry before stays.
FromKeepsTrigger ==
    /\ InMachine("transitions") /\ Line1.dash /\ Line1.key = "from"
    /\ Read("machine")
    /\ from' = Line1.value
    /\ UNCHANGED <<section, trigger, preset, tables>>

From ==
    /\ InMachine("transitions") /\ Line1.dash /\ Line1.key = "from"
    /\ Read("machine")
    /\ from' = Line1.value /\ trigger' = ""
    /\ UNCHANGED <<section, preset, tables>>
Trigger ==
    /\ InMachine("transitions") /\ ~Line1.dash /\ Line1.key = "trigger"
    /\ Read("machine")
    /\ trigger' = Line1.value
    /\ UNCHANGED <<section, from, preset, tables>>

\* add_transition, with what was remembered.
To ==
    /\ InMachine("transitions") /\ ~Line1.dash /\ Line1.key = "to"
    /\ IF from = "" \/ trigger = "" \/ Line1.value = "" \/ Len(tables.arcs) >= MaxArcs THEN Fail
       ELSE /\ Read("machine") /\ Keep
            /\ tables' = [tables EXCEPT !.arcs = Append(@, <<from, trigger, Line1.value>>)]

\* parse_method_trigger_line, parse_trigger_list: a second line of a method replaces
\* the first.
MethodTriggers ==
    /\ InMachine("method_triggers") /\ Line1.key # ""
    /\ IF ~Line1.listed \/ Line1.key \notin tables.methods \/ Len(Line1.list) > MaxTriggers THEN Fail
       ELSE /\ Read("machine") /\ Keep
            /\ tables' = [tables EXCEPT !.triggers[Line1.key] = Line1.list]

\* What C has no use for, an entry that starts with another key than from among it.
Ignored ==
    /\ \/ InMachine("")
       \/ \E name \in {"states", "terminal_states"} : InMachine(name) /\ ~Line1.dash
       \/ InMachine("transitions") /\ (Line1.dash <=> Line1.key # "from")
                                   /\ (Line1.dash \/ Line1.key \notin {"trigger", "to"})
       \/ InMachine("method_triggers") /\ Line1.key = ""
    /\ Read("machine") /\ Keep
    /\ UNCHANGED tables

MachineEnds ==
    /\ phase = "machine" /\ rest = << >>
    /\ IF tables.arcs = << >> \/ tables.states = << >> \/ tables.initial = "" THEN Fail
       ELSE Go("rubric", files.rubric) /\ UNCHANGED tables

-----------------------------------------------------------------------------
(* load_reward_rubric_yaml.                                                 *)

IsAggregation(line) == ~line.dash /\ line.key = "aggregation"
RubricHeading ==
    /\ Read("rubric") /\ IsHeading(Line1, {"default_weights", "presets"})
    /\ section' = Line1.key /\ preset' = FALSE
    /\ UNCHANGED <<from, trigger, tables>>
Aggregation ==
    /\ Read("rubric") /\ IsAggregation(Line1) /\ Keep
    /\ tables' = [tables EXCEPT !.aggregation = Line1.value]

InRubric(name) ==
    /\ phase = "rubric" /\ rest # << >> /\ section = name
    /\ ~IsHeading(Line1, {"default_weights", "presets"}) /\ ~IsAggregation(Line1)

\* parse_weight_line, set_rubric_weight.
BadWeight == Line1.value # "" /\ (Line1.value \notin Numerals \/ Line1.key \notin Subscores)
With(weights) == IF Line1.value = "" THEN weights ELSE [weights EXCEPT ![Line1.key] = Line1.value]

DefaultWeight ==
    /\ InRubric("default_weights")
    /\ IF BadWeight THEN Fail
       ELSE /\ Read("rubric") /\ Keep
            /\ tables' = [tables EXCEPT !.default = With(@)]
StartsPreset == Line1.value = "" /\ Line1.indent <= 2
\* add_rubric_preset.
Preset ==
    /\ InRubric("presets") /\ StartsPreset
    /\ IF Len(tables.presets) >= MaxPresets THEN Fail
       ELSE /\ Read("rubric") /\ preset' = TRUE
            /\ UNCHANGED <<section, from, trigger>>
            /\ tables' = [tables EXCEPT !.presets = Append(@, [name |-> Line1.key, weights |-> NoWeights])]
PresetWeight ==
    /\ InRubric("presets") /\ ~StartsPreset /\ preset
    /\ IF BadWeight THEN Fail
       ELSE /\ Read("rubric") /\ Keep
            /\ tables' = [tables EXCEPT !.presets[Len(tables.presets)].weights = With(@)]
RubricIgnored ==
    /\ InRubric("") \/ (InRubric("presets") /\ ~StartsPreset /\ ~preset)
    /\ Read("rubric") /\ Keep
    /\ UNCHANGED tables

RubricEnds ==
    /\ phase = "rubric" /\ rest = << >>
    /\ IF tables.aggregation = "" \/ tables.presets = << >> THEN Fail
       ELSE Go("trajectory", files.trajectory) /\ UNCHANGED tables

-----------------------------------------------------------------------------
(* load_trajectory_schema_yaml.                                             *)

EnumRef ==
    /\ phase = "trajectory" /\ rest # << >> /\ Line1.key = "enum_ref"
    /\ IF Line1.value # StatesRef THEN Fail
       ELSE /\ Read("trajectory") /\ Keep
            /\ tables' = [tables EXCEPT !.resolved = TRUE, !.enum = tables.states]
OtherLine ==
    /\ Read("trajectory") /\ Line1.key # "enum_ref" /\ Keep
    /\ UNCHANGED tables
TrajectoryEnds ==
    /\ phase = "trajectory" /\ rest = << >>
    /\ IF ~tables.resolved THEN Fail ELSE Go("loaded", << >>) /\ UNCHANGED tables

Init ==
    /\ files \in Files
    /\ phase = "methods" /\ rest = << >> /\ section = "" /\ from = "" /\ trigger = ""
    /\ preset = FALSE /\ tables = NoTables
Next ==
    \/ LoadMethods
    \/ MachineHeading \/ InitialState \/ StateItem \/ TerminalItem \/ From \/ Trigger \/ To
    \/ MethodTriggers \/ Ignored \/ MachineEnds
    \/ RubricHeading \/ Aggregation \/ DefaultWeight \/ Preset \/ PresetWeight \/ RubricIgnored
    \/ RubricEnds
    \/ EnumRef \/ OtherLine \/ TrajectoryEnds
Spec == Init /\ [][Next]_vars

-----------------------------------------------------------------------------
(* The lookups: tf_schemas_transition_to, tf_schemas_find_rubric_preset.    *)

\* The first of the entries at these places, if any.
FirstAt(seq, places) ==
    IF places = {} THEN << >> ELSE <<seq[CHOOSE k \in places : \A l \in places : k <= l]>>
TransitionTo(state, event) ==
    LET arcs == tables.arcs
        found == FirstAt(arcs, {k \in DOMAIN arcs : arcs[k][1] = state /\ arcs[k][2] = event})
    IN  IF found = << >> THEN << >> ELSE <<found[1][3]>>
FindPreset(name) ==
    FirstAt(tables.presets, {k \in DOMAIN tables.presets : tables.presets[k].name = name})

-----------------------------------------------------------------------------
(* load_schemas of schemas.py: what the same lines are to a YAML parser.    *)

\* The lines from one top-level key to the next.
Top(lines) == {k \in DOMAIN lines : lines[k].indent = 0}
Under(lines, key) ==
    LET at == CHOOSE k \in Top(lines) : lines[k].key = key
        ends == {k \in Top(lines) : k > at} \union {Len(lines) + 1}
    IN  SubSeq(lines, at + 1, (CHOOSE k \in ends : \A l \in ends : k <= l) - 1)
Keys(lines) == {lines[k].key : k \in Top(lines)}
TopValue(lines, key) == lines[CHOOSE k \in Top(lines) : lines[k].key = key].value

\* A list of mappings; a block of lines as one mapping, its last value for a key.
Entries(lines) ==
    LET starts == SetToSortSeq({k \in DOMAIN lines : lines[k].dash}, <)
    IN  [n \in DOMAIN starts |->
            SubSeq(lines, starts[n], IF n = Len(starts) THEN Len(lines) ELSE starts[n + 1] - 1)]
Mapping(block) ==
    [key \in {block[k].key : k \in DOMAIN block} |->
        LET at == {k \in DOMAIN block : block[k].key = key}
        IN  block[CHOOSE k \in at : \A l \in at : l <= k]]
Items(key) == SelectSeq(Under(files.machine, key), LAMBDA line : line.dash)
Values(lines) == {lines[k].value : k \in DOMAIN lines}

Arcs == LET entries == Entries(Under(files.machine, "transitions"))
        IN  [n \in DOMAIN entries |-> Mapping(entries[n])]
ArcDict ==
    [key \in {<<Arcs[n]["from"].value, Arcs[n]["trigger"].value>> : n \in DOMAIN Arcs} |->
        LET at == {n \in DOMAIN Arcs : <<Arcs[n]["from"].value, Arcs[n]["trigger"].value>> = key}
        IN  Arcs[CHOOSE n \in at : \A m \in at : m <= n]["to"].value]
WeightsOf(block) ==
    LET mapping == Mapping(block)
    IN  [key \in Subscores |-> IF key \in DOMAIN mapping THEN mapping[key].value ELSE Zero]
PresetBlock(name) ==
    LET lines == Under(files.rubric, "presets")
        starts == {k \in DOMAIN lines : lines[k].indent = 2}
        at == CHOOSE k \in starts : lines[k].key = name
        ends == {k \in starts : k > at} \union {Len(lines) + 1}
    IN  SubSeq(lines, at + 1, (CHOOSE k \in ends : \A l \in ends : k <= l) - 1)
PresetNames == {line.key : line \in {l \in ToSet(Under(files.rubric, "presets")) : l.indent = 2}}

\* A section with nothing in it is null, of which no set, dict or list is made.
PythonLoads ==
    /\ Sections \union {"initial_state"} \subseteq Keys(files.machine)
    /\ {"default_weights", "presets", "aggregation"} \subseteq Keys(files.rubric)
    /\ \A key \in Sections : Under(files.machine, key) # << >>
    /\ \A key \in {"default_weights", "presets"} : Under(files.rubric, key) # << >>
    /\ \A name \in PresetNames : PresetBlock(name) # << >>
    /\ \A n \in DOMAIN Arcs : {"from", "trigger", "to"} \subseteq DOMAIN Arcs[n]

\* The style both read alike: an entry starts with its from and ends with its to, and
\* no arc is there twice.
PlainMachine ==
    LET entries == Entries(Under(files.machine, "transitions"))
        methods == Mapping(Under(files.machine, "method_triggers"))
        Arc(n) == <<Arcs[n]["from"].value,
                    IF "trigger" \in DOMAIN Arcs[n] THEN Arcs[n]["trigger"].value ELSE "">>
    IN  /\ Sections \subseteq Keys(files.machine)
        /\ \A n \in DOMAIN entries :
              /\ entries[n][1].key = "from" /\ Last(entries[n]).key = "to"
              /\ \A m \in DOMAIN entries : Arc(n) = Arc(m) => n = m
        /\ Len(entries) <= MaxArcs
        /\ Cardinality(files.methods) \in 1..MaxMethods /\ DOMAIN methods \subseteq files.methods
        /\ \A name \in DOMAIN methods : methods[name].listed /\ Len(methods[name].list) <= MaxTriggers
        /\ Len(Items("states")) <= MaxStates
        /\ Len(Items("terminal_states")) \in 1..MaxTerminal
\* Nothing but the three keys after the weights, each once, and every weight a number.
PlainRubric ==
    LET weights == Under(files.rubric, "default_weights")
                   \o SelectSeq(Under(files.rubric, "presets"), LAMBDA l : l.indent > 2)
    IN  /\ {"default_weights", "presets", "aggregation"} \subseteq Keys(files.rubric)
        /\ Keys(files.rubric) \subseteq {"subscores", "default_weights", "presets", "aggregation"}
        /\ \A k, l \in Top(files.rubric) : files.rubric[k].key = files.rubric[l].key => k = l
        /\ files.rubric[1].key = "subscores"
        /\ Under(files.rubric, "default_weights") # << >>
        /\ \A k \in DOMAIN weights : weights[k].key \in Subscores /\ weights[k].value \in Numerals
        /\ Cardinality(PresetNames) <= MaxPresets
        /\ \A name \in PresetNames : PresetBlock(name) # << >>
PlainTrajectory ==
    /\ \E k \in DOMAIN files.trajectory : files.trajectory[k].key = "enum_ref"
    /\ \A k \in DOMAIN files.trajectory :
          files.trajectory[k].key = "enum_ref" => files.trajectory[k].value = StatesRef
Plain == PlainMachine /\ PlainRubric /\ PlainTrajectory

\* Files kept in that style, whatever the order of their sections and with entries left
\* incomplete, are loaded by both or by neither, into the same tables: an arc C found
\* by pairing lines is an entry of the document, no key of one entry leaks into the
\* next, and weights end up under the preset they stand in (schemas.c
\* load_state_machine_yaml and load_reward_rubric_yaml against schemas.py:44).
FilesLoadAlike ==
    phase \in {"loaded", "failed"} /\ Plain =>
        /\ phase = "loaded" <=> PythonLoads
        /\ phase = "loaded" =>
              /\ \A n \in DOMAIN tables.arcs :
                    LET arc == tables.arcs[n]
                    IN  <<arc[1], arc[2]>> \in DOMAIN ArcDict
              /\ \A key \in DOMAIN ArcDict : TransitionTo(key[1], key[2]) = <<ArcDict[key]>>
              /\ ToSet(tables.states) = Values(Items("states"))
              /\ ToSet(tables.terminal) = Values(Items("terminal_states"))
              /\ tables.initial = TopValue(files.machine, "initial_state")
              /\ LET methods == Mapping(Under(files.machine, "method_triggers"))
                 IN  \A name \in tables.methods :
                        tables.triggers[name] =
                            IF name \in DOMAIN methods THEN methods[name].list ELSE << >>
              /\ tables.default = WeightsOf(Under(files.rubric, "default_weights"))
              /\ \A name \in PresetNames :
                    FindPreset(name) = <<[name |-> name, weights |-> WeightsOf(PresetBlock(name))]>>
              /\ Len(tables.presets) = Cardinality(PresetNames)
              /\ tables.aggregation = TopValue(files.rubric, "aggregation")
              /\ tables.enum = tables.states
=============================================================================
