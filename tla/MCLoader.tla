------------------------------- MODULE MCLoader -------------------------------
(* Directories of schema files: every short list of transitions, complete or  *)
(* not, among sections in several orders, and rubrics of several shapes.      *)
EXTENDS Loader

MCSubscores == {"parse", "schema"}
MCNumerals == {"0", "0.5", "1.0"}

\* The lines of a list of transitions.
Rest(pairs) == [n \in DOMAIN pairs |-> Line(4, FALSE, pairs[n][1], pairs[n][2])]
Entry(pairs) == <<Line(2, TRUE, pairs[1][1], pairs[1][2])>> \o Rest(Tail(pairs))
Whole(state, event, next) == Entry(<< <<"from", state>>, <<"trigger", event>>, <<"to", next>> >>)
EntriesOf ==
    {Whole(state, event, next) : state \in {"A", "B"}, event \in {"t", "u"}, next \in {"A", "B"}}
    \union {Entry(pairs) : pairs \in
        {<< <<"from", "A">>, <<"to", "B">> >>,
         << <<"from", "A">>, <<"trigger", "t">> >>,
         << <<"from", "B">>, <<"to", "A">>, <<"trigger", "u">> >>,
         << <<"trigger", "u">>, <<"from", "B">>, <<"to", "A">> >>,
         << <<"from", "A">>, <<"trigger", "u">>, <<"note", "n">>, <<"to", "A">> >>,
         << <<"from", "B">>, <<"note", "n">>, <<"to", "B">> >>}}
Transitions(lists) == <<Heading("transitions")>> \o FlattenSeq(lists)

States == {<<Heading("states"), Item("A"), Item("B")>>, <<Heading("states")>>,
           <<Heading("states"), Item("A"), Item("B"), Item("A")>>}
Initial == <<Line(0, FALSE, "initial_state", "A")>>
Terminal == {<<Heading("terminal_states"), Item("B")>>,
             <<Heading("terminal_states"), Item("B"), Item("A")>>}
Triggers ==
    {<<Heading("method_triggers")>> \o lines : lines \in
        {<<ListLine("open", <<"t">>)>>,
         <<ListLine("open", <<"t", "u">>), ListLine("get", << >>)>>,
         <<ListLine("open", <<"t">>), ListLine("open", <<"u">>)>>,
         <<ListLine("close", <<"t">>)>>,
         <<Line(2, FALSE, "open", "t")>>,
         <<ListLine("open", <<"t">>), ListLine("get", <<"t", "u", "t">>)>>}}

AState == <<Heading("states"), Item("A"), Item("B")>>
ATerminal == <<Heading("terminal_states"), Item("B")>>
ATrigger == <<Heading("method_triggers"), ListLine("open", <<"t">>), ListLine("get", << >>)>>
AnArc == Transitions(<<Whole("A", "t", "B")>>)
Machines ==
    UNION {{AState \o Initial \o ATerminal \o Transitions(lists) \o ATrigger,
            ATrigger \o Transitions(lists) \o Initial \o ATerminal \o AState}
             : lists \in SeqOf(EntriesOf, 2)}
    \union {<<Line(0, FALSE, "version", "1")>> \o states \o Initial \o terminal \o AnArc \o triggers
             : states \in States, terminal \in Terminal, triggers \in Triggers}
    \union {AState \o ATerminal \o AnArc \o ATrigger, AState \o Initial \o AnArc \o ATrigger}

Weight(indent, key, value) == Line(indent, FALSE, key, value)
Preset1(name, weights) == <<Line(2, FALSE, name, "")>> \o weights
Blocks == {<<Weight(4, "parse", "0.5")>>, <<Weight(4, "schema", "1.0"), Weight(4, "parse", "0.5")>>,
           <<Weight(4, "parse", "1.0"), Weight(4, "parse", "0.5")>>, << >>,
           <<Weight(4, "other", "0.5")>>, <<Weight(4, "parse", "half")>>, <<Weight(4, "parse", "")>>}
Default(weights) ==
    <<Heading("default_weights")>>
    \o [n \in DOMAIN weights |-> [weights[n] EXCEPT !.indent = 2]]
TheAggregation == <<Line(0, FALSE, "aggregation", "mean")>>
TheSubscores == <<Heading("subscores"), Line(2, FALSE, "parse", "parsed"), Line(2, FALSE, "schema", "valid")>>
Rubrics ==
    UNION {{TheSubscores \o Default(defaults) \o <<Heading("presets")>> \o Preset1("shaped", one)
                \o Preset1("binary", two) \o TheAggregation,
            TheSubscores \o TheAggregation \o <<Heading("presets")>> \o Preset1("binary", two)
                \o Default(defaults)}
             : defaults \in Blocks, one \in Blocks, two \in Blocks}
    \union {TheSubscores \o Default(<< >>) \o <<Heading("presets")>> \o Preset1("shaped", << >>),
            TheSubscores \o Default(<< >>) \o <<Heading("presets")>> \o TheAggregation,
            TheSubscores \o Default(<< >>) \o <<Heading("presets"), Weight(4, "parse", "0.5")>>
                \o Preset1("shaped", << >>) \o TheAggregation,
            TheSubscores \o Default(<< >>) \o <<Heading("presets")>> \o Preset1("shaped", << >>)
                \o <<Line(0, FALSE, "version", "1.0"), Heading("notes"), Weight(2, "parse", "1.0")>>
                \o TheAggregation,
            TheSubscores \o Default(<< >>) \o <<Heading("presets")>> \o Preset1("shaped", << >>)
                \o Preset1("binary", << >>) \o Preset1("third", << >>) \o TheAggregation,
            TheSubscores \o <<Heading("presets")>> \o Preset1("shaped", << >>)
                \o Default(<< >>) \o <<Heading("presets"), Weight(4, "parse", "0.5")>> \o TheAggregation}

Trajectories ==
    {<<Heading("fields"), Line(2, FALSE, "enum_ref", "state-machine.states")>>,
     <<Heading("fields"), Line(2, FALSE, "enum_ref", "state-machine.triggers")>>,
     <<Heading("fields"), Line(2, FALSE, "enum", "A")>>}

Methods == {{"open", "get"}, {}, {"open"}, {"open", "get", "close", "reopen"}}
AMachine == AState \o Initial \o ATerminal \o AnArc \o ATrigger
ARubric == TheSubscores \o Default(<<Weight(2, "parse", "1.0")>>) \o <<Heading("presets")>>
           \o Preset1("shaped", <<Weight(4, "schema", "0.5")>>) \o TheAggregation
ATrajectory == <<Heading("fields"), Line(2, FALSE, "enum_ref", StatesRef)>>
Directory(methods, machine, rubric, trajectory) ==
    [methods |-> methods, machine |-> machine, rubric |-> rubric, trajectory |-> trajectory]
MCFiles ==
    {Directory({"open", "get"}, machine, ARubric, ATrajectory) : machine \in Machines}
    \union {Directory({"open", "get"}, AMachine, rubric, ATrajectory) : rubric \in Rubrics}
    \union {Directory(methods, AMachine, ARubric, trajectory)
             : methods \in Methods, trajectory \in Trajectories}
=============================================================================
