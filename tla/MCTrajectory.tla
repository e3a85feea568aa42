---------------------------- MODULE MCTrajectory ----------------------------
(***************************************************************************)
(* Trajectory over the part of schemas/state-machine.yaml around REOPENED, *)
(* the one state from which a method has two arcs.                         *)
(***************************************************************************)
EXTENDS Trajectory

MCStates == {"RESOLVED", "REOPENED", "ESCALATED"}
MCTriggers == {"ticket_reopen.issued", "resolution_confirm.passed",
               "resolution_confirm.failed"}
MCTexts == MCStates \union MCTriggers

MCMethodTriggers ==
    [ticket_get |-> << >>,
     ticket_reopen |-> <<"ticket_reopen.issued">>,
     resolution_confirm |-> <<"resolution_confirm.passed", "resolution_confirm.failed">>]

Arc(from, trigger) == <<from, trigger>>
MCTransition ==
    [arc \in {Arc("RESOLVED", "ticket_reopen.issued"),
              Arc("REOPENED", "resolution_confirm.passed"),
              Arc("REOPENED", "resolution_confirm.failed")} |->
        CASE arc = Arc("RESOLVED", "ticket_reopen.issued")      -> "REOPENED"
          [] arc = Arc("REOPENED", "resolution_confirm.passed") -> "RESOLVED"
          [] arc = Arc("REOPENED", "resolution_confirm.failed") -> "ESCALATED"]

Call(method, ok) == [form |-> "call", method |-> method, paramsValid |-> ok]
Text == [form |-> "text", method |-> NoMethod, paramsValid |-> FALSE]

MCOutputs ==
    {Call(m, v) : m \in DOMAIN MCMethodTriggers, v \in BOOLEAN} \union
    {Call(m, FALSE) : m \in {NoMethod, "ESCALATED"}} \union {Text}

\* Every step of texts, and those with one thing C or its schema does not take.
PlainStep(trigger, after) == [trigger |-> trigger, after |-> after, shape |-> "plain"]
MCSteps ==
    LET plain == {PlainStep(t, a) : t \in MCTriggers \union {None, "RESOLVED"},
                                    a \in MCStates \union {None}}
        odd == {Null, NotText, LongText}
    IN  plain
        \union {[s EXCEPT !.trigger = field] : s \in plain, field \in odd}
        \union {[s EXCEPT !.after = field] : s \in plain, field \in odd}
        \union {[PlainStep("ticket_reopen.issued", None) EXCEPT !.shape = shape] :
                    shape \in {"other", "long"}}
ListOutputs == MCOutputs \union {Call(Unhashable, FALSE)}
=============================================================================
