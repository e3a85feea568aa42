----------------------------- MODULE MCLlamaEval -----------------------------
(***************************************************************************)
(* LlamaEval over the states around REOPENED, the outputs a pass and each  *)
(* kind of failure need, and files of at most two rows.                    *)
(***************************************************************************)
EXTENDS LlamaEval

MCStates == {"RESOLVED", "REOPENED", "ESCALATED"}
MCTriggers == {"ticket_reopen.issued", "resolution_confirm.passed",
               "resolution_confirm.failed"}
MCTexts == MCStates \union MCTriggers
MCMethodTriggers ==
    [ticket_get |-> << >>,
     ticket_reopen |-> <<"ticket_reopen.issued">>,
     resolution_confirm |-> <<"resolution_confirm.passed", "resolution_confirm.failed">>]
Arc(from, trigger) == <<from, trigger>>
MCTransition ==
    [arc \in {Arc("RESOLVED", "ticket_reopen.issued"),
              Arc("REOPENED", "resolution_confirm.passed"),
              Arc("REOPENED", "resolution_confirm.failed")} |->
        CASE arc = Arc("RESOLVED", "ticket_reopen.issued")      -> "REOPENED"
          [] arc = Arc("REOPENED", "resolution_confirm.passed") -> "RESOLVED"
          [] arc = Arc("REOPENED", "resolution_confirm.failed") -> "ESCALATED"]

Call(method, valid) == [form |-> "call", method |-> method, paramsValid |-> valid]
Reopen == Call("ticket_reopen", TRUE)
Confirm == Call("resolution_confirm", TRUE)
Odd == Call(Unhashable, TRUE)
MCReplies == {Reopen, Confirm, Odd}

Ask(trigger) == [trigger |-> trigger, after |-> None, prompt |-> TRUE]
RowOf(initial, steps, final) ==
    [initial |-> initial, steps |-> steps, final |-> final, rest |-> TRUE, safe |-> TRUE]
Walks == RowOf("RESOLVED", <<Ask("ticket_reopen.issued"),
                             Ask("resolution_confirm.failed")>>, "ESCALATED")
Short == RowOf("REOPENED", <<Ask("resolution_confirm.passed")>>, "REOPENED")
Lasts == RowOf("ESCALATED", <<Ask(None)>>, None)
\* Fields C cannot read: live evaluation does without them and may pass the row.
Ignored == RowOf("RESOLVED", <<[Ask("ticket_reopen.issued") EXCEPT !.after = NotText]>>, LongText)
\* No prompt can be made of the second step, and the row has no trajectory_id.
Stops == [Walks EXCEPT !.steps[2].prompt = FALSE, !.rest = FALSE, !.safe = FALSE]
MCFiles == {<<Walks, Short>>, <<Short, Lasts>>, <<Unreadable, Short>>, <<Ignored, Stops>>,
            <<RowOf(None, << >>, None), Walks>>, <<RowOf("REOPENED", << >>, None)>>}
=============================================================================
