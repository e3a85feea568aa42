--------------------------- MODULE MCTeacherExpand ---------------------------
(***************************************************************************)
(* TeacherExpand over one arc and a query, one seed with three expansions  *)
(* and the replies that tell its paths apart: no answer, prose, a reply    *)
(* without steps, rows that fail, rows whose ids collide with each other   *)
(* and with a fresh suffix, one without an id whose final_state C cannot   *)
(* read and one whose keys do not fit.                                     *)
(***************************************************************************)
EXTENDS TeacherExpand

CONSTANTS a, s, t, unknown

MCTexts == {"OPEN", "DONE", "close"}
MCMethodTriggers == [close |-> <<"close">>, get |-> << >>]
MCTransition == [arc \in {<<"OPEN", "close">>} |-> "DONE"]

Step(method, trigger) ==
    [trigger |-> trigger, after |-> None,
     output |-> [form |-> "call", method |-> method, paramsValid |-> TRUE]]
Doc(id, initial, final, steps) ==
    [id |-> id, keysFit |-> TRUE, initial |-> initial, steps |-> steps, final |-> final]
Closes(id) == Doc(id, "OPEN", "DONE", <<Step("close", "close")>>)

Says(doc, wrap) == [http |-> "ok", content |-> "text", wrap |-> wrap, doc |-> doc]
Down == [Says(Prose, "none") EXCEPT !.http = "down"]
MCAnswers ==
    {Down, Says(Closes(<<a>>), "chat"), Says(Closes(<<a>>), "fence"),
     Says(Closes(<<a, 2>>), "none"), Says(Stepless, "none"),
     Says([Closes(NoId) EXCEPT !.final = LongText], "none"),
     Says([Closes(<<a>>) EXCEPT !.final = "OPEN"], "none"),
     Says([Closes(<<a>>) EXCEPT !.steps[1].output = Unshaped], "none"),
     Says([Closes(LongId) EXCEPT !.keysFit = FALSE], "none")}
MCSeeds == <<s>>
MCLeftovers ==
    {EmptyFile,
     [rows |-> <<[id |-> <<a>>, seed |-> t, doc |-> Closes(<<a>>)]>>, tail |-> "bare"]}
MCBases == {a, s, t, unknown}
=============================================================================
