--------------------------- MODULE MCConversation ---------------------------
(***************************************************************************)
(* A conversation of two prompts, one of them with a prompt_id, and two    *)
(* workers.                                                                *)
(***************************************************************************)
EXTENDS Conversation, TLC

CONSTANTS w1, w2, p1, p2

TwoWorkers == {w1, w2}
OneWorker == {w1}
TwoPrompts == {p1, p2}
OneNamed == {p1}
Lenient == {Screened({})}
Stop == {Halt("completed")}

(* on_inputs lets everything in, drops a prompt, or halts; before_finish   *)
(* ends the run or goes on.  A halt of before_model is one of on_inputs.   *)
SomeScreens == {Screened({}), Screened({Id(p2, 2)}), Halt("screened")}
NoSteering == {Proceed(<<>>)}
SomeTurns == {Proceed(<<>>), Halt("completed")}

(* A replaced worker that wrote to the transcript is not followed further: *)
(* the properties say nothing from there on.                               *)
Tidy == ~ strayed

(* All but lastWriter, which neither an action nor a property here reads.  *)
Seen == <<entries, lease, issued, inputs, inputSequence, journal, rows, runRecord, sent, att,
          excused, strayed>>

Symmetry == Permutations(Workers)
=============================================================================
