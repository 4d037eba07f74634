---------------------------------- MODULE MCWorker ----------------------------------
(* Workers for TLC: all command lines of up to three short arguments, and all texts *)
(* of up to five characters for combos of up to two keys.                          *)
EXTENDS Worker

OneChar  == {<<"a">>, <<"e'">>, <<Quote>>, <<Backslash>>, <<Blank>>}
Argument == {<<WorkerFlag>>, <<RestartFlag>>, <<ScriptFlag>>, <<>>, <<"a", "a", "a">>}
              \cup OneChar \cup {s \o t : s, t \in OneChar}

MCSelf          == <<"uniwm">>
MCDefaultScript == <<"config">>
MCArguments     == BoundedSeq(Argument, 3)
MCText          == BoundedSeq(Key \cup {Plus, "other"}, 2 * WM_KEY_COMBO_MAX + 1)

====================================================================================
