----------------------------- MODULE MCClientCb -----------------------------
(* Instantiates ClientCb for TLC: the two reserved keys and one other, two *)
(* values, one text, two info levels, one error, empty and non-empty input.*)
EXTENDS ClientCb

CONSTANTS v1, v2, d1, e1

MCKeys == {"func", "specFormatted", "client"}
MCValues == {v1, v2}
MCInputs == {<<>>, <<d1>>}
=============================================================================
