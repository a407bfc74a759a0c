---------------------------- MODULE ResultStream ----------------------------
(***************************************************************************)
(* What the result streamer of one p4runcb call promises Go (spec.md 8):   *)
(* each call it receives is handled in one indivisible step that hands Go  *)
(* the events that call stands for, in call order: an error only when one  *)
(* is set, an info line with its level as a number, a stat record with its *)
(* hidden variables left out; and each input request hands the library the *)
(* caller's whole input.                                                   *)
(*                                                                         *)
(* ClientCb is checked to implement this specification (ClientCbStreams).  *)
(***************************************************************************)
EXTENDS Naturals, Sequences, SequencesExt

CONSTANTS
  Hidden,    \* the record keys Go never sees
  NoError    \* an unset error

VARIABLES
  input,     \* the caller's input
  lib,       \* the calls the streamer receives, in order
  j,         \* how many of them have been handled
  sent,      \* the events Go has received
  fed        \* the input handed over at each input request

rvars == <<input, lib, j, sent, fed>>

\* The variables of a stat record Go receives, in order.
Visible(r) == SelectSeq(r, LAMBDA p : p[1] \notin Hidden)

\* The events Go receives for call c.
Expect(c) ==
  CASE c.cb \in {"error", "initerr"} ->
         IF c.err = NoError THEN <<>> ELSE <<[go |-> "error", msg |-> c.err]>>
    [] c.cb = "retry" ->
         <<[go |-> "retry", msg |-> IF c.err = NoError THEN "" ELSE c.err]>>
    [] c.cb \in {"binary", "text"} -> <<[go |-> c.cb, data |-> c.data]>>
    [] c.cb = "info" ->
         <<[go |-> "info", level |-> CHOOSE n \in 0..9 : ToString(n) = c.level,
                           data |-> c.data]>>
    [] c.cb = "stat" ->
         LET u == Visible(c.dict) IN
         <<[go |-> "stat", keys |-> [k \in DOMAIN u |-> u[k][1]],
                           values |-> [k \in DOMAIN u |-> u[k][2]]]>>
    [] c.cb = "input" -> <<>>

RInit == j = 0 /\ sent = <<>> /\ fed = <<>>

\* The next call is handled.
Deliver ==
  /\ j < Len(lib)
  /\ sent' = sent \o Expect(lib[j + 1])
  /\ fed' = IF lib[j + 1].cb = "input" THEN Append(fed, input) ELSE fed
  /\ j' = j + 1
  /\ UNCHANGED <<input, lib>>

RSpec == RInit /\ [][Deliver]_rvars

=============================================================================
