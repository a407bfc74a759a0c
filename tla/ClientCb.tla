------------------------------ MODULE ClientCb ------------------------------
(***************************************************************************)
(* ClientCb (p4_cgo_bridge.cc:113-174), the ClientUser through which one   *)
(* p4runcb call streams its results to Go.  It is built once per call with *)
(* the caller's id and input (line 180) and receives, one at a time, the   *)
(* callbacks the Perforce library makes during Run (HandleError with an    *)
(* Error, OutputBinary, OutputText, OutputInfo, OutputStat, InputData)     *)
(* and the two p4runcb itself makes (HandleError(msg), Retry).  Each       *)
(* output callback forwards to one gop4api* function; OutputStat first     *)
(* walks the tagged record with GetVar(i) until it fails, skipping the     *)
(* keys only the RPC layer and the bridge use.  Texts and errors are       *)
(* model values: an error value stands for the text Error::Fmt gives it.   *)
(***************************************************************************)
EXTENDS Naturals, Sequences, SequencesExt

CONSTANTS
  Keys,      \* variable names a record may carry, the reserved ones included
  Values,    \* variable values
  Data,      \* output texts and binary chunks
  Levels,    \* OutputInfo level characters, digits
  Errors,    \* errors, as the text Fmt gives them
  NoError,   \* an Error whose Test() is false / a null Error*
  Inputs,    \* the input strviews a caller may pass, as byte sequences
  MaxVars,   \* bound: variables in one record
  MaxCalls   \* bound: callbacks made on one ClientCb

\* Line 155: `var == "func" || var == P4Tag::v_specFormatted`.
Reserved == {"func", "specFormatted"}

ASSUME /\ Reserved \subseteq Keys /\ NoError \notin Errors
       /\ Levels \subseteq {"0", "1", "2", "3", "4", "5", "6", "7", "8", "9"}

\* The records the library may deliver, as their GetVar(i) order.
Records == BoundedSeq(Keys \X Values, MaxVars)

\* The calls a ClientCb receives.
Calls ==
       [cb : {"binary", "text"}, data : Data]
  \cup [cb : {"info"}, level : Levels, data : Data]
  \cup [cb : {"stat"}, dict : Records]
  \cup [cb : {"error", "retry"}, err : Errors \cup {NoError}]
  \cup [cb : {"initerr"}, err : Errors]
  \cup [cb : {"input"}]

\* Line 144, `level - '0'`: the digit's value.
Digit(c) == CHOOSE n \in 0..9 : <<"0","1","2","3","4","5","6","7","8","9">>[n + 1] = c

VARIABLES
  input,     \* input_, the strview given to the constructor
  lib,       \* the calls this ClientCb receives, in order
  j,         \* how many of them have returned
  inStat,    \* OutputStat is running its GetVar loop
  varList,   \* the StrDict passed to OutputStat
  i,         \* the loop index of GetVar(i, var, val)
  keys,      \* std::vector<strview> keys
  values,    \* std::vector<strview> values
  sent,      \* the gop4api* calls made, as events
  fed        \* what each InputData call appended to the library's buffer

svars == <<input, lib, j, inStat, varList, i, keys, values, sent, fed>>

TypeOK ==
  /\ varList \in Records
  /\ i \in 0..MaxVars
  /\ keys \in Seq(Keys) /\ values \in Seq(Values)
  /\ j \in 0..Len(lib)
  /\ \A n \in DOMAIN sent : sent[n].go = "stat" =>
        sent[n].keys \in Seq(Keys) /\ sent[n].values \in Seq(Values)

\* The constructor, lines 115-116; the callbacks are chosen up front.
Init ==
  /\ input \in Inputs
  /\ lib \in BoundedSeq(Calls, MaxCalls)
  /\ j = 0 /\ inStat = FALSE
  /\ varList = <<>> /\ i = 0 /\ keys = <<>> /\ values = <<>>
  /\ sent = <<>> /\ fed = <<>>

\* The next call is of kind k, and ClientCb is between calls.
Next1(k) == j < Len(lib) /\ ~inStat /\ lib[j + 1].cb = k
Call == lib[j + 1]

\* A forwarding callback returns having made the gop4api* calls evs.
Forward(evs) ==
  /\ sent' = sent \o evs
  /\ j' = j + 1
  /\ UNCHANGED <<input, lib, inStat, varList, i, keys, values, fed>>

\* Lines 119-125: only an Error that Test()s true is formatted and sent.
HandleErrorErr ==
  /\ Next1("error")
  /\ Forward(IF Call.err # NoError THEN <<[go |-> "error", msg |-> Call.err]>>
                                  ELSE <<>>)

\* Lines 126-128: p4runcb's message, sent as is.
HandleErrorMsg ==
  /\ Next1("initerr")
  /\ Forward(<<[go |-> "error", msg |-> Call.err]>>)

\* Lines 129-136: the context and the formatted error; a null err gives
\* an empty message.
Retry ==
  /\ Next1("retry")
  /\ Forward(<<[go |-> "retry", msg |-> IF Call.err # NoError THEN Call.err ELSE ""]>>)

\* Lines 137-139 and 140-142.
OutputBinary == Next1("binary") /\ Forward(<<[go |-> "binary", data |-> Call.data]>>)
OutputText   == Next1("text") /\ Forward(<<[go |-> "text", data |-> Call.data]>>)

\* Lines 143-145: the level character becomes its number.
OutputInfo ==
  /\ Next1("info")
  /\ Forward(<<[go |-> "info", level |-> Digit(Call.level), data |-> Call.data]>>)

\* Lines 146-149: OutputStat starts with empty vectors.
BeginStat ==
  /\ Next1("stat")
  /\ inStat' = TRUE
  /\ varList' = Call.dict /\ i' = 0 /\ keys' = <<>> /\ values' = <<>>
  /\ UNCHANGED <<input, lib, j, sent, fed>>

\* Mutants of GetVar: `break` where the code has `continue`; the key and
\* value strviews swapped.
GetVarBreak ==
  /\ inStat /\ i < Len(varList)
  /\ IF varList[i + 1][1] \in Reserved
       THEN /\ i' = Len(varList)
            /\ UNCHANGED <<keys, values>>
       ELSE /\ keys' = Append(keys, varList[i + 1][1])
            /\ values' = Append(values, varList[i + 1][2])
            /\ i' = i + 1
  /\ UNCHANGED <<input, lib, j, inStat, varList, sent, fed>>

GetVarSwapped ==
  /\ inStat /\ i < Len(varList)
  /\ IF varList[i + 1][1] \in Reserved
       THEN UNCHANGED <<keys, values>>
       ELSE /\ keys' = Append(keys, varList[i + 1][2])
            /\ values' = Append(values, varList[i + 1][1])
  /\ i' = i + 1
  /\ UNCHANGED <<input, lib, j, inStat, varList, sent, fed>>

\* One iteration of lines 154-161: GetVar(i) succeeds; a reserved key is
\* skipped, any other is appended with its value.
GetVar ==
  /\ inStat /\ i < Len(varList)
  /\ IF varList[i + 1][1] \in Reserved
       THEN UNCHANGED <<keys, values>>
       ELSE /\ keys' = Append(keys, varList[i + 1][1])
            /\ values' = Append(values, varList[i + 1][2])
  /\ i' = i + 1
  /\ UNCHANGED <<input, lib, j, inStat, varList, sent, fed>>

\* Line 162: GetVar(i) failed, the loop ends, the vectors are forwarded
\* and OutputStat returns.
gop4apiOutputStat ==
  /\ inStat /\ i = Len(varList)
  /\ sent' = Append(sent, [go |-> "stat", keys |-> keys, values |-> values])
  /\ inStat' = FALSE
  /\ j' = j + 1
  /\ UNCHANGED <<input, lib, varList, i, keys, values, fed>>

\* Lines 164-169: a non-empty input is appended to the library's buffer,
\* on every call; an empty one leaves the buffer empty.
InputData ==
  /\ Next1("input")
  /\ fed' = Append(fed, IF Len(input) > 0 THEN input ELSE <<>>)
  /\ j' = j + 1
  /\ UNCHANGED <<input, lib, inStat, varList, i, keys, values, sent>>

\* Every call has returned.
Forwarded == j = Len(lib) /\ ~inStat /\ UNCHANGED svars

Next ==
  \/ HandleErrorErr \/ HandleErrorMsg \/ Retry \/ OutputBinary \/ OutputText
  \/ OutputInfo \/ BeginStat \/ GetVar \/ gop4apiOutputStat \/ InputData
  \/ Forwarded

Spec == Init /\ [][Next]_svars

-----------------------------------------------------------------------------
Stream == INSTANCE ResultStream WITH Hidden <- Reserved

\* ClientCb implements ResultStream: every callback, the multi-step
\* OutputStat loop included, delivers exactly the events its call stands
\* for to Go, once and in call order, with no partial record ever visible
\* (errors only when set, lines 119-125; info levels as numbers, line 144;
\* stat records with the reserved keys skipped and each key paired with
\* its own value, lines 154-162, spec.md 8); and every InputData hands
\* the library the caller's whole input (lines 164-169).
ClientCbStreams == Stream!RSpec

=============================================================================
