----------------------------- MODULE PackedArgs -----------------------------
(***************************************************************************)
(* The positional arguments of p4runcb (p4_cgo_bridge.cc:202-208).  The Go *)
(* caller concatenates its arguments into one buffer `joined` and passes   *)
(* their lengths in `argv`; the loop binds each slice as an unnamed        *)
(* variable, advancing `next` by each length.  Bytes are model values.     *)
(***************************************************************************)
EXTENDS Naturals, Sequences, SequencesExt

CONSTANTS
  Bytes,      \* the bytes an argument may contain
  MaxArgs,    \* bound: argc
  MaxArgLen   \* bound: the length of one argument

\* The argument lists a Go caller may pass.
ArgLists == UNION {[1..n -> BoundedSeq(Bytes, MaxArgLen)] : n \in 0..MaxArgs}

\* The Go side of the boundary: join the arguments, list their lengths.
Joined(a)  == IF a = <<>> THEN <<>> ELSE FlattenSeq(a)
Lengths(a) == [k \in DOMAIN a |-> Len(a[k])]

\* A strview (p4_cgo_bridge.h:24-29) is a pointer and a length: the len
\* bytes from offset off of the buffer b it points into.
View(b, off, len) == SubSeq(b, off + 1, off + len)

VARIABLES
  args,    \* the arguments the caller meant to pass
  joined,  \* strview joined
  argv,    \* the int array of lengths, argc = Len(argv)
  i,       \* loop index (0-based, as in the code)
  next,    \* offset of the next argument in joined
  vars     \* the values given to c->SetVar(StrRef::Null(), ...) so far

pvars == <<args, joined, argv, i, next, vars>>

TypeOK ==
  /\ args \in ArgLists
  /\ joined \in Seq(Bytes)
  /\ argv \in Seq(Nat)
  /\ i \in 0..Len(argv)
  /\ next \in 0..Len(joined)
  /\ vars \in Seq(Seq(Bytes))

Init ==
  /\ args \in ArgLists
  /\ joined = Joined(args)
  /\ argv = Lengths(args)
  /\ i = 0
  /\ next = 0
  /\ vars = <<>>

\* Mutant of SetVar: `next` is never advanced.
SetVarNoAdvance ==
  /\ i < Len(argv)
  /\ vars' = Append(vars, View(joined, next, argv[i + 1]))
  /\ i' = i + 1
  /\ UNCHANGED <<args, joined, argv, next>>

\* One iteration: SetVar(StrRef(&joined.p[next], args[i])); next += args[i].
SetVar ==
  /\ i < Len(argv)
  /\ vars' = Append(vars, View(joined, next, argv[i + 1]))
  /\ next' = next + argv[i + 1]
  /\ i' = i + 1
  /\ UNCHANGED <<args, joined, argv>>

\* The loop has bound every argument; c->Run follows.
Done == i = Len(argv) /\ UNCHANGED pvars

Next == SetVar \/ Done

Spec == Init /\ [][Next]_pvars

\* Round trip of the cgo boundary: once the loop ends, the session holds
\* exactly the caller's arguments, in order (spec.md 8, "foo","bar","baz").
UnpackRoundTrip == i = Len(argv) => vars = args

=============================================================================
