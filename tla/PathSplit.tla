------------------------------ MODULE PathSplit ------------------------------
(***************************************************************************)
(* The string operations shaderpacker's main applies to its two path      *)
(* arguments (shaderpacker.cpp:333-341): std::string::find_last_of and    *)
(* substr, modelled by what they do on 0-based positions, substr's        *)
(* std::out_of_range included, and the package name and output directory  *)
(* computed from them.  Characters are model values of three kinds: dot,  *)
(* separator, other.  ShaderNames checks these operators over every short *)
(* path; ShaderPacker uses them in the whole pipeline.                    *)
(***************************************************************************)
EXTENDS Integers, Sequences, SequencesExt

CONSTANTS
  Dot,         \* '.'
  Seps,        \* the characters of "\\/"
  Others       \* any other character

Chars == {Dot} \cup Seps \cup Others
\* string::npos; only ever compared against.
npos == -1

\* s.find_last_of(set): the 0-based position of the last character of s in
\* set, or npos.
FindLastOf(s, set) ==
  LET at == {k \in 1..Len(s) : s[k] \in set}
  IN IF at = {} THEN npos ELSE Max(at) - 1

\* s.substr(pos, n): throws std::out_of_range when pos > size().
Substr(s, pos, n) ==
  IF pos > Len(s)
    THEN [thrown |-> TRUE, str |-> <<>>]
    ELSE [thrown |-> FALSE,
          str |-> SubSeq(s, pos + 1, pos + Min({n, Len(s) - pos}))]

Ok(s) == [thrown |-> FALSE, str |-> s]

\* Mutant of ShaderName: the slash itself is kept (lastslash for lastslash+1).
ShaderNameKeepsSlash(p) ==
  LET lastdot   == FindLastOf(p, {Dot})
      noExt     == IF lastdot = npos THEN p ELSE Substr(p, 0, lastdot).str
      lastslash == FindLastOf(p, Seps)
  IN IF lastslash = npos THEN Ok(noExt)
                         ELSE Substr(noExt, lastslash, Len(noExt))

\* Lines 333-337: shader_name_no_ext, then shader_name.
ShaderName(p) ==
  LET lastdot   == FindLastOf(p, {Dot})
      noExt     == IF lastdot = npos THEN p ELSE Substr(p, 0, lastdot).str
      lastslash == FindLastOf(p, Seps)
  IN IF lastslash = npos THEN Ok(noExt)
                         ELSE Substr(noExt, lastslash + 1, Len(noExt))

\* Lines 340-341: output_path.
OutputPath(p) ==
  LET lastslash == FindLastOf(p, Seps)
  IN IF lastslash = npos THEN p ELSE Substr(p, 0, lastslash).str

-----------------------------------------------------------------------------
\* Reference definitions: the file name is what follows the last separator;
\* its stem is what precedes the file name's last dot.
LastIn(s, set) == LET at == {k \in 1..Len(s) : s[k] \in set}
                  IN IF at = {} THEN 0 ELSE Max(at)
FileName(p) == SubSeq(p, LastIn(p, Seps) + 1, Len(p))
Stem(p) == LET f == FileName(p)
           IN IF LastIn(f, {Dot}) = 0 THEN f ELSE SubSeq(f, 1, LastIn(f, {Dot}) - 1)

=============================================================================
