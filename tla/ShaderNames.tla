----------------------------- MODULE ShaderNames -----------------------------
(***************************************************************************)
(* The name splitting in shaderpacker's main (shaderpacker.cpp:331-341):  *)
(* the package name is the shader file's name without directory and       *)
(* extension, the output directory is the output file's path up to its    *)
(* last separator.  std::string::find_last_of and substr are modelled by   *)
(* what they do on 0-based positions, substr's std::out_of_range included. *)
(* Characters are model values of three kinds: dot, separator, other.     *)
(***************************************************************************)
EXTENDS PathSplit

CONSTANT MaxPathLen   \* bound: length of a path

\* A path main can open as a file: not empty, not ending in a separator.
Paths == {p \in BoundedSeq(Chars, MaxPathLen) : p # <<>> /\ p[Len(p)] \notin Seps}

VARIABLES
  shaderFile,   \* argv[3]
  outputFile,   \* argv[2]
  shaderName,   \* the result of line 337, or the exception it throws
  outputPath,   \* the result of line 341
  done          \* the names have been computed

nvars == <<shaderFile, outputFile, shaderName, outputPath, done>>

Init ==
  /\ shaderFile \in Paths /\ outputFile \in Paths
  /\ shaderName = Ok(<<>>) /\ outputPath = <<>>
  /\ done = FALSE

SplitNames ==
  /\ ~done
  /\ shaderName' = ShaderName(shaderFile)
  /\ outputPath' = OutputPath(outputFile)
  /\ done' = TRUE
  /\ UNCHANGED <<shaderFile, outputFile>>

Split == done /\ UNCHANGED nvars

Next == SplitNames \/ Split

Spec == Init /\ [][Next]_nvars

-----------------------------------------------------------------------------
\* Whenever line 337 does not throw, the package is named after the stem of
\* the shader file's name (directories and extension removed).
ShaderNameIsStem ==
  done /\ ~shaderName.thrown => shaderName.str = Stem(shaderFile)

\* The names main computes for PackShaders are usable for every shader and
\* output path main accepts: line 337 does not throw, and the directory
\* PackShaders creates (line 184) is not the output file itself, so the file
\* can then be opened for writing (lines 186-187).
NamesUsable == done => ~shaderName.thrown /\ outputPath # outputFile

=============================================================================
