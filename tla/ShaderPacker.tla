---------------------------- MODULE ShaderPacker ----------------------------
(***************************************************************************)
(* shaderpacker's main (shaderpacker.cpp:263-354) with Compile (192-261)  *)
(* and PackShaders (153-190): check the arguments, open the shader file,  *)
(* collect one entry per @shader(name, type) marker, stop when there is   *)
(* none, compile every entry with DXC, split the path names (PathSplit)   *)
(* and write the package.                                                 *)
(*                                                                         *)
(* Data is abstracted: a marker is the sequence of \w+ words the second   *)
(* regex finds in it, a word is its case-folded text and whether it had   *)
(* capitals, a compiled shader is one of three blobs.  DXC is an external *)
(* library: each of its calls succeeds or fails by a nondeterministic     *)
(* choice.  debug says whether assert is compiled in (line 33 offers      *)
(* NDEBUG), fixed for a behaviour; a failed assert aborts the program.    *)
(***************************************************************************)
EXTENDS PathSplit, FiniteSets

CONSTANTS
  Words,        \* the words a marker can contain, [text, caps] records
  MaxMarkers,   \* bound: number of markers in the shader file
  MaxWords,     \* bound: number of words in a marker
  ShaderFiles,  \* the argv[3] values tried
  OutputFiles   \* the argv[2] values tried

\* A word a marker may lack: what a dereferenced end iterator yields.
NoWord == [text |-> "", caps |-> FALSE]
Word(s) == [text |-> s, caps |-> FALSE]

\* A marker "@w1(w2 ...)" as the words its \w+ iterator visits.
Markers == {m \in BoundedSeq(Words, MaxWords) : m # <<>>}

ShaderTypes == {"vertex", "pixel", "geometry", "hull", "domain", "compute"}

\* What an entry's shader buffer holds: nullptr (never compiled), the code
\* DXC produced, or the result blob of a failed compilation.
Blobs == {"none", "code", "failed"}

NoFile == [name |-> <<>>, shaders |-> <<>>]

\* Mutant of CompareString: the comparison is case-sensitive.
CompareStringCased(a, b) == a = b

\* Lines 120-123: equal sizes and equal characters after tolower.
CompareString(a, b) == a.text = b.text

\* Lines 125-136: the type named by the word; an unknown name fails the
\* assert and, without it, is taken as vertex.
GetShaderType(w) ==
  IF w.text \in ShaderTypes THEN [type |-> w.text, ok |-> TRUE]
                            ELSE [type |-> "vertex", ok |-> FALSE]

\* Lines 138-150: the DXC target profile of a shader type; the default
\* branch is unreachable, GetShaderType returns one of the six.
GetTargetProfile(type) ==
  [vertex |-> "vs_6_0", pixel |-> "ps_6_0", geometry |-> "gs_6_0",
   hull |-> "hs_6_0", domain |-> "ds_6_0", compute |-> "cs_6_0"][type]

VARIABLES
  debug,       \* TRUE: assert() is active, FALSE: built with NDEBUG
  argsOk,      \* argc == 4
  found,       \* the shader file opens
  markers,     \* the markers the first regex finds, in order
  shaderFile,  \* argv[3]
  outputFile,  \* argv[2]
  pc,          \* where main is
  k,           \* the marker or entry the current loop is at
  entries,     \* shader_entries
  pkgName,     \* shader_name (line 337)
  outDir,      \* output_path (line 341)
  ub,          \* the kinds of undefined behaviour met so far
  status,      \* how the program ended
  file,        \* the contents of the output file, NoFile if not written
  cap,         \* shader_entries.capacity()
  freed        \* entries whose shader buffer was deleted; the buffer an
               \* entry gets at Compile is named by the entry's index

vars == <<debug, argsOk, found, markers, shaderFile, outputFile, pc, k, entries,
          pkgName, outDir, ub, status, file, cap, freed>>
input == <<debug, argsOk, found, markers, shaderFile, outputFile>>

\* The program ends with status s.
Exit(s) == pc' = "done" /\ status' = s

\* assert(cond): with debug a false cond aborts; otherwise the step does
\* what continue describes.
Asserted(cond, continue) ==
  IF cond \/ ~debug THEN continue ELSE Exit("abort")

Init ==
  /\ debug \in BOOLEAN /\ argsOk \in BOOLEAN /\ found \in BOOLEAN
  /\ markers \in BoundedSeq(Markers, MaxMarkers)
  /\ shaderFile \in ShaderFiles /\ outputFile \in OutputFiles
  /\ pc = "args" /\ k = 1 /\ entries = <<>>
  /\ pkgName = <<>> /\ outDir = <<>>
  /\ ub = {} /\ status = "running" /\ file = NoFile
  /\ cap = 0 /\ freed = {}

\* Lines 265-275 and 348-351: usage error, or open the file; a file that
\* does not open only fails an assert.
CheckArgs ==
  /\ pc = "args"
  /\ IF ~argsOk THEN Exit("exit1")
     ELSE IF found THEN pc' = "collect" /\ UNCHANGED status
     ELSE Asserted(FALSE, Exit("exit0"))
  /\ UNCHANGED <<input, k, entries, pkgName, outDir, ub, file, cap, freed>>

\* SShaderEntry (lines 46-54) declares a destructor that deletes shader
\* and keeps the implicit copy constructor, which copies the pointer.  A
\* push_back into a full vector copies every element into new storage
\* (MSVC grows the capacity by half, at least to the new size) and
\* destroys the old elements: each buffer an element held is deleted
\* while its copy still points at it.  The braced temporary pushed at
\* line 305 holds nullptr, so destroying it deletes nothing.
Reallocate ==
  LET n     == Len(entries) + 1
      grown == cap + cap \div 2
  IN IF Len(entries) < cap
       THEN UNCHANGED <<cap, freed>>
       ELSE /\ cap' = IF grown < n THEN n ELSE grown
            /\ freed' = freed \cup {i \in DOMAIN entries : entries[i].data # "none"}

\* Mutant of Push: the entry is compiled as soon as it is collected (the
\* TODO at line 325 done by moving Compile into the marker loop).
PushCompiled(name, type) ==
  LET t == GetShaderType(type)
  IN /\ Reallocate
     /\ entries' = Append(entries, [name |-> name, type |-> t.type, data |-> "code",
                                   profile |-> GetTargetProfile(t.type)])
     /\ Asserted(t.ok, UNCHANGED <<pc, status>>)

\* shader_entries.push_back (line 305): the type comes from GetShaderType,
\* whose assert fires on an unknown name.
Push(name, type) ==
  LET t == GetShaderType(type)
  IN /\ Reallocate
     /\ entries' = Append(entries, [name |-> name, type |-> t.type, data |-> "none",
                                   profile |-> ""])
     /\ Asserted(t.ok, UNCHANGED <<pc, status>>)

\* Lines 288-312, one marker.  The keyword is compared with "shader"; any
\* other keyword fails an assert and is skipped.  A shader marker with
\* fewer than three words dereferences the end iterator (lines 300, 302),
\* which is undefined: the build may crash, or read an empty word.
CollectMarker ==
  /\ pc = "collect" /\ k <= Len(markers)
  /\ LET m == markers[k] IN
       IF ~CompareString(m[1], Word("shader"))
         THEN /\ Asserted(FALSE, UNCHANGED <<pc, status>>)
              /\ UNCHANGED <<entries, ub, cap, freed>>
       ELSE IF Len(m) >= 3 THEN Push(m[2], m[3]) /\ UNCHANGED ub
       ELSE /\ ub' = ub \cup {"marker"}
            /\ \/ Exit("crash") /\ UNCHANGED <<entries, cap, freed>>
               \/ Push(IF Len(m) = 2 THEN m[2] ELSE NoWord, NoWord)
  /\ k' = k + 1
  /\ UNCHANGED <<input, pkgName, outDir, file>>

\* Lines 316-321: no entry ends the program; otherwise compile them.
CheckEntries ==
  /\ pc = "collect" /\ k > Len(markers)
  /\ IF entries = <<>> THEN Exit("exit1")
                       ELSE pc' = "compile" /\ UNCHANGED status
  /\ k' = 1
  /\ UNCHANGED <<input, entries, pkgName, outDir, ub, file, cap, freed>>

\* Line 256 or 258 dereferences a null pointer: the program crashes.
NullDeref ==
  /\ ub' = ub \cup {"result"}
  /\ Exit("crash")
  /\ UNCHANGED entries

\* Lines 258-260: the entry takes a new buffer holding the result blob,
\* compiled for the profile main passed (line 329).
Compiled(blob) ==
  /\ entries' = [entries EXCEPT ![k].data = blob,
                                ![k].profile = GetTargetProfile(entries[k].type)]
  /\ freed' = freed \ {k}
  /\ UNCHANGED <<pc, status, ub>>

\* Compile (lines 192-261) of entry k, from the loop at lines 327-330,
\* with the target profile of the entry's type.
\* DXC's answer is chosen: success; a failure to create the library, the
\* compiler or the source blob (asserts, then returns with the entry
\* empty); a failed Compile call, which leaves result null; or a failed
\* compilation, whose result yields either no code blob or a blob.
CompileEntry ==
  /\ pc = "compile" /\ k <= Len(entries)
  /\ \/ Compiled("code")
     \/ /\ Asserted(FALSE, UNCHANGED <<pc, status>>)
        /\ UNCHANGED <<entries, ub, freed>>
     \/ NullDeref /\ UNCHANGED freed
     \/ Compiled("failed")
  /\ k' = k + 1
  /\ UNCHANGED <<input, pkgName, outDir, file, cap>>

\* Lines 333-341: the package name, whose substr may throw (nothing
\* catches it, so std::terminate), then the output directory.
SplitNames ==
  /\ pc = "compile" /\ k > Len(entries)
  /\ LET n == ShaderName(shaderFile) IN
       IF n.thrown
         THEN Exit("terminate") /\ UNCHANGED <<pkgName, outDir>>
         ELSE /\ pc' = "pack" /\ UNCHANGED status
              /\ pkgName' = n.str
              /\ outDir' = OutputPath(outputFile)
  /\ UNCHANGED <<input, k, entries, ub, file, cap, freed>>

\* The package PackShaders builds (lines 155-178): the name and, in order,
\* every entry's name, type and shader buffer.
Package == [name |-> pkgName, shaders |-> entries]

\* Mutant of PackShaders: a stream that did not open is not checked.
PackShadersUnchecked ==
  /\ pc = "pack"
  /\ Exit("exit0")
  /\ file' = IF outDir # outputFile THEN Package ELSE file
  /\ UNCHANGED <<input, k, entries, pkgName, outDir, ub, cap, freed>>

\* PackShaders (lines 153-190) and main's return 0 (line 353).
\* create_directories(output_path) leaves a directory at output_path, so
\* the ofstream opens unless that directory is the output file itself; a
\* stream that did not open fails the assert, and otherwise writes nothing.
PackShaders ==
  /\ pc = "pack"
  /\ Asserted(outDir # outputFile, Exit("exit0"))
  /\ file' = IF outDir # outputFile THEN Package ELSE file
  /\ UNCHANGED <<input, k, entries, pkgName, outDir, ub, cap, freed>>

\* The program has ended.
Ended == pc = "done" /\ UNCHANGED vars

Next ==
  \/ CheckArgs \/ CollectMarker \/ CheckEntries \/ CompileEntry
  \/ SplitNames \/ PackShaders \/ Ended

Spec == Init /\ [][Next]_vars

-----------------------------------------------------------------------------
TypeOK ==
  /\ pc \in {"args", "collect", "compile", "pack", "done"}
  /\ status \in {"running", "exit0", "exit1", "abort", "crash", "terminate"}
  /\ ub \subseteq {"marker", "result"}
  /\ k \in 1..(MaxMarkers + 1)
  /\ \A i \in DOMAIN entries :
       /\ entries[i].type \in ShaderTypes
       /\ entries[i].data \in Blobs
  /\ (pc = "done") <=> (status # "running")
  /\ cap \in Len(entries)..MaxMarkers /\ freed \subseteq 1..MaxMarkers

\* The shader markers of the file, in order: keyword "shader" in any case.
ShaderMarkers == SelectSeq(markers, LAMBDA m : m[1].text = "shader")

\* Reference: DXC names the shader model 6.0 target of a stage by the
\* stage's initial followed by "s_6_0".
ShaderModel6(t) ==
  [vertex |-> "v", pixel |-> "p", geometry |-> "g", hull |-> "h",
   domain |-> "d", compute |-> "c"][t] \o "s_6_0"

\* When no undefined behaviour was met, a written package is named after
\* the shader file's stem and holds one shader per @shader marker, in the
\* file's order, with the marker's entry point, when the marker names a
\* known type that type, and code compiled for its type's target (marker
\* parsing at lines 288-312, GetTargetProfile, the name split at 333-337
\* and PackShaders together).
PackageMatchesMarkers ==
  file # NoFile /\ ub = {} =>
    /\ file.name = Stem(shaderFile)
    /\ Len(file.shaders) = Len(ShaderMarkers)
    /\ \A i \in DOMAIN ShaderMarkers :
         LET m == ShaderMarkers[i] IN
         /\ file.shaders[i].name = m[2]
         /\ m[3].text \in ShaderTypes => file.shaders[i].type = m[3].text
         /\ file.shaders[i].data # "none" =>
              file.shaders[i].profile = ShaderModel6(file.shaders[i].type)

\* With asserts compiled in, main returns 0 only after the package file
\* was written: every failure on the way (the shader file not found at line 350, a stream that did not
\* open at line 187) ends the program some other way.
ExitZeroWritesPackage == debug /\ status = "exit0" => file # NoFile

\* No shader_entries element points at a buffer that was deleted: every
\* reallocation of the vector during marker collection (line 305) copies
\* and destroys elements whose shader is still nullptr, because Compile
\* allocates the buffers only after collection (lines 325-330).  A
\* dangling buffer would be written by PackShaders (line 162) and deleted
\* twice when the vector is destroyed.
NoDanglingShader ==
  \A i \in DOMAIN entries : entries[i].data # "none" => i \notin freed

\* main meets no undefined behaviour: Compile never dereferences a null
\* result or code blob (lines 256-260), as the comment at line 253 intends a
\* failed compilation to be handled, and marker parsing never reads past the
\* words of a marker (lines 300, 302).
NoUndefinedBehaviour == ub = {}

=============================================================================
