---------------------------- MODULE WindowsUtils ----------------------------
(***************************************************************************)
(* src/libs/go/windows_utils/process_utils.cc: IsAdmin (IsUserAdmin) and   *)
(* RunShellCommand, called one after the other by a Go caller.            *)
(*                                                                         *)
(* The Win32 calls are external: each succeeds or fails by a              *)
(* nondeterministic choice, with the outcomes their documentation gives.  *)
(* RunShellCommand leaves SHELLEXECUTEINFOW uninitialised apart from the  *)
(* fields it sets; reading fMask when waitForCompletion is FALSE is a     *)
(* read of an indeterminate value, modelled as any set of mask bits.  Of  *)
(* the bits, SEE_MASK_NOCLOSEPROCESS asks for a process handle and        *)
(* SEE_MASK_CLASSNAME stands for every bit that makes ShellExecuteExW read *)
(* one of the fields the code never set (lpClass, hkeyClass, lpIDList).   *)
(* The started program runs concurrently and may exit at any time.        *)
(***************************************************************************)
EXTENDS Naturals

MaskBits == {"SEE_MASK_NOCLOSEPROCESS", "SEE_MASK_CLASSNAME"}

\* IsUserAdmin, lines 18-50: b is AllocateAndInitializeSid's result; when
\* it succeeded, CheckTokenMembership stores the membership in b, or fails
\* and b is set to FALSE (line 44).
IsUserAdmin(allocOk, checkOk, member) ==
  allocOk /\ checkOk /\ member

\* The RunShellCommand prototype (windows_utils.h:29-31) as far as the
\* code tells its arguments apart: file, parameters, directory, verb and
\* show go unchanged into SHELLEXECUTEINFOW.
ShellCommandArgs == [waitForCompletion : BOOLEAN]

VARIABLES
  member,     \* the caller's token is in the Administrators group
  isAdmin,    \* {what IsAdmin returned}, {} before it is called
  wait,       \* the waitForCompletion argument
  fMask,      \* seiw.fMask as ShellExecuteExW reads it
  pc,         \* where the caller is
  launched,   \* what ShellExecuteExW started: "none", a "new" process, or
              \* the document handed to an "existing" instance
  work,       \* the started program: "none", "running", "exited"
  hProcess,   \* seiw.hProcess: "null", an "open" handle, or "closed"
  result,     \* ShellExecuteExW's result
  crashed     \* ShellExecuteExW read an indeterminate pointer and faulted

wvars == <<member, isAdmin, wait, fMask, pc, launched, work, hProcess,
           result, crashed>>

Init ==
  /\ member \in BOOLEAN
  /\ \E a \in ShellCommandArgs : wait = a.waitForCompletion
  /\ isAdmin = {} /\ fMask = {} /\ pc = "admin"
  /\ launched = "none" /\ work = "none" /\ hProcess = "null"
  /\ result = FALSE /\ crashed = FALSE

\* IsAdmin, lines 52-54.
IsAdmin ==
  /\ pc = "admin"
  /\ \E allocOk, checkOk \in BOOLEAN :
       isAdmin' = {IsUserAdmin(allocOk, checkOk, member)}
  /\ pc' = "fill"
  /\ UNCHANGED <<member, wait, fMask, launched, work, hProcess, result, crashed>>

\* Lines 57-66: only cbSize, lpVerb, lpFile, lpParameters, lpDirectory,
\* nShow, and fMask when waiting, are set.
FillInfo ==
  /\ pc = "fill"
  /\ IF wait THEN fMask' = {"SEE_MASK_NOCLOSEPROCESS"}
             ELSE fMask' \in SUBSET MaskBits
  /\ pc' = "exec"
  /\ UNCHANGED <<member, isAdmin, wait, launched, work, hProcess, result, crashed>>

\* Line 68, ShellExecuteExW.  With a bit that makes it read an unset field
\* it faults or fails.  Otherwise it fails, starts a new process (whose
\* handle it returns only under SEE_MASK_NOCLOSEPROCESS), or hands the file
\* to an instance that is already running (hProcess stays NULL).
ShellExecuteExW ==
  /\ pc = "exec"
  /\ IF "SEE_MASK_CLASSNAME" \in fMask
       THEN /\ \/ crashed' = TRUE /\ pc' = "done"
               \/ UNCHANGED crashed /\ pc' = "wait"
            /\ UNCHANGED <<launched, work, hProcess, result>>
       ELSE /\ \/ UNCHANGED <<launched, work, hProcess, result>>
               \/ /\ launched' = "new" /\ work' = "running" /\ result' = TRUE
                  /\ hProcess' = IF "SEE_MASK_NOCLOSEPROCESS" \in fMask
                                   THEN "open" ELSE "null"
               \/ /\ launched' = "existing" /\ work' = "running"
                  /\ result' = TRUE /\ UNCHANGED hProcess
            /\ pc' = "wait" /\ UNCHANGED crashed
  /\ UNCHANGED <<member, isAdmin, wait, fMask>>

\* Mutant of WaitAndClose: the handle is closed without waiting.
CloseWithoutWait ==
  /\ pc = "wait"
  /\ IF result /\ wait /\ hProcess = "open"
       THEN hProcess' = "closed" ELSE UNCHANGED hProcess
  /\ pc' = "done"
  /\ UNCHANGED <<member, isAdmin, wait, fMask, launched, work, result, crashed>>

\* Lines 70-75: when it succeeded and the caller waits, block until the
\* process handle is signalled (a NULL handle fails at once), close it,
\* and return the result.
WaitAndClose ==
  /\ pc = "wait"
  /\ IF result /\ wait /\ hProcess = "open"
       THEN work = "exited" /\ hProcess' = "closed"
       ELSE UNCHANGED hProcess
  /\ pc' = "done"
  /\ UNCHANGED <<member, isAdmin, wait, fMask, launched, work, result, crashed>>

\* The started program ends on its own.
ProgramExits ==
  /\ work = "running"
  /\ work' = "exited"
  /\ UNCHANGED <<member, isAdmin, wait, fMask, pc, launched, hProcess, result, crashed>>

Returned == pc = "done" /\ work # "running" /\ UNCHANGED wvars

WNext ==
  \/ IsAdmin \/ FillInfo \/ ShellExecuteExW \/ WaitAndClose
  \/ ProgramExits \/ Returned

WSpec == Init /\ [][WNext]_wvars

-----------------------------------------------------------------------------
\* With waitForCompletion, a RunShellCommand that started a new process
\* returns only after that process has exited (lines 59-61 and 70-72).
WaitedForProcess ==
  pc = "done" /\ wait /\ result /\ launched = "new" => work = "exited"

\* RunShellCommand never returns with the started process's handle still
\* open: the handle is asked for only when the caller waits, and then
\* closed at line 72.
NoHandleLeak == pc = "done" => hProcess # "open"

=============================================================================
