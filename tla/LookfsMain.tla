-------------------------------- MODULE LookfsMain --------------------------------
(***************************************************************************)
(* _tmain of lookfs.cpp: it parses the command line (CommandLine), opens   *)
(* the output file, enables the backup privilege for as long as it runs    *)
(* (priv.h, priv.c) and traverses one path after the other, of which only  *)
(* the result is modelled here, see LookfsTraversal.  The functions of     *)
(* ntdll.dll are resolved when they are first called (delayimp.c).         *)
(***************************************************************************)
EXTENDS CommandLine

CONSTANTS
  Ntdlls,      \* the sets of functions that an ntdll.dll may export
  TokenSizes,  \* numbers of privileges that a token may hold
  Results      \* what traversePath may return

(* Functions a traversal calls.  WithStatus and U are the two forms of       *)
(* RtlDosPathNameToNtPathName_U; U is called by the fallback for the other.  *)
Imports == {"WithStatus", "U", "NtOpenFile"}

ASSUME MainAssumption ==
  /\ Ntdlls \subseteq SUBSET Imports
  /\ TokenSizes \subseteq Nat
  /\ Results \subseteq Nat /\ 1 \in Results

VARIABLES
  pc,
  given,       \* ghost: the command line as it was given
  settings,    \* those of g_settings that differ from the default
  outfile,     \* is g_outfile open?
  streams,     \* how many output files are open
  token,       \* the process token: [size, backup (its index, 0 for none), enabled]
  i,           \* the privilege PrivHasTokenPrivilege is at
  m_bEnabled,  \* of privBackup
  ntdll,       \* the functions the system's ntdll.dll exports
  bound,       \* the imports that have been resolved
  n, retval,
  errors       \* ghost: the results of all traversals

options == <<given, settings, outfile, streams>>
privilege == <<token, i, m_bEnabled>>
imports == <<ntdll, bound>>
paths == <<n, retval, errors>>
vars == <<parser, pc, options, privilege, imports, paths>>

Tokens == UNION { [size : {s}, backup : 0..s, enabled : BOOLEAN] : s \in TokenSizes }
NoToken == [size |-> 0, backup |-> 0, enabled |-> FALSE]

TypeOK ==
  /\ ParserTypeOK
  /\ pc \in {"next", "option", "banner", "has", "lookup", "enable", "traverse", "call",
             "restore", "exit", "raised"}
  /\ settings \subseteq Settings
  /\ outfile \in BOOLEAN /\ streams \in Nat
  /\ token \in Tokens \cup {NoToken} /\ i \in Nat /\ m_bEnabled \in BOOLEAN
  /\ ntdll \subseteq Imports /\ bound \subseteq Imports
  /\ n \in 0..MaxArgs /\ retval \in Results \cup {0} /\ errors \subseteq Results

Init ==
  /\ ParserInit
  /\ given = argv
  /\ pc = "next"
  /\ settings = {} /\ outfile = FALSE /\ streams = 0
  /\ token = NoToken /\ i = 0 /\ m_bEnabled = FALSE
  /\ ntdll = {} /\ bound = {}
  /\ n = 0 /\ retval = 0 /\ errors = {}

-----------------------------------------------------------------------------
(* The options                                                               *)

CallNext ==
  /\ pc = "next"
  /\ NextOption
  /\ pc' = IF more' THEN "option" ELSE "banner"
  /\ UNCHANGED <<options, privilege, imports, paths>>

Valid(id) == pc = "option" /\ m_nLastError = "SUCCESS" /\ m_nOptionId = id

OptionInError ==
  /\ pc = "option" /\ m_nLastError # "SUCCESS"
  /\ pc' = "next"
  /\ UNCHANGED <<parser, options, privilege, imports, paths>>

HelpOrVersion ==
  /\ Valid("help") \/ Valid("version")
  /\ pc' = "exit"
  /\ UNCHANGED <<parser, options, privilege, imports, paths>>

Set ==
  /\ \E s \in Settings : Valid(s) /\ settings' = settings \cup {s}
  /\ pc' = "next"
  /\ UNCHANGED <<parser, given, outfile, streams, privilege, imports, paths>>

(* The file that is open is closed, whether the new one can be opened or not.*)
OpenOutput ==
  /\ Valid("outputfile")
  /\ outfile' \in BOOLEAN
  /\ streams' = streams - (IF outfile THEN 1 ELSE 0) + (IF outfile' THEN 1 ELSE 0)
  /\ pc' = "next"
  /\ UNCHANGED <<parser, given, settings, privilege, imports, paths>>

StopOptions ==
  /\ Valid("stop")
  /\ Stop
  /\ pc' = "next"
  /\ UNCHANGED <<options, privilege, imports, paths>>

(* Without files and with the logo there is only help.                       *)
Banner ==
  /\ pc = "banner"
  /\ pc' = IF "nologo" \notin settings /\ Files = <<>> THEN "exit" ELSE "has"
  /\ UNCHANGED <<parser, options, privilege, imports, paths>>

-----------------------------------------------------------------------------
(* CSnapEnableAssignedPrivilege                                              *)

(* PrivHasContextTokenPrivilege: there is no token of the thread; that of    *)
(* the process, of which nobody has known what it holds, may be unreadable.  *)
HasContextTokenPrivilege ==
  /\ pc = "has"
  /\ \/ pc' = "traverse" /\ UNCHANGED privilege
     \/ /\ token' \in { t \in Tokens : t.enabled => t.backup > 0 }
        /\ i' = 1 /\ pc' = "lookup" /\ UNCHANGED m_bEnabled
  /\ UNCHANGED <<parser, options, imports, paths>>

(* Mutant: a name that cannot be looked up is taken for the one wanted.      *)
HasTokenPrivilegeAny ==
  /\ pc = "lookup"
  /\ \/ i <= token.size /\ i # token.backup /\ i' = i + 1 /\ UNCHANGED pc
     \/ i <= token.size /\ i' = 0 /\ pc' = "enable"
     \/ i' = 0 /\ pc' = "traverse"
  /\ UNCHANGED <<parser, options, token, m_bEnabled, imports, paths>>

(* PrivHasTokenPrivilege looks up the name of each privilege the token holds;*)
(* if that fails for one of them it looks no further.                        *)
HasTokenPrivilege ==
  /\ pc = "lookup"
  /\ \/ i <= token.size /\ i # token.backup /\ i' = i + 1 /\ UNCHANGED pc
     \/ i = token.backup /\ i' = 0 /\ pc' = "enable"
     \/ i' = 0 /\ pc' = "traverse"
  /\ UNCHANGED <<parser, options, token, m_bEnabled, imports, paths>>

(* AdjustTokenPrivileges also succeeds for a privilege the token lacks.      *)
SetContextPrivilege(on) ==
  token' = [token EXCEPT !.enabled = IF token.backup > 0 THEN on ELSE FALSE]

Enable ==
  /\ pc = "enable"
  /\ \/ SetContextPrivilege(TRUE) /\ m_bEnabled' = TRUE
     \/ UNCHANGED <<token, m_bEnabled>>
  /\ pc' = "traverse"
  /\ UNCHANGED <<parser, options, i, imports, paths>>

(* The privilege is disabled if it was enabled here, also when it had been   *)
(* before; a failure to do so is ignored.                                    *)
Restore ==
  /\ pc = "restore"
  /\ (m_bEnabled /\ SetContextPrivilege(FALSE)) \/ UNCHANGED token
  /\ pc' = "exit"
  /\ UNCHANGED <<parser, options, i, m_bEnabled, imports, paths>>

-----------------------------------------------------------------------------
(* The paths                                                                 *)

(* Mutant: the last result is the exit code.                                 *)
LastResult(err) == err

WorseResult(err) == IF err > retval THEN err ELSE retval

(* traversePath is called; only now does it matter which functions there are.*)
Traverse ==
  /\ pc = "traverse" /\ n < Len(Files)
  /\ IF bound = {} THEN ntdll' \in Ntdlls ELSE UNCHANGED ntdll
  /\ pc' = "call"
  /\ UNCHANGED <<parser, options, privilege, bound, paths>>

(* traversePath returns before any function of ntdll.dll is called, as the   *)
(* path is empty or has no full name (lookfs.cpp:386, :535-553, :663).       *)
ReturnEarly ==
  /\ pc = "traverse" /\ n < Len(Files)
  /\ retval' = WorseResult(1) /\ errors' = errors \cup {1}
  /\ n' = n + 1
  /\ UNCHANGED <<parser, pc, options, privilege, imports>>

(* The functions that NtdllDliHook finds though ntdll.dll lacks them.        *)
NtdllDliHook == {"WithStatus"}

(* An import is called for the first time.  That of a function which nobody  *)
(* finds raises an exception, which nobody handles.  The fallback calls U.   *)
Call(f) ==
  /\ pc = "call" /\ f \notin bound
  /\ f = "U" => "WithStatus" \in bound \ ntdll
  /\ IF f \in ntdll \cup NtdllDliHook
     THEN bound' = bound \cup {f} /\ UNCHANGED pc
     ELSE pc' = "raised" /\ UNCHANGED bound
  /\ UNCHANGED <<parser, options, privilege, ntdll, paths>>

(* It returns, having called at least the first function and, as far as that *)
(* is the fallback, what it calls.                                           *)
Return(err) ==
  /\ pc = "call" /\ "WithStatus" \in bound
  /\ "WithStatus" \in ntdll \/ "U" \in bound
  /\ retval' = WorseResult(err) /\ errors' = errors \cup {err}
  /\ n' = n + 1
  /\ pc' = "traverse"
  /\ UNCHANGED <<parser, options, privilege, imports>>

AllTraversed ==
  /\ pc = "traverse" /\ n = Len(Files)
  /\ pc' = "restore"
  /\ UNCHANGED <<parser, options, privilege, imports, paths>>

Ended == pc \in {"exit", "raised"} /\ UNCHANGED vars

Next ==
  \/ CallNext \/ OptionInError \/ HelpOrVersion \/ Set \/ OpenOutput \/ StopOptions \/ Banner
  \/ HasContextTokenPrivilege \/ HasTokenPrivilege \/ Enable \/ Restore
  \/ Traverse \/ ReturnEarly \/ AllTraversed
  \/ \E f \in Imports : Call(f)
  \/ \E err \in Results : Return(err)
  \/ Ended

Spec == Init /\ [][Next]_vars

-----------------------------------------------------------------------------
(* What is meant by a command line, read from left to right.                 *)

Parsed == pc \notin {"next", "option"} /\ (pc = "exit" => ~more)

StopsAt == { k \in DOMAIN given :
               /\ given[k].dash
               /\ \/ given[k].option = "stop" /\ ~given[k].equals
                  \/ Clumped(given[k]) /\ \E j \in DOMAIN given[k].letters : given[k].letters[j] = "-" }
Stopped(k) == \E j \in StopsAt : j < k

TakesNext(arg) == arg.dash /\ arg.option = "outputfile" /\ ~arg.equals

IsFile(k) ==
  \/ Stopped(k)
  \/ ~given[k].dash /\ ~(k > 1 /\ TakesNext(given[k - 1]))

(* All letters of a clump count, also those behind a hyphen among them: when *)
(* Stop has been called, Next still returns what is left of the clump.       *)
Sets(arg) ==
  IF ~arg.dash \/ arg.equals THEN {}
  ELSE IF Clumped(arg) THEN { Letter(arg.letters[j]) : j \in DOMAIN arg.letters }
  ELSE {arg.option}

(* "files will be returned to the application in the same order they were    *)
(* supplied" (SimpleOpt.h:58): however options and files alternate, the files*)
(* are what is neither an option nor the argument of one, and everything     *)
(* behind "--", in their order, while the shuffling stays in its buffer.     *)
FilesInOrder ==
  Parsed /\ ~overrun =>
    \E at \in [1..Len(Files) -> DOMAIN given] :
      /\ \A j, k \in 1..Len(Files) : j < k => at[j] < at[k]
      /\ { at[j] : j \in 1..Len(Files) } = { k \in DOMAIN given : IsFile(k) }
      /\ \A j \in 1..Len(Files) : Files[j] = given[at[j]]

(* A setting is made exactly when an option, alone or among several letters, *)
(* asks for it in an argument that is not behind the one that stops, be it   *)
(* "--" or a clump with a hyphen (lookfs.cpp, _tmain).  The rest of such a   *)
(* clump counts as well, although behind "--" everything is a path           *)
(* (lookfs.cpp:628) and Next() should return false (SimpleOpt.h:444-445).    *)
SettingsAsGiven ==
  Parsed /\ ~overrun =>
    settings = Settings \cap UNION { Sets(given[k]) : k \in { k \in DOMAIN given : ~Stopped(k) } }

(* The buffer on the stack is too short only if no other could be allocated, *)
(* a failure that nobody notices (SimpleOpt.h, Init and ShuffleArg).         *)
OverrunOnlyOutOfMemory == overrun => outOfMemory

(* However often an output file is given, at most the last of them is open   *)
(* (CFileStreamWrapper).                                                     *)
OneOutputFile == streams = IF outfile THEN 1 ELSE 0

(* The program acts on the command line as it was given (_tmain).            *)
CommandLineObeyed ==
  TypeOK /\ FilesInOrder /\ SettingsAsGiven /\ OverrunOnlyOutOfMemory /\ OneOutputFile

(* While paths are traversed and the object says that the privilege was      *)
(* enabled, the token really holds it and has it enabled, though setting a   *)
(* privilege that the token lacks succeeds as well (priv.c, priv.h).         *)
EnabledMeansHeld ==
  m_bEnabled /\ pc \in {"traverse", "call", "restore"} => token.backup > 0 /\ token.enabled

(* The exit code is the worst of all results, one for each file (_tmain).    *)
ExitCodeIsWorst ==
  pc = "exit" /\ n > 0 => n = Len(Files) /\ retval = Max(errors \cup {0})

(* An ntdll.dll that only lacks the newer of the two functions, as those of  *)
(* old systems do, never ends the program (delayimp.c, NtdllDliHook).        *)
OldNtdllSuffices == pc = "raised" => ~({"U", "NtOpenFile"} \subseteq ntdll)

(* How the program ends: with its exit code, or for want of a function.      *)
EndsInOrder == ExitCodeIsWorst /\ OldNtdllSuffices
===================================================================================
