------------------------------- MODULE CommandLine -------------------------------
(***************************************************************************)
(* CSimpleOptTempl (thirdparty/simpleopt/SimpleOpt.h) as lookfs uses it:   *)
(* options are matched exactly, single letters may be clumped, and the     *)
(* arguments that are no options are moved to the end of argv one batch    *)
(* after the other while it is parsed.                                     *)
(*                                                                         *)
(* argv[0], the program, is left out: argv[i] is m_argv[i].                *)
(***************************************************************************)
EXTENDS Integers, Sequences, FiniteSetsExt

CONSTANTS
  Arguments,  \* what a command line is made of
  MaxArgs,    \* how many of them at most
  StaticBuf   \* SO_STATICBUF

Settings == {"nologo", "noerr", "verbose", "nocase", "showall", "printname"}
OptionIds == Settings \cup {"help", "version", "outputfile", "stop"}

(* An argument: does it begin with a switch character (a slash is as good    *)
(* as a hyphen); the option whose name it is, "" for none; is there an equals*)
(* sign in it; and its letters, if it begins with a single hyphen.           *)
Argument == [dash : BOOLEAN, option : OptionIds \cup {""}, equals : BOOLEAN, letters : Seq(STRING)]

ASSUME CommandLineAssumption ==
  /\ Arguments \subseteq Argument
  /\ MaxArgs \in Nat /\ StaticBuf \in Nat

VARIABLES
  argv, m_nNextOption, m_nLastArg, m_pszClump,
  m_nOptionId, m_nLastError,
  m_rgShuffleBuf,  \* is there a buffer for all arguments?
  more,            \* what Next has returned
  outOfMemory,     \* ghost: would an allocation fail?
  overrun          \* ghost: have more arguments been moved than staticBuf holds?

parser == <<argv, m_nNextOption, m_nLastArg, m_pszClump, m_nOptionId, m_nLastError,
            m_rgShuffleBuf, more, outOfMemory, overrun>>

Errors == {"SUCCESS", "OPT_INVALID", "ARG_INVALID", "ARG_MISSING", "ARG_INVALID_DATA"}

ParserTypeOK ==
  /\ argv \in Seq(Arguments) /\ Len(argv) <= MaxArgs
  /\ m_nNextOption \in 1..m_nLastArg /\ m_nLastArg \in 1..Len(argv) + 1
  /\ m_pszClump \in Seq(STRING)
  /\ m_nOptionId \in OptionIds \cup {""} /\ m_nLastError \in Errors
  /\ {m_rgShuffleBuf, more, outOfMemory, overrun} \subseteq BOOLEAN

TooMany == Len(argv) + 1 > StaticBuf

(* A failure to allocate the buffer is not noticed by the constructor.       *)
ParserInit ==
  /\ argv \in UNION { [1..n -> Arguments] : n \in 0..MaxArgs }
  /\ m_nNextOption = 1 /\ m_nLastArg = Len(argv) + 1
  /\ m_pszClump = <<>>
  /\ m_nOptionId = "" /\ m_nLastError = "SUCCESS"
  /\ outOfMemory \in BOOLEAN
  /\ m_rgShuffleBuf = (TooMany /\ ~outOfMemory)
  /\ more = TRUE /\ overrun = FALSE

-----------------------------------------------------------------------------
(* ShuffleArg                                                                *)

(* Mutant: what was moved before comes after what is moved now.              *)
ShuffledBefore(start, count) ==
  SubSeq(argv, 1, start - 1) \o SubSeq(argv, start + count, m_nLastArg - 1)
    \o SubSeq(argv, start, start + count - 1) \o SubSeq(argv, m_nLastArg, Len(argv))

Shuffled(start, count) ==
  SubSeq(argv, 1, start - 1) \o SubSeq(argv, start + count, Len(argv))
    \o SubSeq(argv, start, start + count - 1)

Fits(count) == m_rgShuffleBuf \/ count <= StaticBuf

ShuffleArg(start, count) ==
  /\ argv' = Shuffled(start, count)
  /\ m_nLastArg' = m_nLastArg - count
  /\ overrun' = (overrun \/ ~Fits(count))
  /\ UNCHANGED <<m_rgShuffleBuf, outOfMemory>>

-----------------------------------------------------------------------------
(* The lookup of a name.  A short name is matched with its case, a long one  *)
(* without; a single letter stands for:                                      *)

Letter(c) ==
  CASE c = "h" -> "help"     [] c = "V" -> "version"   [] c = "L" -> "nologo"
    [] c = "E" -> "noerr"    [] c = "v" -> "verbose"   [] c = "i" -> "nocase"
    [] c = "a" -> "showall"  [] c = "p" -> "printname" [] c = "o" -> "outputfile"
    [] c = "-" -> "stop"     [] c = "?" -> "help"     [] OTHER -> ""

(* The option Next comes to: the files before it are moved to the end.       *)
Found == Min({i \in m_nNextOption..m_nLastArg - 1 : argv[i].dash} \cup {m_nLastArg})
MoveFiles == ShuffleArg(m_nNextOption, Found - m_nNextOption)

Clumped(arg) == arg.option = "" /\ ~arg.equals /\ Len(arg.letters) > 1

(* An option of a clump; none of them can have an argument.                  *)
NextLetter(letters) ==
  LET id == Letter(Head(letters))
  IN  /\ m_pszClump' = Tail(letters)
      /\ m_nOptionId' = IF id = "outputfile" THEN "" ELSE id
      /\ m_nLastError' = CASE id = "" -> "OPT_INVALID"
                           [] id = "outputfile" -> "ARG_MISSING"
                           [] OTHER -> "SUCCESS"

-----------------------------------------------------------------------------
(* Next                                                                      *)

NextClumped ==
  /\ m_pszClump # <<>>
  /\ NextLetter(m_pszClump)
  /\ more' = TRUE
  /\ UNCHANGED <<argv, m_nNextOption, m_nLastArg, m_rgShuffleBuf, outOfMemory, overrun>>

NextClump ==
  /\ m_pszClump = <<>> /\ Found < m_nLastArg /\ Clumped(argv[Found])
  /\ MoveFiles
  /\ NextLetter(argv[Found].letters)
  /\ m_nNextOption' = m_nNextOption + 1
  /\ more' = TRUE

NextInvalid ==
  /\ m_pszClump = <<>> /\ Found < m_nLastArg
  /\ argv[Found].option = "" /\ ~Clumped(argv[Found])
  /\ MoveFiles
  /\ m_nNextOption' = m_nNextOption + 1
  /\ m_nOptionId' = "" /\ m_nLastError' = "OPT_INVALID"
  /\ more' = TRUE /\ UNCHANGED m_pszClump

NextFlag ==
  /\ m_pszClump = <<>> /\ Found < m_nLastArg
  /\ argv[Found].option \notin {"", "outputfile"}
  /\ MoveFiles
  /\ m_nNextOption' = m_nNextOption + 1
  /\ m_nOptionId' = argv[Found].option
  /\ m_nLastError' = IF argv[Found].equals THEN "ARG_INVALID" ELSE "SUCCESS"
  /\ more' = TRUE /\ UNCHANGED m_pszClump

(* MultiArg(1): the argument behind the option, once the files are moved.    *)
MultiArg ==
  LET next == m_nNextOption + 1
  IN  /\ m_nLastError' = IF next + 1 > m_nLastArg' THEN "ARG_MISSING"
                         ELSE IF argv'[next].dash THEN "ARG_INVALID_DATA" ELSE "SUCCESS"
      /\ m_nNextOption' = IF m_nLastError' = "SUCCESS" THEN next + 1 ELSE next

NextWithArgument ==
  /\ m_pszClump = <<>> /\ Found < m_nLastArg
  /\ argv[Found].option = "outputfile"
  /\ MoveFiles
  /\ IF argv[Found].equals
     THEN m_nLastError' = "SUCCESS" /\ m_nNextOption' = m_nNextOption + 1
     ELSE MultiArg
  /\ m_nOptionId' = "outputfile"
  /\ more' = TRUE /\ UNCHANGED m_pszClump

NextEnd ==
  /\ m_pszClump = <<>> /\ Found = m_nLastArg
  /\ MoveFiles
  /\ m_nOptionId' = "" /\ m_nLastError' = "SUCCESS"
  /\ more' = FALSE
  /\ UNCHANGED <<m_nNextOption, m_pszClump>>

NextOption == NextClumped \/ NextClump \/ NextInvalid \/ NextFlag \/ NextWithArgument \/ NextEnd

(* Letters of a clump that are still unread stay so: the next call to Next   *)
(* returns them, though it "will return false" (SimpleOpt.h:444-445).        *)
Stop ==
  /\ ShuffleArg(m_nNextOption, m_nLastArg - m_nNextOption)
  /\ UNCHANGED <<m_nNextOption, m_pszClump, m_nOptionId, m_nLastError, more>>

Files == SubSeq(argv, m_nLastArg, Len(argv))
===================================================================================
