--------------------------- MODULE LookfsMain_proofs ---------------------------
(***************************************************************************)
(* Proofs about LookfsMain and the parser it composes, CommandLine, for    *)
(* command lines of any length.                                            *)
(***************************************************************************)
EXTENDS LookfsMain, SequenceTheorems, WellFoundedInduction, TLAPS

(* How many arguments have been moved to the end, how many have been read.   *)
Moved == Len(argv) + 1 - m_nLastArg
Consumed == m_nNextOption - 1 + Moved

-----------------------------------------------------------------------------
(* ShuffleArg                                                                *)

LEMMA Part ==
  ASSUME NEW S, NEW s \in Seq(S), NEW a \in Nat, NEW b \in Nat, a >= 1, b <= Len(s), a <= b + 1
  PROVE  /\ SubSeq(s, a, b) \in Seq(S) /\ Len(SubSeq(s, a, b)) = b - a + 1
         /\ \A k \in 1..b - a + 1 : SubSeq(s, a, b)[k] = s[a + k - 1]
<1>1. \A k \in a..b : s[k] \in S
  BY ElementOfSeq
<1>2. /\ SubSeq(s, a, b) \in Seq(S)
      /\ Len(SubSeq(s, a, b)) = IF a <= b THEN b - a + 1 ELSE 0
      /\ \A k \in 1..b - a + 1 : SubSeq(s, a, b)[k] = s[a + k - 1]
  BY <1>1, SubSeqProperties
<1> QED
  BY <1>2

LEMMA Joined ==
  ASSUME NEW S, NEW s \in Seq(S), NEW t \in Seq(S)
  PROVE  /\ s \o t \in Seq(S) /\ Len(s \o t) = Len(s) + Len(t)
         /\ \A k \in 1..Len(s) + Len(t) : (s \o t)[k] = IF k <= Len(s) THEN s[k] ELSE t[k - Len(s)]
OBVIOUS

LEMMA ShuffledElements ==
  ASSUME argv \in Seq(Arguments), NEW start \in Nat, NEW count \in Nat,
         start >= 1, start + count <= Len(argv) + 1
  PROVE  /\ Shuffled(start, count) \in Seq(Arguments)
         /\ Len(Shuffled(start, count)) = Len(argv)
         /\ \A p \in 1..Len(argv) : Shuffled(start, count)[p] =
              IF p < start THEN argv[p]
              ELSE IF p <= Len(argv) - count THEN argv[p + count]
              ELSE argv[p - (Len(argv) - count) + start - 1]
<1> DEFINE len == Len(argv)
           a == SubSeq(argv, 1, start - 1)
           b == SubSeq(argv, start + count, len)
           c == SubSeq(argv, start, start + count - 1)
<1>1. /\ len \in Nat /\ start - 1 \in Nat /\ start + count \in Nat /\ start + count - 1 \in Nat
      /\ len - count \in Nat /\ start - 1 <= len - count
  OBVIOUS
<1>2. /\ a \in Seq(Arguments) /\ Len(a) = start - 1
      /\ \A k \in 1..start - 1 : a[k] = argv[k]
  BY <1>1, Part
<1>3. /\ b \in Seq(Arguments) /\ Len(b) = len - count - start + 1
      /\ \A k \in 1..len - count - start + 1 : b[k] = argv[start + count + k - 1]
  BY <1>1, Part
<1>4. /\ c \in Seq(Arguments) /\ Len(c) = count
      /\ \A k \in 1..count : c[k] = argv[start + k - 1]
  <2> DEFINE m == start + count - 1
  <2>1. m \in Nat /\ m <= len /\ start <= m + 1 /\ m - start + 1 = count
    BY <1>1
  <2> HIDE DEF m
  <2>2. /\ SubSeq(argv, start, m) \in Seq(Arguments) /\ Len(SubSeq(argv, start, m)) = m - start + 1
        /\ \A k \in 1..m - start + 1 : SubSeq(argv, start, m)[k] = argv[start + k - 1]
    BY <2>1, Part DEF len
  <2> QED
    BY <2>1, <2>2 DEF m
<1>5. Shuffled(start, count) = a \o b \o c
  BY DEF Shuffled
<1> HIDE DEF len, a, b, c
<1>0. PICK d : d = a \o b
  OBVIOUS
<1>6. /\ d \in Seq(Arguments) /\ Len(d) = len - count
      /\ \A k \in 1..len - count : d[k] = IF k <= start - 1 THEN a[k] ELSE b[k - (start - 1)]
  <2>1. /\ d \in Seq(Arguments) /\ Len(d) = Len(a) + Len(b)
        /\ \A k \in 1..Len(a) + Len(b) : d[k] = IF k <= Len(a) THEN a[k] ELSE b[k - Len(a)]
    BY <1>0, <1>2, <1>3, Joined
  <2>2. Len(a) + Len(b) = len - count
    BY <1>1, <1>2, <1>3
  <2> QED
    BY <1>2, <2>1, <2>2
<1>7. /\ d \o c \in Seq(Arguments) /\ Len(d \o c) = len
      /\ \A k \in 1..len : (d \o c)[k] = IF k <= len - count THEN d[k] ELSE c[k - (len - count)]
  <2>1. /\ d \o c \in Seq(Arguments) /\ Len(d \o c) = Len(d) + Len(c)
        /\ \A k \in 1..Len(d) + Len(c) :
             (d \o c)[k] = IF k <= Len(d) THEN d[k] ELSE c[k - Len(d)]
    BY <1>4, <1>6, Joined
  <2>2. Len(d) + Len(c) = len
    BY <1>1, <1>4, <1>6
  <2> QED
    BY <1>6, <2>1, <2>2
<1>8. ASSUME NEW p \in 1..len
      PROVE  (d \o c)[p] =
              IF p < start THEN argv[p]
              ELSE IF p <= len - count THEN argv[p + count]
              ELSE argv[p - (len - count) + start - 1]
  <2>1. CASE p < start
    BY <1>1, <1>2, <1>6, <1>7, <2>1 DEF len
  <2>2. CASE ~(p < start) /\ p <= len - count
    <3>1. p - (start - 1) \in 1..len - count - start + 1
      BY <1>1, <2>2
    <3>2. start + count + (p - (start - 1)) - 1 = p + count
      BY <1>1
    <3>3. (d \o c)[p] = b[p - (start - 1)]
      <4>1. p \in 1..len - count /\ ~(p <= start - 1)
        BY <1>1, <2>2
      <4> QED
        BY <1>6, <1>7, <2>2, <4>1
    <3> QED
      BY <1>3, <2>2, <3>1, <3>2, <3>3
  <2>3. CASE ~(p < start) /\ ~(p <= len - count)
    <3>1. p - (len - count) \in 1..count
      BY <1>1, <2>3
    <3>2. start + (p - (len - count)) - 1 = p - (len - count) + start - 1
      BY <1>1
    <3>3. (d \o c)[p] = c[p - (len - count)]
      BY <1>1, <1>7, <2>3
    <3> QED
      BY <1>4, <2>3, <3>1, <3>2, <3>3
  <2> QED
    BY <2>1, <2>2, <2>3
<1> QED
  BY <1>0, <1>5, <1>7, <1>8 DEF len

-----------------------------------------------------------------------------
(* The least member of a set of numbers, which Min chooses.                  *)

LEMMA Smallest ==
  ASSUME NEW S, S \subseteq Nat, S # {}
  PROVE  \E x \in S : \A y \in S : x <= y
<1>1. IsWellFoundedOn(OpToRel(<, Nat), Nat)
  BY NatLessThanWellFounded
<1>2. \E x \in S : \A y \in S : ~ (<<y, x>> \in OpToRel(<, Nat))
  BY <1>1, WFMin
<1>3. PICK x \in S : \A y \in S : ~ (<<y, x>> \in OpToRel(<, Nat))
  BY <1>2
<1>4. \A y \in S : <<y, x>> \in OpToRel(<, Nat) <=> y < x
  BY DEF OpToRel
<1>5. \A y \in S : ~(y < x)
  BY <1>3, <1>4
<1> QED
  BY <1>5

LEMMA MinIs ==
  ASSUME NEW S, S \subseteq Nat, S # {}
  PROVE  Min(S) \in S /\ \A y \in S : Min(S) <= y
<1>1. \E x \in S : \A y \in S : x <= y
  BY Smallest
<1> QED
  BY <1>1 DEF Min

-----------------------------------------------------------------------------
(* The privilege                                                             *)

(* Only a token that has been found to hold the privilege has it enabled: a  *)
(* search that has come to the index of the privilege is past 0.             *)
PrivilegeInv ==
  /\ token \in Tokens \cup {NoToken} /\ i \in Nat
  /\ pc = "lookup" => i >= 1
  /\ pc = "enable" => token.backup > 0
  /\ m_bEnabled => pc \in {"traverse", "call", "restore", "exit", "raised"}
  /\ EnabledMeansHeld

LEMMA TokenParts ==
  ASSUME NEW t \in Tokens \cup {NoToken}
  PROVE  /\ t.size \in Nat /\ t.backup \in Nat /\ t.backup <= t.size
         /\ t = [size |-> t.size, backup |-> t.backup, enabled |-> t.enabled]
<1>1. CASE t = NoToken
  BY <1>1 DEF NoToken
<1>2. CASE t \in Tokens
  <2>1. PICK s \in TokenSizes : t \in [size : {s}, backup : 0..s, enabled : BOOLEAN]
    BY <1>2 DEF Tokens
  <2>2. s \in Nat
    BY MainAssumption
  <2> QED
    BY <2>1, <2>2
<1> QED
  BY <1>1, <1>2

LEMMA TokenSwitched ==
  ASSUME NEW t \in Tokens \cup {NoToken}, NEW on \in BOOLEAN, on => t.backup > 0
  PROVE  [t EXCEPT !.enabled = on] \in Tokens \cup {NoToken}
<1>1. CASE t = NoToken
  <2>1. on = FALSE
    BY <1>1 DEF NoToken
  <2> DEFINE R == [size : {0}, backup : {0}, enabled : {FALSE}]
  <2>2. NoToken \in R
    BY DEF NoToken
  <2>3. [NoToken EXCEPT !.enabled = FALSE] \in R
    BY <2>2, Zenon
  <2>4. \A r \in R : r = NoToken
    <3>1. \A no : \A r \in [size : {0}, backup : {0}, enabled : {no}] :
            r = [size |-> 0, backup |-> 0, enabled |-> no]
      OBVIOUS
    <3> QED
      BY <3>1, Zenon DEF NoToken
  <2>5. [NoToken EXCEPT !.enabled = FALSE] = NoToken
    BY <2>3, <2>4, Zenon
  <2> QED
    BY <1>1, <2>1, <2>5, Zenon
<1>2. CASE t \in Tokens
  <2>1. PICK s \in TokenSizes : t \in [size : {s}, backup : 0..s, enabled : BOOLEAN]
    BY <1>2, Zenon DEF Tokens
  <2>2. [t EXCEPT !.enabled = on] \in [size : {s}, backup : 0..s, enabled : BOOLEAN]
    BY <2>1, Zenon
  <2> QED
    BY <2>2, Zenon DEF Tokens
<1> QED
  BY <1>1, <1>2

LEMMA PrivilegeSet ==
  ASSUME token \in Tokens \cup {NoToken}, NEW on \in BOOLEAN, SetContextPrivilege(on)
  PROVE  /\ token' \in Tokens \cup {NoToken}
         /\ token'.backup = token.backup
         /\ token.backup > 0 => token'.enabled = on
<1>1. token.backup \in Nat
  BY TokenParts
<1>2. CASE token.backup > 0
  <2>1. token' = [token EXCEPT !.enabled = on]
    BY <1>2 DEF SetContextPrivilege
  <2> QED
    BY <1>2, <2>1, TokenSwitched, TokenParts
<1>3. CASE ~(token.backup > 0)
  <2>1. token' = [token EXCEPT !.enabled = FALSE]
    BY <1>3 DEF SetContextPrivilege
  <2>2. FALSE => token.backup > 0
    OBVIOUS
  <2>3. token' \in Tokens \cup {NoToken}
    BY <2>1, <2>2, TokenSwitched, Zenon
  <2> QED
    BY <1>3, <2>1, <2>3, TokenParts
<1> QED
  BY <1>2, <1>3

LEMMA PrivilegeStart == Init => PrivilegeInv
BY DEF Init, PrivilegeInv, EnabledMeansHeld, NoToken

LEMMA PrivilegeStep ==
  ASSUME PrivilegeInv, [Next]_vars
  PROVE  PrivilegeInv'
<1> USE DEF PrivilegeInv, EnabledMeansHeld
<1>1. CASE CallNext
  BY <1>1, Zenon DEF CallNext, privilege
<1>2. CASE OptionInError
  BY <1>2, Zenon DEF OptionInError, privilege
<1>3. CASE HelpOrVersion
  BY <1>3, Zenon DEF HelpOrVersion, privilege, Valid
<1>4. CASE Set
  BY <1>4, Zenon DEF Set, privilege, Valid
<1>5. CASE OpenOutput
  BY <1>5, Zenon DEF OpenOutput, privilege, Valid
<1>6. CASE StopOptions
  BY <1>6, Zenon DEF StopOptions, privilege, Valid
<1>7. CASE Banner
  BY <1>7, Zenon DEF Banner, privilege
<1>8. CASE HasContextTokenPrivilege
  BY <1>8 DEF HasContextTokenPrivilege, privilege
<1>9. CASE HasTokenPrivilege
  BY <1>9, TokenParts DEF HasTokenPrivilege
<1>10. CASE Enable
  <2>1. CASE SetContextPrivilege(TRUE) /\ m_bEnabled' = TRUE
    BY <1>10, <2>1, PrivilegeSet DEF Enable
  <2>2. CASE UNCHANGED <<token, m_bEnabled>>
    BY <1>10, <2>2 DEF Enable
  <2> QED
    BY <1>10, <2>1, <2>2 DEF Enable
<1>11. CASE Restore
  BY <1>11, PrivilegeSet DEF Restore
<1>12. CASE Traverse
  BY <1>12, Zenon DEF Traverse, privilege
<1>13. CASE AllTraversed
  BY <1>13, Zenon DEF AllTraversed, privilege
<1>14. ASSUME NEW f \in Imports, Call(f)
       PROVE  PrivilegeInv'
  BY <1>14, Zenon DEF Call, privilege
<1>15. ASSUME NEW err \in Results, Return(err)
       PROVE  PrivilegeInv'
  BY <1>15, Zenon DEF Return, privilege
<1>17. CASE ReturnEarly
  BY <1>17, Zenon DEF ReturnEarly, privilege
<1>16. CASE UNCHANGED vars
  BY <1>16, Zenon DEF vars, privilege
<1> HIDE DEF PrivilegeInv
<1> QED
  BY <1>1, <1>2, <1>3, <1>4, <1>5, <1>6, <1>7, <1>8, <1>9, <1>10, <1>11, <1>12, <1>13,
     <1>14, <1>15, <1>16, <1>17, Zenon DEF Next, Ended

(* While paths are traversed and the object says that the privilege was      *)
(* enabled, the token holds it and has it enabled, whatever the size of the  *)
(* token (priv.c, priv.h).                                                   *)
THEOREM PrivilegeHeld == Spec => []EnabledMeansHeld
<1>1. Init => PrivilegeInv
  BY PrivilegeStart
<1>2. PrivilegeInv /\ [Next]_vars => PrivilegeInv'
  BY PrivilegeStep
<1>3. PrivilegeInv => EnabledMeansHeld
  BY DEF PrivilegeInv
<1> QED
  BY <1>1, <1>2, <1>3, PTL DEF Spec

-----------------------------------------------------------------------------
(* The end                                                                   *)

(* The exit code bounds the results so far and is one of them; paths are     *)
(* traversed only when the command line has been parsed, and the traversal is*)
(* left behind when all of them have been.                                   *)
EndInv ==
  /\ n \in Nat /\ errors \subseteq Results
  /\ retval \in errors \cup {0} /\ \A err \in errors : err <= retval
  /\ n > 0 => pc \in {"traverse", "call", "restore", "exit", "raised"}
  /\ pc = "restore" \/ (pc = "exit" /\ n > 0) => n = Len(Files)
  /\ OldNtdllSuffices

LEMMA MaxIs ==
  ASSUME NEW S, S \subseteq Nat, NEW m \in S, \A x \in S : x <= m
  PROVE  Max(S) = m
<1>1. Max(S) \in S /\ \A y \in S : Max(S) >= y
  BY DEF Max
<1>2. PICK x : x = Max(S)
  OBVIOUS
<1>3. x \in S /\ x >= m /\ x <= m /\ x \in Nat /\ m \in Nat
  BY <1>1, <1>2
<1> QED
  BY <1>2, <1>3

LEMMA EndStart == Init => EndInv
BY DEF Init, EndInv, OldNtdllSuffices

LEMMA EndStep ==
  ASSUME EndInv, [Next]_vars
  PROVE  EndInv'
<1> USE DEF EndInv, OldNtdllSuffices, paths, imports
<1>1. CASE CallNext
  BY <1>1 DEF CallNext
<1>2. CASE OptionInError
  BY <1>2 DEF OptionInError
<1>3. CASE HelpOrVersion
  BY <1>3 DEF HelpOrVersion, Valid
<1>4. CASE Set
  BY <1>4 DEF Set, Valid
<1>5. CASE OpenOutput
  BY <1>5 DEF OpenOutput, Valid
<1>6. CASE StopOptions
  BY <1>6 DEF StopOptions, Valid
<1>7. CASE Banner
  BY <1>7 DEF Banner
<1>8. CASE HasContextTokenPrivilege
  BY <1>8 DEF HasContextTokenPrivilege
<1>9. CASE HasTokenPrivilege
  BY <1>9 DEF HasTokenPrivilege
<1>10. CASE Enable
  BY <1>10 DEF Enable
<1>11. CASE Restore
  BY <1>11 DEF Restore, parser, Files
<1>12. CASE Traverse
  BY <1>12 DEF Traverse
<1>13. CASE AllTraversed
  BY <1>13 DEF AllTraversed, parser, Files
<1>14. ASSUME NEW f \in Imports, Call(f)
       PROVE  EndInv'
  BY <1>14 DEF Call, Imports, NtdllDliHook
<1>0. ASSUME NEW err \in Results, pc \in {"call", "traverse"}, pc' = "traverse",
             retval' = WorseResult(err), errors' = errors \cup {err}, n' = n + 1
      PROVE  EndInv'
  <2>1. err \in Nat /\ retval \in Nat /\ errors \subseteq Nat
    BY MainAssumption
  <2>2. retval' \in errors' \cup {0} /\ \A e \in errors' : e <= retval'
    BY <1>0, <2>1 DEF WorseResult
  <2> QED
    BY <1>0, <2>2
<1>15. ASSUME NEW err \in Results, Return(err)
       PROVE  EndInv'
  BY <1>0, <1>15 DEF Return
<1>17. CASE ReturnEarly
  BY <1>0, <1>17, MainAssumption DEF ReturnEarly
<1>16. CASE UNCHANGED vars
  BY <1>16 DEF vars, parser, Files
<1> HIDE DEF EndInv
<1> QED
  BY <1>1, <1>2, <1>3, <1>4, <1>5, <1>6, <1>7, <1>8, <1>9, <1>10, <1>11, <1>12, <1>13,
     <1>14, <1>15, <1>16, <1>17, Zenon DEF Next, Ended

(* For any number of paths and any results, the exit code is the worst of    *)
(* them; and an ntdll.dll that lacks only the newer function never ends the  *)
(* program (lookfs.cpp, _tmain; delayimp.c, NtdllDliHook).                   *)
THEOREM EndsAsItShould == Spec => []EndsInOrder
<1>1. Init => EndInv
  BY EndStart
<1>2. EndInv /\ [Next]_vars => EndInv'
  BY EndStep
<1>3. EndInv => EndsInOrder
  <2> SUFFICES ASSUME EndInv PROVE EndsInOrder
    OBVIOUS
  <2>1. ASSUME pc = "exit", n > 0
        PROVE  n = Len(Files) /\ retval = Max(errors \cup {0})
    <3>1. errors \cup {0} \subseteq Nat
      BY MainAssumption DEF EndInv
    <3>2. retval \in errors \cup {0} /\ \A x \in errors \cup {0} : x <= retval
      BY <3>1 DEF EndInv
    <3> DEFINE all == errors \cup {0}
    <3>3. Max(all) = retval
      <4> HIDE DEF all
      <4> QED
        BY <3>1, <3>2, MaxIs DEF all
    <3> QED
      BY <2>1, <3>3 DEF EndInv
  <2> QED
    BY <2>1 DEF EndInv, EndsInOrder, ExitCodeIsWorst
<1> QED
  BY <1>1, <1>2, <1>3, PTL DEF Spec

-----------------------------------------------------------------------------
(* What is invariant while the command line is parsed                        *)

(* The arguments, the files among them moved to the end, are as many as were *)
(* given; what has not been read yet is where it was, Moved places further   *)
(* in front.                                                                 *)
Shape ==
  /\ argv \in Seq(Arguments) /\ given \in Seq(Arguments) /\ Len(given) = Len(argv)
  /\ m_nNextOption \in 1..m_nLastArg /\ m_nLastArg \in 1..Len(argv) + 1

UnreadInv == \A p \in m_nNextOption..m_nLastArg - 1 : argv[p] = given[p + Moved]

(* Those at the end are the files among what has been read, in their order.  *)
FilesInv ==
  \E at \in [1..Moved -> 1..Len(given)] :
    /\ \A j, k \in 1..Moved : j < k => at[j] < at[k]
    /\ \A j \in 1..Moved : argv[m_nLastArg - 1 + j] = given[at[j]]
    /\ { at[j] : j \in 1..Moved } = { k \in 1..Consumed : IsFile(k) }

Pending(id) == pc = "option" /\ m_nLastError = "SUCCESS" /\ m_nOptionId = id
InClump(id) == \E j \in DOMAIN m_pszClump : Letter(m_pszClump[j]) = id

(* An option "--" is the last one that is read, and when something is left   *)
(* behind it, it has yet to take effect.                                     *)
StopInv ==
  m_nNextOption < m_nLastArg =>
    \A k \in 0..Consumed : k \in StopsAt <=> k = Consumed /\ (Pending("stop") \/ InClump("stop"))

(* The argument of an option is only left unread when it is no argument.     *)
TakeInv ==
  m_nNextOption < m_nLastArg /\ Consumed >= 1 /\ TakesNext(given[Consumed])
    => given[Consumed + 1].dash

(* A setting that has been read is made or is going to be.                   *)
Asked(s) == \E k \in 1..Consumed : ~Stopped(k) /\ s \in Sets(given[k])
SettingsInv ==
  /\ settings \subseteq Settings
  /\ \A s \in Settings : Asked(s) <=> s \in settings \/ Pending(s) \/ InClump(s)

LEMMA ShapeFacts ==
  ASSUME Shape
  PROVE  /\ Len(argv) \in Nat /\ m_nNextOption \in Nat /\ m_nLastArg \in Nat
         /\ m_nNextOption >= 1 /\ m_nNextOption <= m_nLastArg /\ m_nLastArg <= Len(argv) + 1
         /\ Moved \in Nat /\ Moved <= Len(argv) /\ Consumed \in Nat
         /\ Consumed + (m_nLastArg - m_nNextOption) = Len(given)
         /\ \A k \in 1..Len(given) : given[k] \in Arguments /\ given[k] \in Argument
BY CommandLineAssumption DEF Shape, Moved, Consumed

LEMMA Moves ==
  ASSUME Shape, NEW count \in Nat, count <= m_nLastArg - m_nNextOption,
         ShuffleArg(m_nNextOption, count)
  PROVE  /\ argv' \in Seq(Arguments) /\ Len(argv') = Len(argv)
         /\ m_nLastArg' = m_nLastArg - count /\ m_nLastArg' \in Nat
         /\ Moved' = Moved + count
         /\ \A p \in m_nNextOption..m_nLastArg' - 1 : argv'[p] = argv[p + count]
         /\ \A j \in 1..Moved : argv'[m_nLastArg' - 1 + j] = argv[m_nLastArg - 1 + j]
         /\ \A j \in 1..count : argv'[m_nLastArg' - 1 + Moved + j] = argv[m_nNextOption - 1 + j]
<1>1. /\ Len(argv) \in Nat /\ m_nNextOption \in Nat /\ m_nLastArg \in Nat
      /\ m_nNextOption >= 1 /\ m_nLastArg <= Len(argv) + 1
      /\ m_nNextOption + count <= m_nLastArg
      /\ m_nNextOption + count <= Len(argv) + 1
  BY DEF Shape
<1>2. argv' = Shuffled(m_nNextOption, count) /\ m_nLastArg' = m_nLastArg - count
  BY DEF ShuffleArg
<1>3. /\ argv' \in Seq(Arguments) /\ Len(argv') = Len(argv)
      /\ \A p \in 1..Len(argv) : argv'[p] =
           IF p < m_nNextOption THEN argv[p]
           ELSE IF p <= Len(argv) - count THEN argv[p + count]
           ELSE argv[p - (Len(argv) - count) + m_nNextOption - 1]
  BY <1>1, <1>2, ShuffledElements DEF Shape
<1>4. m_nLastArg' \in Nat /\ Moved' = Moved + count /\ Moved \in Nat
      /\ Moved = Len(argv) + 1 - m_nLastArg
  BY <1>1, <1>2, <1>3 DEF Moved
<1>5. ASSUME NEW p \in m_nNextOption..m_nLastArg' - 1
      PROVE  argv'[p] = argv[p + count]
  <2>1. p \in 1..Len(argv) /\ ~(p < m_nNextOption) /\ p <= Len(argv) - count
    BY <1>1, <1>2
  <2> QED
    BY <1>3, <2>1
<1>6. ASSUME NEW j \in 1..Moved
      PROVE  argv'[m_nLastArg' - 1 + j] = argv[m_nLastArg - 1 + j]
  <2> DEFINE p == m_nLastArg' - 1 + j
  <2>1. /\ p \in 1..Len(argv) /\ ~(p < m_nNextOption) /\ p <= Len(argv) - count
        /\ p + count = m_nLastArg - 1 + j
    BY <1>1, <1>2, <1>4
  <2> QED
    BY <1>3, <2>1
<1>7. ASSUME NEW j \in 1..count
      PROVE  argv'[m_nLastArg' - 1 + Moved + j] = argv[m_nNextOption - 1 + j]
  <2> DEFINE p == m_nLastArg' - 1 + Moved + j
  <2>1. /\ p \in 1..Len(argv) /\ ~(p < m_nNextOption) /\ ~(p <= Len(argv) - count)
        /\ p - (Len(argv) - count) + m_nNextOption - 1 = m_nNextOption - 1 + j
    BY <1>1, <1>2, <1>4
  <2> QED
    BY <1>3, <2>1
<1> QED
  BY <1>2, <1>3, <1>4, <1>5, <1>6, <1>7

LEMMA SameFiles ==
  ASSUME given' = given
  PROVE  /\ StopsAt' = StopsAt
         /\ \A k : (Stopped(k) <=> Stopped(k)') /\ (IsFile(k) <=> IsFile(k)')
BY Zenon DEF IsFile, Stopped, StopsAt

LEMMA Halves == \A a, b \in Nat : \A j : j \in 1..a + b <=> j \in 1..a \/ j \in a + 1..a + b
  OBVIOUS

(* The arguments in front of the option that is read are moved, and one or   *)
(* two are read.                                                             *)
LEMMA FilesMoved ==
  ASSUME Shape, UnreadInv, FilesInv, given' = given,
         NEW count \in Nat, count <= m_nLastArg - m_nNextOption,
         ShuffleArg(m_nNextOption, count),
         NEW read \in Nat, m_nNextOption' = m_nNextOption + read, m_nNextOption' <= m_nLastArg',
         \A k \in Consumed + 1..Consumed + count : IsFile(k),
         \A k \in Consumed + count + 1..Consumed + count + read : ~IsFile(k)
  PROVE  Shape' /\ UnreadInv' /\ FilesInv' /\ Consumed' = Consumed + count + read
<1>1. /\ Len(argv) \in Nat /\ m_nNextOption \in Nat /\ m_nLastArg \in Nat
      /\ m_nNextOption >= 1 /\ m_nLastArg <= Len(argv) + 1
      /\ Moved \in Nat /\ Consumed \in Nat
      /\ Moved = Len(argv) + 1 - m_nLastArg /\ Consumed = m_nNextOption - 1 + Moved
      /\ Len(given) = Len(argv)
  BY ShapeFacts DEF Moved, Consumed, Shape
<1>2. /\ argv' \in Seq(Arguments) /\ Len(argv') = Len(argv)
      /\ m_nLastArg' = m_nLastArg - count /\ m_nLastArg' \in Nat
      /\ Moved' = Moved + count
      /\ \A p \in m_nNextOption..m_nLastArg' - 1 : argv'[p] = argv[p + count]
      /\ \A j \in 1..Moved : argv'[m_nLastArg' - 1 + j] = argv[m_nLastArg - 1 + j]
      /\ \A j \in 1..count : argv'[m_nLastArg' - 1 + Moved + j] = argv[m_nNextOption - 1 + j]
  BY Moves
<1>3. Consumed' = m_nNextOption' - 1 + Moved'
  BY DEF Consumed
<1>4. Consumed' = Consumed + count + read
  <2>1. \A a, b \in Nat : ((a + read) - 1) + (b + count) = ((a - 1) + b) + count + read
    OBVIOUS
  <2>2. m_nNextOption' = m_nNextOption + read /\ Moved' = Moved + count
    BY <1>2
  <2>3. Consumed' = ((m_nNextOption + read) - 1) + (Moved + count)
    BY <2>2, <1>3, Zenon
  <2> QED
    BY <1>1, <2>1, <2>3
<1>5. Shape'
  BY <1>1, <1>2 DEF Shape
<1>6. UnreadInv'
  <2> SUFFICES ASSUME NEW p \in m_nNextOption'..m_nLastArg' - 1
               PROVE  argv'[p] = given'[p + Moved']
    BY DEF UnreadInv
  <2>1. /\ p \in m_nNextOption..m_nLastArg' - 1 /\ p + count \in m_nNextOption..m_nLastArg - 1
        /\ p + count + Moved = p + Moved'
    BY <1>1, <1>2
  <2> QED
    BY <1>2, <2>1 DEF UnreadInv
<1>7. FilesInv'
  <2>1. PICK at \in [1..Moved -> 1..Len(given)] :
          /\ \A j, k \in 1..Moved : j < k => at[j] < at[k]
          /\ \A j \in 1..Moved : argv[m_nLastArg - 1 + j] = given[at[j]]
          /\ { at[j] : j \in 1..Moved } = { k \in 1..Consumed : IsFile(k) }
    BY DEF FilesInv
  <2> DEFINE M == Moved + count
             to == [j \in 1..M |-> IF j <= Moved THEN at[j] ELSE Consumed + (j - Moved)]
  <2>2. /\ \A j \in 1..Moved : to[j] = at[j] /\ at[j] \in 1..Consumed
        /\ \A j \in Moved + 1..M : to[j] = Consumed + (j - Moved)
        /\ Consumed + count <= Len(given) /\ M \in Nat
    <3>1. M \in Nat /\ Consumed + count <= Len(given)
      BY <1>1
    <3>2. \A j \in 1..Moved : j \in 1..M /\ j <= Moved
      BY <1>1
    <3>3. \A j \in Moved + 1..M : j \in 1..M /\ ~(j <= Moved)
      BY <1>1
    <3>4. \A j \in 1..Moved : at[j] \in 1..Consumed
      BY <2>1, Zenon
    <3> QED
      BY <3>1, <3>2, <3>3, <3>4, Zenon
  <2>a. \A j : j \in 1..M <=> j \in 1..Moved \/ j \in Moved + 1..M
    BY <1>1, Halves
  <2>3. to \in [1..M -> 1..Len(given)]
    <3>1. ASSUME NEW j \in 1..M
          PROVE  (IF j <= Moved THEN at[j] ELSE Consumed + (j - Moved)) \in 1..Len(given)
      <4>1. CASE j <= Moved
        <5>1. j \in 1..Moved
          BY <1>1, <2>2, <4>1
        <5> QED
          BY <2>1, <4>1, <5>1
      <4>2. CASE ~(j <= Moved)
        <5>1. j - Moved \in 1..count
          BY <1>1, <4>2
        <5> QED
          BY <1>1, <2>2, <4>2, <5>1
      <4> QED
        BY <4>1, <4>2
    <3> QED
      BY <3>1
  <2>4. ASSUME NEW j \in 1..M, NEW k \in 1..M, j < k
        PROVE  to[j] < to[k]
    <3>1. CASE k <= Moved
      <4>1. j \in 1..Moved /\ k \in 1..Moved
        BY <1>1, <2>4, <3>1
      <4>2. at[j] < at[k]
        BY <2>1, <2>4, <4>1, Zenon
      <4> QED
        BY <2>2, <4>1, <4>2, Zenon
    <3>2. CASE ~(k <= Moved) /\ j <= Moved
      <4>1. j \in 1..Moved /\ k \in Moved + 1..M
        BY <1>1, <2>2, <3>2
      <4>2. to[j] \in 1..Consumed /\ to[k] = Consumed + (k - Moved)
        BY <2>2, <4>1
      <4>3. \A x \in 1..Consumed : x < Consumed + (k - Moved)
        <5>1. k - Moved \in Nat \ {0} /\ Consumed \in Nat
          BY <1>1, <4>1
        <5> QED
          BY <5>1
      <4> QED
        BY <4>2, <4>3, Zenon
    <3>3. CASE ~(k <= Moved) /\ ~(j <= Moved)
      BY <1>1, <2>2, <2>4, <3>3
    <3> QED
      BY <3>1, <3>2, <3>3
  <2>5. ASSUME NEW j \in 1..M
        PROVE  argv'[m_nLastArg' - 1 + j] = given'[to[j]]
    <3>1. CASE j <= Moved
      <4>1. j \in 1..Moved
        BY <3>1
      <4> QED
        BY <1>2, <2>1, <2>2, <4>1
    <3>2. CASE ~(j <= Moved)
      <4> DEFINE q == j - Moved
      <4>1. q \in 1..count /\ m_nLastArg' - 1 + Moved + q = m_nLastArg' - 1 + j
        BY <1>1, <1>2, <3>2
      <4>2. argv'[m_nLastArg' - 1 + j] = argv[m_nNextOption - 1 + q]
        BY <1>2, <4>1
      <4>3. /\ m_nNextOption - 1 + q \in m_nNextOption..m_nLastArg - 1
            /\ m_nNextOption - 1 + q + Moved = Consumed + q
        BY <1>1, <4>1
      <4>4. argv[m_nNextOption - 1 + q] = given[Consumed + q]
        BY <4>3 DEF UnreadInv
      <4>5. to[j] = Consumed + q
        BY <1>1, <2>2, <3>2
      <4> QED
        BY <4>2, <4>4, <4>5
    <3> QED
      BY <3>1, <3>2
  <2>6. ASSUME NEW k
        PROVE  (\E j \in 1..M : to[j] = k) <=> k \in 1..Consumed + count + read /\ IsFile(k)
    <3>1. (\E j \in 1..Moved : at[j] = k) <=> k \in 1..Consumed /\ IsFile(k)
      BY <2>1
    <3>2. CASE k \in 1..Consumed
      <4>1. \A j \in Moved + 1..M : to[j] # k
        <5>1. \A j \in Moved + 1..M : to[j] = Consumed + (j - Moved)
          BY <2>2
        <5>2. \A j \in Moved + 1..M : Consumed + (j - Moved) # k
          BY <1>1, <3>2
        <5> QED
          BY <5>1, <5>2, Zenon
      <4>2. \A j : j \in 1..M <=> j \in 1..Moved \/ j \in Moved + 1..M
        BY <2>a, Zenon
      <4>3. (\E j \in 1..M : to[j] = k) <=> \E j \in 1..Moved : at[j] = k
        BY <2>2, <4>1, <4>2
      <4>4. k \in 1..Consumed + count + read
        BY <1>1, <3>2
      <4> QED
        BY <3>1, <3>2, <4>3, <4>4
    <3>3. CASE k \in Consumed + 1..Consumed + count
      <4>1. Moved + (k - Consumed) \in 1..M /\ to[Moved + (k - Consumed)] = k
        BY <1>1, <2>2, <3>3
      <4>2. k \in 1..Consumed + count + read
        BY <1>1, <3>3
      <4> QED
        BY <3>3, <4>1, <4>2
    <3>4. CASE k \notin 1..Consumed /\ k \notin Consumed + 1..Consumed + count
      <4>1. \A j \in 1..M : to[j] \in 1..Consumed \/ to[j] \in Consumed + 1..Consumed + count
        <5>1. \A j \in Moved + 1..M : Consumed + (j - Moved) \in Consumed + 1..Consumed + count
          BY <1>1
        <5>2. \A j : j \in 1..M <=> j \in 1..Moved \/ j \in Moved + 1..M
          BY <2>a, Zenon
        <5> QED
          BY <2>2, <5>1, <5>2
      <4>2. k \in 1..Consumed + count + read => k \in Consumed + count + 1..Consumed + count + read
        BY <1>1, <3>4
      <4> QED
        BY <3>4, <4>1, <4>2
    <3> QED
      BY <3>2, <3>3, <3>4
  <2>7. \A k : IsFile(k) <=> IsFile(k)'
    BY SameFiles
  <2> HIDE DEF to
  <2>8. { to[j] : j \in 1..M } = { k \in 1..Consumed' : IsFile(k)' }
    <3>1. \A k : k \in { to[j] : j \in 1..M } <=> k \in { x \in 1..Consumed' : IsFile(x)' }
      BY <1>4, <2>6, <2>7
    <3> QED
      BY <3>1
  <2> QED
    BY <1>2, <2>3, <2>4, <2>5, <2>8 DEF FilesInv
<1> QED
  BY <1>4, <1>5, <1>6, <1>7

-----------------------------------------------------------------------------
(* The option that is read                                                   *)

AsksStop(arg) ==
  /\ arg.dash
  /\ \/ arg.option = "stop" /\ ~arg.equals
     \/ Clumped(arg) /\ \E j \in DOMAIN arg.letters : arg.letters[j] = "-"

LEMMA FoundFacts ==
  ASSUME Shape
  PROVE  /\ Found \in m_nNextOption..m_nLastArg
         /\ Found < m_nLastArg => argv[Found].dash
         /\ \A p \in m_nNextOption..Found - 1 : ~argv[p].dash
<1> DEFINE S == {p \in m_nNextOption..m_nLastArg - 1 : argv[p].dash} \cup {m_nLastArg}
<1>1. m_nNextOption \in Nat /\ m_nLastArg \in Nat /\ m_nNextOption <= m_nLastArg
  BY ShapeFacts
<1>2. S \subseteq Nat /\ S # {}
  BY <1>1
<1>3. \A x \in S : x \in m_nNextOption..m_nLastArg
  BY <1>1
<1>4. Found = Min(S)
  BY DEF Found
<1> HIDE DEF S
<1>5. Found \in S /\ \A y \in S : Found <= y
  BY <1>2, <1>4, MinIs
<1>6. Found \in m_nNextOption..m_nLastArg
  BY <1>3, <1>5
<1>7. Found < m_nLastArg => argv[Found].dash
  BY <1>1, <1>5, <1>6 DEF S
<1>8. ASSUME NEW p \in m_nNextOption..Found - 1
      PROVE  ~argv[p].dash
  <2>1. p \in m_nNextOption..m_nLastArg - 1 /\ ~(Found <= p)
    BY <1>1, <1>6
  <2> QED
    BY <1>5, <2>1 DEF S
<1> QED
  BY <1>6, <1>7, <1>8

(* What is in front of the option are files, and nothing that has been read  *)
(* up to it ends the options.                                                *)
LEMMA FilesBefore ==
  ASSUME Shape, UnreadInv, StopInv, TakeInv, pc = "next", m_pszClump = <<>>
  PROVE  LET count == Found - m_nNextOption
         IN  /\ count \in Nat /\ count <= m_nLastArg - m_nNextOption
             /\ \A k \in Consumed + 1..Consumed + count : IsFile(k) /\ ~given[k].dash
             /\ Consumed + count <= Len(given)
             /\ m_nNextOption < m_nLastArg => \A k \in 1..Consumed + count : k \notin StopsAt
             /\ Found < m_nLastArg =>
                  /\ Consumed + count + 1 \in 1..Len(given)
                  /\ given[Consumed + count + 1] = argv[Found]
                  /\ given[Consumed + count + 1].dash
<1> DEFINE count == Found - m_nNextOption
<1>1. /\ m_nNextOption \in Nat /\ m_nLastArg \in Nat
      /\ m_nNextOption >= 1 /\ m_nNextOption <= m_nLastArg
      /\ Moved \in Nat /\ Consumed \in Nat /\ Len(given) \in Nat
      /\ Consumed + (m_nLastArg - m_nNextOption) = Len(given)
      /\ Consumed = m_nNextOption - 1 + Moved
  BY ShapeFacts DEF Consumed, Shape
<1>2. /\ Found \in m_nNextOption..m_nLastArg
      /\ Found < m_nLastArg => argv[Found].dash
      /\ \A p \in m_nNextOption..Found - 1 : ~argv[p].dash
  BY FoundFacts
<1>3. /\ count \in Nat /\ count <= m_nLastArg - m_nNextOption
      /\ Consumed + count <= Len(given) /\ Found = m_nNextOption + count
  BY <1>1, <1>2
<1> HIDE DEF count
<1>4. ASSUME NEW k \in Consumed + 1..Consumed + count
      PROVE  ~given[k].dash
  <2>1. k - Moved \in m_nNextOption..Found - 1 /\ k - Moved \in m_nNextOption..m_nLastArg - 1
        /\ k - Moved + Moved = k
    BY <1>1, <1>2, <1>3
  <2> QED
    BY <1>2, <2>1 DEF UnreadInv
<1>5. ASSUME m_nNextOption < m_nLastArg, NEW k \in 1..Consumed + count
      PROVE  k \notin StopsAt
  <2>1. CASE k \in 1..Consumed
    <3>1. ~Pending("stop") /\ ~InClump("stop")
      BY DEF Pending, InClump
    <3> QED
      BY <1>5, <2>1, <3>1 DEF StopInv
  <2>2. CASE k \notin 1..Consumed
    <3>1. k \in Consumed + 1..Consumed + count
      BY <1>1, <1>3, <2>2
    <3> QED
      BY <1>4, <3>1 DEF StopsAt
  <2> QED
    BY <2>1, <2>2
<1>6. ASSUME NEW k \in Consumed + 1..Consumed + count
      PROVE  IsFile(k)
  <2>1. m_nNextOption < m_nLastArg /\ Consumed + 1 <= k /\ k \in Nat
    BY <1>1, <1>2, <1>3
  <2>2. ASSUME k > 1, TakesNext(given[k - 1])
        PROVE  FALSE
    <3>1. CASE k = Consumed + 1
      <4>1. Consumed >= 1 /\ k - 1 = Consumed
        BY <1>1, <2>2, <3>1
      <4>2. given[k].dash
        BY <2>1, <2>2, <3>1, <4>1 DEF TakeInv
      <4> QED
        BY <1>4, <4>2
    <3>2. CASE k # Consumed + 1
      <4>1. k - 1 \in Consumed + 1..Consumed + count
        BY <1>1, <1>3, <3>2
      <4> QED
        BY <1>4, <2>2, <4>1 DEF TakesNext
    <3> QED
      BY <3>1, <3>2
  <2> QED
    BY <1>4, <2>2 DEF IsFile
<1>7. ASSUME Found < m_nLastArg
      PROVE  /\ Consumed + count + 1 \in 1..Len(given)
             /\ given[Consumed + count + 1] = argv[Found]
             /\ given[Consumed + count + 1].dash
  <2>1. /\ Consumed + count + 1 \in 1..Len(given) /\ Found + Moved = Consumed + count + 1
        /\ Found \in m_nNextOption..m_nLastArg - 1
    BY <1>1, <1>2, <1>3, <1>7
  <2> QED
    BY <1>2, <1>7, <2>1 DEF UnreadInv
<1> QED
  BY <1>3, <1>4, <1>5, <1>6, <1>7 DEF count


LEMMA StopLetter ==
  \A c : Letter(c) = "stop" <=> c = "-"
BY DEF Letter

LEMMA StopsAsked ==
  StopsAt = { k \in DOMAIN given : AsksStop(given[k]) }
BY DEF StopsAt, AsksStop

(* An option is taken as it was given: it is marked as a stop or sets what   *)
(* it asks for, and what it takes besides is its argument.                   *)
LEMMA OptionTaken ==
  ASSUME Shape, UnreadInv, FilesInv, StopInv, TakeInv, SettingsInv,
         pc = "next", m_pszClump = <<>>, Found < m_nLastArg, MoveFiles,
         given' = given, settings' = settings,
         NEW taken \in 0..1, m_nNextOption' = m_nNextOption + (1 + taken),
         m_nNextOption' <= m_nLastArg',
         taken = 1 => TakesNext(argv[Found]) /\ ~argv'[m_nNextOption + 1].dash,
         taken = 0 /\ m_nNextOption' < m_nLastArg' /\ TakesNext(argv[Found])
           => argv'[m_nNextOption'].dash,
         AsksStop(argv[Found]) <=> Pending("stop")' \/ InClump("stop")',
         \A s \in Settings : s \in Sets(argv[Found]) <=> Pending(s)' \/ InClump(s)'
  PROVE  Shape' /\ UnreadInv' /\ FilesInv' /\ StopInv' /\ TakeInv' /\ SettingsInv'
<1> DEFINE count == Found - m_nNextOption
<1> DEFINE o == Consumed + count + 1
<1>1. /\ m_nNextOption \in Nat /\ m_nLastArg \in Nat
      /\ m_nNextOption >= 1 /\ m_nNextOption <= m_nLastArg
      /\ Moved \in Nat /\ Consumed \in Nat /\ Len(given) \in Nat
      /\ Consumed + (m_nLastArg - m_nNextOption) = Len(given)
      /\ Consumed = m_nNextOption - 1 + Moved
  BY ShapeFacts DEF Consumed, Shape
<1>2. /\ count \in Nat /\ count <= m_nLastArg - m_nNextOption
      /\ \A k \in Consumed + 1..Consumed + count : IsFile(k) /\ ~given[k].dash
      /\ Consumed + count <= Len(given)
      /\ m_nNextOption < m_nLastArg => \A k \in 1..Consumed + count : k \notin StopsAt
      /\ o \in 1..Len(given) /\ given[o] = argv[Found] /\ given[o].dash
  BY FilesBefore
<1>3. m_nNextOption < m_nLastArg
  BY <1>1, <1>2, FoundFacts
<1>4. ShuffleArg(m_nNextOption, count)
  BY DEF MoveFiles
<1> HIDE DEF count
<1>5. o \in Nat /\ o = Consumed + count + 1 /\ DOMAIN given = 1..Len(given)
  BY <1>1, <1>2 DEF Shape
<1> HIDE DEF o
<1>6. \A k \in 1..o - 1 : k \notin StopsAt
  <2>1. o - 1 = Consumed + count
    BY <1>1, <1>2, <1>5
  <2> QED
    BY <1>2, <1>3, <2>1
<1>7. ~Stopped(o) /\ ~IsFile(o)
  <2>1. ~Stopped(o)
    <3>1. \A j \in StopsAt : j \in 1..Len(given)
      BY <1>5 DEF StopsAt
    <3> QED
      BY <1>1, <1>5, <1>6, <3>1 DEF Stopped
  <2> QED
    BY <1>2, <2>1 DEF IsFile
<1>8. o \in StopsAt <=> AsksStop(argv[Found])
  BY <1>2, <1>5, StopsAsked
<1>9. /\ argv' \in Seq(Arguments) /\ m_nLastArg' = m_nLastArg - count /\ m_nLastArg' \in Nat
      /\ Moved' = Moved + count
      /\ \A p \in m_nNextOption..m_nLastArg' - 1 : argv'[p] = argv[p + count]
  BY <1>2, <1>4, Moves
<1>10. ASSUME taken = 1
       PROVE  /\ o + 1 \in 1..Len(given) /\ ~given[o + 1].dash
              /\ o \notin StopsAt /\ o + 1 \notin StopsAt
              /\ ~Stopped(o + 1) /\ ~IsFile(o + 1)
              /\ ~Pending("stop")' /\ ~InClump("stop")'
  <2>1. TakesNext(argv[Found]) /\ ~argv'[m_nNextOption + 1].dash
    BY <1>10
  <2>2. ~AsksStop(argv[Found])
    BY <2>1 DEF AsksStop, TakesNext, Clumped
  <2>3. /\ m_nNextOption + 1 \in m_nNextOption..m_nLastArg' - 1
        /\ (m_nNextOption + 1) + count \in m_nNextOption..m_nLastArg - 1
        /\ ((m_nNextOption + 1) + count) + Moved = o + 1
        /\ o + 1 \in 1..Len(given)
    BY <1>1, <1>2, <1>5, <1>9, <1>10
  <2>4. given[o + 1] = argv'[m_nNextOption + 1]
    BY <1>9, <2>3 DEF UnreadInv
  <2>5. o \notin StopsAt /\ o + 1 \notin StopsAt
    BY <1>8, <2>1, <2>2, <2>4 DEF StopsAt
  <2>6. ~Stopped(o + 1)
    <3>1. \A j \in StopsAt : j \in 1..Len(given)
      BY <1>5 DEF StopsAt
    <3> QED
      BY <1>1, <1>5, <1>6, <2>5, <3>1 DEF Stopped
  <2>7. o + 1 > 1 /\ (o + 1) - 1 = o
    BY <1>2, <1>5
  <2>8. ~IsFile(o + 1)
    BY <1>2, <2>1, <2>4, <2>6, <2>7 DEF IsFile
  <2> QED
    BY <2>1, <2>2, <2>3, <2>4, <2>5, <2>6, <2>8
<1>11. Shape' /\ UnreadInv' /\ FilesInv' /\ Consumed' = Consumed + count + (1 + taken)
  <2>1. \A k \in Consumed + count + 1..Consumed + count + (1 + taken) :
           k = o \/ (taken = 1 /\ k = o + 1)
    <3>1. \A c \in Nat : \A k \in c + 1..c + (1 + taken) :
            k = c + 1 \/ (taken = 1 /\ k = c + 1 + 1)
      OBVIOUS
    <3>2. Consumed + count \in Nat
      BY <1>1, <1>2
    <3> QED
      BY <1>5, <3>1, <3>2
  <2>2. \A k \in Consumed + count + 1..Consumed + count + (1 + taken) : ~IsFile(k)
    BY <1>7, <1>10, <2>1
  <2>3. 1 + taken \in Nat
    OBVIOUS
  <2> QED
    BY <1>2, <1>4, <2>2, <2>3, FilesMoved
<1>12. /\ Consumed' = o + taken
       /\ m_nNextOption' + Moved' = Consumed' + 1
  <2>1. Consumed' = o + taken
    BY <1>1, <1>2, <1>5, <1>11
  <2>2. Consumed' = m_nNextOption' - 1 + Moved'
    BY DEF Consumed
  <2>3. m_nNextOption' \in Nat
    BY <1>1
  <2>4. Moved' \in Nat
    BY <1>1, <1>2, <1>9
  <2> QED
    BY <2>1, <2>2, <2>3, <2>4
<1>13. StopInv'
  <2> SUFFICES ASSUME m_nNextOption' < m_nLastArg', NEW k \in 0..Consumed'
               PROVE  k \in StopsAt' <=> k = Consumed' /\ (Pending("stop")' \/ InClump("stop")')
    BY DEF StopInv
  <2>1. StopsAt' = StopsAt
    BY SameFiles
  <2>2. CASE k < o
    <3>1. (k = 0 \/ k \in 1..o - 1) /\ k # Consumed'
      BY <1>2, <1>5, <1>12, <2>2
    <3>2. 0 \notin StopsAt
      BY <1>1, <1>5 DEF StopsAt
    <3> QED
      BY <1>6, <2>1, <3>1, <3>2
  <2>3. CASE k = o
    BY <1>5, <1>8, <1>10, <1>12, <2>1, <2>3
  <2>4. CASE k > o
    <3>1. taken = 1 /\ k = o + 1
      BY <1>5, <1>12, <2>4
    <3> QED
      BY <1>10, <2>1, <3>1
  <2> QED
    BY <1>5, <1>12, <2>2, <2>3, <2>4
<1>14. TakeInv'
  <2> SUFFICES ASSUME m_nNextOption' < m_nLastArg', Consumed' >= 1, TakesNext(given[Consumed'])
               PROVE  given[Consumed' + 1].dash
    BY DEF TakeInv
  <2>1. CASE taken = 1
    <3>1. Consumed' = o + 1
      BY <1>12, <2>1
    <3> QED
      BY <1>10, <2>1, <3>1 DEF TakesNext
  <2>2. CASE taken = 0
    <3>1. Consumed' = o
      BY <1>5, <1>12, <2>2
    <3>2. argv'[m_nNextOption'].dash
      BY <1>2, <2>2, <3>1
    <3>3. m_nNextOption' \in m_nNextOption'..m_nLastArg' - 1
      BY <1>1, <1>9
    <3>4. argv'[m_nNextOption'] = given[Consumed' + 1]
      BY <1>11, <1>12, <3>3 DEF UnreadInv
    <3> QED
      BY <3>2, <3>4
  <2> QED
    BY <2>1, <2>2
<1>15. SettingsInv'
  <2>1. ASSUME NEW s \in Settings
        PROVE  Asked(s)' <=> s \in settings' \/ Pending(s)' \/ InClump(s)'
    <3>1. Asked(s)' <=> \E k \in 1..Consumed' : ~Stopped(k) /\ s \in Sets(given[k])
      BY SameFiles DEF Asked
    <3>2. \A k \in 1..Consumed' :
            \/ k \in 1..Consumed
            \/ k \in Consumed + 1..Consumed + count
            \/ k = o
            \/ taken = 1 /\ k = o + 1
      BY <1>1, <1>2, <1>5, <1>12
    <3>3. \A k : ~given[k].dash => s \notin Sets(given[k])
      BY DEF Sets
    <3>4. o \in 1..Consumed' /\ \A k \in 1..Consumed : k \in 1..Consumed'
      BY <1>1, <1>2, <1>5, <1>12
    <3>5. Asked(s)' <=> Asked(s) \/ s \in Sets(given[o])
      BY <1>2, <1>7, <1>10, <3>1, <3>2, <3>3, <3>4 DEF Asked
    <3>6. ~Pending(s) /\ ~InClump(s)
      BY DEF Pending, InClump
    <3>7. Asked(s) <=> s \in settings
      BY <3>6 DEF SettingsInv
    <3> QED
      BY <1>2, <3>5, <3>7
  <2> QED
    BY <2>1 DEF SettingsInv
<1> QED
  BY <1>11, <1>13, <1>14, <1>15

-----------------------------------------------------------------------------
(* Next                                                                      *)

(* The invariant of the parser, together with what the program has made of   *)
(* what was read.                                                            *)
ReadInv == Shape /\ UnreadInv /\ FilesInv /\ StopInv /\ TakeInv /\ SettingsInv

(* A letter that is read was in the clump.                                   *)
LEMMA LetterRead ==
  ASSUME NEW letters \in Seq(STRING), letters # <<>>, NextLetter(letters), pc' = "option"
  PROVE  /\ m_pszClump' \in Seq(STRING)
         /\ m_nOptionId' \in OptionIds \cup {""} /\ m_nLastError' \in Errors
         /\ \A id \in Settings \cup {"stop"} :
              (\E j \in DOMAIN letters : Letter(letters[j]) = id) <=> Pending(id)' \/ InClump(id)'
<1>1. /\ m_pszClump' = Tail(letters)
      /\ m_nOptionId' = IF Letter(Head(letters)) = "outputfile" THEN "" ELSE Letter(Head(letters))
      /\ m_nLastError' = CASE Letter(Head(letters)) = "" -> "OPT_INVALID"
                           [] Letter(Head(letters)) = "outputfile" -> "ARG_MISSING"
                           [] OTHER -> "SUCCESS"
  BY DEF NextLetter
<1>2. \A c : Letter(c) \in OptionIds \cup {""}
  BY DEF Letter, OptionIds, Settings
<1>3. Tail(letters) \in Seq(STRING)
  OBVIOUS
<1>4. m_nOptionId' \in OptionIds \cup {""} /\ m_nLastError' \in Errors
  BY <1>1, <1>2 DEF Errors, OptionIds
<1>5. ASSUME NEW id \in Settings \cup {"stop"}
      PROVE  (\E j \in DOMAIN letters : Letter(letters[j]) = id) <=> Pending(id)' \/ InClump(id)'
  <2>1. Pending(id)' <=> Letter(Head(letters)) = id
    BY <1>1 DEF Pending, Settings
  <2>2. InClump(id)' <=> \E j \in DOMAIN Tail(letters) : Letter(Tail(letters)[j]) = id
    BY <1>1 DEF InClump
  <2>3. /\ Head(letters) = letters[1] /\ 1 \in DOMAIN letters
        /\ \A j \in DOMAIN Tail(letters) : Tail(letters)[j] = letters[j + 1] /\ j + 1 \in DOMAIN letters
        /\ \A j \in DOMAIN letters : j = 1 \/ j - 1 \in DOMAIN Tail(letters)
    OBVIOUS
  <2>4. \A j \in DOMAIN letters : j = 1 \/ letters[j] = Tail(letters)[j - 1]
    OBVIOUS
  <2> QED
    BY <2>1, <2>2, <2>3, <2>4
<1> QED
  BY <1>1, <1>3, <1>4, <1>5

LEMMA ClumpRead ==
  ASSUME ReadInv, pc = "next", pc' = "option", NextClumped, m_pszClump \in Seq(STRING),
         given' = given, settings' = settings
  PROVE  ReadInv'
<1>1. /\ argv' = argv /\ m_nNextOption' = m_nNextOption /\ m_nLastArg' = m_nLastArg
      /\ m_pszClump # <<>> /\ NextLetter(m_pszClump)
  BY DEF NextClumped
<1>2. Moved' = Moved /\ Consumed' = Consumed
  BY <1>1 DEF Moved, Consumed
<1>3. \A id \in Settings \cup {"stop"} :
        Pending(id) \/ InClump(id) <=> Pending(id)' \/ InClump(id)'
  <2>1. \A id : ~Pending(id)
    BY DEF Pending
  <2> QED
    BY <1>1, <2>1, LetterRead DEF InClump
<1>4. Shape' /\ UnreadInv' /\ TakeInv'
  BY <1>1, <1>2 DEF ReadInv, Shape, UnreadInv, TakeInv
<1>5. FilesInv'
  BY <1>1, <1>2, SameFiles DEF ReadInv, FilesInv
<1>6. StopInv'
  BY <1>1, <1>2, <1>3, SameFiles DEF ReadInv, StopInv
<1>7. SettingsInv'
  BY <1>2, <1>3, SameFiles DEF ReadInv, SettingsInv, Asked
<1> QED
  BY <1>4, <1>5, <1>6, <1>7 DEF ReadInv

LEMMA FoundArgument ==
  ASSUME Shape, Found < m_nLastArg, MoveFiles
  PROVE  /\ argv[Found] \in Argument /\ argv[Found].dash
         /\ m_nNextOption + 1 <= m_nLastArg'
         /\ m_nLastArg' \in Nat
<1>1. /\ m_nNextOption \in Nat /\ m_nLastArg \in Nat /\ Len(argv) \in Nat
      /\ m_nNextOption >= 1 /\ m_nLastArg <= Len(argv) + 1
  BY ShapeFacts
<1>2. Found \in m_nNextOption..m_nLastArg /\ argv[Found].dash
  BY FoundFacts
<1>3. m_nLastArg' = m_nLastArg - (Found - m_nNextOption)
  BY DEF MoveFiles, ShuffleArg
<1>4. argv[Found] \in Arguments
  BY <1>1, <1>2 DEF Shape
<1> QED
  BY <1>1, <1>2, <1>3, <1>4, CommandLineAssumption

LEMMA NothingInClump ==
  ASSUME m_pszClump' = <<>>
  PROVE  \A id : ~InClump(id)'
BY DEF InClump

(* An option that takes no argument.                                         *)
LEMMA AloneTaken ==
  ASSUME ReadInv, pc = "next", m_pszClump = <<>>, Found < m_nLastArg, MoveFiles,
         given' = given, settings' = settings, m_nNextOption' = m_nNextOption + 1,
         m_nNextOption' < m_nLastArg' /\ TakesNext(argv[Found]) => argv'[m_nNextOption'].dash,
         AsksStop(argv[Found]) <=> Pending("stop")' \/ InClump("stop")',
         \A s \in Settings : s \in Sets(argv[Found]) <=> Pending(s)' \/ InClump(s)'
  PROVE  ReadInv'
<1>1. 0 \in 0..1 /\ 0 # 1
  OBVIOUS
<1>2. m_nNextOption' = m_nNextOption + (1 + 0)
  OBVIOUS
<1>3. m_nNextOption' <= m_nLastArg'
  BY FoundArgument DEF ReadInv
<1>4. Shape /\ UnreadInv /\ FilesInv /\ StopInv /\ TakeInv /\ SettingsInv
  BY DEF ReadInv
<1>5. Shape' /\ UnreadInv' /\ FilesInv' /\ StopInv' /\ TakeInv' /\ SettingsInv'
  BY <1>1, <1>2, <1>3, <1>4, OptionTaken, Zenon
<1> QED
  BY <1>5 DEF ReadInv

LEMMA NewClumpRead ==
  ASSUME ReadInv, pc = "next", pc' = "option", NextClump, given' = given, settings' = settings
  PROVE  ReadInv'
<1> DEFINE arg == argv[Found]
<1>1. /\ m_pszClump = <<>> /\ Found < m_nLastArg /\ Clumped(arg) /\ MoveFiles
      /\ NextLetter(arg.letters) /\ m_nNextOption' = m_nNextOption + 1
  BY DEF NextClump
<1>2. /\ arg \in Argument /\ arg.dash /\ m_nNextOption + 1 <= m_nLastArg'
  BY <1>1, FoundArgument DEF ReadInv
<1> HIDE DEF arg
<1>3. arg.letters \in Seq(STRING) /\ arg.letters # <<>>
  <2>1. arg.letters \in Seq(STRING)
    BY <1>2, Zenon DEF Argument
  <2>2. Len(arg.letters) > 1
    BY <1>1 DEF Clumped
  <2>3. \A t \in Seq(STRING) : Len(t) > 1 => t # <<>>
    OBVIOUS
  <2> QED
    BY <2>1, <2>2, <2>3
<1>4. \A id \in Settings \cup {"stop"} :
        (\E j \in DOMAIN arg.letters : Letter(arg.letters[j]) = id) <=> Pending(id)' \/ InClump(id)'
  BY <1>1, <1>3, LetterRead
<1>5. ~arg.equals /\ arg.option = ""
  BY <1>1 DEF Clumped
<1>6. AsksStop(arg) <=> Pending("stop")' \/ InClump("stop")'
  BY <1>1, <1>2, <1>4, <1>5, StopLetter DEF AsksStop
<1>7. \A s \in Settings : s \in Sets(arg) <=> Pending(s)' \/ InClump(s)'
  <2>1. Sets(arg) = { Letter(arg.letters[j]) : j \in DOMAIN arg.letters }
    BY <1>1, <1>2, <1>5 DEF Sets
  <2> QED
    BY <1>4, <2>1
<1>8. ~TakesNext(arg)
  BY <1>5 DEF TakesNext
<1> QED
  BY <1>1, <1>6, <1>7, <1>8, AloneTaken, Zenon DEF arg

LEMMA InvalidRead ==
  ASSUME ReadInv, pc = "next", pc' = "option", NextInvalid, given' = given, settings' = settings
  PROVE  ReadInv'
<1> DEFINE arg == argv[Found]
<1>1. /\ m_pszClump = <<>> /\ Found < m_nLastArg /\ MoveFiles
      /\ arg.option = "" /\ ~Clumped(arg)
      /\ m_nNextOption' = m_nNextOption + 1
      /\ m_nLastError' = "OPT_INVALID" /\ m_pszClump' = <<>>
  BY DEF NextInvalid
<1>2. /\ arg \in Argument /\ arg.dash /\ m_nNextOption + 1 <= m_nLastArg'
  BY <1>1, FoundArgument DEF ReadInv
<1> HIDE DEF arg
<1>3. \A id : ~Pending(id)' /\ ~InClump(id)'
  BY <1>1, NothingInClump DEF Pending
<1>4. ~AsksStop(arg) /\ ~TakesNext(arg)
  BY <1>1 DEF AsksStop, TakesNext
<1>5. \A s \in Settings : s \notin Sets(arg)
  BY <1>1 DEF Sets, Settings
<1>6. AsksStop(arg) <=> Pending("stop")' \/ InClump("stop")'
  BY <1>3, <1>4
<1>7. \A s \in Settings : s \in Sets(arg) <=> Pending(s)' \/ InClump(s)'
  BY <1>3, <1>5
<1> QED
  BY <1>1, <1>4, <1>6, <1>7, AloneTaken, Zenon DEF arg

LEMMA FlagRead ==
  ASSUME ReadInv, pc = "next", pc' = "option", NextFlag, given' = given, settings' = settings
  PROVE  ReadInv'
<1> DEFINE arg == argv[Found]
<1>1. /\ m_pszClump = <<>> /\ Found < m_nLastArg /\ MoveFiles
      /\ arg.option \notin {"", "outputfile"}
      /\ m_nNextOption' = m_nNextOption + 1 /\ m_nOptionId' = arg.option
      /\ m_nLastError' = (IF arg.equals THEN "ARG_INVALID" ELSE "SUCCESS")
      /\ m_pszClump' = <<>>
  BY DEF NextFlag
<1>2. /\ arg \in Argument /\ arg.dash /\ m_nNextOption + 1 <= m_nLastArg'
  BY <1>1, FoundArgument DEF ReadInv
<1> HIDE DEF arg
<1>3. \A id : ~InClump(id)'
  BY <1>1, NothingInClump
<1>4. \A id : Pending(id)' <=> ~arg.equals /\ arg.option = id
  BY <1>1 DEF Pending
<1>5. ~Clumped(arg) /\ ~TakesNext(arg)
  BY <1>1 DEF Clumped, TakesNext
<1>6. AsksStop(arg) <=> Pending("stop")' \/ InClump("stop")'
  BY <1>2, <1>3, <1>4, <1>5 DEF AsksStop
<1>7. \A s \in Settings : s \in Sets(arg) <=> Pending(s)' \/ InClump(s)'
  BY <1>2, <1>3, <1>4, <1>5 DEF Sets
<1> QED
  BY <1>1, <1>5, <1>6, <1>7, AloneTaken, Zenon DEF arg

LEMMA WithArgumentRead ==
  ASSUME ReadInv, pc = "next", NextWithArgument, given' = given, settings' = settings
  PROVE  ReadInv' /\ m_nLastError' \in Errors
<1> DEFINE arg == argv[Found]
<1>1. /\ m_pszClump = <<>> /\ Found < m_nLastArg /\ MoveFiles
      /\ arg.option = "outputfile" /\ m_nOptionId' = "outputfile" /\ m_pszClump' = <<>>
  BY DEF NextWithArgument
<1>2. /\ arg \in Argument /\ arg.dash /\ m_nNextOption + 1 <= m_nLastArg' /\ m_nLastArg' \in Nat
  BY <1>1, FoundArgument DEF ReadInv
<1>3. m_nNextOption \in Nat
  BY ShapeFacts DEF ReadInv
<1>4. IF arg.equals THEN m_nLastError' = "SUCCESS" /\ m_nNextOption' = m_nNextOption + 1 ELSE MultiArg
  BY DEF NextWithArgument
<1> HIDE DEF arg
<1>5. \A s \in Settings \cup {"stop"} : ~Pending(s)' /\ ~InClump(s)'
  BY <1>1, NothingInClump DEF Pending, Settings
<1>6. ~AsksStop(arg)
  BY <1>1 DEF AsksStop, Clumped
<1>7. \A s \in Settings : s \notin Sets(arg)
  BY <1>1 DEF Sets, Clumped, Settings
<1>8. AsksStop(arg) <=> Pending("stop")' \/ InClump("stop")'
  BY <1>5, <1>6
<1>9. \A s \in Settings : s \in Sets(arg) <=> Pending(s)' \/ InClump(s)'
  BY <1>5, <1>7
<1>10. CASE arg.equals
  <2>1. m_nNextOption' = m_nNextOption + 1 /\ m_nLastError' = "SUCCESS"
    BY <1>4, <1>10
  <2>2. ~TakesNext(arg)
    BY <1>10 DEF TakesNext
  <2>3. ReadInv'
    BY <1>1, <1>8, <1>9, <2>1, <2>2, AloneTaken, Zenon DEF arg
  <2> QED
    BY <2>1, <2>3 DEF Errors
<1>11. CASE ~arg.equals
  <2> DEFINE next == m_nNextOption + 1
  <2>1. /\ m_nLastError' = IF next + 1 > m_nLastArg' THEN "ARG_MISSING"
                           ELSE IF argv'[next].dash THEN "ARG_INVALID_DATA" ELSE "SUCCESS"
        /\ m_nNextOption' = IF m_nLastError' = "SUCCESS" THEN next + 1 ELSE next
    BY <1>4, <1>11 DEF MultiArg
  <2>2. m_nLastError' \in Errors
    BY <2>1 DEF Errors
  <2>3. CASE next + 1 > m_nLastArg'
    <3>1. m_nNextOption' = m_nNextOption + 1
      BY <2>1, <2>3
    <3>2. ~(m_nNextOption' < m_nLastArg')
      BY <1>2, <1>3, <2>3, <3>1
    <3> QED
      BY <1>1, <1>8, <1>9, <2>2, <3>1, <3>2, AloneTaken, Zenon DEF arg
  <2>4. CASE ~(next + 1 > m_nLastArg') /\ argv'[next].dash
    <3>1. m_nNextOption' = m_nNextOption + 1 /\ argv'[m_nNextOption'].dash
      BY <2>1, <2>4
    <3> QED
      BY <1>1, <1>8, <1>9, <2>2, <3>1, AloneTaken, Zenon DEF arg
  <2>5. CASE ~(next + 1 > m_nLastArg') /\ ~argv'[next].dash
    <3>1. m_nNextOption' = m_nNextOption + (1 + 1) /\ m_nNextOption' <= m_nLastArg'
      BY <1>2, <1>3, <2>1, <2>5
    <3>2. TakesNext(arg) /\ ~argv'[m_nNextOption + 1].dash
      BY <1>1, <1>2, <1>11, <2>5 DEF TakesNext
    <3>3. 1 \in 0..1 /\ ~(1 = 0)
      OBVIOUS
    <3>4. Shape /\ UnreadInv /\ FilesInv /\ StopInv /\ TakeInv /\ SettingsInv
      BY DEF ReadInv
    <3>5. Shape' /\ UnreadInv' /\ FilesInv' /\ StopInv' /\ TakeInv' /\ SettingsInv'
      BY <1>1, <1>8, <1>9, <3>1, <3>2, <3>3, <3>4, OptionTaken, Zenon DEF arg
    <3> QED
      BY <2>2, <3>5 DEF ReadInv
  <2> QED
    BY <2>3, <2>4, <2>5
<1> QED
  BY <1>10, <1>11

LEMMA Nothing ==
  0 \in Nat /\ \A x \in Nat : x = x + 0 /\ x <= x /\ ~(x < x)
OBVIOUS

(* Nothing but files is left.                                                *)
LEMMA EndRead ==
  ASSUME ReadInv, pc = "next", pc' = "banner", NextEnd, given' = given, settings' = settings
  PROVE  ReadInv' /\ m_nNextOption' = m_nLastArg'
<1> DEFINE count == Found - m_nNextOption
<1>1. /\ m_pszClump = <<>> /\ Found = m_nLastArg /\ ShuffleArg(m_nNextOption, count)
      /\ m_nNextOption' = m_nNextOption /\ m_pszClump' = <<>>
  BY DEF NextEnd, MoveFiles
<1>2. /\ count \in Nat /\ count <= m_nLastArg - m_nNextOption
      /\ \A k \in Consumed + 1..Consumed + count : IsFile(k) /\ ~given[k].dash
  BY <1>1, FilesBefore DEF ReadInv
<1>3. m_nNextOption \in Nat /\ m_nLastArg \in Nat /\ Consumed \in Nat
  BY ShapeFacts DEF ReadInv
<1>4. m_nLastArg' = m_nLastArg - count
  BY <1>1 DEF ShuffleArg
<1>5. m_nNextOption' = m_nLastArg'
  BY <1>1, <1>3, <1>4
<1> HIDE DEF count
<1>6. Shape' /\ UnreadInv' /\ FilesInv' /\ Consumed' = Consumed + count + 0
  <2>1. m_nNextOption' = m_nNextOption + 0 /\ m_nNextOption' <= m_nLastArg' /\ 0 \in Nat
    BY <1>1, <1>3, <1>5, Nothing, Zenon
  <2>2. \A k \in Consumed + count + 1..Consumed + count + 0 : ~IsFile(k)
    BY <1>2, <1>3
  <2> QED
    BY <1>1, <1>2, <2>1, <2>2, FilesMoved DEF ReadInv
<1>7. StopInv' /\ TakeInv'
  <2>1. ~(m_nNextOption' < m_nLastArg')
    BY <1>1, <1>3, <1>5, Nothing, Zenon
  <2> QED
    BY <2>1, Zenon DEF StopInv, TakeInv
<1>8. SettingsInv'
  <2>1. ASSUME NEW s \in Settings
        PROVE  Asked(s)' <=> s \in settings' \/ Pending(s)' \/ InClump(s)'
    <3>1. Asked(s)' <=> \E k \in 1..Consumed' : ~Stopped(k) /\ s \in Sets(given[k])
      BY SameFiles DEF Asked
    <3>2. /\ \A k \in 1..Consumed' : k \in 1..Consumed \/ k \in Consumed + 1..Consumed + count
          /\ \A k \in 1..Consumed : k \in 1..Consumed'
      BY <1>2, <1>3, <1>6
    <3>3. \A k : ~given[k].dash => s \notin Sets(given[k])
      BY DEF Sets
    <3>4. Asked(s)' <=> Asked(s)
      BY <1>2, <3>1, <3>2, <3>3 DEF Asked
    <3>5. ~Pending(s) /\ ~InClump(s) /\ ~Pending(s)' /\ ~InClump(s)'
      BY <1>1, NothingInClump DEF Pending, InClump
    <3> QED
      BY <3>4, <3>5 DEF ReadInv, SettingsInv
  <2> QED
    BY <2>1 DEF ReadInv, SettingsInv
<1> QED
  BY <1>5, <1>6, <1>7, <1>8 DEF ReadInv

(* Behind "--" everything is a file.                                         *)
LEMMA StopRead ==
  ASSUME ReadInv, StopOptions
  PROVE  ReadInv'
<1> DEFINE count == m_nLastArg - m_nNextOption
<1>1. /\ Pending("stop") /\ ShuffleArg(m_nNextOption, count) /\ pc' = "next"
      /\ m_nNextOption' = m_nNextOption /\ m_pszClump' = m_pszClump
      /\ given' = given /\ settings' = settings
  BY DEF StopOptions, Stop, Valid, Pending, options
<1>2. /\ m_nNextOption \in Nat /\ m_nLastArg \in Nat /\ Consumed \in Nat
      /\ m_nNextOption <= m_nLastArg
  BY ShapeFacts DEF ReadInv
<1>3. m_nLastArg' = m_nLastArg - count
  BY <1>1 DEF ShuffleArg
<1>4. m_nNextOption' = m_nLastArg' /\ count \in Nat /\ count <= m_nLastArg - m_nNextOption
  BY <1>1, <1>2, <1>3
<1>5. ASSUME NEW k \in Consumed + 1..Consumed + count
      PROVE  Stopped(k)
  <2>1. m_nNextOption < m_nLastArg /\ Consumed \in 0..Consumed /\ Consumed < k
    BY <1>2
  <2>2. Consumed \in StopsAt
    BY <1>1, <2>1 DEF ReadInv, StopInv
  <2> QED
    BY <2>1, <2>2 DEF Stopped
<1> HIDE DEF count
<1>6. Shape' /\ UnreadInv' /\ FilesInv' /\ Consumed' = Consumed + count + 0
  <2>1. m_nNextOption' = m_nNextOption + 0 /\ m_nNextOption' <= m_nLastArg' /\ 0 \in Nat
    BY <1>1, <1>2, <1>4, Nothing, Zenon
  <2>2. \A k \in Consumed + count + 1..Consumed + count + 0 : ~IsFile(k)
    BY <1>2, <1>4
  <2>3. \A k \in Consumed + 1..Consumed + count : IsFile(k)
    BY <1>5 DEF IsFile
  <2> QED
    BY <1>1, <1>4, <2>1, <2>2, <2>3, FilesMoved DEF ReadInv
<1>7. StopInv' /\ TakeInv'
  <2>1. ~(m_nNextOption' < m_nLastArg')
    BY <1>1, <1>2, <1>4, Nothing, Zenon
  <2> QED
    BY <2>1, Zenon DEF StopInv, TakeInv
<1>8. SettingsInv'
  <2>1. ASSUME NEW s \in Settings
        PROVE  Asked(s)' <=> s \in settings' \/ Pending(s)' \/ InClump(s)'
    <3>1. Asked(s)' <=> \E k \in 1..Consumed' : ~Stopped(k) /\ s \in Sets(given[k])
      BY <1>1, SameFiles DEF Asked
    <3>2. /\ \A k \in 1..Consumed' : k \in 1..Consumed \/ k \in Consumed + 1..Consumed + count
          /\ \A k \in 1..Consumed : k \in 1..Consumed'
      BY <1>2, <1>4, <1>6
    <3>3. Asked(s)' <=> Asked(s)
      BY <1>5, <3>1, <3>2 DEF Asked
    <3>4. ~Pending(s) /\ ~Pending(s)'
      BY <1>1 DEF Pending, Settings
    <3>5. InClump(s)' <=> InClump(s)
      BY <1>1 DEF InClump
    <3> QED
      BY <1>1, <3>3, <3>4, <3>5 DEF ReadInv, SettingsInv
  <2> QED
    BY <1>1, <2>1 DEF ReadInv, SettingsInv
<1> QED
  BY <1>6, <1>7, <1>8 DEF ReadInv

(* A step that leaves the parser alone and makes no setting.                 *)
LEMMA NotRead ==
  ASSUME ReadInv, UNCHANGED <<parser, given, settings>>,
         \A id \in Settings \cup {"stop"} : Pending(id)' <=> Pending(id)
  PROVE  ReadInv'
<1>1. /\ argv' = argv /\ m_nNextOption' = m_nNextOption /\ m_nLastArg' = m_nLastArg
      /\ m_pszClump' = m_pszClump /\ given' = given /\ settings' = settings
  BY DEF parser
<1>2. Moved' = Moved /\ Consumed' = Consumed
  BY <1>1 DEF Moved, Consumed
<1>3. \A id : InClump(id)' <=> InClump(id)
  BY <1>1 DEF InClump
<1>4. Shape' /\ UnreadInv' /\ TakeInv'
  BY <1>1, <1>2 DEF ReadInv, Shape, UnreadInv, TakeInv
<1>5. FilesInv'
  <2>1. \A k : IsFile(k) <=> IsFile(k)'
    BY <1>1, SameFiles
  <2>2. { k \in 1..Consumed : IsFile(k) } = { k \in 1..Consumed : IsFile(k)' }
    BY <2>1
  <2>3. PICK at \in [1..Moved -> 1..Len(given)] :
          /\ \A j, k \in 1..Moved : j < k => at[j] < at[k]
          /\ \A j \in 1..Moved : argv[m_nLastArg - 1 + j] = given[at[j]]
          /\ { at[j] : j \in 1..Moved } = { k \in 1..Consumed : IsFile(k)' }
    BY <2>2 DEF ReadInv, FilesInv
  <2>4. /\ at \in [1..Moved' -> 1..Len(given')]
        /\ \A j, k \in 1..Moved' : j < k => at[j] < at[k]
        /\ \A j \in 1..Moved' : argv'[m_nLastArg' - 1 + j] = given'[at[j]]
        /\ { at[j] : j \in 1..Moved' } = { k \in 1..Consumed' : IsFile(k)' }
    BY <1>1, <1>2, <2>3
  <2> QED
    BY <2>4, Zenon DEF FilesInv
<1>6. StopInv'
  BY <1>1, <1>2, <1>3, SameFiles DEF ReadInv, StopInv
<1>7. SettingsInv'
  BY <1>1, <1>2, <1>3, SameFiles DEF ReadInv, SettingsInv, Asked
<1> QED
  BY <1>4, <1>5, <1>6, <1>7 DEF ReadInv

LEMMA SettingMade ==
  ASSUME ReadInv, Set
  PROVE  ReadInv'
<1>1. PICK s \in Settings : Valid(s) /\ settings' = settings \cup {s}
  BY DEF Set
<1>2. /\ argv' = argv /\ m_nNextOption' = m_nNextOption /\ m_nLastArg' = m_nLastArg
      /\ m_pszClump' = m_pszClump /\ given' = given /\ pc' = "next"
  BY DEF Set, parser
<1>3. Moved' = Moved /\ Consumed' = Consumed
  BY <1>2 DEF Moved, Consumed
<1>4. \A id : InClump(id)' <=> InClump(id)
  BY <1>2 DEF InClump
<1>5. \A id : (Pending(id) <=> id = s) /\ ~Pending(id)'
  BY <1>1, <1>2 DEF Pending, Valid
<1>6. Shape' /\ UnreadInv' /\ TakeInv'
  BY <1>2, <1>3 DEF ReadInv, Shape, UnreadInv, TakeInv
<1>7. FilesInv'
  BY <1>2, <1>3, SameFiles DEF ReadInv, FilesInv
<1>8. StopInv'
  <2>1. s # "stop"
    BY DEF Settings
  <2> QED
    BY <1>2, <1>3, <1>4, <1>5, <2>1, SameFiles DEF ReadInv, StopInv
<1>9. SettingsInv'
  <2>1. \A t \in Settings : Asked(t)' <=> Asked(t)
    BY <1>2, <1>3, SameFiles DEF Asked
  <2> QED
    BY <1>1, <1>4, <1>5, <2>1 DEF ReadInv, SettingsInv
<1> QED
  BY <1>6, <1>7, <1>8, <1>9 DEF ReadInv

-----------------------------------------------------------------------------
(* The command line                                                          *)

(* When the program goes on from its options, the parser has read everything.*)
ParseInv ==
  /\ ReadInv
  /\ Len(argv) <= MaxArgs /\ m_pszClump \in Seq(STRING)
  /\ m_nOptionId \in OptionIds \cup {""} /\ m_nLastError \in Errors
  /\ pc \in {"next", "option", "banner", "has", "lookup", "enable", "traverse", "call",
             "restore", "exit", "raised"}
  /\ pc \in {"next", "option"} => more
  /\ Parsed => m_pszClump = <<>> /\ m_nNextOption = m_nLastArg

LEMMA ParseStart == Init => ParseInv
<1> SUFFICES ASSUME Init PROVE ParseInv
  OBVIOUS
<1>1. /\ m_nNextOption = 1 /\ m_nLastArg = Len(argv) + 1 /\ m_pszClump = <<>>
      /\ given = argv /\ settings = {}
  BY DEF Init, ParserInit
<1>15. m_nOptionId = "" /\ m_nLastError = "SUCCESS" /\ pc = "next"
  BY DEF Init, ParserInit
<1>2. argv \in Seq(Arguments) /\ Len(argv) \in 0..MaxArgs
  <2>1. PICK len \in 0..MaxArgs : argv \in [1..len -> Arguments]
    BY DEF Init, ParserInit
  <2> QED
    BY <2>1, CommandLineAssumption
<1>3. Len(argv) \in Nat
  BY <1>2
<1>4. Moved = 0 /\ Consumed = 0
  BY <1>1, <1>3 DEF Moved, Consumed
<1>5. Shape
  BY <1>1, <1>2, <1>3 DEF Shape
<1>6. UnreadInv
  BY <1>1, <1>3, <1>4 DEF UnreadInv
<1>7. FilesInv
  <2> DEFINE none == [j \in 1..0 |-> j]
  <2>1. 1..0 = {} /\ none \in [1..0 -> 1..Len(given)]
    OBVIOUS
  <2>2. { none[j] : j \in 1..0 } = { k \in 1..0 : IsFile(k) }
    BY <2>1
  <2> QED
    BY <1>4, <2>1, <2>2 DEF FilesInv
<1>8. \A id : ~Pending(id) /\ ~InClump(id)
  <2>1. pc # "option"
    BY <1>15
  <2> QED
    BY <1>1, <2>1 DEF Pending, InClump
<1>9. StopInv
  <2>1. \A k \in 0..Consumed : k = 0
    BY <1>4
  <2>2. 0 \notin StopsAt
    BY <1>1, <1>2 DEF StopsAt
  <2> QED
    BY <1>8, <2>1, <2>2 DEF StopInv
<1>10. TakeInv
  BY <1>4 DEF TakeInv
<1>11. SettingsInv
  BY <1>1, <1>4, <1>8 DEF SettingsInv, Asked
<1>12. <<>> \in Seq(STRING)
  OBVIOUS
<1>13. more
  BY Zenon DEF Init, ParserInit
<1>14. m_pszClump \in Seq(STRING)
  BY <1>1, <1>12
<1>16. m_nOptionId \in OptionIds \cup {""} /\ m_nLastError \in Errors /\ ~Parsed
  BY <1>15, Zenon DEF Errors, Parsed
<1>17. Len(argv) <= MaxArgs
  BY <1>2, CommandLineAssumption
<1>18. ReadInv
  BY <1>5, <1>6, <1>7, <1>9, <1>10, <1>11 DEF ReadInv
<1> QED
  BY <1>13, <1>14, <1>15, <1>16, <1>17, <1>18, Zenon DEF ParseInv

(* What Next returns.                                                        *)
LEMMA NextReturned ==
  ASSUME ParseInv, CallNext
  PROVE  ParseInv'
<1>1. /\ pc = "next" /\ given' = given /\ settings' = settings
      /\ pc' = IF more' THEN "option" ELSE "banner"
  BY DEF CallNext, options
<1>2. ReadInv /\ m_pszClump \in Seq(STRING) /\ Len(argv) <= MaxArgs /\ Shape
  BY DEF ParseInv, ReadInv
<1>3. ASSUME more', ReadInv', Len(argv') = Len(argv), m_pszClump' \in Seq(STRING),
             m_nOptionId' \in OptionIds \cup {""}, m_nLastError' \in Errors
      PROVE  ParseInv'
  <2>1. pc' = "option"
    BY <1>1, <1>3
  <2> QED
    BY <1>2, <1>3, <2>1 DEF ParseInv, Parsed
<1>4. ASSUME MoveFiles, m_pszClump = <<>>
      PROVE  Len(argv') = Len(argv)
  <2>1. Found - m_nNextOption \in Nat /\ Found - m_nNextOption <= m_nLastArg - m_nNextOption
    BY <1>1, <1>2, <1>4, FilesBefore DEF ReadInv
  <2> QED
    BY <1>2, <1>4, <2>1, Moves DEF MoveFiles
<1>5. "" \in OptionIds \cup {""} /\ "SUCCESS" \in Errors /\ "OPT_INVALID" \in Errors
      /\ "ARG_INVALID" \in Errors /\ "outputfile" \in OptionIds
  BY DEF Errors, OptionIds
<1>6. CASE NextClumped
  <2>1. more' /\ argv' = argv /\ m_pszClump # <<>> /\ NextLetter(m_pszClump)
    BY <1>6 DEF NextClumped
  <2>2. pc' = "option"
    BY <1>1, <2>1
  <2>3. ReadInv'
    BY <1>1, <1>2, <1>6, <2>2, ClumpRead
  <2> QED
    BY <1>2, <1>3, <2>1, <2>2, <2>3, LetterRead
<1>7. CASE NextClump
  <2>1. /\ more' /\ MoveFiles /\ m_pszClump = <<>> /\ Found < m_nLastArg
        /\ Clumped(argv[Found]) /\ NextLetter(argv[Found].letters)
    BY <1>7 DEF NextClump
  <2>2. pc' = "option"
    BY <1>1, <2>1
  <2>3. ReadInv'
    BY <1>1, <1>2, <1>7, <2>2, NewClumpRead
  <2>4. argv[Found] \in Argument
    BY <1>2, <2>1, FoundArgument
  <2>5. argv[Found].letters \in Seq(STRING)
    BY <2>4, Zenon DEF Argument
  <2>6. argv[Found].letters # <<>>
    <3>1. Len(argv[Found].letters) > 1
      BY <2>1 DEF Clumped
    <3>2. \A t \in Seq(STRING) : Len(t) > 1 => t # <<>>
      OBVIOUS
    <3> QED
      BY <2>5, <3>1, <3>2
  <2> QED
    BY <1>3, <1>4, <2>1, <2>2, <2>3, <2>5, <2>6, LetterRead
<1>8. CASE NextInvalid
  <2>1. /\ more' /\ MoveFiles /\ m_pszClump = <<>> /\ m_pszClump' = m_pszClump
        /\ m_nOptionId' = "" /\ m_nLastError' = "OPT_INVALID"
    BY <1>8 DEF NextInvalid
  <2>2. pc' = "option"
    BY <1>1, <2>1
  <2>3. ReadInv'
    BY <1>1, <1>2, <1>8, <2>2, InvalidRead
  <2> QED
    BY <1>2, <1>3, <1>4, <1>5, <2>1, <2>3
<1>9. CASE NextFlag
  <2>1. /\ more' /\ MoveFiles /\ m_pszClump = <<>> /\ m_pszClump' = m_pszClump
        /\ m_nOptionId' = argv[Found].option /\ m_nLastError' \in Errors /\ Found < m_nLastArg
    BY <1>9 DEF NextFlag, Errors
  <2>2. pc' = "option"
    BY <1>1, <2>1
  <2>3. ReadInv'
    BY <1>1, <1>2, <1>9, <2>2, FlagRead
  <2>4. argv[Found] \in Argument
    BY <1>2, <2>1, FoundArgument
  <2>5. argv[Found].option \in OptionIds \cup {""}
    BY <2>4, Zenon DEF Argument
  <2> QED
    BY <1>2, <1>3, <1>4, <2>1, <2>3, <2>5
<1>10. CASE NextWithArgument
  <2>1. /\ more' /\ MoveFiles /\ m_pszClump = <<>> /\ m_pszClump' = m_pszClump
        /\ m_nOptionId' = "outputfile"
    BY <1>10 DEF NextWithArgument
  <2>2. ReadInv' /\ m_nLastError' \in Errors
    BY <1>1, <1>2, <1>10, WithArgumentRead
  <2> QED
    BY <1>2, <1>3, <1>4, <1>5, <2>1, <2>2
<1>11. CASE NextEnd
  <2>1. /\ ~more' /\ MoveFiles /\ m_pszClump = <<>> /\ m_pszClump' = <<>>
        /\ m_nOptionId' = "" /\ m_nLastError' = "SUCCESS"
    BY <1>11 DEF NextEnd
  <2>2. pc' = "banner"
    BY <1>1, <2>1
  <2>3. ReadInv' /\ m_nNextOption' = m_nLastArg'
    BY <1>1, <1>2, <1>11, <2>2, EndRead
  <2>4. Len(argv') <= MaxArgs
    BY <1>2, <1>4, <2>1
  <2>5. m_pszClump' \in Seq(STRING)
    <3>1. <<>> \in Seq(STRING)
      OBVIOUS
    <3> QED
      BY <2>1, <3>1, Zenon
  <2> QED
    BY <1>5, <2>1, <2>2, <2>3, <2>4, <2>5 DEF ParseInv
<1> QED
  BY <1>6, <1>7, <1>8, <1>9, <1>10, <1>11 DEF CallNext, NextOption

LEMMA ParseQuiet ==
  ASSUME ParseInv, UNCHANGED <<parser, given, settings>>,
         \A id \in Settings \cup {"stop"} : Pending(id)' <=> Pending(id),
         pc' \in {"next", "option", "banner", "has", "lookup", "enable", "traverse", "call",
                  "restore", "exit", "raised"},
         pc' \in {"next", "option"} => more,
         Parsed' => Parsed
  PROVE  ParseInv'
<1>1. /\ argv' = argv /\ m_nNextOption' = m_nNextOption /\ m_nLastArg' = m_nLastArg
      /\ m_pszClump' = m_pszClump /\ m_nOptionId' = m_nOptionId
      /\ m_nLastError' = m_nLastError /\ more' = more
  BY DEF parser
<1>2. ReadInv'
  BY NotRead DEF ParseInv
<1> QED
  BY <1>1, <1>2 DEF ParseInv

LEMMA ParseStep ==
  ASSUME ParseInv, [Next]_vars
  PROVE  ParseInv'
<1> DEFINE Quiet == /\ UNCHANGED <<parser, given, settings>>
                    /\ \A id \in Settings \cup {"stop"} : ~Pending(id)
<1>1. ASSUME Quiet, pc' = "next", pc = "option"
      PROVE  ParseInv'
  <2>1. \A id : ~Pending(id)'
    BY <1>1 DEF Pending
  <2> QED
    BY <1>1, <2>1, ParseQuiet DEF ParseInv, Parsed
<1>2. ASSUME Quiet, pc \notin {"next", "option", "exit"},
             pc' \in {"banner", "has", "lookup", "enable", "traverse", "call",
                      "restore", "exit", "raised"}
      PROVE  ParseInv'
  <2>1. \A id : ~Pending(id)'
    BY <1>2 DEF Pending
  <2> QED
    BY <1>2, <2>1, ParseQuiet DEF ParseInv, Parsed
<1>3. ASSUME pc # "option"
      PROVE  \A id : ~Pending(id)
  BY <1>3 DEF Pending
<1>4. CASE CallNext
  BY <1>4, NextReturned
<1>5. CASE OptionInError
  BY <1>1, <1>5 DEF OptionInError, Pending, options
<1>6. CASE HelpOrVersion
  <2>1. /\ pc = "option" /\ m_nOptionId \in {"help", "version"} /\ pc' = "exit"
        /\ UNCHANGED <<parser, given, settings>>
    BY <1>6 DEF HelpOrVersion, Valid, options
  <2>2. \A id \in Settings \cup {"stop"} : Pending(id)' <=> Pending(id)
    BY <2>1 DEF Pending, Settings
  <2>3. more' <=> more
    BY <2>1 DEF parser
  <2>4. ~Parsed'
    BY <2>1, <2>3 DEF ParseInv, Parsed
  <2> QED
    BY <2>1, <2>2, <2>4, ParseQuiet
<1>7. CASE Set
  <2>1. ReadInv'
    BY <1>7, SettingMade DEF ParseInv
  <2>2. pc = "option" /\ pc' = "next" /\ UNCHANGED parser
    BY <1>7 DEF Set, Valid
  <2>3. more' <=> more
    BY <2>2 DEF parser
  <2>4. more' /\ ~Parsed' /\ pc' = "next"
    BY <2>2, <2>3 DEF ParseInv, Parsed
  <2> QED
    BY <2>1, <2>2, <2>4 DEF ParseInv, parser
<1>8. CASE OpenOutput
  <2>1. \A id \in Settings \cup {"stop"} : ~Pending(id)
    BY <1>8 DEF OpenOutput, Valid, Pending, Settings
  <2> QED
    BY <1>1, <1>8, <2>1 DEF OpenOutput, Valid
<1>9. CASE StopOptions
  <2>1. ReadInv'
    BY <1>9, StopRead DEF ParseInv
  <2>2. /\ pc = "option" /\ pc' = "next" /\ more' = more
        /\ m_pszClump' = m_pszClump /\ m_nOptionId' = m_nOptionId
        /\ m_nLastError' = m_nLastError
        /\ ShuffleArg(m_nNextOption, m_nLastArg - m_nNextOption)
    BY <1>9 DEF StopOptions, Stop, Valid
  <2>3. Len(argv') = Len(argv)
    <3> DEFINE count == m_nLastArg - m_nNextOption
    <3>0. Shape
      BY DEF ParseInv, ReadInv
    <3>1. Shape /\ count \in Nat /\ count <= m_nLastArg - m_nNextOption
      BY <3>0, ShapeFacts
    <3> HIDE DEF count
    <3>2. ShuffleArg(m_nNextOption, count)
      BY <2>2 DEF count
    <3> QED
      BY <3>1, <3>2, Moves
  <2>4. more' /\ ~Parsed' /\ pc' = "next"
    BY <2>2 DEF ParseInv, Parsed
  <2> QED
    BY <2>1, <2>2, <2>3, <2>4 DEF ParseInv
<1>10. CASE Banner
  BY <1>2, <1>3, <1>10 DEF Banner, options
<1>11. CASE HasContextTokenPrivilege
  BY <1>2, <1>3, <1>11 DEF HasContextTokenPrivilege, options
<1>12. CASE HasTokenPrivilege
  BY <1>2, <1>3, <1>12 DEF HasTokenPrivilege, options
<1>13. CASE Enable
  BY <1>2, <1>3, <1>13 DEF Enable, options
<1>14. CASE Restore
  BY <1>2, <1>3, <1>14 DEF Restore, options
<1>15. CASE Traverse
  BY <1>2, <1>3, <1>15 DEF Traverse, options
<1>16. CASE AllTraversed
  BY <1>2, <1>3, <1>16 DEF AllTraversed, options
<1>17. ASSUME NEW f \in Imports, Call(f)
       PROVE  ParseInv'
  BY <1>2, <1>3, <1>17 DEF Call, options
<1>18. ASSUME NEW err \in Results, Return(err)
       PROVE  ParseInv'
  BY <1>2, <1>3, <1>18 DEF Return, options
<1>20. CASE ReturnEarly
  BY <1>2, <1>3, <1>20 DEF ReturnEarly, options
<1>19. CASE UNCHANGED vars
  <2>1. UNCHANGED <<parser, given, settings>> /\ pc' = pc /\ (more' <=> more)
    BY <1>19 DEF vars, options, parser
  <2>2. /\ \A id \in Settings \cup {"stop"} : Pending(id)' <=> Pending(id)
        /\ Parsed' <=> Parsed
    BY <1>19, Zenon DEF vars, parser, Pending, Parsed
  <2> QED
    BY <2>1, <2>2, ParseQuiet DEF ParseInv
<1> QED
  BY <1>4, <1>5, <1>6, <1>7, <1>8, <1>9, <1>10, <1>11, <1>12, <1>13, <1>14, <1>15, <1>16,
     <1>17, <1>18, <1>19, <1>20, Zenon DEF Next, Ended

LEMMA FilesAtEnd ==
  ASSUME Shape
  PROVE  /\ Len(Files) = Moved
         /\ \A j \in 1..Moved : Files[j] = argv[m_nLastArg - 1 + j]
<1>1. /\ Len(argv) \in Nat /\ m_nLastArg \in Nat /\ m_nLastArg >= 1
      /\ m_nLastArg <= Len(argv) + 1 /\ argv \in Seq(Arguments)
      /\ Moved = Len(argv) + 1 - m_nLastArg
  BY ShapeFacts DEF Shape, Moved
<1>2. /\ Len(Files) = Len(argv) - m_nLastArg + 1
      /\ \A j \in 1..Len(argv) - m_nLastArg + 1 : Files[j] = argv[m_nLastArg + j - 1]
  BY <1>1, Part DEF Files
<1>3. Len(argv) - m_nLastArg + 1 = Moved
  BY <1>1
<1>4. \A j \in 1..Moved : m_nLastArg + j - 1 = m_nLastArg - 1 + j
  BY <1>1
<1> QED
  BY <1>2, <1>3, <1>4

LEMMA FilesSorted == ParseInv => FilesInOrder
<1> SUFFICES ASSUME ParseInv, Parsed, ~overrun
             PROVE  \E at \in [1..Len(Files) -> DOMAIN given] :
                      /\ \A j, k \in 1..Len(Files) : j < k => at[j] < at[k]
                      /\ { at[j] : j \in 1..Len(Files) } = { k \in DOMAIN given : IsFile(k) }
                      /\ \A j \in 1..Len(Files) : Files[j] = given[at[j]]
  BY DEF FilesInOrder
<1>1. Shape /\ FilesInv /\ m_nNextOption = m_nLastArg
  BY DEF ParseInv, ReadInv
<1>2. /\ Len(argv) \in Nat /\ m_nLastArg \in Nat /\ m_nLastArg >= 1
      /\ m_nLastArg <= Len(argv) + 1 /\ argv \in Seq(Arguments)
      /\ Moved = Len(argv) + 1 - m_nLastArg /\ Moved \in Nat
      /\ DOMAIN given = 1..Len(given) /\ Consumed = Len(given)
  BY <1>1, ShapeFacts DEF Shape, Moved
<1>3. /\ Len(Files) = Moved
      /\ \A j \in 1..Moved : Files[j] = argv[m_nLastArg - 1 + j]
  BY <1>1, FilesAtEnd
<1>4. PICK at \in [1..Moved -> 1..Len(given)] :
        /\ \A j, k \in 1..Moved : j < k => at[j] < at[k]
        /\ \A j \in 1..Moved : argv[m_nLastArg - 1 + j] = given[at[j]]
        /\ { at[j] : j \in 1..Moved } = { k \in 1..Consumed : IsFile(k) }
  BY <1>1 DEF FilesInv
<1>5. at \in [1..Len(Files) -> DOMAIN given] /\ 1..Consumed = DOMAIN given
  BY <1>2, <1>3, <1>4, Zenon
<1>6. \A j \in 1..Len(Files) : Files[j] = given[at[j]]
  BY <1>3, <1>4, Zenon
<1> QED
  BY <1>3, <1>4, <1>5, <1>6, Zenon

LEMMA SettingsMade == ParseInv => SettingsAsGiven
<1> SUFFICES ASSUME ParseInv, Parsed, ~overrun
             PROVE  settings = Settings \cap
                      UNION { Sets(given[k]) : k \in { k \in DOMAIN given : ~Stopped(k) } }
  BY DEF SettingsAsGiven
<1>1. /\ Shape /\ SettingsInv /\ m_nNextOption = m_nLastArg /\ m_pszClump = <<>>
  BY DEF ParseInv, ReadInv
<1>2. DOMAIN given = 1..Len(given) /\ Consumed = Len(given)
  BY <1>1, ShapeFacts DEF Shape
<1>3. \A s : ~Pending(s) /\ ~InClump(s)
  BY <1>1 DEF Pending, Parsed, InClump
<1>4. settings \subseteq Settings /\ \A s \in Settings : s \in settings <=> Asked(s)
  BY <1>1, <1>3 DEF SettingsInv
<1> QED
  BY <1>2, <1>4 DEF Asked

-----------------------------------------------------------------------------
(* The buffer, the output file, and the types of the rest                    *)

(* The buffer is there when there are too many arguments for the one on the  *)
(* stack, unless there is no memory.                                         *)
BufferInv ==
  /\ m_rgShuffleBuf \in BOOLEAN /\ more \in BOOLEAN
  /\ outOfMemory \in BOOLEAN /\ overrun \in BOOLEAN
  /\ m_rgShuffleBuf <=> TooMany /\ ~outOfMemory
  /\ OverrunOnlyOutOfMemory

LEMMA ShuffleBuffered ==
  ASSUME Shape, BufferInv, NEW count \in Nat, count <= m_nLastArg - m_nNextOption,
         ShuffleArg(m_nNextOption, count), more' \in BOOLEAN
  PROVE  BufferInv'
<1>1. Len(argv') = Len(argv) /\ Len(argv) \in Nat /\ count <= Len(argv)
  BY Moves, ShapeFacts
<1>2. /\ overrun' = (overrun \/ ~Fits(count))
      /\ m_rgShuffleBuf' = m_rgShuffleBuf /\ outOfMemory' = outOfMemory
  BY Zenon DEF ShuffleArg
<1>3. TooMany' <=> TooMany
  BY <1>1 DEF TooMany
<1>4. ~Fits(count) => TooMany /\ ~m_rgShuffleBuf
  BY <1>1, CommandLineAssumption DEF Fits, TooMany
<1>5. ~Fits(count) => outOfMemory
  BY <1>4, Zenon DEF BufferInv
<1> QED
  BY <1>2, <1>3, <1>5, Zenon DEF BufferInv, OverrunOnlyOutOfMemory

LEMMA BufferStart == Init => BufferInv
<1> SUFFICES ASSUME Init PROVE BufferInv
  OBVIOUS
<1>1. /\ outOfMemory \in BOOLEAN /\ m_rgShuffleBuf = (TooMany /\ ~outOfMemory)
      /\ more = TRUE /\ overrun = FALSE
  BY Zenon DEF Init, ParserInit
<1> QED
  BY <1>1, Zenon DEF BufferInv, OverrunOnlyOutOfMemory

LEMMA BufferStep ==
  ASSUME ParseInv, BufferInv, [Next]_vars
  PROVE  BufferInv'
<1>1. ASSUME UNCHANGED parser
      PROVE  BufferInv'
  BY <1>1, Zenon DEF parser, BufferInv, TooMany, OverrunOnlyOutOfMemory
<1>2. CASE CallNext
  <2>1. Shape /\ StopInv /\ TakeInv /\ UnreadInv /\ pc = "next"
    BY <1>2 DEF ParseInv, ReadInv, CallNext
  <2>2. ASSUME MoveFiles, m_pszClump = <<>>, more' \in BOOLEAN
        PROVE  BufferInv'
    <3> DEFINE count == Found - m_nNextOption
    <3>1. count \in Nat /\ count <= m_nLastArg - m_nNextOption
      BY <2>1, <2>2, FilesBefore
    <3>2. ShuffleArg(m_nNextOption, count)
      BY <2>2 DEF MoveFiles
    <3> HIDE DEF count
    <3> QED
      BY <2>1, <2>2, <3>1, <3>2, ShuffleBuffered
  <2>3. CASE NextClumped
    <3>1. /\ argv' = argv /\ m_rgShuffleBuf' = m_rgShuffleBuf /\ outOfMemory' = outOfMemory
          /\ overrun' = overrun /\ more' \in BOOLEAN
      BY <2>3, Zenon DEF NextClumped
    <3> QED
      BY <3>1, Zenon DEF BufferInv, TooMany, OverrunOnlyOutOfMemory
  <2>4. CASE NextClump
    BY <2>2, <2>4, Zenon DEF NextClump
  <2>5. CASE NextInvalid
    BY <2>2, <2>5, Zenon DEF NextInvalid
  <2>6. CASE NextFlag
    BY <2>2, <2>6, Zenon DEF NextFlag
  <2>7. CASE NextWithArgument
    BY <2>2, <2>7, Zenon DEF NextWithArgument
  <2>8. CASE NextEnd
    BY <2>2, <2>8, Zenon DEF NextEnd
  <2> QED
    BY <1>2, <2>3, <2>4, <2>5, <2>6, <2>7, <2>8, Zenon DEF CallNext, NextOption
<1>3. CASE StopOptions
  <2> DEFINE count == m_nLastArg - m_nNextOption
  <2>0. Shape
    BY DEF ParseInv, ReadInv
  <2>1. Shape /\ count \in Nat /\ count <= m_nLastArg - m_nNextOption
    BY <2>0, ShapeFacts
  <2> HIDE DEF count
  <2>2. ShuffleArg(m_nNextOption, count) /\ more' \in BOOLEAN
    BY <1>3, Zenon DEF StopOptions, Stop, BufferInv, count
  <2> QED
    BY <2>1, <2>2, ShuffleBuffered
<1> QED
  BY <1>1, <1>2, <1>3, Zenon
     DEF Next, vars, Ended, OptionInError, HelpOrVersion, Set, OpenOutput, Banner,
         HasContextTokenPrivilege, HasTokenPrivilege, Enable, Restore, Traverse, AllTraversed,
         Call, Return, ReturnEarly

(* The rest of what TypeOK says and is not part of another invariant; the    *)
(* path that is traversed is one of the files.                               *)
RestInv ==
  /\ OneOutputFile
  /\ outfile \in BOOLEAN /\ m_bEnabled \in BOOLEAN
  /\ ntdll \subseteq Imports /\ bound \subseteq Imports
  /\ n > 0 => n <= Moved
  /\ pc = "call" => n < Moved

LEMMA RestStart == Init => RestInv
<1> SUFFICES ASSUME Init PROVE RestInv
  OBVIOUS
<1>1. outfile = FALSE /\ m_bEnabled = FALSE
  BY Zenon DEF Init
<1>2. OneOutputFile /\ ntdll \subseteq Imports /\ bound \subseteq Imports /\ ~(n > 0) /\ pc # "call"
  BY DEF Init, OneOutputFile
<1> QED
  BY <1>1, <1>2, Zenon DEF RestInv

LEMMA RestStep ==
  ASSUME ParseInv, EndInv, RestInv, [Next]_vars
  PROVE  RestInv'
<1> DEFINE Flags == outfile \in BOOLEAN /\ m_bEnabled \in BOOLEAN
           Functions == ntdll \subseteq Imports /\ bound \subseteq Imports
           Count == (n > 0 => n <= Moved) /\ (pc = "call" => n < Moved)
<1>0. /\ OneOutputFile /\ Flags /\ Functions /\ Count
      /\ n \in Nat
      /\ n > 0 => pc \in {"traverse", "call", "restore", "exit", "raised"}
  BY Zenon DEF RestInv, EndInv
<1>1. OneOutputFile' /\ outfile' \in BOOLEAN
  <2>1. CASE OpenOutput
    <3>1. /\ outfile' \in BOOLEAN
          /\ streams' = streams - (IF outfile THEN 1 ELSE 0) + (IF outfile' THEN 1 ELSE 0)
      BY <2>1, Zenon DEF OpenOutput
    <3>2. streams = IF outfile THEN 1 ELSE 0
      BY <1>0, Zenon DEF OneOutputFile
    <3>3. (IF outfile THEN 1 ELSE 0) \in {0, 1} /\ (IF outfile' THEN 1 ELSE 0) \in {0, 1}
      BY Zenon
    <3>4. \A a, b \in {0, 1} : a - a + b = b
      OBVIOUS
    <3>5. streams' = IF outfile' THEN 1 ELSE 0
      BY <3>1, <3>2, <3>3, <3>4, Zenon
    <3> QED
      BY <3>1, <3>5, Zenon DEF OneOutputFile
  <2>2. CASE UNCHANGED <<outfile, streams>>
    BY <1>0, <2>2, Zenon DEF OneOutputFile
  <2> QED
    BY <2>1, <2>2, Zenon
       DEF Next, vars, Ended, options, CallNext, OptionInError, HelpOrVersion, Set, StopOptions,
           Banner, HasContextTokenPrivilege, HasTokenPrivilege, Enable, Restore, Traverse,
           AllTraversed, Call, Return, ReturnEarly
<1>2. m_bEnabled' \in BOOLEAN
  <2>1. CASE m_bEnabled' = TRUE
    BY <2>1, Zenon
  <2>2. CASE UNCHANGED m_bEnabled
    BY <1>0, <2>2, Zenon
  <2> QED
    BY <2>1, <2>2, Zenon
       DEF Next, vars, Ended, privilege, CallNext, OptionInError, HelpOrVersion, Set, OpenOutput,
           StopOptions, Banner, HasContextTokenPrivilege, HasTokenPrivilege, Enable, Restore,
           Traverse, AllTraversed, Call, Return, ReturnEarly
<1>3. ntdll' \subseteq Imports /\ bound' \subseteq Imports
  <2>1. CASE Traverse
    BY <1>0, <2>1, MainAssumption DEF Traverse
  <2>2. ASSUME NEW f \in Imports, Call(f)
        PROVE  ntdll' \subseteq Imports /\ bound' \subseteq Imports
    BY <1>0, <2>2 DEF Call
  <2>3. CASE UNCHANGED imports
    BY <1>0, <2>3 DEF imports
  <2> QED
    BY <2>1, <2>2, <2>3, Zenon
       DEF Next, vars, Ended, CallNext, OptionInError, HelpOrVersion, Set, OpenOutput,
           StopOptions, Banner, HasContextTokenPrivilege, HasTokenPrivilege, Enable, Restore,
           AllTraversed, Return, ReturnEarly
<1>4. Shape /\ Moved \in Nat /\ Len(Files) = Moved
  <2>1. Shape
    BY DEF ParseInv, ReadInv
  <2> QED
    BY <2>1, ShapeFacts, FilesAtEnd
<1>5. Count'
  <2>1. ASSUME n' = n, Moved' = Moved, pc' # "call"
        PROVE  Count'
    BY <1>0, <2>1
  <2>2. ASSUME UNCHANGED parser
        PROVE  Moved' = Moved
    BY <2>2, Zenon DEF parser, Moved
  <2>3. ASSUME n' = n, pc \in {"next", "option"}, pc' # "call"
        PROVE  Count'
    <3>1. ~(n' > 0)
      BY <1>0, <2>3
    <3> QED
      BY <2>3, <3>1, Zenon
  <2> USE DEF paths
  <2>4. CASE CallNext
    BY <2>3, <2>4 DEF CallNext
  <2>5. CASE OptionInError
    BY <2>3, <2>5 DEF OptionInError
  <2>6. CASE HelpOrVersion
    BY <2>3, <2>6 DEF HelpOrVersion, Valid
  <2>7. CASE Set
    BY <2>3, <2>7 DEF Set, Valid
  <2>8. CASE OpenOutput
    BY <2>3, <2>8 DEF OpenOutput, Valid
  <2>9. CASE StopOptions
    BY <2>3, <2>9 DEF StopOptions, Valid
  <2>10. CASE Banner
    BY <2>1, <2>2, <2>10 DEF Banner
  <2>11. CASE HasContextTokenPrivilege
    BY <2>1, <2>2, <2>11 DEF HasContextTokenPrivilege
  <2>12. CASE HasTokenPrivilege
    BY <2>1, <2>2, <2>12 DEF HasTokenPrivilege
  <2>13. CASE Enable
    BY <2>1, <2>2, <2>13 DEF Enable
  <2>14. CASE Restore
    BY <2>1, <2>2, <2>14 DEF Restore
  <2>15. CASE Traverse
    BY <1>0, <1>4, <2>2, <2>15 DEF Traverse
  <2>16. CASE AllTraversed
    BY <2>1, <2>2, <2>16 DEF AllTraversed
  <2>17. ASSUME NEW f \in Imports, Call(f)
         PROVE  Count'
    BY <1>0, <2>2, <2>17 DEF Call
  <2>18. ASSUME NEW err \in Results, Return(err)
         PROVE  Count'
    <3>1. pc = "call" /\ pc' = "traverse" /\ n' = n + 1 /\ Moved' = Moved
      BY <2>2, <2>18 DEF Return
    <3> QED
      BY <1>0, <1>4, <3>1
  <2>20. CASE ReturnEarly
    BY <1>0, <1>4, <2>2, <2>20 DEF ReturnEarly
  <2>19. CASE UNCHANGED vars
    BY <1>0, <2>2, <2>19 DEF vars
  <2> HIDE DEF Count
  <2> QED
    BY <2>4, <2>5, <2>6, <2>7, <2>8, <2>9, <2>10, <2>11, <2>12, <2>13, <2>14, <2>15, <2>16,
       <2>17, <2>18, <2>19, <2>20, Zenon DEF Next, Ended
<1> QED
  BY <1>1, <1>2, <1>3, <1>5, Zenon DEF RestInv

(* Every part of the program's state has its type.                           *)
LEMMA Typed ==
  ASSUME ParseInv, BufferInv, PrivilegeInv, EndInv, RestInv
  PROVE  TypeOK
<1>0. Shape
  BY DEF ParseInv, ReadInv
<1>1. /\ argv \in Seq(Arguments) /\ Len(argv) <= MaxArgs
      /\ m_nNextOption \in 1..m_nLastArg /\ m_nLastArg \in 1..Len(argv) + 1
      /\ m_pszClump \in Seq(STRING)
      /\ m_nOptionId \in OptionIds \cup {""} /\ m_nLastError \in Errors
  BY <1>0 DEF ParseInv, Shape
<1>2. {m_rgShuffleBuf, more, outOfMemory, overrun} \subseteq BOOLEAN
  BY Zenon DEF BufferInv
<1>3. ParserTypeOK
  BY <1>1, <1>2, Zenon DEF ParserTypeOK
<1>4. pc \in {"next", "option", "banner", "has", "lookup", "enable", "traverse", "call",
              "restore", "exit", "raised"}
  BY Zenon DEF ParseInv
<1>5. settings \subseteq Settings
  BY Zenon DEF ParseInv, ReadInv, SettingsInv
<1>6. outfile \in BOOLEAN /\ m_bEnabled \in BOOLEAN
  BY Zenon DEF RestInv
<1>7. streams \in Nat
  <2>1. streams = IF outfile THEN 1 ELSE 0
    BY Zenon DEF RestInv, OneOutputFile
  <2> QED
    BY <2>1
<1>8. token \in Tokens \cup {NoToken} /\ i \in Nat
  BY Zenon DEF PrivilegeInv
<1>9. ntdll \subseteq Imports /\ bound \subseteq Imports
  BY Zenon DEF RestInv
<1>10. n \in 0..MaxArgs
  <2>1. n \in Nat /\ (n > 0 => n <= Moved)
    BY Zenon DEF RestInv, EndInv
  <2>2. Moved \in Nat /\ Moved <= Len(argv) /\ Len(argv) \in Nat /\ Len(argv) <= MaxArgs
    BY <1>0, <1>1, ShapeFacts
  <2>3. MaxArgs \in Nat
    BY CommandLineAssumption
  <2> QED
    BY <2>1, <2>2, <2>3
<1>11. retval \in Results \cup {0} /\ errors \subseteq Results
  BY DEF EndInv
<1> QED
  BY <1>3, <1>4, <1>5, <1>6, <1>7, <1>8, <1>9, <1>10, <1>11, Zenon DEF TypeOK

(* For command lines of any length, made of any arguments: unless the buffer *)
(* is overrun, the files are what is left, in their order, and the settings  *)
(* are those asked for up to and within the argument that stops, "--" or a   *)
(* clump with a hyphen, all of whose letters count.  The buffer is overrun   *)
(* only without memory, and one output file at most is open (SimpleOpt.h;    *)
(* lookfs.cpp, _tmain).                                                      *)
THEOREM ObeysCommandLine == Spec => []CommandLineObeyed
<1> DEFINE Inv == ParseInv /\ BufferInv /\ PrivilegeInv /\ EndInv /\ RestInv
<1>1. Init => Inv
  BY ParseStart, BufferStart, PrivilegeStart, EndStart, RestStart, Zenon
<1>2. Inv /\ [Next]_vars => Inv'
  <2> SUFFICES ASSUME Inv, [Next]_vars PROVE Inv'
    OBVIOUS
  <2>1. ParseInv'
    BY ParseStep
  <2>2. BufferInv'
    BY BufferStep
  <2>3. PrivilegeInv'
    BY PrivilegeStep
  <2>4. EndInv'
    BY EndStep
  <2>5. RestInv'
    BY RestStep
  <2> QED
    BY <2>1, <2>2, <2>3, <2>4, <2>5, Zenon
<1>3. Inv => CommandLineObeyed
  <2> SUFFICES ASSUME Inv PROVE CommandLineObeyed
    OBVIOUS
  <2>1. TypeOK
    BY Typed
  <2>2. FilesInOrder /\ SettingsAsGiven
    BY FilesSorted, SettingsMade
  <2>3. OverrunOnlyOutOfMemory /\ OneOutputFile
    BY Zenon DEF BufferInv, RestInv
  <2> QED
    BY <2>1, <2>2, <2>3, Zenon DEF CommandLineObeyed
<1> HIDE DEF Inv
<1> QED
  BY <1>1, <1>2, <1>3, PTL DEF Spec
================================================================================
