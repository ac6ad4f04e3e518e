----------------------------- MODULE DirListing -----------------------------
(***************************************************************************)
(* What a caller of NativeFindFirstFile, NativeFindNextFile and            *)
(* NativeFindClose (ntfindfile.h:138-162) may rely on.  One handle walks   *)
(* one directory listing; the entries are numbered 1..dir.n in the order   *)
(* in which the file system returns them.  Some entries are "." and "..",  *)
(* which the caller may ask not to see.                                    *)
(*                                                                         *)
(* The promise: entries come in order, none twice, and none the caller     *)
(* asked to suppress; once the end is reported it stays reported; and for  *)
(* a listing whose completeness is promised when it is opened, no wanted   *)
(* entry is missed.                                                        *)
(***************************************************************************)
EXTENDS Integers, Sequences

CONSTANT Listings   \* the listings a directory may have: records with n and dots \subseteq 1..n

VARIABLES state,      \* "closed", "open" or "ended"
          dir,        \* the listing the handle walks
          suppress,   \* did the caller ask to suppress "." and ".."?
          promised,   \* is the whole listing promised?
          delivered   \* the entries given to the caller so far, in order

vars == <<state, dir, suppress, promised, delivered>>

Wants(i) == ~(suppress /\ i \in dir.dots)

Past == IF delivered = <<>> THEN 0 ELSE delivered[Len(delivered)]

(* No wanted entry lies strictly between the last delivered one and i.     *)
NothingMissedBefore(i) == \A j \in 1..dir.n : Past < j /\ j < i => ~Wants(j)

Init ==
  /\ state = "closed"
  /\ dir \in Listings
  /\ suppress \in BOOLEAN
  /\ promised \in BOOLEAN
  /\ delivered = <<>>

Open ==
  /\ state = "closed"
  /\ state' = "open"
  /\ dir' \in Listings
  /\ suppress' \in BOOLEAN
  /\ promised' \in BOOLEAN
  /\ delivered' = <<>>

Deliver(i) ==
  /\ state = "open"
  /\ delivered' = Append(delivered, i)
  /\ Past < i
  /\ Wants(i)
  /\ promised => NothingMissedBefore(i)
  /\ UNCHANGED <<state, dir, suppress, promised>>

End ==
  /\ state = "open"
  /\ state' = "ended"
  /\ promised => NothingMissedBefore(dir.n + 1)
  /\ UNCHANGED <<dir, suppress, promised, delivered>>

Close ==
  /\ state # "closed"
  /\ state' = "closed"
  /\ delivered' = <<>>
  /\ UNCHANGED <<dir, suppress, promised>>

Next == Open \/ (\E i \in 1..dir.n : Deliver(i)) \/ End \/ Close

Spec == Init /\ [][Next]_vars
=============================================================================
