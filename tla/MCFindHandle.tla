---------------------------- MODULE MCFindHandle ----------------------------
(* FindHandle on small listings: names are long or short, so that an entry   *)
(* may be larger than sizeof(NTFIND_DIR_INFO).                               *)
EXTENDS FindHandle

CONSTANTS MaxEntries, EntrySizes

Total(sizes, k) ==
  LET sum[i \in 0..k] == IF i = 0 THEN 0 ELSE sum[i - 1] + sizes[i]
  IN  sum[k]

(* A listing starts with "." and ".." or, at the root of a drive or with a   *)
(* search mask, with neither.                                                *)
SmallListings ==
  UNION { { [n    |-> n,
             end  |-> [k \in 0..n |-> Total(sizes, k)],
             dots |-> dots] :
              sizes \in [1..n -> EntrySizes], dots \in {{}, 1..2} \cap SUBSET (1..n)} :
          n \in 0..MaxEntries }

MCListings == SmallListings

MCInitialSizes == {1, MaxBufferSize + 1}
=============================================================================
