------------------------------- MODULE MCFindApi -------------------------------
(* FindApi with an old ntdll.dll without the WithStatus function, one        *)
(* without the other form as well, and one that lacks a required function.   *)
EXTENDS FindApi

MCNtdlls ==
  { Functions, Functions \ {"WithStatus"}, Functions \ {"WithStatus", "U"},
    Functions \ {"RtlCreateUnicodeString"}, Functions \ {"NtClose"},
    Functions \ {"NtQueryDirectoryFile"}, Functions \ {"RtlNtStatusToDosError"},
    Functions \ {"RtlFreeUnicodeString"} }
=============================================================================
