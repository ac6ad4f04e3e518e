------------------------------ MODULE MCLookfsMain ------------------------------
(* LookfsMain for two different files and options of every kind.             *)
EXTENDS LookfsMain

MCFile(name) == [dash |-> FALSE, option |-> "", equals |-> FALSE, letters |-> <<name>>]
MCOption(id, eq) == [dash |-> TRUE, option |-> id, equals |-> eq, letters |-> <<>>]
MCLetters(s) == [dash |-> TRUE, option |-> "", equals |-> FALSE, letters |-> s]

MCArguments ==
  { MCFile("f"), MCFile("g"),
    MCOption("nologo", FALSE), MCOption("help", FALSE), MCOption("stop", FALSE),
    MCOption("showall", TRUE), MCOption("outputfile", FALSE), MCOption("outputfile", TRUE),
    MCLetters(<<"v", "-", "a">>), MCLetters(<<"o", "z">>), MCLetters(<<"q">>), MCLetters(<<"a", "?">>) }

MCNtdlls == { Imports \ {"WithStatus"}, Imports \ {"NtOpenFile"}, {"NtOpenFile"} }
===================================================================================
