---------------------------- MODULE MCFtpSession ----------------------------
(* Instances of FtpSession for TLC. *)
EXTENDS FtpSession

\* Every command the dispatch tells apart.
AllVerbs == Keywords

\* What a session needs to transfer data.
TransferVerbs == {"USER", "PASS", "PORT", "LIST", "RETR", "STOR"}

\* Commands that can be taken for each other, and the way to get there.
MixedVerbs == {"USER", "PORT", "LIST", "RETR", "CWD"}
=============================================================================
