----------------------------- MODULE MCDownload -----------------------------
(***************************************************************************)
(* An instance of Download for TLC: what the updater asks for (news kept   *)
(* in memory, the list, an older list, a data file with its checksum), and *)
(* the upload of a chat log.                                               *)
(***************************************************************************)
EXTENDS Download

Asking == [memory |-> FALSE, upload |-> FALSE, adler |-> FALSE, xml |-> FALSE, file |-> "list"]

MCRequests ==
    {[Asking EXCEPT !.file = "none", !.memory = TRUE], [Asking EXCEPT !.xml = TRUE],
     Asking, [Asking EXCEPT !.file = "data", !.adler = TRUE],
     [Asking EXCEPT !.file = "data", !.upload = TRUE]}

=============================================================================
