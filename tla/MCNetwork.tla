----------------------------- MODULE MCNetwork -----------------------------
(***************************************************************************)
(* Instances of Network for TLC.                                           *)
(***************************************************************************)
EXTENDS Network

\* Packets a server may send: two fixed ones, two variable ones (of which the
\* shorter has no more than the header), and one nobody registered.
MCTable == [loaded |-> 2, map |-> 2, chat |-> -1]
MCPackets == {[kind |-> "loaded", len |-> 2], [kind |-> "map", len |-> 2],
              [kind |-> "chat", len |-> 5], [kind |-> "alien", len |-> 2]}
MCPauses == {"loaded"}
MCRedirects == {"map"}
MCReplies == {"chat"}
MCNothing == {}
MCFixed == {[kind |-> "loaded", len |-> 2], [kind |-> "map", len |-> 2]}
MCReplyLoaded == {"loaded"}

=============================================================================
