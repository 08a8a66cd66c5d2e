----------------------------- MODULE MCUpdater -----------------------------
(***************************************************************************)
(* An instance of Updater for TLC: a list of two data files, of which the  *)
(* second is music.                                                        *)
(***************************************************************************)
EXTENDS Updater

MCData == <<"data", "music">>
MCMusic == {"music"}
MCRequests == Asked

\* Runs that start without .part files of earlier ones and without music, and with no
\* lists or two that are of no use: Download is checked with the rest.
MCInit ==
    /\ UInit
    /\ disk["music"] = "none" /\ disk["txt"] = disk["xml"] /\ disk["xml"] # "good"
    /\ \A f \in Files : part[f] = "none"
MCSlowSpec == MCInit /\ [][UNext]_uvars /\ Scheduled
MCSpec == MCSlowSpec /\ SF_uvars(TransferOver)

=============================================================================
