--------------------------- MODULE MCEntryDelivery ---------------------------
(***************************************************************************)
(* Two entries, one of them per burst, two attempts to post, one crash.    *)
(***************************************************************************)
EXTENDS EntryDelivery

CONSTANTS e1, e2

MCEntries == {e1, e2}
=============================================================================
