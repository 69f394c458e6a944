----------------------------- MODULE KevCatalog -----------------------------
(***************************************************************************)
(* What the rest of PatchPilot may rely on: the KEV catalog that is being  *)
(* served.  There is none at first; then one catalog replaces another as a *)
(* whole, never by an older release.  Readers (listActiveEntries,          *)
(* loadCurrentProviderStatus) follow the active generation of the source   *)
(* row and see nothing else of a synchronization.                          *)
(***************************************************************************)
EXTENDS Naturals

CONSTANTS Catalogs, NoCatalog, Released, Size

VARIABLES
    served,     \* the catalog of the active generation
    visible     \* ordinals of the entries a reader finds in it

Init == served = NoCatalog /\ visible = {}

\* Publish a catalog that is not older than the one it replaces.
Replace(c) ==
    /\ served # NoCatalog => Released[c] >= Released[served]
    /\ served' = c
    /\ visible' = 0 .. (Size[c] - 1)

Next == \E c \in Catalogs : Replace(c)

Spec == Init /\ [][Next]_<<served, visible>>

=============================================================================
