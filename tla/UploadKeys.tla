----------------------------- MODULE UploadKeys -----------------------------
(***************************************************************************)
(* What the upload endpoint promises its clients: an idempotency key stands *)
(* for at most one upload of an asset, for good, and evidence is stored by  *)
(* the step that binds a key to it and by no other.  Reservations, retries  *)
(* and object storage are not visible here.                                *)
(***************************************************************************)
CONSTANTS
    KeySlots,       \* pairs of a key and an asset
    Fingerprints,   \* content type and body of a finished upload
    None            \* no upload finished under this key

VARIABLES
    bound,      \* the upload a key stands for
    stored      \* evidence the asset has, <<asset, body>>

uvars == <<bound, stored>>

UInit ==
    /\ bound = [s \in KeySlots |-> None]
    /\ stored = {}

\* An upload is accepted under a fresh key; its evidence may exist already,
\* stored under another one.
Bind(s, f) ==
    /\ bound[s] = None
    /\ bound' = [bound EXCEPT ![s] = f]
    /\ stored' = stored \cup {<<s[2], f.body>>}

UNext == \E s \in KeySlots, f \in Fingerprints : Bind(s, f)

USpec == UInit /\ [][UNext]_uvars

=============================================================================
