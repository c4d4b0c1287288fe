---------------------------- MODULE MCImageBuild ----------------------------
(***************************************************************************)
(* An instance of ImageBuild for TLC: two nodes share the storage.         *)
(***************************************************************************)
EXTENDS ImageBuild, TLC

CONSTANTS b1, b2, v1, v2, p1, p2

\* The nodes have the same catalog, or b2 a later one.
SameOrLater == {(b1 :> v1) @@ (b2 :> v1), (b1 :> v1) @@ (b2 :> v2)}
\* Only b1 allows root to log in with a password.
OwnProfile  == (b1 :> p1) @@ (b2 :> p2)

AllCalls    == Asking \cup {"password", "file-open"}
Needed      == {"exec", "status", "password"}

\* An agent that allows little, one that blocks some, two that block calls
\* the check begins with, two with a list that is passed over, one configured in
\* an unknown way, and images that are unfit.
Plain       == [fit |-> TRUE, efi |-> TRUE, ovmf |-> TRUE, known |-> TRUE,
                allow |-> AllCalls, block |-> {}, unseen |-> {}]
SomeGuests  == {[Plain EXCEPT !.allow = {"ping", "info", "exec"}],
                [Plain EXCEPT !.block = {"exec", "status", "file-open"}],
                [Plain EXCEPT !.block = {"ping"}, !.ovmf = FALSE],
                [Plain EXCEPT !.block = {"info"}],
                [Plain EXCEPT !.block = {"exec", "file-open"}, !.unseen = {"block"}],
                [Plain EXCEPT !.allow = {"ping", "info"}, !.unseen = {"allow"}],
                [Plain EXCEPT !.known = FALSE],
                [Plain EXCEPT !.efi = FALSE]}
=============================================================================
