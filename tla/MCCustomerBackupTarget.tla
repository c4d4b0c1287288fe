----------------------- MODULE MCCustomerBackupTarget -----------------------
(***************************************************************************)
(* Instances of CustomerBackupTarget for TLC.                              *)
(***************************************************************************)
EXTENDS CustomerBackupTarget, TLC

CONSTANTS s1, s2, pbs, nfs, hello

\* One save publishes a storage, the other another one.
TwoTargets == (s1 :> pbs) @@ (s2 :> nfs)

Lined(is) == [is |-> is, lf |-> TRUE]
Open(is)  == [is |-> is, lf |-> FALSE]

\* A new node, notes of an administrator, a target published before, and a
\* damaged marker; the last line may lack its newline.
CleanNotes == {<<>>, <<Open(hello)>>, <<Lined(Unset), Open(hello)>>,
               <<Lined(hello), Open(pbs)>>, <<Lined(Invalid)>>}

\* A marker line cut from the next one by another separator than newline.
OddNotes == {<<Open(pbs), Lined(hello)>>}
=============================================================================
