-------------------------- MODULE MCBackupManager --------------------------
(***************************************************************************)
(* Instances of BackupManager for TLC. The names of the two databases of a *)
(* connection make the same file name; a second connection has one.        *)
(***************************************************************************)
EXTENDS BackupManager, TLC

CONSTANTS a1, a2, \* connections
  plain,          \* a name that is its own file name part
  dotted          \* another one, made into plain

MCNames == {plain, dotted}
MCTwoConnections == (a1 :> {plain, dotted}) @@ (a2 :> {plain})
MCOneConnection == (a1 :> {plain, dotted})
MCOneDatabase == (a1 :> {dotted})
MCFilePart == [n \in MCNames |-> plain]
MCDefault == [enabled |-> FALSE, interval |-> 1, keep |-> 1]
MCInputs == {[enabled |-> TRUE, interval |-> 1, keep |-> 0], [enabled |-> TRUE, interval |-> 2, keep |-> 2]}
MCSymmetry == Permutations(Clients)
=============================================================================
