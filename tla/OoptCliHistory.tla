---------------------------- MODULE OoptCliHistory ----------------------------
(* The commands of OoptCli with a memory of the commits HEAD has named, and *)
(* what these commands promise together: VersionedConfig.                   *)
EXTENDS OoptCli

VARIABLE published  \* ghost: the commits that HEAD has named

historyVars == <<vars, published>>

(* updateHEAD is the only step that names another commit. *)
Remembers == published' = published \cup {head'}

HistoryInit == Init /\ published = {1}
HistoryNext == Next /\ Remembers
HistorySpec == HistoryInit /\ [][HistoryNext]_historyVars

(* A process that is scheduled runs to its end, as in FairSpec.             *)
FairHistorySpec == HistorySpec /\ \A p \in Proc : WF_vars(Advance(p))

------------------------------------------------------------------------------
V == INSTANCE VersionedConfig
       WITH Given <- OptEntry \cup IntfEntry, Booted <- PortEntry

(* However commands overlap, fail or are killed, the git directory and the  *)
(* device keep the promises of VersionedConfig (commit, rollback and        *)
(* rebootSystem of main.go, updateHEAD of go-git).                          *)
ImplementsVersionedConfig == V!Spec
==============================================================================
