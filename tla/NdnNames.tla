------------------------------ MODULE NdnNames ------------------------------
(***************************************************************************)
(* NDN names as the repository uses them.  A name is a sequence of         *)
(* components; the only relation the handlers need on names is             *)
(* ndn::Name::isPrefixOf, which compares whole components.                 *)
(***************************************************************************)
EXTENDS SequencesExt

CONSTANT Component      \* the name components that can occur

Name == Seq(Component)

(***************************************************************************)
(* FastRepoImpl::onDataInsertion asks of every registered data prefix      *)
(* whether it isPrefixOf the inserted name.                                *)
(***************************************************************************)
Covered(prefixes, n) == \E p \in prefixes : IsPrefix(p, n)
=============================================================================
