------------------------------ MODULE NameTrie ------------------------------
(***************************************************************************)
(* StorageEngineImpl::NameTrie, the trie of all keys of the database that  *)
(* the repository builds once, when it starts, to find out which prefixes  *)
(* it has to register for the data it holds.                               *)
(*                                                                         *)
(* A node is identified with the path that leads to it, so the trie is a   *)
(* set of non-empty names closed under non-empty prefixes.  TrieNode also  *)
(* has a flag isLeaf; no line of the code ever sets it, so it is FALSE in  *)
(* every node and the trie cannot tell a key from an inner node.           *)
(***************************************************************************)
EXTENDS NdnNames

(***************************************************************************)
(* The nodes after insert() was called with every key: one for each        *)
(* non-empty prefix.  insert() skips empty components, so the key "/"      *)
(* leaves no trace.                                                        *)
(***************************************************************************)
TrieNodes(keys) == UNION { {SubSeq(k, 1, i) : i \in 1..Len(k)} : k \in keys }

Children(nodes, n) == { m \in nodes : Len(m) = Len(n) + 1 /\ IsPrefix(n, m) }

HasOnlyChild(nodes, n) == \E m \in nodes : Children(nodes, n) = {m}

(***************************************************************************)
(* getLongestPrefixes: from each child c of the head, go down as long as   *)
(* the node has exactly one child (and isLeaf is false, which it is).      *)
(***************************************************************************)
DescendToLeaf(nodes, c) ==       \* mutant: while there is any child
    LET go[n \in nodes] ==
            IF Children(nodes, n) = {} THEN n ELSE go[CHOOSE m \in Children(nodes, n) : TRUE]
    IN  go[c]

Descend(nodes, c) ==
    LET go[n \in nodes] ==
            IF HasOnlyChild(nodes, n) THEN go[CHOOSE m \in Children(nodes, n) : TRUE] ELSE n
    IN  go[c]

DescentEnds(nodes) == { Descend(nodes, c) : c \in Children(nodes, << >>) }

(***************************************************************************)
(* The same set without the loop: the nodes that do not have exactly one   *)
(* child, below none but nodes that do.  The other modules use this form.  *)
(***************************************************************************)
AnyLeafBelow(nodes) ==           \* mutant
    { DescendToLeaf(nodes, c) : c \in Children(nodes, << >>) }

LongestPrefixes(nodes) ==
    { n \in nodes :
        /\ ~HasOnlyChild(nodes, n)
        /\ \A m \in nodes : IsStrictPrefix(m, n) => HasOnlyChild(nodes, m) }
=============================================================================
