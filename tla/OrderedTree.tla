---------------------------- MODULE OrderedTree ----------------------------
(***************************************************************************)
(* What the builders promise: a tree whose nodes have ordered children, to *)
(* which each step adds a node as the last child of an open expression or  *)
(* at the top, or an expression that begins with its type.  Nothing that   *)
(* was added is ever moved or changed.  Sym implements it with the child   *)
(* and sibling links of SymTree.                                           *)
(***************************************************************************)
EXTENDS Integers, Sequences

CONSTANTS Tokens      \* what a node may hold

VARIABLE tree         \* tree[k]: the token of node k and its children

Leaf(tok) == [tok |-> tok, kids |-> <<>>]
Top == 0              \* the parent of the nodes at the top

Added(t, p, tok) ==
    Append([k \in DOMAIN t |-> IF k = p THEN [t[k] EXCEPT !.kids = Append(@, Len(t) + 1)]
                               ELSE t[k]],
           Leaf(tok))

Add(p, tok) == tree' = Added(tree, p, tok)
AddTyped(p, expr, type) ==
    tree' = Added(Added(tree, p, expr), Len(tree) + 1, type)
Forget == tree' = <<>>

TreeInit == tree = <<>>
TreeNext == \/ \E p \in {Top} \cup DOMAIN tree, tok \in Tokens :
                   \/ Add(p, tok)
                   \/ \E type \in Tokens : AddTyped(p, tok, type)
            \/ Forget
TreeSpec == TreeInit /\ [][TreeNext]_tree
=============================================================================
