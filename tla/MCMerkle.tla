------------------------------ MODULE MCMerkle ------------------------------
(* The tree of EIP-7745, the layout its log index expands it by, and the     *)
(* views of EIP-6475: a behaviour is of one part, the others stay as they    *)
(* begin.                                                                    *)
EXTENDS BinaryTree

CONSTANTS
  LOG2_EPOCH_HISTORY, LOG2_MAPS_PER_EPOCH, LOG2_VALUES_PER_MAP, LOG2_MAP_HEIGHT,
  LOG2_MAP_WIDTH, PROG_LIST_HEIGHT_STEP, HashBits, MaxHeight, Opaque,
  Bytes, MaxLength,
  LeafValue    \* what a leaf is set to, or zero

VARIABLES part,
          index, type, level,              \* of the layout
          view_type, backing, refused      \* of the view
layoutVars == <<index, type, level>>
viewVars == <<view_type, backing, refused>>

Layout == INSTANCE LogIndexLayout
View == INSTANCE OptionalView

\* Three levels.  Node 3 is an optional container and node 6 one within it;
\* callers use four leaves and the nodes above them.
MCContainers == {3, 6}
MCValues == {LeafValue, Zero}
MCTouched == {1, 2, 3, 4, 6, 7, 9, 12, 13, 14}

AllVars == <<part, vars, layoutVars, viewVars>>

AllInit ==
  /\ part \in {"tree", "layout", "view"}
  /\ Init /\ Layout!Init /\ View!Init
  /\ part # "view" => view_type = [n |-> 1, base |-> "uint8"]

AllNext ==
  \/ part = "tree" /\ Next /\ UNCHANGED <<part, layoutVars, viewVars>>
  \/ part = "layout" /\ Layout!Next /\ UNCHANGED <<part, vars, viewVars>>
  \/ part = "view" /\ View!Next /\ UNCHANGED <<part, vars, layoutVars>>

AllSpec == AllInit /\ [][AllNext]_AllVars

\* The call made last decides nothing: states that differ in it alone are one.
CallsAside == <<part, data, raised, layoutVars, viewVars>>

-----------------------------------------------------------------------------
\* log_index_empty_node knows, from the index alone, the type of every node of
\* the log index and its value, and raises below every leaf (log_index.py).
LayoutAgrees == Layout!LayoutAgrees

\* Expanding a node into its empty children keeps its hash, unless it is a
\* container that was zero (log_index.py, used by btree_expand).
ExpansionKeepsHash == Layout!ExpansionKeepsHash

\* Equal roots come from equal values only, None inside Some from None
\* (optional.py).
RootsTellValues == View!RootsTellValues

\* A view is read back from its own bytes, and no other bytes are read as it
\* (optional.py).
OneEncoding == View!OneEncoding
=============================================================================
