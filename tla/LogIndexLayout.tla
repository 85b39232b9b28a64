--------------------------- MODULE LogIndexLayout ---------------------------
(***************************************************************************)
(* The shape of the log index tree of EIP-7745 (assets/log_index.py): what *)
(* log_index_empty_node says of every node, by case analysis on its index, *)
(* against the SSZ types the nodes belong to, followed down a path from    *)
(* the root.  The dimensions are constants; the code's are 24, 10, 16, 16. *)
(***************************************************************************)
EXTENDS GeneralizedIndex, Sequences

CONSTANTS
  LOG2_EPOCH_HISTORY, LOG2_MAPS_PER_EPOCH, LOG2_VALUES_PER_MAP, LOG2_MAP_HEIGHT,
  LOG2_MAP_WIDTH,
  PROG_LIST_HEIGHT_STEP,
  HashBits,    \* bits of the folded column hash; 32 in the code
  MaxHeight,   \* paths are followed this far
  Opaque       \* types whose inside is not visited

VARIABLES index, type, level
vars == <<index, type, level>>

PROG_LIST_HEIGHT_FIRST == 0
MAPS_PER_EPOCH == 2 ^ LOG2_MAPS_PER_EPOCH
VALUES_PER_MAP == 2 ^ LOG2_VALUES_PER_MAP
ROWS == LOG2_MAP_HEIGHT + LOG2_MAPS_PER_EPOCH
ENTRIES == LOG2_MAPS_PER_EPOCH + LOG2_VALUES_PER_MAP

\* absolute; relative to an epoch, a list, a list tree, an entry, a log entry
GTI_ROOT == 1
GTI_EPOCH_HISTORY == 2
GTI_NEXT_ENTRY == 3
GTI_FILTER_MAPS == 2
GTI_INDEX_ENTRIES == 3
GTI_LIST_TREE == 2
GTI_LIST_COUNT == 3
GTI_PROG_LIST_SUBTREE == 2
GTI_PROG_LIST_NEXT_TREE == 3
GTI_LOG_ENTRY == 2
GTI_ENTRY_META == 3
GTI_LOG_ADDRESS == 4
GTI_LOG_TOPICS == 5
GTI_LOG_DATA == 6

\* Node values: hashes are pairs, the zero node is <<>>; asking for a node
\* that is not in the tree raises an AssertionError.
ZeroNode == <<>>
Invalid == <<"AssertionError">>
BinaryHash(left, right) == <<left, right>>

\* The root of an empty vector of 2^h leaves.
empty_vector_nodes[h \in 0 .. 255] ==
  IF h = 0 THEN ZeroNode ELSE BinaryHash(empty_vector_nodes[h - 1], empty_vector_nodes[h - 1])

\* Mutant of VectorNode: the empty roots are counted from the top.
VectorNodeFromTop(tall, height) == IF height <= tall THEN empty_vector_nodes[height] ELSE Invalid

\* The node at a height of a vector that is height tall, if it is in it.
VectorNode(tall, height) == IF height <= tall THEN empty_vector_nodes[tall - height] ELSE Invalid

-----------------------------------------------------------------------------
\* One operator per function of the code, each relative to the container it is
\* named for.
Side(i) == gti_split_below(i, 1)
Inside(i) == gti_split_above(i, 1)
IsLeaf(i) == gti_height(i) = 0

prog_list_tree_empty_node[l \in Nat, i \in Nat] ==
  LET max_height == PROG_LIST_HEIGHT_FIRST + PROG_LIST_HEIGHT_STEP * l
  IN CASE Side(i) = GTI_PROG_LIST_SUBTREE -> VectorNode(max_height, gti_height(Inside(i)))
       [] Side(i) = GTI_PROG_LIST_NEXT_TREE ->
            IF IsLeaf(Inside(i)) THEN ZeroNode ELSE prog_list_tree_empty_node[l + 1, Inside(i)]
       [] OTHER -> Invalid

prog_list_empty_node(i) ==
  CASE Side(i) = GTI_LIST_TREE ->
         IF IsLeaf(Inside(i)) THEN ZeroNode ELSE prog_list_tree_empty_node[0, Inside(i)]
    [] Side(i) = GTI_LIST_COUNT -> IF IsLeaf(Inside(i)) THEN ZeroNode ELSE Invalid
    [] OTHER -> Invalid

log_topics_list_empty_node(i) ==
  CASE Side(i) = GTI_LIST_TREE -> VectorNode(2, gti_height(Inside(i)))
    [] Side(i) = GTI_LIST_COUNT -> IF IsLeaf(Inside(i)) THEN ZeroNode ELSE Invalid
    [] OTHER -> Invalid

\* The topics are given the index of the log entry, the data its own.
log_entry_empty_node(i) ==
  LET field == gti_split_below(i, 2) sub_index == gti_split_above(i, 2)
  IN IF gti_height(i) <= 2 THEN VectorNode(2, gti_height(i))
     ELSE CASE field = GTI_LOG_TOPICS -> log_topics_list_empty_node(i)
            [] field = GTI_LOG_DATA -> prog_list_empty_node(sub_index)
            [] OTHER -> Invalid

\* Mutant of index_entry_empty_node: the meta fields are one level too low.
EntryWithEightFields(i) ==
  CASE Side(i) = GTI_LOG_ENTRY ->
         IF IsLeaf(Inside(i)) THEN ZeroNode ELSE log_entry_empty_node(Inside(i))
    [] Side(i) = GTI_ENTRY_META -> VectorNode(3, gti_height(Inside(i)))
    [] OTHER -> Invalid

index_entry_empty_node(i) ==
  CASE Side(i) = GTI_LOG_ENTRY ->
         IF IsLeaf(Inside(i)) THEN ZeroNode ELSE log_entry_empty_node(Inside(i))
    [] Side(i) = GTI_ENTRY_META -> VectorNode(2, gti_height(Inside(i)))
    [] OTHER -> Invalid

epoch_tree_empty_node(i) ==
  LET sub == Inside(i)
  IN CASE Side(i) = GTI_FILTER_MAPS ->
            IF gti_height(sub) <= ROWS THEN VectorNode(ROWS, gti_height(sub))
            ELSE prog_list_empty_node(gti_split_above(sub, ROWS))
       [] Side(i) = GTI_INDEX_ENTRIES ->
            IF gti_height(sub) <= ENTRIES THEN VectorNode(ENTRIES, gti_height(sub))
            ELSE index_entry_empty_node(gti_split_above(sub, ENTRIES))
       [] OTHER -> Invalid

log_index_empty_node(i) ==
  LET sub == Inside(i)
  IN CASE i = GTI_ROOT -> BinaryHash(empty_vector_nodes[LOG2_EPOCH_HISTORY], ZeroNode)
       [] i # GTI_ROOT /\ Side(i) = GTI_EPOCH_HISTORY ->
            IF gti_height(sub) <= LOG2_EPOCH_HISTORY
            THEN VectorNode(LOG2_EPOCH_HISTORY, gti_height(sub))
            ELSE epoch_tree_empty_node(gti_split_above(sub, LOG2_EPOCH_HISTORY))
       [] i # GTI_ROOT /\ Side(i) = GTI_NEXT_ENTRY -> IF IsLeaf(sub) THEN ZeroNode ELSE Invalid
       [] OTHER -> Invalid

-----------------------------------------------------------------------------
\* Where the entries, the rows and their chunks are looked for.
index_entry_gti(entry) ==
  LET per_epoch == MAPS_PER_EPOCH * VALUES_PER_MAP
      epoch_root == gti_vector(GTI_EPOCH_HISTORY, entry \div per_epoch, LOG2_EPOCH_HISTORY)
  IN gti_vector(gti_merge(epoch_root, GTI_INDEX_ENTRIES), entry % per_epoch, ENTRIES)

map_row_gti(map_index, row_index) ==
  LET epoch_root == gti_vector(GTI_EPOCH_HISTORY, map_index \div MAPS_PER_EPOCH, LOG2_EPOCH_HISTORY)
  IN gti_vector(gti_merge(epoch_root, GTI_FILTER_MAPS),
                row_index * MAPS_PER_EPOCH + (map_index % MAPS_PER_EPOCH), ROWS)

\* The subtree a chunk of a progressive list is in, and its place in it.
RECURSIVE ChunkSubtree(_, _, _)
ChunkSubtree(gti, chunk_index, height) ==
  IF chunk_index < 2 ^ height
  THEN gti_vector(gti_merge(gti, GTI_PROG_LIST_SUBTREE), chunk_index, height)
  ELSE ChunkSubtree(gti_merge(gti, GTI_PROG_LIST_NEXT_TREE), chunk_index - 2 ^ height,
                    height + PROG_LIST_HEIGHT_STEP)

prog_list_chunk_gti(list_root, chunk_index) ==
  ChunkSubtree(gti_merge(list_root, GTI_LIST_TREE), chunk_index, PROG_LIST_HEIGHT_FIRST)

\* (value % V) << bits + folded >> HashBits - bits, shifts from left to right.
get_column_index(map_value_index, folded_hash) ==
  LET hash_bits == LOG2_MAP_WIDTH - LOG2_VALUES_PER_MAP
  IN Shr(Shl(map_value_index % VALUES_PER_MAP, hash_bits + folded_hash), HashBits - hash_bits)

-----------------------------------------------------------------------------
\* The SSZ types: what is left and right of a node of each type.  level counts
\* how far a vector is still split, and how deep a progressive list has grown.
Step(t, l) ==
  CASE t = "LogIndex" -> <<<<"Epochs", LOG2_EPOCH_HISTORY>>, <<"Leaves", 0>>>>
    [] t = "IndexEpoch" -> <<<<"Rows", ROWS>>, <<"Entries", ENTRIES>>>>
    [] t = "ProgressiveList" -> <<<<"ListTree", 0>>, <<"Leaves", 0>>>>
    [] t = "ListTree" -> <<<<"Leaves", PROG_LIST_HEIGHT_STEP * l>>, <<"ListTree", l + 1>>>>
    [] t = "IndexEntry" -> <<<<"Log", 0>>, <<"Leaves", 2>>>>
    [] t = "Log" -> <<<<"LogHead", 0>>, <<"LogTail", 0>>>>
    [] t = "LogHead" -> <<<<"Leaves", 0>>, <<"Topics", 0>>>>
    [] t = "LogTail" -> <<<<"ProgressiveList", 0>>, <<"Leaves", 0>>>>
    [] t = "Topics" -> <<<<"Leaves", 2>>, <<"Leaves", 0>>>>
    [] t \in {"Epochs", "Rows", "Entries", "Leaves"} /\ l > 0 -> <<<<t, l - 1>>, <<t, l - 1>>>>
    [] OTHER -> <<>>

\* A vector of containers ends in the containers themselves.
Item(t, l) ==
  CASE t = "Epochs" /\ l = 0 -> <<"IndexEpoch", 0>>
    [] t = "Rows" /\ l = 0 -> <<"ProgressiveList", 0>>
    [] t = "Entries" /\ l = 0 -> <<"IndexEntry", 0>>
    [] OTHER -> <<t, l>>

Children(t, l) == LET s == Step(t, l)
                  IN IF s = <<>> THEN <<>> ELSE <<Item(s[1][1], s[1][2]), Item(s[2][1], s[2][2])>>

\* What stands at a node of a type before anything was written: containers of
\* a variable number are zero until they are initialised.
EmptyOf(t, l) ==
  CASE t = "LogIndex" -> BinaryHash(empty_vector_nodes[LOG2_EPOCH_HISTORY], ZeroNode)
    [] t \in {"LogHead", "LogTail"} -> empty_vector_nodes[1]
    [] t \in {"Epochs", "Rows", "Entries", "Leaves"} -> empty_vector_nodes[l]
    [] OTHER -> ZeroNode

Init == index = GTI_ROOT /\ type = "LogIndex" /\ level = 0

\* One step down the tree, to a child that exists.
Down(side) ==
  /\ gti_height(index) < MaxHeight
  /\ Children(type, level) # <<>> /\ type \notin Opaque
  /\ index' = 2 * index + side
  /\ type' = Children(type, level)[1 + side][1]
  /\ level' = Children(type, level)[1 + side][2]

Next == \E side \in {0, 1} : Down(side)

Spec == Init /\ [][Next]_vars

-----------------------------------------------------------------------------
\* log_index_empty_node knows, from the index alone, the type of every node and
\* its value, and raises below every leaf.
LayoutAgrees ==
  /\ log_index_empty_node(index) = EmptyOf(type, level)
  /\ type = "Leaves" /\ level = 0 =>
       \A side \in {0, 1} : log_index_empty_node(2 * index + side) = Invalid

\* Expanding a node into its empty children does not change its hash, unless it
\* is a container that was zero: btree_expand puts these values side by side.
ExpansionKeepsHash ==
  LET left == log_index_empty_node(2 * index) right == log_index_empty_node(2 * index + 1)
  IN Invalid \notin {left, right} =>
       log_index_empty_node(index) \in {ZeroNode, BinaryHash(left, right)}

-----------------------------------------------------------------------------
(* What the functions are for and the code does otherwise. *)

\* gti_vector gives the node of a vector item.
VectorItemsFound ==
  \A h \in 0 .. 2 : \A i \in 0 .. 2 ^ h - 1 : gti_vector(index, i, h) = VectorItem(index, i, h)

\* index_entry_gti, map_row_gti and prog_list_chunk_gti give nodes of the tree.
AddressesExist ==
  /\ \A e \in 0 .. 3 : log_index_empty_node(index_entry_gti(e)) # Invalid
  /\ \A mp \in 0 .. 1, r \in 0 .. 1 : log_index_empty_node(map_row_gti(mp, r)) # Invalid
  /\ \A c \in 0 .. 1 : log_index_empty_node(prog_list_chunk_gti(map_row_gti(0, 0), c)) # Invalid

\* The column of a value, taken as index, tells which value of its map it is.
ColumnTellsValue ==
  \A folded \in 0 .. 2 ^ HashBits - 1 :
    Shr(get_column_index(index, folded), LOG2_MAP_WIDTH - LOG2_VALUES_PER_MAP)
      = index % VALUES_PER_MAP
=============================================================================
