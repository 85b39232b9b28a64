---------------------------- MODULE OptionalView ----------------------------
(***************************************************************************)
(* The SSZ type Optional[T] of EIP-6475 (assets/optional.py) over a view   *)
(* library: a view keeps a backing tree of the contents and the length.    *)
(* T is a basic value of one byte, a list of up to two such, or Optional   *)
(* again: a type is how many times Optional is applied to which base.      *)
(* None is the empty sequence, Some(x) is <<x>>.  What raises leaves the   *)
(* view as it is.                                                          *)
(***************************************************************************)
EXTENDS Integers, Sequences, SequencesExt

CONSTANTS Bytes, MaxLength    \* bounds: bytes, and how many of them, on the wire

VARIABLES view_type, backing, refused
vars == <<view_type, backing, refused>>

Types == [n : 1 .. 3, base : {"uint8", "list"}]
element(T) == [T EXCEPT !.n = @ - 1]

None == <<>>
Some(x) == <<x>>
Uint8s == Bytes
Lists == BoundedSeq(Bytes, 2)

BaseValues(T) == IF T.base = "uint8" THEN Uint8s ELSE Lists
Optionals(S) == {None} \cup {Some(x) : x \in S}

RECURSIVE ValuesOf(_)
ValuesOf(T) == IF T.n = 0 THEN BaseValues(T) ELSE Optionals(ValuesOf(element(T)))

\* Trees: a leaf is a chunk, here of two bytes.  Hashes are injective, so that
\* a tree stands for its root.
Chunk(bytes) == [leaf |-> bytes \o [i \in 1 .. 2 - Len(bytes) |-> 0]]
Length(n) == Chunk(<<n>>)
Pair(l, r) == [left |-> l, right |-> r]
length(node) == node.right.leaf[1]
zero_node == Chunk(<<>>)
default_node == Pair(zero_node, Length(0))

BaseNode(T, x) == IF T.base = "uint8" THEN Chunk(<<x>>) ELSE Pair(Chunk(x), Length(Len(x)))
BaseValue(T, node) ==
  IF T.base = "uint8" THEN node.leaf[1] ELSE SubSeq(node.left.leaf, 1, length(node))

\* Mutant of Backing: None of a nested optional is taken for no value.
RECURSIVE BackingFlat(_, _)
BackingFlat(T, x) ==
  IF T.n = 0 THEN BaseNode(T, x)
  ELSE IF x = None \/ (T.n > 1 /\ x = Some(None)) THEN default_node
  ELSE Pair(BackingFlat(element(T), x[1]), Length(1))

RECURSIVE Backing(_, _)
Backing(T, x) ==
  IF T.n = 0 THEN BaseNode(T, x)
  ELSE IF x = None THEN default_node
  ELSE Pair(Backing(element(T), x[1]), Length(1))

\* get, and that of the element it returns
RECURSIVE Value(_, _)
Value(T, node) ==
  IF T.n = 0 THEN BaseValue(T, node)
  ELSE IF length(node) = 0 THEN None
  ELSE Some(Value(element(T), node.left))

BaseBytes(T, x) == IF T.base = "uint8" THEN <<x>> ELSE x

RECURSIVE serialize(_, _)
serialize(T, node) ==
  IF T.n = 0 THEN BaseBytes(T, BaseValue(T, node))
  ELSE IF length(node) = 0 THEN <<>>
  ELSE <<1>> \o serialize(element(T), node.left)

BaseReadable(T, bytes) == IF T.base = "uint8" THEN Len(bytes) = 1 ELSE Len(bytes) <= 2

\* Mutant of Readable: any first byte is taken for is_some.
RECURSIVE ReadableAny(_, _)
ReadableAny(T, bytes) ==
  IF T.n = 0 THEN BaseReadable(T, bytes)
  ELSE bytes = <<>> \/ ReadableAny(element(T), Tail(bytes))

\* deserialize does not raise.
RECURSIVE Readable(_, _)
Readable(T, bytes) ==
  IF T.n = 0 THEN BaseReadable(T, bytes)
  ELSE bytes = <<>> \/ (bytes[1] = 1 /\ Readable(element(T), Tail(bytes)))

RECURSIVE deserialize(_, _)
deserialize(T, bytes) ==
  IF T.n = 0 THEN BaseNode(T, IF T.base = "uint8" THEN bytes[1] ELSE bytes)
  ELSE IF bytes = <<>> THEN default_node
  ELSE Pair(deserialize(element(T), Tail(bytes)), Length(1))

\* The length of a variable-size element is asked of a name that does not exist.
LengthRaises(T, node) == length(node) = 1 /\ ~(T.n = 1 /\ T.base = "uint8")
value_byte_length(node) == length(node)

-----------------------------------------------------------------------------
Init == view_type \in Types /\ backing = default_node /\ refused = FALSE

New(x) ==
  /\ backing' = Backing(view_type, x)
  /\ refused' = FALSE
  /\ UNCHANGED view_type

Decode(bytes) ==
  /\ refused' = ~Readable(view_type, bytes)
  /\ backing' = IF refused' THEN backing ELSE deserialize(view_type, bytes)
  /\ UNCHANGED view_type

\* From None to a value, and back, set calls a function that is not imported.
Set(x) ==
  /\ refused' = (length(backing) # Len(x))
  /\ backing' = IF refused' \/ x = None THEN backing
                ELSE Pair(Backing(element(view_type), x[1]), backing.right)
  /\ UNCHANGED view_type

Next ==
  \/ \E x \in ValuesOf(view_type) : New(x) \/ Set(x)
  \/ \E bytes \in BoundedSeq(Bytes, MaxLength) : Decode(bytes)

Spec == Init /\ [][Next]_vars

-----------------------------------------------------------------------------
\* Distinct values have distinct roots, None inside Some from None.
RootsTellValues ==
  \A x \in ValuesOf(view_type) : Backing(view_type, x) = backing => x = Value(view_type, backing)

\* A view is read back from its own bytes, and no other bytes are read as it.
OneEncoding ==
  \A bytes \in BoundedSeq(Bytes, MaxLength) :
    Readable(view_type, bytes) /\ deserialize(view_type, bytes) = backing
      <=> bytes = serialize(view_type, backing)

-----------------------------------------------------------------------------
(* What the functions are for and the code does otherwise. *)

\* The length a view gives is that of its encoding.
ByteLengthAgrees ==
  /\ ~LengthRaises(view_type, backing)
  /\ value_byte_length(backing) = Len(serialize(view_type, backing))

\* A view can be set to any value of its type.
SetTakesEffect == [][\A x \in ValuesOf(view_type) : Set(x) => Value(view_type, backing') = x]_vars
=============================================================================
