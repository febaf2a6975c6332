---------------------------- MODULE TensorViews ----------------------------
(***************************************************************************)
(* Tensor of src/src/tensor.cpp: shape, strides and offset over a storage  *)
(* that views share, with the operations that make views, copy and write.  *)
(* The state is one handle, on which the operations are called in turn;    *)
(* the storages of earlier handles stay in memory.  Elements are of one    *)
(* dtype, so that positions count elements and not bytes.                  *)
(***************************************************************************)
EXTENDS Integers, FiniteSets, SequencesExt

CONSTANTS
    Shapes,     \* of the first tensor
    Targets,    \* shapes for reshape
    Slices,     \* <<start, end, step>> for slice
    MaxOps      \* bound on the operations called, for each rank of the view

\* Shapes have passed checked_numel, and slice refuses other steps.
ASSUME ViewsAssumption ==
    /\ Shapes \subseteq Seq(Nat)
    /\ Targets \subseteq Seq(Nat)
    /\ \A s \in Slices : s[1] \in Int /\ s[2] \in Int /\ s[3] \in Nat \ {0}

VARIABLES
    shape_, strides_, byte_offset_,
    storage_,   \* which storage, an index into memory
    memory,     \* the storages, sequences of values
    ops

vars == <<shape_, strides_, byte_offset_, storage_, memory, ops>>

\* checked_numel
Numel(shape) == FoldFunction(LAMBDA d, acc : d * acc, 1, shape)

ContiguousStrides(shape) ==
    [i \in DOMAIN shape |-> Numel(SubSeq(shape, i + 1, Len(shape)))]

\* Fault: only the last stride is looked at.
LastAxisContiguous ==
    shape_ = <<>> \/ shape_[Len(shape_)] <= 1 \/ strides_[Len(shape_)] = 1

\* Axes of length 0 or 1 may have any stride.
IsContiguous ==
    \A i \in DOMAIN shape_ :
        shape_[i] > 1 => strides_[i] = ContiguousStrides(shape_)[i]

Offset(index) ==
    FoldFunction(+, byte_offset_, [i \in DOMAIN index |-> index[i] * strides_[i]])

\* Fault: the axes behind it go on from where they are.
IncrementKeeping(index) ==
    LET free == {i \in DOMAIN index : index[i] + 1 < shape_[i]}
        axis == IF free = {} THEN 0 ELSE Max(free)
    IN  [i \in DOMAIN index |-> IF i = axis THEN index[i] + 1 ELSE index[i]]

\* The odometer of copy_to_bytes, reshape and fill_zeros: the last axis that
\* does not reach its end is advanced, those behind it restart.
Increment(index) ==
    LET free == {i \in DOMAIN index : index[i] + 1 < shape_[i]}
        axis == IF free = {} THEN 0 ELSE Max(free)
    IN  [i \in DOMAIN index |-> IF i < axis THEN index[i]
                                ELSE IF i = axis THEN index[i] + 1 ELSE 0]

\* Positions in the order of the odometer.
Positions ==
    LET index[k \in 1..Numel(shape_)] ==
          IF k = 1 THEN [i \in DOMAIN shape_ |-> 0] ELSE Increment(index[k-1])
    IN  [k \in 1..Numel(shape_) |-> Offset(index[k])]

\* logical_offset of the kernels, which count linear from 0.
LogicalOffset(linear) ==
    LET rest[i \in 1..Len(shape_)] ==     \* linear when axis i is reached
          IF i = Len(shape_) THEN linear ELSE rest[i+1] \div shape_[i+1]
    IN  Offset([i \in DOMAIN shape_ |-> rest[i] % shape_[i]])

\* copy_to_bytes, with its memcpy for contiguous tensors.
CopyOut ==
    [k \in 1..Numel(shape_) |->
        memory[storage_][1 + IF IsContiguous THEN byte_offset_ + k - 1
                                             ELSE Positions[k]]]

-----------------------------------------------------------------------------

Init ==
    /\ shape_ \in Shapes
    /\ strides_ = ContiguousStrides(shape_)
    /\ byte_offset_ = 0
    /\ storage_ = 1
    /\ memory = <<[p \in 1..Numel(shape_) |-> p]>>
    /\ ops = 0

Called == ops < MaxOps[Len(shape_)] /\ ops' = ops + 1

\* A tensor of its own with these elements.
NewTensor(shape, values) ==
    /\ shape_' = shape
    /\ strides_' = ContiguousStrides(shape)
    /\ byte_offset_' = 0
    /\ memory' = Append(memory, values)
    /\ storage_' = Len(memory')

Reshape(target) ==
    /\ Called
    /\ Numel(target) = Numel(shape_)
    /\ IF IsContiguous
       THEN /\ shape_' = target
            /\ strides_' = ContiguousStrides(target)
            /\ UNCHANGED <<byte_offset_, storage_, memory>>
       ELSE NewTensor(target, [k \in 1..Numel(shape_) |->
                                 memory[storage_][1 + Positions[k]]])

Transpose(perm) ==
    /\ Called
    /\ IsInjective(perm)
    /\ shape_' = [i \in DOMAIN perm |-> shape_[perm[i]]]
    /\ strides_' = [i \in DOMAIN perm |-> strides_[perm[i]]]
    /\ UNCHANGED <<byte_offset_, storage_, memory>>

Clamp(x, low, high) == IF x < low THEN low ELSE IF x > high THEN high ELSE x

\* Fault: without the clamp.
BoundFree(x, dim) == IF x < 0 THEN x + dim ELSE x

Bound(x, dim) == Clamp(IF x < 0 THEN x + dim ELSE x, 0, dim)

Length(start, end, step) ==
    IF end > start THEN (end - start + step - 1) \div step ELSE 0

Slice(axis, start, end, step) ==
    LET first == Bound(start, shape_[axis])
        last == Bound(end, shape_[axis])
    IN  /\ Called
        /\ shape_' = [shape_ EXCEPT ![axis] = Length(first, last, step)]
        /\ strides_' = [strides_ EXCEPT ![axis] = @ * step]
        /\ byte_offset_' = byte_offset_ + first * strides_[axis]
        /\ UNCHANGED <<storage_, memory>>

FillZeros ==
    /\ Called
    /\ LET zeroed == IF IsContiguous
                     THEN byte_offset_ .. byte_offset_ + Numel(shape_) - 1
                     ELSE Range(Positions)
       IN  memory' = [memory EXCEPT ![storage_] =
                        [p \in DOMAIN @ |-> IF p - 1 \in zeroed THEN 0 ELSE @[p]]]
    /\ UNCHANGED <<shape_, strides_, byte_offset_, storage_>>

CloneContiguous ==
    /\ Called
    /\ NewTensor(shape_, CopyOut)

Next ==
    \/ \E target \in Targets : Reshape(target)
    \/ \E perm \in [DOMAIN shape_ -> DOMAIN shape_] : Transpose(perm)
    \/ \E axis \in DOMAIN shape_, s \in Slices : Slice(axis, s[1], s[2], s[3])
    \/ FillZeros
    \/ CloneContiguous

Spec == Init /\ [][Next]_vars

-----------------------------------------------------------------------------
(* Properties *)

\* Shape, strides and offset never reach outside the storage, whatever views
\* are made of views.
ViewInStorage ==
    \A k \in DOMAIN Positions : Positions[k] + 1 \in DOMAIN memory[storage_]

\* The two ways the code enumerates the elements of a view visit the same
\* positions in the same order.
EnumerationsAgree ==
    \A k \in DOMAIN Positions : Positions[k] = LogicalOffset(k - 1)

Cells == INSTANCE Array WITH dims <- shape_, array <- <<>>

AsArray == INSTANCE Array
             WITH dims <- shape_,
                  array <- [c \in Cells!Coords(shape_) |-> <<storage_, 1 + Offset(c)>>]

\* Shape, strides and offset with the fast paths for contiguous tensors behave
\* as an array: a view shows the elements of its operand, a copy has their
\* values, and a write changes what the view shows and nothing else.
ImplementsArray == AsArray!ASpec
=============================================================================
