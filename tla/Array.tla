------------------------------- MODULE Array -------------------------------
(***************************************************************************)
(* What a Tensor promises: it is an n-dimensional array as NumPy has it.   *)
(* array gives each coordinate the memory cell <<storage, position>> of    *)
(* its element.  Strides, offsets and the contiguous fast paths of the     *)
(* code do not exist here.                                                 *)
(***************************************************************************)
EXTENDS Coordinates, Functions

CONSTANT Slices     \* the <<start, end, step>> that are tried

VARIABLES
    dims,       \* the shape
    array,      \* coordinates -> cell
    memory      \* all storages: sequences of values

avars == <<dims, array, memory>>

Value(mem, cell) == mem[cell[1]][cell[2]]

\* The same elements in the same order under other coordinates.
SameOrder(shape, old, new) ==
    \A c \in Coords(dims), d \in Coords(shape) :
        Rank(c, dims) = Rank(d, shape) => old[c] = new[d]

View(shape, f(_)) ==
    /\ dims' = shape
    /\ array' = [c \in Coords(shape) |-> array[f(c)]]
    /\ UNCHANGED memory

AReshape ==
    /\ Cardinality(Coords(dims')) = Cardinality(Coords(dims))
    /\ SameOrder(dims', array, array')
    /\ UNCHANGED memory

\* New memory with the same values, which nothing else refers to.
ACopy ==
    /\ Cardinality(Coords(dims')) = Cardinality(Coords(dims))
    /\ Len(memory') = Len(memory) + 1
    /\ SubSeq(memory', 1, Len(memory)) = memory
    /\ IsInjective(array')
    /\ \A c \in DOMAIN array' : array'[c][1] = Len(memory')
    /\ SameOrder(dims', [c \in DOMAIN array |-> Value(memory, array[c])],
                        [c \in DOMAIN array' |-> Value(memory', array'[c])])

\* Axis i of the result is axis perm[i] of the operand.
ATranspose(perm) ==
    View([i \in DOMAIN dims |-> dims[perm[i]]],
         LAMBDA c : [i \in DOMAIN dims |-> c[CHOOSE j \in DOMAIN perm : perm[j] = i]])

\* a[start:end:step]
ASlice(axis, start, end, step) ==
    LET chosen == Selected(start, end, step, dims[axis])
        nth(k) == CHOOSE x \in chosen : Cardinality({y \in chosen : y < x}) = k
    IN  View([dims EXCEPT ![axis] = Cardinality(chosen)],
             LAMBDA c : [c EXCEPT ![axis] = nth(@)])

\* Writes its elements and nothing else.
AFill ==
    /\ UNCHANGED <<dims, array>>
    /\ memory' = [s \in DOMAIN memory |->
                    [p \in DOMAIN memory[s] |->
                       IF <<s, p>> \in Range(array) THEN 0 ELSE memory[s][p]]]

AInit ==
    /\ Len(memory) = 1
    /\ IsInjective(array)
    /\ DOMAIN array = Coords(dims)

ANext ==
    \/ AReshape
    \/ ACopy
    \/ \E perm \in {p \in [DOMAIN dims -> DOMAIN dims] : IsInjective(p)} :
          ATranspose(perm)
    \/ \E axis \in DOMAIN dims, s \in Slices : ASlice(axis, s[1], s[2], s[3])
    \/ AFill

ASpec == AInit /\ [][ANext]_avars
=============================================================================
