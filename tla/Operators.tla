----------------------------- MODULE Operators -----------------------------
(***************************************************************************)
(* The kernels of src/src/ops, called on the views of TensorViews.  One    *)
(* operand of a call is the current view, at whatever strides and offset   *)
(* the operations before have left it; the others are contiguous tensors.  *)
(*                                                                         *)
(* A kernel is modelled by when it throws, by the shape of its result and  *)
(* by the positions in storage from which each element of the result is    *)
(* computed: a set of terms, sequences of <<operand, position>>, with the  *)
(* convention of Onnx.  Arithmetic on the elements is left out.            *)
(***************************************************************************)
EXTENDS TensorViews

CONSTANTS
    Calls,      \* [op, attrs, dtype and view of the current view, rest,
                \*  indices: whether a second output is named]
    MaxBefore,  \* bound on the operations on views before a call
    IntMax      \* numeric_limits<int>::max()

ASSUME IntMaxAssumption == IntMax \in Nat

Tensors ==
    [dtype : STRING, shape : Seq(Nat), strides : Seq(Nat), offset : Nat, data : Seq(Int)]

\* The other operands are contiguous, or omitted; attributes have the type that
\* get_int and get_ints ask for.
ASSUME CallsAssumption ==
    \A c \in Calls :
        /\ c.indices \in BOOLEAN
        /\ c.rest \in Seq(Tensors \cup {<<>>}) /\ c.view \in 1..Len(c.rest) + 1
        /\ \A i \in DOMAIN c.rest : c.rest[i] # <<>> =>
              /\ c.rest[i].strides = ContiguousStrides(c.rest[i].shape)
              /\ c.rest[i].offset = 0 /\ Len(c.rest[i].data) = Numel(c.rest[i].shape)
        /\ \A name \in DOMAIN c.attrs \cap {"axes", "kernel_shape", "strides", "pads", "dilations"} :
              c.attrs[name] \in Seq(Int)
        /\ "group" \in DOMAIN c.attrs => c.attrs["group"] \in Int

VARIABLES
    call,       \* the call made, or <<>>
    result

call_vars == <<vars, call, result>>

Dense(dtype, shape, data) ==
    [dtype |-> dtype, shape |-> shape, strides |-> ContiguousStrides(shape),
     offset |-> 0, data |-> data]

View(dtype) ==
    [dtype |-> dtype, shape |-> shape_, strides |-> strides_,
     offset |-> byte_offset_, data |-> memory[storage_]]

\* The current view is the operand number c.view.
Operands(c) == InsertAt(c.rest, c.view, View(c.dtype))

GetAttr(c, name, default) ==
    IF name \in DOMAIN c.attrs THEN c.attrs[name] ELSE default

\* An omitted operand is <<>>, or behind the last one.
Has(x, i) == i <= Len(x) /\ x[i] # <<>>

-----------------------------------------------------------------------------
(* Helpers of the kernels *)

\* coordinates
Coordinates(linear, shape) ==
    LET rest[i \in 1..Len(shape)] ==
          IF i = Len(shape) THEN linear
          ELSE IF shape[i+1] = 0 THEN rest[i+1] ELSE rest[i+1] \div shape[i+1]
    IN  [i \in DOMAIN shape |-> IF shape[i] = 0 THEN 0 ELSE rest[i] % shape[i]]

\* output_linear of reduce_mean, the inverse.
Linear(coords, shape) ==
    FoldLeft(LAMBDA acc, i : acc * shape[i] + coords[i], 0, [i \in DOMAIN coords |-> i])

\* tensor_offset
TensorOffset(t, coords) ==
    FoldFunction(+, t.offset, [i \in DOMAIN coords |-> coords[i] * t.strides[i]])

At(x, i, coords) == <<i, TensorOffset(x[i], coords)>>

AtLinear(x, i, linear) == At(x, i, Coordinates(linear, x[i].shape))

\* broadcast_offset, and the batch offsets of matmul: the axes of t are the
\* last of coords, or the first of its batch.
BroadcastOffset(t, coords) ==
    LET shift == Len(coords) - Len(t.shape)
    IN  TensorOffset(t, [i \in DOMAIN t.shape |->
                            IF t.shape[i] = 1 THEN 0 ELSE coords[shift + i]])

AtBroadcast(x, i, coords) == <<i, BroadcastOffset(x[i], coords)>>

\* Fault: axis -rank is refused.
NormalizeAxisStrict(axis, rank) ==
    IF axis < 0 /\ axis + rank > 0 THEN axis + rank + 1
    ELSE IF axis < 0 THEN 0 ELSE axis + 1

\* The axis counted from 1; outside 1..rank normalize_axis throws.
NormalizeAxis(axis, rank) == 1 + IF axis < 0 THEN axis + rank ELSE axis

IsInt64Vector(t) == t.dtype = "INT64" /\ Len(t.shape) = 1

\* int64_values
Int64Values(t) ==
    [k \in 1..Numel(t.shape) |-> t.data[1 + TensorOffset(t, <<k - 1>>)]]

\* The entries whose index is not in the set, pushed back in order.
Dropped(shape, axes) ==
    FoldLeft(LAMBDA kept, i : IF i \in axes THEN kept ELSE Append(kept, shape[i]),
             <<>>, [i \in DOMAIN shape |-> i])

\* One axis of broadcast_shape: ones give way to the first other dimension.
BroadcastDim(dims) == FoldLeft(LAMBDA out, d : IF out = 1 THEN d ELSE out, 1, dims)

LongestShape(shapes) == Max({Len(shapes[j]) : j \in DOMAIN shapes})

\* The dimensions of the shapes at an axis of the result, aligned at the end.
DimsAt(shapes, axis) ==
    LET at(j) == axis - LongestShape(shapes) + Len(shapes[j])
    IN  [j \in DOMAIN shapes |-> IF at(j) > 0 THEN shapes[j][at(j)] ELSE 1]

BroadcastShape(shapes) ==
    [axis \in 1..LongestShape(shapes) |-> BroadcastDim(DimsAt(shapes, axis))]

BroadcastThrows(shapes) ==
    \E axis \in 1..LongestShape(shapes), j \in DOMAIN shapes :
        DimsAt(shapes, axis)[j] \notin {1, BroadcastShape(shapes)[axis]}

Thrown == [status |-> "thrown"]

\* A new tensor, filled in the order of linear.  The constructor refuses
\* negative dimensions.
Result(dtype, shape, Terms(_)) ==
    IF \E i \in DOMAIN shape : shape[i] < 0 THEN Thrown
    ELSE [status |-> "ok", dtype |-> dtype, shape |-> shape,
          elements |-> [k \in 1..Numel(shape) |-> Terms(Coordinates(k - 1, shape))]]

\* Tensor::reshape, whose result shows the elements in the same order.
Reshaped(x, shape) ==
    IF Numel(shape) # Numel(x[1].shape) THEN Thrown
    ELSE Result(x[1].dtype, shape, LAMBDA o : {<<AtLinear(x, 1, Linear(o, shape))>>})

\* The kernels of gemm.hpp count in int.
FitInt(sizes) == \A s \in sizes : s <= IntMax

Float(x) == \A i \in DOMAIN x : Has(x, i) => x[i].dtype = "FLOAT32"

-----------------------------------------------------------------------------
(* elementwise.cpp *)

\* unary_node and relu
UnaryNode(x) ==
    IF ~Float(x) THEN Thrown
    ELSE Result("FLOAT32", x[1].shape, LAMBDA o : {<<At(x, 1, o)>>})

\* broadcast_binary_op
Binary(x) ==
    LET shapes == <<x[1].shape, x[2].shape>>
        dims == [axis \in 1..LongestShape(shapes) |-> DimsAt(shapes, axis)]
        shape == [axis \in DOMAIN dims |->
                    IF dims[axis][1] = 1 THEN dims[axis][2] ELSE dims[axis][1]]
    IN  IF ~Float(x) \/ \E axis \in DOMAIN dims :
                           dims[axis][1] # dims[axis][2] /\ 1 \notin Range(dims[axis])
        THEN Thrown
        ELSE Result("FLOAT32", shape,
                    LAMBDA o : {<<AtBroadcast(x, 1, o), AtBroadcast(x, 2, o)>>})

\* The dimension that -1 stands for, if there is one.
Inferred(known, numel) ==
    IF known = 0 \/ numel % known # 0 THEN {} ELSE {numel \div known}

ReshapeOp(x, c) ==
    LET dims == Int64Values(x[2])
        open == {i \in DOMAIN dims : dims[i] = -1}
        copied == {i \in DOMAIN dims : dims[i] = 0 /\ GetAttr(c, "allowzero", 0) = 0}
        known == [i \in DOMAIN dims |-> IF i \in open THEN 1
                                        ELSE IF i \in copied THEN x[1].shape[i] ELSE dims[i]]
        inferred == Inferred(Numel(known), Numel(x[1].shape))
    IN  IF \/ ~IsInt64Vector(x[2])
           \/ Cardinality(open) > 1
           \/ ~(copied \subseteq DOMAIN x[1].shape)
           \/ \E i \in DOMAIN dims : dims[i] < -1
           \/ open # {} /\ inferred = {}
        THEN Thrown
        ELSE Reshaped(x, [i \in DOMAIN dims |-> IF i \in open THEN CHOOSE d \in inferred : TRUE
                                                ELSE known[i]])

Flatten(x, c) ==
    LET rank == Len(x[1].shape)
        axis == NormalizeAxis(GetAttr(c, "axis", 1), rank) - 1
    IN  IF axis \notin 0..rank THEN Thrown
        ELSE Reshaped(x, <<Numel(SubSeq(x[1].shape, 1, axis)),
                           Numel(SubSeq(x[1].shape, axis + 1, rank))>>)

-----------------------------------------------------------------------------
(* bert.cpp *)

\* A clone of the tensor in the attribute.
ConstantOp(c) ==
    LET v == c.attrs["value"].tensor
    IN  IF "value" \notin DOMAIN c.attrs THEN Thrown
        ELSE IF c.attrs["value"].type # "TENSOR" THEN Thrown
        ELSE Result(v.dtype, v.shape, LAMBDA o : {<< <<0, v.data[1 + TensorOffset(v, o)]>> >>})

ShapeOp(x, c) ==
    LET rank == Len(x[1].shape)
        start == Bound(GetAttr(c, "start", 0), rank)
        end == Max({start, Bound(GetAttr(c, "end", rank), rank)})
    IN  Result("INT64", <<end - start>>,
               LAMBDA o : {<< <<0, x[1].shape[start + o[1] + 1]>> >>})

Gather(x, c) ==
    LET data == x[1].shape
        width == Len(x[2].shape)
        axis == NormalizeAxis(GetAttr(c, "axis", 0), Len(data))
        shape == SubSeq(data, 1, axis - 1) \o x[2].shape \o SubSeq(data, axis + 1, Len(data))
        index(o) == SubSeq(o, axis, axis + width - 1)
        read(o) == x[2].data[1 + TensorOffset(x[2], index(o))]
        selected(o) == IF read(o) < 0 THEN read(o) + data[axis] ELSE read(o)
        source(o) == SubSeq(o, 1, axis - 1) \o <<selected(o)>> \o SubSeq(o, axis + width, Len(o))
    IN  IF x[2].dtype # "INT64" \/ axis \notin DOMAIN data THEN Thrown
        ELSE IF \E k \in 0..Numel(shape) - 1 :
                   selected(Coordinates(k, shape)) \notin 0..data[axis] - 1 THEN Thrown
        ELSE Result(x[1].dtype, shape,
                    LAMBDA o : {<<At(x, 2, index(o)), At(x, 1, source(o))>>})

Concat(x, c) ==
    LET rank == Len(x[1].shape)
        axis == NormalizeAxis(GetAttr(c, "axis", 0), rank)
        fits(t) == /\ Len(t.shape) = rank
                   /\ t.dtype = x[1].dtype
                   /\ \A i \in 1..rank \ {axis} : t.shape[i] = x[1].shape[i]
        length == [j \in DOMAIN x |-> x[j].shape[axis]]
        first(j) == SumFunctionOnSet(length, 1..j-1)
        source(o) == Min({j \in DOMAIN x : o[axis] < first(j) + length[j]})
    IN  IF axis \notin 1..rank \/ \E j \in DOMAIN x : ~fits(x[j]) THEN Thrown
        ELSE Result(x[1].dtype, [x[1].shape EXCEPT ![axis] = SumFunction(length)],
               LAMBDA o :
                 {<<At(x, source(o), [o EXCEPT ![axis] = @ - first(source(o))])>>})

\* The axes operand or attribute of unsqueeze and squeeze.
AxesGiven(x, c) == IF Has(x, 2) THEN Int64Values(x[2]) ELSE GetAttr(c, "axes", <<>>)

AxesThrow(x) == Has(x, 2) /\ ~IsInt64Vector(x[2])

\* Each within 1..rank and no two the same.
AxesValid(axes, rank) ==
    LET normalized == [k \in DOMAIN axes |-> NormalizeAxis(axes[k], rank)]
    IN  Range(normalized) \subseteq 1..rank /\ IsInjective(normalized)

NormalizedAxes(axes, rank) == {NormalizeAxis(axes[k], rank) : k \in DOMAIN axes}

Unsqueeze(x, c) ==
    LET axes == AxesGiven(x, c)
        rank == Len(x[1].shape) + Len(axes)
        normalized == NormalizedAxes(axes, rank)
        input_axis(i) == i - Cardinality({j \in normalized : j < i})
    IN  IF AxesThrow(x) \/ ~AxesValid(axes, rank) THEN Thrown
        ELSE Reshaped(x, [i \in 1..rank |-> IF i \in normalized THEN 1
                                            ELSE x[1].shape[input_axis(i)]])

Squeeze(x, c) ==
    LET axes == AxesGiven(x, c)
        shape == x[1].shape
        ones == {i \in DOMAIN shape : shape[i] = 1}
        normalized == NormalizedAxes(axes, Len(shape))
    IN  IF AxesThrow(x) THEN Thrown
        ELSE IF axes = <<>> THEN Reshaped(x, Dropped(shape, ones))
        ELSE IF ~AxesValid(axes, Len(shape)) \/ ~(normalized \subseteq ones) THEN Thrown
        ELSE Reshaped(x, Dropped(shape, normalized))

OnnxDtypes == <<"FLOAT32", "UINT8", "", "", "", "INT32", "INT64", "", "BOOL">>

CastOp(x, c) ==
    LET to == GetAttr(c, "to", 0)
    IN  IF to \notin {1, 2, 6, 7, 9} THEN Thrown
        ELSE Result(OnnxDtypes[to], x[1].shape, LAMBDA o : {<<At(x, 1, o)>>})

\* Of two entries for one axis the later counts.
SliceOp(x, c) ==
    LET shape == x[1].shape
        starts == Int64Values(x[2])
        ends == Int64Values(x[3])
        axes == IF Has(x, 4) THEN Int64Values(x[4]) ELSE [k \in DOMAIN starts |-> k - 1]
        steps == IF Has(x, 5) THEN Int64Values(x[5]) ELSE [k \in DOMAIN starts |-> 1]
        entries(i) == {k \in DOMAIN starts : NormalizeAxis(axes[k], Len(shape)) = i}
        begin(i) == IF entries(i) = {} THEN 0 ELSE Bound(starts[Max(entries(i))], shape[i])
        end(i) == IF entries(i) = {} THEN shape[i] ELSE Bound(ends[Max(entries(i))], shape[i])
        step(i) == IF entries(i) = {} THEN 1 ELSE steps[Max(entries(i))]
    IN  IF \/ \E i \in 2..Len(x) : Has(x, i) /\ ~IsInt64Vector(x[i])
           \/ {Len(ends), Len(axes), Len(steps)} # {Len(starts)}
           \/ \E k \in DOMAIN starts :
                 NormalizeAxis(axes[k], Len(shape)) \notin DOMAIN shape \/ steps[k] <= 0
        THEN Thrown
        ELSE Result(x[1].dtype, [i \in DOMAIN shape |-> Length(begin(i), end(i), step(i))],
                    LAMBDA o : {<<At(x, 1, [i \in DOMAIN o |-> begin(i) + o[i] * step(i)])>>})

Expand(x) ==
    LET requested == Int64Values(x[2])
        shapes == <<x[1].shape, requested>>
    IN  IF ~IsInt64Vector(x[2]) THEN Thrown
        ELSE IF BroadcastThrows(shapes) \/ BroadcastShape(shapes) # requested THEN Thrown
        ELSE Result(x[1].dtype, requested, LAMBDA o : {<<AtBroadcast(x, 1, o)>>})

\* A sum per element of the result, to which each input element is added.
ReduceMean(x, c) ==
    LET shape == x[1].shape
        axes == GetAttr(c, "axes", <<>>)
        reduced == IF axes = <<>> THEN DOMAIN shape ELSE NormalizedAxes(axes, Len(shape))
        keepdims == GetAttr(c, "keepdims", 1) # 0
        output_shape == IF keepdims
                        THEN [i \in DOMAIN shape |-> IF i \in reduced THEN 1 ELSE shape[i]]
                        ELSE Dropped(shape, reduced)
        output_coords(d) == IF keepdims
                            THEN [i \in DOMAIN d |-> IF i \in reduced THEN 0 ELSE d[i]]
                            ELSE Dropped(d, reduced)
        target(k) == Linear(output_coords(Coordinates(k, shape)), output_shape)
    IN  IF ~Float(x) \/ ~(reduced \subseteq DOMAIN shape) THEN Thrown
        ELSE Result("FLOAT32", output_shape, LAMBDA o :
               {<<AtLinear(x, 1, k)>> :
                  k \in {j \in 0..Numel(shape) - 1 : target(j) = Linear(o, output_shape)}})

\* Fault: the lines along axis do not skip the axes behind it.
SoftmaxLineDense(linear, dimension, inner) ==
    LET first == (linear \div dimension) * dimension
    IN  first .. first + dimension - 1

\* The elements that are normalised together with the one at linear.
SoftmaxLine(linear, dimension, inner) ==
    LET outer_index == linear \div (dimension * inner)
        inner_index == linear % inner
    IN  {(outer_index * dimension + current) * inner + inner_index :
            current \in 0..dimension - 1}

Softmax(x, c) ==
    LET shape == x[1].shape
        axis == NormalizeAxis(GetAttr(c, "axis", -1), Len(shape))
        inner == Numel(SubSeq(shape, axis + 1, Len(shape)))
    IN  IF ~Float(x) \/ axis \notin DOMAIN shape THEN Thrown
        ELSE Result("FLOAT32", shape, LAMBDA o :
               {<<AtLinear(x, 1, Linear(o, shape)), AtLinear(x, 1, k)>> :
                  k \in SoftmaxLine(Linear(o, shape), shape[axis], inner)})

\* packed_a and packed_b for the batch and position of o, as gemm() uses them.
MatMul(x) ==
    LET rank(i) == Len(x[i].shape)
        dim(i, j) == x[i].shape[rank(i) - 2 + j]
        batch(i) == [shape |-> SubSeq(x[i].shape, 1, rank(i) - 2),
                     strides |-> x[i].strides, offset |-> x[i].offset]
        batches == <<batch(1).shape, batch(2).shape>>
        at(i, outer, row, column) ==
          <<i, BroadcastOffset(batch(i), outer) + row * x[i].strides[rank(i) - 1]
                                                + column * x[i].strides[rank(i)]>>
    IN  IF ~Float(x) \/ rank(1) < 2 \/ rank(2) < 2 THEN Thrown
        ELSE IF \/ dim(1, 2) # dim(2, 1)
                \/ ~FitInt({dim(1, 1), dim(2, 2), dim(1, 2)})
                \/ BroadcastThrows(batches)
        THEN Thrown
        ELSE Result("FLOAT32", BroadcastShape(batches) \o <<dim(1, 1), dim(2, 2)>>, LAMBDA o :
               LET outer == SubSeq(o, 1, Len(o) - 2)
               IN  {<<at(1, outer, o[Len(o) - 1], k), at(2, outer, k, o[Len(o)])>> :
                      k \in 0..dim(1, 2) - 1})

\* For a width above 0, by which the code divides.
LayerNorm(x) ==
    LET shape == x[1].shape
        width == shape[Len(shape)]
        at(i, column) == <<i, x[i].offset + column * x[i].strides[1]>>
    IN  IF \/ ~Float(x)
           \/ Len(x[2].shape) # 1 \/ x[3].shape # x[2].shape
           \/ shape = <<>>
        THEN Thrown
        ELSE IF width # x[2].shape[1] THEN Thrown
        ELSE Result("FLOAT32", shape, LAMBDA o :
               LET linear == Linear(o, shape)
                   row == linear \div width
                   column == linear % width
               IN  {<<AtLinear(x, 1, linear), AtLinear(x, 1, row * width + other),
                      at(2, column), at(3, column)>> : other \in 0..width - 1})

WhereOp(x) ==
    LET shapes == [i \in 1..3 |-> x[i].shape]
        select_x(o) == x[1].data[1 + BroadcastOffset(x[1], o)] # 0
    IN  IF x[1].dtype # "BOOL" \/ x[2].dtype # x[3].dtype \/ BroadcastThrows(shapes) THEN Thrown
        ELSE Result(x[2].dtype, BroadcastShape(shapes), LAMBDA o :
               {<<AtBroadcast(x, 1, o), AtBroadcast(x, IF select_x(o) THEN 2 ELSE 3, o)>>})

-----------------------------------------------------------------------------
(* norm.cpp, gemm.cpp *)

\* epsilon counts in the unit of the data.
BatchNorm(x, c) ==
    LET shape == x[1].shape
        epsilon == GetAttr(c, "epsilon", 1)
        at(i, channel) == <<i, x[i].offset + channel * x[i].strides[1]>>
        variance(channel) == x[5].data[1 + at(5, channel)[2]]
    IN  IF \/ ~Float(x)
           \/ Len(shape) # 4
           \/ \E i \in 2..5 : x[i].shape # <<shape[2]>>
           \/ epsilon < 0
        THEN Thrown
        ELSE IF \E n \in 0..shape[1] - 1, channel \in 0..shape[2] - 1 :
                   variance(channel) + epsilon <= 0 THEN Thrown
        ELSE Result("FLOAT32", shape, LAMBDA o :
               {<<At(x, 1, o)>> \o [i \in 1..4 |-> at(i + 1, o[2])]})

\* gemm_op packs A and B in order and leaves transposing to gemm().
GemmOp(x, c) ==
    LET transposed(i) == GetAttr(c, IF i = 1 THEN "transA" ELSE "transB", 0) # 0
        m == x[1].shape[IF transposed(1) THEN 2 ELSE 1]
        inner == x[1].shape[IF transposed(1) THEN 1 ELSE 2]
        b_k == x[2].shape[IF transposed(2) THEN 2 ELSE 1]
        n == x[2].shape[IF transposed(2) THEN 1 ELSE 2]
        a(row, k) == AtLinear(x, 1, IF transposed(1) THEN k * m + row ELSE row * inner + k)
        b(k, column) == AtLinear(x, 2, IF transposed(2) THEN column * inner + k ELSE k * n + column)
        shapes == << <<m, n>>, x[3].shape>>
        products(o) == {<<a(o[1], k), b(k, o[2])>> : k \in 0..inner - 1}
    IN  IF ~Float(x) \/ Len(x[1].shape) # 2 \/ Len(x[2].shape) # 2 THEN Thrown
        ELSE IF inner # b_k \/ ~FitInt({m, n, inner}) THEN Thrown
        ELSE IF ~Has(x, 3) THEN Result("FLOAT32", <<m, n>>, products)
        ELSE IF BroadcastThrows(shapes) \/ BroadcastShape(shapes) # <<m, n>> THEN Thrown
        ELSE Result("FLOAT32", <<m, n>>, LAMBDA o : products(o) \cup {<<AtBroadcast(x, 3, o)>>})

-----------------------------------------------------------------------------
(* pool.cpp, conv2d.cpp *)

\* Fault: the last window of ceil_mode is always kept.
OutputSizeKeeping(input, pad_begin, pad_end, effective_kernel, stride, ceil_mode) ==
    LET numerator == input + pad_begin + pad_end - effective_kernel
    IN  IF numerator < 0 THEN 0
        ELSE 1 + (IF ceil_mode THEN numerator + stride - 1 ELSE numerator) \div stride

OutputSize(input, pad_begin, pad_end, effective_kernel, stride, ceil_mode) ==
    LET numerator == input + pad_begin + pad_end - effective_kernel
        output == 1 + (IF ceil_mode THEN numerator + stride - 1 ELSE numerator) \div stride
    IN  IF numerator < 0 THEN 0
        ELSE IF ceil_mode /\ (output - 1) * stride >= input + pad_begin THEN output - 1
        ELSE output

PositivePair(values) == Len(values) = 2 /\ values[1] > 0 /\ values[2] > 0

Strides(c) == GetAttr(c, "strides", <<1, 1>>)
Dilations(c) == GetAttr(c, "dilations", <<1, 1>>)
Pads(c) == GetAttr(c, "pads", <<0, 0, 0, 0>>)

WindowThrows(c) ==
    \/ ~PositivePair(Strides(c))
    \/ ~PositivePair(Dilations(c))
    \/ Len(Pads(c)) # 4
    \/ \E i \in DOMAIN Pads(c) : Pads(c)[i] < 0

\* Output height (s = 1) or width (s = 2).
OutputExtent(x, c, kernel, s, ceil_mode) ==
    OutputSize(x[1].shape[s + 2], Pads(c)[s], Pads(c)[s + 2],
               Dilations(c)[s] * (kernel[s] - 1) + 1, Strides(c)[s], ceil_mode)

\* ih or iw.
Tap(c, s, o, k) == o[s + 2] * Strides(c)[s] - Pads(c)[s] + k[s] * Dilations(c)[s]

\* Fault: nobody looks before the input.
TapsBelowEnd(x, c, kernel, o) ==
    {k \in (0..kernel[1] - 1) \X (0..kernel[2] - 1) :
        \A s \in 1..2 : Tap(c, s, o, k) < x[1].shape[s + 2]}

\* The <<kh, kw>> of the window at o that fall on the input.
TapsInside(x, c, kernel, o) ==
    {k \in (0..kernel[1] - 1) \X (0..kernel[2] - 1) :
        \A s \in 1..2 : Tap(c, s, o, k) \in 0..x[1].shape[s + 2] - 1}

MaxPool(x, c) ==
    LET shape == x[1].shape
        kernel == GetAttr(c, "kernel_shape", <<>>)
        ceil_mode == GetAttr(c, "ceil_mode", 0) # 0
    IN  IF \/ ~Float(x) \/ Len(shape) # 4
           \/ ~PositivePair(kernel)
           \/ WindowThrows(c)
           \/ GetAttr(c, "storage_order", 0) # 0
           \/ c.indices
        THEN Thrown
        ELSE Result("FLOAT32",
               <<shape[1], shape[2]>> \o [s \in 1..2 |-> OutputExtent(x, c, kernel, s, ceil_mode)],
               LAMBDA o : {<<At(x, 1, <<o[1], o[2], Tap(c, 1, o, k), Tap(c, 2, o, k)>>)>> :
                             k \in TapsInside(x, c, kernel, o)})

GlobalAvgPool(x) ==
    LET shape == x[1].shape
    IN  IF ~Float(x) \/ Len(shape) # 4 THEN Thrown
        ELSE IF shape[3] = 0 \/ shape[4] = 0 THEN Thrown
        ELSE Result("FLOAT32", <<shape[1], shape[2], 1, 1>>, LAMBDA o :
               {<<At(x, 1, <<o[1], o[2]>> \o p)>> : p \in (0..shape[3] - 1) \X (0..shape[4] - 1)})

\* column and packed_weights of the group of an output channel.
Conv2d(x, c) ==
    LET shape == x[1].shape
        weights == x[2].shape
        groups == GetAttr(c, "group", 1)
        kernel == <<weights[3], weights[4]>>
        outputs_per_group == weights[1] \div groups
        patch_size == weights[2] * kernel[1] * kernel[2]
        size == [s \in 1..2 |-> OutputExtent(x, c, kernel, s, FALSE)]
        group(oc) == oc \div outputs_per_group
        products(o) ==
          {<<At(x, 1, <<o[1], group(o[2]) * weights[2] + p[1], Tap(c, 1, o, p[2]), Tap(c, 2, o, p[2])>>),
             At(x, 2, <<o[2], p[1]>> \o p[2])>> :
               p \in (0..weights[2] - 1) \X TapsInside(x, c, kernel, o)}
        bias(o) == {<< <<3, x[3].offset + o[2] * x[3].strides[1]>> >>}
    IN  IF ~Float(x) \/ Len(shape) # 4 \/ Len(weights) # 4 \/ groups <= 0 THEN Thrown
        ELSE IF \/ shape[2] % groups # 0 \/ weights[1] % groups # 0
                \/ weights[2] # shape[2] \div groups
                \/ ~PositivePair(kernel)
                \/ GetAttr(c, "kernel_shape", kernel) # kernel
                \/ WindowThrows(c)
                \/ Has(x, 3) /\ x[3].shape # <<weights[1]>>
        THEN Thrown
        ELSE IF ~FitInt({shape[1] * size[1] * size[2], outputs_per_group, patch_size}) THEN Thrown
        ELSE Result("FLOAT32", <<shape[1], weights[1]>> \o size,
               LAMBDA o : IF Has(x, 3) THEN products(o) \cup bias(o) ELSE products(o))

-----------------------------------------------------------------------------
(* Calls *)

\* How many operands, the first ones, input_at and required_tensor demand.
Required(op, given) ==
    CASE op = "Constant" -> 0
      [] op \in {"Binary", "Reshape", "Gather", "Expand", "MatMul", "Gemm", "Conv"} -> 2
      [] op \in {"Slice", "Where", "LayerNorm"} -> 3
      [] op = "BatchNorm" -> 5
      [] op = "Concat" -> given
      [] OTHER -> 1

InputMissing(c, x) == \E i \in 1..Required(c.op, Len(x)) : ~Has(x, i)

Kernel(c, x) ==
    IF InputMissing(c, x) THEN Thrown
    ELSE
    CASE c.op = "Unary" -> UnaryNode(x)
      [] c.op = "Binary" -> Binary(x)
      [] c.op = "Cast" -> CastOp(x, c)
      [] c.op = "Constant" -> ConstantOp(c)
      [] c.op = "Shape" -> ShapeOp(x, c)
      [] c.op = "Gather" -> Gather(x, c)
      [] c.op = "Concat" -> Concat(x, c)
      [] c.op = "Unsqueeze" -> Unsqueeze(x, c)
      [] c.op = "Squeeze" -> Squeeze(x, c)
      [] c.op = "Reshape" -> ReshapeOp(x, c)
      [] c.op = "Flatten" -> Flatten(x, c)
      [] c.op = "Slice" -> SliceOp(x, c)
      [] c.op = "Expand" -> Expand(x)
      [] c.op = "Where" -> WhereOp(x)
      [] c.op = "ReduceMean" -> ReduceMean(x, c)
      [] c.op = "Softmax" -> Softmax(x, c)
      [] c.op = "MatMul" -> MatMul(x)
      [] c.op = "LayerNorm" -> LayerNorm(x)
      [] c.op = "BatchNorm" -> BatchNorm(x, c)
      [] c.op = "Gemm" -> GemmOp(x, c)
      [] c.op = "MaxPool" -> MaxPool(x, c)
      [] c.op = "GlobalAveragePool" -> GlobalAvgPool(x)
      [] c.op = "Conv" -> Conv2d(x, c)
      [] OTHER -> Thrown

CallInit == Init /\ call = <<>> /\ result = <<>>

ViewStep ==
    /\ call = <<>>
    /\ Next
    /\ UNCHANGED <<call, result>>

Execute(c) ==
    /\ call = <<>>
    /\ ops <= MaxBefore
    /\ call' = c
    /\ result' = Kernel(c, Operands(c))
    /\ UNCHANGED vars

CallNext == ViewStep \/ \E c \in Calls : Execute(c)

CallSpec == CallInit /\ [][CallNext]_call_vars

-----------------------------------------------------------------------------
(* Properties *)

O == INSTANCE Onnx

\* What the operands hold, without strides and offset.
Logical(t) ==
    IF t = <<>> THEN <<>>
    ELSE [dtype |-> t.dtype, shape |-> t.shape,
          value |-> [d \in Cells!Coords(t.shape) |-> t.data[1 + TensorOffset(t, d)]]]

Expected ==
    O!Meaning(call.op, [i \in DOMAIN Operands(call) |-> Logical(Operands(call)[i])], call.attrs)

\* A kernel reads nothing outside the storage of its operands, however they
\* are strided, offset or stretched.
ReadsInStorage ==
    call # <<>> /\ result.status = "ok" =>
        \A k \in DOMAIN result.elements : \A term \in result.elements[k] :
            \A j \in DOMAIN term :
                term[j][1] # 0 => term[j][2] + 1 \in DOMAIN Operands(call)[term[j][1]].data

\* What ONNX defines and the kernels refuse: a vector as a factor, the indices
\* of a MaxPool, and products that gemm() could not count.
Refused ==
    LET x == Operands(call)
        Beyond(sizes) == Expected # O!Undefined /\ \E s \in sizes : s > IntMax
        lastTwo(s) == {s[j] : j \in {Len(s) - 1, Len(s)} \cap DOMAIN s}
    IN  CASE call.op = "MaxPool" -> call.indices
          [] call.op \in {"MatMul", "Gemm"} ->
               \/ Expected # O!Undefined /\ \E i \in 1..2 : Len(x[i].shape) = 1
               \/ Beyond(lastTwo(x[1].shape) \cup lastTwo(x[2].shape))
          [] call.op = "Conv" ->
               \/ Beyond({Numel(Tail(x[2].shape)), x[2].shape[1] \div GetAttr(call, "group", 1)})
               \/ Beyond({Numel(<<Expected.shape[1], Expected.shape[3], Expected.shape[4]>>)})
          [] OTHER -> FALSE

\* What ONNX does not define and a kernel accepts: Unsqueeze without axes
\* returns its operand.
Tolerated ==
    call.op = "Unsqueeze" /\ "axes" \notin DOMAIN call.attrs /\ ~Has(Operands(call), 2)

\* A kernel throws exactly where ONNX, in the subset that is supported,
\* defines no result, and in the few named cases where it does.
ThrowsExactlyIfUndefined ==
    call # <<>> /\ ~Tolerated =>
        (result.status = "thrown" <=> Expected = O!Undefined \/ Refused)

\* The result has the dtype and shape of the definition, and each element, in
\* row-major order, is computed from the elements that the definition names.
ResultsAsOnnx ==
    call # <<>> /\ result.status = "ok" /\ ~Tolerated =>
        LET located(term) ==
              [j \in DOMAIN term |->
                 IF term[j][1] = 0 THEN term[j] ELSE At(Operands(call), term[j][1], term[j][2])]
            meaning == Expected
            order == O!InOrder(meaning.shape)
        IN  /\ result.dtype = meaning.dtype
            /\ result.shape = meaning.shape
            /\ result.elements =
                 [k \in DOMAIN order |-> {located(term) : term \in meaning.terms[order[k]]}]

\* Every window of a MaxPool covers a part of the input, or its result would
\* be -infinity: for pads smaller than the kernel and no dilation.
WindowsMeetInput ==
    /\ call # <<>>
    /\ call.op = "MaxPool"
    /\ result.status = "ok"
    /\ Numel(Operands(call)[1].shape) > 0
    /\ Dilations(call) = <<1, 1>>
    /\ \A s \in 1..2 : {Pads(call)[s], Pads(call)[s + 2]} \subseteq
                         0..call.attrs["kernel_shape"][s] - 1
    => \A k \in DOMAIN result.elements : result.elements[k] # {}
=============================================================================
