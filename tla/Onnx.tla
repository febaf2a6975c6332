-------------------------------- MODULE Onnx --------------------------------
(***************************************************************************)
(* What the operators promise: the elements of the result that ONNX        *)
(* defines, within the subset the kernels accept.  Arrays are records of   *)
(* dtype, shape and value, a function from coordinates; there are no       *)
(* strides, offsets or linear positions here.                              *)
(*                                                                         *)
(* A result gives each of its coordinates a set of terms.  A term lists    *)
(* what is combined, as <<operand, coordinates>>: the two factors of a     *)
(* product, say; operand 0 stands for a literal integer.  How the terms    *)
(* are combined (sum, maximum, mean, ...) is the same on both sides and    *)
(* left out.                                                               *)
(***************************************************************************)
EXTENDS Coordinates, Functions, SequencesExt

Undefined == <<>>

Defined(dtype, shape, Terms(_)) ==
    [dtype |-> dtype, shape |-> shape, terms |-> [o \in Coords(shape) |-> Terms(o)]]

Attribute(attrs, name, default) ==
    IF name \in DOMAIN attrs THEN attrs[name] ELSE default

Given(a, i) == i <= Len(a) /\ a[i] # <<>>

AllFloat(a) == \A i \in DOMAIN a : Given(a, i) => a[i].dtype = "FLOAT32"

\* The coordinates in row-major order.
InOrder(shape) ==
    LET upTo[n \in 0..Len(shape)] ==
          IF n = 0 THEN << <<>> >>
          ELSE LET outer == upTo[n-1]
               IN  FlattenSeq([k \in DOMAIN outer |->
                                 [x \in 1..shape[n] |-> Append(outer[k], x - 1)]])
    IN  upTo[Len(shape)]

Count(shape) == Cardinality(Coords(shape))

IsVector(array) == array.dtype = "INT64" /\ Len(array.shape) = 1

Ints(array) == [k \in 1..array.shape[1] |-> array.value[<<k - 1>>]]

IsAxis(x, rank) == -rank <= x /\ x < rank

Axis(x, rank) == 1 + FromEnd(x, rank)

\* The sequence without the entries at these places.
Without(s, places) ==
    LET kept == SelectSeq([i \in DOMAIN s |-> i], LAMBDA i : i \notin places)
    IN  [i \in DOMAIN kept |-> s[kept[i]]]

\* Dimensions that meet at the i-th axis from the last, but 1.
Meeting(shapes, i) ==
    {shapes[j][Len(shapes[j]) - i] : j \in {k \in DOMAIN shapes : i < Len(shapes[k])}} \ {1}

LongestRank(shapes) == Max({Len(shapes[j]) : j \in DOMAIN shapes})

Compatible(shapes) ==
    \A i \in 0..LongestRank(shapes) - 1 : Cardinality(Meeting(shapes, i)) <= 1

BroadcastOf(shapes) ==
    [i \in 1..LongestRank(shapes) |->
        LET met == Meeting(shapes, LongestRank(shapes) - i)
        IN  IF met = {} THEN 1 ELSE CHOOSE d \in met : TRUE]

\* The element that stands at o when an array of this shape is stretched.
Stretched(shape, o) ==
    CHOOSE d \in Coords(shape) :
        \A i \in DOMAIN d : shape[i] # 1 => d[i] = o[Len(o) - Len(d) + i]

-----------------------------------------------------------------------------
(* Shapes and copies *)

\* The data of the attribute are in row-major order.
ConstantMeaning(attrs) ==
    IF ~("value" \in DOMAIN attrs /\ attrs["value"].type = "TENSOR") THEN Undefined
    ELSE LET tensor == attrs["value"].tensor
         IN  Defined(tensor.dtype, tensor.shape,
                     LAMBDA o : {<< <<0, tensor.data[1 + Rank(o, tensor.shape)]>> >>})

ShapeMeaning(a, attrs) ==
    LET rank == Len(a[1].shape)
        axes == Selected(Attribute(attrs, "start", 0), Attribute(attrs, "end", rank), 1, rank)
    IN  Defined("INT64", <<Cardinality(axes)>>, LAMBDA o :
          {<< <<0, a[1].shape[i + 1]>> >> :
             i \in {j \in axes : Cardinality({k \in axes : k < j}) = o[1]}})

SameElements(a, dtype) == Defined(dtype, a[1].shape, LAMBDA o : {<< <<1, o>> >>})

CastMeaning(a, attrs) ==
    IF attrs["to"] \notin {1, 2, 6, 7, 9} THEN Undefined
    ELSE SameElements(a, CASE attrs["to"] = 1 -> "FLOAT32" [] attrs["to"] = 2 -> "UINT8"
                           [] attrs["to"] = 6 -> "INT32" [] attrs["to"] = 7 -> "INT64"
                           [] attrs["to"] = 9 -> "BOOL")

\* In an empty result no index is used.
GatherMeaning(a, attrs) ==
    LET axis == Axis(Attribute(attrs, "axis", 0), Len(a[1].shape))
        dim == a[1].shape[axis]
        shape == SubSeq(a[1].shape, 1, axis - 1) \o a[2].shape
                   \o SubSeq(a[1].shape, axis + 1, Len(a[1].shape))
        place(i, d) == SubSeq(d, 1, axis - 1) \o i \o SubSeq(d, axis + 1, Len(d))
    IN  IF \/ a[2].dtype # "INT64"
           \/ ~IsAxis(Attribute(attrs, "axis", 0), Len(a[1].shape))
           \/ Coords(shape) # {} /\ \E i \in DOMAIN a[2].value : ~IsAxis(a[2].value[i], dim)
        THEN Undefined
        ELSE Defined(a[1].dtype, shape, LAMBDA o :
               {<< <<2, p[1]>>, <<1, p[2]>> >> :
                  p \in {q \in Coords(a[2].shape) \X Coords(a[1].shape) :
                           /\ place(q[1], q[2]) = o
                           /\ FromEnd(a[2].value[q[1]], dim) = q[2][axis]}})

ConcatMeaning(a, attrs) ==
    LET rank == Len(a[1].shape)
        axis == Axis(Attribute(attrs, "axis", 0), rank)
        lengths == [j \in DOMAIN a |-> a[j].shape[axis]]
        before(j) == SumFunctionOnSet(lengths, 1..j-1)
    IN  IF \/ ~IsAxis(Attribute(attrs, "axis", 0), rank)
           \/ \E j \in DOMAIN a :
                \/ a[j].dtype # a[1].dtype
                \/ Len(a[j].shape) # rank
                \/ Without(a[j].shape, {axis}) # Without(a[1].shape, {axis})
        THEN Undefined
        ELSE Defined(a[1].dtype, [a[1].shape EXCEPT ![axis] = SumFunction(lengths)],
               LAMBDA o :
                 {<< <<j, [o EXCEPT ![axis] = @ - before(j)]>> >> :
                    j \in {i \in DOMAIN a : o[axis] - before(i) \in 0..lengths[i] - 1}})

AxesOf(a, attrs) ==
    IF Given(a, 2) THEN Ints(a[2]) ELSE Attribute(attrs, "axes", <<>>)

AxesDefined(a) == Given(a, 2) => IsVector(a[2])

UnsqueezeMeaning(a, attrs) ==
    LET axes == AxesOf(a, attrs)
        rank == Len(a[1].shape) + Len(axes)
        new == {Axis(axes[k], rank) : k \in DOMAIN axes}
    IN  IF \/ ~Given(a, 2) /\ "axes" \notin DOMAIN attrs
           \/ ~AxesDefined(a)
           \/ \E k \in DOMAIN axes : ~IsAxis(axes[k], rank)
           \/ Cardinality(new) # Len(axes)
        THEN Undefined
        ELSE Defined(a[1].dtype,
                     [i \in 1..rank |-> IF i \in new THEN 1
                                        ELSE a[1].shape[Cardinality((1..i) \ new)]],
                     LAMBDA o : {<< <<1, Without(o, new)>> >>})

SqueezeMeaning(a, attrs) ==
    LET axes == AxesOf(a, attrs)
        shape == a[1].shape
        ones == {i \in DOMAIN shape : shape[i] = 1}
        old == IF axes = <<>> THEN ones
               ELSE {Axis(axes[k], Len(shape)) : k \in DOMAIN axes}
    IN  IF \/ ~AxesDefined(a)
           \/ \E k \in DOMAIN axes : ~IsAxis(axes[k], Len(shape))
           \/ axes # <<>> /\ Cardinality(old) # Len(axes)
           \/ ~(old \subseteq ones)
        THEN Undefined
        ELSE Defined(a[1].dtype, Without(shape, old),
                     LAMBDA o : {<< <<1, d>> >> : d \in {e \in Coords(shape) : Without(e, old) = o}})

SameOrderAs(a, shape) ==
    LET old == InOrder(a[1].shape)
        new == InOrder(shape)
    IN  Defined(a[1].dtype, shape, LAMBDA o :
          {<< <<1, old[k]>> >> : k \in {j \in DOMAIN new : new[j] = o}})

\* The only shape that is as asked for and has the right number of elements.
ReshapeMeaning(a, attrs) ==
    LET asked == Ints(a[2])
        keeps == {i \in DOMAIN asked : asked[i] = 0 /\ Attribute(attrs, "allowzero", 0) = 0}
        open == {i \in DOMAIN asked : asked[i] = -1}
        with(n) == [i \in DOMAIN asked |-> IF i \in open THEN n
                                           ELSE IF i \in keeps THEN a[1].shape[i] ELSE asked[i]]
        right == {n \in 0..Count(a[1].shape) + 1 : Count(with(n)) = Count(a[1].shape)}
    IN  IF \/ ~IsVector(a[2])
           \/ \E i \in DOMAIN asked : asked[i] < -1
           \/ ~(keeps \subseteq DOMAIN a[1].shape)
           \/ Cardinality(open) > 1
           \/ right = {}
           \/ open # {} /\ Cardinality(right) > 1
        THEN Undefined
        ELSE SameOrderAs(a, with(CHOOSE n \in right : TRUE))

FlattenMeaning(a, attrs) ==
    LET shape == a[1].shape
        axis == FromEnd(Attribute(attrs, "axis", 1), Len(shape))
    IN  IF axis \notin 0..Len(shape) THEN Undefined
        ELSE SameOrderAs(a, <<Count(SubSeq(shape, 1, axis)),
                              Count(SubSeq(shape, axis + 1, Len(shape)))>>)

\* Axes given once; steps are positive in the subset.
SliceMeaning(a, attrs) ==
    LET shape == a[1].shape
        number == a[2].shape[1]
        axes == IF Given(a, 4) THEN Ints(a[4]) ELSE [k \in 1..number |-> k - 1]
        steps == IF Given(a, 5) THEN Ints(a[5]) ELSE [k \in 1..number |-> 1]
        at(i) == {k \in 1..number : Axis(axes[k], Len(shape)) = i}
        chosen == [i \in DOMAIN shape |->
                     IF at(i) = {} THEN 0..shape[i] - 1
                     ELSE LET k == CHOOSE k \in at(i) : TRUE
                          IN  Selected(Ints(a[2])[k], Ints(a[3])[k], steps[k], shape[i])]
    IN  IF \/ \E i \in 2..Len(a) : Given(a, i) /\ ~(IsVector(a[i]) /\ a[i].shape = a[2].shape)
           \/ \E k \in 1..number : steps[k] <= 0 \/ ~IsAxis(axes[k], Len(shape))
           \/ Len(axes) # number
        THEN Undefined
        ELSE Defined(a[1].dtype, [i \in DOMAIN shape |-> Cardinality(chosen[i])],
               LAMBDA o :
                 {<< <<1, d>> >> : d \in {e \in Coords(shape) :
                    \A i \in DOMAIN e :
                       /\ e[i] \in chosen[i]
                       /\ Cardinality({x \in chosen[i] : x < e[i]}) = o[i]}})

\* In the subset the result has the shape asked for.
ExpandMeaning(a, attrs) ==
    LET shapes == <<a[1].shape, Ints(a[2])>>
    IN  IF \/ ~IsVector(a[2])
           \/ ~Compatible(shapes)
           \/ BroadcastOf(shapes) # shapes[2]
           \/ \E i \in DOMAIN shapes[2] : shapes[2][i] < 0
        THEN Undefined
        ELSE Defined(a[1].dtype, shapes[2], LAMBDA o : {<< <<1, Stretched(a[1].shape, o)>> >>})

-----------------------------------------------------------------------------
(* Arithmetic *)

BinaryMeaning(a, attrs) ==
    LET shapes == <<a[1].shape, a[2].shape>>
    IN  IF ~AllFloat(a) \/ ~Compatible(shapes) THEN Undefined
        ELSE Defined("FLOAT32", BroadcastOf(shapes), LAMBDA o :
               {<< <<1, Stretched(shapes[1], o)>>, <<2, Stretched(shapes[2], o)>> >>})

WhereMeaning(a, attrs) ==
    LET shapes == [i \in 1..3 |-> a[i].shape]
    IN  IF \/ a[1].dtype # "BOOL"
           \/ a[2].dtype # a[3].dtype
           \/ ~Compatible(shapes)
        THEN Undefined
        ELSE Defined(a[2].dtype, BroadcastOf(shapes), LAMBDA o :
               LET test == Stretched(shapes[1], o)
                   source == IF a[1].value[test] # 0 THEN 2 ELSE 3
               IN  {<< <<1, test>>, <<source, Stretched(shapes[source], o)>> >>})

ReduceMeanMeaning(a, attrs) ==
    LET shape == a[1].shape
        rank == Len(shape)
        axes == Attribute(attrs, "axes", <<>>)
        gone == IF axes = <<>> THEN DOMAIN shape ELSE {Axis(axes[k], rank) : k \in DOMAIN axes}
        keep == Attribute(attrs, "keepdims", 1) # 0
        ones == [i \in DOMAIN shape |-> IF i \in gone THEN 1 ELSE shape[i]]
        place(d) == [i \in DOMAIN d |-> IF i \in gone THEN 0 ELSE d[i]]
    IN  IF ~AllFloat(a) \/ \E k \in DOMAIN axes : ~IsAxis(axes[k], rank) THEN Undefined
        ELSE Defined("FLOAT32", IF keep THEN ones ELSE Without(shape, gone), LAMBDA o :
               {<< <<1, d>> >> : d \in {e \in Coords(shape) :
                  o = IF keep THEN place(e) ELSE Without(e, gone)}})

SoftmaxMeaning(a, attrs) ==
    LET shape == a[1].shape
        axis == Axis(Attribute(attrs, "axis", -1), Len(shape))
    IN  IF ~AllFloat(a) \/ ~IsAxis(Attribute(attrs, "axis", -1), Len(shape)) THEN Undefined
        ELSE Defined("FLOAT32", shape, LAMBDA o :
               {<< <<1, o>>, <<1, d>> >> : d \in {e \in Coords(shape) :
                  \A i \in DOMAIN shape \ {axis} : e[i] = o[i]}})

\* A vector on the left is a row, on the right a column; the axis it lacks is
\* missing in the result.
MatMulMeaning(a, attrs) ==
    LET rank(i) == Len(a[i].shape)
        batch(i) == SubSeq(a[i].shape, 1, rank(i) - 2)
        rows == IF rank(1) = 1 THEN <<>> ELSE <<a[1].shape[rank(1) - 1]>>
        columns == IF rank(2) = 1 THEN <<>> ELSE <<a[2].shape[rank(2)]>>
        inner == <<a[1].shape[rank(1)], a[2].shape[Max({1, rank(2) - 1})]>>
    IN  IF \/ ~AllFloat(a)
           \/ 0 \in {rank(1), rank(2)}
           \/ inner[1] # inner[2]
           \/ ~Compatible(<<batch(1), batch(2)>>)
        THEN Undefined
        ELSE Defined("FLOAT32", BroadcastOf(<<batch(1), batch(2)>>) \o rows \o columns,
               LAMBDA o :
                 LET depth == Len(o) - Len(rows) - Len(columns)
                     outer == SubSeq(o, 1, depth)
                     row == SubSeq(o, depth + 1, depth + Len(rows))
                     column == SubSeq(o, depth + Len(rows) + 1, Len(o))
                 IN  {<< <<1, Stretched(batch(1), outer) \o row \o <<k>> >>,
                         <<2, Stretched(batch(2), outer) \o <<k>> \o column>> >> :
                        k \in 0..inner[1] - 1})

LayerNormMeaning(a, attrs) ==
    LET shape == a[1].shape
        width == shape[Len(shape)]
    IN  IF \/ ~AllFloat(a)
           \/ shape = <<>>
           \/ a[2].shape # <<width>>
           \/ a[3].shape # <<width>>
        THEN Undefined
        ELSE Defined("FLOAT32", shape, LAMBDA o :
               {<< <<1, o>>, <<1, [o EXCEPT ![Len(o)] = x]>>,
                   <<2, <<o[Len(o)]>> >>, <<3, <<o[Len(o)]>> >> >> : x \in 0..width - 1})

\* epsilon counts in the unit of the data.
BatchNormMeaning(a, attrs) ==
    LET shape == a[1].shape
    IN  IF \/ ~AllFloat(a)
           \/ Len(shape) # 4
           \/ \E i \in 2..5 : a[i].shape # <<shape[2]>>
           \/ Attribute(attrs, "epsilon", 1) < 0
           \/ /\ shape[1] > 0
              /\ \E d \in DOMAIN a[5].value : a[5].value[d] + Attribute(attrs, "epsilon", 1) <= 0
        THEN Undefined
        ELSE Defined("FLOAT32", shape, LAMBDA o :
               {<< <<1, o>> >> \o [i \in 1..4 |-> <<i + 1, <<o[2]>> >>]})

GemmMeaning(a, attrs) ==
    LET flip(i) == Attribute(attrs, IF i = 1 THEN "transA" ELSE "transB", 0) # 0
        place(i, row, column) == IF flip(i) THEN <<column, row>> ELSE <<row, column>>
        dims(i) == place(i, a[i].shape[1], a[i].shape[2])
        shape == <<dims(1)[1], dims(2)[2]>>
    IN  IF \/ ~AllFloat(a)
           \/ Len(a[1].shape) # 2 \/ Len(a[2].shape) # 2
           \/ dims(1)[2] # dims(2)[1]
           \/ /\ Given(a, 3)
              /\ ~Compatible(<<shape, a[3].shape>>) \/ BroadcastOf(<<shape, a[3].shape>>) # shape
        THEN Undefined
        ELSE Defined("FLOAT32", shape, LAMBDA o :
               {<< <<1, place(1, o[1], k)>>, <<2, place(2, k, o[2])>> >> : k \in 0..dims(1)[2] - 1}
                 \cup (IF Given(a, 3) THEN {<< <<3, Stretched(a[3].shape, o)>> >>} ELSE {}))

-----------------------------------------------------------------------------
(* Windows *)

Extent(kernel, dilation) == dilation * (kernel - 1) + 1

\* How many windows fit, the input being widened by the pads.  With ceil_mode
\* one may end past the padded input when it starts within pad and input and
\* the one before it does not reach the end.
Windows(input, begin, end, extent, stride, ceil) ==
    LET padded == begin + input + end
    IN  Cardinality({w \in 0..padded :
          IF ceil THEN /\ extent <= padded
                       /\ w > 0 => (w - 1) * stride + extent < padded
                       /\ w * stride < begin + input
                  ELSE w * stride + extent <= padded})

Reached(x, w, kernel, begin, stride, dilation) ==
    \E k \in 0..kernel - 1 : x = w * stride - begin + k * dilation

TwoPositive(s) == Len(s) = 2 /\ \A i \in DOMAIN s : s[i] > 0

WindowAttributes(attrs) ==
    /\ TwoPositive(Attribute(attrs, "strides", <<1, 1>>))
    /\ TwoPositive(Attribute(attrs, "dilations", <<1, 1>>))
    /\ Len(Attribute(attrs, "pads", <<0, 0, 0, 0>>)) = 4
    /\ \A i \in 1..4 : Attribute(attrs, "pads", <<0, 0, 0, 0>>)[i] >= 0

WindowsAlong(s, shape, kernel, attrs, ceil) ==
    LET pads == Attribute(attrs, "pads", <<0, 0, 0, 0>>)
    IN  Windows(shape[s + 2], pads[s], pads[s + 2],
                Extent(kernel[s], Attribute(attrs, "dilations", <<1, 1>>)[s]),
                Attribute(attrs, "strides", <<1, 1>>)[s], ceil)

MaxPoolMeaning(a, attrs) ==
    LET shape == a[1].shape
        kernel == Attribute(attrs, "kernel_shape", <<>>)
        ceil == Attribute(attrs, "ceil_mode", 0) # 0
        along(s, d, o) == Reached(d[s + 2], o[s + 2], kernel[s],
                                  Attribute(attrs, "pads", <<0, 0, 0, 0>>)[s],
                                  Attribute(attrs, "strides", <<1, 1>>)[s],
                                  Attribute(attrs, "dilations", <<1, 1>>)[s])
    IN  IF \/ ~AllFloat(a)
           \/ Len(shape) # 4
           \/ ~TwoPositive(kernel)
           \/ ~WindowAttributes(attrs)
           \/ Attribute(attrs, "storage_order", 0) # 0
        THEN Undefined
        ELSE Defined("FLOAT32",
               <<shape[1], shape[2]>> \o [s \in 1..2 |-> WindowsAlong(s, shape, kernel, attrs, ceil)],
               LAMBDA o :
                 {<< <<1, d>> >> : d \in {e \in Coords(shape) :
                    e[1] = o[1] /\ e[2] = o[2] /\ along(1, e, o) /\ along(2, e, o)}})

GlobalAveragePoolMeaning(a, attrs) ==
    LET shape == a[1].shape
    IN  IF ~AllFloat(a) \/ Len(shape) # 4 \/ 0 \in {shape[3], shape[4]} THEN Undefined
        ELSE Defined("FLOAT32", <<shape[1], shape[2], 1, 1>>, LAMBDA o :
               {<< <<1, d>> >> : d \in {e \in Coords(shape) : e[1] = o[1] /\ e[2] = o[2]}})

\* Taps in the padding count as zero and have no term.
ConvMeaning(a, attrs) ==
    LET shape == a[1].shape
        weights == a[2].shape
        groups == Attribute(attrs, "group", 1)
        kernel == <<weights[3], weights[4]>>
        group(channel) == channel \div (weights[1] \div groups)
        tap(s, d, w, o) == /\ d[s + 2] = o[s + 2] * Attribute(attrs, "strides", <<1, 1>>)[s]
                                           - Attribute(attrs, "pads", <<0, 0, 0, 0>>)[s]
                                           + w[s + 2] * Attribute(attrs, "dilations", <<1, 1>>)[s]
    IN  IF \/ ~AllFloat(a)
           \/ Len(shape) # 4 \/ Len(weights) # 4
           \/ groups <= 0 \/ shape[2] # groups * weights[2] \/ weights[1] % groups # 0
           \/ ~TwoPositive(kernel)
           \/ Attribute(attrs, "kernel_shape", kernel) # kernel
           \/ ~WindowAttributes(attrs)
           \/ Given(a, 3) /\ a[3].shape # <<weights[1]>>
        THEN Undefined
        ELSE Defined("FLOAT32",
               <<shape[1], weights[1]>> \o [s \in 1..2 |-> WindowsAlong(s, shape, kernel, attrs, FALSE)],
               LAMBDA o :
                 {<< <<1, p[1]>>, <<2, p[2]>> >> :
                    p \in {q \in Coords(shape) \X Coords(weights) :
                             /\ q[1][1] = o[1]
                             /\ q[2][1] = o[2]
                             /\ q[1][2] = group(o[2]) * weights[2] + q[2][2]
                             /\ tap(1, q[1], q[2], o)
                             /\ tap(2, q[1], q[2], o)}}
                 \cup (IF Given(a, 3) THEN {<< <<3, <<o[2]>> >> >>} ELSE {}))

-----------------------------------------------------------------------------

\* The operands that an operator cannot do without.
Arity(op, a) ==
    CASE op = "Concat" -> Len(a)
      [] op = "BatchNorm" -> 5
      [] op \in {"Where", "Slice", "LayerNorm"} -> 3
      [] op \in {"Binary", "MatMul", "Gemm", "Conv", "Gather", "Reshape", "Expand"} -> 2
      [] op = "Constant" -> 0
      [] OTHER -> 1

Meaning(op, a, attrs) ==
    IF \E i \in 1..Arity(op, a) : ~Given(a, i) THEN Undefined
    ELSE
    CASE op = "Unary" -> IF AllFloat(a) THEN SameElements(a, "FLOAT32") ELSE Undefined
      [] op = "Binary" -> BinaryMeaning(a, attrs)
      [] op = "Cast" -> CastMeaning(a, attrs)
      [] op = "Constant" -> ConstantMeaning(attrs)
      [] op = "Shape" -> ShapeMeaning(a, attrs)
      [] op = "Gather" -> GatherMeaning(a, attrs)
      [] op = "Concat" -> ConcatMeaning(a, attrs)
      [] op = "Unsqueeze" -> UnsqueezeMeaning(a, attrs)
      [] op = "Squeeze" -> SqueezeMeaning(a, attrs)
      [] op = "Reshape" -> ReshapeMeaning(a, attrs)
      [] op = "Flatten" -> FlattenMeaning(a, attrs)
      [] op = "Slice" -> SliceMeaning(a, attrs)
      [] op = "Expand" -> ExpandMeaning(a, attrs)
      [] op = "Where" -> WhereMeaning(a, attrs)
      [] op = "ReduceMean" -> ReduceMeanMeaning(a, attrs)
      [] op = "Softmax" -> SoftmaxMeaning(a, attrs)
      [] op = "MatMul" -> MatMulMeaning(a, attrs)
      [] op = "LayerNorm" -> LayerNormMeaning(a, attrs)
      [] op = "BatchNorm" -> BatchNormMeaning(a, attrs)
      [] op = "Gemm" -> GemmMeaning(a, attrs)
      [] op = "MaxPool" -> MaxPoolMeaning(a, attrs)
      [] op = "GlobalAveragePool" -> GlobalAveragePoolMeaning(a, attrs)
      [] op = "Conv" -> ConvMeaning(a, attrs)
      [] OTHER -> Undefined
=============================================================================
