-------------------------- MODULE ActivationQuant ---------------------------
(***************************************************************************)
(* How a saved activation is compressed and restored: activation_quantize  *)
(* and activation_dequantize (core/quantizer/activation_quantization.py),  *)
(* and the four-group 4-bit kernels (core/quantizer/split_4group.py).      *)
(*                                                                         *)
(* A tensor is a sequence of integers; a stored or restored value is a     *)
(* multiple of 1 / Unit of that, so that no division here loses anything.  *)
(* The blockwise quantizers of bitsandbytes are external: a value becomes  *)
(* the nearest level of a codebook, Code (in 1 / CodeMax), scaled by the   *)
(* largest magnitude of its block.  Mean and standard deviation are not    *)
(* computed: a definition that needs them takes them as parameters, and    *)
(* the properties hold for any.  KernelWidth is the BLOCK_SIZE of the      *)
(* kernels, 128.  The gact quantizer is not modelled.                      *)
(***************************************************************************)
EXTENDS Integers, Sequences, FiniteSets, SequencesExt, FiniteSetsExt

CONSTANTS Code, CodeMax, KernelWidth

Unit == 1024

Abs(v) == IF v < 0 THEN -v ELSE v

Scaled(x) == [i \in DOMAIN x |-> x[i] * Unit]

AbsMax(v) == Max({Abs(v[i]) : i \in DOMAIN v} \cup {0})

NumBlocks(n, blocksize) == (n + blocksize - 1) \div blocksize

BlockOf(i, blocksize) == (i - 1) \div blocksize + 1

BlockMax(v, blocksize) ==
    [b \in 1 .. NumBlocks(Len(v), blocksize) |->
        Max({Abs(v[i]) : i \in {k \in DOMAIN v : BlockOf(k, blocksize) = b}})]

----------------------------------------------------------------------------
(* bitsandbytes, and the functions around it (external).                   *)

NearestLevel(v, absmax) ==
    CHOOSE l \in Code : \A k \in Code :
        Abs(v * CodeMax - l * absmax) <= Abs(v * CodeMax - k * absmax)

QuantizeBlocks(v, blocksize) ==
    LET absmax == BlockMax(v, blocksize)
    IN [absmax |-> absmax,
        level |-> [i \in DOMAIN v |-> NearestLevel(v[i], absmax[BlockOf(i, blocksize)])]]

DequantizeBlocks(q, blocksize) ==
    [i \in DOMAIN q.level |->
        (q.level[i] * q.absmax[BlockOf(i, blocksize)]) \div CodeMax]

----------------------------------------------------------------------------
(* The split types: values further than `cut` (r standard deviations) from *)
(* the mean are moved towards it by `shift`, their share `yu` of the cut,  *)
(* and quantized apart from the others; a mask, eight places to a byte,    *)
(* tells them apart.  "gather" is split_tensor / merge_tensor, "fill" the  *)
(* double_scale pair and "outer" the pair that keeps every value inside.   *)

PackMask(mask) ==
    [byte \in 1 .. (Len(mask) + 7) \div 8 |->
        {bit \in 0 .. 7 : 8 * (byte - 1) + bit + 1 \in DOMAIN mask
                          /\ mask[8 * (byte - 1) + bit + 1]}]

UnpackMask(bytes, n) == [i \in 1 .. n |-> (i - 1) % 8 \in bytes[(i - 1) \div 8 + 1]]

(* input[mask], and its inverse: where in that sequence place i went.      *)
Places(mask, value) == SelectSeq([i \in DOMAIN mask |-> i], LAMBDA i : mask[i] = value)

Gather(v, mask, value) ==
    LET places == Places(mask, value) IN [k \in DOMAIN places |-> v[places[k]]]

RankOf(mask, i) == Cardinality({k \in 1 .. i : mask[k] = mask[i]})

GroupIn(v, mask, way) ==
    CASE way = "gather" -> Gather(v, mask, FALSE)
      [] way = "fill" -> [i \in DOMAIN v |-> IF mask[i] THEN 0 ELSE v[i]]
      [] way = "outer" -> v

GroupOut(v, mask, way) ==
    IF way = "fill" THEN [i \in DOMAIN v |-> IF mask[i] THEN v[i] ELSE 0]
    ELSE Gather(v, mask, TRUE)

Merge(group_in, group_out, mask, way) ==
    [i \in DOMAIN mask |->
        IF mask[i] THEN group_out[IF way = "fill" THEN i ELSE RankOf(mask, i)]
        ELSE group_in[IF way = "gather" THEN RankOf(mask, i) ELSE i]]

(* __act_quan_split, then __act_dequan_split: what of x comes back.  The   *)
(* sign that says which way to move back is read from the dequantized      *)
(* value.  `zeroed` is __act_dequan_split_e, which drops the inner group.  *)
RestoredSplit(x, way, mean, cut, shift, blocksize, zeroed) ==
    LET v == [i \in DOMAIN x |-> (x[i] - mean) * Unit]
        bits == [i \in DOMAIN v |-> Abs(v[i]) > cut]
        stored == PackMask(bits)
        out == GroupOut(v, bits, way)
        moved == [i \in DOMAIN out |-> IF out[i] > 0 THEN out[i] - shift ELSE out[i] + shift]
        q_in == QuantizeBlocks(GroupIn(v, bits, way), blocksize)
        q_out == QuantizeBlocks(moved, blocksize)
        in == DequantizeBlocks(q_in, blocksize)
        back == DequantizeBlocks(q_out, blocksize)
        merged == Merge(IF zeroed THEN [i \in DOMAIN in |-> 0] ELSE in,
                        [i \in DOMAIN back |->
                            IF back[i] > 0 THEN back[i] + shift ELSE back[i] - shift],
                        UnpackMask(stored, Len(x)), way)
    IN [i \in DOMAIN x |-> merged[i] + mean * Unit]

----------------------------------------------------------------------------
(* sub_group: rows are stored as what is left of them beyond the mean, or  *)
(* the first row, of their group; the group's row is quantized for itself. *)

SubGroupAccepted(n, group_size) == n % group_size = 0

GroupScale(x, group_size, scale_type) ==
    [b \in 1 .. Len(x) \div group_size |->
        IF scale_type = "mean"
        THEN FoldLeft(LAMBDA s, y : s + y, 0,
                      SubSeq(x, (b - 1) * group_size + 1, b * group_size))
             * (Unit \div group_size)
        ELSE x[(b - 1) * group_size + 1] * Unit]

RestoredSubGroup(x, group_size, scale_type, blocksize) ==
    LET scale == GroupScale(x, group_size, scale_type)
        residual == [i \in DOMAIN x |-> x[i] * Unit - scale[BlockOf(i, group_size)]]
        stored == QuantizeBlocks(residual, blocksize)
        q_scale == QuantizeBlocks(scale, Len(scale))
    IN [i \in DOMAIN x |->
          DequantizeBlocks(stored, blocksize)[i]
          + DequantizeBlocks(q_scale, Len(scale))[BlockOf(i, group_size)]]

----------------------------------------------------------------------------
(* The four-group kernels.  In 1 / Unit of a block's largest magnitude,    *)
(* get_thr_n cuts it at 264, 468 and 692, and half of a group's range is   *)
(* its scale; a nibble is [sign, group, quant].                            *)

GroupStart(g) == <<0, 264, 468, 692>>[g + 1]

GroupWidth(g) == <<132, 102, 112, 166>>[g + 1]

GroupOfValue(a, absmax) ==
    Max({g \in 0 .. 3 : g = 0 \/ a * Unit > GroupStart(g) * absmax})

(* quant is cut to one bit.  In a block of zeros it is 0 / 0 converted to  *)
(* int8, which is undefined: `nan` is what the build makes of it.          *)
Nibble(x, absmax, nan) ==
    LET g == GroupOfValue(Abs(x), absmax)
        quant == IF absmax = 0 THEN nan
                 ELSE (Abs(x) * Unit - GroupStart(g) * absmax) \div (GroupWidth(g) * absmax)
    IN [sign |-> x < 0, group |-> g, quant |-> IF quant > 1 THEN 1 ELSE quant]

(* lo << 4 | hi in a byte: a negative quant sets, of hi, the top bit of    *)
(* the byte, where the sign of lo is.                                      *)
Packed(lo, hi) ==
    [lo |-> [lo EXCEPT !.sign = @ \/ hi.quant < 0, !.quant = @ % 2],
     hi |-> [hi EXCEPT !.quant = @ % 2]]

(* Program p packs KernelWidth elements, each of its first half with the   *)
(* one half a width later.                                                 *)
Half == KernelWidth \div 2

FourGroupQuantize(x, block_size, nan) ==
    LET absmax == BlockMax(x, block_size)
        Code4(i) == Nibble(x[i], absmax[BlockOf(i, block_size)], nan)
    IN [absmax |-> absmax,
        output |-> [k \in 0 .. (Len(x) + 1) \div 2 - 1 |->
            LET i == (k \div Half) * KernelWidth + (k % Half) + 1
            IN Packed(Code4(i), Code4(i + Half))]]

Magnitude4(nibble, absmax) ==
    (GroupStart(nibble.group) + nibble.quant * GroupWidth(nibble.group)
        + GroupWidth(nibble.group) \div 2) * absmax

(* Element i is in the byte of its program, high bits first.               *)
UnpackNibble(output, i) ==
    LET place == (i - 1) % KernelWidth
        byte == output[((i - 1) \div KernelWidth) * Half + (place % Half)]
    IN IF place < Half THEN byte.lo ELSE byte.hi

(* The two halves are taken from the wrong ends of the byte.               *)
MutFourGroupDequantize(q, n, block_size) ==
    [i \in 1 .. n |->
        LET nibble == UnpackNibble(q.output, IF (i - 1) % KernelWidth < Half
                                             THEN i + Half ELSE i - Half)
            magnitude == Magnitude4(nibble, q.absmax[BlockOf(i, block_size)])
        IN IF nibble.sign THEN -magnitude ELSE magnitude]

FourGroupDequantize(q, n, block_size) ==
    [i \in 1 .. n |->
        LET nibble == UnpackNibble(q.output, i)
            magnitude == Magnitude4(nibble, q.absmax[BlockOf(i, block_size)])
        IN IF nibble.sign THEN -magnitude ELSE magnitude]

----------------------------------------------------------------------------
(* activation_quantize and activation_dequantize: the type asked for, the  *)
(* one used (which is returned with the tensors) and the way back.         *)
(* c = [idx, row, column, mean, cut, shift, blocksize, group_size,         *)
(* scale_type, nan]: the layer's number, whether the module's name is that *)
(* of RowParallelLinear-LN_ACT_RE or of a ColumnParallelLinear, and the    *)
(* parameters of the types.                                                *)

PerLayers == 8

UsedType(quan_type, c) ==
    CASE quan_type = "nf45816" ->
            (CASE c.idx <= PerLayers -> "nf4"
               [] c.idx \in PerLayers + 1 .. 2 * PerLayers -> "nf5"
               [] c.idx \in 2 * PerLayers + 1 .. 3 * PerLayers -> "nf8"
               [] OTHER -> "fp16")
      [] quan_type = "sub_group" /\ ~ (c.row \/ (c.column /\ c.idx \in 1 .. 16)) -> "nf4"
      [] OTHER -> quan_type

Blockwise == {"nf4", "fp4", "fp3", "fp2", "nf5", "nf8", "bnb-8bit"}

WayOf(used) == CASE used = "split" -> "gather"
                 [] used = "split_double_scale" -> "fill"
                 [] used \in {"split_dev", "split_dev_in", "split_dev_e"} -> "outer"

Splits == {"split", "split_double_scale", "split_dev", "split_dev_in", "split_dev_e"}

QuanTypes == Blockwise \cup Splits \cup {"nf45816", "sub_group", "4group", "fp16"}

InputAccepted(quan_type, x, c) ==
    /\ UsedType(quan_type, c) = "sub_group" => SubGroupAccepted(Len(x), c.group_size)
    /\ UsedType(quan_type, c) = "4group" => Len(x) % c.blocksize = 0

Restored(quan_type, x, c) ==
    LET used == UsedType(quan_type, c)
    IN CASE used \in Blockwise ->
              DequantizeBlocks(QuantizeBlocks(Scaled(x), c.blocksize), c.blocksize)
         [] used \in Splits ->
              RestoredSplit(x, WayOf(used), c.mean, c.cut, c.shift, c.blocksize,
                            used = "split_dev_e")
         [] used = "sub_group" ->
              RestoredSubGroup(x, c.group_size, c.scale_type, c.blocksize)
         [] used = "4group" ->
              FourGroupDequantize(FourGroupQuantize(x, c.blocksize, c.nan),
                                  Len(x), c.blocksize)
         [] OTHER -> Scaled(x)

----------------------------------------------------------------------------
(* What a restored activation may be.                                      *)

(* Half of the widest gap between levels, for a largest magnitude m.       *)
CodeError(m) ==
    LET gap(l) == Min({k - l : k \in {h \in Code : h > l}})
        widest == Max({gap(l) : l \in Code \ {CodeMax}})
    IN (widest * m) \div (2 * CodeMax)

(* A positive outlier that comes back on the other side of the mean: moved *)
(* towards it, it rounded to zero, and zero moves back to the left.        *)
Flipped(v, y, c, m) ==
    v > c.cut /\ y = -c.shift /\ v - c.shift <= CodeError(m)

IsFaithful(quan_type, x, c) ==
    LET used == UsedType(quan_type, c)
        y == Restored(quan_type, x, c)
        v == Scaled(x)
        m == AbsMax(v)
        centred == [i \in DOMAIN x |-> v[i] - c.mean * Unit]
        spread == AbsMax(centred)
        Error(i) == Abs(y[i] - v[i])
    IN \A i \in DOMAIN x :
          CASE used = "fp16" -> y[i] = v[i]
            [] used \in Blockwise -> Error(i) <= CodeError(m)
            [] used = "sub_group" -> Error(i) <= CodeError(2 * m) + CodeError(m)
            [] used = "4group" ->
                  /\ Error(i) <= (GroupWidth(3) \div 2) * AbsMax(x)
                  /\ x[i] # 0 => (y[i] < 0 <=> x[i] < 0)
            [] used = "split_dev_e" /\ Abs(centred[i]) <= c.cut -> y[i] = c.mean * Unit
            [] OTHER ->
                  \/ Error(i) <= CodeError(spread)
                  \/ Flipped(centred[i], y[i] - c.mean * Unit, c, spread)
=============================================================================
