--------------------------- MODULE IndexedDataset ---------------------------
(***************************************************************************)
(* The low-level dataset: indexed_dataset.py of core/datasets, with the    *)
(* buffered builder mindspeed_llm puts in its place.                       *)
(*                                                                         *)
(* A builder b = [file, buffer, lengths, documents] has the tokens in the  *)
(* .bin file and those BufferWriter holds back, the length of each         *)
(* sequence and the sequence at which each document ends.  A dataset       *)
(* d = [bin, lengths, pointers, documents] is the pair of files: sequences *)
(* are numbered from 0 and pointers count bytes.                           *)
(***************************************************************************)
EXTENDS Integers, Sequences, SequencesExt, FiniteSetsExt

CONSTANT BufferThreshold      \* BufferWriter.buffer_threshold

ItemSize == 4                 \* numpy.int32

NewBuilder == [file |-> << >>, buffer |-> << >>, lengths |-> << >>, documents |-> <<0>>]

(* add_item of a tensor writes at once, of a list through the buffer.      *)
AddTensor(b, tokens) ==
    [b EXCEPT !.file = @ \o tokens, !.lengths = Append(@, Len(tokens))]

AddList(b, tokens) ==
    LET buffer == b.buffer \o tokens
        full == Len(buffer) >= BufferThreshold
    IN [b EXCEPT !.file = IF full THEN @ \o buffer ELSE @,
                 !.buffer = IF full THEN << >> ELSE buffer,
                 !.lengths = Append(@, Len(tokens))]

EndDocument(b) == [b EXCEPT !.documents = Append(@, Len(b.lengths))]

(* Sequences of another dataset keep their documents, further on.         *)
AddIndex(b, d) ==
    [b EXCEPT !.file = @ \o d.bin,
              !.lengths = @ \o d.lengths,
              !.documents = @ \o [n \in 1 .. Len(d.documents) - 1 |->
                                      Len(b.lengths) + d.documents[n + 1]]]

SumTo(lengths, n) == FoldLeft(LAMBDA x, y : x + y, 0, SubSeq(lengths, 1, n))

SequencePointers(lengths) ==
    [n \in DOMAIN lengths |-> ItemSize * SumTo(lengths, n - 1)]

(* The wrapped finalize writes what is left in the buffer first.           *)
Finalize(b) ==
    [bin |-> b.file \o b.buffer, lengths |-> b.lengths,
     pointers |-> SequencePointers(b.lengths), documents |-> b.documents]

(* The assertions of _IndexReader.                                         *)
Readable(d) == Len(d.lengths) = Last(d.documents)

(* get(idx, offset, length), and get(idx, offset) to the end.  Nothing is  *)
(* read past the end of the file.                                          *)
Get(d, idx, offset, length) ==
    LET from == (d.pointers[idx + 1] + offset * ItemSize) \div ItemSize
    IN SubSeq(d.bin, from + 1, Min({from + length, Len(d.bin)}))

GetFrom(d, idx, offset) == Get(d, idx, offset, d.lengths[idx + 1] - offset)

(* The sequences of a document.                                            *)
DocumentOf(d, n) ==
    [i \in 1 .. d.documents[n + 1] - d.documents[n] |-> d.documents[n] + i - 1]
=============================================================================
