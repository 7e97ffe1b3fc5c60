------------------------------- MODULE Packer -------------------------------
(***************************************************************************)
(* The packer of crates/ioengine/src/packer.rs: pack_files groups files    *)
(* into blocks and splits large ones, unpack_entries takes a block apart,  *)
(* and Restored is what AsyncWriter makes of the entries of many blocks.   *)
(*                                                                         *)
(* The unit of data is the cell.  A serialised block is one cell for its   *)
(* header, one for each manifest entry and one for each byte of payload; a *)
(* byte of a file knows its file and its position.                         *)
(***************************************************************************)
EXTENDS Integers, Sequences, SequencesExt

CONSTANT BLOCK_SIZE    \* bytes of payload in a block (16 MB in the code)

ASSUME PackerAssumption == BLOCK_SIZE \in Nat \ {0}

HeadCell(id, n) == [kind |-> "head", block_id |-> id, entry_count |-> n]
FileEntry(path, offset, size, part_index, total_parts) ==
    [kind |-> "entry", path |-> path, offset |-> offset, size |-> size,
     part_index |-> part_index, total_parts |-> total_parts]
Byte(path, i) == [kind |-> "byte", path |-> path, at |-> i]

\* What a block is made of.
Cell == [kind : {"head"}, block_id : Nat, entry_count : Nat]
          \cup [kind : {"entry"}, path : Nat, offset : Nat, size : Nat,
                part_index : Nat, total_parts : Nat]
          \cup [kind : {"byte"}, path : Nat, at : Nat]

\* A file with its bytes, as the reader hands it to the packer.
File(path, len) == [path |-> path, bytes |-> [i \in 1 .. len |-> Byte(path, i)]]

\* A path is kept as it is, which to_string_lossy does for names in UTF-8.
serialise(block_id, entries, payload) ==
    << HeadCell(block_id, Len(entries)) >> \o entries \o payload

-----------------------------------------------------------------------------
(* Packing.  The accumulator holds the finished blocks and the entries and *)
(* the payload of the block in progress; block ids count the blocks.       *)

flush(acc) ==
    IF acc.entries = << >>
    THEN acc
    ELSE [blocks  |-> Append(acc.blocks, serialise(Len(acc.blocks), acc.entries, acc.payload)),
          entries |-> << >>,
          payload |-> << >>]

div_ceil(n) == (n + BLOCK_SIZE - 1) \div BLOCK_SIZE

\* chunks(BLOCK_SIZE): the k-th chunk of a file, from 1.
chunk(bytes, k) == SubSeq(bytes, (k - 1) * BLOCK_SIZE + 1, Min({k * BLOCK_SIZE, Len(bytes)}))

\* A large file: what has accumulated is flushed, then each chunk is a block.
split_file(acc, file) ==
    LET flushed     == flush(acc)
        first       == Len(flushed.blocks)
        total_parts == div_ceil(Len(file.bytes))
        entry(k)    == FileEntry(file.path, 0, Len(chunk(file.bytes, k)), k - 1, total_parts)
        part(k)     == serialise(first + k - 1, << entry(k) >>, chunk(file.bytes, k))
    IN  [flushed EXCEPT !.blocks = @ \o [k \in 1 .. total_parts |-> part(k)]]

\* Faulty variant: the entry's offset is taken before the block is flushed.
add_file_stale_offset(acc, file) ==
    LET full  == Len(acc.payload) + Len(file.bytes) > BLOCK_SIZE
        room  == IF full THEN flush(acc) ELSE acc
        entry == FileEntry(file.path, Len(acc.payload), Len(file.bytes), 0, 1)
    IN  [room EXCEPT !.entries = Append(@, entry),
                     !.payload = @ \o file.bytes]

\* Any other file goes into the block in progress, or the next if it is full.
add_file(acc, file) ==
    LET full  == Len(acc.payload) + Len(file.bytes) > BLOCK_SIZE
        room  == IF full THEN flush(acc) ELSE acc
        entry == FileEntry(file.path, Len(room.payload), Len(file.bytes), 0, 1)
    IN  [room EXCEPT !.entries = Append(@, entry),
                     !.payload = @ \o file.bytes]

pack_file(acc, file) ==
    IF Len(file.bytes) > BLOCK_SIZE THEN split_file(acc, file) ELSE add_file(acc, file)

new_acc == [blocks |-> << >>, entries |-> << >>, payload |-> << >>]

\* The loop over the files, and the last flush.
pack_files(files) ==
    LET packed[n \in 0 .. Len(files)] ==
            IF n = 0 THEN new_acc ELSE pack_file(packed[n - 1], files[n])
    IN  flush(packed[Len(files)]).blocks

-----------------------------------------------------------------------------
(* Unpacking.  None is the empty set, Some(x) the set {x}.                 *)

\* A block that does not start with the magic number, ends within its manifest
\* or has an entry that reaches beyond its end is refused.  What follows the
\* header is read as entries whatever it is; bytes of something else yield
\* lengths that reach beyond the end.
unpack_entries(block) ==
    IF block = << >> \/ block[1].kind # "head"
    THEN {}
    ELSE LET n        == block[1].entry_count
             manifest == SubSeq(block, 2, n + 1)
             start(e) == 1 + n + e.offset
             data(e)  == SubSeq(block, start(e) + 1, start(e) + e.size)
         IN  IF /\ Len(block) >= n + 1
                /\ \A i \in 1 .. n : manifest[i].kind = "entry"
                /\ \A i \in 1 .. n : start(manifest[i]) + manifest[i].size <= Len(block)
             THEN {[i \in 1 .. n |-> [entry |-> manifest[i], data |-> data(manifest[i])]]}
             ELSE {}

\* Every entry of a sequence of blocks, in order.
Unpacked(blocks) ==
    FlattenSeq([b \in 1 .. Len(blocks) |->
        LET r == unpack_entries(blocks[b]) IN IF r = {} THEN << >> ELSE CHOOSE x \in r : TRUE])

\* receive_and_write: a file is written as soon as all its parts have come, put
\* together in the order of their indices; a part that comes again replaces
\* the earlier one.
Restored(blocks) ==
    LET all   == Unpacked(blocks)
        parts(p) == {i \in 1 .. Len(all) : all[i].entry.path = p}
        total(p) == all[CHOOSE i \in parts(p) : TRUE].entry.total_parts
        last(p, k) == {i \in parts(p) : /\ all[i].entry.part_index = k
                                        /\ \A j \in parts(p) : all[j].entry.part_index = k => j <= i}
        paths == {all[i].entry.path : i \in 1 .. Len(all)}
        whole == {p \in paths : \A k \in 0 .. (total(p) - 1) : last(p, k) # {}}
    IN  [p \in whole |->
            FlattenSeq([k \in 1 .. total(p) |-> all[CHOOSE i \in last(p, k - 1) : TRUE].data])]

-----------------------------------------------------------------------------
(* The reference: what packing promises.                                   *)

\* The files themselves, by path.
AsWritten(files) == [p \in {files[i].path : i \in 1 .. Len(files)} |->
                        (CHOOSE f \in Range(files) : f.path = p).bytes]

\* Packing loses, repeats and mixes nothing: the blocks unpack to exactly the
\* files, every part of a file is in one block only and bears the file's number
\* of parts, no block is empty and none holds more than BLOCK_SIZE of payload.
Packs(files, blocks) ==
    LET all == Unpacked(blocks)
    IN  /\ blocks \in Seq(Seq(Cell))
        /\ Restored(blocks) = AsWritten(files)
        /\ \A b \in 1 .. Len(blocks) :
              /\ unpack_entries(blocks[b]) # {}
              /\ blocks[b][1].block_id = b - 1
              /\ blocks[b][1].entry_count > 0
              /\ Len(blocks[b]) - 1 - blocks[b][1].entry_count <= BLOCK_SIZE
        /\ \A i, j \in 1 .. Len(all) :
              all[i].entry.path = all[j].entry.path =>
                 /\ all[i].entry.total_parts = all[j].entry.total_parts
                 /\ i # j => all[i].entry.part_index # all[j].entry.part_index
=============================================================================
