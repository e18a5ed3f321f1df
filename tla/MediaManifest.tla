--------------------------- MODULE MediaManifest ---------------------------
(***************************************************************************)
(* How media is cut into chunks: buildMediaManifest (src/storage.js).      *)
(***************************************************************************)
EXTENDS Integers

MinOf(m, n) == IF m < n THEN m ELSE n

\* Mutant: one chunk more than whole chunks.
ChunksOneMore(size, chunkSize) == size \div chunkSize + 1

\* Math.ceil(sizeBytes / chunkSizeBytes)
chunkCount(size, chunkSize) == (size + chunkSize - 1) \div chunkSize

\* Chunks are numbered from 0.
Chunk(size, chunkSize, index) ==
    [offset |-> index * chunkSize,
     sizeBytes |-> MinOf(chunkSize, size - index * chunkSize)]

buildMediaManifest(size, chunkSize) ==
    [index \in 0 .. chunkCount(size, chunkSize) - 1 |-> Chunk(size, chunkSize, index)]

\* Every byte is in exactly one chunk, and no chunk is empty, too large or
\* reaches past the end.
Tiles(size, chunkSize) ==
    LET chunks == buildMediaManifest(size, chunkSize)
        Holds(c, byte) == c.offset <= byte /\ byte < c.offset + c.sizeBytes
    IN /\ \A n \in DOMAIN chunks :
              /\ chunks[n].sizeBytes \in 1..chunkSize
              /\ chunks[n].offset + chunks[n].sizeBytes <= size
       /\ \A byte \in 0 .. size - 1 :
              \E n \in DOMAIN chunks :
                  /\ Holds(chunks[n], byte)
                  /\ \A m \in DOMAIN chunks : Holds(chunks[m], byte) => m = n
=============================================================================
