------------------------------ MODULE Chunking ------------------------------
(***************************************************************************)
(* How a file becomes chunks and chunks a file again.  The backend cuts    *)
(* the data into rows with its UPLOAD_CHUNK_SIZE_BYTES (main.py), the      *)
(* upload worker cuts it into objects with its own (chunk_storage.py), and *)
(* a download joins, in the order of the rows, the objects they name.  The *)
(* two settings are read by different services and may differ.             *)
(*                                                                         *)
(* The worker has the bytes and calls store_bytes.  store_file, for who    *)
(* has a file instead, reads it by store_stream; nothing calls it yet.     *)
(*                                                                         *)
(* Objects are written once here and all there; what happens on the        *)
(* endpoints is in RudyDrive, StorageRepair and Download.                  *)
(***************************************************************************)
EXTENDS Integers, Sequences

CONSTANTS Bytes,        \* the values of a byte
          MaxLength,    \* bound on the length of the data
          Sizes         \* the chunk sizes the services may be configured with

ASSUME SizesAssumption == Sizes \subseteq Nat \ {0}
ASSUME MaxLengthAssumption == MaxLength \in Nat

VARIABLES data,         \* raw_data, what the client sent
          rowSize,      \* the backend's UPLOAD_CHUNK_SIZE_BYTES
          chunkSize,    \* the worker's
          stream,       \* the data comes as a file, for store_stream
          position,     \* stream.tell()
          phase,        \* "storing", "locating", "streaming", "whole" or "refused"
          stored,       \* the objects chunk_0, chunk_1, ... as they are written
          next,         \* the row to stream next, from 1
          received      \* what the client has got

settings == <<data, rowSize, chunkSize, stream>>
chunkingVars == <<settings, position, phase, stored, next, received>>

Least(a, b) == IF a <= b THEN a ELSE b

\* len(range(0, length, size))
Count(length, size) == (length + size - 1) \div size

\* raw_data[start : start + size], clipped at the end of the data as Python does.
Slice(d, start, size) == SubSeq(d, start + 1, Least(start + size, Len(d)))

\* The loop of store_bytes and of _build_file_chunks: the k-th chunk, from 1.
Split(d, size) == [k \in 1..Count(Len(d), size) |-> Slice(d, (k - 1) * size, size)]

\* Mutant: the last, partial chunk gets no row.
RowsRoundedDown == [k \in 1..Len(data) \div rowSize |-> rowSize]

\* The rows of the file: size_bytes of each, in the order of chunk_index.
Rows == [k \in 1..Count(Len(data), rowSize) |-> Len(Split(data, rowSize)[k])]

ChunkingTypeOK ==
    /\ data \in Seq(Bytes)
    /\ rowSize \in Sizes
    /\ chunkSize \in Sizes
    /\ stream \in BOOLEAN
    /\ position \in Nat
    /\ phase \in {"storing", "locating", "streaming", "whole", "refused"}
    /\ stored \in Seq(Seq(Bytes))
    /\ next \in Nat \ {0}
    /\ received \in Seq(Bytes)

ChunkingInit ==
        /\ data \in UNION {[1..n -> Bytes] : n \in 0..MaxLength}
        /\ rowSize \in Sizes
        /\ chunkSize \in Sizes
        /\ stream \in BOOLEAN
        /\ position = 0
        /\ phase = "storing"
        /\ stored = <<>>
        /\ next = 1
        /\ received = <<>>

-----------------------------------------------------------------------------

\* One turn of the loop of store_bytes, over range(0, len(data), size).
StoreSlice ==
    /\ phase = "storing"
    /\ ~stream
    /\ IF Len(stored) < Count(Len(data), chunkSize)
       THEN stored' = Append(stored, Slice(data, Len(stored) * chunkSize, chunkSize)) /\ UNCHANGED phase
       ELSE phase' = "locating" /\ UNCHANGED stored
    /\ UNCHANGED <<settings, position, next, received>>

\* stream.read(size); empty at the end.
Chunk == Slice(data, position, chunkSize)

\* Mutant: a short read is taken for the end of the stream.
StoreFullRead == /\ phase = "storing"
                 /\ stream
                 /\ IF Len(Chunk) = chunkSize
                    THEN stored' = Append(stored, Chunk) /\ UNCHANGED phase
                    ELSE phase' = "locating" /\ UNCHANGED stored
                 /\ position' = position + Len(Chunk)
                 /\ UNCHANGED <<settings, next, received>>

\* One turn of the loop of store_stream, until a read comes back empty.
StoreRead == /\ phase = "storing"
             /\ stream
             /\ IF Len(Chunk) > 0
                THEN stored' = Append(stored, Chunk) /\ UNCHANGED phase
                ELSE phase' = "locating" /\ UNCHANGED stored
             /\ position' = position + Len(Chunk)
             /\ UNCHANGED <<settings, next, received>>

\* download_file looks for the object of every row before it answers: without rows,
\* or with a row whose object does not exist, it answers 404.
Locate == /\ phase = "locating"
          /\ phase' = IF Len(Rows) = 0 \/ Len(Rows) > Len(stored) THEN "refused"
                                                                  ELSE "streaming"
          /\ UNCHANGED <<settings, position, stored, next, received>>

\* Mutants: a chunk is appended as one element; the rows come in the opposite order.
StreamNested == /\ phase = "streaming"
                /\ next <= Len(Rows)
                /\ received' = Append(received, stored[next])
                /\ next' = next + 1
                /\ UNCHANGED <<settings, position, phase, stored>>
StreamBackwards == /\ phase = "streaming"
                   /\ next <= Len(Rows)
                   /\ received' = received \o stored[Len(Rows) + 1 - next]
                   /\ next' = next + 1
                   /\ UNCHANGED <<settings, position, phase, stored>>

\* stream_file sends the object of the next row, all of it.
StreamChunk == /\ phase = "streaming"
               /\ next <= Len(Rows)
               /\ received' = received \o stored[next]
               /\ next' = next + 1
               /\ UNCHANGED <<settings, position, phase, stored>>

StreamEnds == /\ phase = "streaming"
              /\ next > Len(Rows)
              /\ phase' = "whole"
              /\ UNCHANGED <<settings, position, stored, next, received>>

ChunkingNext == StoreSlice \/ StoreRead \/ Locate \/ StreamChunk \/ StreamEnds

ChunkingSpec == ChunkingInit /\ [][ChunkingNext]_chunkingVars

-----------------------------------------------------------------------------
(* Safety. *)

\* A file that is read until a read comes back empty is stored as the chunks that the
\* slices of its bytes make, and as the backend cuts its rows: the end of the data is
\* found in two ways, with and without a rest.
StreamsAsBytes == phase # "storing" => stored = Split(data, chunkSize)

\* However the two services are configured, what a client has received is the
\* beginning of the file: no byte twice, none left out, none out of place.
ReceivedIsPrefix == received = SubSeq(data, 1, Len(received))

\* A download that ends well lacks the end of the file only if the backend's chunks
\* are larger than the worker's (it then has too few rows, and the client cannot
\* tell), and is refused only for an empty file or if they are smaller.
OnlyConfigurationTruncates ==
    /\ phase = "whole" /\ received # data => rowSize > chunkSize
    /\ phase = "refused" => data = <<>> \/ rowSize < chunkSize
=============================================================================
