--------------------------- MODULE DownloadProofs ---------------------------
(***************************************************************************)
(* Theorems about Chunking, for every content and length of the data and   *)
(* every pair of chunk sizes, and about Download, for any number of        *)
(* chunks, endpoints, changes and failed calls: what the three readers may *)
(* conclude from having asked the endpoints one after the other while      *)
(* copies come and go.  The last theorem puts the two together.            *)
(***************************************************************************)
EXTENDS Download, Chunking, SequenceTheorems, TLAPS

-----------------------------------------------------------------------------
(* How the file is cut and joined: Chunking.  Arithmetic of chunk boundaries. *)

LEMMA Division ==
  ASSUME NEW a \in Nat, NEW s \in Nat \ {0}
  PROVE  /\ a \div s \in Nat
         /\ (a \div s) * s <= a
         /\ a < (a \div s) * s + s
  BY SMT

\* The number of chunks is the length divided by the size, rounded up.
LEMMA CountBounds ==
  ASSUME NEW n \in Nat, NEW s \in Nat \ {0}
  PROVE  /\ Count(n, s) \in Nat
         /\ n <= Count(n, s) * s
         /\ Count(n, s) * s < n + s
  BY Division DEF Count

LEMMA NextMultiple ==
  ASSUME NEW k \in Nat, NEW l \in Nat, NEW s \in Nat, k < l
  PROVE  k * s + s <= l * s
  BY SMT

LEMMA Monotone ==
  ASSUME NEW k \in Nat, NEW l \in Nat, NEW s \in Nat, k <= l
  PROVE  k * s <= l * s /\ s * k <= s * l /\ k * s \in Nat
  BY SMT

\* Chunk k (from 0) exists exactly if it begins before the end of the data.
LEMMA CountCharacterised ==
  ASSUME NEW n \in Nat, NEW s \in Nat \ {0}, NEW k \in Nat
  PROVE  k < Count(n, s) <=> k * s < n
<1> DEFINE c == Count(n, s)
<1>1. c \in Nat /\ n <= c * s /\ c * s < n + s
  BY CountBounds
<1>2. ASSUME k < c PROVE k * s < n
  <2>1. k * s + s <= c * s
    BY <1>1, <1>2, NextMultiple
  <2>2. k * s \in Nat /\ c * s \in Nat
    BY <1>1, Monotone
  <2> QED BY <1>1, <2>1, <2>2
<1>3. ASSUME ~(k < c) PROVE ~(k * s < n)
  <2>1. c * s <= k * s
    BY <1>1, <1>3, Monotone
  <2>2. k * s \in Nat /\ c * s \in Nat
    BY <1>1, Monotone
  <2> QED BY <1>1, <2>1, <2>2
<1> QED BY <1>2, <1>3

-----------------------------------------------------------------------------
(* Slices. *)

LEMMA SliceShape ==
  ASSUME NEW d \in Seq(Bytes), NEW a \in Nat, NEW s \in Nat
  PROVE  /\ Slice(d, a, s) \in Seq(Bytes)
         /\ a <= Len(d) => Len(Slice(d, a, s)) = Least(a + s, Len(d)) - a
         /\ a >= Len(d) => Len(Slice(d, a, s)) = 0
<1>1. Len(d) \in Nat /\ \A i \in 1..Len(d) : d[i] \in Bytes
  BY LenProperties, ElementOfSeq
<1>2. /\ a + 1 \in Int /\ Least(a + s, Len(d)) \in Int
      /\ Least(a + s, Len(d)) <= Len(d)
  BY <1>1 DEF Least
<1>3. \A i \in a + 1 .. Least(a + s, Len(d)) : d[i] \in Bytes
  BY <1>1, <1>2
<1>4. /\ Slice(d, a, s) \in Seq(Bytes)
      /\ Len(Slice(d, a, s)) = IF a + 1 <= Least(a + s, Len(d))
                               THEN Least(a + s, Len(d)) - (a + 1) + 1 ELSE 0
  BY <1>2, <1>3, SubSeqProperties DEF Slice
<1> QED BY <1>1, <1>4 DEF Least

\* A slice that begins where a prefix ends makes it longer by itself.
LEMMA SliceExtendsPrefix ==
  ASSUME NEW d \in Seq(Bytes), NEW a \in Nat, NEW s \in Nat, a <= Len(d)
  PROVE  SubSeq(d, 1, a) \o Slice(d, a, s) = SubSeq(d, 1, Least(a + s, Len(d)))
<1>1. Len(d) \in Nat
  BY LenProperties
<1>2. Least(a + s, Len(d)) \in a..Len(d)
  BY <1>1 DEF Least
<1>3. /\ 1 \in 1..Len(d) + 1
      /\ a \in 1 - 1..Len(d)
  BY <1>1
<1> QED BY <1>2, <1>3, ConcatAdjacentSubSeq DEF Slice

LEMMA PrefixLength ==
  ASSUME NEW d \in Seq(Bytes), NEW m \in 0..Len(d)
  PROVE  SubSeq(d, 1, m) \in Seq(Bytes) /\ Len(SubSeq(d, 1, m)) = m
<1>1. Len(d) \in Nat /\ \A i \in 1..m : d[i] \in Bytes
  BY LenProperties, ElementOfSeq
<1> QED BY <1>1, SubSeqProperties

-----------------------------------------------------------------------------
(* How far the loops of Chunking have come. *)

\* The chunks written so far are the first ones of Split.
StoredSoFar ==
    /\ Len(stored) <= Count(Len(data), chunkSize)
    /\ \A k \in 1..Len(stored) : stored[k] = Slice(data, (k - 1) * chunkSize, chunkSize)
    /\ phase # "storing" => Len(stored) = Count(Len(data), chunkSize)
    /\ stream /\ phase = "storing" => position = Least(Len(stored) * chunkSize, Len(data))

\* The rows streamed so far have sent that many chunks of the data.
StreamedSoFar ==
    /\ received = SubSeq(data, 1, Least((next - 1) * chunkSize, Len(data)))
    /\ phase \in {"storing", "locating", "refused"} => next = 1
    /\ phase \in {"streaming", "whole"} =>
           /\ Count(Len(data), rowSize) \in 1..Len(stored)
           /\ next <= Count(Len(data), rowSize) + 1
    /\ phase = "whole" => next = Count(Len(data), rowSize) + 1
    /\ phase = "refused" => \/ Count(Len(data), rowSize) = 0
                            \/ Count(Len(data), rowSize) > Len(stored)

CInv == ChunkingTypeOK /\ StoredSoFar /\ StreamedSoFar

LEMMA RowCount ==
  ASSUME ChunkingTypeOK
  PROVE  Len(Rows) = Count(Len(data), rowSize)
<1>1. Count(Len(data), rowSize) \in Nat
  BY CountBounds, SizesAssumption, LenProperties DEF ChunkingTypeOK
<1> QED BY <1>1 DEF Rows

\* The slice from the next multiple of the size on is there while there are chunks left.
LEMMA NextSlice ==
  ASSUME ChunkingTypeOK
  PROVE  LET begin == Len(stored) * chunkSize
             piece == Slice(data, begin, chunkSize)
         IN  /\ begin \in Nat
             /\ piece \in Seq(Bytes)
             /\ Len(stored) < Count(Len(data), chunkSize) =>
                    /\ begin < Len(data)
                    /\ Len(piece) > 0
                    /\ begin + Len(piece) = Least((Len(stored) + 1) * chunkSize, Len(data))
             /\ ~(Len(stored) < Count(Len(data), chunkSize)) => begin >= Len(data)
<1> DEFINE begin == Len(stored) * chunkSize
           piece == Slice(data, begin, chunkSize)
<1>1. /\ data \in Seq(Bytes) /\ Len(data) \in Nat /\ Len(stored) \in Nat
      /\ chunkSize \in Nat \ {0}
  BY SizesAssumption, LenProperties DEF ChunkingTypeOK
<1>2. begin \in Nat
  BY <1>1, Monotone
<1>3. /\ piece \in Seq(Bytes)
      /\ begin <= Len(data) => Len(piece) = Least(begin + chunkSize, Len(data)) - begin
  BY <1>1, <1>2, SliceShape
<1>4. (Len(stored) + 1) * chunkSize = begin + chunkSize
  BY <1>1
<1>5. Len(stored) < Count(Len(data), chunkSize) <=> begin < Len(data)
  BY <1>1, CountCharacterised
<1> HIDE DEF begin, piece
<1>6. begin < Len(data) => /\ Len(piece) > 0
                           /\ begin + Len(piece) = Least((Len(stored) + 1) * chunkSize, Len(data))
  BY <1>1, <1>2, <1>3, <1>4 DEF Least
<1>7. ~(begin < Len(data)) => begin >= Len(data)
  BY <1>1, <1>2
<1> QED BY <1>2, <1>3, <1>5, <1>6, <1>7 DEF begin, piece

\* What is read next is that slice, and nothing when all chunks have been read.
LEMMA ReadAtEnd ==
  ASSUME ChunkingTypeOK, StoredSoFar, stream, phase = "storing"
  PROVE  /\ Chunk \in Seq(Bytes)
         /\ Len(Chunk) \in Nat
         /\ Len(Chunk) > 0 <=> Len(stored) < Count(Len(data), chunkSize)
         /\ Len(Chunk) > 0 =>
                /\ Chunk = Slice(data, Len(stored) * chunkSize, chunkSize)
                /\ position + Len(Chunk) = Least((Len(stored) + 1) * chunkSize, Len(data))
<1> DEFINE begin == Len(stored) * chunkSize
<1>1. /\ data \in Seq(Bytes) /\ Len(data) \in Nat /\ chunkSize \in Nat \ {0} /\ position \in Nat
  BY SizesAssumption, LenProperties DEF ChunkingTypeOK
<1>2. Chunk \in Seq(Bytes) /\ Len(Chunk) \in Nat
  BY <1>1, SliceShape, LenProperties DEF Chunk
<1>3. position = Least(begin, Len(data)) /\ begin \in Nat
  BY NextSlice DEF StoredSoFar
<1>4. CASE Len(stored) < Count(Len(data), chunkSize)
  <2>1. begin < Len(data)
    BY <1>4, NextSlice
  <2>2. position = begin
    BY <1>1, <1>3, <2>1 DEF Least
  <2>3. Chunk = Slice(data, begin, chunkSize)
    BY <2>2 DEF Chunk
  <2> QED
    BY <1>2, <1>4, <2>2, <2>3, NextSlice
<1>5. CASE ~(Len(stored) < Count(Len(data), chunkSize))
  <2>1. begin >= Len(data)
    BY <1>5, NextSlice
  <2>2. position = Len(data)
    BY <1>1, <1>3, <2>1 DEF Least
  <2>3. Len(Chunk) = 0
    BY <1>1, <2>2, SliceShape DEF Chunk
  <2> QED
    BY <1>2, <1>5, <2>3
<1> QED BY <1>4, <1>5

LEMMA CInvInit == ChunkingInit => CInv
<1> SUFFICES ASSUME ChunkingInit PROVE CInv
  OBVIOUS
<1> USE DEF ChunkingInit
<1>1. data \in Seq(Bytes)
  BY SeqDef
<1>2. Len(data) \in Nat /\ chunkSize \in Nat \ {0} /\ rowSize \in Nat \ {0}
  BY <1>1, SizesAssumption, LenProperties
<1>3. ChunkingTypeOK
  BY <1>1, EmptySeq DEF ChunkingTypeOK
<1>4. StoredSoFar
  <2>1. Len(stored) = 0 /\ Len(stored) * chunkSize = 0
    BY <1>2, EmptySeq
  <2>2. position = Least(Len(stored) * chunkSize, Len(data))
    BY <1>2, <2>1 DEF Least
  <2> QED BY <1>2, <2>1, <2>2, CountBounds DEF StoredSoFar
<1>5. received = SubSeq(data, 1, Least((next - 1) * chunkSize, Len(data)))
  <2>1. Least((next - 1) * chunkSize, Len(data)) = 0
    BY <1>2 DEF Least
  <2> QED BY <2>1, SubSeqEmpty
<1> QED BY <1>3, <1>4, <1>5 DEF CInv, StreamedSoFar

\* Either loop puts the next slice, and ends when there is none.
LEMMA StepStore ==
  ASSUME CInv, StoreSlice \/ StoreRead
  PROVE  CInv'
<1> USE DEF CInv
<1> DEFINE piece == Slice(data, Len(stored) * chunkSize, chunkSize)
<1>0. /\ data' = data /\ rowSize' = rowSize /\ chunkSize' = chunkSize /\ stream' = stream
      /\ next' = next /\ received' = received /\ phase = "storing"
  BY DEF StoreSlice, StoreRead, settings
<1>1. /\ data \in Seq(Bytes) /\ Len(data) \in Nat /\ Len(stored) \in Nat
      /\ chunkSize \in Nat \ {0} /\ stored \in Seq(Seq(Bytes))
      /\ Count(Len(data), chunkSize) \in Nat /\ position \in Nat
  BY SizesAssumption, LenProperties, CountBounds DEF ChunkingTypeOK
<1>2. position' \in Nat
  <2>1. CASE StoreRead
    BY <1>1, <2>1, ReadAtEnd DEF StoreRead
  <2>2. CASE StoreSlice
    BY <1>1, <2>2 DEF StoreSlice
  <2> QED BY <2>1, <2>2
<1>3. CASE Len(stored) < Count(Len(data), chunkSize)
  <2>1. stored' = Append(stored, piece) /\ phase' = phase
    <3>1. CASE StoreRead
      BY <1>3, <3>1, ReadAtEnd DEF StoreRead
    <3>2. CASE StoreSlice
      BY <1>3, <3>2 DEF StoreSlice
    <3> QED BY <3>1, <3>2
  <2>2. piece \in Seq(Bytes)
    BY NextSlice
  <2> HIDE DEF piece
  <2>3. /\ stored' \in Seq(Seq(Bytes)) /\ Len(stored') = Len(stored) + 1
        /\ stored'[Len(stored) + 1] = piece
        /\ \A k \in 1..Len(stored) : stored'[k] = stored[k]
    BY <1>1, <2>1, <2>2
  <2>4. ChunkingTypeOK'
    BY <1>0, <1>2, <2>1, <2>3 DEF ChunkingTypeOK
  <2>5. StoredSoFar'
    <3>1. \A k \in 1..Len(stored') : stored'[k] = Slice(data, (k - 1) * chunkSize, chunkSize)
      <4> SUFFICES ASSUME NEW k \in 1..Len(stored')
                   PROVE  stored'[k] = Slice(data, (k - 1) * chunkSize, chunkSize)
        OBVIOUS
      <4>1. CASE k \in 1..Len(stored)
        <5>1. stored'[k] = stored[k]
          BY <2>3, <4>1
        <5> QED BY <4>1, <5>1 DEF StoredSoFar
      <4>2. CASE k = Len(stored) + 1
        <5>1. k - 1 = Len(stored)
          BY <1>1, <4>2
        <5> QED BY <2>3, <4>2, <5>1 DEF piece
      <4> QED BY <1>1, <2>3, <4>1, <4>2
    <3>2. stream => position' = Least((Len(stored) + 1) * chunkSize, Len(data))
      <4>1. stream => StoreRead
        BY DEF StoreSlice
      <4> QED BY <1>0, <1>3, <4>1, ReadAtEnd DEF StoreRead
    <3> QED BY <1>0, <1>1, <1>3, <2>1, <2>3, <3>1, <3>2 DEF StoredSoFar
  <2>6. StreamedSoFar'
    BY <1>0, <2>1 DEF StreamedSoFar
  <2> QED BY <2>4, <2>5, <2>6
<1>4. CASE ~(Len(stored) < Count(Len(data), chunkSize))
  <2>1. stored' = stored /\ phase' = "locating"
    <3>1. CASE StoreRead
      BY <1>4, <3>1, ReadAtEnd DEF StoreRead
    <3>2. CASE StoreSlice
      BY <1>4, <3>2 DEF StoreSlice
    <3> QED BY <3>1, <3>2
  <2>2. ChunkingTypeOK'
    BY <1>0, <1>2, <2>1 DEF ChunkingTypeOK
  <2>3. StoredSoFar'
    BY <1>0, <1>1, <1>4, <2>1 DEF StoredSoFar
  <2>4. StreamedSoFar'
    BY <1>0, <2>1 DEF StreamedSoFar
  <2> QED BY <2>2, <2>3, <2>4
<1> QED BY <1>3, <1>4

LEMMA StepLocate ==
  ASSUME CInv, Locate
  PROVE  CInv'
<1> USE DEF CInv
<1>0. /\ data' = data /\ rowSize' = rowSize /\ chunkSize' = chunkSize
      /\ stream' = stream /\ position' = position
      /\ next' = next /\ received' = received /\ stored' = stored /\ phase = "locating"
  BY DEF Locate, settings
<1>1. Len(Rows) = Count(Len(data), rowSize)
  BY RowCount
<1>2. phase' = IF Count(Len(data), rowSize) = 0 \/ Count(Len(data), rowSize) > Len(stored)
               THEN "refused" ELSE "streaming"
  BY <1>1 DEF Locate
<1>3. Count(Len(data), rowSize) \in Nat /\ Len(stored) \in Nat
  BY SizesAssumption, LenProperties, CountBounds DEF ChunkingTypeOK
<1>4. ChunkingTypeOK'
  BY <1>0, <1>2 DEF ChunkingTypeOK
<1>5. StoredSoFar'
  BY <1>0, <1>2 DEF StoredSoFar
<1>6. StreamedSoFar'
  BY <1>0, <1>2, <1>3 DEF StreamedSoFar
<1> QED BY <1>4, <1>5, <1>6

LEMMA StepStreamChunk ==
  ASSUME CInv, StreamChunk
  PROVE  CInv'
<1> USE DEF CInv
<1>0. /\ data' = data /\ rowSize' = rowSize /\ chunkSize' = chunkSize
      /\ stream' = stream /\ position' = position
      /\ next' = next + 1 /\ received' = received \o stored[next] /\ stored' = stored
      /\ phase = "streaming" /\ phase' = phase
  BY DEF StreamChunk, settings
<1>1. /\ data \in Seq(Bytes) /\ Len(data) \in Nat /\ Len(stored) \in Nat
      /\ chunkSize \in Nat \ {0} /\ stored \in Seq(Seq(Bytes)) /\ next \in Nat \ {0}
      /\ Count(Len(data), rowSize) \in Nat /\ Count(Len(data), chunkSize) \in Nat
  BY SizesAssumption, LenProperties, CountBounds DEF ChunkingTypeOK
<1>2. next <= Count(Len(data), rowSize) /\ next \in 1..Len(stored)
  BY <1>0, <1>1, RowCount DEF StreamChunk, StreamedSoFar
<1> DEFINE begin == (next - 1) * chunkSize
<1>3. begin \in Nat /\ begin < Len(data) /\ next * chunkSize = begin + chunkSize
  <2>1. next - 1 \in Nat /\ next - 1 < Count(Len(data), chunkSize)
    BY <1>0, <1>1, <1>2 DEF StoredSoFar
  <2>2. begin < Len(data)
    BY <1>1, <2>1, CountCharacterised
  <2>3. begin \in Nat
    BY <1>1, <2>1, Monotone
  <2>4. next * chunkSize = begin + chunkSize
    BY <1>1
  <2> QED BY <2>2, <2>3, <2>4
<1>4. received = SubSeq(data, 1, begin)
  <2>1. Least(begin, Len(data)) = begin
    BY <1>1, <1>3 DEF Least
  <2> QED BY <2>1 DEF StreamedSoFar
<1>5. stored[next] = Slice(data, begin, chunkSize)
  BY <1>2 DEF StoredSoFar
<1>6. received' = SubSeq(data, 1, Least(begin + chunkSize, Len(data)))
  <2>1. begin \in Nat /\ begin <= Len(data)
    BY <1>1, <1>3
  <2>2. SubSeq(data, 1, begin) \o Slice(data, begin, chunkSize)
          = SubSeq(data, 1, Least(begin + chunkSize, Len(data)))
    BY <1>1, <2>1, SliceExtendsPrefix
  <2> HIDE DEF begin
  <2> QED BY <1>0, <1>4, <1>5, <2>2
<1>7. (next' - 1) * chunkSize = begin + chunkSize
  BY <1>0, <1>1, <1>3
<1>8. received' = SubSeq(data', 1, Least((next' - 1) * chunkSize', Len(data')))
  BY <1>0, <1>6, <1>7
<1>9. ChunkingTypeOK'
  <2>1. stored[next] \in Seq(Bytes)
    BY <1>1, <1>2, ElementOfSeq
  <2>2. received' \in Seq(Bytes)
    BY <1>0, <2>1, ConcatProperties DEF ChunkingTypeOK
  <2> QED BY <1>0, <1>1, <2>2 DEF ChunkingTypeOK
<1>10. StoredSoFar'
  BY <1>0 DEF StoredSoFar
<1>11. StreamedSoFar'
  <2>1. next' <= Count(Len(data), rowSize) + 1
    BY <1>0, <1>1, <1>2
  <2>2. Count(Len(data), rowSize) \in 1..Len(stored)
    BY <1>0 DEF StreamedSoFar
  <2> QED BY <1>0, <1>8, <2>1, <2>2 DEF StreamedSoFar
<1> QED BY <1>9, <1>10, <1>11

LEMMA StepStreamEnds ==
  ASSUME CInv, StreamEnds
  PROVE  CInv'
<1> USE DEF CInv
<1>0. /\ data' = data /\ rowSize' = rowSize /\ chunkSize' = chunkSize
      /\ stream' = stream /\ position' = position
      /\ next' = next /\ received' = received /\ stored' = stored
      /\ phase = "streaming" /\ phase' = "whole"
  BY DEF StreamEnds, settings
<1>1. next \in Nat /\ Count(Len(data), rowSize) \in Nat
  BY SizesAssumption, LenProperties, CountBounds DEF ChunkingTypeOK
<1>2. next = Count(Len(data), rowSize) + 1
  BY <1>0, <1>1, RowCount DEF StreamEnds, StreamedSoFar
<1>3. ChunkingTypeOK'
  BY <1>0 DEF ChunkingTypeOK
<1>4. StoredSoFar'
  BY <1>0 DEF StoredSoFar
<1>5. StreamedSoFar'
  BY <1>0, <1>2 DEF StreamedSoFar
<1> QED BY <1>3, <1>4, <1>5

LEMMA CInvStep ==
  ASSUME CInv, [ChunkingNext]_chunkingVars
  PROVE  CInv'
<1>1. CASE UNCHANGED chunkingVars
  BY <1>1 DEF chunkingVars, settings, CInv, ChunkingTypeOK, StoredSoFar, StreamedSoFar
<1>2. CASE ChunkingNext
  BY <1>2, StepStore, StepLocate, StepStreamChunk, StepStreamEnds DEF ChunkingNext
<1> QED BY <1>1, <1>2

\* The loops of chunk_storage.py and of stream_file keep the invariant, for all data
\* and all chunk sizes.
THEOREM ChunkingInvariant == ChunkingSpec => []CInv
  BY CInvInit, CInvStep, PTL DEF ChunkingSpec

-----------------------------------------------------------------------------
(* What follows from it: the theorems about Chunking. *)

\* The values of the variables stay of their types.
THEOREM ChunkingTypes == ChunkingSpec => []ChunkingTypeOK
<1>1. CInv => ChunkingTypeOK
  BY DEF CInv
<1> QED BY <1>1, ChunkingInvariant, PTL

\* store_stream writes the chunks that store_bytes writes.
THEOREM StreamingStoresTheSame == ChunkingSpec => []StreamsAsBytes
<1>1. CInv => StreamsAsBytes
  <2> SUFFICES ASSUME CInv, phase # "storing" PROVE stored = Split(data, chunkSize)
    BY DEF StreamsAsBytes
  <2>1. stored \in Seq(Seq(Bytes)) /\ DOMAIN stored = 1..Len(stored)
    BY LenProperties DEF CInv, ChunkingTypeOK
  <2>2. DOMAIN stored = 1..Count(Len(data), chunkSize)
    BY <2>1 DEF CInv, StoredSoFar
  <2>3. \A k \in DOMAIN stored : stored[k] = Slice(data, (k - 1) * chunkSize, chunkSize)
    BY <2>1 DEF CInv, StoredSoFar
  <2>4. stored = [k \in DOMAIN stored |-> stored[k]]
    BY <2>1, LenProperties
  <2> QED BY <2>2, <2>3, <2>4, Zenon DEF Split
<1> QED BY <1>1, ChunkingInvariant, PTL

\* A download sends the file from its beginning, whatever the two sizes are.
THEOREM DownloadSendsAPrefix == ChunkingSpec => []ReceivedIsPrefix
<1>1. CInv => ReceivedIsPrefix
  <2> SUFFICES ASSUME CInv PROVE ReceivedIsPrefix
    OBVIOUS
  <2>1. /\ data \in Seq(Bytes) /\ Len(data) \in Nat /\ next - 1 \in Nat
        /\ chunkSize \in Nat \ {0}
    BY SizesAssumption, LenProperties DEF CInv, ChunkingTypeOK
  <2>2. (next - 1) * chunkSize \in Nat
    BY <2>1, Monotone
  <2>3. Least((next - 1) * chunkSize, Len(data)) \in 0..Len(data)
    BY <2>1, <2>2 DEF Least
  <2>4. Len(received) = Least((next - 1) * chunkSize, Len(data))
    BY <2>1, <2>3, PrefixLength DEF CInv, StreamedSoFar
  <2> QED BY <2>4 DEF ReceivedIsPrefix, CInv, StreamedSoFar
<1> QED BY <1>1, ChunkingInvariant, PTL

\* With equal sizes, and only by their order in general, the download is the file.
THEOREM ConfigurationAloneTruncates == ChunkingSpec => []OnlyConfigurationTruncates
<1>1. CInv => OnlyConfigurationTruncates
  <2> SUFFICES ASSUME CInv PROVE OnlyConfigurationTruncates
    OBVIOUS
  <2> DEFINE n == Len(data)
             r == Count(n, rowSize)
             c == Count(n, chunkSize)
  <2>1. /\ data \in Seq(Bytes) /\ n \in Nat /\ rowSize \in Nat \ {0}
        /\ chunkSize \in Nat \ {0} /\ next \in Nat
    BY SizesAssumption, LenProperties DEF CInv, ChunkingTypeOK
  <2>2. r \in Nat /\ c \in Nat /\ n <= r * rowSize /\ n <= c * chunkSize
    BY <2>1, CountBounds
  <2>3. ASSUME phase = "whole", ~(rowSize > chunkSize) PROVE received = data
    <3>1. next - 1 = r
      BY <2>1, <2>2, <2>3 DEF CInv, StreamedSoFar
    <3>2. r * rowSize <= r * chunkSize /\ r * rowSize \in Nat /\ r * chunkSize \in Nat
      BY <2>1, <2>2, <2>3, Monotone
    <3>3. Least((next - 1) * chunkSize, n) = n
      BY <2>1, <2>2, <3>1, <3>2 DEF Least
    <3>4. received = SubSeq(data, 1, n)
      BY <3>3 DEF CInv, StreamedSoFar
    <3> QED BY <2>1, <3>4, SubSeqFull
  <2>4. ASSUME phase = "refused", ~(rowSize < chunkSize) PROVE data = <<>>
    <3>1. r = 0 \/ r > c
      BY <2>4 DEF CInv, StreamedSoFar, StoredSoFar
    <3>2. CASE r = 0
      <4>1. n = 0
        BY <2>1, <2>2, <3>2
      <4> QED BY <2>1, <4>1, EmptySeq
    <3>3. CASE r > c
      <4>1. c * rowSize < n
        BY <2>1, <2>2, <3>3, CountCharacterised
      <4>2. c * chunkSize <= c * rowSize /\ c * chunkSize \in Nat /\ c * rowSize \in Nat
        BY <2>1, <2>2, <2>4, Monotone
      <4> QED BY <2>1, <2>2, <4>1, <4>2
    <3> QED BY <3>1, <3>2, <3>3
  <2> QED BY <2>3, <2>4 DEF OnlyConfigurationTruncates
<1> QED BY <1>1, ChunkingInvariant, PTL

-----------------------------------------------------------------------------
(* The inductive invariant of Download. *)

\* A copy that has been there ever since the request began is there now.
KeptIsHeld == \A p \in kept : Holds(p[1], File, p[2])

\* No endpoint asked for the present chunk so far has had it all the while.
Missed == \A e \in Endpoints : e < endpoint => <<e, chunk>> \notin kept

\* Both searches, apart from the endpoints that did not answer.
SearchInv == /\ failed => errors > 0
             /\ pc = "stat" /\ ~failed => Missed
             /\ pc = "recover" /\ errors = 0 => Missed

\* What has been sent is a beginning of the file.
InOrder == \A k \in 1..Len(sent) : sent[k] = k - 1

\* How far the choice of endpoints and the delivery have come.
DeliveryInv == /\ pc \in {"status", "rows"} => /\ chunk = 0 /\ endpoint = 1 /\ ~failed
                                               /\ chosen = <<>>
               /\ pc \in {"status", "rows", "stat"} => sent = <<>>
               /\ pc = "stat" => Len(chosen) = chunk
               /\ pc = "stream" => Len(chosen) = NumChunks
               /\ pc \in {"stream", "recover"} => Len(sent) = chunk
               /\ answer = "whole" => Len(sent) = NumChunks
               /\ InOrder

\* The report has gone past chunk p[2] of endpoint p[1].
Past(p) == p[1] < endpoint \/ (p[1] = endpoint /\ p[2] < chunk)

\* It lists what it has gone past, apart from the endpoints that are down.
Reported(p) == p[1] \in down \/ p \in listed

SurveyInv == pc = "survey" => \A p \in kept : Past(p) => Reported(p)

Results == MissingWasMoved /\ BrokenLostItsSource /\ ReportMissesOnlyMoved

DownloadInv == TypeOK /\ KeptIsHeld /\ SearchInv /\ DeliveryInv /\ SurveyInv /\ Results

-----------------------------------------------------------------------------
(* The store changes under the reader. *)

\* The first chunk and the first endpoint are there.
LEMMA Firsts == 0 \in Chunks /\ 1 \in Endpoints
BY NumChunksAssumption, NumEndpointsAssumption DEF Chunks, Endpoints

\* The next chunk, when there is one, and the next endpoint, when there is one.
LEMMA Nexts ==
    /\ \A c \in Chunks : c \in Nat /\ (c + 1 < NumChunks => c + 1 \in Chunks)
    /\ \A e \in Endpoints : e \in Nat /\ (e < NumEndpoints => e + 1 \in Endpoints)
BY NumChunksAssumption, NumEndpointsAssumption DEF Chunks, Endpoints

\* The initial states satisfy the invariant.
LEMMA InitDownloadInv == Init => DownloadInv
<1> SUFFICES ASSUME Init PROVE DownloadInv
  OBVIOUS
<1>a. 0 \in Chunks /\ 1 \in Endpoints /\ File \in StoredFiles /\ NumChunks \in Nat
  BY Firsts, FileAssumption, NumChunksAssumption
<1>1. TypeOK
  <2>1. StoreTypeOK
    BY <1>a DEF Init, StoreTypeOK, Chunks
  <2>2. changes \in 0..MaxChanges /\ errors \in 0..MaxErrors
    BY BoundsAssumption DEF Init
  <2>3. chosen \in Seq(Endpoints) /\ Len(chosen) <= NumChunks /\ sent \in Seq(Chunks)
    BY <1>a DEF Init
  <2> QED
    BY <1>a, <2>1, <2>2, <2>3 DEF Init, TypeOK, Answers
<1>2. KeptIsHeld
  BY DEF Init, KeptIsHeld
<1>3. SearchInv
  BY DEF Init, SearchInv, Missed, Endpoints
<1>4. DeliveryInv
  BY DEF Init, DeliveryInv, InOrder
<1>5. SurveyInv /\ Results
  BY DEF Init, SurveyInv, Results, MissingWasMoved, BrokenLostItsSource, ReportMissesOnlyMoved
<1> QED
  BY <1>1, <1>2, <1>3, <1>4, <1>5 DEF DownloadInv

\* Whatever the rest of the system does, what is kept only shrinks and is still held.
LEMMA EnvironmentKeeps ==
    ASSUME TypeOK, KeptIsHeld, Environment
    PROVE  /\ kept' \subseteq kept /\ KeptIsHeld'
           /\ StoreTypeOK'
           /\ status' \in {"ready", "failed", "deleting", "deleted"}
           /\ hasRows' \in BOOLEAN
           /\ changes' \in 0..MaxChanges
           /\ UNCHANGED readerVars
<1>a. changes' \in 0..MaxChanges
  <2>1. changes \in 0..MaxChanges /\ MaxChanges \in Nat /\ Changes
    BY BoundsAssumption DEF TypeOK, Environment, Leaves, Comes, StatusChanges
  <2> QED
    BY <2>1 DEF Changes
<1>1. ASSUME NEW e \in Endpoints, NEW c \in Chunks, Leaves(e, c)
      PROVE  kept' \subseteq kept /\ KeptIsHeld' /\ StoreTypeOK'
  <2>1. /\ objects' = [objects EXCEPT ![e] = @ \ {<<File, c>>}]
        /\ kept' = kept \ {<<e, c>>} /\ kept \subseteq Endpoints \X Chunks
        /\ objects \in [Endpoints -> SUBSET (StoredFiles \X Nat)]
    BY <1>1 DEF Leaves, TypeOK, StoreTypeOK
  <2>2. ASSUME NEW p \in kept' PROVE Holds(p[1], File, p[2])'
    <3>1. p \in kept /\ p = <<p[1], p[2]>> /\ p[1] \in Endpoints /\ p # <<e, c>>
      BY <2>1
    <3>2. <<File, p[2]>> \in objects[p[1]]
      BY <3>1 DEF KeptIsHeld, Holds
    <3>3. p[1] # e \/ p[2] # c
      BY <3>1
    <3>4. <<File, p[2]>> \in objects'[p[1]]
      BY <2>1, <3>1, <3>2, <3>3
    <3> QED
      BY <3>4 DEF Holds
  <2> QED
    BY <2>1, <2>2 DEF KeptIsHeld, StoreTypeOK
<1>2. ASSUME NEW e \in Endpoints, NEW c \in Chunks, Comes(e, c)
      PROVE  kept' \subseteq kept /\ KeptIsHeld' /\ StoreTypeOK'
  <2>1. /\ objects' = [objects EXCEPT ![e] = @ \union {<<File, c>>}]
        /\ kept' = kept /\ kept \subseteq Endpoints \X Chunks
        /\ objects \in [Endpoints -> SUBSET (StoredFiles \X Nat)]
        /\ <<File, c>> \in StoredFiles \X Nat
    BY <1>2, FileAssumption DEF Comes, Put, TypeOK, StoreTypeOK, Chunks
  <2> QED
    BY <2>1 DEF KeptIsHeld, StoreTypeOK, Holds
<1>3. ASSUME StatusChanges PROVE kept' \subseteq kept /\ KeptIsHeld' /\ StoreTypeOK'
  BY <1>3 DEF StatusChanges, KeptIsHeld, Holds, TypeOK, StoreTypeOK
<1>4. /\ status' \in {"ready", "failed", "deleting", "deleted"} /\ hasRows' \in BOOLEAN
      /\ UNCHANGED readerVars
  BY DEF Environment, Leaves, Comes, StatusChanges, TypeOK
<1> QED
  BY <1>a, <1>1, <1>2, <1>3, <1>4 DEF Environment

\* So nothing the reader has concluded is undone.
LEMMA StepEnvironment == DownloadInv /\ Environment => DownloadInv'
<1> SUFFICES ASSUME DownloadInv, Environment PROVE DownloadInv'
  OBVIOUS
<1>1. /\ kept' \subseteq kept /\ KeptIsHeld' /\ StoreTypeOK'
      /\ status' \in {"ready", "failed", "deleting", "deleted"} /\ hasRows' \in BOOLEAN
      /\ changes' \in 0..MaxChanges
      /\ UNCHANGED readerVars
  BY EnvironmentKeeps DEF DownloadInv
<1>2. TypeOK'
  BY <1>1 DEF DownloadInv, TypeOK, readerVars, reportVars
<1>3. SearchInv'
  BY <1>1 DEF DownloadInv, SearchInv, Missed, readerVars
<1>4. DeliveryInv'
  BY <1>1 DEF DownloadInv, DeliveryInv, InOrder, readerVars
<1>5. SurveyInv'
  BY <1>1 DEF DownloadInv, SurveyInv, Past, Reported, readerVars, reportVars
<1>6. Results'
  BY <1>1 DEF DownloadInv, Results, MissingWasMoved, Kept, BrokenLostItsSource,
              ReportMissesOnlyMoved, readerVars, reportVars
<1> QED
  BY <1>1, <1>2, <1>3, <1>4, <1>5, <1>6 DEF DownloadInv

-----------------------------------------------------------------------------
(* The download through the API. *)

\* No file that is not ready, and none without rows, is looked for.
LEMMA StepBegins == DownloadInv /\ (CheckStatus \/ ReadRows) => DownloadInv'
<1> SUFFICES ASSUME DownloadInv, CheckStatus \/ ReadRows PROVE DownloadInv'
  OBVIOUS
<1>1. /\ UNCHANGED <<objects, status, hasRows, changes, kept, reader, listed, down, errors>>
      /\ UNCHANGED <<chunk, endpoint, failed, chosen, sent>>
      /\ pc \in {"status", "rows"}
      /\ \/ pc' \in {"rows", "stat", "survey"} /\ answer' = answer
         \/ pc' = "done" /\ answer' \in {"not ready", "no rows"}
  BY DEF CheckStatus, ReadRows, storeVars, reportVars, Answer
<1>2. /\ chunk = 0 /\ endpoint = 1 /\ ~failed /\ chosen = <<>> /\ sent = <<>>
      /\ \A p \in kept : p[1] \in Endpoints /\ p[2] \in Chunks
  BY <1>1 DEF DownloadInv, DeliveryInv, TypeOK
<1>3. TypeOK'
  BY <1>1 DEF DownloadInv, TypeOK, StoreTypeOK, Answers
<1>4. KeptIsHeld' /\ SearchInv'
  <2>1. Missed'
    <3>1. \A e \in Endpoints : ~(e < 1)
      BY DEF Endpoints
    <3>2. endpoint' = 1
      BY <1>1, <1>2
    <3> QED
      BY <3>1, <3>2 DEF Missed
  <2>2. ~failed'
    BY <1>1, <1>2
  <2> QED
    BY <1>1, <2>1, <2>2 DEF DownloadInv, KeptIsHeld, Holds, SearchInv
<1>5. DeliveryInv'
  BY <1>1, <1>2 DEF DownloadInv, DeliveryInv, InOrder
<1>6. SurveyInv'
  <2>1. \A p \in kept : ~Past(p)
    BY <1>2 DEF Past, Endpoints, Chunks
  <2> QED
    BY <1>1, <2>1 DEF SurveyInv, Past
<1>7. Results'
  BY <1>1 DEF DownloadInv, Results, MissingWasMoved, BrokenLostItsSource, ReportMissesOnlyMoved,
              TypeOK
<1> QED
  BY <1>3, <1>4, <1>5, <1>6, <1>7 DEF DownloadInv

\* A chunk that is found is not asked for again, and the last one starts the stream.
LEMMA FoundKeeps ==
    ASSUME DownloadInv, pc = "stat", Found, UNCHANGED <<storeVars, reportVars, errors, sent>>
    PROVE  DownloadInv'
<1>a. /\ chosen \in Seq(Endpoints) /\ endpoint \in Endpoints /\ chunk \in Chunks
      /\ Len(chosen) = chunk /\ sent = <<>> /\ answer = "none"
  BY DEF DownloadInv, TypeOK, DeliveryInv
<1>b. chunk \in Nat /\ NumChunks \in Nat /\ chunk < NumChunks
  BY <1>a, NumChunksAssumption DEF Chunks
<1>c. /\ UNCHANGED <<objects, status, hasRows, changes, kept, reader, listed, down, errors, sent>>
      /\ endpoint' = 1 /\ ~failed' /\ answer' = answer
      /\ \/ chunk + 1 < NumChunks /\ chunk' = chunk + 1 /\ pc' = pc
         \/ ~(chunk + 1 < NumChunks) /\ chunk' = 0 /\ pc' = "stream"
  BY DEF Found, storeVars, reportVars
<1>d. chosen' \in Seq(Endpoints) /\ Len(chosen') = chunk + 1
  BY <1>a, AppendProperties DEF Found
<1>1. TypeOK'
  <2>1. chunk' \in Chunks /\ endpoint' \in Endpoints /\ Len(chosen') <= NumChunks
    BY <1>a, <1>b, <1>c, <1>d, Firsts, Nexts
  <2>2. failed' \in BOOLEAN /\ pc' \in {"stat", "stream"}
    BY <1>c DEF Found
  <2> QED
    BY <1>a, <1>c, <1>d, <2>1, <2>2 DEF DownloadInv, TypeOK, StoreTypeOK
<1>2. KeptIsHeld' /\ SearchInv'
  <2>1. Missed'
    BY <1>c DEF Missed, Endpoints
  <2> QED
    BY <1>c, <2>1 DEF DownloadInv, KeptIsHeld, Holds, SearchInv
<1>3. DeliveryInv'
  <2>1. InOrder'
    BY <1>c DEF DownloadInv, DeliveryInv, InOrder
  <2> QED
    BY <1>a, <1>b, <1>c, <1>d, <2>1 DEF DeliveryInv
<1>4. SurveyInv' /\ Results'
  BY <1>a, <1>c DEF SurveyInv, Results, MissingWasMoved, BrokenLostItsSource,
                    ReportMissesOnlyMoved
<1> QED
  BY <1>1, <1>2, <1>3, <1>4 DEF DownloadInv

\* Once every endpoint has been passed over for chunk c, c was not kept.
LEMMA PassedOver ==
    ASSUME endpoint \in Endpoints, ~(endpoint < NumEndpoints), chunk \in Chunks,
           Missed, <<endpoint, chunk>> \notin kept
    PROVE  \E c \in Chunks : ~Kept(c)
<1>1. \A e \in Endpoints : e < endpoint \/ e = endpoint
  BY NumEndpointsAssumption DEF Endpoints
<1>2. ~Kept(chunk)
  BY <1>1 DEF Missed, Kept
<1> QED
  BY <1>2

\* And before that, one endpoint more has been.
LEMMA PassedOn ==
    ASSUME endpoint \in Endpoints, Missed, <<endpoint, chunk>> \notin kept,
           endpoint' = endpoint + 1, chunk' = chunk, kept' = kept
    PROVE  Missed'
<1>1. \A e \in Endpoints : e < endpoint + 1 => e < endpoint \/ e = endpoint
  BY NumEndpointsAssumption DEF Endpoints
<1> QED
  BY <1>1 DEF Missed

\* An endpoint without the chunk, or without an answer, is passed over.
LEMMA NotHereKeeps ==
    ASSUME DownloadInv, pc = "stat", NEW error \in BOOLEAN, NotHere(error),
           UNCHANGED <<storeVars, reportVars, sent>>,
           errors' \in 0..MaxErrors, errors' >= errors, error => errors' > 0,
           error \/ <<endpoint, chunk>> \notin kept
    PROVE  DownloadInv'
<1>a. /\ endpoint \in Endpoints /\ chunk \in Chunks /\ failed \in BOOLEAN /\ errors \in Nat
      /\ errors' \in Nat
  BY BoundsAssumption DEF DownloadInv, TypeOK
<1>b. /\ UNCHANGED <<objects, status, hasRows, changes, kept, reader, listed, down, sent>>
      /\ UNCHANGED <<chunk, chosen>>
      /\ failed' = (failed \/ error)
      /\ \/ endpoint < NumEndpoints /\ endpoint' = endpoint + 1 /\ pc' = pc /\ answer' = answer
         \/ /\ ~(endpoint < NumEndpoints) /\ endpoint' = endpoint /\ pc' = "done"
            /\ answer' = IF failed' THEN "error" ELSE "not found"
  BY DEF NotHere, storeVars, reportVars, Answer
<1>c. ~failed' => Missed /\ <<endpoint, chunk>> \notin kept
  BY <1>b DEF DownloadInv, SearchInv
<1>d. failed' => errors' > 0 /\ errors' # 0
  <2>1. failed => errors > 0
    BY DEF DownloadInv, SearchInv
  <2>2. failed => errors' > 0
    BY <1>a, <2>1
  <2>3. failed' => failed \/ error
    BY <1>b
  <2>4. failed' => errors' > 0
    BY <2>2, <2>3
  <2> QED
    BY <2>4
<1>1. TypeOK'
  <2>1. endpoint' \in Endpoints /\ failed' \in BOOLEAN
    BY <1>a, <1>b, Nexts
  <2>2. answer' \in Answers /\ (answer' = "none" <=> pc' # "done")
        /\ pc' \in {"stat", "done"}
    BY <1>b DEF DownloadInv, TypeOK, Answers
  <2> QED
    BY <1>a, <1>b, <2>1, <2>2 DEF DownloadInv, TypeOK, StoreTypeOK
<1>2. KeptIsHeld'
  BY <1>b DEF DownloadInv, KeptIsHeld, Holds
<1>3. SearchInv'
  <2>1. pc' = "stat" /\ ~failed' => Missed'
    BY <1>a, <1>b, <1>c, PassedOn
  <2> QED
    BY <1>b, <1>d, <2>1 DEF SearchInv
<1>4. DeliveryInv'
  BY <1>b DEF DownloadInv, DeliveryInv, InOrder
<1>5. MissingWasMoved'
  <2>1. answer' \in {"none", "error", "not found"} /\ (answer' = "error" => failed')
    BY <1>b DEF DownloadInv, TypeOK
  <2>2. answer' = "not found" => ~(endpoint < NumEndpoints) /\ ~failed'
    BY <1>b DEF DownloadInv, TypeOK
  <2>3. answer' = "not found" => \E c \in Chunks : ~Kept(c)
    BY <1>a, <1>c, <2>2, PassedOver
  <2> QED
    BY <1>b, <1>d, <2>1, <2>3 DEF MissingWasMoved, Kept
<1>6. SurveyInv' /\ Results'
  BY <1>b, <1>5 DEF DownloadInv, TypeOK, SurveyInv, Results, BrokenLostItsSource,
                    ReportMissesOnlyMoved
<1> QED
  BY <1>1, <1>2, <1>3, <1>4, <1>6 DEF DownloadInv

\* The search.
LEMMA StepStat == DownloadInv /\ (Stat \/ StatFails) => DownloadInv'
<1> SUFFICES ASSUME DownloadInv, Stat \/ StatFails PROVE DownloadInv'
  OBVIOUS
<1>a. errors \in 0..MaxErrors /\ MaxErrors \in Nat
  BY BoundsAssumption DEF DownloadInv, TypeOK
<1>1. CASE Stat /\ Holds(endpoint, File, chunk)
  BY <1>1, FoundKeeps DEF Stat
<1>2. CASE Stat /\ ~Holds(endpoint, File, chunk)
  <2>1. <<endpoint, chunk>> \notin kept
    BY <1>2 DEF DownloadInv, KeptIsHeld
  <2>2. pc = "stat" /\ NotHere(FALSE) /\ UNCHANGED <<storeVars, reportVars, sent>>
        /\ errors' = errors
    BY <1>2 DEF Stat
  <2>3. errors' \in 0..MaxErrors /\ errors' >= errors
    BY <1>a, <2>2
  <2> QED
    BY <2>1, <2>2, <2>3, NotHereKeeps
<1>3. CASE StatFails
  <2>1. pc = "stat" /\ NotHere(TRUE) /\ UNCHANGED <<storeVars, reportVars, sent>>
        /\ errors < MaxErrors /\ errors' = errors + 1
    BY <1>3 DEF StatFails
  <2>2. errors' \in 0..MaxErrors /\ errors' >= errors /\ errors' > 0
    BY <1>a, <2>1
  <2> QED
    BY <2>1, <2>2, NotHereKeeps
<1> QED
  BY <1>1, <1>2, <1>3

\* What is sent next is the next chunk.
LEMMA SendsNext ==
    ASSUME NEW c \in Chunks, sent \in Seq(Chunks), Len(sent) = c, InOrder,
           sent' = Append(sent, c)
    PROVE  sent' \in Seq(Chunks) /\ Len(sent') = c + 1 /\ InOrder'
<1>1. /\ sent' \in Seq(Chunks) /\ Len(sent') = c + 1
      /\ \A k \in 1..Len(sent) : sent'[k] = sent[k]
      /\ sent'[c + 1] = c
  BY AppendProperties
<1>2. c \in Nat
  BY Nexts
<1>3. \A k \in 1..c + 1 : k \in 1..c \/ k = c + 1
  BY <1>2
<1>4. \A k \in 1..c + 1 : sent'[k] = k - 1
  BY <1>1, <1>2, <1>3 DEF InOrder
<1> QED
  BY <1>1, <1>4 DEF InOrder

\* The stream asks each endpoint for what was found there and breaks off if it is gone.
LEMMA StepStream == DownloadInv /\ (Stream \/ StreamFails) => DownloadInv'
<1> SUFFICES ASSUME DownloadInv, Stream \/ StreamFails PROVE DownloadInv'
  OBVIOUS
<1>a. /\ pc = "stream" /\ answer = "none" /\ chunk \in Chunks /\ sent \in Seq(Chunks)
      /\ Len(sent) = chunk /\ InOrder /\ Len(chosen) = NumChunks
      /\ errors \in 0..MaxErrors /\ MaxErrors \in Nat /\ NumChunks \in Nat
  BY BoundsAssumption, NumChunksAssumption
     DEF Stream, StreamFails, DownloadInv, TypeOK, DeliveryInv
<1>b. chunk \in Nat /\ chunk < NumChunks
  BY <1>a DEF Chunks
<1>c. /\ UNCHANGED <<objects, status, hasRows, changes, kept, reader, listed, down, endpoint>>
      /\ UNCHANGED <<failed, chosen>>
  BY DEF Stream, StreamFails, storeVars, reportVars
<1>1. KeptIsHeld'
  BY <1>c DEF DownloadInv, KeptIsHeld, Holds
<1>2. CASE Stream /\ Holds(Source, File, chunk)
  <2>1. /\ sent' = Append(sent, chunk) /\ errors' = errors
        /\ \/ chunk + 1 < NumChunks /\ chunk' = chunk + 1 /\ pc' = pc /\ answer' = answer
           \/ /\ ~(chunk + 1 < NumChunks) /\ chunk' = chunk
              /\ pc' = "done" /\ answer' = "whole"
    BY <1>2 DEF Stream, Answer
  <2>2. sent' \in Seq(Chunks) /\ Len(sent') = chunk + 1 /\ InOrder'
    BY <1>a, <2>1, SendsNext
  <2>3. TypeOK'
    <3>1. chunk' \in Chunks
      BY <1>a, <2>1, Nexts
    <3> QED
      BY <1>a, <1>c, <2>1, <2>2, <3>1 DEF DownloadInv, TypeOK, StoreTypeOK, Answers
  <2>4. answer' = "whole" => Len(sent') = NumChunks
    BY <1>a, <1>b, <2>1, <2>2
  <2>5. SearchInv' /\ SurveyInv'
    BY <1>a, <1>c, <2>1 DEF DownloadInv, SearchInv, SurveyInv
  <2>6. DeliveryInv'
    BY <1>a, <1>c, <2>1, <2>2, <2>4 DEF DeliveryInv
  <2>7. Results'
    BY <1>a, <2>1 DEF Results, MissingWasMoved, BrokenLostItsSource, ReportMissesOnlyMoved
  <2> QED
    BY <1>1, <2>3, <2>5, <2>6, <2>7 DEF DownloadInv
<1>3. CASE StreamFails \/ (Stream /\ ~Holds(Source, File, chunk))
  <2>1. /\ UNCHANGED <<chunk, sent>> /\ pc' = "done" /\ answer' = "broken"
        /\ \/ errors' = errors /\ ~Holds(Source, File, chunk)
           \/ errors' = errors + 1 /\ errors < MaxErrors
    BY <1>3 DEF Stream, StreamFails, Answer
  <2>2. errors' \in 0..MaxErrors /\ errors' >= errors /\ (errors' = errors + 1 => errors' > 0)
    BY <1>a, <2>1
  <2>3. TypeOK'
    BY <1>a, <1>c, <2>1, <2>2 DEF DownloadInv, TypeOK, StoreTypeOK, Answers
  <2>4. SearchInv'
    <3>1. failed => errors' > 0
      BY <1>a, <2>2 DEF DownloadInv, SearchInv
    <3> QED
      BY <1>c, <2>1, <3>1 DEF SearchInv
  <2>5. DeliveryInv' /\ SurveyInv'
    BY <1>a, <2>1 DEF DeliveryInv, SurveyInv, InOrder
  <2>6. errors' > 0 \/ <<chosen[chunk + 1], chunk>> \notin kept
    <3>1. ~Holds(Source, File, chunk) => <<Source, chunk>> \notin kept
      BY DEF DownloadInv, KeptIsHeld
    <3> QED
      BY <2>1, <2>2, <3>1 DEF Source
  <2>7. Results'
    <3>1. BrokenLostItsSource'
      BY <1>a, <1>b, <1>c, <2>1, <2>6 DEF BrokenLostItsSource, InOrder
    <3> QED
      BY <2>1, <3>1 DEF Results, MissingWasMoved, ReportMissesOnlyMoved
  <2> QED
    BY <1>1, <2>3, <2>4, <2>5, <2>7 DEF DownloadInv
<1> QED
  BY <1>2, <1>3

-----------------------------------------------------------------------------
(* The download worker. *)

\* A chunk an endpoint gives is the next one of the file, and the search for the one
\* after it begins at the first endpoint.
LEMMA RecoverGets ==
    ASSUME DownloadInv, Recover, Holds(endpoint, File, chunk)
    PROVE  DownloadInv'
<1>a. /\ pc = "recover" /\ answer = "none" /\ chunk \in Chunks /\ sent \in Seq(Chunks)
      /\ Len(sent) = chunk /\ InOrder
  BY DEF Recover, DownloadInv, TypeOK, DeliveryInv
<1>c. /\ UNCHANGED <<objects, status, hasRows, changes, kept, reader, listed, down, errors>>
      /\ UNCHANGED <<failed, chosen>>
      /\ sent' = Append(sent, chunk) /\ endpoint' = 1
      /\ \/ chunk + 1 < NumChunks /\ chunk' = chunk + 1 /\ pc' = pc /\ answer' = answer
         \/ ~(chunk + 1 < NumChunks) /\ chunk' = chunk /\ pc' = "done" /\ answer' = "whole"
  BY DEF Recover, storeVars, reportVars, Answer
<1>1. sent' \in Seq(Chunks) /\ Len(sent') = chunk + 1 /\ InOrder'
  BY <1>a, <1>c, SendsNext
<1>2. TypeOK'
  <2>1. chunk' \in Chunks /\ endpoint' \in Endpoints
    BY <1>a, <1>c, Nexts, Firsts
  <2> QED
    BY <1>a, <1>c, <1>1, <2>1 DEF DownloadInv, TypeOK, StoreTypeOK, Answers
<1>3. KeptIsHeld'
  BY <1>c DEF DownloadInv, KeptIsHeld, Holds
<1>4. SearchInv'
  <2>1. \A e \in Endpoints : ~(e < 1)
    BY DEF Endpoints
  <2>2. Missed'
    BY <1>c, <2>1 DEF Missed
  <2> QED
    BY <1>a, <1>c, <2>2 DEF DownloadInv, SearchInv
<1>5. DeliveryInv' /\ SurveyInv'
  <2>1. chunk \in Nat /\ NumChunks \in Nat /\ chunk < NumChunks
    BY <1>a, NumChunksAssumption DEF Chunks
  <2>2. answer' = "whole" => Len(sent') = NumChunks
    BY <1>a, <1>c, <1>1, <2>1
  <2> QED
    BY <1>a, <1>c, <1>1, <2>2 DEF DeliveryInv, SurveyInv
<1>6. Results'
  BY <1>a, <1>c DEF Results, MissingWasMoved, BrokenLostItsSource, ReportMissesOnlyMoved
<1> QED
  BY <1>2, <1>3, <1>4, <1>5, <1>6 DEF DownloadInv

\* One that does not give it is passed over.
LEMMA NextEndpointKeeps ==
    ASSUME DownloadInv, pc = "recover", NextEndpoint,
           UNCHANGED <<storeVars, reportVars, failed, chosen>>,
           errors' \in 0..MaxErrors, errors' >= errors,
           errors' > 0 \/ <<endpoint, chunk>> \notin kept
    PROVE  DownloadInv'
<1>a. /\ endpoint \in Endpoints /\ chunk \in Chunks /\ errors \in Nat /\ errors' \in Nat
      /\ answer = "none"
  BY BoundsAssumption DEF DownloadInv, TypeOK
<1>b. /\ UNCHANGED <<objects, status, hasRows, changes, kept, reader, listed, down, failed>>
      /\ UNCHANGED <<chosen, chunk, sent>>
      /\ \/ endpoint < NumEndpoints /\ endpoint' = endpoint + 1 /\ pc' = pc /\ answer' = answer
         \/ ~(endpoint < NumEndpoints) /\ endpoint' = endpoint /\ pc' = "done" /\ answer' = "error"
  BY DEF NextEndpoint, storeVars, reportVars, Answer
<1>c. errors' = 0 => Missed /\ <<endpoint, chunk>> \notin kept
  <2>1. errors' = 0 => errors = 0
    BY <1>a
  <2> QED
    BY <1>a, <2>1 DEF DownloadInv, SearchInv
<1>1. TypeOK'
  <2>1. endpoint' \in Endpoints
    BY <1>a, <1>b, Nexts
  <2>2. answer' \in Answers /\ (answer' = "none" <=> pc' # "done") /\ pc' \in {"recover", "done"}
    BY <1>a, <1>b DEF Answers
  <2> QED
    BY <1>a, <1>b, <2>1, <2>2 DEF DownloadInv, TypeOK, StoreTypeOK
<1>2. KeptIsHeld'
  BY <1>b DEF DownloadInv, KeptIsHeld, Holds
<1>3. SearchInv'
  <2>1. pc' = "recover" /\ errors' = 0 => Missed'
    BY <1>a, <1>b, <1>c, PassedOn
  <2>2. failed => errors' > 0
    BY <1>a DEF DownloadInv, SearchInv
  <2>3. pc' # "stat"
    BY <1>b
  <2> QED
    BY <1>b, <2>1, <2>2, <2>3 DEF SearchInv
<1>4. DeliveryInv'
  BY <1>b DEF DownloadInv, DeliveryInv, InOrder
<1>5. MissingWasMoved'
  <2>1. answer' = "error" /\ errors' = 0 => \E c \in Chunks : ~Kept(c)
    BY <1>a, <1>b, <1>c, PassedOver
  <2> QED
    BY <1>a, <1>b, <2>1 DEF MissingWasMoved, Kept
<1>6. SurveyInv' /\ Results'
  BY <1>a, <1>b, <1>5 DEF SurveyInv, Results, BrokenLostItsSource, ReportMissesOnlyMoved
<1> QED
  BY <1>1, <1>2, <1>3, <1>4, <1>6 DEF DownloadInv

\* The recovery.
LEMMA StepRecover == DownloadInv /\ (Recover \/ RecoverFails) => DownloadInv'
<1> SUFFICES ASSUME DownloadInv, Recover \/ RecoverFails PROVE DownloadInv'
  OBVIOUS
<1>a. errors \in 0..MaxErrors /\ MaxErrors \in Nat
  BY BoundsAssumption DEF DownloadInv, TypeOK
<1>1. CASE Recover /\ ~Holds(endpoint, File, chunk)
  <2>1. <<endpoint, chunk>> \notin kept
    BY <1>1 DEF DownloadInv, KeptIsHeld
  <2>2. pc = "recover" /\ NextEndpoint /\ UNCHANGED <<storeVars, reportVars, failed, chosen>>
        /\ errors' = errors
    BY <1>1 DEF Recover
  <2>3. errors' \in 0..MaxErrors /\ errors' >= errors
    BY <1>a, <2>2
  <2> QED
    BY <2>1, <2>2, <2>3, NextEndpointKeeps
<1>2. CASE RecoverFails
  <2>1. pc = "recover" /\ NextEndpoint /\ UNCHANGED <<storeVars, reportVars, failed, chosen>>
        /\ errors < MaxErrors /\ errors' = errors + 1
    BY <1>2 DEF RecoverFails
  <2>2. errors' \in 0..MaxErrors /\ errors' >= errors /\ errors' > 0
    BY <1>a, <2>1
  <2> QED
    BY <2>1, <2>2, NextEndpointKeeps
<1> QED
  BY <1>1, <1>2, RecoverGets

-----------------------------------------------------------------------------
(* The report. *)

\* Once all of the present endpoint is reported, the survey goes on with the next
\* endpoint, or is complete.
LEMMA SurveyedKeeps ==
    ASSUME DownloadInv, pc = "survey", Surveyed, UNCHANGED <<storeVars, downloadVars>>,
           errors' \in 0..MaxErrors, errors' >= errors,
           listed' \subseteq Endpoints \X Chunks, down' \subseteq Endpoints,
           \A p \in kept : Past(p) \/ p[1] = endpoint => Reported(p)'
    PROVE  DownloadInv'
<1>a. /\ endpoint \in Endpoints /\ chunk \in Chunks /\ errors \in Nat /\ errors' \in Nat
      /\ answer = "none" /\ kept \subseteq Endpoints \X Chunks
  BY BoundsAssumption DEF DownloadInv, TypeOK
<1>b. /\ UNCHANGED <<objects, status, hasRows, changes, kept, reader, failed, chosen, sent>>
      /\ chunk' = 0
      /\ \/ endpoint < NumEndpoints /\ endpoint' = endpoint + 1 /\ pc' = pc /\ answer' = answer
         \/ ~(endpoint < NumEndpoints) /\ endpoint' = endpoint /\ pc' = "done" /\ answer' = "report"
  BY DEF Surveyed, storeVars, downloadVars, Answer
<1>1. TypeOK'
  <2>1. endpoint' \in Endpoints /\ chunk' \in Chunks
    BY <1>a, <1>b, Nexts, Firsts
  <2>2. answer' \in Answers /\ (answer' = "none" <=> pc' # "done") /\ pc' \in {"survey", "done"}
    BY <1>a, <1>b DEF Answers
  <2> QED
    BY <1>b, <2>1, <2>2 DEF DownloadInv, TypeOK, StoreTypeOK
<1>2. KeptIsHeld'
  BY <1>b DEF DownloadInv, KeptIsHeld, Holds
<1>3. SearchInv'
  <2>1. failed => errors' > 0
    BY <1>a DEF DownloadInv, SearchInv
  <2> QED
    BY <1>b, <2>1 DEF SearchInv
<1>4. DeliveryInv'
  BY <1>b DEF DownloadInv, DeliveryInv, InOrder
<1>c. \A p \in kept : p[1] \in Nat /\ p[2] \in Nat /\ p[1] <= NumEndpoints
  BY <1>a, NumEndpointsAssumption, NumChunksAssumption DEF Endpoints, Chunks
<1>5. SurveyInv'
  <2> SUFFICES ASSUME pc' = "survey", NEW p \in kept, Past(p)' PROVE Reported(p)'
    BY <1>b DEF SurveyInv
  <2>1. endpoint' = endpoint + 1 /\ chunk' = 0 /\ endpoint \in Nat
    BY <1>a, <1>b, Nexts
  <2>2. p[1] < endpoint + 1 \/ (p[1] = endpoint + 1 /\ p[2] < 0)
    BY <2>1 DEF Past
  <2>3. p[1] < endpoint \/ p[1] = endpoint
    BY <1>c, <2>1, <2>2
  <2> QED
    BY <2>3 DEF Past
<1>6. ReportMissesOnlyMoved'
  <2> SUFFICES ASSUME answer' = "report", NEW p \in kept PROVE Reported(p)'
    BY <1>b DEF ReportMissesOnlyMoved, Reported
  <2>1. ~(endpoint < NumEndpoints) /\ endpoint \in Nat
    BY <1>a, <1>b, Nexts
  <2>2. p[1] < endpoint \/ p[1] = endpoint
    BY <1>c, <2>1, NumEndpointsAssumption
  <2> QED
    BY <2>2 DEF Past
<1>7. Results'
  BY <1>a, <1>b, <1>6 DEF Results, MissingWasMoved, BrokenLostItsSource
<1> QED
  BY <1>1, <1>2, <1>3, <1>4, <1>5, <1>7 DEF DownloadInv

\* The survey.
LEMMA StepSurvey == DownloadInv /\ (Survey \/ SurveyFails) => DownloadInv'
<1> SUFFICES ASSUME DownloadInv, Survey \/ SurveyFails PROVE DownloadInv'
  OBVIOUS
<1>a. /\ pc = "survey" /\ answer = "none" /\ endpoint \in Endpoints /\ chunk \in Chunks
      /\ listed \subseteq Endpoints \X Chunks /\ down \subseteq Endpoints
      /\ kept \subseteq Endpoints \X Chunks
      /\ errors \in 0..MaxErrors /\ MaxErrors \in Nat
  BY BoundsAssumption DEF Survey, SurveyFails, DownloadInv, TypeOK
<1>b. \A p \in kept : /\ p = <<p[1], p[2]>> /\ p[1] \in Nat /\ p[2] \in Nat /\ p[2] < NumChunks
                      /\ Past(p) => Reported(p)
  BY <1>a, NumEndpointsAssumption, NumChunksAssumption
     DEF Endpoints, Chunks, DownloadInv, SurveyInv
<1>c. endpoint \in Nat /\ chunk \in Nat /\ NumChunks \in Nat
  BY <1>a, Nexts, NumChunksAssumption
<1>1. ASSUME Survey
      PROVE  /\ listed \subseteq listed' /\ listed' \subseteq Endpoints \X Chunks
             /\ down' = down /\ errors' = errors /\ UNCHANGED <<storeVars, downloadVars>>
             /\ \A p \in kept : Past(p) \/ p = <<endpoint, chunk>> => Reported(p)'
  <2>1. /\ listed' = IF Holds(endpoint, File, chunk)
                     THEN listed \union {<<endpoint, chunk>>} ELSE listed
        /\ down' = down /\ errors' = errors /\ UNCHANGED <<storeVars, downloadVars>>
    BY <1>1 DEF Survey
  <2>2. <<endpoint, chunk>> \in kept => <<endpoint, chunk>> \in listed'
    <3>1. <<endpoint, chunk>> \in kept => Holds(endpoint, File, chunk)
      BY DEF DownloadInv, KeptIsHeld
    <3> QED
      BY <2>1, <3>1
  <2> QED
    BY <1>a, <1>b, <2>1, <2>2 DEF Reported
<1>2. CASE Survey /\ chunk + 1 < NumChunks
  <2>1. /\ chunk' = chunk + 1 /\ UNCHANGED <<endpoint, pc, answer>>
        /\ UNCHANGED <<objects, status, hasRows, changes, kept, reader, failed, chosen, sent>>
    BY <1>1, <1>2 DEF Survey, storeVars, downloadVars
  <2>2. TypeOK'
    <3>1. chunk' \in Chunks
      BY <1>2, <1>a, <2>1, Nexts
    <3> QED
      BY <1>1, <1>2, <2>1, <3>1 DEF DownloadInv, TypeOK, StoreTypeOK
  <2>3. KeptIsHeld'
    BY <2>1 DEF DownloadInv, KeptIsHeld, Holds
  <2>4. SearchInv' /\ DeliveryInv'
    BY <1>1, <1>2, <1>a, <2>1 DEF DownloadInv, SearchInv, DeliveryInv, InOrder
  <2>5. SurveyInv'
    <3> SUFFICES ASSUME NEW p \in kept, Past(p)' PROVE Reported(p)'
      BY <2>1 DEF SurveyInv
    <3>1. p[1] < endpoint \/ (p[1] = endpoint /\ p[2] < chunk + 1)
      BY <2>1 DEF Past
    <3>2. Past(p) \/ (p[1] = endpoint /\ p[2] = chunk)
      BY <1>b, <1>c, <3>1 DEF Past
    <3> QED
      BY <1>1, <1>2, <1>b, <3>2
  <2>6. Results'
    BY <1>a, <2>1 DEF Results, MissingWasMoved, BrokenLostItsSource, ReportMissesOnlyMoved
  <2> QED
    BY <2>2, <2>3, <2>4, <2>5, <2>6 DEF DownloadInv
<1>3. CASE Survey /\ ~(chunk + 1 < NumChunks)
  <2>1. Surveyed
    BY <1>3 DEF Survey
  <2>2. ASSUME NEW p \in kept, Past(p) \/ p[1] = endpoint PROVE Reported(p)'
    <3>1. Past(p) \/ (p[1] = endpoint /\ p[2] = chunk)
      BY <1>3, <1>b, <1>c, <2>2 DEF Past
    <3> QED
      BY <1>1, <1>3, <1>b, <3>1
  <2>3. errors' \in 0..MaxErrors /\ errors' >= errors
    BY <1>1, <1>3, <1>a
  <2> QED
    BY <1>1, <1>3, <1>a, <2>1, <2>2, <2>3, SurveyedKeeps
<1>4. CASE SurveyFails
  <2>1. /\ Surveyed /\ errors < MaxErrors /\ errors' = errors + 1
        /\ listed' = {p \in listed : p[1] # endpoint} /\ down' = down \union {endpoint}
        /\ UNCHANGED <<storeVars, downloadVars>>
    BY <1>4 DEF SurveyFails
  <2>2. \A p \in kept : Past(p) \/ p[1] = endpoint => Reported(p)'
    BY <1>b, <2>1 DEF Reported
  <2>3. errors' \in 0..MaxErrors /\ errors' >= errors
    BY <1>a, <2>1
  <2>4. listed' \subseteq Endpoints \X Chunks /\ down' \subseteq Endpoints
    BY <1>a, <2>1
  <2> QED
    BY <1>a, <2>1, <2>2, <2>3, <2>4, SurveyedKeeps
<1> QED
  BY <1>2, <1>3, <1>4

-----------------------------------------------------------------------------
(* The theorems. *)

\* Every step keeps the invariant.
LEMMA StepDownloadInv == DownloadInv /\ [Next]_vars => DownloadInv'
<1> SUFFICES ASSUME DownloadInv, [Next]_vars PROVE DownloadInv'
  OBVIOUS
<1>1. CASE Next
  BY <1>1, StepEnvironment, StepBegins, StepStat, StepStream, StepRecover, StepSurvey
     DEF Next, Read, ReadFault
<1>2. CASE UNCHANGED vars
  <2>1. TypeOK' /\ KeptIsHeld'
    BY <1>2 DEF vars, DownloadInv, TypeOK, StoreTypeOK, KeptIsHeld, Holds
  <2>2. SearchInv' /\ DeliveryInv' /\ SurveyInv'
    BY <1>2 DEF vars, DownloadInv, SearchInv, Missed, DeliveryInv, InOrder, SurveyInv, Past,
                Reported
  <2>3. Results'
    BY <1>2 DEF vars, DownloadInv, Results, MissingWasMoved, Kept, BrokenLostItsSource,
                ReportMissesOnlyMoved
  <2> QED
    BY <2>1, <2>2, <2>3 DEF DownloadInv
<1> QED
  BY <1>1, <1>2

\* The invariant holds in every reachable state.
THEOREM DownloadInvariant == Spec => []DownloadInv
BY InitDownloadInv, StepDownloadInv, PTL DEF Spec

\* Every variable of the readers and of what they see keeps its type (main.py,
\* chunk_recovery.py).
THEOREM DownloadTypeCorrect == Spec => []TypeOK
<1>1. DownloadInv => TypeOK
  BY DEF DownloadInv
<1> QED
  BY <1>1, DownloadInvariant, PTL

\* A chunk that the API reports as not found, or that the download worker could not
\* recover although no call failed, was on no endpoint all the while they looked,
\* however many endpoints there are and however copies moved between them.
THEOREM MissingChunksMoved == Spec => []MissingWasMoved
<1>1. DownloadInv => MissingWasMoved
  BY DEF DownloadInv, Results
<1> QED
  BY <1>1, DownloadInvariant, PTL

\* A stream that breaks off without a failed call lost a chunk from the endpoint that
\* was chosen for it, and has sent a proper beginning of the file.
THEOREM BrokenStreamsLostTheirSource == Spec => []BrokenLostItsSource
<1>1. DownloadInv => BrokenLostItsSource
  BY DEF DownloadInv, Results
<1> QED
  BY <1>1, DownloadInvariant, PTL

\* The storage report misses, on an endpoint it shows as up, no chunk that stayed there.
THEOREM ReportsMissOnlyMoved == Spec => []ReportMissesOnlyMoved
<1>1. DownloadInv => ReportMissesOnlyMoved
  BY DEF DownloadInv, Results
<1> QED
  BY <1>1, DownloadInvariant, PTL

\* A download that ends normally has delivered every chunk of the file, in order, to
\* the client or to the worker's buffer.
WholeIsWhole == answer = "whole" => Len(sent) = NumChunks /\ InOrder

\* For any number of chunks, and whatever happened on the way (main.py stream_file,
\* chunk_recovery.py recover_bytes).
THEOREM WholeDownloadsAreWhole == Spec => []WholeIsWhole
<1>1. DownloadInv => WholeIsWhole
  BY DEF DownloadInv, DeliveryInv, WholeIsWhole
<1> QED
  BY <1>1, DownloadInvariant, PTL

-----------------------------------------------------------------------------
(* Both together. *)

\* What a reader of Download has delivered, made of the objects of Chunking.
Delivered == [k \in 1..Len(sent) |-> stored[sent[k] + 1]]

\* A download that ends normally delivers the first chunks of the file, as many as it
\* has rows, and all of them if backend and worker are configured alike.
DeliversTheFile ==
    phase # "storing" /\ answer = "whole" /\ NumChunks = Len(Rows) /\ NumChunks <= Len(stored) =>
        /\ Delivered = [k \in 1..NumChunks |-> Split(data, chunkSize)[k]]
        /\ rowSize = chunkSize => Delivered = Split(data, chunkSize)

\* Whatever the file, the sizes and what happens on the endpoints (_build_file_chunks,
\* store_bytes, stream_file, recover_bytes).
THEOREM WholeDownloadIsTheFile == ChunkingSpec /\ Spec => []DeliversTheFile
<1>1. CInv /\ StreamsAsBytes /\ DownloadInv /\ WholeIsWhole => DeliversTheFile
  <2> SUFFICES ASSUME CInv, StreamsAsBytes, DownloadInv, WholeIsWhole, phase # "storing", answer = "whole",
                      NumChunks = Len(Rows), NumChunks <= Len(stored)
               PROVE  /\ Delivered = [k \in 1..NumChunks |-> Split(data, chunkSize)[k]]
                      /\ rowSize = chunkSize => Delivered = Split(data, chunkSize)
    BY DEF DeliversTheFile
  <2>1. stored = Split(data, chunkSize)
    BY DEF StreamsAsBytes
  <2>2. Len(sent) = NumChunks /\ \A k \in 1..NumChunks : sent[k] = k - 1
    BY DEF WholeIsWhole, InOrder
  <2>3. \A k \in 1..NumChunks : sent[k] + 1 = k
    BY <2>2, NumChunksAssumption
  <2>4. Delivered = [k \in 1..NumChunks |-> Split(data, chunkSize)[k]]
    BY <2>1, <2>2, <2>3 DEF Delivered
  <2>5. ASSUME rowSize = chunkSize PROVE Delivered = Split(data, chunkSize)
    <3>1. NumChunks = Count(Len(data), chunkSize)
      BY <2>5, RowCount DEF CInv
    <3>2. Split(data, chunkSize) = [k \in 1..NumChunks |-> Split(data, chunkSize)[k]]
      BY <3>1 DEF Split
    <3> QED
      BY <2>4, <3>2
  <2> QED
    BY <2>4, <2>5
<1> QED
  BY <1>1, ChunkingInvariant, StreamingStoresTheSame, DownloadInvariant, WholeDownloadsAreWhole, PTL
=============================================================================
