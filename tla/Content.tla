------------------------------- MODULE Content -------------------------------
(***************************************************************************)
(* A file on its way into chunks and back: the feeder that cuts a stream   *)
(* into chunks, the hash trie writer that wraps their references level by  *)
(* level, the encryption writer that pads every chunk, and the joiner that *)
(* reads any part of the file from the root alone, finding its way by the  *)
(* spans and by the assumption that all subtries but the last are equal.   *)
(*                                                                         *)
(* Byte i of the file is the number i.  A chunk is a span and a sequence   *)
(* of bytes or of references; a reference is the place of the chunk in the *)
(* store (no two contents have the same hash, and a random key is never    *)
(* the wrong one).  Sizes are those of the code scaled down.               *)
(***************************************************************************)
EXTENDS Integers, Sequences, FiniteSets

CONSTANTS
  ChunkSize,   \* bytes in a chunk (4096)
  HashSize,    \* bytes of an address, and of a key (32)
  MaxLevel,    \* highest level of the trie (8)
  MaxLength,   \* bound: length of the file
  Sizes        \* lengths of a Write and of a read buffer

VARIABLES
  encrypted,            \* whether the upload asked for encryption
  fed,                  \* bytes given to the feeder
  buffer, wrote,        \* the feeder: bytes kept back; whether it has counted any
  levels, full, store,  \* the trie writer, and the chunks stored
  upload,               \* "new", "feeding", "done", "refused" or "aborted"
  root,                 \* the reference returned, 0 before
  off                   \* position of the joiner

contentVars == <<encrypted, fed, buffer, wrote, levels, full, store, upload, root, off>>

Smaller(a, b) == IF a < b THEN a ELSE b

RefSize == IF encrypted THEN 2 * HashSize ELSE HashSize
Branching == ChunkSize \div RefSize

DataChunk(data) == [span |-> Len(data), refs |-> FALSE, data |-> data]
ByteLen(c) == IF c.refs THEN Len(c.data) * RefSize ELSE Len(c.data)

-----------------------------------------------------------------------------
(* hashtrie.go, on t = [levels, full, store, ok].                          *)

SumOfSpans(level) ==
  LET F[i \in 0 .. Len(level)] == IF i = 0 THEN 0 ELSE F[i - 1] + level[i].span
  IN F[Len(level)]

\* bmt, encryption and store writers: the chunk gets the next place.  (What the
\* store writer counts in the tag is in Upload.)
Stored(t, c) == [t EXCEPT !.store = Append(@, c)]

RECURSIVE WriteToLevel(_, _, _)
WrapFullLevel(t, l) ==
  LET refs == t.levels[l]
      c == [span |-> SumOfSpans(refs), refs |-> TRUE, data |-> [i \in 1 .. Len(refs) |-> refs[i].addr]]
      put == Stored(t, c)
      up == WriteToLevel(put, l + 1, [span |-> c.span, addr |-> Len(put.store)])
  IN [up EXCEPT !.levels[l] = <<>>, !.full = @ \/ l + 1 = MaxLevel]

WriteToLevel(t, l, ref) ==
  LET w == [t EXCEPT !.levels[l] = Append(@, ref)]
  IN IF Len(w.levels[l]) = Branching THEN WrapFullLevel(w, l) ELSE w

\* A data chunk through the whole pipeline; a full trie refuses its reference.
ChainWrite(t, data) ==
  LET put == Stored(t, DataChunk(data))
  IN IF ~t.ok THEN t
     ELSE IF t.full THEN [put EXCEPT !.ok = FALSE]
     ELSE WriteToLevel(put, 1, [span |-> Len(data), addr |-> Len(put.store)])

\* Mutant: a single reference is wrapped again instead of carried over.
WrapSingle(t, l) == IF t.levels[l] = <<>> THEN t ELSE WrapFullLevel(t, l)

\* One level of Sum: nothing, a single reference carried over to the next
\* level, or a chunk of what the level holds.
SumLevel(t, l) ==
  CASE t.levels[l] = <<>> -> t
    [] Len(t.levels[l]) = 1 -> [t EXCEPT !.levels[l + 1] = @ \o t.levels[l], !.levels[l] = <<>>]
    [] OTHER -> WrapFullLevel(t, l)

SumTrie(t) ==
  LET F[l \in 0 .. MaxLevel - 1] == IF l = 0 THEN t ELSE SumLevel(F[l - 1], l)
  IN F[MaxLevel - 1]

-----------------------------------------------------------------------------
(* feeder.go, on f = [buffer, wrote, trie].                                *)

RECURSIVE Feed(_, _)
Feed(f, b) ==
  LET room == ChunkSize - Len(f.buffer)
  IN IF Len(b) < room THEN [f EXCEPT !.buffer = @ \o b]
     ELSE LET next == [f EXCEPT !.buffer = <<>>, !.wrote = @ \/ Len(b) = room,
                                !.trie = ChainWrite(@, f.buffer \o SubSeq(b, 1, room))]
          IN IF Len(b) = room THEN next ELSE Feed(next, SubSeq(b, room + 1, Len(b)))

\* Sum flushes what is kept back; a file without bytes is one empty chunk.
Flush(f) ==
  IF f.buffer # <<>> THEN ChainWrite(f.trie, f.buffer)
  ELSE IF ~f.wrote THEN ChainWrite(f.trie, <<>>)
  ELSE f.trie

Trie == [levels |-> levels, full |-> full, store |-> store, ok |-> TRUE]

Becomes(t) == levels' = t.levels /\ full' = t.full /\ store' = t.store

Init ==
  /\ encrypted = FALSE
  /\ fed = 0 /\ buffer = <<>> /\ wrote = FALSE
  /\ levels = [l \in 1 .. MaxLevel |-> <<>>] /\ full = FALSE /\ store = <<>>
  /\ upload = "new" /\ root = 0 /\ off = 0

NewPipelineBuilder(e) ==
  /\ upload = "new" /\ upload' = "feeding" /\ encrypted' = e
  /\ UNCHANGED <<fed, buffer, wrote, levels, full, store, root, off>>

Write(n) ==
  /\ upload = "feeding" /\ fed + n <= MaxLength
  /\ LET f == Feed([buffer |-> buffer, wrote |-> wrote, trie |-> Trie], [i \in 1 .. n |-> fed + i])
     IN /\ Becomes(f.trie) /\ buffer' = f.buffer /\ wrote' = f.wrote
        /\ upload' = IF f.trie.ok THEN "feeding" ELSE "refused"
  /\ fed' = fed + n
  /\ UNCHANGED <<encrypted, root, off>>

\* The last level must hold exactly one reference: the root.
Sum ==
  /\ upload = "feeding"
  /\ LET flushed == Flush([buffer |-> buffer, wrote |-> wrote, trie |-> Trie])
         t == IF flushed.ok THEN SumTrie(flushed) ELSE flushed
         top == t.levels[MaxLevel]
         good == t.ok /\ Len(top) = 1
     IN /\ Becomes(t)
        /\ upload' = IF good THEN "done" ELSE "refused"
        /\ root' = IF good THEN top[1].addr ELSE 0
  /\ UNCHANGED <<encrypted, fed, buffer, wrote, off>>

\* The request is cancelled, or the store refuses a chunk.
Abort ==
  /\ upload = "feeding" /\ upload' = "aborted"
  /\ UNCHANGED <<encrypted, fed, buffer, wrote, levels, full, store, root, off>>

-----------------------------------------------------------------------------
(* decrypt_store.go and joiner.go.                                         *)

\* Length of the data under the padding, from the span alone.
RECURSIVE Unpadded(_)
Unpadded(length) ==
  IF length <= ChunkSize THEN length
  ELSE Unpadded(((length + ChunkSize - 1) \div ChunkSize) * RefSize)

\* Items of the padding that a wrong length would keep are 0.
DecryptChunkData(c) ==
  LET length == Unpadded(c.span)
      items == IF c.refs THEN length \div RefSize ELSE length
  IN [c EXCEPT !.data = [i \in 1 .. items |-> IF i <= Len(c.data) THEN c.data[i] ELSE 0]]

Fetch(addr) == IF encrypted THEN DecryptChunkData(store[addr]) ELSE store[addr]

RECURSIVE BranchSize(_, _, _)
BranchSize(refs, size, branch) ==
  IF size - branch * (refs - 1) <= branch THEN branch
  ELSE BranchSize(refs, size, branch * Branching)

\* The size of the i-th of the subtries under a chunk.
SubtrieSection(c, i) ==
  LET refs == ByteLen(c) \div RefSize
      branch == BranchSize(refs, c.span, ChunkSize)
  IN IF i = refs THEN c.span - (refs - 1) * branch ELSE branch

\* The bytes copied, each with its place in the read buffer.
RECURSIVE ReadAtOffset(_, _, _, _, _), ReadRefs(_, _, _, _, _, _)
ReadAtOffset(c, cur, from, at, n) ==
  IF c.span <= ByteLen(c)
  THEN LET start == from - cur
       IN {<<at + k, c.data[start + k]>> : k \in 1 .. Smaller(n, Len(c.data) - start)}
  ELSE ReadRefs(c, 1, cur, from, at, n)

ReadRefs(c, i, cur, from, at, n) ==
  IF n = 0 \/ i > Len(c.data) THEN {}
  ELSE LET sec == SubtrieSection(c, i)
           size == Smaller(Smaller(sec - (from - cur), n), sec)
       IN IF cur + sec < from THEN ReadRefs(c, i + 1, cur + sec, from, at, n)
          ELSE ReadAtOffset(Fetch(c.data[i]), cur, from, at, size)
                 \cup ReadRefs(c, i + 1, cur + sec, cur + sec, at + size, n - size)

Span == Fetch(root).span

ReadAt(n, o) ==
  IF o >= Span THEN {} ELSE ReadAtOffset(Fetch(root), 0, o, 0, Smaller(n, Span - o))

Read(n) ==
  /\ upload = "done"
  /\ off' = off + Cardinality(ReadAt(n, off))
  /\ UNCHANGED <<encrypted, fed, buffer, wrote, levels, full, store, upload, root>>

SeekTarget(offset, whence) ==
  CASE whence = 0 -> offset
    [] whence = 1 -> offset + off
    [] whence = 2 -> Span - offset

Seek(offset, whence) ==
  /\ upload = "done"
  /\ SeekTarget(offset, whence) \in 0 .. Span
  /\ off' = SeekTarget(offset, whence)
  /\ UNCHANGED <<encrypted, fed, buffer, wrote, levels, full, store, upload, root>>

\* The addresses IterateChunkAddresses reports below a chunk.
RECURSIVE ProcessChunkAddresses(_)
ProcessChunkAddresses(c) ==
  IF c.span <= ByteLen(c) THEN {}
  ELSE UNION {{c.data[i]} \cup
              (IF SubtrieSection(c, i) <= ChunkSize THEN {} ELSE ProcessChunkAddresses(Fetch(c.data[i])))
              : i \in 1 .. Len(c.data)}

IterateChunkAddresses == {root} \cup ProcessChunkAddresses(Fetch(root))

Next ==
  \/ \E e \in BOOLEAN : NewPipelineBuilder(e)
  \/ Sum \/ Abort
  \/ \E n \in Sizes : Write(n) \/ Read(n)
  \/ \E offset \in Sizes, whence \in 0 .. 2 : Seek(offset, whence)

Spec == Init /\ [][Next]_contentVars

-----------------------------------------------------------------------------
\* Chunks below a full trie: Branching references on every level.
TrieCapacity == ChunkSize * Branching ^ (MaxLevel - 1)

\* Whatever pieces a file arrived in, and whether it is encrypted or not, its
\* root stands for all of it: the joiner reads the right bytes into the right
\* places of a buffer of any size at any position, finding the size of every
\* subtrie and the length under the padding from the spans alone; and the
\* addresses it lists for pinning and reuploading are those of all the chunks
\* that were stored and of no others.  No file within the capacity is refused.
JoinsWhatWasSplit ==
  /\ upload = "refused" => fed > TrieCapacity
  /\ upload = "done" =>
       /\ Span = fed
       /\ \A n \in Sizes :
            ReadAt(n, off) = {<<k, off + k>> : k \in 1 .. Smaller(n, fed - off)}
       /\ IterateChunkAddresses = 1 .. Len(store)

=============================================================================
