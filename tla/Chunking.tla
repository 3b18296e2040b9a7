------------------------------ MODULE Chunking ------------------------------
(***************************************************************************)
(* RAGService.intelligent_chunking (domains/documents/rag_service.py).     *)
(*                                                                         *)
(* A text is the sequence of the lengths of its paragraphs after strip().  *)
(* A chunk is a sequence of pieces, joined by newlines; a piece is a range *)
(* of the characters of one paragraph.                                     *)
(***************************************************************************)
EXTENDS Integers, Sequences, FiniteSetsExt, Functions

CONSTANTS ChunkSize, Overlap     \* chunk_size and overlap

ASSUME ChunkingAssumption == ChunkSize \in Nat \ {0} /\ Overlap \in Nat

Piece(k, from, to) == [para |-> k, from |-> from, to |-> to]

\* len(current_chunk)
Chars(chunk) ==
  IF chunk = <<>> THEN 0
    ELSE SumFunctionOnSet([j \in DOMAIN chunk |-> chunk[j].to - chunk[j].from + 1],
                          DOMAIN chunk) + Len(chunk) - 1

Step == Max({ChunkSize - Overlap, 1})

\* A paragraph longer than a chunk is cut into windows that overlap.
Windows_Unrounded(k, n) ==
  [j \in 1..(n \div Step) |->
     <<Piece(k, (j - 1) * Step + 1, Min({(j - 1) * Step + ChunkSize, n}))>>]

Windows(k, n) ==
  [j \in 1..((n + Step - 1) \div Step) |->
     <<Piece(k, (j - 1) * Step + 1, Min({(j - 1) * Step + ChunkSize, n}))>>]

Flushed(acc) == IF acc.current = <<>> THEN acc.chunks ELSE Append(acc.chunks, acc.current)

\* One paragraph of n characters: it joins the current chunk, or ends it.
AddParagraph(acc, k, n) ==
  LET joins == Chars(acc.current) + n + 1 <= ChunkSize
  IN  CASE n = 0 -> acc
        [] n # 0 /\ joins ->
             [chunks |-> acc.chunks, current |-> Append(acc.current, Piece(k, 1, n))]
        [] n # 0 /\ ~joins /\ n > ChunkSize ->
             [chunks |-> Flushed(acc) \o Windows(k, n), current |-> <<>>]
        [] n # 0 /\ ~joins /\ n <= ChunkSize ->
             [chunks |-> Flushed(acc), current |-> <<Piece(k, 1, n)>>]

\* acc[k]: what has been made of the first k paragraphs.
Chunked(text) ==
  LET acc[k \in 0..Len(text)] ==
        IF k = 0 THEN [chunks |-> <<>>, current |-> <<>>]
                 ELSE AddParagraph(acc[k - 1], k, text[k])
  IN  Flushed(acc[Len(text)])

-----------------------------------------------------------------------------
\* No chunk is longer than ChunkSize, and every character of every paragraph is in one.
HoldsText(chunks, text) ==
  /\ \A c \in DOMAIN chunks : chunks[c] # <<>> /\ Chars(chunks[c]) <= ChunkSize
  /\ \A k \in DOMAIN text : \A x \in 1..text[k] :
       \E c \in DOMAIN chunks : \E j \in DOMAIN chunks[c] :
         /\ chunks[c][j].para = k
         /\ x \in chunks[c][j].from..chunks[c][j].to

=============================================================================
