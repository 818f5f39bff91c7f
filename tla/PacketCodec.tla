---------------------------- MODULE PacketCodec ----------------------------
(***************************************************************************)
(* How the bytes of a RouterOS connection become sentences                 *)
(* (packages/routeros-core/src/protocol and buffer/byte-buffer.ts): the    *)
(* socket hands over chunks cut anywhere, PacketAssembler.push() answers   *)
(* the sentences they complete and keeps the rest in a ByteBuffer.         *)
(*                                                                         *)
(* Bytes are numbers, a word is the sequence of its bytes (the text they   *)
(* stand for is left out), a sentence a sequence of words.                 *)
(***************************************************************************)
EXTENDS Integers, Sequences, SequencesExt

CONSTANTS
  Said,       \* the sentences the other side sends, in order
  CompactAt,  \* offset at which the buffer is compacted (the code: 4096)
  Sizes,      \* bound: lengths of the chunks tried
  MaxChunks   \* bound: chunks

VARIABLES
  fed,        \* bytes handed over so far
  cuts,       \* chunks so far, for the bound
  chunks,     \* ByteBuffer.chunks
  readOffset, \* ByteBuffer.readOffset
  heard       \* sentences push() answered so far

pcVars == <<fed, cuts, chunks, readOffset, heard>>

-----------------------------------------------------------------------------
(* length.ts, encoder.ts                                                   *)

EncodeLength(n) ==
  LET byte(k) == (n \div k) % 256 IN
  CASE n < 128 -> <<n>>
    [] 128 <= n /\ n < 16384 -> <<128 + n \div 256, n % 256>>
    [] 16384 <= n /\ n < 2097152 -> <<192 + n \div 65536, byte(256), n % 256>>
    [] 2097152 <= n /\ n < 268435456 ->
         <<224 + n \div 16777216, byte(65536), byte(256), n % 256>>
    [] OTHER -> <<240, byte(16777216), byte(65536), byte(256), n % 256>>

\* Bytes that follow the first one, which tells.
Following(first) ==
  CASE first < 128 -> 0
    [] first \in 128 .. 191 -> 1
    [] first \in 192 .. 223 -> 2
    [] first \in 224 .. 239 -> 3
    [] OTHER -> 4

\* decodeLength() at offset o (from 0), which must have its bytes.  The form of
\* five bytes is for lengths below 2^31, where << meets no sign.
Complete(b, o) == o < Len(b) /\ Len(b) - o >= 1 + Following(b[o + 1])
DecodeLength(b, o) ==
  LET first == b[o + 1]
      byte(i) == b[o + 1 + i]
  IN CASE Following(first) = 0 -> first
       [] Following(first) = 1 -> (first - 128) * 256 + byte(1)
       [] Following(first) = 2 -> (first - 192) * 65536 + byte(1) * 256 + byte(2)
       [] Following(first) = 3 ->
            (first - 224) * 16777216 + byte(1) * 65536 + byte(2) * 256 + byte(3)
       [] OTHER -> byte(1) * 16777216 + byte(2) * 65536 + byte(3) * 256 + byte(4)

EncodeWord(w) == EncodeLength(Len(w)) \o w
EncodeSentence(s) == FlattenSeq([i \in DOMAIN s |-> EncodeWord(s[i])]) \o <<0>>

Stream == FlattenSeq([i \in DOMAIN Said |-> EncodeSentence(Said[i])])

-----------------------------------------------------------------------------
(* byte-buffer.ts                                                          *)

Bytes(c) == FlattenSeq(c)
ToBuffer(c, o) == SubSeq(Bytes(c), o + 1, Len(Bytes(c)))

\* Mutant: the bytes read go, the offset stays.
Compact_KeepsOffset(c, o) ==
  LET total == Len(Bytes(c)) IN
  IF o >= total THEN [chunks |-> <<>>, offset |-> 0]
  ELSE IF o > CompactAt \/ 2 * o > total THEN [chunks |-> <<ToBuffer(c, o)>>, offset |-> o]
  ELSE [chunks |-> c, offset |-> o]

\* compactIfNeeded() after read(): the bytes read go when all are read, or many.
Compact(c, o) ==
  LET total == Len(Bytes(c)) IN
  IF o >= total THEN [chunks |-> <<>>, offset |-> 0]
  ELSE IF o > CompactAt \/ 2 * o > total THEN [chunks |-> <<ToBuffer(c, o)>>, offset |-> 0]
  ELSE [chunks |-> c, offset |-> o]

-----------------------------------------------------------------------------
(* packet-assembler.ts                                                     *)

\* tryReadSentence() goes from word to word of what the buffer holds.  One turn:
\* the read ends at an empty word, or in vain where bytes miss.
NextWord(b, st) ==
  LET n == DecodeLength(b, st.at)
      start == st.at + 1 + Following(b[st.at + 1])
  IN IF st.stop # "no" THEN st
     ELSE IF ~Complete(b, st.at) THEN [st EXCEPT !.stop = "null"]
     ELSE IF n = 0 THEN [st EXCEPT !.at = start, !.stop = "sentence"]
     ELSE IF Len(b) < start + n THEN [st EXCEPT !.stop = "null"]
     ELSE [st EXCEPT !.at = start + n, !.words = Append(st.words, SubSeq(b, start + 1, start + n))]

\* The turns end with a stop; each before takes a byte at least.
Walk(b) ==
  LET f[i \in 0 .. Len(b)] ==
        IF i = 0 THEN [at |-> 0, words |-> <<>>, stop |-> "no"] ELSE NextWord(b, f[i - 1])
  IN f[CHOOSE i \in 0 .. Len(b) : f[i].stop # "no" \/ i = Len(b)]

\* One turn of push(): a sentence is read and its bytes go, or the loop breaks.
NextSentence(st) ==
  LET w == Walk(ToBuffer(st.chunks, st.offset))
      k == Compact(st.chunks, st.offset + w.at)
  IN IF ~st.more THEN st
     ELSE IF w.stop # "sentence" THEN [st EXCEPT !.more = FALSE]
     ELSE [chunks |-> k.chunks, offset |-> k.offset, out |-> Append(st.out, w.words), more |-> TRUE]

\* The loop of push(): here too each turn before the last takes a byte at least.
Drain(c, o) ==
  LET turns == Len(ToBuffer(c, o))
      g[i \in 0 .. turns] ==
        IF i = 0 THEN [chunks |-> c, offset |-> o, out |-> <<>>, more |-> TRUE]
        ELSE NextSentence(g[i - 1])
  IN g[CHOOSE i \in 0 .. turns : ~g[i].more \/ i = turns]

Init ==
  /\ fed = 0 /\ cuts = 0
  /\ chunks = <<>> /\ readOffset = 0
  /\ heard = <<>>

\* push() of the next n bytes; an empty chunk adds nothing.
Push(n) ==
  /\ cuts < MaxChunks
  /\ fed + n <= Len(Stream)
  /\ fed' = fed + n
  /\ cuts' = cuts + 1
  /\ LET c == IF n = 0 THEN chunks ELSE Append(chunks, SubSeq(Stream, fed + 1, fed + n))
         d == Drain(c, readOffset)
     IN /\ chunks' = d.chunks
        /\ readOffset' = d.offset
        /\ heard' = heard \o d.out

Next == \E n \in Sizes : Push(n)

Spec == Init /\ [][Next]_pcVars

-----------------------------------------------------------------------------
TypeOK ==
  /\ fed \in 0 .. Len(Stream) /\ cuts \in 0 .. MaxChunks
  /\ readOffset \in 0 .. Len(Bytes(chunks))

\* The bytes of the first i sentences.
Prefix(i) == FlattenSeq([j \in 1 .. i |-> EncodeSentence(Said[j])])
Boundaries == {0, 1, 127, 128, 16383, 16384, 2097151, 2097152, 268435455, 268435456}

\* However the stream is cut, inside a length field or a word included, what was
\* heard is what was said up to the last sentence that has arrived whole, and
\* the buffer holds the bytes after it; and a length survives its encoding on
\* both sides of every boundary of its forms.
CutsDoNotMatter ==
  /\ \E k \in 0 .. Len(Said) :
       /\ heard = SubSeq(Said, 1, k)
       /\ Len(Prefix(k)) <= fed
       /\ k < Len(Said) => fed < Len(Prefix(k + 1))
       /\ ToBuffer(chunks, readOffset) = SubSeq(Stream, Len(Prefix(k)) + 1, fed)
  /\ \A n \in Boundaries : DecodeLength(EncodeLength(n), 0) = n
=============================================================================
