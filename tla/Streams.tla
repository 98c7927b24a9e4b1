------------------------------ MODULE Streams ------------------------------
(***************************************************************************)
(* The compression streams of magiskboot (native/src/boot/compress.cpp on  *)
(* native/src/base/stream.cpp) and the two commands that drive them,       *)
(* "compress" and "decompress".  The input file arrives in reads of any    *)
(* size; each read is one write() of the codec stream, and what the codec  *)
(* puts out goes to a file descriptor that may take it in pieces or fail.  *)
(*                                                                         *)
(* A byte is a pair <<kind, value>>.  gzip, bzip2, xz, lzma and LZ4 frames *)
(* have one container: two identification bytes, the data, an end mark and *)
(* a checksum byte holding the length.  Legacy LZ4 is a magic word and     *)
(* blocks, each behind a word that holds its size; a word is two bytes.    *)
(***************************************************************************)
EXTENDS Integers, Sequences, SequencesExt

CONSTANTS OutCap,      \* CHUNK: the output buffer of the library streams
          Chunk,       \* ZOPFLI_MASTER_BLOCK_SIZE and LZ4_UNCOMPRESSED
          BlockSz,     \* BLOCK_SZ of the LZ4 frame encoder
          ReadMax,     \* the buffer of the two commands
          Jobs         \* [fmt, op, parts, tail]: the commands to try

VARIABLES task, rest, strm, sink, phase, infile

streamVars == <<task, rest, strm, sink, phase, infile>>

Id == << <<"id", 1>>, <<"id", 2>> >>
Fin == <<"fin", 0>>
Word(n) == << <<"w1", n>>, <<"w2", n>> >>
WordSz == 2
Magic == 99            \* 0x184C2102, no block is that large

Container(data) == Id \o data \o <<Fin, <<"crc", Len(data)>> >>
\* An LZ4 block has the size of its data here; only its bytes differ.
Pack(data) == [i \in 1..Len(data) |-> <<"c", data[i][2]>>]
Unpack4(block) == [i \in 1..Len(block) |-> <<"d", block[i][2]>>]

----------------------------------------------------------------------------
(* The libraries.  in is next_in, out what this call left in the output    *)
(* buffer, z how far the container has been read.                          *)

Scan(s, b) ==
  CASE s.z = "id1" -> IF b = Id[1] THEN "id2" ELSE "bad"
    [] s.z = "id2" -> IF b = Id[2] THEN "body" ELSE "bad"
    [] s.z = "body" -> IF b[1] = "d" THEN "body" ELSE IF b = Fin THEN "sum" ELSE "bad"
    [] s.z = "sum" -> IF b = <<"crc", s.n>> THEN "end" ELSE "bad"

RECURSIVE Inflate(_)
Inflate(s) ==
  LET b == Head(s.in)
      data == s.z = "body" /\ b[1] = "d"
  IN  IF s.in = <<>> \/ s.z \in {"end", "bad"} \/ (data /\ Len(s.out) = OutCap)
      THEN s
      ELSE Inflate([s EXCEPT !.in = Tail(@), !.z = Scan(s, b),
                             !.n = IF data THEN @ + 1 ELSE @,
                             !.out = IF data THEN Append(@, b) ELSE @])

Deflate(s, finish) ==
  LET ready == s.pend \o s.in
               \o (IF finish /\ s.z # "end" THEN <<Fin, <<"crc", s.n + Len(s.in)>> >> ELSE <<>>)
      k == IF Len(ready) < OutCap THEN Len(ready) ELSE OutCap
  IN  [s EXCEPT !.in = <<>>, !.n = @ + Len(s.in), !.out = SubSeq(ready, 1, k),
                !.pend = SubSeq(ready, k + 1, Len(ready)),
                !.z = IF finish THEN "end" ELSE @]

Call(s, finish) ==
  LET t == [s EXCEPT !.out = <<>>]
      u == IF s.mode = "ENCODE" THEN Deflate(t, finish) ELSE Inflate(t)
  IN  [u EXCEPT !.put = @ \o u.out]

Failed(s) == [s EXCEPT !.ok = FALSE]
Reset(s) == [s EXCEPT !.z = "id1", !.n = 0]

----------------------------------------------------------------------------
(* gz_strm::do_write.  At the end of a member the bytes that are left tell *)
(* whether another member follows; a single byte has to WAIT for the next  *)
(* write, and anything that is no gzip is dropped (mode COPY).             *)

RECURSIVE GzLoop(_, _)
GzLoop(s, finish) ==
  LET u == Call(s, finish) IN
  IF s.mode = "COPY" THEN s
  ELSE IF u.mode = "DECODE" /\ u.z = "end"
       THEN IF Len(u.in) > 1 /\ SubSeq(u.in, 1, 2) = Id THEN GzLoop(Reset(u), finish)
            ELSE IF Len(u.in) = 0 THEN u
            ELSE [u EXCEPT !.mode = IF u.in = <<Id[1]>> THEN "WAIT" ELSE "COPY"]
       ELSE IF Len(u.out) = OutCap THEN GzLoop(u, finish) ELSE u

\* Mutant: the member that follows is forgotten when only its first byte
\* is in this write.
GzWriteNoWait(s, buf, finish) ==
  IF s.mode = "WAIT" THEN [s EXCEPT !.mode = "COPY"]
  ELSE GzLoop([s EXCEPT !.in = buf], finish)

GzWrite(s, buf, finish) ==
  IF s.mode # "WAIT" THEN GzLoop([s EXCEPT !.in = buf], finish)
  ELSE IF buf = <<>> THEN s
  ELSE IF Head(buf) = Id[2]
       THEN LET t == Inflate([Reset(s) EXCEPT !.mode = "DECODE", !.in = <<Id[1]>>])
            IN  GzLoop([t EXCEPT !.in = buf], finish)
       ELSE [s EXCEPT !.mode = "COPY"]

\* bz_strm::do_write: a call after the end of the stream is an error.
RECURSIVE BzLoop(_, _)
BzLoop(s, finish) ==
  LET u == Call(s, finish) IN
  IF u.mode = "DECODE" /\ (u.z = "bad" \/ s.z = "end") THEN Failed(u)
  ELSE IF Len(u.out) = OutCap /\ ~(u.z = "end" /\ u.pend = <<>>)
       THEN BzLoop(u, finish) ELSE u

BzWrite(s, buf, finish) == BzLoop([s EXCEPT !.in = buf], finish)

\* lzma_strm::do_write: what follows the end of the stream is not read.
RECURSIVE LzmaLoop(_, _)
LzmaLoop(s, finish) ==
  LET u == Call(s, finish) IN
  IF u.z = "bad" \/ (finish /\ u.mode = "DECODE" /\ u.z # "end") THEN Failed(u)
  ELSE IF Len(u.out) = OutCap THEN LzmaLoop(u, finish) ELSE u

LzmaWrite(s, buf, finish) == LzmaLoop([s EXCEPT !.in = buf], finish)

----------------------------------------------------------------------------
(* LZ4F_decoder and LZ4F_encoder.  begun says that outbuf is allocated.    *)

RECURSIVE FrameLoop(_)
FrameLoop(s) ==
  LET u == Call(IF s.z = "end" /\ s.in # <<>> THEN Reset(s) ELSE s, FALSE) IN
  IF u.z = "bad" THEN Failed(u)
  ELSE IF u.in # <<>> \/ u.out # <<>> THEN FrameLoop(u) ELSE u

\* LZ4F_getFrameInfo reads the header, which the first read holds whole.
LZ4FDecode(s, buf) == FrameLoop([s EXCEPT !.in = buf, !.begun = TRUE])

Prefix(s, k) == SubSeq(s, 1, IF k < Len(s) THEN k ELSE Len(s))
RECURSIVE LZ4FPieces(_, _)
LZ4FPieces(s, in) ==
  LET read == Prefix(in, BlockSz) IN
  IF in = <<>> THEN s
  ELSE LZ4FPieces([s EXCEPT !.put = @ \o read, !.n = @ + Len(read)],
                  SubSeq(in, Len(read) + 1, Len(in)))

LZ4FEncode(s, buf) ==
  LZ4FPieces(IF s.begun THEN s ELSE [s EXCEPT !.begun = TRUE, !.put = @ \o Id], buf)

\* Without a write there is no buffer and no frame to end.
LZ4FEnd(s) ==
  IF s.begun THEN [s EXCEPT !.put = @ \o <<Fin, <<"crc", s.n>> >>] ELSE Failed(s)

----------------------------------------------------------------------------
(* chunk_out_stream and the three streams that write chunk by chunk.       *)

\* LZ4_decoder::write_chunk: a size word and a block in turn.
DecodeChunk(s, src) ==
  IF Len(src) # s.chunk THEN Failed(s)
  ELSE IF s.size = 0
       THEN LET n == src[1][2] IN
            [s EXCEPT !.size = IF n = Magic THEN 0 ELSE n,
                      !.chunk = IF n = Magic THEN WordSz ELSE n]
       ELSE LET t == [s EXCEPT !.chunk = WordSz, !.size = 0] IN
            IF \E i \in 1..Len(src) : src[i][1] # "c" THEN Failed(t)
            ELSE [t EXCEPT !.put = @ \o Unpack4(src)]

\* LZ4_encoder::write_chunk
EncodeChunk(s, src) ==
  [s EXCEPT !.put = @ \o Word(Len(src)) \o Pack(src), !.n = @ + Len(src)]

\* zopfli_encoder::write_chunk: the last byte stays for the next call.
ZopfliChunk(s, src, final) ==
  LET o == s.pend \o src \o (IF final THEN <<Fin>> ELSE <<>>) IN
  [s EXCEPT !.put = @ \o Front(o), !.pend = <<Last(o)>>, !.n = @ + Len(src)]

WriteChunk(s, src, final) ==
  IF s.fmt = "zopfli" THEN ZopfliChunk(s, src, final)
  ELSE IF s.mode = "DECODE" THEN DecodeChunk(s, src) ELSE EncodeChunk(s, src)

RECURSIVE ChunkWrite(_, _)
ChunkWrite(s, in) ==
  LET copy == s.chunk - Len(s.buf)
      t == WriteChunk([s EXCEPT !.buf = <<>>], s.buf \o SubSeq(in, 1, copy), FALSE)
  IN  IF in = <<>> \/ ~s.ok THEN s
      ELSE IF Len(s.buf) + Len(in) >= s.chunk
           THEN ChunkWrite(t, SubSeq(in, copy + 1, Len(in)))
           ELSE [s EXCEPT !.buf = @ \o in]

Finalize(s) ==
  IF s.buf = <<>> THEN s ELSE WriteChunk([s EXCEPT !.buf = <<>>], s.buf, TRUE)

----------------------------------------------------------------------------
(* get_encoder and get_decoder: the stream each format gets, its write()   *)
(* and its destructor.                                                     *)

Class(fmt, op) ==
  CASE fmt \in {"xz", "lzma"} -> "lzma"
    [] fmt = "bzip2" -> "bz"
    [] fmt = "lz4" -> "lz4f"
    [] fmt \in {"lz4_legacy", "lz4_lg"} -> "chunk"
    [] fmt = "zopfli" /\ op = "compress" -> "chunk"
    [] OTHER -> "gz"

Create(fmt, op) ==
  LET encode == op = "compress"
      class == Class(fmt, op)
      lib == encode /\ class \in {"gz", "bz", "lzma"}
  IN  [fmt |-> fmt, class |-> class, mode |-> IF encode THEN "ENCODE" ELSE "DECODE",
       z |-> "id1", n |-> 0, in |-> <<>>, out |-> <<>>, buf |-> <<>>, size |-> 0,
       chunk |-> IF encode THEN Chunk ELSE WordSz, begun |-> FALSE, ok |-> TRUE,
       pend |-> IF lib \/ (fmt = "zopfli" /\ encode) THEN Id ELSE <<>>,
       put |-> IF encode /\ class = "chunk" /\ fmt # "zopfli" THEN Word(Magic) ELSE <<>>]

StreamWrite(s, buf) ==
  CASE s.class = "gz" -> GzWrite(s, buf, FALSE)
    [] s.class = "bz" -> BzWrite(s, buf, FALSE)
    [] s.class = "lzma" -> LzmaWrite(s, buf, FALSE)
    [] s.class = "lz4f" -> IF s.mode = "ENCODE" THEN LZ4FEncode(s, buf) ELSE LZ4FDecode(s, buf)
    [] s.class = "chunk" -> ChunkWrite(s, buf)

\* The library streams drop the result of their last do_write.
Destroy(s) ==
  CASE s.class = "gz" -> GzWrite(s, <<>>, TRUE)
    [] s.class = "bz" -> IF s.mode = "ENCODE" THEN BzWrite(s, <<>>, TRUE) ELSE s
    [] s.class = "lzma" -> [LzmaWrite(s, <<>>, TRUE) EXCEPT !.ok = TRUE]
    [] s.class = "lz4f" -> IF s.mode = "ENCODE" THEN LZ4FEnd(s) ELSE s
    [] s.class = "chunk" ->
         LET t == Finalize(s) IN
         IF s.fmt = "zopfli" THEN [t EXCEPT !.put = @ \o t.pend \o << <<"crc", t.n>> >>]
         ELSE IF s.fmt = "lz4_lg" /\ s.mode = "ENCODE" THEN [t EXCEPT !.put = @ \o Word(t.n)]
         ELSE t

----------------------------------------------------------------------------
(* The commands.  An error that reaches LOGE ends the process.             *)

Flat(parts) == FlattenSeq(parts)
Blocks4(data) ==
  LET k == (Len(data) + Chunk - 1) \div Chunk
      block(i) == SubSeq(data, (i - 1) * Chunk + 1,
                         IF i * Chunk < Len(data) THEN i * Chunk ELSE Len(data))
  IN  FlattenSeq([i \in 1..k |-> Word(Len(block(i))) \o Pack(block(i))])
Legacy(j, data) ==
  Word(Magic) \o Blocks4(data) \o (IF j.fmt = "lz4_lg" THEN Word(Len(data)) ELSE <<>>)
Lz4(j) == j.fmt \in {"lz4_legacy", "lz4_lg"}

InputOf(j) ==
  IF j.op = "compress" THEN Flat(j.parts)
  ELSE IF Lz4(j) THEN Legacy(j, Flat(j.parts))
  ELSE Flat([i \in 1..Len(j.parts) |-> Container(j.parts[i])]) \o j.tail

StreamInit ==
  /\ task \in Jobs
  /\ rest = InputOf(task) /\ strm = Create(task.fmt, task.op)
  /\ sink = <<>> /\ phase = "run" /\ infile = "kept"

\* One read() of the loop and the write() it feeds.  The first read holds
\* the bytes the format is recognised by.
ReadWrite(n) ==
  /\ phase = "run" /\ strm.put = <<>> /\ n <= Len(rest)
  /\ Len(rest) = Len(InputOf(task)) => n >= Len(Id) \/ n = Len(rest)
  /\ rest' = SubSeq(rest, n + 1, Len(rest))
  /\ LET s == StreamWrite(strm, SubSeq(rest, 1, n)) IN
     /\ strm' = s
     /\ phase' = IF s.ok THEN "run" ELSE "failed"
  /\ UNCHANGED <<task, sink, infile>>

\* file_stream::write: the descriptor takes what it wants.
SinkWrite(k) ==
  /\ phase \in {"run", "closing"} /\ k \in 1..Len(strm.put)
  /\ sink' = sink \o SubSeq(strm.put, 1, k)
  /\ strm' = [strm EXCEPT !.put = SubSeq(@, k + 1, Len(@))]
  /\ UNCHANGED <<task, rest, phase, infile>>

\* strm.reset(nullptr)
Reset_strm ==
  /\ phase = "run" /\ rest = <<>> /\ strm.put = <<>>
  /\ LET s == Destroy(strm) IN
     strm' = s /\ phase' = IF s.ok THEN "closing" ELSE "failed"
  /\ UNCHANGED <<task, rest, sink, infile>>

\* Whether a failing write inside the destructor reaches LOGE: finalize()
\* and ~LZ4F_encoder say so, the library streams and the trailers do not.
Reported ==
  \/ strm.class = "lz4f"
  \/ /\ strm.class = "chunk"
     /\ Len(strm.put) > CASE strm.fmt = "zopfli" -> Len(strm.pend) + 1
                         [] strm.fmt = "lz4_lg" -> WordSz
                         [] OTHER -> 0

\* The descriptor fails for good, as on a full disk.
SinkFail ==
  /\ phase \in {"run", "closing"} /\ strm.put # <<>>
  /\ phase' = IF phase = "run" \/ Reported THEN "failed" ELSE "lost"
  /\ strm' = [strm EXCEPT !.put = <<>>]
  /\ UNCHANGED <<task, rest, sink, infile>>

\* Without an output name the input is unlinked at the end.
Finish ==
  /\ phase \in {"closing", "lost"} /\ strm.put = <<>>
  /\ phase' = IF phase = "closing" THEN "done" ELSE "done_short"
  /\ infile' = "unlinked"
  /\ UNCHANGED <<task, rest, strm, sink>>

StreamNext ==
  \/ \E n \in 1..ReadMax : ReadWrite(n)
  \/ \E k \in {1, Len(strm.put)} : SinkWrite(k)
  \/ Reset_strm \/ SinkFail \/ Finish

StreamSpec == StreamInit /\ [][StreamNext]_streamVars

----------------------------------------------------------------------------
\* What the output has to be.  Decoders of bzip2, xz and lzma read one
\* stream; gzip members and LZ4 frames are read to the last.
Expected(j) ==
  LET data == Flat(j.parts) IN
  IF j.op = "decompress"
  THEN IF Class(j.fmt, j.op) \in {"bz", "lzma"} THEN j.parts[1] ELSE data
  ELSE IF Lz4(j) THEN Legacy(j, data) ELSE Container(data)

\* zopfli_encoder marks the last block in finalize(), which has nothing to
\* write when the chunks came out even.
Unfinished(j) == j.fmt = "zopfli" /\ j.op = "compress" /\ Len(Flat(j.parts)) % Chunk = 0

(* However the input is cut into reads and the output into writes, a       *)
(* command that ends without an error has written exactly the data         *)
(* (decoders) or a complete container of it (encoders), and only then is   *)
(* the input unlinked; an error leaves the input where it was.             *)
StreamFaithful ==
  /\ phase = "done" /\ ~Unfinished(task) => sink = Expected(task)
  /\ phase = "failed" => infile = "kept"
  /\ infile = "unlinked" => phase \in {"done", "done_short"}
=============================================================================
