----------------------------- MODULE MCStreams -----------------------------
(* Two gzip members and what may follow them, one stream of every other    *)
(* format, and inputs around the chunk size for the encoders.              *)
EXTENDS Streams

Data(a, b) == [i \in 1..(b - a + 1) |-> <<"d", a + i - 1>>]
Job(fmt, op, parts, tail) == [fmt |-> fmt, op |-> op, parts |-> parts, tail |-> tail]
X == <<"x", 0>>

MCJobs ==
  {Job("gzip", "decompress", parts, tail) :
     parts \in {<<Data(1, 3)>>, <<Data(1, 2), Data(3, 5)>>},
     tail \in {<<>>, <<X, X>>, <<Id[1]>>, <<Id[1], X>>}}
  \cup {Job(fmt, "decompress", <<Data(1, 5)>>, tail) :
          fmt \in {"bzip2", "xz"}, tail \in {<<>>, <<X, X>>}}
  \cup {Job("lz4", "decompress", <<Data(1, 3), Data(4, 5)>>, <<>>)}
  \cup {Job(fmt, "decompress", <<Data(1, 7)>>, <<>>) : fmt \in {"lz4_legacy", "lz4_lg"}}
  \cup {Job(fmt, "compress", <<Data(1, n)>>, <<>>) :
          fmt \in {"gzip", "zopfli", "bzip2", "xz", "lz4", "lz4_legacy", "lz4_lg"},
          n \in {0, 3, 5, 6}}
=============================================================================
