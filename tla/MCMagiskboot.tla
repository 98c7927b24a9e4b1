---------------------------- MODULE MCMagiskboot ----------------------------
(* The two halves of magiskboot, which share no state: either a boot image *)
(* is unpacked, edited, repacked and signed, or a file is compressed or    *)
(* decompressed.  The half that is not at work keeps an initial state.     *)
EXTENDS MCBootImage, MCStreams

VARIABLE tool

Init ==
  \/ tool = "image" /\ ImageInit /\ StreamInit /\ task = Job("gzip", "compress", <<Data(1, 3)>>, <<>>)
  \/ tool = "stream" /\ StreamInit /\ ImageInit /\ image = MkImage([Original EXCEPT !.cut = TRUE])

Next ==
  \/ tool = "image" /\ ImageNext /\ UNCHANGED <<streamVars, tool>>
  \/ tool = "stream" /\ StreamNext /\ UNCHANGED <<imageVars, tool>>

Spec == Init /\ [][Next]_<<imageVars, streamVars, tool>>
=============================================================================
