---------------------------- MODULE MCBootImage ----------------------------
EXTENDS BootImage
Original == [ver |-> "v0", head |-> "none", seal |-> "none", kernel |-> "gzip",
             ramdisk |-> "GZIP", room |-> 0, cut |-> FALSE]
MCOriginals ==
    {[Original EXCEPT !.ver = v, !.ramdisk = "LZ4_LEGACY"] : v \in Versions \ {"vnd4"}}
    \cup {[Original EXCEPT !.kernel = p[1], !.ramdisk = p[2]] :
              p \in {<<"gzip_dtb", "raw">>, <<"raw_dtb", "XZ">>, <<"mtk", "mtk">>, <<"zimage", "GZIP">>, <<"zimage_odd", "mtk">>}}
    \cup {[Original EXCEPT !.ver = v, !.head = h, !.seal = IF h = "DHTB" THEN "SEANDROID" ELSE "none"] :
              v \in {"v1"}, h \in Heads \cup {"AMONET"}}
    \cup {[Original EXCEPT !.ver = v, !.seal = t, !.room = n] :
              v \in {"v2", "v4"}, t \in {"AVB", "AVB1", "SEANDROID", "LG_BUMP"}, n \in {0, 20}}
    \cup {[Original EXCEPT !.cut = TRUE]}
MCVendor == {[Original EXCEPT !.ver = v] : v \in {"vnd4"}}
MCNewFiles == {"small", "large", "packed", "gone"}
=============================================================================
