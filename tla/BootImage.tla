----------------------------- MODULE BootImage -----------------------------
(***************************************************************************)
(* magiskboot's view of an Android boot image: parsing it, unpacking it    *)
(* into files, and repacking those files into a new image                  *)
(* (native/src/boot/bootimg.cpp, bootimg.hpp, main.cpp, format.cpp).       *)
(*                                                                         *)
(* An image is a sequence of cells; a cell is a pair of a tag and a value  *)
(* and stands for a few bytes that are only ever moved together: a header, *)
(* a magic, a piece of a component.  Offsets, sizes and alignment are      *)
(* those of the code, counted in cells, and every read is by offset, so a  *)
(* block written in the wrong place is read back as something else.        *)
(***************************************************************************)
EXTENDS Integers, Sequences, SequencesExt, FiniteSets

CONSTANTS
    Page,           \* the page size of the header, in cells
    BlockSize,      \* 4096 bytes in cells: the alignment of vbmeta and of a mapping
    ArgsSize,       \* BOOT_ARGS_SIZE
    ExtraArgsSize,  \* BOOT_EXTRA_ARGS_SIZE
    NameSize,       \* the 15 characters of a name that survive load_hdr_file
    Originals,      \* the descriptions of the images magiskboot is given
    NewFiles,       \* what a user may put into a component's file
    Rounds          \* how many times an image is repacked in a row

VARIABLES
    image,          \* the image on disk, a sequence of cells
    dir,            \* the files of the current directory
    out,            \* new-boot.img
    job             \* where the sequence of commands stands, and its options

imageVars == <<image, dir, out, job>>

Absent == <<<<"absent", 0>>>>
Endless == <<<<"endless", 0>>>>
Zero == <<"zero", 0>>
Zeros(n) == [i \in 1..n |-> Zero]
AlignTo(n, a) == ((n + a - 1) \div a) * a

(* Mapped memory: n cells from offset off; a mapping is zero past the file. *)
Map(s, off, n) == [i \in 1..n |-> IF off + i <= Len(s) THEN s[off + i] ELSE Zero]
TagAt(s, off) == Map(s, off, 1)[1][1]
Put(s, off, c) == [s EXCEPT ![off + 1] = c]
Index(s, Test(_)) == SelectInSeq(s, Test)

----------------------------------------------------------------------------
(* format.cpp: a compressed blob starts with the magic of its format, and   *)
(* that cell also holds what the blob decompresses to.                      *)
SupportedFormats == {"GZIP", "ZOPFLI", "XZ", "LZMA", "BZIP2", "LZ4", "LZ4_LEGACY", "LZ4_LG"}
COMPRESSED(fmt) == fmt \in SupportedFormats
COMPRESSED_ANY(fmt) == COMPRESSED(fmt) \/ fmt = "LZOP"

check_fmt(s) ==
    IF s = <<>> THEN "UNKNOWN"
    ELSE LET c == s[1] IN
         CASE c[1] = "z" -> c[2].fmt
           [] c[1] = "mtk" -> "MTK"
           [] c[1] = "zimage" -> "ZIMAGE"
           [] c[1] = "dtb" -> "DTB"
           [] OTHER -> "UNKNOWN"

(* compress.cpp as a pair of functions: zopfli writes the gzip format, and  *)
(* smaller; a decoder needs its whole input and ignores what follows it.    *)
Compress(fmt, s) ==
    LET len == IF fmt = "ZOPFLI" THEN 1 + Len(s) \div 3 ELSE 1 + Len(s) \div 2
        f == IF fmt = "ZOPFLI" THEN "GZIP" ELSE fmt
    IN [i \in 1..len |-> IF i = 1 THEN <<"z", [fmt |-> f, of |-> s, len |-> len]>>
                                  ELSE <<"body", <<f, i>>>>]

Decompress(s) ==
    LET z == s[1][2] IN
    IF Map(s, 1, z.len - 1) = [i \in 1..z.len - 1 |-> <<"body", <<z.fmt, i + 1>>>>]
    THEN z.of ELSE <<<<"damaged", 0>>>>

(* Decompression on the fly, unless -n was given. *)
Plain(s, keep) == IF ~keep /\ s # <<>> /\ COMPRESSED(check_fmt(s)) THEN Decompress(s) ELSE s

(* A file goes into the image compressed as its component was, unless -n    *)
(* was given or the file already is compressed.                             *)
Encoded(m, fmt, keep) ==
    IF ~keep /\ ~COMPRESSED_ANY(check_fmt(m)) /\ COMPRESSED(fmt) THEN Compress(fmt, m) ELSE m

----------------------------------------------------------------------------
(* dyn_img_hdr: every header version answers for every block; a size it has *)
(* no field for reads as zero, and a write to it is lost.                   *)
Blocks == <<"kernel", "ramdisk", "second", "extra", "recovery_dtbo", "dtb",
            "signature", "table", "bootconfig">>
BlockNames == ToSet(Blocks)
Versions == {"v0", "v1", "v2", "v3", "v4", "pxa", "vnd3", "vnd4"}

Fields == [v \in Versions |->
    CASE v \in {"v0", "pxa"} -> {"kernel", "ramdisk", "second", "extra"}
      [] v = "v1" -> {"kernel", "ramdisk", "second", "recovery_dtbo"}
      [] v = "v2" -> {"kernel", "ramdisk", "second", "recovery_dtbo", "dtb"}
      [] v = "v3" -> {"kernel", "ramdisk"}
      [] v = "v4" -> {"kernel", "ramdisk", "signature"}
      [] v = "vnd3" -> {"ramdisk", "dtb"}
      [] v = "vnd4" -> {"ramdisk", "dtb", "table", "bootconfig"}]

IsVendor(h) == h.ver \in {"vnd3", "vnd4"}
HasId(h) == h.ver \in {"v0", "v1", "v2", "pxa"}
HasName(h) == h.ver \notin {"v3", "v4"}
HasOs(h) == h.ver \notin {"pxa", "vnd3", "vnd4"}

Size(h, b) == IF b \in Fields[h.ver] THEN h.size[b] ELSE 0
SetSize(h, b, n) == IF b \in Fields[h.ver] THEN [h EXCEPT !.size[b] = n] ELSE h

(* A vendor header is longer than a page of 2048 bytes. *)
HdrSpace(h) == IF IsVendor(h) THEN 2 * Page ELSE Page

(* Where block i starts, from the header; Len(Blocks) + 1 is the end. *)
Offsets(h) ==
    LET off[i \in 1..Len(Blocks) + 1] ==
            IF i = 1 THEN HdrSpace(h)
            ELSE off[i - 1] + AlignTo(Size(h, Blocks[i - 1]), Page)
    IN off


(* dump_hdr_file and load_hdr_file: the header file is text; the packed     *)
(* os_version is written as five numbers and packed again when read.        *)
Bits(n, hi, lo) == (n \div 2^lo) % 2^(hi - lo)
Os(h) == IF HasOs(h) THEN h.os ELSE 0

dump_hdr_file(h) ==
    [name    |-> IF HasName(h) THEN h.name ELSE <<>>,
     cmdline |-> h.cmd \o h.extra,
     os      |-> IF Os(h) = 0 THEN <<>>
                 ELSE <<Bits(Os(h), 31, 25), Bits(Os(h), 25, 18), Bits(Os(h), 18, 11),
                        2000 + Bits(Os(h), 11, 4), Bits(Os(h), 4, 0)>>]

load_hdr_file(h, f) ==
    LET cut(s, from, n) == SubSeq(s, from + 1, from + (IF Len(s) - from < n THEN Len(s) - from ELSE n))
        ver == (f.os[1] * 2^14 + f.os[2] * 2^7 + f.os[3]) * 2^11
        level == (f.os[4] - 2000) * 2^4 + f.os[5]
    IN [h EXCEPT !.name = IF HasName(h) THEN cut(f.name, 0, NameSize) ELSE @,
                 !.cmd = cut(f.cmdline, 0, ArgsSize),
                 !.extra = cut(f.cmdline, ArgsSize, ExtraArgsSize),
                 !.os = IF HasOs(h) /\ f.os # <<>> THEN ver + level ELSE @]

----------------------------------------------------------------------------
(* The magics looked for in front of the header, and create_hdr's shifts.   *)
Heads == {"CHROMEOS", "DHTB", "BLOB", "NOOKHD", "ACCLAIM"}
HeadLen == 2        \* its magic, and the size and checksum that follow

BaseOf(img, p) == IF p > 0 /\ TagAt(img, p - 1) = "AMONET" THEN p - 1 ELSE p
HeaderAt(img, p) == img[p + 1][2]

(* assert_off after each get_block *)
Fits(img, p) ==
    BaseOf(img, p) + Offsets(HeaderAt(img, p))[Len(Blocks) + 1] <= AlignTo(Len(img), BlockSize)

(* boot_img::boot_img: the first header that parses. *)
HeaderPlaces(img) == {p \in 0..Len(img) - 1 : TagAt(img, p) = "hdr" /\ Fits(img, p)}
Parses(img) == HeaderPlaces(img) # {}
HeaderPlace(img) == CHOOSE p \in HeaderPlaces(img) : \A q \in HeaderPlaces(img) : p <= q

(* find_dtb_offset: the first device tree whose own header is consistent. *)
find_dtb_offset(s) == LET valid(c) == c = <<"dtb", TRUE>> IN Index(s, valid) - 1

(* What parse_image makes of the kernel block: an appended device tree, an  *)
(* MTK header, and a zImage's header, compressed kernel and tail.           *)
Piggy(body) ==
    LET starts(c) == c[1] \in {"z", "mtk", "zimage", "dtb"}
    IN IF check_fmt(body) = "ZIMAGE" /\ body[1][2] > 0
       THEN SelectInSubSeq(body, 2, Len(body), starts) ELSE 0

ParseZimage(body, start) ==
    LET z == start > 0 IN
    [zimage |-> z,
     zhdr |-> IF z THEN SubSeq(body, 1, start - 1) ELSE <<>>,
     ztail |-> IF z THEN SubSeq(body, body[1][2] + 1, Len(body)) ELSE <<>>,
     data |-> IF z THEN SubSeq(body, start, body[1][2]) ELSE body]

ParseBody(body) == LET z == ParseZimage(body, Piggy(body)) IN [fmt |-> check_fmt(z.data)] @@ z

ParseHdr(whole) ==
    IF check_fmt(whole) = "MTK"
    THEN [mtk |-> TRUE, hdr |-> <<whole[1]>>] @@ ParseBody(Tail(whole))
    ELSE [mtk |-> FALSE, hdr |-> <<>>] @@ ParseBody(whole)

SplitKernel(block, split) ==
    [dtb |-> SubSeq(block, split + 1, Len(block))] @@ ParseHdr(SubSeq(block, 1, split))

ParseKernel(block) ==
    LET d == find_dtb_offset(block) IN SplitKernel(block, IF d > 0 THEN d ELSE Len(block))

ParseRamdisk(block, table) ==
    LET mtk == table = <<>> /\ check_fmt(block) = "MTK"
        r == IF mtk THEN Tail(block) ELSE block
    IN [mtk |-> mtk, hdr |-> (IF mtk THEN <<block[1]>> ELSE <<>>), data |-> r, fmt |-> check_fmt(r)]

(* AVB: the footer is the last cell of the page-aligned mapping, and counts *)
(* only when the vbmeta it points to is there.                              *)
FindVbmeta(img, base) ==
    LET end == AlignTo(Len(img), BlockSize)
        f == Map(img, end - 1, 1)[1]
    IN IF f[1] = "footer" /\ TagAt(img, base + f[2].offset) = "vbmeta"
       THEN Map(img, base + f[2].offset, f[2].size) ELSE <<>>

(* The blocks that the header at p describes. *)
GetBlocks(img, p, base, h, off) ==
    [at |-> p, base |-> base, h |-> h, tail |-> base + off[Len(Blocks) + 1],
     payload |-> Map(img, base, off[Len(Blocks) + 1]),
     blk |-> [b \in BlockNames |->
                 LET i == CHOOSE j \in 1..Len(Blocks) : Blocks[j] = b
                 IN Map(img, base + off[i], Size(h, b))],
     heads |-> {img[i][2] : i \in {j \in 1..p : img[j][1] = "head"}},
     vbmeta |-> FindVbmeta(img, base)]

create_hdr(img, p) ==
    GetBlocks(img, p, BaseOf(img, p), HeaderAt(img, p), Offsets(HeaderAt(img, p)))

(* The marks in front of the header and behind the blocks. *)
ParseFlags(x, mark) ==
    x.heads
    \cup (IF "DHTB" \in x.heads \/ mark[1] = "SEANDROID" THEN {"SEANDROID"} ELSE {})
    \cup (IF mark[1] = "LG_BUMP" THEN {"LG_BUMP"} ELSE {})
    \cup (IF x.base # x.at THEN {"AMONET"} ELSE {})
    \cup (IF mark[1] = "sig" /\ mark[2] = x.payload THEN {"AVB1"} ELSE {})
    \cup (IF x.vbmeta # <<>> THEN {"AVB"} ELSE {})

ParseBlocks(img, x) ==
    [base |-> x.base, h |-> x.h, blk |-> x.blk, payload |-> x.payload, tail |-> x.tail,
     k |-> ParseKernel(x.blk["kernel"]), r |-> ParseRamdisk(x.blk["ramdisk"], x.blk["table"]),
     e_fmt |-> check_fmt(x.blk["extra"]), vbmeta |-> x.vbmeta,
     flags |-> ParseFlags(x, Map(img, x.tail, 1)[1])]

parse_image(img) == ParseBlocks(img, create_hdr(img, HeaderPlace(img)))

----------------------------------------------------------------------------
VendorFiles == {"platform.cpio", "dlkm.cpio"}
Files == {"header", "kernel", "kernel_dtb", "ramdisk.cpio", "second", "extra",
          "recovery_dtbo", "dtb", "bootconfig"} \cup VendorFiles
Readable(d, f) == d[f] # Absent

(* dump: an empty component leaves the directory as it is *)
Dump(s, old) == IF s = <<>> THEN old ELSE s

Entries(b) == [i \in 1..Len(b.blk["table"]) |-> b.blk["table"][i][2]]
VendorBlob(b, e) == Map(b.blk["ramdisk"], e.offset, e.size)

unpack(b, d, keep, hdr) ==
    [f \in Files |->
        CASE f = "header" -> IF hdr THEN <<<<"text", dump_hdr_file(b.h)>>>> ELSE d[f]
          [] f = "kernel" -> Dump(Plain(b.k.data, keep), d[f])
          [] f = "kernel_dtb" -> Dump(b.k.dtb, d[f])
          [] f = "ramdisk.cpio" -> IF b.blk["table"] # <<>> THEN d[f] ELSE Dump(Plain(b.r.data, keep), d[f])
          [] f = "extra" -> Dump(Plain(b.blk["extra"], keep), d[f])
          [] f \in VendorFiles ->
                LET named == {i \in DOMAIN Entries(b) : Entries(b)[i].name = f}
                IN IF named = {} THEN d[f]
                   ELSE Plain(VendorBlob(b, Entries(b)[CHOOSE i \in named : \A j \in named : j <= i]), keep)
          [] OTHER -> Dump(b.blk[f], d[f])]

----------------------------------------------------------------------------
(* repack: w is the image written so far, its header, and where it starts.  *)
Write(w, s) == [w EXCEPT !.c = @ \o s]
FileAlign(w, a) == LET n == Len(w.c) - w.header IN Write(w, Zeros(AlignTo(n, a) - n))
Sized(w, b, n) == [w EXCEPT !.h = SetSize(@, b, n)]
Mark(w, b) == [w EXCEPT !.off[b] = Len(w.c)]

(* Copy what is in front of the header, then the raw header; the sizes of   *)
(* extra and recovery_dtbo are not reset.                                   *)
StartImage(img, b, d) ==
    LET h0 == [b.h EXCEPT !.size = [x \in BlockNames |->
                  IF x \in {"kernel", "ramdisk", "second", "dtb", "bootconfig"} THEN 0 ELSE @[x]]]
        h == IF Readable(d, "header") THEN load_hdr_file(h0, d["header"][1][2]) ELSE h0
        head == IF "DHTB" \in b.flags THEN Zeros(HeadLen)
                ELSE IF b.flags \cap {"BLOB", "NOOKHD", "ACCLAIM"} # {} THEN Map(img, 0, HeadLen)
                ELSE <<>>
    IN [c |-> head \o Map(img, b.base, HdrSpace(h)), h |-> h, header |-> Len(head),
        off |-> [x \in BlockNames |-> 0]]

(* A zImage keeps its size: a kernel that grew is dropped for the original, *)
(* one that shrank is padded, its last word being the uncompressed size.    *)
(* With no room for that word the unsigned difference wraps around, and     *)
(* write_zero is asked for nearly 2^64 zeros.                               *)
ZimageKernel(m, data, orig, keep) ==
    IF Len(data) > Len(orig) THEN orig
    ELSE IF keep THEN data
    ELSE IF Len(data) = Len(orig) THEN Endless
    ELSE data \o Zeros(Len(orig) - Len(data) - 1) \o <<<<"word", Len(m)>>>>

NewKernel(b, d, keep) ==
    LET fmt == IF b.k.zimage /\ b.k.fmt = "GZIP" THEN "ZOPFLI" ELSE b.k.fmt
        data == Encoded(d["kernel"], fmt, keep)
    IN IF ~Readable(d, "kernel") THEN b.k.data
       ELSE IF b.k.zimage THEN ZimageKernel(d["kernel"], data, b.k.data, keep)
       ELSE data

WriteKernel(w, b, d, keep) ==
    LET k == NewKernel(b, d, keep)
        dtb == IF Readable(d, "kernel_dtb") THEN d["kernel_dtb"] ELSE <<>>
        size == IF b.k.zimage THEN Len(b.k.data) ELSE Len(k)
    IN FileAlign(Sized(Write(Mark(w, "kernel"), b.k.hdr \o b.k.zhdr \o k \o b.k.ztail \o dtb),
                       "kernel", size + Len(b.k.zhdr) + Len(b.k.ztail) + Len(dtb)), Page)

(* The path handed to the mapping is that of the directory, not of the      *)
(* entry's file, so what is mapped is empty.                                *)
VendorFile(d, f) == <<>>

WriteVendorRamdisks(w, b, d, keep) ==
    LET es == Entries(b)
        blob == [i \in DOMAIN es |-> LET m == VendorFile(d, es[i].name)
                                     IN Encoded(m, check_fmt(VendorBlob(b, es[i])), keep)]
        start[i \in 1..Len(es) + 1] == IF i = 1 THEN 0 ELSE start[i - 1] + Len(blob[i - 1])
        table == [i \in DOMAIN es |-> <<"entry", [es[i] EXCEPT !.offset = start[i], !.size = Len(blob[i])]>>]
    IN [w |-> FileAlign(Sized(Write(Mark(w, "ramdisk"), FlattenSeq(blob)), "ramdisk", start[Len(es) + 1]), Page),
        table |-> table]

WriteRamdisk(w, b, d, keep) ==
    LET fmt == IF ~keep /\ b.h.ver = "v4" THEN "LZ4_LEGACY" ELSE b.r.fmt
        m == Encoded(d["ramdisk.cpio"], fmt, keep)
        started == Write(Mark(w, "ramdisk"), b.r.hdr)
    IN IF Readable(d, "ramdisk.cpio")
       THEN FileAlign(Sized(Write(started, m), "ramdisk", Len(m)), Page) ELSE started

(* second, extra, recovery_dtbo, dtb and bootconfig: a file that is there   *)
(* becomes the block, aligned; nothing is written for one that is not.      *)
WriteFileUnaligned(w, b, s) == Sized(Write(Mark(w, b), s), b, Len(s))
WriteFile(w, b, s) == FileAlign(Sized(Write(Mark(w, b), s), b, Len(s)), Page)
WriteIf(w, d, b, s) == IF Readable(d, b) THEN WriteFile(w, b, s) ELSE Mark(w, b)
WriteRaw(w, s) == IF s = <<>> THEN w ELSE FileAlign(Write(w, s), Page)
WriteRecoveryDtbo(w, d) ==
    IF Readable(d, "recovery_dtbo")
    THEN [WriteFile(w, "recovery_dtbo", d["recovery_dtbo"]) EXCEPT !.h.rdoff = Len(w.c)] ELSE w

WriteBlocks(img, b, d, keep) ==
    LET w1 == WriteKernel(StartImage(img, b, d), b, d, keep)
        v == WriteVendorRamdisks(w1, b, d, keep)
        table == IF b.blk["table"] # <<>> THEN v.table ELSE <<>>
        w2 == IF table # <<>> THEN v.w ELSE WriteRamdisk(w1, b, d, keep)
        w3 == WriteIf(w2, d, "second", d["second"])
        w4 == WriteIf(w3, d, "extra", Encoded(d["extra"], b.e_fmt, keep))
        w5 == WriteRecoveryDtbo(w4, d)
        w6 == WriteIf(w5, d, "dtb", d["dtb"])
        w7 == WriteRaw(w6, b.blk["signature"])
        w8 == WriteRaw(w7, table)
    IN WriteIf(w8, d, "bootconfig", d["bootconfig"])

(* The marks of Samsung and LG images, vbmeta on a block boundary, and the  *)
(* padding to the size of the original.                                     *)
WriteTail(img, b, w) ==
    LET marks == IF "SEANDROID" \in b.flags
                 THEN <<<<"SEANDROID", 0>>>> \o (IF "DHTB" \in b.flags THEN <<<<"ff", 0>>>> ELSE <<>>)
                 ELSE IF "LG_BUMP" \in b.flags THEN <<<<"LG_BUMP", 0>>>> ELSE <<>>
        w1 == Write(w, marks)
        w2 == FileAlign(w1, Page)
        w3 == IF "AVB" \in b.flags THEN FileAlign(w2, BlockSize) ELSE w2
        w4 == Write(w3, b.vbmeta)
        short == Len(img) - Len(w4.c)
    IN [w |-> IF "CHROMEOS" \notin b.flags /\ short > 0 THEN Write(w4, Zeros(short)) ELSE w4,
        total |-> Len(w1.c), vbmeta |-> Len(w3.c)]

(* The checksum of the header covers each block and its size, in this order. *)
HashParts(h, blk) ==
    <<blk["kernel"], blk["ramdisk"], blk["second"]>>
    \o (IF blk["extra"] # <<>> THEN <<blk["extra"]>> ELSE <<>>)
    \o (IF h.ver \in {"v1", "v2"} THEN <<blk["recovery_dtbo"]>> ELSE <<>>)
    \o (IF h.ver = "v2" THEN <<blk["dtb"]>> ELSE <<>>)

NewId(w, h) ==
    [h.id EXCEPT !.parts = HashParts(h, [x \in BlockNames |->
        Map(w.c, IF x = "recovery_dtbo" THEN h.rdoff ELSE w.off[x], Size(h, x))])]

FooterAtEnd(b, t) == [total |-> t.total, offset |-> t.total, size |-> Len(b.vbmeta)]
Footer(b, t) == [total |-> t.total, offset |-> t.vbmeta, size |-> Len(b.vbmeta)]

(* The headers that hold sizes and checksums are patched last, the AVB 1.0  *)
(* signature covers all of them.                                            *)
PatchMtk(w, x, on) ==
    IF on THEN [w EXCEPT !.c = Put(@, w.off[x], <<"mtk", Size(w.h, x)>>),
                         !.h = SetSize(@, x, Size(@, x) + 1)]
    ELSE w

PatchId(w) == IF HasId(w.h) THEN [w EXCEPT !.h.id = NewId(w, w.h)] ELSE w

PatchHdr(w, b) ==
    Put(w.c, IF "AMONET" \in b.flags THEN w.header + 1 ELSE w.header, <<"hdr", w.h>>)

PatchVbmeta(c, b, t, patchvbmeta) ==
    IF "AVB" \notin b.flags THEN c
    ELSE LET f == Put(c, Len(c) - 1, <<"footer", Footer(b, t)>>)
         IN IF patchvbmeta THEN Put(f, t.vbmeta, <<"vbmeta", 3>>) ELSE f

PatchHead(c, b, size) ==
    IF "DHTB" \in b.flags
    THEN Put(Put(c, 0, <<"head", "DHTB">>), 1,
             <<"info", [size |-> size, sum |-> Map(c, HeadLen, size)]>>)
    ELSE IF "BLOB" \in b.flags THEN Put(c, 1, <<"info", [c[2][2] EXCEPT !.size = size]>>)
    ELSE c

PatchSignature(c, b, from, total) ==
    LET sig == <<"sig", Map(c, from, total - from)>> IN
    IF "AVB1" \notin b.flags THEN c
    ELSE IF total < Len(c) THEN Put(c, total, sig) ELSE Append(c, sig)

PatchImage(b, t, patchvbmeta) ==
    LET w == PatchId(PatchMtk(PatchMtk(t.w, "kernel", b.k.mtk), "ramdisk", b.r.mtk))
        c == PatchHead(PatchVbmeta(PatchHdr(w, b), b, t, patchvbmeta), b, t.total - HeadLen)
    IN PatchSignature(c, b, t.w.header, t.total)

repack(img, b, d, keep, patchvbmeta) ==
    IF NewKernel(b, d, keep) = Endless THEN Endless
    ELSE PatchImage(b, WriteTail(img, b, WriteBlocks(img, b, d, keep)), patchvbmeta)

(* sign: the signature replaces the start of the tail, zeros the rest. *)
sign(img) ==
    LET b == parse_image(img) IN
    Map(img, 0, b.tail) \o <<<<"sig", b.payload>>>> \o Zeros(Len(img) - b.tail - 1)

----------------------------------------------------------------------------
(* The images given to magiskboot, as mkbootimg, avbtool and the vendors'   *)
(* tools lay them out: blocks padded to pages, then what seals the image,   *)
(* then room to the end of the partition.                                   *)
Raw(c, n) == [i \in 1..n |-> <<"raw", <<c, i>>>>]
Padded(s, a) == s \o Zeros(AlignTo(Len(s), a) - Len(s))

MkKernel(kind) ==
    LET gz == Compress("GZIP", Raw("kernel", 6))
        fdt == <<<<"dtb", TRUE>>, <<"raw", <<"fdt", 1>>>>>>
    IN CASE kind = "gzip" -> gz
         [] kind = "gzip_dtb" -> gz \o fdt
         [] kind = "raw_dtb" -> Raw("kernel", 2) \o <<<<"dtb", FALSE>>>> \o fdt
         [] kind = "mtk" -> <<<<"mtk", Len(gz)>>>> \o gz
         [] kind = "zimage" -> <<<<"zimage", 2 + Len(gz)>>>> \o Raw("stub", 1) \o gz \o Raw("end", 1) \o fdt
         [] kind = "zimage_odd" -> <<<<"zimage", 0>>>> \o Raw("stub", 1) \o gz \o Raw("end", 1)

MkRamdisk(kind) ==
    CASE kind = "raw" -> Raw("ramdisk.cpio", 3)
      [] kind = "mtk" -> <<<<"mtk", 3>>>> \o Compress("GZIP", Raw("ramdisk.cpio", 4))
      [] OTHER -> Compress(kind, Raw("ramdisk.cpio", 4))

VendorBlobs == <<Compress("GZIP", Raw("platform.cpio", 4)), Raw("dlkm.cpio", 2)>>

MkBlock(o, b) ==
    CASE b \notin Fields[o.ver] -> <<>>
      [] b = "kernel" -> MkKernel(o.kernel)
      [] b = "ramdisk" -> IF o.ver = "vnd4" THEN FlattenSeq(VendorBlobs) ELSE MkRamdisk(o.ramdisk)
      [] b = "extra" -> Compress("LZMA", Raw("extra", 2))
      [] b = "table" -> <<<<"entry", [name |-> "platform.cpio", offset |-> 0, size |-> Len(VendorBlobs[1])]>>,
                          <<"entry", [name |-> "dlkm.cpio", offset |-> Len(VendorBlobs[1]),
                                      size |-> Len(VendorBlobs[2])]>>>>
      [] OTHER -> Raw(b, 1)

MkHeader(o, blk) ==
    LET h == [ver |-> o.ver, size |-> [b \in BlockNames |-> Len(blk[b])], rdoff |-> 0,
              id |-> [alg |-> "sha1", parts |-> <<>>], os |-> 13 * 2^25 + 2^18 + 22 * 2^4 + 5,
              name |-> Raw("name", 1), cmd |-> Raw("cmd", ArgsSize), extra |-> Raw("more", 1)]
    IN [h EXCEPT !.rdoff = Offsets(h)[5],
                 !.id.parts = IF HasId(h) THEN HashParts(h, blk) ELSE @]

MkPayload(o, h, blk) ==
    Padded((IF o.head = "AMONET" THEN <<<<"AMONET", 0>>>> ELSE <<>>) \o <<<<"hdr", h>>>>, HdrSpace(h))
    \o FlattenSeq([i \in DOMAIN Blocks |-> Padded(blk[Blocks[i]], Page)])

MkSeal(o, payload) ==
    CASE o.seal = "AVB1" -> payload \o <<<<"sig", payload>>>>
      [] o.seal \in {"SEANDROID", "LG_BUMP"} -> payload \o <<<<o.seal, 0>>>>
      [] o.seal = "AVB" -> Padded(payload, BlockSize) \o <<<<"vbmeta", 0>>, <<"raw", <<"vbmeta", 1>>>>>>
      [] OTHER -> payload

MkFooter(o, n, full) ==
    IF o.seal = "AVB"
    THEN Put(full, Len(full) - 1,
             <<"footer", [total |-> n, offset |-> AlignTo(n, BlockSize), size |-> 2]>>)
    ELSE full

MkPartition(o, payload) ==
    (IF o.head \in Heads
     THEN <<<<"head", o.head>>, <<"info", [size |-> Len(payload), sum |-> payload]>>>> ELSE <<>>)
    \o MkFooter(o, Len(payload), Padded(Padded(MkSeal(o, payload), BlockSize) \o Zeros(o.room), BlockSize))

MkParts(o, blk) == MkPartition(o, MkPayload(o, MkHeader(o, blk), blk))

MkImage(o) ==
    LET whole == MkParts(o, [b \in BlockNames |-> MkBlock(o, b)])
    IN IF o.cut THEN SubSeq(whole, 1, Page + 1) ELSE whole

NewText(n) == [name |-> Raw("new", IF n = "small" THEN 1 ELSE NameSize + 2),
               cmdline |-> Raw("args", IF n = "small" THEN 1 ELSE ArgsSize + ExtraArgsSize + 1),
               os |-> IF n = "small" THEN <<>> ELSE <<15, 127, 127, 2127, 15>>]
NewFile(f, n) ==
    CASE n = "gone" -> Absent
      [] f = "header" -> <<<<"text", NewText(n)>>>>
      [] f = "kernel_dtb" -> <<<<"dtb", TRUE>>>> \o Raw("new", IF n = "small" THEN 1 ELSE 4)
      [] n = "packed" -> Compress("XZ", Raw(f, 3))
      [] OTHER -> [i \in 1..(IF n = "small" THEN 1 ELSE 9) |-> <<"raw", <<f, n, i>>>>]

(* What repack does not cope with: a zImage kernel replaced under -n by a   *)
(* smaller one, an extra or recovery_dtbo file that was deleted (their      *)
(* sizes stay in the header), and an MTK ramdisk that was deleted (its      *)
(* header is written, unaligned).                                           *)
Handled(s) ==
    /\ ~(s.k.zimage /\ job.keep /\ Readable(dir, "kernel") /\ Len(dir["kernel"]) < Len(s.k.data))
    /\ \A b \in {"extra", "recovery_dtbo"} : Size(s.h, b) > 0 => Readable(dir, b)
    /\ s.r.mtk => Readable(dir, "ramdisk.cpio")

----------------------------------------------------------------------------
(* main: the commands, in the order the patching scripts run them.          *)
ImageInit ==
    /\ image \in {MkImage(o) : o \in Originals}
    /\ dir = [f \in Files |-> Absent]
    /\ out = Absent
    /\ job = [at |-> "image", keep |-> FALSE, patch |-> FALSE, edits |-> 0, round |-> 1]

Unpack(keep, hdr) ==
    /\ job.at = "image" /\ Parses(image)
    /\ dir' = unpack(parse_image(image), dir, keep, hdr)
    /\ job' = [job EXCEPT !.at = "files"]
    /\ UNCHANGED <<image, out>>

(* A corrupted image ends every command before a file is written. *)
Corrupted ==
    /\ job.at = "image" /\ ~Parses(image)
    /\ job' = [job EXCEPT !.at = "failed"]
    /\ UNCHANGED <<image, dir, out>>

Edit(f, n) ==
    /\ job.at = "files" /\ job.edits = 0
    /\ \/ Readable(dir, f)
       \/ n # "gone" /\ f \in Fields[parse_image(image).h.ver] \ {"kernel"}
    /\ dir' = [dir EXCEPT ![f] = NewFile(f, n)]
    /\ job' = [job EXCEPT !.edits = 1]
    /\ UNCHANGED <<image, out>>

Repack(keep, patch) ==
    /\ job.at = "files"
    /\ out' = repack(image, parse_image(image), dir, keep, patch)
    /\ job' = [job EXCEPT !.at = "done", !.keep = keep, !.patch = patch]
    /\ UNCHANGED <<image, dir>>

Sign ==
    /\ job.at = "done" /\ out # Endless /\ Handled(parse_image(image))
    /\ out' = sign(out)
    /\ job' = [job EXCEPT !.at = "signed"]
    /\ UNCHANGED <<image, dir>>

(* cleanup, and the new image becomes the image of the next round. *)
Cleanup ==
    /\ job.at = "done" /\ job.round < Rounds /\ out # Endless /\ Handled(parse_image(image))
    /\ image' = out /\ out' = Absent
    /\ dir' = [f \in Files |-> Absent]
    /\ job' = [job EXCEPT !.at = "image", !.round = @ + 1]

ImageNext ==
    \/ \E f \in {"", "-n", "-h"} : Unpack(f = "-n", f = "-h")
    \/ Corrupted
    \/ \E f \in Files, n \in NewFiles : Edit(f, n)
    \/ \E f \in {"", "-n", "flags"} : Repack(f = "-n", f = "flags")
    \/ Sign
    \/ Cleanup

ImageSpec == ImageInit /\ [][ImageNext]_imageVars

----------------------------------------------------------------------------
NoFiles == [f \in Files |-> Absent]
GrownZimage(s) ==
    s.k.zimage /\ Readable(dir, "kernel")
    /\ Len(Encoded(dir["kernel"], IF s.k.fmt = "GZIP" THEN "ZOPFLI" ELSE s.k.fmt, job.keep)) > Len(s.k.data)

(* What each file of the directory should have become. *)
Wanted(s, f) ==
    IF f = "kernel" /\ (GrownZimage(s) \/ ~Readable(dir, f)) THEN unpack(s, NoFiles, FALSE, FALSE)[f]
    ELSE IF Readable(dir, f) /\ f \in {"kernel", "ramdisk.cpio", "extra"} \cup VendorFiles
    THEN Plain(dir[f], FALSE) ELSE dir[f]

WantedText(s) ==
    LET t == IF Readable(dir, "header") THEN dir["header"][1][2] ELSE dump_hdr_file(s.h)
    IN [name    |-> IF HasName(s.h) THEN Map(t.name, 0, IF Len(t.name) < NameSize THEN Len(t.name) ELSE NameSize) ELSE <<>>,
        cmdline |-> SubSeq(t.cmdline, 1, IF Len(t.cmdline) < ArgsSize + ExtraArgsSize
                                         THEN Len(t.cmdline) ELSE ArgsSize + ExtraArgsSize),
        os      |-> IF t.os # <<>> /\ HasOs(s.h) THEN t.os ELSE dump_hdr_file(s.h).os]

Faithful(s, r) ==
    /\ \A f \in Files \ {"header"} : unpack(r, NoFiles, FALSE, FALSE)[f] = Wanted(s, f)
    /\ dump_hdr_file(r.h) = WantedText(s)
    /\ r.blk["signature"] = s.blk["signature"]
    /\ HasId(r.h) => r.h.id = [alg |-> s.h.id.alg, parts |-> HashParts(r.h, r.blk)]

(* repack puts every file of the directory where a reader of the new header *)
(* looks for it, compressed or not, with the header's text and checksum to  *)
(* match (bootimg.cpp:660-963); Handled names the exceptions.               *)
RepackFaithful ==
    (job.at = "done" /\ out # Endless) =>
        LET s == parse_image(image) IN
        s.blk["table"] = <<>> /\ Handled(s) => Parses(out) /\ Faithful(s, parse_image(out))

(* The same for images whose ramdisks are listed in a table: "Repack boot   *)
(* image components using files from the current directory" (main.cpp).     *)
VendorFaithful ==
    (job.at = "done" /\ out # Endless /\ parse_image(image).blk["table"] # <<>>)
        => Parses(out) /\ Faithful(parse_image(image), parse_image(out))

(* What the new image (parsed: r) carries of what sealed the old one (s).   *)
Sealed(s, r) ==
    /\ r.flags \ {"AVB"} = s.flags \ {"AVB", "CHROMEOS"}
    /\ "CHROMEOS" \notin s.flags => Len(out) >= Len(image)
    /\ "AVB" \in s.flags /\ Len(out) <= Len(image) =>
          /\ "AVB" \in r.flags
          /\ Tail(r.vbmeta) = Tail(s.vbmeta)
          /\ r.vbmeta[1] = IF job.patch THEN <<"vbmeta", 3>> ELSE s.vbmeta[1]
          /\ Last(out)[2].total = r.tail
    /\ s.flags \cap {"DHTB", "BLOB"} # {} => out[2][2].size + HeadLen >= r.tail
    /\ "DHTB" \in s.flags => out[2][2].sum = Map(out, HeadLen, out[2][2].size)

(* What vouches for the image vouches for the new one: vendor marks, DHTB   *)
(* and blob sizes, an AVB 1.0 signature over the new payload, and an AVB    *)
(* footer in the last cell that finds the old vbmeta.  Only vbmeta needs    *)
(* room that a larger image may not leave (bootimg.cpp:868-998).            *)
SealsHold ==
    /\ (job.at = "done" /\ out # Endless /\ Handled(parse_image(image)))
           => Sealed(parse_image(image), parse_image(out))
    /\ job.at = "signed" => "AVB1" \in parse_image(out).flags
=============================================================================
