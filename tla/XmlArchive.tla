----------------------------- MODULE XmlArchive -----------------------------
(***************************************************************************)
(* The archive as the dump and compile commands handle it: entries with    *)
(* names, and sources that say where the bytes of a resource are - in the  *)
(* RCO file, in a file of their own, in several, or in memory.             *)
(*                                                                         *)
(* A name is a string and stands for itself; the label block and its       *)
(* offsets are the business of LabelStore.  A file name is the sequence of *)
(* its parts, for instance <<"dir", "label", "gim">>; a part "*" makes it  *)
(* a pattern.  Something that may be missing is a sequence of at most one. *)
(***************************************************************************)
EXTENDS RcoFormat, SequencesExt, FiniteSets, TLC

CONSTANTS
    Inflated,      \* by the packed bytes, what zlib makes of them
    PackedTables   \* by the name of an RCO file with a packed header, the
                   \* bytes the header unpacks to

(* The compression of what lies in a packed header, and where it begins.   *)
RCO == 255
HeaderSize == 164

-----------------------------------------------------------------------------
(* Bytes and texts.  A byte is a number; 0 is the null byte.  Byte i of    *)
(* character c tells c and i, and the null character is all null bytes.    *)

UTF8  == 0
UTF16 == 1
UTF32 == 2

CharWidth(format) ==
    CASE format = UTF32 -> 4 [] format = UTF8 -> 1 [] OTHER -> 2

CharByte(c, i) == IF c = 0 THEN 0 ELSE 4 * c + i

Encode(chars, w) ==
    [k \in 1..w * Len(chars) |-> CharByte(chars[(k-1) \div w + 1], (k-1) % w)]

Decode(bytes, w) ==
    [k \in 1..Len(bytes) \div w |-> bytes[w * (k-1) + 1] \div 4]

(* A byte order mark; the format tells which.                              *)
BomUtf16(format) == <<-21, -22>>                               \* mutant

BOM(format) ==
    LET n == CASE format = UTF32 -> 4 [] format = UTF8 -> 3 [] OTHER -> 2
    IN [i \in 1..n |-> -(10 * (format + 1) + i)]

ALIGN_TO_4(n) == 4 * Words(n)

(* n bytes of s from offset at on, as far as there are any.                *)
Slice(s, at, n) ==
    SubSeq(s, at + 1, IF at + n > Len(s) THEN Len(s) ELSE at + n)

-----------------------------------------------------------------------------
(* Tables of names (miscmap.ini), and numbers written by them.             *)

CompressionNames == <<"uncompressed", "zlib", "rlz">>
LanguageNames == <<"Japanese", "English", "French", "Spanish">>
TextFormatNames == <<"utf8", "utf16", "utf32">>
ImageNames == <<"png", "jpg", "tif", "gif", "bmp", "gim">>
SoundNames == <<"unknown0x0", "vag">>
ModelNames == <<"gmo">>

VAG == 1

UnknownName(n) == "unknown" \o ToString(n)

IntToText(n, map) == IF n < Len(map) THEN map[n + 1] ELSE UnknownName(n)

(* out is what the number was before; it stays if s means nothing.         *)
TextToInt(s, map, out) ==
    LET known == {n \in 0..Len(map) - 1 : map[n + 1] = s}
        unknown == {n \in 0..255 : UnknownName(n) = s}
    IN IF s = "" \/ known \cup unknown = {} THEN out
       ELSE CHOOSE n \in known \cup unknown : \A m \in known : n <= m

-----------------------------------------------------------------------------
(* Sources and entries (rRCOEntry).                                        *)

HasStar(name) == \E i \in DOMAIN name : name[i] = "*"

Expand(name, part) ==
    [i \in DOMAIN name |-> IF name[i] = "*" THEN part ELSE name[i]]

FromFile(file, addr, len, unpacked, compr) ==
    [file |-> file, addr |-> addr, len |-> len, unpacked |-> unpacked,
     compr |-> compr, buffer |-> <<>>]

NoSource == FromFile(<<>>, 0, 0, 0, NONE)

(* One that is held in srcBuffer.                                          *)
InMemory(s, bytes) ==
    [s EXCEPT !.len = Len(bytes), !.unpacked = Len(bytes), !.buffer = <<bytes>>]

(* Entries as parse_entry clears them.                                     *)
BlankEntry ==
    [id |-> 0, type |-> 0, name |-> <<>>, kids |-> <<>>, words |-> <<>>,
     lang |-> 0, format |-> 0, compression |-> NONE, channels |-> <<>>,
     texts |-> <<>>, src |-> NoSource]

TextOf(name, length, offset) ==
    [name |-> name, length |-> length, offset |-> offset]

(* Words of attributes: a value, or a reference.  v is the value, the      *)
(* entry, the index of the text or the raw pointer of an unknown type; s   *)
(* the name of an event, or the name that stands for an entry or a text.   *)
(* A float is counted in units of which ten make one in its sixth digit.   *)
AttrValue(v) == [type |-> "value", v |-> v, s |-> ""]
AttrFloat(v) == [type |-> "float", v |-> v, s |-> ""]
Nothing == [type |-> "nothing", v |-> 0, s |-> ""]
EventNamed(s) == [type |-> "event", v |-> 0, s |-> s]
To(type, v) == [type |-> type, v |-> v, s |-> ""]
Named(type, s) == [type |-> type, v |-> 0, s |-> s]

SixDigits(v) == v - (v % 10)                                      \* "%g"

EntryRefTypes == {"image", "model", "font", "object2", "anim", "object"}

-----------------------------------------------------------------------------
(* Lookups of rcomain.c.                                                   *)

(* Whether e has a resource of its own.                                    *)
HasResource(e) == e.type = 1 /\ e.id \in {VSMX, IMG, MODEL, SOUND}

(* The numbers of entry e and what is below it, depth first.               *)
Below(ents, e) ==
    LET down[x \in DOMAIN ents] ==
          FoldLeft(LAMBDA es, c : es \o down[c], <<x>>, ents[x].kids)
    IN down[e]

(* find_entry_from_label: the first of that name, of whatever kind.        *)
FindEntry(ents, s) ==
    LET named == SelectSeq(Below(ents, 1), LAMBDA e : ents[e].name = <<s>>)
    IN IF named = <<>> THEN Nil ELSE named[1]

(* find_text_from_label: counted from 0.                                   *)
FindTextFromOne(texts, s) ==                                   \* mutant
    LET hits == {i \in DOMAIN texts : texts[i].name = s}
    IN IF hits = {} THEN NULL_PTR ELSE CHOOSE i \in hits : \A j \in hits : i <= j

FindText(texts, s) ==
    LET hits == {i \in DOMAIN texts : texts[i].name = s}
    IN IF hits = {} THEN NULL_PTR
       ELSE (CHOOSE i \in hits : \A j \in hits : i <= j) - 1

(* The first language of the TextTree, Nil if there is none.               *)
FirstLanguage(ents, tbl) ==
    IF HasSubentries([kids |-> [e \in DOMAIN ents |-> ents[e].kids]], tbl[TEXT])
    THEN ents[tbl[TEXT]].kids[1] ELSE Nil

-----------------------------------------------------------------------------
(* Files.  disk[f] are the bytes of file f.                                *)

FileSize(disk, f) == IF f \in DOMAIN disk THEN Len(disk[f]) ELSE 0

Put(disk, f, bytes) ==
    [g \in DOMAIN disk \cup {f} |-> IF g = f THEN bytes ELSE disk[g]]

(* zlib_uncompress into a buffer of n bytes fill.  It reports bytes that   *)
(* zlib refuses, or runs out of, as a data error, and every caller warns   *)
(* of it and takes the buffer as it is.                                    *)
Filled(made, n, fill) == SubSeq(made \o [k \in 1..n |-> fill], 1, n)

Made(bytes) == IF bytes \in DOMAIN Inflated THEN Inflated[bytes] ELSE <<>>

Inflate(bytes, n, fill) == Filled(Made(bytes), n, fill)

(* read_resource: <<bytes>>, or <<>> when it returns NULL.  The buffer to  *)
(* inflate to is cleared; RLZ data stays packed.  Only entries in a packed *)
(* header are given the compression RCO (rcoreader.c); of one in a plain   *)
(* header the length would not be set.                                     *)
ReadResource(disk, s) ==
    LET held   == (s.file = <<>> \/ HasStar(s.file)) /\ s.buffer # <<>>
        stored == Slice(disk[s.file], s.addr, s.len)
        tables == PackedTables[s.file]
    IN IF held THEN <<Slice(s.buffer[1], s.addr, s.len)>>
       ELSE IF s.file \notin DOMAIN disk THEN <<>>
       ELSE CASE s.compr = ZLIB -> <<Inflate(stored, s.unpacked, 0)>>
              [] s.compr = RCO ->
                   IF s.addr < HeaderSize \/ s.addr + s.len > HeaderSize + Len(tables)
                   THEN <<>>
                   ELSE <<Slice(tables, s.addr - HeaderSize, s.len)>>
              [] OTHER -> <<stored>>
=============================================================================
