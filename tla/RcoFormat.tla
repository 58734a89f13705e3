----------------------------- MODULE RcoFormat -----------------------------
(***************************************************************************)
(* The layout of an RCO file (rcofile.h) and the archive as it is held in  *)
(* memory (rRCOFile and rRCOEntry of rcomain.h).                           *)
(*                                                                         *)
(* Units.  Every record of the format and every write of the program is a  *)
(* multiple of four bytes, so a position, an offset or the length of a     *)
(* section is counted in 4-byte WORDS.  The length of a resource or of a   *)
(* text is any number of bytes; Words(n) is the space it takes.  Byte      *)
(* order (the PS3 swap) and the characters of names are left out.          *)
(***************************************************************************)
EXTENDS Integers, Sequences

(* Kinds of entries: RCO_TABLE_*.                                          *)
MAIN  == 1
VSMX  == 2
TEXT  == 3
IMG   == 4
MODEL == 5
SOUND == 6
FONT  == 7
OBJ   == 8
ANIM  == 9
Kinds == MAIN..ANIM

(* Compression of a section or a resource: RCO_DATA_COMPRESSION_*.         *)
NONE == 0
ZLIB == 1
RLZ  == 2
Compressions == NONE..RLZ

(* Image formats below RCO_IMG_BMP are already compressed (PNG, JPEG...).  *)
IMG_BMP == 4

(* RCO_NULL_PTR, all ones in a 32-bit word.                                *)
NULL_PTR == -1

(* The NULL rRCOEntry pointer; entries are numbered from 1, the main table. *)
Nil == 0

(* sizeof of the format's records, in words.                               *)
HeaderWords      == 41   \* PRFHeader, 0xA4 bytes
EntryWords       == 10   \* RCOEntry, 0x28 bytes
TextEntryWords   == 2    \* RCOTextEntry
TextIndexWords   == 3    \* RCOTextIndex
HeaderComprWords == 3    \* HeaderComprInfo
TextComprWords   == 4    \* TextComprInfo

(* Where the fields of an RCOEntry lie, counting words from 1.             *)
LabelField  == 2
SizeField   == 4
CountField  == 5
NextField   == 6
PrevField   == 7
ParentField == 8

(* ALIGN_TO_4 of a number of bytes, as a number of words.                  *)
Words(bytes) == (bytes + 3) \div 4

(***************************************************************************)
(* The archive in memory.  An archive a is a record of functions over its  *)
(* entries 1..a.n, which are numbered in the order of the document:        *)
(*   id, type        the kind of the entry and its variant; type 0 is a    *)
(*                   container such as ImageTree                           *)
(*   label           labelOffset, or NULL_PTR                              *)
(*   parent          the entry it is a subentry of                         *)
(*   kids            its subentries, in the order of their next pointers   *)
(*   attrs           the words of an object or animation entry: a literal, *)
(*                   or (ent) a pointer to an entry; empty when the type   *)
(*                   is not in the attribute tables                        *)
(*   lang, indexes   a language of the TextTree and its texts              *)
(*   channels        <<size, offset>> of the channels of a sound           *)
(*   format, compression, srcLen, srcLenUnpacked, readable                 *)
(*                   the resource of the entry and whether read_resource   *)
(*                   returns it with its declared length                   *)
(* and of the shortcuts tbl[k], the ps3 flag, the firmware version verId   *)
(* and the lengths in words of the label and event data.                   *)
(***************************************************************************)
EntriesOf(a) == 1..a.n

AttrWord == [ent : BOOLEAN, v : Int]
TextIndex == [label : Int, length : Nat, null : BOOLEAN]

(* The subentries of an entry are the entries it is the parent of; what    *)
(* lies between an entry and a subentry of it lies below the entry.        *)
IsTree(a) ==
    LET E == EntriesOf(a) IN
    /\ a.parent \in [E -> E \cup {Nil}]
    /\ \A e \in E : IF e = 1 THEN a.parent[e] = Nil ELSE a.parent[e] \in 1..e-1
    /\ \A e \in E : \A f \in a.parent[e]+1..e-1 : a.parent[f] >= a.parent[e]
    /\ a.kids \in [E -> Seq(E)]
    /\ \A p \in E :
          /\ \A i \in DOMAIN a.kids[p] : a.parent[a.kids[p][i]] = p
          /\ \A i, j \in DOMAIN a.kids[p] : i < j => a.kids[p][i] < a.kids[p][j]
    /\ \A e \in 2..a.n : \E i \in DOMAIN a.kids[a.parent[e]] :
                          a.kids[a.parent[e]][i] = e

(* f is e or lies below e.                                                 *)
Within(a, e, f) == e <= f /\ \A g \in e+1..f : a.parent[g] >= e

IsArchive(a) ==
    LET E == EntriesOf(a) IN
    /\ a.n \in Nat \ {0}
    /\ IsTree(a)
    /\ a.id \in [E -> Kinds] /\ a.type \in [E -> Nat]
    /\ a.label \in [E -> Int]
    /\ a.attrs \in [E -> Seq(AttrWord)]
    /\ \A e \in E : \A w \in DOMAIN a.attrs[e] :
          a.attrs[e][w].ent => a.attrs[e][w].v \in E \cup {Nil}
    /\ \A e \in E : a.attrs[e] # <<>> => a.id[e] \in {OBJ, ANIM} /\ a.type[e] # 0
    /\ a.lang \in [E -> Nat] /\ a.indexes \in [E -> Seq(TextIndex)]
    /\ a.channels \in [E -> Seq(Nat \X Int)]
    /\ a.format \in [E -> Nat] /\ a.compression \in [E -> Compressions]
    /\ a.srcLen \in [E -> Nat] /\ a.srcLenUnpacked \in [E -> Nat]
    /\ a.readable \in [E -> BOOLEAN]
    /\ a.tbl \in [Kinds -> E \cup {Nil}]
    /\ a.ps3 \in BOOLEAN /\ a.verId \in Nat
    /\ a.labelsLen \in Nat /\ a.eventsLen \in Nat

(* e && e->numSubentries.                                                  *)
HasSubentries(a, e) == e # Nil /\ a.kids[e] # <<>>

(* A "parent" entry: a container, the main table or an animation.          *)
IsParentEntry(a, e) ==
    \/ a.type[e] = 0
    \/ a.type[e] = 1 /\ a.id[e] \in {MAIN, ANIM}

(* Words the texts before index i of a language take.                      *)
TextUsed(a, e) ==
    LET used[i \in 0..Len(a.indexes[e])] ==
          IF i = 0 THEN 0
          ELSE used[i-1] + Words(a.indexes[e][i].length)
    IN used

TextTotal(a, e) == TextUsed(a, e)[Len(a.indexes[e])]

(* A word of data: word k of the resource or text of an owner.  Data words *)
(* are told apart from every offset and length of a small archive.         *)
DataWord(owner, k) == 10000 * (owner + 1) + k
Data(owner, n) == [k \in 1..n |-> DataWord(owner, k)]
OwnerOf(word) == word \div 10000 - 1
IndexOf(word) == word % 10000

(* The types of references that are resolved to an entry: RCO_REF_IMG,     *)
(* MODEL, FONT, OBJ2, ANIM and OBJ.                                        *)
EntryRefs == {1026, 1027, 1029, 1031, 1032, 1033}
=============================================================================
