--------------------------- MODULE RcoWriterProps ---------------------------
(***************************************************************************)
(* What makes a written file correct: the properties of RcoWriter.  They   *)
(* read the words of the stream and of the file the way a reader of the    *)
(* format does, by following the header and the fields of the entries.     *)
(***************************************************************************)
EXTENDS RcoWriter

E == EntriesOf(rco)

(* Every variable has its type.                                            *)
TypeOK ==
    /\ pc \in Phases /\ rco \in Archives /\ opts \in Options
    /\ todo \in Seq(Nat)
    /\ src.len \in [E -> Nat] /\ src.addr \in [E -> Nat]
    /\ src.compr \in [E -> Compressions]
    /\ tmp \in Seq(Int) /\ file \in Seq(Int) /\ tables \in Seq(Int)
    /\ fileHeader # <<>> => DOMAIN fileHeader = DOMAIN header
    /\ pos \in Nat /\ longest \in Nat
    /\ offset \in [E -> Nat]
    /\ \A i \in DOMAIN stack : stack[i].e \in E /\ stack[i].left \in Seq(E)
    /\ size \in [Kinds -> Nat]
    /\ header.ptrs \in [Kinds -> Int] /\ header.lptrs \in [Kinds -> Nat]
    /\ header.data \in [Kinds -> Int] /\ header.ldata \in [Kinds -> Nat]

-----------------------------------------------------------------------------
(* The tree.                                                               *)

TreeWritten == pc \notin {"open", "image", "sound", "model", "placeholder",
                          "entries", "failed"}

Field(e, f) == Word(offset[e] + f - 1)

(* From the time the tree is written to the end, whatever is patched or    *)
(* appended later, the words of the file link every entry to its parent,   *)
(* to its next sibling (0 for the last) and to its previous one (0 for the *)
(* first, and for containers other than animations), and count its         *)
(* children: write_entry's backpatching and what follows it.               *)
TreeLinked ==
    TreeWritten =>
      \A e \in E : \A i \in DOMAIN rco.kids[e] :
        LET kids == rco.kids[e]
            c    == kids[i]
        IN /\ Field(c, 1) = 256 * rco.id[c] + rco.type[c]
           /\ offset[c] - Field(c, ParentField) = offset[e]
           /\ Field(c, NextField) = IF i = Len(kids) THEN 0
                                    ELSE offset[kids[i+1]] - offset[c]
           /\ Field(c, CountField) = Len(rco.kids[c])
           /\ (~IsParentEntry(rco, c) \/ rco.id[c] = ANIM) =>
                Field(c, PrevField) = IF i = 1 THEN 0
                                      ELSE offset[c] - offset[kids[i-1]]

(* A step changes a word that is already in the stream only to fill in the *)
(* nextEntryOffset of the entry being finished, or the attributes of the   *)
(* entry whose references are being fixed: nothing that is appended later  *)
(* (hash tables, texts, labels) lands on what is there.                    *)
WriteOnce ==
    [][\A i \in DOMAIN Stream :
         Stream'[i] # Stream[i] =>
           LET p == i + HeaderWords - 1
           IN \/ /\ pc = "entries"
                 /\ p = stack[1].at + NextField - 1 /\ Stream[i] = 0
              \/ /\ pc \in {"fixObj", "fixAnim"}
                 /\ LET a == offset[Head(todo)] + EntryWords
                    IN p \in a..a + Len(rco.attrs[Head(todo)]) - 1]_vars

(* Once all is written, every reference of an object or an animation to an *)
(* entry holds the place of that entry, and the word there is its          *)
(* beginning: write_entry's offsets are right and rco_write_fix_refs has   *)
(* visited every entry, at any depth.                                      *)
RefsResolve ==
    pc = "done" =>
      \A e \in E : \A w \in DOMAIN rco.attrs[e] :
        LET word == rco.attrs[e][w]
            p    == offset[e] + EntryWords + w - 1
        IN IF ~word.ent THEN Word(p) = word.v
           ELSE word.v # Nil =>
                  /\ Word(p) = offset[word.v]
                  /\ Word(Word(p)) = 256 * rco.id[word.v] + rco.type[word.v]

-----------------------------------------------------------------------------
(* The hash tables.                                                        *)

SlotsAt(p, n) == [s \in 0..n-1 |-> Word(p + s)]

(* Every labelled entry of every table (objects at any depth) is found by  *)
(* probing the written table from the slot of its label.                   *)
EntriesHashed ==
    pc = "done" =>
      \A k \in {IMG, MODEL, SOUND, OBJ, ANIM} : Table(k) # Nil =>
        LET n == header.lptrs[k]
            t == SlotsAt(header.ptrs[k], n)
        IN \A e \in Range(Hashed(k)) : rco.label[e] # NULL_PTR =>
              Reachable(t, n, LabelSum[rco.label[e]] % n, offset[e])

(* The part of the text table for a language follows those of the lower    *)
(* languages, and the texts of the language are found in it.               *)
TextsHashed ==
    pc = "done" /\ HasSubentries(rco, Table(TEXT)) =>
      LET langs == Range(Children(Table(TEXT)))
          below(e) == FoldSet(LAMBDA x, n : n + Len(rco.indexes[x]), 0,
                              {x \in langs : rco.lang[x] < rco.lang[e]})
      IN \A e \in langs :
           LET n == Len(rco.indexes[e])
               t == SlotsAt(header.ptrs[TEXT] + below(e), n)
           IN \A i \in 1..n : rco.indexes[e][i].label # NULL_PTR =>
                Reachable(t, n, LabelSum[rco.indexes[e][i].label] % n,
                          offset[e] + EntryWords + TextEntryWords
                            + TextIndexWords * (i - 1))

(* What has a name can be found by it in the file.                         *)
NamesHashed == EntriesHashed /\ TextsHashed

-----------------------------------------------------------------------------
(* The sections and the data.                                              *)

FileWord(p) == file[p - HeaderWords + 1]
FileEnd == HeaderWords + Len(file)
StreamEnd == HeaderWords + Len(Stream)

Holds(p, owner, from, n) ==
    /\ p + n <= FileEnd
    /\ \A j \in 1..n : FileWord(p + j - 1) = DataWord(owner, from + j)

(* An image or model whose entry records a packed length has that many     *)
(* bytes of its own at the recorded offset of its data section, also when  *)
(* other resources could not be read or compressed.  (What lies behind the *)
(* objects may be overwritten; and a resource whose unpacked length is 0,   *)
(* which stands for one not known, is never copied.)                        *)
InFrontOfObjects(e) == Table(OBJ) # Nil => offset[e] < offset[Table(OBJ)]

ResourcesLocated ==
    pc = "done" =>
      \A k \in {IMG, MODEL} : \A e \in Range(Children(Table(k))) :
        LET p == offset[e] + EntryWords
            len == Word(p + 1)
            off == Word(p + 2)
        IN InFrontOfObjects(e) /\ rco.srcLenUnpacked[e] # 0 /\ len # 0 =>
                      /\ off + Words(len) <= header.ldata[k]
                      /\ Holds(header.data[k] + off, e, 0, Words(len))

(* The channels of a sound lie within its own data: an entry's offset and  *)
(* total size delimit what was copied for that sound.                      *)
SoundsLocated ==
    pc = "done" =>
      \A e \in Range(Children(Table(SOUND))) :
        LET p == offset[e] + EntryWords
            n == Words(Word(p + 1))
        IN /\ Word(p + 2) + n <= header.ldata[SOUND]
           /\ Holds(header.data[SOUND] + Word(p + 2), e, 0, n)
           /\ \A c \in DOMAIN rco.channels[e] :
                LET q == p + 3 + 2 * (c - 1)
                IN Word(q + 1) + Words(Word(q)) <= Word(p + 2) + n

(* Each text is found from its record: at its offset of the text section,  *)
(* or, packed, in the block of its language, the blocks being chained by   *)
(* nextOffset in the order of the languages.                               *)
TextLocated ==
    pc = "done" =>
      LET langs == Children(Table(TEXT))
          block[i \in 1..Len(langs)] ==
             IF i = 1 THEN header.data[TEXT]
             ELSE block[i-1] + FileWord(block[i-1] + 1)
      IN \A i \in DOMAIN langs :
           LET e == langs[i] IN
           IF Buffered
           THEN LET b == block[i] IN
                /\ FileWord(b) = rco.lang[e] + 65536
                /\ (FileWord(b + 1) = 0) = (i = Len(langs))
                /\ Holds(b + TextComprWords, e, 0, Words(FileWord(b + 2)))
                /\ FileWord(b + 3) = TextTotal(rco, e)
           ELSE \A j \in DOMAIN rco.indexes[e] :
                  LET q == offset[e] + EntryWords + TextEntryWords
                             + TextIndexWords * (j - 1)
                      n == Words(Word(q + 1))
                  IN n > 0 => Holds(header.data[TEXT] + Word(q + 2) \div 4, e,
                                    TextUsed(rco, e)[j-1], n)

(* The data of every resource are where its entry says.                    *)
DataLocated == ResourcesLocated /\ SoundsLocated /\ TextLocated

Disjoint(a, b) == a[1] + a[2] <= b[1] \/ b[1] + b[2] <= a[1]

Apart(sections, end) ==
    /\ \A s \in sections : s[1] >= HeaderWords /\ s[1] + s[2] <= end
    /\ \A s, t \in sections : s # t => Disjoint(s, t)

(* The sections the header points to lie inside the stream (or, for packed *)
(* data, inside the file) and do not overlap, and neither does the entry   *)
(* of any node: no pointer of the header is off or stale.                  *)
SectionsDisjoint ==
    pc = "done" =>
      LET of(f, l, ks) == {<<f[k], l[k]>> : k \in {x \in ks : l[x] > 0}}
          texts == of(header.data, header.ldata, {TEXT})
          inner == of(header.ptrs, header.lptrs, Kinds)
                   \cup {<<header.label, header.llabel>>,
                         <<header.event, header.levent>>}
                   \cup {<<offset[e], EntryWords>> : e \in E}
          outer == of(header.data, header.ldata, {IMG, SOUND, MODEL})
      IN IF Buffered
         THEN Apart(inner, StreamEnd) /\ Apart(outer \cup texts, FileEnd)
         ELSE Apart(inner \cup texts \cup outer, FileEnd)
=============================================================================
