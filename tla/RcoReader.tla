----------------------------- MODULE RcoReader -----------------------------
(***************************************************************************)
(* read_rco (rcoreader.c): how a file becomes an archive in memory.        *)
(*                                                                         *)
(* The reader unpacks the header and the texts if they are packed, checks  *)
(* the sections, reads the tree of entries depth first at the place where  *)
(* the last read has left it, and then makes several passes over the tree: *)
(* shortcuts, places of the texts, places of the resources, references,    *)
(* sizes.  Nothing but nextEntryOffset brings it back on course when the   *)
(* length of an entry was misjudged.                                       *)
(*                                                                         *)
(* image is the file to be read: its header, its words (image.file[1] is   *)
(* at HeaderWords), what its packed header unpacks to (image.tables), the  *)
(* lengths its packed data unpack to (image.unpacked, by owner) and its    *)
(* byte order (image.ps3).  It does not change; whoever uses the module    *)
(* says what it is.                                                        *)
(***************************************************************************)
EXTENDS RcoFormat, SequencesExt

CONSTANTS
    Roles,    \* by kind and type, what the words of the attributes are
    Memories  \* how memory fresh from malloc may begin; the rest is zeros

WordRoles == {"literal", "type", "pointer"}

RolesType == \A k \in {OBJ, ANIM} : \A t \in DOMAIN Roles[k] :
                Roles[k][t] \in Seq(WordRoles)

MemoriesType == Memories \subseteq Seq(Nat) /\ Memories # {}

VARIABLES
    image,
    step,     \* the phase of read_rco
    mem,      \* rcoH.tables
    at,       \* rcoread_ftell
    room,     \* fSizeExpanded
    ents,     \* the entries read, in the order in which they were read
    calls,    \* the active calls of read_entry, the innermost first
    found     \* labelsLen, eventsLen and the shortcuts

vars == <<step, mem, at, room, ents, calls, found>>

Steps == {"closed", "header", "texts", "sections", "entries", "shortcuts",
          "sources", "addresses", "refs", "sizes", "done", "failed",
          "undefined"}

(* Compression "inside the packed header", and 0xFFFFFFFF as a length.     *)
IN_RCO == 255
UNKNOWN == -1

MAX_SUBENTRIES == 65536
Capped(n) == IF n > MAX_SUBENTRIES THEN MAX_SUBENTRIES ELSE n

-----------------------------------------------------------------------------
(* The input.                                                              *)

Header == image.header
Packed == Header.compression # NONE

FileEnd == HeaderWords + Len(image.file)
InFile(p) == image.file[p - HeaderWords + 1]

(* What rco_fread reads from.  A word past the end is one the program's    *)
(* buffer held before.                                                     *)
Input == IF Packed THEN mem ELSE image.file
InputEnd == HeaderWords + Len(Input)
Cell(p) == IF p \in HeaderWords..InputEnd - 1 THEN Input[p - HeaderWords + 1] ELSE 0

(* Whether rco_fread of n words returns something other than 0: fread      *)
(* wants the whole record, the buffer gives what it has; both return 0     *)
(* for a length of 0.                                                      *)
CanRead(p, n) == n > 0 /\ IF Packed THEN p < InputEnd ELSE p + n <= InputEnd

Clipped(p) == IF p > InputEnd THEN InputEnd ELSE p

(* rcoread_fseek from p to q: refused beyond the end of the buffer.        *)
Seek(p, q) == IF Packed /\ q > InputEnd THEN p ELSE q

(* check_file_region; the sum wraps around at 2^32 bytes.                  *)
Wrap == 2^30
Fits(p, n) == (p + n) % Wrap <= room

(* Whether zlib makes something of the packed bytes at p.                  *)
Unpacks(p, bytes) ==
    /\ bytes > 0 /\ p >= HeaderWords /\ p + Words(bytes) <= FileEnd
    /\ \A k \in 1..Words(bytes) :
         InFile(p + k - 1) = DataWord(OwnerOf(InFile(p)), k)

(* What zlib_uncompress leaves in n words of fresh memory: whole is what    *)
(* the packed bytes at p stand for.  A data error (Z_BUF_ERROR is one too)  *)
(* is only warned of, and the memory stays as malloc returned it.           *)
Unfilled(n) ==
    {[i \in 1..n |-> IF i <= Len(m) THEN m[i] ELSE 0] : m \in Memories}

Inflated(p, bytes, whole, n) ==
    IF Unpacks(p, bytes) THEN {whole} ELSE Unfilled(n)

Fail == step' = "failed" /\ UNCHANGED <<mem, at, room, ents, calls, found>>

-----------------------------------------------------------------------------
(* Opening the file and unpacking.                                         *)

Init ==
    /\ step = "closed" /\ mem = <<>> /\ at = 0 /\ room = 0
    /\ ents = <<>> /\ calls = <<>>
    /\ found = [labels |-> 0, events |-> 0, tbl |-> [k \in Kinds |-> Nil]]

Open ==
    /\ step = "closed"
    /\ step' = "header" /\ room' = FileEnd
    /\ UNCHANGED <<mem, at, ents, calls, found>>

OpenFails == step = "closed" /\ Fail

ReadPlainHeader ==
    /\ step = "header" /\ ~Packed
    /\ step' = "sections"
    /\ UNCHANGED <<mem, at, room, ents, calls, found>>

(* HeaderComprInfo and the tables, which are read on also when they could  *)
(* not be unpacked.  RLZ is refused.                                       *)
RoomAsStored(lenPacked, lenUnpacked) == 0                      \* mutant

RoomGained(lenPacked, lenUnpacked) == lenUnpacked - Words(lenPacked)

ReadPackedHeader ==
    /\ step = "header" /\ Packed
    /\ LET lenPacked == InFile(HeaderWords)
           lenUnpacked == InFile(HeaderWords + 1)
       IN IF Header.compression = RLZ THEN Fail
          ELSE /\ mem' \in Inflated(HeaderWords + HeaderComprWords, lenPacked,
                                   SubSeq(image.tables, 1, lenUnpacked),
                                   lenUnpacked)
               /\ room' = room + RoomGained(lenPacked, lenUnpacked)
               /\ IF Header.data[TEXT] # NULL_PTR /\ Header.ldata[TEXT] # 0
                  THEN step' = "texts" /\ at' = Header.data[TEXT]
                  ELSE step' = "sections" /\ UNCHANGED at
               /\ UNCHANGED <<ents, calls, found>>

(* fseek: before the beginning of the file it fails and changes nothing.   *)
FileSeek(p, q) == IF q < 0 THEN p ELSE q

(* A block of packed texts is unpacked behind the tables, and nextOffset   *)
(* counts from where it ends in the file.  A length that has the sign bit  *)
(* set is beyond the limit; a block that reaches over the end is read as   *)
(* far as it goes.  A chain that leads back into the file header, whose    *)
(* words are not in the model, is not followed: the reader stays there.     *)
UnpackText ==
    /\ step = "texts" /\ at >= HeaderWords
    /\ LET p        == at + TextComprWords
           next     == InFile(at + 1)
           packed   == InFile(at + 2)
           unpacked == InFile(at + 3)
           end      == IF p + Words(packed) <= FileEnd
                       THEN p + Words(packed) ELSE FileEnd
       IN IF p > FileEnd \/ packed < 0 \/ unpacked < 0 THEN Fail
          ELSE /\ \E block \in Inflated(p, packed,
                                       Data(OwnerOf(InFile(p)), unpacked),
                                       unpacked) : mem' = mem \o block
               /\ room' = room + RoomGained(packed, unpacked)
               /\ IF next = 0 THEN step' = "sections" /\ UNCHANGED at
                  ELSE /\ at' = FileSeek(end, end + next - TextComprWords
                                                 - Words(packed))
                       /\ UNCHANGED step
               /\ UNCHANGED <<ents, calls, found>>

(* Labels, events and the pointer sections of objects and animations.      *)
ReadSections ==
    /\ step = "sections"
    /\ IF /\ Fits(Header.label, Header.llabel)
          /\ Fits(Header.event, Header.levent)
          /\ \A k \in {OBJ, ANIM} : \/ Header.ptrs[k] = NULL_PTR
                                    \/ Fits(Header.ptrs[k], Header.lptrs[k])
       THEN /\ found' = [found EXCEPT !.labels = Header.llabel,
                                      !.events = Header.levent]
            /\ step' = "entries" /\ at' = Header.table[MAIN]
            /\ UNCHANGED <<mem, room, ents, calls>>
       ELSE Fail

-----------------------------------------------------------------------------
(* read_entry.                                                             *)

NoSource == [file |-> FALSE, addr |-> 0, len |-> 0, unpacked |-> 0,
             compr |-> NONE]

Source(addr, len, unpacked, compr) ==
    [file |-> TRUE, addr |-> addr, len |-> len, unpacked |-> unpacked,
     compr |-> compr]

(* The entry whose header is at p, with no label if there is none there.   *)
EntryAt(p) ==
    [at |-> p, id |-> (Cell(p) % 65536) \div 256, type |-> Cell(p) % 256,
     label |-> IF Cell(p + LabelField - 1) < found.labels
               THEN Cell(p + LabelField - 1) ELSE NULL_PTR,
     kids |-> <<>>, attrs |-> <<>>, lang |-> 0, indexes |-> <<>>,
     channels |-> <<>>, format |-> 0, src |-> NoSource]

(* What is made of the words behind the header: the entry, extraSize and   *)
(* the position after it; ok is FALSE when read_entry returns at once.     *)
Parsed(e, size, to) == [ok |-> TRUE, entry |-> e, size |-> size, to |-> to]
Broken(e, p, n) == [ok |-> FALSE, entry |-> e, size |-> 0,
                    to |-> IF n = 0 THEN p ELSE InputEnd]

ReadVsmx(e, q) ==
    LET n == Cell(q + 1)
        source == Source(q + 2 + Cell(q), n, n, IF Packed THEN IN_RCO ELSE NONE)
    IN IF ~CanRead(q, 2) THEN Broken(e, q, 2)
       ELSE Parsed([e EXCEPT !.src = source], 2 + Words(n),
                   Seek(q + 2, q + 2 + Words(n)))

ReadTexts(e, q) ==
    LET n == Capped(Cell(q + 1))
        first == q + TextEntryWords
        language == [e EXCEPT !.lang = Cell(q)]
        index(i) == first + TextIndexWords * (i - 1)
    IN IF ~CanRead(q, TextEntryWords) THEN Broken(e, q, TextEntryWords)
       ELSE IF ~CanRead(first, TextIndexWords * n)
       THEN Broken(language, first, n)
       ELSE Parsed([language EXCEPT
                      !.src.file = TRUE,
                      !.indexes = [i \in 1..n |->
                          [label |-> Cell(index(i)), length |-> Cell(index(i) + 1),
                           offset |-> Cell(index(i) + 2)]]],
                   TextEntryWords + TextIndexWords * n, Clipped(index(n + 1)))

(* An image or model that is not compressed may lack its last word; so it  *)
(* is taken to, unless nextEntryOffset leaves room for it.                 *)
FullSize == IF image.ps3 THEN 5 ELSE 4

IsShort(compr, next) ==
    compr = NONE /\ (next = 0 \/ next < EntryWords + FullSize)

ReadImage(e, q, next) ==
    LET compr == Cell(q) \div 65536
        short == IsShort(compr, next)
        size  == IF short THEN FullSize - 1 ELSE FullSize
        taken == IF image.ps3 THEN 4 + (IF compr # NONE THEN 1 ELSE 0) ELSE size
        unpacked == IF short \/ (image.ps3 /\ compr = NONE) THEN Cell(q + 1)
                    ELSE Cell(q + FullSize - 1)
    IN IF ~CanRead(q, IF image.ps3 THEN 4 ELSE size) THEN Broken(e, q, size)
       ELSE Parsed([e EXCEPT
                      !.format = Cell(q) % 65536,
                      !.src = Source(Cell(q + 2), Cell(q + 1), unpacked, compr)],
                   size, Clipped(q + taken))

(* Behind the record of a sound lie its channels, at least two of them.    *)
AtLeastOne(n) == IF n < 1 THEN 1 ELSE n                        \* mutant

AtLeastTwo(n) == IF n < 2 THEN 2 ELSE n

ReadSound(e, q) ==
    LET n == Cell(q) \div 65536
        total == Cell(q + 1)
        offset == Cell(q + 2)
        first == q + 3
        sound == [e EXCEPT !.format = Cell(q) % 65536,
                           !.src = Source(offset, total, total, NONE)]
    IN IF ~CanRead(q, 3) THEN Broken(e, q, 3)
       ELSE IF ~CanRead(first, 2 * n) THEN Broken(sound, first, n)
       ELSE Parsed([sound EXCEPT
                      !.channels = [c \in 1..n |->
                          <<Cell(first + 2 * c - 2),
                            Cell(first + 2 * c - 1) - offset>>]],
                   3 + 2 * AtLeastTwo(n), Clipped(first + 2 * AtLeastTwo(n)))

ReadFont(e, q) ==
    IF ~CanRead(q, 3) THEN Broken(e, q, 3)
    ELSE Parsed([e EXCEPT !.format = Cell(q)], 3, q + 3)

(* An object says how long it is when it has children, an action by where  *)
(* the next one begins; the attribute tables say it for the others.        *)
TableSize(e) ==
    IF e.type \in DOMAIN Roles[e.id] THEN Len(Roles[e.id][e.type]) ELSE 0

AttrsSizeWhole(e) ==                                           \* mutant
    LET told == IF e.id = OBJ THEN Cell(e.at + SizeField - 1)
                ELSE Cell(e.at + NextField - 1)
    IN IF told # 0 THEN told ELSE TableSize(e)

AttrsSize(e) ==
    LET told == IF e.id = OBJ THEN Cell(e.at + SizeField - 1)
                ELSE Cell(e.at + NextField - 1)
    IN IF told # 0 THEN told - EntryWords ELSE TableSize(e)

ReadAttrs(e, q) ==
    LET n == AttrsSize(e)
    IN IF ~CanRead(q, n) THEN Broken(e, q, n)
       ELSE Parsed([e EXCEPT !.attrs = [w \in 1..n |->
                                [ent |-> FALSE, v |-> Cell(q + w - 1)]]],
                   n, Clipped(q + n))

ReadExtra(e) ==
    LET q == e.at + EntryWords
    IN CASE e.id = VSMX /\ e.type = 1 -> ReadVsmx(e, q)
         [] e.id = TEXT /\ e.type = 1 -> ReadTexts(e, q)
         [] e.id \in {IMG, MODEL} /\ e.type = 1 ->
              ReadImage(e, q, Cell(e.at + NextField - 1))
         [] e.id = SOUND /\ e.type = 1 -> ReadSound(e, q)
         [] e.id = FONT /\ e.type = 1 -> ReadFont(e, q)
         [] (e.id = OBJ /\ e.type > 0) \/ (e.id = ANIM /\ e.type > 1) ->
              ReadAttrs(e, q)
         [] OTHER -> Parsed(e, 0, q)

(* A call of read_entry: the children still to be read, nextEntryOffset    *)
(* and extraSize.  A call that returns early leaves nothing to be done; an *)
(* entry for which the file is too short is left as malloc returned it.    *)
Enter(parent, callers) ==
    /\ IF ~Fits(at, EntryWords)
       THEN step' = "undefined" /\ UNCHANGED <<ents, at, calls>>
       ELSE LET r == ReadExtra(EntryAt(at))
                e == Len(ents) + 1
            IN /\ ents' = Append(IF parent = Nil THEN ents
                                 ELSE [ents EXCEPT ![parent].kids = Append(@, e)],
                                 r.entry)
               /\ at' = r.to
               /\ calls' = IF r.ok
                           THEN <<[e |-> e, extra |-> r.size,
                                   left |-> Capped(Cell(at + CountField - 1)),
                                   next |-> Cell(at + NextField - 1)]>> \o callers
                           ELSE callers
               /\ UNCHANGED step
    /\ UNCHANGED <<mem, room, found>>

ReadMain == step = "entries" /\ ents = <<>> /\ Enter(Nil, <<>>)

ReadChild ==
    /\ step = "entries" /\ calls # <<>> /\ calls[1].left > 0
    /\ Enter(calls[1].e, <<[calls[1] EXCEPT !.left = @ - 1]>> \o Tail(calls))

(* The words a call has taken up; those of its children are counted by the *)
(* position that the last of them left.                                    *)
Consumed(f) ==
    IF ents[f.e].kids = <<>> THEN EntryWords + f.extra ELSE at - ents[f.e].at

(* An entry that compressed data made four bytes longer than its parent    *)
(* says has no unpacked size.                                              *)
WithoutSize(f) ==
    LET kids == ents[f.e].kids
        c == IF kids = <<>> THEN Nil ELSE Last(kids)
    IN IF /\ f.next = Consumed(f) - 1 /\ c # Nil
          /\ ents[c].src.file /\ ents[c].src.compr # NONE
          /\ ents[c].type = 1 /\ ents[c].id \in {IMG, MODEL}
       THEN [ents EXCEPT ![c].src.unpacked = UNKNOWN] ELSE ents

(* The end of a call: nextEntryOffset is believed rather than the count.   *)
Return ==
    /\ step = "entries" /\ calls # <<>> /\ calls[1].left = 0
    /\ LET f == calls[1]
           misaligned == f.next # 0 /\ f.next # Consumed(f)
       IN /\ at' = IF misaligned THEN Seek(at, ents[f.e].at + f.next) ELSE at
          /\ ents' = IF misaligned THEN WithoutSize(f) ELSE ents
    /\ calls' = Tail(calls)
    /\ step' = IF Tail(calls) = <<>> THEN "shortcuts" ELSE "entries"
    /\ UNCHANGED <<mem, room, found>>

-----------------------------------------------------------------------------
(* The passes over the tree.                                               *)

Main == 1
Children(k) == IF found.tbl[k] = Nil THEN <<>> ELSE ents[found.tbl[k]].kids

(* Where the packed texts begin: behind the packed header.                 *)
FirstBlockUnaligned ==                                         \* mutant
    HeaderWords + HeaderComprWords + InFile(HeaderWords) \div 4

FirstBlock == HeaderWords + HeaderComprWords + Words(InFile(HeaderWords))

(* The first child of the main table of each kind.                         *)
Shortcut(k) ==
    LET of == SelectSeq(ents[Main].kids, LAMBDA c : ents[c].id = k)
    IN IF k = MAIN \/ of = <<>> THEN Nil ELSE Head(of)

AssignShortcuts ==
    /\ step = "shortcuts"
    /\ found' = [found EXCEPT !.tbl = [k \in Kinds |-> Shortcut(k)]]
    /\ IF Shortcut(TEXT) # Nil /\ Header.ldata[TEXT] # 0
       THEN /\ step' = "sources"
            /\ at' = IF Packed THEN FirstBlock ELSE at
       ELSE step' = "addresses" /\ UNCHANGED at
    /\ UNCHANGED <<mem, room, ents, calls>>

SetSource(e, s) == [e EXCEPT !.src = [s EXCEPT !.file = e.src.file]]

(* Texts that are not packed: every language gets the whole section.       *)
FindPlainTexts ==
    /\ step = "sources" /\ ~Packed
    /\ LET s == Source(Header.data[TEXT], Header.ldata[TEXT],
                       Header.ldata[TEXT], NONE)
       IN ents' = [i \in DOMAIN ents |->
                     IF i \in Range(Children(TEXT)) THEN SetSource(ents[i], s)
                     ELSE ents[i]]
    /\ step' = "addresses"
    /\ UNCHANGED <<mem, at, room, calls, found>>

(* A block of the chain behind the packed header belongs to the first      *)
(* language of that number.  A read beyond the end leaves the block as it  *)
(* was, and the loop does not end.                                         *)
FindPackedText ==
    /\ step = "sources" /\ Packed /\ at + TextComprWords <= FileEnd
    /\ LET next == InFile(at + 1)
           s == Source(at + TextComprWords, InFile(at + 2), InFile(at + 3),
                       Header.compression)
           of == SelectSeq(Children(TEXT),
                           LAMBDA c : ents[c].lang = InFile(at) % 65536)
       IN /\ ents' = IF of = <<>> THEN ents
                     ELSE [ents EXCEPT ![Head(of)] = SetSource(@, s)]
          /\ IF next = 0 THEN step' = "addresses" /\ UNCHANGED at
             ELSE at' = at + next /\ UNCHANGED step
    /\ UNCHANGED <<mem, room, calls, found>>

(* The offsets of images, models and sounds count from their sections.     *)
SectionStartOfFirst(k) == Header.data[IMG]                     \* mutant

SectionStart(k) == Header.data[k]

AddAddresses ==
    /\ step = "addresses"
    /\ ents' = [i \in DOMAIN ents |->
                  LET of == {k \in {IMG, MODEL, SOUND} : i \in Range(Children(k))}
                  IN [ents[i] EXCEPT !.src.addr =
                        IF of = {} THEN @ ELSE @ + SectionStart(CHOOSE k \in of : TRUE)]]
    /\ step' = "refs"
    /\ UNCHANGED <<mem, at, room, calls, found>>

(* find_entry_from_offset: the first entry at that place, or none.         *)
FindEntry(p) ==
    LET there == {i \in DOMAIN ents : ents[i].at = p}
    IN IF there = {} THEN Nil ELSE CHOOSE i \in there : \A j \in there : i <= j

(* The entries at and below e.                                             *)
Below(e) ==
    LET below[x \in DOMAIN ents] ==
          {x} \cup UNION {below[c] : c \in Range(ents[x].kids)}
    IN IF e = Nil THEN {} ELSE below[e]

FixedAttrs(e, k) ==
    LET roles == Roles[k][e.type]
    IN IF e.type = 0 \/ e.type \notin DOMAIN Roles[k] THEN e.attrs
       ELSE [w \in DOMAIN e.attrs |->
               IF roles[w] = "pointer" /\ e.attrs[w - 1].v \in EntryRefs
               THEN [ent |-> TRUE, v |-> FindEntry(e.attrs[w].v)]
               ELSE e.attrs[w]]

FixRefs ==
    /\ step = "refs"
    /\ ents' = [i \in DOMAIN ents |->
                  LET of == {k \in {OBJ, ANIM} : i \in Below(found.tbl[k])}
                  IN [ents[i] EXCEPT !.attrs =
                        IF of = {} THEN @
                        ELSE FixedAttrs(ents[i], CHOOSE k \in of : TRUE)]]
    /\ step' = "sizes"
    /\ UNCHANGED <<mem, at, room, calls, found>>

(* rco_fix_decomp_sizes: what zlib finds is believed rather than the entry.*)
FixedSize(s) ==
    LET size == IF s.compr = ZLIB /\ Unpacks(s.addr, s.len)
                THEN image.unpacked[OwnerOf(InFile(s.addr))] ELSE s.unpacked
    IN IF ~s.file \/ s.compr = NONE THEN s
       ELSE [s EXCEPT !.unpacked = IF size = UNKNOWN THEN 0 ELSE size]

FixSizes ==
    /\ step = "sizes"
    /\ ents' = [i \in DOMAIN ents |->
                  [ents[i] EXCEPT !.src = FixedSize(@)]]
    /\ step' = "done"
    /\ UNCHANGED <<mem, at, room, calls, found>>

-----------------------------------------------------------------------------
Next ==
    \/ Open \/ OpenFails
    \/ ReadPlainHeader \/ ReadPackedHeader \/ UnpackText
    \/ ReadSections
    \/ ReadMain \/ ReadChild \/ Return
    \/ AssignShortcuts
    \/ FindPlainTexts \/ FindPackedText
    \/ AddAddresses \/ FixRefs \/ FixSizes

-----------------------------------------------------------------------------
(* Every variable has its type: calls and children are entries that have   *)
(* been read, and the calls are nested in the order of their entries.      *)
TypeOK ==
    /\ step \in Steps
    /\ mem \in Seq(Int) /\ at \in Nat /\ room \in Nat
    /\ \A i \in DOMAIN ents :
         /\ ents[i].kids \in Seq(i + 1..Len(ents))
         /\ ents[i].src.compr \in {NONE, ZLIB, RLZ, IN_RCO}
         /\ \A w \in DOMAIN ents[i].attrs :
              ents[i].attrs[w].ent => ents[i].attrs[w].v \in 0..Len(ents)
    /\ \A c \in DOMAIN calls :
         /\ calls[c].e \in DOMAIN ents /\ calls[c].left \in 0..MAX_SUBENTRIES
         /\ c > 1 => calls[c].e < calls[c-1].e
    /\ found.tbl \in [Kinds -> 0..Len(ents)]
=============================================================================
