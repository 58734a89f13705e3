--------------------------- MODULE RcoWriterLayout ---------------------------
(***************************************************************************)
(* The sections of a file that write_rco has written: tables, texts,       *)
(* labels, events and resources lie where the header says, inside the file *)
(* and beside each other.                                                  *)
(*                                                                         *)
(* What is packed is written behind what was packed before, so it never    *)
(* overlaps.  Texts that are not packed are counted while the tree is      *)
(* written and written later, each language only if it can be read: the    *)
(* length in the header is right when all of them can (TextsWhole).        *)
(*                                                                         *)
(* The second part: the entry of a resource gives the length and the place *)
(* of its data.  The three loops over images, sounds and models pack the   *)
(* data before the tree is written, and write_entry adds the lengths up    *)
(* again while it writes the entries: the two agree when the loops and the *)
(* tree come to the same entries in the same order (AllCollected).         *)
(*                                                                         *)
(* The third part: the index of a language, or the chain of packed blocks, *)
(* leads to its texts.  write_entry puts the places of all texts into the  *)
(* indexes before any text is written.                                     *)
(*                                                                         *)
(* The fourth part: what has a name is found by it.  Every table stands in *)
(* the stream as it was filled, and in a filled table that had room for    *)
(* its items the search from the slot of an item's hash comes to it.       *)
(***************************************************************************)
EXTENDS RcoWriterProofs

Languages == Children(Table(TEXT))

(* write_entry adds up the texts of the languages, write_text_resource     *)
(* writes those of the subentries of the text table.                       *)
TextsWhole ==
    \A e \in E :
       /\ rco.id[e] = TEXT /\ rco.type[e] = 1 <=> \E i \in DOMAIN Languages : Languages[i] = e
       /\ rco.id[e] = TEXT /\ rco.type[e] = 1 => rco.readable[e]

-----------------------------------------------------------------------------
(* What the running total of the texts is.                                 *)

TextShare(e) ==
    IF rco.id[e] = TEXT /\ rco.type[e] = 1 THEN TextTotal(rco, e) ELSE 0

(* The words of the texts of entries 1 to m.                               *)
TextBefore ==
    LET total[m \in 0..N] == IF m = 0 THEN 0 ELSE total[m-1] + TextShare(m)
    IN total

Counted(m) == size[TEXT] = TextBefore[m]

SizeInv ==
    /\ pc \in Early => Counted(0)
    /\ pc = "entries" => \E m \in 0..N :
          Placed(m) /\ Linked(m) /\ AtEnd(m) /\ Calls(m) /\ Counted(m)
    /\ TreeWritten => Counted(N)

-----------------------------------------------------------------------------
(* What is staged is staged for a table with subentries.                   *)

Staging == [image |-> IMG, sound |-> SOUND, model |-> MODEL]

StageInv ==
    /\ pc \in DOMAIN Staging /\ todo # <<>> =>
          HasSubentries(rco, Table(Staging[pc]))
    /\ \A k \in {IMG, SOUND, MODEL} :
          header.ldata[k] > 0 => HasSubentries(rco, Table(k))

-----------------------------------------------------------------------------
(* The sections as they come to lie.                                       *)

Sections(f, l, ks) == {<<f[k], l[k]>> : k \in {x \in ks : l[x] > 0}}

EntrySections == {<<offset[e], EntryWords>> : e \in E}
Inner == EntrySections \cup Sections(header.ptrs, header.lptrs, Kinds)
LabelSections ==
    {<<header.label, header.llabel>>, <<header.event, header.levent>>}
Full == Inner \cup LabelSections
Texts == Sections(header.data, header.ldata, {TEXT})
Resources == Sections(header.data, header.ldata, {IMG, SOUND, MODEL})

(* Before the hash tables: none of the lengths is set.                     *)
NoTables ==
    /\ \A k \in Kinds : header.lptrs[k] = 0
    /\ header.ldata[TEXT] = 0

(* The parts of the text table one after another.                          *)
LangLaid ==
    /\ header.ldata[TEXT] = 0
    /\ \A k \in Kinds \ {TEXT} : header.lptrs[k] = 0
    /\ IF Table(TEXT) = Nil
       THEN todo = <<>> /\ header.lptrs[TEXT] = 0 /\ Apart(EntrySections, StreamEnd)
       ELSE /\ Apart(EntrySections, header.ptrs[TEXT])
            /\ header.ptrs[TEXT] >= HeaderWords
            /\ header.ptrs[TEXT] + header.lptrs[TEXT] = StreamEnd

(* Each table behind the one before; those to come have no length yet.     *)
TablesLaid ==
    /\ header.ldata[TEXT] = 0
    /\ Apart(Inner, StreamEnd)
    /\ pc = "hash" =>
         /\ \A i \in DOMAIN todo : header.lptrs[todo[i]] = 0
         /\ \A i, j \in DOMAIN todo : i # j => todo[i] # todo[j]

(* The texts written so far are those in front of the next language.       *)
TextsEnd(i) == IF i = Len(Languages) THEN N ELSE Languages[i+1] - 1

TextLaid ==
    \/ todo = <<>> /\ header.ldata[TEXT] = 0 /\ Apart(Inner, StreamEnd)
    \/ /\ ~Buffered
       /\ Apart(Inner, header.data[TEXT])
       /\ header.data[TEXT] >= HeaderWords
       /\ header.ldata[TEXT] = TextBefore[N]
       /\ \E i \in 0..Len(Languages) :
            /\ Len(todo) = Len(Languages) - i
            /\ \A j \in 1..Len(todo) : todo[j] = Languages[i + j]
            /\ header.data[TEXT] + TextBefore[TextsEnd(i)] = StreamEnd

(* A packed file has no texts among its tables.                            *)
InTables(S) ==
    /\ Apart(IF Buffered THEN S ELSE S \cup Texts, StreamEnd)
    /\ Buffered => header.ldata[TEXT] = 0

PackedLaid ==
    /\ Apart(IF Buffered THEN Full ELSE Full \cup Texts, StreamEnd)
    /\ Buffered \/ todo = <<>>
    /\ Buffered => \/ todo = <<>> /\ header.ldata[TEXT] = 0
                   \/ /\ header.data[TEXT] >= HeaderWords
                      /\ header.data[TEXT] + header.ldata[TEXT] = FileEnd

AllLaid ==
    IF Buffered THEN Apart(Full, StreamEnd) /\ Apart(Resources \cup Texts, FileEnd)
    ELSE Apart(Full \cup Texts \cup Resources, FileEnd)

Unhashed == Early \cup Fixing \cup {"entries", "hashText"}
Unlabelled == Unhashed \cup {"hashLang", "hash", "text", "textBody", "labels"}

LayoutInv ==
    /\ pc \in Unlabelled =>
          header.llabel = rco.labelsLen /\ header.levent = rco.eventsLen
    /\ pc \in Unhashed => NoTables
    /\ pc = "hashLang" => LangLaid
    /\ pc \in {"hash", "text"} => TablesLaid
    /\ pc = "textBody" => TextLaid
    /\ pc = "labels" => InTables(Inner)
    /\ pc \in {"flush", "packText"} => InTables(Full)
    /\ pc \in {"packTextBody", "resources"} => PackedLaid
    /\ pc \in {"header", "done"} => AllLaid
-----------------------------------------------------------------------------
(* Sections beside each other.                                             *)

Spans(S) == \A s \in S : s[1] \in Int /\ s[2] \in Nat

(* A section behind the others.                                            *)
LEMMA ApartMore ==
    ASSUME NEW S, Spans(S), NEW q \in Int, Apart(S, q), NEW p \in Int, NEW n \in Nat,
           NEW end \in Int, q <= p, HeaderWords <= p, p + n <= end,
           NEW T, T \subseteq S \cup {<<p, n>>}
    PROVE  Apart(T, end)
  <1> DEFINE t == <<p, n>>
  <1>1. t[1] = p /\ t[2] = n
    OBVIOUS
  <1> HIDE DEF t
  <1>2. \A s \in S : /\ s[1] >= HeaderWords /\ s[1] + s[2] <= q
                     /\ s[1] \in Int /\ s[2] \in Nat
    BY DEF Apart, Spans
  <1>3. \A s \in S : Disjoint(s, t) /\ Disjoint(t, s)
    BY <1>1, <1>2 DEF Disjoint
  <1>4. \A s \in S : s[1] >= HeaderWords /\ s[1] + s[2] <= end
    BY <1>2
  <1>5. t[1] >= HeaderWords /\ t[1] + t[2] <= end
    BY <1>1
  <1>6. T \subseteq S \cup {t}
    BY DEF t
  <1>7. \A s, u \in S : s # u => Disjoint(s, u)
    BY DEF Apart
  <1>8. ASSUME NEW s \in T PROVE s[1] >= HeaderWords /\ s[1] + s[2] <= end
    BY <1>4, <1>5, <1>6
  <1>9. ASSUME NEW s \in T, NEW u \in T, s # u PROVE Disjoint(s, u)
    BY <1>3, <1>6, <1>7, <1>9
  <1> QED BY <1>8, <1>9 DEF Apart

(* Some of the sections.                                                   *)
LEMMA ApartLess ==
    ASSUME NEW S, Spans(S), NEW q \in Int, Apart(S, q), NEW end \in Int, q <= end,
           NEW T, T \subseteq S
    PROVE  Apart(T, end)
  <1>1. \A s \in S : /\ s[1] >= HeaderWords /\ s[1] + s[2] <= q
                     /\ s[1] \in Int /\ s[2] \in Nat
    BY DEF Apart, Spans
  <1>2. \A s \in S : s[1] >= HeaderWords /\ s[1] + s[2] <= end
    BY <1>1
  <1> QED BY <1>2 DEF Apart

LEMMA SpansMore ==
    ASSUME NEW S, Spans(S), NEW p \in Int, NEW n \in Nat
    PROVE  Spans(S \cup {<<p, n>>})
  <1> DEFINE t == <<p, n>>
  <1>1. t[1] = p /\ t[2] = n
    OBVIOUS
  <1> HIDE DEF t
  <1>2. Spans(S \cup {t})
    BY <1>1 DEF Spans
  <1> QED BY <1>2 DEF t

LEMMA SectionSpans ==
    ASSUME NEW f \in [Kinds -> Int], NEW l \in [Kinds -> Nat], NEW ks, ks \subseteq Kinds
    PROVE  Spans(Sections(f, l, ks))
  <1> SUFFICES ASSUME NEW k \in ks PROVE <<f[k], l[k]>>[1] \in Int /\ <<f[k], l[k]>>[2] \in Nat
    BY DEF Spans, Sections
  <1>1. f[k] \in Int /\ l[k] \in Nat
    OBVIOUS
  <1> QED BY <1>1

(* The sections in the stream have their types.                            *)
LEMMA LaidTypes ==
    ASSUME TypeInv
    PROVE  /\ Spans(EntrySections) /\ Spans(Inner) /\ Spans(Full)
           /\ Spans(Texts) /\ Spans(Resources)
           /\ Spans(Full \cup Texts) /\ Spans(Inner \cup Texts)
           /\ Spans(Resources \cup Texts)
  <1>1. /\ header.ptrs \in [Kinds -> Int] /\ header.lptrs \in [Kinds -> Nat]
        /\ header.data \in [Kinds -> Int] /\ header.ldata \in [Kinds -> Nat]
        /\ header.label \in Int /\ header.llabel \in Nat
        /\ header.event \in Int /\ header.levent \in Nat
    BY DEF TypeInv, Headers
  <1>2. Spans(EntrySections)
    <2> SUFFICES ASSUME NEW e \in E
                 PROVE <<offset[e], EntryWords>>[1] \in Int /\ <<offset[e], EntryWords>>[2] \in Nat
      BY DEF Spans, EntrySections
    <2>1. offset[e] \in Int /\ EntryWords \in Nat
      BY DEF TypeInv, EntryWords
    <2> QED BY <2>1
  <1>3. Spans(Inner)
    <2>1. Spans(Sections(header.ptrs, header.lptrs, Kinds))
      BY <1>1, SectionSpans
    <2> QED BY <1>2, <2>1 DEF Spans, Inner
  <1>4. Spans(Full)
    <2>1. /\ <<header.label, header.llabel>>[1] \in Int
          /\ <<header.label, header.llabel>>[2] \in Nat
          /\ <<header.event, header.levent>>[1] \in Int
          /\ <<header.event, header.levent>>[2] \in Nat
      BY <1>1
    <2> QED BY <1>3, <2>1 DEF Spans, Full, LabelSections
  <1>5. Spans(Texts)
    BY <1>1, SectionSpans, KindNames DEF Texts
  <1>6. Spans(Resources)
    BY <1>1, SectionSpans, KindNames DEF Resources
  <1> QED BY <1>2, <1>3, <1>4, <1>5, <1>6 DEF Spans

(* The entries lie apart as soon as all of them are written.               *)
LEMMA EntriesApart ==
    ASSUME TypeInv, Placed(N)
    PROVE  Apart(EntrySections, StreamEnd)
  <1>1. \A e \in E : /\ offset[e] \in Nat /\ Room(e) \in Nat /\ EntryWords <= Room(e)
                     /\ offset[e] >= HeaderWords /\ offset[e] + Room(e) <= StreamEnd
    <2> TAKE e \in E
    <2>1. rco \in Archives /\ E = 1..N /\ offset[e] \in Nat
      BY ParentType DEF TypeInv
    <2>2. Len(rco.attrs[e]) \in Nat
      BY <2>1, EntryType
    <2> QED BY <2>1, <2>2 DEF Placed, Room, EntryWords
  <1>2. StreamEnd \in Nat
    BY StreamType
  <1>3. \A e \in E : /\ <<offset[e], EntryWords>>[1] >= HeaderWords
                     /\ <<offset[e], EntryWords>>[1] + <<offset[e], EntryWords>>[2]
                           <= StreamEnd
    <2> TAKE e \in E
    <2>1. offset[e] + EntryWords <= StreamEnd
      BY <1>1, <1>2 DEF EntryWords
    <2> QED BY <1>1, <2>1
  <1>4. ASSUME NEW e \in E, NEW g \in E, e < g
        PROVE  /\ Disjoint(<<offset[e], EntryWords>>, <<offset[g], EntryWords>>)
               /\ Disjoint(<<offset[g], EntryWords>>, <<offset[e], EntryWords>>)
    <2>1. offset[e] + Room(e) <= offset[g]
      <3>1. E = 1..N
        BY ParentType DEF TypeInv
      <3> QED BY <1>4, <3>1 DEF Placed
    <2>2. offset[e] + EntryWords <= offset[g]
      BY <1>1, <2>1 DEF EntryWords
    <2> QED BY <2>2 DEF Disjoint
  <1>5. \A e, g \in E : e # g => e < g \/ g < e
    <2>1. E = 1..N /\ N \in Nat
      BY ParentType DEF TypeInv
    <2> QED BY <2>1
  <1>6. ASSUME NEW s \in EntrySections, NEW t \in EntrySections, s # t
        PROVE  Disjoint(s, t)
    <2>1. PICK e \in E : s = <<offset[e], EntryWords>>
      BY DEF EntrySections
    <2>2. PICK g \in E : t = <<offset[g], EntryWords>>
      BY DEF EntrySections
    <2>3. e # g
      BY <1>6, <2>1, <2>2
    <2> QED BY <1>4, <1>5, <2>1, <2>2, <2>3
  <1>7. \A s \in EntrySections : s[1] >= HeaderWords /\ s[1] + s[2] <= StreamEnd
    BY <1>3 DEF EntrySections
  <1> QED BY <1>6, <1>7 DEF Apart

(* A table of the header that is filled in; the others stay as they are.   *)
OnlyTable(k) ==
    \A x \in Kinds \ {k} : header'.ptrs[x] = header.ptrs[x]
                           /\ header'.lptrs[x] = header.lptrs[x]

LEMMA InnerMore ==
    ASSUME NEW k \in Kinds, OnlyTable(k), rco' = rco, offset' = offset
    PROVE  Inner' \subseteq Inner \cup {<<header'.ptrs[k], header'.lptrs[k]>>}
  <1>1. EntrySections' = EntrySections
    BY DEF EntrySections, E
  <1>2. ASSUME NEW x \in Kinds, header'.lptrs[x] > 0
        PROVE  <<header'.ptrs[x], header'.lptrs[x]>> \in
                 Sections(header.ptrs, header.lptrs, Kinds)
                   \cup {<<header'.ptrs[k], header'.lptrs[k]>>}
    <2>1. CASE x = k
      BY <2>1
    <2>2. CASE x # k
      BY <1>2, <2>2 DEF OnlyTable, Sections
    <2> QED BY <2>1, <2>2
  <1>3. Sections(header.ptrs, header.lptrs, Kinds)' \subseteq
           Sections(header.ptrs, header.lptrs, Kinds)
              \cup {<<header'.ptrs[k], header'.lptrs[k]>>}
    BY <1>2 DEF Sections
  <1> QED BY <1>1, <1>3 DEF Inner

(* The parts of the header, and what of it lies in the stream.             *)
LEMMA LaidSame ==
    ASSUME UNCHANGED <<rco, offset>>
    PROVE  /\ EntrySections' = EntrySections
           /\ header'.ptrs = header.ptrs /\ header'.lptrs = header.lptrs
                 => Inner' = Inner
           /\ header'.data = header.data /\ header'.ldata = header.ldata
                 => Texts' = Texts /\ Resources' = Resources
           /\ header' = header => Full' = Full
  <1>1. EntrySections' = EntrySections
    BY DEF EntrySections, E
  <1>2. header'.ptrs = header.ptrs /\ header'.lptrs = header.lptrs => Inner' = Inner
    BY <1>1 DEF Inner, Sections
  <1>3. header'.data = header.data /\ header'.ldata = header.ldata
           => Texts' = Texts /\ Resources' = Resources
    BY DEF Texts, Resources, Sections
  <1>4. header' = header => Full' = Full
    BY <1>2 DEF Full, LabelSections
  <1> QED BY <1>1, <1>2, <1>3, <1>4

-----------------------------------------------------------------------------
(* The total of the texts.                                                 *)

LEMMA TextBeforeType ==
    ASSUME rco \in Archives
    PROVE  /\ TextBefore[0] = 0 /\ \A m \in 0..N : TextBefore[m] \in Nat
           /\ \A m \in 1..N : TextBefore[m] = TextBefore[m-1] + TextShare(m)
           /\ \A e \in E : TextShare(e) \in Nat
  <1> DEFINE body(f) == [m \in 0..N |-> IF m = 0 THEN 0 ELSE f[m-1] + TextShare(m)]
             total == TextBefore
  <1>1. N \in Nat /\ E = 1..N
    BY ParentType
  <1>2. \A e \in E : TextShare(e) \in Nat
    <2> TAKE e \in E
    <2>1. TextTotal(rco, e) \in Nat
      BY ArchiveType, TextUsedType DEF E
    <2> QED BY <2>1 DEF TextShare
  <1>3. \E f : f = body(f)
    <2> DEFINE next == [m \in 1..N |-> [k \in Nat |-> k + TextShare(m)]]
    <2>1. next \in StepFunctions(N, Nat) /\ 0 \in Nat
      BY <1>1, <1>2 DEF StepFunctions
    <2>2. \A m \in 1..N, k \in Nat : next[m][k] = k + TextShare(m)
      OBVIOUS
    <2> HIDE DEF next
    <2>3. PICK f : Recursive(f, N, Nat, 0, next)
      BY <1>1, <2>1, Recursion
    <2>4. \A m \in 1..N : m - 1 \in 0..N
      BY <1>1
    <2>5. \A m \in 1..N : f[m] = f[m-1] + TextShare(m)
      BY <2>2, <2>3, <2>4 DEF Recursive
    <2>6. f = body(f)
      BY <1>1, <2>3, <2>5 DEF Recursive
    <2> QED BY <2>6
  <1>4. total = body(total)
    BY <1>3 DEF TextBefore
  <1> HIDE DEF total
  <1>5. total[0] = 0 /\ \A m \in 1..N : total[m] = total[m-1] + TextShare(m)
    BY <1>1, <1>4
  <1>6. 0..N \subseteq {m \in 0..N : total[m] \in Nat}
    <2> DEFINE T == {m \in 0..N : total[m] \in Nat}
    <2>1. 0 \in T
      BY <1>1, <1>5
    <2>2. ASSUME NEW m \in 1..N, m - 1 \in T PROVE m \in T
      <3>1. total[m] = total[m-1] + TextShare(m) /\ total[m-1] \in Nat /\ m \in E
        BY <1>1, <1>5, <2>2
      <3> QED BY <1>2, <3>1
    <2> HIDE DEF T
    <2>3. 0..N \subseteq T
      BY <1>1, <2>1, <2>2, UpTo
    <2> QED BY <2>3 DEF T
  <1>7. \A m \in 0..N : total[m] \in Nat
    BY <1>6
  <1> QED BY <1>2, <1>5, <1>7 DEF total

LEMMA CountedKept ==
    ASSUME UNCHANGED <<rco, size>>
    PROVE  N' = N /\ \A m : Counted(m) => Counted(m)'
  BY DEF Counted, TextBefore, TextShare, TextTotal, TextUsed, N

(* write_entry counts the texts of a language and of nothing else.         *)
LEMMA EnterCounts ==
    ASSUME TypeInv, NEW m \in 0..N-1, Counted(m), NEW parent, NEW prev,
           Enter(m + 1, parent, prev)
    PROVE  Counted(m + 1)'
  <1> DEFINE c == m + 1
             k == rco.id[c]
  <1>1. rco \in Archives /\ c \in E /\ c \in 1..N /\ c - 1 = m
    <2>1. rco \in Archives
      BY DEF TypeInv
    <2>2. N \in Nat /\ E = 1..N
      BY <2>1, ParentType
    <2> QED BY <2>1, <2>2
  <1>2. size \in [Kinds -> Nat] /\ k \in Kinds /\ TEXT \in Kinds
    BY <1>1, EntryType, KindNames DEF TypeInv
  <1>3. rco' = rco /\ size' = [size EXCEPT ![k] = size[k] + DataWords(c)]
    BY DEF Enter
  <1>4. size'[TEXT] = size[TEXT] + TextShare(c)
    <2> HIDE DEF c
    <2>1. CASE k = TEXT
      <3>1. DataWords(c) = TextShare(c)
        BY <2>1 DEF DataWords, TextShare, TEXT, IMG, MODEL, SOUND
      <3> QED BY <1>2, <1>3, <2>1, <3>1
    <2>2. CASE k # TEXT
      <3>1. TextShare(c) = 0 /\ size'[TEXT] = size[TEXT] /\ size[TEXT] \in Nat
        BY <1>2, <1>3, <2>2 DEF TextShare
      <3> QED BY <3>1
    <2> QED BY <2>1, <2>2
  <1>5. TextBefore[c] = TextBefore[m] + TextShare(c)
    BY <1>1, TextBeforeType
  <1>6. TextBefore' = TextBefore
    BY <1>3 DEF TextBefore, TextShare, TextTotal, TextUsed, N
  <1> QED BY <1>4, <1>5, <1>6 DEF Counted

(* The tree is not written any more.                                       *)
LEMMA OtherSteps ==
    ASSUME \/ FixEntry \/ Fallthrough("fixObj", "fixAnim")
           \/ Fallthrough("fixAnim", "hashText") \/ LaterStep
    PROVE  /\ UNCHANGED <<rco, opts, src, tmp, size, offset>>
           /\ pc \in Later \cup Fixing /\ pc' \in Later \cup Fixing
  <1>1. CASE FixEntry
    BY <1>1 DEF FixEntry, Fixing
  <1>2. CASE Fallthrough("fixObj", "fixAnim") \/ Fallthrough("fixAnim", "hashText")
    BY <1>2 DEF Fallthrough, Goto, Fixing, Later
  <1>3. CASE HashText \/ HashLang \/ HashTree \/ BeginText \/ WriteText
    BY <1>3 DEF HashText, HashLang, HashTree, BeginText, WriteText, Goto, Later
  <1>4. CASE \/ WriteLabelsEvents \/ Flush \/ BeginPackText \/ PackText
             \/ CopyResources \/ FixHeader
    BY <1>4 DEF WriteLabelsEvents, Flush, BeginPackText, PackText, CopyResources,
                FixHeader, Goto, Later
  <1>5. CASE \/ Fallthrough("hashLang", "hash") \/ Fallthrough("hash", "text")
             \/ Fallthrough("textBody", "labels")
             \/ Fallthrough("packTextBody", "resources")
    BY <1>5 DEF Fallthrough, Goto, Later
  <1> QED BY <1>1, <1>2, <1>3, <1>4, <1>5 DEF LaterStep

LEMMA EarlySize ==
    ASSUME EarlyStep
    PROVE  UNCHANGED <<rco, opts, size, offset>>
  BY DEF EarlyStep, Open, OpenFails, StageImage, StageModel, StageSound,
         StageCompressed, Fallthrough

(* A step of write_entry counts the entry it writes.                       *)
LEMMA EntriesSize ==
    ASSUME TypeInv, TreeInv, SizeInv, WriteMain \/ WriteChild \/ FinishEntry
    PROVE  SizeInv'
  <1>1. /\ pc = "entries" /\ rco \in Archives /\ rco' = rco /\ pos = StreamEnd
        /\ N' = N /\ N \in Nat \ {0} /\ E = 1..N
    <2>1. pc = "entries" /\ rco \in Archives /\ rco' = rco /\ N' = N
      BY DEF TypeInv, WriteMain, WriteChild, FinishEntry, Enter, N
    <2> QED BY <2>1, ParentType DEF TreeInv
  <1>2. PICK m \in 0..N : Placed(m) /\ Linked(m) /\ AtEnd(m) /\ Calls(m) /\ Counted(m)
    BY <1>1 DEF SizeInv
  <1>3. ASSUME pc' = "entries", NEW n \in 0..N,
               Placed(n)', Linked(n)', AtEnd(n)', Calls(n)', Counted(n)'
        PROVE  SizeInv'
    BY <1>1, <1>3 DEF SizeInv, Early, TreeWritten
  <1>4. CASE WriteMain
    <2>1. m = 0 /\ Placed(1)' /\ Linked(1)' /\ AtEnd(1)' /\ Calls(1)'
      BY <1>1, <1>2, <1>4, WriteMainTree
    <2>2. Counted(1)'
      <3>1. m \in 0..N-1 /\ m + 1 = 1
        BY <1>1, <2>1
      <3>2. Enter(m + 1, HeaderWords, 0)
        BY <1>4, <3>1 DEF WriteMain, Main
      <3>3. Counted(m + 1)'
        BY <1>2, <3>1, <3>2, EnterCounts
      <3> QED BY <3>1, <3>3
    <2>3. pc' = "entries" /\ 1 \in 0..N
      BY <1>1, <1>4 DEF WriteMain, Enter
    <2> QED BY <1>3, <2>1, <2>2, <2>3
  <1>5. CASE WriteChild
    <2>1. m < N /\ Placed(m + 1)' /\ Linked(m + 1)' /\ AtEnd(m + 1)' /\ Calls(m + 1)'
      BY <1>1, <1>2, <1>5, WriteChildTree
    <2>2. Head(stack[1].left) = m + 1
      <3>1. stack # <<>> /\ stack[1].left # <<>> /\ 1 \in DOMAIN stack
        BY <1>5 DEF WriteChild, TypeInv
      <3>2. PICK d \in 0..Len(rco.kids[stack[1].e]) : Call(m, 1, d)
        BY <1>2, <3>1 DEF Calls
      <3> QED BY <1>2, <3>1, <3>2, NextChild
    <2>3. m \in 0..N-1 /\ m + 1 \in 0..N
      BY <1>1, <2>1
    <2>4. Counted(m + 1)'
      <3>1. Enter(m + 1, stack[1].at, stack[1].ret)
        BY <1>5, <2>2 DEF WriteChild
      <3> QED BY <1>2, <2>3, <3>1, EnterCounts
    <2>5. pc' = "entries"
      BY <1>5 DEF WriteChild, Enter
    <2> QED BY <1>3, <2>1, <2>3, <2>4, <2>5
  <1>6. CASE FinishEntry
    <2>1. /\ Placed(m)' /\ Linked(m)' /\ AtEnd(m)'
          /\ stack' # <<>> => Calls(m)'
          /\ stack' = <<>> => m = N
      BY <1>1, <1>2, <1>6, FinishEntryTree
    <2>2. Counted(m)'
      BY <1>2, <1>6, CountedKept DEF FinishEntry
    <2>3. CASE Tail(stack) # <<>>
      <3>1. pc' = "entries" /\ stack' # <<>>
        <4> DEFINE x == [Tail(stack)[1] EXCEPT !.ret = NextOffset(stack[1])]
        <4>1. stack' = <<x>> \o Tail(Tail(stack)) /\ pc' = pc
          BY <1>6, <2>3 DEF FinishEntry
        <4>2. Tail(Tail(stack)) \in Seq(Frames)
          <5>1. stack \in Seq(Frames) /\ stack # <<>>
            BY <1>6 DEF TypeInv, FinishEntry
          <5>2. Tail(stack) \in Seq(Frames)
            BY <5>1, TailType
          <5> QED BY <2>3, <5>2, TailType
        <4>3. \A u \in Seq(Frames) : \A y : <<y>> \o u # <<>>
          OBVIOUS
        <4> HIDE DEF x
        <4> QED BY <1>1, <4>1, <4>2, <4>3
      <3> QED BY <1>3, <2>1, <2>2, <3>1
    <2>4. CASE Tail(stack) = <<>>
      <3>1. stack' = <<>> /\ pc' = "fixObj"
        BY <1>6, <2>4 DEF FinishEntry, Goto
      <3>2. Counted(N)'
        BY <1>1, <2>1, <2>2, <3>1 DEF Counted
      <3> QED BY <1>1, <3>1, <3>2 DEF SizeInv, Early, TreeWritten
    <2> QED BY <2>3, <2>4
  <1> QED BY <1>4, <1>5, <1>6

LEMMA NextSize ==
    ASSUME TypeInv, TreeInv, TreeInv', SizeInv, Next
    PROVE  SizeInv'
  <1>1. CASE EarlyStep
    <2>1. pc \in Early /\ pc' \in Early \cup {"failed"} /\ UNCHANGED <<rco, size>>
      BY <1>1, EarlySteps, EarlySize
    <2>2. Counted(0)'
      BY <2>1, CountedKept DEF SizeInv
    <2> QED BY <2>1, <2>2 DEF SizeInv, Early, TreeWritten
  <1>2. CASE WritePlaceholderHeader
    <2>1. /\ pc = "placeholder" /\ pc' = "entries" /\ UNCHANGED <<rco, size, stack>>
      BY <1>2 DEF WritePlaceholderHeader, Goto
    <2>2. Counted(0)' /\ stack = <<>>
      BY <2>1, CountedKept DEF SizeInv, TreeInv, Early
    <2>3. PICK m \in 0..N' : Placed(m)' /\ Linked(m)' /\ AtEnd(m)' /\ Calls(m)'
      BY <2>1 DEF TreeInv
    <2>4. m = 0
      BY <2>1, <2>2, <2>3 DEF Calls
    <2> QED BY <2>1, <2>2, <2>3, <2>4 DEF SizeInv, Early, TreeWritten
  <1>3. CASE WriteMain \/ WriteChild \/ FinishEntry
    BY <1>3, EntriesSize
  <1>4. CASE \/ FixEntry \/ Fallthrough("fixObj", "fixAnim")
             \/ Fallthrough("fixAnim", "hashText") \/ LaterStep
    <2>1. /\ UNCHANGED <<rco, size>>
          /\ pc \in Later \cup Fixing /\ pc' \in Later \cup Fixing
      BY <1>4, OtherSteps
    <2>2. Counted(N)' /\ N' = N
      BY <2>1, CountedKept DEF SizeInv, TreeWritten, Later, Fixing
    <2> QED BY <2>1, <2>2 DEF SizeInv, Early, TreeWritten, Later, Fixing
  <1> QED BY <1>1, <1>2, <1>3, <1>4, NextSteps

-----------------------------------------------------------------------------
(* What is staged.                                                         *)

Has(k) == HasSubentries(rco, Table(k))
Staged == {IMG, SOUND, MODEL}

LEMMA StagingNames ==
    /\ DOMAIN Staging = {"image", "sound", "model"}
    /\ Staging["image"] = IMG /\ Staging["sound"] = SOUND /\ Staging["model"] = MODEL
    /\ Staged \subseteq Kinds /\ TEXT \notin Staged /\ TEXT \in Kinds
  BY KindNames DEF Staging, Staged, TEXT, IMG, SOUND, MODEL

(* A length is set for a table with subentries.                            *)
OnlyStaged ==
    \A k \in Staged : header'.ldata[k] > 0 => header.ldata[k] > 0 \/ Has(k)

LEMMA StageKept ==
    ASSUME StageInv, rco' = rco, OnlyStaged,
           pc' \in DOMAIN Staging /\ todo' # <<>> => Has(Staging[pc'])
    PROVE  StageInv'
  <1>1. \A k \in Staged : header'.ldata[k] > 0 => Has(k)
    BY DEF StageInv, OnlyStaged, Staged, Has
  <1>2. \A k : HasSubentries(rco, Table(k))' <=> Has(k)
    BY DEF HasSubentries, Table, Has
  <1> QED BY <1>1, <1>2 DEF StageInv, Staged, Has, Staging

LEMMA EarlyStage ==
    ASSUME TypeInv, StageInv, EarlyStep
    PROVE  StageInv'
  <1>1. rco \in Archives /\ rco' = rco /\ header \in Headers
    BY EarlySize DEF TypeInv
  <1>2. ASSUME NEW k \in Kinds, Children(Table(k)) # <<>> PROVE Has(k)
    BY <1>1, <1>2, NoWork DEF Has
  <1>3. ASSUME header' = header PROVE OnlyStaged
    BY <1>3 DEF OnlyStaged
  <1>4. CASE Open \/ OpenFails
    <2>1. header' = header
      BY <1>4 DEF Open, OpenFails
    <2>2. \/ pc' = "image" /\ todo' = Children(Table(IMG))
          \/ pc' = "failed"
      BY <1>4 DEF Open, OpenFails, Goto, Work
    <2> QED BY <1>1, <1>2, <1>3, <2>1, <2>2, StageKept, StagingNames, KindNames
  <1>5. CASE Fallthrough("image", "sound")
    <2>1. header' = header /\ pc' = "sound" /\ todo' = Children(Table(SOUND))
      BY <1>5 DEF Fallthrough, Goto, Work
    <2> QED BY <1>1, <1>2, <1>3, <2>1, StageKept, StagingNames, KindNames
  <1>6. CASE Fallthrough("sound", "model")
    <2>1. header' = header /\ pc' = "model" /\ todo' = Children(Table(MODEL))
      BY <1>6 DEF Fallthrough, Goto, Work
    <2> QED BY <1>1, <1>2, <1>3, <2>1, StageKept, StagingNames, KindNames
  <1>7. CASE Fallthrough("model", "placeholder")
    <2>1. header' = header /\ pc' = "placeholder"
      BY <1>7 DEF Fallthrough, Goto
    <2> QED BY <1>1, <1>3, <2>1, StageKept, StagingNames
  <1>8. ASSUME NEW k \in Staged, pc \in DOMAIN Staging, Staging[pc] = k,
               pc' = pc, todo # <<>>,
               \A x \in Staged \ {k} : header'.ldata[x] = header.ldata[x]
        PROVE  StageInv'
    <2>1. Has(k)
      BY <1>8 DEF StageInv, Has
    <2>2. OnlyStaged
      BY <1>8, <2>1 DEF OnlyStaged
    <2> QED BY <1>1, <1>8, <2>1, <2>2, StageKept
  <1>9. ASSUME NEW k \in Staged, StageCompressed(k)
        PROVE  /\ pc' = pc /\ todo # <<>>
               /\ \A x \in Staged \ {k} : header'.ldata[x] = header.ldata[x]
    <2>1. PICK n : header' = [header EXCEPT !.ldata[k] = n]
      <3> DEFINE e == Head(todo)
      <3>1. PICK len \in IF rco.srcLenUnpacked[e] # 0 THEN PackedLensOf(e, Chosen(e))
                         ELSE {src.len[e]} :
              header' = [header EXCEPT !.ldata[k] = @ + Words(len)]
        BY <1>9 DEF StageCompressed
      <3> QED BY <3>1
    <2>2. pc' = pc /\ todo # <<>>
      BY <1>9 DEF StageCompressed
    <2> QED BY <1>1, <2>1, <2>2, StagingNames DEF Headers
  <1>10. CASE StageImage
    <2>1. pc = "image" /\ StageCompressed(IMG) /\ IMG \in Staged
      BY <1>10 DEF StageImage, Staged
    <2> QED BY <1>8, <1>9, <2>1, StagingNames
  <1>11. CASE StageModel
    <2>1. pc = "model" /\ StageCompressed(MODEL) /\ MODEL \in Staged
      BY <1>11 DEF StageModel, Staged
    <2> QED BY <1>8, <1>9, <2>1, StagingNames
  <1>12. CASE StageSound
    <2>1. pc = "sound" /\ pc' = pc /\ todo # <<>> /\ SOUND \in Staged
      BY <1>12 DEF StageSound, Staged
    <2>2. header' = header \/ \E n : header' = [header EXCEPT !.ldata[SOUND] = n]
      BY <1>12 DEF StageSound
    <2>3. \A x \in Staged \ {SOUND} : header'.ldata[x] = header.ldata[x]
      BY <1>1, <2>2, StagingNames DEF Headers
    <2> QED BY <1>8, <2>1, <2>3, StagingNames
  <1> QED BY <1>4, <1>5, <1>6, <1>7, <1>10, <1>11, <1>12 DEF EarlyStep

(* The lengths of the resources are set while they are staged only.        *)
SameStaged == \A k \in Staged : header'.ldata[k] = header.ldata[k]

LEMMA LaterStaged ==
    ASSUME TypeInv, LaterStep
    PROVE  SameStaged
  <1>1. header \in Headers
    BY DEF TypeInv
  <1>2. CASE HashText
    <2>1. header' = header \/ header' = [header EXCEPT !.ptrs[TEXT] = pos]
      BY <1>2 DEF HashText
    <2> QED BY <1>1, <2>1 DEF SameStaged, Headers
  <1>3. CASE HashLang
    <2>1. \E n : header' = [header EXCEPT !.lptrs[TEXT] = n]
      BY <1>3 DEF HashLang
    <2> QED BY <1>1, <2>1 DEF SameStaged, Headers
  <1>4. CASE HashTree
    <2>1. header' = header \/ \E k, n : header' = [header EXCEPT !.ptrs[k] = pos,
                                                                !.lptrs[k] = n]
      BY <1>4 DEF HashTree
    <2> QED BY <1>1, <2>1 DEF SameStaged, Headers
  <1>5. CASE BeginText \/ BeginPackText
    <2>1. header' = header \/ \E p, n : header' = [header EXCEPT !.data[TEXT] = p,
                                                                !.ldata[TEXT] = n]
      BY <1>5 DEF BeginText, BeginPackText
    <2>2. TEXT \notin Staged
      BY StagingNames
    <2>3. header.ldata = [k \in Kinds |-> header.ldata[k]]
      BY <1>1 DEF Headers
    <2>4. ASSUME NEW p, NEW n, header' = [header EXCEPT !.data[TEXT] = p, !.ldata[TEXT] = n]
          PROVE  SameStaged
      <3>1. header'.ldata = [header.ldata EXCEPT ![TEXT] = n]
        BY <1>1, <2>4 DEF Headers
      <3> QED BY <2>2, <2>3, <3>1, StagingNames DEF SameStaged
    <2> QED BY <2>1, <2>4 DEF SameStaged
  <1>6. CASE WriteLabelsEvents
    <2>1. \E a, b, c, d : header' = [header EXCEPT !.label = a, !.event = b,
                                         !.levent = c, !.data[TEXT] = d]
      BY <1>6 DEF WriteLabelsEvents
    <2> QED BY <1>1, <2>1 DEF SameStaged, Headers
  <1>7. CASE PackText
    <2>1. PICK len \in Nat : header' = [header EXCEPT !.ldata[TEXT] = @ + BlockWords(len)]
      BY <1>7, PackStep DEF Packs
    <2> QED BY <1>1, <2>1, StagingNames DEF SameStaged, Headers
  <1>8. CASE CopyResources
    <2>1. \E f : header' = [header EXCEPT !.data = f]
      BY <1>8 DEF CopyResources
    <2> QED BY <1>1, <2>1 DEF SameStaged, Headers
  <1>9. CASE FixHeader
    <2>1. \E f : header' = [header EXCEPT !.table = f]
      BY <1>9 DEF FixHeader
    <2> QED BY <1>1, <2>1 DEF SameStaged, Headers
  <1>10. CASE \/ WriteText \/ Flush
              \/ Fallthrough("hashLang", "hash") \/ Fallthrough("hash", "text")
              \/ Fallthrough("textBody", "labels")
              \/ Fallthrough("packTextBody", "resources")
    BY <1>10 DEF WriteText, Flush, Fallthrough, SameStaged
  <1> QED BY <1>2, <1>3, <1>4, <1>5, <1>6, <1>7, <1>8, <1>9, <1>10 DEF LaterStep

LEMMA NextStage ==
    ASSUME TypeInv, StageInv, Next
    PROVE  StageInv'
  <1>1. CASE EarlyStep
    BY <1>1, EarlyStage
  <1>2. ASSUME rco' = rco, SameStaged, pc' \notin DOMAIN Staging
        PROVE  StageInv'
    <2>1. OnlyStaged
      BY <1>2 DEF OnlyStaged, SameStaged
    <2> QED BY <1>2, <2>1, StageKept
  <1>3. CASE WritePlaceholderHeader \/ WriteMain \/ WriteChild \/ FinishEntry
    <2>1. rco' = rco /\ header' = header /\ pc' \in {"entries", "fixObj"}
      BY <1>3 DEF WritePlaceholderHeader, WriteMain, WriteChild, FinishEntry, Enter, Goto
    <2> QED BY <1>2, <2>1, StagingNames DEF SameStaged
  <1>4. CASE \/ FixEntry \/ Fallthrough("fixObj", "fixAnim")
             \/ Fallthrough("fixAnim", "hashText")
    <2>1. header' = header
      BY <1>4 DEF FixEntry, Fallthrough
    <2>2. rco' = rco /\ pc' \in Later \cup Fixing
      BY <1>4, OtherSteps
    <2> QED BY <1>2, <2>1, <2>2, StagingNames DEF SameStaged, Later, Fixing
  <1>5. CASE LaterStep
    <2>1. rco' = rco /\ pc' \in Later \cup Fixing
      BY <1>5, OtherSteps
    <2> QED BY <1>2, <1>5, <2>1, LaterStaged, StagingNames DEF Later, Fixing
  <1> QED BY <1>1, <1>3, <1>4, <1>5, NextSteps

-----------------------------------------------------------------------------
(* The ends of the stream and of the file.                                 *)

LEMMA EndsType ==
    ASSUME TypeInv
    PROVE  /\ StreamEnd \in Nat /\ FileEnd \in Nat
           /\ HeaderWords \in Nat /\ StreamEnd >= HeaderWords /\ FileEnd >= HeaderWords
           /\ ~ Buffered => FileEnd = StreamEnd
           /\ Buffered => FilePos = FileEnd
           /\ ~ Buffered => FilePos = pos
  <1>1. Len(file) \in Nat
    BY DEF TypeInv
  <1>2. StreamEnd \in Nat /\ Len(Stream) \in Nat
    BY StreamType
  <1>3. ~ Buffered => FileEnd = StreamEnd
    BY DEF FileEnd, StreamEnd, Stream
  <1> QED BY <1>1, <1>2, <1>3 DEF FileEnd, StreamEnd, HeaderWords, FilePos

LEMMA EndsSame ==
    ASSUME UNCHANGED <<file, tables, opts>>
    PROVE  StreamEnd' = StreamEnd /\ FileEnd' = FileEnd
  BY DEF StreamEnd, FileEnd, Stream, Buffered

LEMMA FileWriteEnds ==
    ASSUME TypeInv, NEW ws \in Seq(Int), FileWrite(ws), opts' = opts, pos = StreamEnd
    PROVE  /\ FileEnd' = FileEnd + Len(ws)
           /\ Buffered => StreamEnd' = StreamEnd
           /\ ~ Buffered => StreamEnd' = FileEnd'
  <1>1. FileEnd \in Nat /\ StreamEnd \in Nat /\ Len(ws) \in Nat
    BY EndsType
  <1>2. CASE Buffered
    <2> DEFINE n == Len(file)
    <2>1. tables' = tables /\ file' = PutAt(file, FilePos - HeaderWords, ws)
      BY DEF FileWrite
    <2>2. n \in Nat /\ FilePos - HeaderWords = n /\ file \in Seq(Int)
      BY <1>2 DEF FilePos, HeaderWords, TypeInv
    <2>3. Len(file') = IF n + Len(ws) > Len(file) THEN n + Len(ws) ELSE Len(file)
      <3> HIDE DEF n
      <3> QED BY <2>1, <2>2, PutAtWords
    <2>4. Len(file') = n + Len(ws)
      BY <1>1, <2>2, <2>3
    <2>5. StreamEnd' = StreamEnd
      BY <1>2, <2>1 DEF StreamEnd, Stream, Buffered
    <2>6. FileEnd = HeaderWords + n /\ FileEnd' = HeaderWords + Len(file')
      BY DEF FileEnd
    <2> HIDE DEF n
    <2> QED BY <1>1, <1>2, <2>2, <2>4, <2>5, <2>6 DEF HeaderWords
  <1>3. CASE ~ Buffered
    <2>1. Fwrite(ws)
      BY <1>3 DEF FileWrite, Fwrite, WriteAt, FilePos
    <2>2. StreamEnd' = StreamEnd + Len(ws)
      BY <2>1, FwriteExtends
    <2>3. FileEnd = StreamEnd /\ FileEnd' = StreamEnd'
      BY <1>3 DEF FileEnd, StreamEnd, Stream, Buffered
    <2> QED BY <1>3, <2>2, <2>3
  <1> QED BY <1>2, <1>3

(* The position is the end of the stream.                                  *)
LEMMA LaterStart ==
    ASSUME TypeInv, TreeInv, pc \in Later
    PROVE  pos = StreamEnd /\ Placed(N) /\ rco \in Archives /\ header \in Headers
           /\ TEXT \in Kinds
  <1>1. TreeWritten /\ pc \notin Fixing
    BY DEF Later, TreeWritten, Fixing
  <1> QED BY <1>1, KindNames DEF TreeInv, Whole, TypeInv

-----------------------------------------------------------------------------
(* Before the tables.                                                      *)

SameBlank ==
    /\ header'.lptrs = header.lptrs /\ header'.ldata[TEXT] = header.ldata[TEXT]
    /\ header'.llabel = header.llabel /\ header'.levent = header.levent
    /\ rco' = rco

LEMMA BlankSame == rco' = rco /\ header' = header => SameBlank
  BY DEF SameBlank

LEMMA EarlyBlank ==
    ASSUME TypeInv, EarlyStep
    PROVE  SameBlank
  <1>1. rco' = rco /\ header \in Headers
    BY EarlySize DEF TypeInv
  <1>2. CASE \/ Open \/ OpenFails \/ Fallthrough("image", "sound")
             \/ Fallthrough("sound", "model") \/ Fallthrough("model", "placeholder")
    BY <1>1, <1>2, BlankSame DEF Open, OpenFails, Fallthrough
  <1>3. ASSUME NEW k \in Staged, NEW n, header' = [header EXCEPT !.ldata[k] = n]
        PROVE  SameBlank
    BY <1>1, <1>3, StagingNames DEF SameBlank, Headers
  <1>4. ASSUME NEW k \in Staged, StageCompressed(k)
        PROVE  SameBlank
    <2> DEFINE e == Head(todo)
    <2>1. PICK len \in IF rco.srcLenUnpacked[e] # 0 THEN PackedLensOf(e, Chosen(e))
                       ELSE {src.len[e]} :
            header' = [header EXCEPT !.ldata[k] = @ + Words(len)]
      BY <1>4 DEF StageCompressed
    <2> QED BY <1>3, <2>1
  <1>5. CASE StageImage \/ StageModel
    BY <1>4, <1>5 DEF StageImage, StageModel, Staged
  <1>6. CASE StageSound
    <2>1. header' = header \/ \E n : header' = [header EXCEPT !.ldata[SOUND] = n]
      BY <1>6 DEF StageSound
    <2> QED BY <1>1, <1>3, <2>1, BlankSame DEF Staged
  <1> QED BY <1>2, <1>5, <1>6 DEF EarlyStep

LEMMA BlankKept ==
    ASSUME LayoutInv, pc \in Unhashed, SameBlank, pc' \in Unhashed \cup {"failed"}
    PROVE  LayoutInv'
  <1>1. NoTables /\ header.llabel = rco.labelsLen /\ header.levent = rco.eventsLen
    BY DEF LayoutInv, Unlabelled
  <1>2. /\ NoTables'
        /\ header'.llabel = rco'.labelsLen /\ header'.levent = rco'.eventsLen
    BY <1>1 DEF NoTables, SameBlank
  <1> QED BY <1>2 DEF LayoutInv, Unlabelled, Unhashed, Early, Fixing

LEMMA UnhashedLaid ==
    ASSUME TypeInv, LayoutInv,
           \/ EarlyStep \/ WritePlaceholderHeader
           \/ WriteMain \/ WriteChild \/ FinishEntry \/ FixEntry
           \/ Fallthrough("fixObj", "fixAnim") \/ Fallthrough("fixAnim", "hashText")
    PROVE  LayoutInv'
  <1>1. CASE EarlyStep
    BY <1>1, EarlySteps, EarlyBlank, BlankKept DEF Unhashed
  <1>2. CASE WritePlaceholderHeader
    BY <1>2, BlankSame, BlankKept DEF WritePlaceholderHeader, Goto, Unhashed, Early
  <1>3. CASE WriteMain \/ WriteChild \/ FinishEntry
    <2>1. pc = "entries" /\ rco' = rco /\ header' = header /\ pc' \in {"entries", "fixObj"}
      BY <1>3 DEF WriteMain, WriteChild, FinishEntry, Enter, Goto
    <2> QED BY <2>1, BlankSame, BlankKept DEF Unhashed, Fixing
  <1>4. CASE FixEntry
    BY <1>4, BlankSame, BlankKept DEF FixEntry, Unhashed, Fixing
  <1>5. CASE Fallthrough("fixObj", "fixAnim") \/ Fallthrough("fixAnim", "hashText")
    BY <1>5, BlankSame, BlankKept DEF Fallthrough, Goto, Unhashed, Fixing
  <1> QED BY <1>1, <1>2, <1>3, <1>4, <1>5

-----------------------------------------------------------------------------
(* The tables.                                                             *)

SameLabels ==
    header'.llabel = header.llabel /\ header'.levent = header.levent /\ rco' = rco

LEMMA LabelsKept ==
    ASSUME LayoutInv, pc \in Unlabelled, SameLabels
    PROVE  header'.llabel = rco'.labelsLen /\ header'.levent = rco'.eventsLen
  BY DEF LayoutInv, SameLabels

LEMMA HashTextLaid ==
    ASSUME TypeInv, TreeInv, LayoutInv, HashText
    PROVE  LayoutInv'
  <1>1. /\ pc = "hashText" /\ pc' = "hashLang" /\ todo' = Children(Table(TEXT))
        /\ UNCHANGED <<rco, opts, file, tables, offset>>
    BY DEF HashText, Goto, Work
  <1>2. pos = StreamEnd /\ Placed(N) /\ rco \in Archives /\ header \in Headers
        /\ TEXT \in Kinds
    BY <1>1, LaterStart DEF Later
  <1>3. NoTables
    BY <1>1 DEF LayoutInv, Unhashed
  <1>4. StreamEnd' = StreamEnd /\ EntrySections' = EntrySections
    BY <1>1, EndsSame, LaidSame
  <1>5. Apart(EntrySections, StreamEnd) /\ StreamEnd >= HeaderWords /\ StreamEnd \in Nat
    BY <1>2, EntriesApart, EndsType
  <1>6. /\ header'.lptrs = header.lptrs /\ header'.ldata = header.ldata /\ SameLabels
        /\ Table(TEXT) # Nil => header'.ptrs[TEXT] = StreamEnd
    <2>1. CASE Table(TEXT) = Nil
      BY <1>1, <2>1 DEF HashText, SameLabels
    <2>2. CASE Table(TEXT) # Nil
      <3>1. header' = [header EXCEPT !.ptrs[TEXT] = StreamEnd]
        BY <1>2, <2>2 DEF HashText
      <3> QED BY <1>1, <1>2, <3>1 DEF Headers, SameLabels
    <2> QED BY <2>1, <2>2
  <1>7. \A k \in Kinds : header'.lptrs[k] = 0
    BY <1>3, <1>6 DEF NoTables
  <1>8. header'.ldata[TEXT] = 0 /\ Table(TEXT)' = Table(TEXT)
    BY <1>1, <1>3, <1>6 DEF NoTables, Table
  <1>9. LangLaid'
    <2>1. CASE Table(TEXT) = Nil
      <3>1. todo' = <<>>
        BY <1>1, <2>1 DEF Children
      <3> QED BY <1>2, <1>4, <1>5, <1>7, <1>8, <2>1, <3>1 DEF LangLaid
    <2>2. CASE Table(TEXT) # Nil
      <3>1. StreamEnd + 0 = StreamEnd
        BY <1>5
      <3> QED BY <1>2, <1>4, <1>5, <1>6, <1>7, <1>8, <2>2, <3>1 DEF LangLaid
    <2> QED BY <2>1, <2>2
  <1>10. header'.llabel = rco'.labelsLen /\ header'.levent = rco'.eventsLen
    BY <1>1, <1>6, LabelsKept DEF Unlabelled, Unhashed
  <1> QED BY <1>1, <1>9, <1>10 DEF LayoutInv, Unhashed, Early, Fixing

(* What an iteration over the languages appends.                           *)
LangStep(n) ==
    /\ StreamEnd' = StreamEnd + n
    /\ header' = [header EXCEPT !.lptrs[TEXT] = header.lptrs[TEXT] + n]

LEMMA HashLangStep ==
    ASSUME TypeInv, pos = StreamEnd, HashLang
    PROVE  todo # <<>> /\ \E n \in Nat : LangStep(n)
  <1>1. PICK i \in DOMAIN todo :
          LET e == todo[i]
              n == Len(rco.indexes[e])
          IN /\ Fwrite(SlotWords(Filled(TextItems(e), n), n))
             /\ header' = [header EXCEPT !.lptrs[TEXT] = @ + n]
    BY DEF HashLang
  <1> DEFINE e == todo[i]
             n == Len(rco.indexes[e])
             ws == SlotWords(Filled(TextItems(e), n), n)
  <1>2. rco \in Archives /\ e \in E /\ opts' = opts /\ todo # <<>>
    BY DEF HashLang, TypeInv
  <1>3. n \in Nat
    BY <1>2, EntryType
  <1>4. ws \in Seq(Int) /\ Len(ws) = n
    <2>1. /\ Len(TextItems(e)) = n
          /\ \A j \in 1..Len(TextItems(e)) : TextItems(e)[j].at \in Int
      BY <1>2, TextItemsType
    <2> HIDE DEF n, e
    <2> QED BY <1>3, <2>1, SlotsType DEF ws
  <1>5. Fwrite(ws) /\ header' = [header EXCEPT !.lptrs[TEXT] = header.lptrs[TEXT] + n]
    BY <1>1
  <1> HIDE DEF ws, n
  <1>6. StreamEnd' = StreamEnd + Len(ws)
    BY <1>2, <1>4, <1>5, FwriteExtends
  <1> QED BY <1>2, <1>3, <1>4, <1>5, <1>6 DEF LangStep

LEMMA HashLangLaid ==
    ASSUME TypeInv, TreeInv, LayoutInv, HashLang
    PROVE  LayoutInv'
  <1>1. pc = "hashLang" /\ pc' = pc /\ UNCHANGED <<rco, opts, offset>>
    BY DEF HashLang
  <1>2. pos = StreamEnd /\ header \in Headers /\ TEXT \in Kinds
    BY <1>1, LaterStart DEF Later
  <1>3. LangLaid
    BY <1>1 DEF LayoutInv
  <1>4. PICK n \in Nat : todo # <<>> /\ LangStep(n)
    BY <1>2, HashLangStep
  <1>5. /\ header'.ptrs = header.ptrs /\ header'.ldata = header.ldata /\ SameLabels
        /\ header'.lptrs[TEXT] = header.lptrs[TEXT] + n
        /\ \A k \in Kinds \ {TEXT} : header'.lptrs[k] = header.lptrs[k]
        /\ header.lptrs[TEXT] \in Nat /\ header.ptrs[TEXT] \in Int
    BY <1>1, <1>2, <1>4 DEF LangStep, Headers, SameLabels
  <1>6. /\ Table(TEXT) # Nil /\ Table(TEXT)' = Table(TEXT)
        /\ EntrySections' = EntrySections /\ StreamEnd' = StreamEnd + n
    BY <1>1, <1>3, <1>4, LaidSame DEF LangLaid, LangStep, Table
  <1>7. header.ptrs[TEXT] + (header.lptrs[TEXT] + n) = StreamEnd + n
    <2>1. header.ptrs[TEXT] + header.lptrs[TEXT] = StreamEnd
      BY <1>3, <1>6 DEF LangLaid
    <2> QED BY <1>5, <2>1
  <1>8. LangLaid'
    BY <1>3, <1>5, <1>6, <1>7 DEF LangLaid
  <1>9. header'.llabel = rco'.labelsLen /\ header'.levent = rco'.eventsLen
    BY <1>1, <1>5, LabelsKept DEF Unlabelled, Unhashed
  <1> QED BY <1>1, <1>8, <1>9 DEF LayoutInv, Unhashed, Early, Fixing

LEMMA LangsEnd ==
    ASSUME TypeInv, LangLaid
    PROVE  Apart(Inner, StreamEnd)
  <1>1. /\ header.ptrs[TEXT] \in Int /\ header.lptrs[TEXT] \in Nat /\ StreamEnd \in Int
        /\ TEXT \in Kinds /\ Spans(EntrySections)
    <2>1. header.ptrs[TEXT] \in Int /\ header.lptrs[TEXT] \in Nat /\ TEXT \in Kinds
      BY KindNames DEF TypeInv, Headers
    <2>2. StreamEnd \in Int
      BY EndsType
    <2> QED BY <2>1, <2>2, LaidTypes
  <1>2. Sections(header.ptrs, header.lptrs, Kinds)
          \subseteq {<<header.ptrs[TEXT], header.lptrs[TEXT]>>}
    BY DEF LangLaid, Sections
  <1>3. CASE Table(TEXT) = Nil
    <2>1. Sections(header.ptrs, header.lptrs, Kinds) = {}
      BY <1>3 DEF LangLaid, Sections
    <2>2. Inner = EntrySections
      BY <2>1 DEF Inner
    <2> QED BY <1>3, <2>2 DEF LangLaid
  <1>4. CASE Table(TEXT) # Nil
    <2>1. Inner \subseteq EntrySections \cup {<<header.ptrs[TEXT], header.lptrs[TEXT]>>}
      BY <1>2 DEF Inner
    <2>2. /\ Apart(EntrySections, header.ptrs[TEXT])
          /\ header.ptrs[TEXT] >= HeaderWords
          /\ header.ptrs[TEXT] + header.lptrs[TEXT] = StreamEnd
      BY <1>4 DEF LangLaid
    <2> DEFINE p == header.ptrs[TEXT]
               n == header.lptrs[TEXT]
    <2>3. p <= p /\ HeaderWords <= p /\ p + n <= StreamEnd
      BY <1>1, <2>2 DEF HeaderWords
    <2> HIDE DEF p, n
    <2>4. Apart(Inner, StreamEnd)
      BY <1>1, <2>1, <2>2, <2>3, ApartMore DEF p, n
    <2> QED BY <2>4
  <1> QED BY <1>3, <1>4

LEMMA HashBegins ==
    ASSUME TypeInv, LayoutInv, Fallthrough("hashLang", "hash")
    PROVE  LayoutInv'
  <1>1. /\ pc = "hashLang" /\ pc' = "hash" /\ todo' = <<IMG, MODEL, SOUND, OBJ, ANIM>>
        /\ UNCHANGED <<rco, opts, file, tables, offset, header>>
    BY DEF Fallthrough, Goto, Work
  <1>2. LangLaid
    BY <1>1 DEF LayoutInv
  <1>3. Apart(Inner, StreamEnd)
    BY <1>2, LangsEnd
  <1>4. StreamEnd' = StreamEnd /\ Inner' = Inner
    BY <1>1, EndsSame, LaidSame
  <1>5. TablesLaid'
    <2>1. /\ \A i \in DOMAIN todo' : todo'[i] \in Kinds \ {TEXT}
          /\ \A i, j \in DOMAIN todo' : i # j => todo'[i] # todo'[j]
      BY <1>1 DEF IMG, MODEL, SOUND, OBJ, ANIM, TEXT, Kinds, MAIN
    <2>2. \A i \in DOMAIN todo' : header'.lptrs[todo'[i]] = 0
      BY <1>1, <1>2, <2>1 DEF LangLaid
    <2>3. header'.ldata[TEXT] = 0
      BY <1>1, <1>2 DEF LangLaid
    <2>4. Apart(Inner', StreamEnd')
      BY <1>3, <1>4
    <2> QED BY <2>1, <2>2, <2>3, <2>4 DEF TablesLaid, Apart
  <1>6. header'.llabel = rco'.labelsLen /\ header'.levent = rco'.eventsLen
    BY <1>1, LabelsKept DEF Unlabelled, Unhashed, SameLabels
  <1> QED BY <1>1, <1>5, <1>6 DEF LayoutInv, Unhashed, Early, Fixing

(* What an iteration over the tables appends.                              *)
TreeStep(k, n) ==
    /\ StreamEnd' = StreamEnd + n
    /\ header' = [header EXCEPT !.ptrs[k] = StreamEnd, !.lptrs[k] = n]

LEMMA HashTreeStep ==
    ASSUME TypeInv, pos = StreamEnd, HashTree
    PROVE  \/ StreamEnd' = StreamEnd /\ header' = header
           \/ \E n \in Nat : TreeStep(Head(todo), n)
  <1> DEFINE k == Head(todo)
             n == HashSize(k)
             ws == SlotWords(Filled(EntryItems(Hashed(k)), n), n)
  <1>1. todo # <<>> /\ todo \in Seq(Kinds) /\ rco \in Archives /\ opts' = opts
    BY DEF HashTree, TypeInv
  <1>2. k \in Kinds
    BY <1>1, TailType
  <1>3. CASE Table(k) = Nil
    <2>1. UNCHANGED <<file, tables, pos, header, opts>>
      BY <1>1, <1>3 DEF HashTree
    <2> QED BY <2>1, EndsSame
  <1>4. CASE Table(k) # Nil
    <2>1. Fwrite(ws) /\ header' = [header EXCEPT !.ptrs[k] = pos, !.lptrs[k] = n]
      BY <1>4 DEF HashTree
    <2>2. Hashed(k) \in Seq(E) /\ n \in Nat
      BY <1>1, <1>2, <1>4, HashedType
    <2>3. ws \in Seq(Int) /\ Len(ws) = n
      <3> DEFINE items == EntryItems(Hashed(k))
      <3>1. Len(items) \in Nat /\ \A j \in 1..Len(items) : items[j].at \in Int
        BY <2>2, EntryItemsType
      <3> HIDE DEF n, items
      <3>2. /\ SlotWords(Filled(items, n), n) \in Seq(Int)
            /\ Len(SlotWords(Filled(items, n), n)) = n
        BY <2>2, <3>1, SlotsType
      <3> QED BY <3>2 DEF items
    <2> HIDE DEF ws, n
    <2>4. StreamEnd' = StreamEnd + Len(ws)
      BY <1>1, <2>1, <2>3, FwriteExtends
    <2>5. TreeStep(k, n)
      BY <2>1, <2>3, <2>4 DEF TreeStep
    <2> QED BY <2>2, <2>5
  <1> QED BY <1>3, <1>4

(* Of different tables, all but the first remain.                          *)
LEMMA TailDistinct ==
    ASSUME NEW s \in Seq(Kinds), s # <<>>,
           \A i, j \in DOMAIN s : i # j => s[i] # s[j]
    PROVE  LET t == Tail(s)
           IN /\ \A i \in DOMAIN t : i + 1 \in DOMAIN s /\ t[i] = s[i+1]
                                     /\ t[i] \in Kinds /\ t[i] # Head(s)
              /\ \A i, j \in DOMAIN t : i # j => t[i] # t[j]
  <1> DEFINE t == Tail(s)
  <1>1. /\ DOMAIN s = 1..Len(s) /\ Len(s) \in Nat \ {0} /\ Head(s) = s[1]
        /\ DOMAIN t = 1..Len(s)-1
        /\ \A i \in 1..Len(s)-1 : t[i] = s[i+1] /\ s[i+1] \in Kinds
    OBVIOUS
  <1> HIDE DEF t
  <1>2. \A i \in DOMAIN t : i \in Nat /\ i + 1 \in DOMAIN s /\ i + 1 # 1 /\ 1 \in DOMAIN s
    BY <1>1
  <1>3. ASSUME NEW i \in DOMAIN t
        PROVE  i + 1 \in DOMAIN s /\ t[i] = s[i+1] /\ t[i] \in Kinds /\ t[i] # Head(s)
    BY <1>1, <1>2
  <1>4. ASSUME NEW i \in DOMAIN t, NEW j \in DOMAIN t, i # j
        PROVE  t[i] # t[j]
    <2>1. i + 1 # j + 1
      BY <1>2, <1>4
    <2> QED BY <1>2, <1>3, <2>1
  <1> QED BY <1>3, <1>4 DEF t

LEMMA HashTreeLaid ==
    ASSUME TypeInv, TreeInv, LayoutInv, HashTree
    PROVE  LayoutInv'
  <1>1. /\ pc = "hash" /\ pc' = pc /\ UNCHANGED <<rco, opts, offset>>
        /\ todo # <<>> /\ todo' = Tail(todo)
    BY DEF HashTree
  <1>2. /\ pos = StreamEnd /\ header \in Headers /\ TEXT \in Kinds
        /\ todo \in Seq(Kinds)
    BY <1>1, LaterStart DEF Later, TypeInv
  <1>3. /\ header.ldata[TEXT] = 0 /\ Apart(Inner, StreamEnd)
        /\ \A i \in DOMAIN todo : header.lptrs[todo[i]] = 0
        /\ \A i, j \in DOMAIN todo : i # j => todo[i] # todo[j]
    BY <1>1 DEF LayoutInv, TablesLaid
  <1>4. /\ \A i \in DOMAIN todo' : i + 1 \in DOMAIN todo /\ todo'[i] = todo[i+1]
                                   /\ todo'[i] \in Kinds /\ todo'[i] # Head(todo)
        /\ \A i, j \in DOMAIN todo' : i # j => todo'[i] # todo'[j]
    BY <1>1, <1>2, <1>3, TailDistinct
  <1>5. ASSUME header'.ldata = header.ldata, SameLabels, Apart(Inner', StreamEnd'),
               \A x \in Kinds \ {Head(todo)} : header'.lptrs[x] = header.lptrs[x]
        PROVE  LayoutInv'
    <2>1. \A i \in DOMAIN todo' : header'.lptrs[todo'[i]] = 0
      BY <1>3, <1>4, <1>5
    <2>2. TablesLaid'
      BY <1>3, <1>4, <1>5, <2>1 DEF TablesLaid, Apart
    <2>3. header'.llabel = rco'.labelsLen /\ header'.levent = rco'.eventsLen
      BY <1>1, <1>5, LabelsKept DEF Unlabelled
    <2> QED BY <1>1, <2>2, <2>3 DEF LayoutInv, Unhashed, Early, Fixing
  <1>6. CASE StreamEnd' = StreamEnd /\ header' = header
    <2>1. Inner' = Inner
      BY <1>1, <1>6, LaidSame
    <2>2. Apart(Inner', StreamEnd')
      BY <1>3, <1>6, <2>1
    <2> QED BY <1>1, <1>5, <1>6, <2>2 DEF SameLabels
  <1>7. ASSUME NEW n \in Nat, TreeStep(Head(todo), n)
        PROVE  LayoutInv'
    <2>1. PICK k \in Kinds : k = Head(todo)
      BY <1>1, <1>2, TailType
    <2>2. header' = [header EXCEPT !.ptrs[k] = StreamEnd, !.lptrs[k] = n]
          /\ StreamEnd' = StreamEnd + n
      BY <1>7, <2>1 DEF TreeStep
    <2>3. /\ header'.ptrs[k] = StreamEnd /\ header'.lptrs[k] = n
          /\ OnlyTable(k) /\ header'.ldata = header.ldata
          /\ header'.llabel = header.llabel /\ header'.levent = header.levent
      BY <1>2, <2>2 DEF Headers, OnlyTable
    <2>4. Inner' \subseteq Inner \cup {<<StreamEnd, n>>}
      BY <1>1, <2>3, InnerMore
    <2>5. Spans(Inner) /\ StreamEnd \in Nat /\ StreamEnd >= HeaderWords
      BY LaidTypes, EndsType
    <2>6. Apart(Inner', StreamEnd')
      <3> DEFINE end == StreamEnd
      <3>1. end \in Int /\ StreamEnd' \in Int /\ end <= end /\ HeaderWords <= end
            /\ end + n <= StreamEnd'
        BY <2>2, <2>5 DEF HeaderWords
      <3> HIDE DEF end
      <3>2. Apart(Inner, end) /\ Inner' \subseteq Inner \cup {<<end, n>>}
        BY <1>3, <2>4 DEF end
      <3> QED BY <2>5, <3>1, <3>2, ApartMore
    <2> QED BY <1>1, <1>5, <2>1, <2>3, <2>6 DEF OnlyTable, SameLabels
  <1> QED BY <1>2, <1>6, <1>7, HashTreeStep

LEMMA TextPhase ==
    ASSUME TypeInv, LayoutInv, Fallthrough("hash", "text")
    PROVE  LayoutInv'
  <1>1. /\ pc = "hash" /\ pc' = "text"
        /\ UNCHANGED <<rco, opts, file, tables, offset, header>>
    BY DEF Fallthrough, Goto
  <1>2. header.ldata[TEXT] = 0 /\ Apart(Inner, StreamEnd)
    BY <1>1 DEF LayoutInv, TablesLaid
  <1>3. StreamEnd' = StreamEnd /\ Inner' = Inner
    BY <1>1, EndsSame, LaidSame
  <1>4. TablesLaid'
    BY <1>1, <1>2, <1>3 DEF TablesLaid, Apart
  <1>5. header'.llabel = rco'.labelsLen /\ header'.levent = rco'.eventsLen
    BY <1>1, LabelsKept DEF Unlabelled, SameLabels
  <1> QED BY <1>1, <1>4, <1>5 DEF LayoutInv, Unhashed, Early, Fixing

-----------------------------------------------------------------------------
(* The texts that are not packed.                                          *)

(* Between two languages there is nothing to add.                          *)
LEMMA BeforeSame ==
    ASSUME rco \in Archives, NEW a \in 0..N, NEW b \in a..N,
           \A f \in a+1..b : TextShare(f) = 0
    PROVE  TextBefore[b] = TextBefore[a]
  <1> DEFINE T == {i \in 0..b-a : TextBefore[a+i] = TextBefore[a]}
  <1>1. N \in Nat /\ a \in Nat /\ b \in Nat /\ b - a \in Nat /\ a + (b - a) = b
        /\ a + 0 = a
    <2>1. N \in Nat
      BY ParentType
    <2> QED BY <2>1
  <1>2. 0 \in T
    BY <1>1
  <1>3. ASSUME NEW i \in 1..b-a, i - 1 \in T PROVE i \in T
    <2> DEFINE m == a + i
    <2>1. /\ m \in 1..N /\ m \in a+1..b /\ m - 1 = a + (i - 1) /\ m - 1 \in 0..N
          /\ i \in 0..b-a
      BY <1>1
    <2>2. TextBefore[a+(i-1)] = TextBefore[a]
      BY <1>3
    <2> HIDE DEF m
    <2>3. TextBefore[m] = TextBefore[m-1] + TextShare(m) /\ TextBefore[m-1] \in Nat
      BY <2>1, TextBeforeType
    <2>4. TextBefore[m] = TextBefore[a]
      BY <2>1, <2>2, <2>3
    <2> QED BY <2>1, <2>4 DEF m
  <1>4. 0..b-a \subseteq T
    <2> HIDE DEF T
    <2> QED BY <1>1, <1>2, <1>3, UpTo
  <1>5. b - a \in T
    BY <1>1, <1>4
  <1> QED BY <1>1, <1>5

(* The languages, in the order of the document.                            *)
LEMMA LanguagesType ==
    ASSUME rco \in Archives
    PROVE  /\ Languages \in Seq(E) /\ Len(Languages) \in Nat
           /\ DOMAIN Languages = 1..Len(Languages)
           /\ \A i \in 1..Len(Languages) : Languages[i] \in 1..N
           /\ \A i, j \in 1..Len(Languages) : i < j => Languages[i] < Languages[j]
  <1>1. Table(TEXT) \in E \cup {Nil} /\ N \in Nat /\ E = 1..N
    BY TableType, KindNames, ParentType
  <1>2. Languages \in Seq(E)
    BY <1>1, ChildrenType DEF Languages
  <1>3. ASSUME NEW i \in 1..Len(Languages), NEW j \in 1..Len(Languages), i < j
        PROVE  Languages[i] < Languages[j]
    <2>1. Table(TEXT) # Nil
      <3>1. Len(Languages) # 0
        BY <1>2, <1>3
      <3> QED BY <3>1 DEF Languages, Children
    <2>2. PICK t \in E : t = Table(TEXT)
      BY <1>1, <2>1
    <2>3. Languages = rco.kids[t]
      BY <2>1, <2>2 DEF Languages, Children
    <2>4. i \in 1..Len(rco.kids[t]) /\ j \in 1..Len(rco.kids[t])
      BY <2>3
    <2>5. rco.kids[t][i] < rco.kids[t][j]
      BY <1>3, <2>4, KidType
    <2> QED BY <2>3, <2>5
  <1> QED BY <1>1, <1>2, <1>3

LEMMA Silent ==
    ASSUME rco \in Archives, TextsWhole, NEW f \in E,
           \A i \in 1..Len(Languages) : Languages[i] # f
    PROVE  TextShare(f) = 0
  <1>1. DOMAIN Languages = 1..Len(Languages)
    BY LanguagesType
  <1>2. ~ (rco.id[f] = TEXT /\ rco.type[f] = 1)
    BY <1>1 DEF TextsWhole
  <1> QED BY <1>2 DEF TextShare

(* Where the texts of language i end those of i + 1 begin.                 *)
LEMMA TextsFollow ==
    ASSUME rco \in Archives, TextsWhole, Languages # <<>>
    PROVE  /\ TextBefore[TextsEnd(0)] = 0
           /\ \A i \in 0..Len(Languages)-1 :
                 /\ rco.readable[Languages[i+1]]
                 /\ TextBefore[TextsEnd(i+1)]
                      = TextBefore[TextsEnd(i)] + TextTotal(rco, Languages[i+1])
  <1> DEFINE L == Languages
             n == Len(L)
  <1>1. /\ L \in Seq(E) /\ n \in Nat \ {0} /\ N \in Nat /\ E = 1..N
        /\ \A i \in 1..n : L[i] \in 1..N
        /\ \A i, j \in 1..n : i < j => L[i] < L[j]
    BY LanguagesType, ParentType
  <1>2. \A i \in 0..n-1 : TextsEnd(i) = L[i+1] - 1
    BY <1>1 DEF TextsEnd
  <1>3. TextsEnd(n) = N
    BY DEF TextsEnd
  <1>4. TextBefore[TextsEnd(0)] = 0
    <2> DEFINE b == L[1] - 1
    <2>1. TextsEnd(0) = b /\ b \in 0..N /\ 0 \in 0..N /\ 1 \in 1..n
      BY <1>1, <1>2
    <2>2. ASSUME NEW f \in 0+1..b PROVE TextShare(f) = 0
      <3>1. f \in E /\ f < L[1]
        BY <1>1, <2>1
      <3>2. ASSUME NEW i \in 1..n PROVE L[i] # f
        <4>1. i = 1 \/ L[1] < L[i]
          BY <1>1, <2>1
        <4>2. L[1] \in Int /\ L[i] \in Int /\ f \in Int
          BY <1>1, <2>1, <3>1
        <4> HIDE DEF L
        <4> QED BY <3>1, <4>1, <4>2
      <3> QED BY <3>1, <3>2, Silent
    <2> HIDE DEF b
    <2>3. TextBefore[b] = TextBefore[0]
      BY <2>1, <2>2, BeforeSame
    <2> QED BY <2>1, <2>3, TextBeforeType
  <1>5. ASSUME NEW i \in 0..n-1
        PROVE  /\ rco.readable[L[i+1]]
               /\ TextBefore[TextsEnd(i+1)]
                    = TextBefore[TextsEnd(i)] + TextTotal(rco, L[i+1])
    <2> DEFINE c == L[i+1]
               b == TextsEnd(i+1)
    <2>1. i + 1 \in 1..n /\ c \in 1..N /\ c \in E /\ c \in Nat /\ i + 1 \in DOMAIN L
      BY <1>1
    <2>2. rco.id[c] = TEXT /\ rco.type[c] = 1 /\ rco.readable[c]
      <3>1. \E j \in DOMAIN Languages : Languages[j] = c
        BY <2>1
      <3> QED BY <2>1, <3>1 DEF TextsWhole
    <2>3. TextShare(c) = TextTotal(rco, c)
      BY <2>2 DEF TextShare
    <2>4. TextBefore[c] = TextBefore[c-1] + TextTotal(rco, c) /\ TextsEnd(i) = c - 1
      BY <1>2, <2>1, <2>3, TextBeforeType
    <2>5. /\ b \in c..N
          /\ \A f \in c+1..b : f \in E /\ \A j \in 1..n : L[j] # f
      <3>1. CASE i + 1 = n
        <4>1. b = N
          BY <1>3, <3>1
        <4>2. ASSUME NEW f \in c+1..N, NEW j \in 1..n PROVE L[j] # f
          <5>1. j = n \/ j < n
            BY <1>1
          <5>2. L[j] <= c
            BY <1>1, <2>1, <3>1, <5>1
          <5>3. L[j] \in Int
            BY <1>1
          <5>4. c \in Int /\ f \in Int /\ c < f
            BY <2>1
          <5> HIDE DEF L, c
          <5> QED BY <5>2, <5>3, <5>4
        <4>3. \A f \in c+1..N : f \in E
          BY <1>1, <2>1
        <4>4. N \in c..N
          BY <1>1, <2>1
        <4>5. /\ b \in c..N
              /\ \A f \in c+1..b : f \in E /\ \A j \in 1..n : L[j] # f
          <5> HIDE DEF b, c, L
          <5>1. \A f \in c+1..b : f \in c+1..N
            BY <4>1
          <5> QED BY <4>1, <4>2, <4>3, <4>4, <5>1
        <4> QED BY <4>5
      <3>2. CASE i + 1 # n
        <4> DEFINE k == i + 2
                   d == L[k]
        <4>1. k \in 1..n /\ i + 1 < k /\ i + 1 \in 0..n-1 /\ (i + 1) + 1 = k
          BY <1>1, <3>2
        <4>2. b = d - 1
          BY <1>2, <4>1
        <4> HIDE DEF k
        <4>3. d \in 1..N /\ c < d
          BY <1>1, <2>1, <4>1
        <4>4. ASSUME NEW f \in c+1..d-1, NEW j \in 1..n PROVE L[j] # f
          <5>1. j < i + 1 \/ j = i + 1 \/ j = k \/ k < j
            BY <1>1, <4>1 DEF k
          <5>2. L[j] <= c \/ d <= L[j]
            BY <1>1, <2>1, <4>1, <5>1
          <5>3. L[j] \in Int
            BY <1>1
          <5> HIDE DEF L, c, d
          <5> QED BY <2>1, <4>3, <5>2, <5>3
        <4>5. \A f \in c+1..d-1 : f \in E
          BY <1>1, <2>1, <4>3
        <4>6. d - 1 \in c..N
          BY <1>1, <2>1, <4>3
        <4> HIDE DEF b, c, d
        <4> QED BY <4>2, <4>4, <4>5, <4>6
      <3> QED BY <3>1, <3>2
    <2> HIDE DEF b, c
    <2>6. \A f \in c+1..b : TextShare(f) = 0
      BY <2>5, Silent DEF L, n
    <2>7. c \in 0..N
      BY <1>1, <2>1
    <2>8. TextBefore[b] = TextBefore[c]
      BY <2>5, <2>6, <2>7, BeforeSame
    <2> QED BY <2>2, <2>4, <2>8 DEF b, c
  <1> QED BY <1>4, <1>5

TextsKnown == Buffered \/ TextsWhole

LEMMA TextsSame ==
    ASSUME rco' = rco
    PROVE  /\ Languages' = Languages /\ TextBefore' = TextBefore /\ N' = N
           /\ \A i : TextsEnd(i)' = TextsEnd(i)
  <1>1. Languages' = Languages /\ N' = N
    BY DEF Languages, Children, Table, N
  <1>2. TextBefore' = TextBefore
    BY DEF TextBefore, TextShare, TextTotal, TextUsed, N
  <1> QED BY <1>1, <1>2 DEF TextsEnd

LEMMA BeginTextLaid ==
    ASSUME TypeInv, TreeInv, SizeInv, LayoutInv, TextsKnown, BeginText
    PROVE  LayoutInv'
  <1>1. /\ pc = "text" /\ pc' = "textBody" /\ todo' = Work("textBody")
        /\ UNCHANGED <<rco, opts, file, tables, offset>>
    BY DEF BeginText, Goto
  <1>2. pos = StreamEnd /\ rco \in Archives /\ header \in Headers /\ TEXT \in Kinds
    BY <1>1, LaterStart DEF Later
  <1>3. header.ldata[TEXT] = 0 /\ Apart(Inner, StreamEnd)
    BY <1>1 DEF LayoutInv, TablesLaid
  <1>4. StreamEnd' = StreamEnd /\ StreamEnd \in Nat /\ StreamEnd >= HeaderWords
    BY <1>1, EndsSame, EndsType
  <1>5. ASSUME TextLaid', SameLabels PROVE LayoutInv'
    <2>1. header'.llabel = rco'.labelsLen /\ header'.levent = rco'.eventsLen
      BY <1>1, <1>5, LabelsKept DEF Unlabelled
    <2> QED BY <1>1, <1>5, <2>1 DEF LayoutInv, Unhashed, Early, Fixing
  <1>6. CASE Work("textBody") = <<>>
    <2>1. header' = header /\ todo' = <<>>
      BY <1>1, <1>6 DEF BeginText
    <2>2. Inner' = Inner
      BY <1>1, <2>1, LaidSame
    <2>3. TextLaid' /\ SameLabels
      BY <1>1, <1>3, <1>4, <2>1, <2>2 DEF TextLaid, SameLabels
    <2> QED BY <1>5, <2>3
  <1>7. CASE Work("textBody") # <<>>
    <2>1. opts.packText = NONE /\ todo' = Languages /\ Languages # <<>>
      BY <1>1, <1>7 DEF Work, Languages
    <2>2. ~ Buffered /\ Buffered' = Buffered /\ TextsWhole
      <3>1. opts \in Options
        BY DEF TypeInv
      <3>2. opts.packText = opts.packHeader
        BY <3>1, OptionsAssumption DEF IsOptions
      <3> QED BY <1>1, <2>1, <3>2 DEF Buffered, TextsKnown
    <2>3. size[TEXT] = TextBefore[N]
      BY <1>1 DEF SizeInv, Counted, TreeWritten
    <2>4. header' = [header EXCEPT !.data[TEXT] = StreamEnd, !.ldata[TEXT] = TextBefore[N]]
      BY <1>2, <1>7, <2>3 DEF BeginText
    <2>5. /\ header'.data[TEXT] = StreamEnd /\ header'.ldata[TEXT] = TextBefore[N]
          /\ header'.ptrs = header.ptrs /\ header'.lptrs = header.lptrs
          /\ header'.llabel = header.llabel /\ header'.levent = header.levent
      BY <1>2, <2>4 DEF Headers
    <2>6. Inner' = Inner
      BY <1>1, <2>5, LaidSame
    <2>7. /\ Languages' = Languages /\ TextBefore' = TextBefore /\ N' = N
          /\ \A i : TextsEnd(i)' = TextsEnd(i)
      BY <1>1, TextsSame
    <2>8. TextBefore[TextsEnd(0)] = 0
      BY <1>2, <2>1, <2>2, TextsFollow
    <2>9. Len(Languages) \in Nat
      BY <1>2, LanguagesType
    <2>10. /\ 0 \in 0..Len(Languages') /\ Len(todo') = Len(Languages') - 0
           /\ \A j \in 1..Len(todo') : todo'[j] = Languages'[0 + j]
           /\ header'.data[TEXT] + TextBefore'[TextsEnd(0)'] = StreamEnd'
      <3>1. \A j \in 1..Len(todo') : 0 + j = j
        BY <2>1, <2>9
      <3>2. StreamEnd + 0 = StreamEnd
        BY <1>4
      <3> QED BY <1>4, <2>1, <2>5, <2>7, <2>8, <2>9, <3>1, <3>2
    <2>11. Apart(Inner', header'.data[TEXT]) /\ header'.data[TEXT] >= HeaderWords
      BY <1>3, <1>4, <2>5, <2>6
    <2>12. TextLaid'
      BY <2>2, <2>5, <2>7, <2>10, <2>11 DEF TextLaid, Apart
    <2> QED BY <1>1, <1>5, <2>5, <2>12 DEF SameLabels
  <1> QED BY <1>6, <1>7

(* The texts of a language that can be read.                               *)
LEMMA WriteTextStep ==
    ASSUME TypeInv, pos = StreamEnd, WriteText, rco.readable[Head(todo)]
    PROVE  StreamEnd' = StreamEnd + TextTotal(rco, Head(todo))
  <1> DEFINE e == Head(todo)
             n == TextTotal(rco, e)
             ws == Data(e, n)
  <1>1. todo \in Seq(E) /\ todo # <<>> /\ rco \in Archives /\ opts' = opts
    BY DEF WriteText, TypeInv
  <1>2. e \in E /\ e \in Nat
    BY <1>1, TailType, EntryType
  <1>3. n \in Nat
    BY <1>1, <1>2, ArchiveType, TextUsedType DEF E
  <1>4. Fwrite(ws)
    BY DEF WriteText
  <1>5. ws \in Seq(Int) /\ Len(ws) = n
    <2> HIDE DEF n, e
    <2> QED BY <1>2, <1>3, DataType
  <1> HIDE DEF ws, n
  <1>6. StreamEnd' = StreamEnd + Len(ws)
    BY <1>1, <1>4, <1>5, FwriteExtends
  <1> QED BY <1>5, <1>6 DEF n

LEMMA WriteTextLaid ==
    ASSUME TypeInv, TreeInv, LayoutInv, TextsKnown, WriteText
    PROVE  LayoutInv'
  <1>1. /\ pc = "textBody" /\ pc' = pc /\ UNCHANGED <<rco, opts, offset, header>>
        /\ todo # <<>> /\ todo' = Tail(todo)
    BY DEF WriteText
  <1>2. /\ pos = StreamEnd /\ rco \in Archives /\ header \in Headers /\ TEXT \in Kinds
        /\ todo \in Seq(E)
    BY <1>1, LaterStart DEF Later, TypeInv
  <1>3. TextLaid
    BY <1>1 DEF LayoutInv
  <1>4. ~ Buffered /\ Buffered' = Buffered /\ TextsWhole
    BY <1>1, <1>3 DEF TextLaid, TextsKnown, Buffered
  <1>5. /\ Apart(Inner, header.data[TEXT]) /\ header.data[TEXT] >= HeaderWords
        /\ header.ldata[TEXT] = TextBefore[N]
    BY <1>1, <1>3 DEF TextLaid
  <1>6. PICK i \in 0..Len(Languages) :
             /\ Len(todo) = Len(Languages) - i
             /\ \A j \in 1..Len(todo) : todo[j] = Languages[i + j]
             /\ header.data[TEXT] + TextBefore[TextsEnd(i)] = StreamEnd
    BY <1>1, <1>3 DEF TextLaid
  <1>7. /\ Len(todo) \in Nat \ {0} /\ Head(todo) = todo[1] /\ Len(todo') = Len(todo) - 1
        /\ \A j \in 1..Len(todo)-1 : todo'[j] = todo[j+1]
    BY <1>1, <1>2
  <1>8. Len(Languages) \in Nat /\ Languages \in Seq(E)
    BY <1>2, LanguagesType
  <1> DEFINE n == Len(Languages)
  <1>9. i \in 0..n-1 /\ n # 0
    BY <1>6, <1>7, <1>8
  <1>10. Languages # <<>>
    BY <1>9
  <1>11. Head(todo) = Languages[i+1]
    <2>1. 1 \in 1..Len(todo)
      BY <1>7
    <2> QED BY <1>6, <1>7, <2>1
  <1>12. /\ rco.readable[Head(todo)]
         /\ TextBefore[TextsEnd(i+1)]
              = TextBefore[TextsEnd(i)] + TextTotal(rco, Head(todo))
    BY <1>2, <1>4, <1>9, <1>10, <1>11, TextsFollow
  <1>13. StreamEnd' = StreamEnd + TextTotal(rco, Head(todo))
    BY <1>2, <1>12, WriteTextStep
  <1>14. header.data[TEXT] + TextBefore[TextsEnd(i+1)] = StreamEnd'
    <2> DEFINE a == TextBefore[TextsEnd(i)]
               t == TextTotal(rco, Head(todo))
    <2>1. a \in Nat
      <3>1. TextsEnd(i) = Languages[i+1] - 1
        BY <1>8, <1>9 DEF TextsEnd
      <3>2. Languages[i+1] \in 1..N /\ N \in Nat
        <4>1. i + 1 \in 1..Len(Languages)
          BY <1>8, <1>9
        <4> QED BY <1>2, <4>1, LanguagesType, ParentType
      <3>3. TextsEnd(i) \in 0..N
        BY <3>1, <3>2
      <3> QED BY <1>2, <3>3, TextBeforeType
    <2>2. t \in Nat
      <3>1. Head(todo) \in EntriesOf(rco)
        BY <1>1, <1>2, TailType DEF E
      <3> QED BY <1>2, <3>1, ArchiveType, TextUsedType
    <2>3. header.data[TEXT] \in Int /\ StreamEnd \in Nat
      BY <1>2, EndsType DEF Headers
    <2>4. header.data[TEXT] + a = StreamEnd /\ StreamEnd' = StreamEnd + t
          /\ TextBefore[TextsEnd(i+1)] = a + t
      BY <1>6, <1>12, <1>13
    <2> HIDE DEF a, t
    <2> QED BY <2>1, <2>2, <2>3, <2>4
  <1>15. /\ Languages' = Languages /\ TextBefore' = TextBefore /\ N' = N
         /\ TextsEnd(i+1)' = TextsEnd(i+1)
    BY <1>1, TextsSame
  <1>16. /\ i + 1 \in 0..n /\ Len(todo') = n - (i + 1)
         /\ \A j \in 1..Len(todo') : todo'[j] = Languages[(i + 1) + j]
    <2>1. i + 1 \in 0..n /\ Len(todo') = n - (i + 1)
      BY <1>6, <1>7, <1>8, <1>9
    <2>2. ASSUME NEW j \in 1..Len(todo') PROVE todo'[j] = Languages[(i + 1) + j]
      <3>1. j \in 1..Len(todo)-1 /\ j + 1 \in 1..Len(todo) /\ i + (j + 1) = (i + 1) + j
        BY <1>7, <1>9, <2>2
      <3> QED BY <1>6, <1>7, <3>1
    <2> QED BY <2>1, <2>2
  <1>17. Inner' = Inner
    BY <1>1, LaidSame
  <1> HIDE DEF n
  <1>18. \E k \in 0..Len(Languages') :
            /\ Len(todo') = Len(Languages') - k
            /\ \A j \in 1..Len(todo') : todo'[j] = Languages'[k + j]
            /\ header'.data[TEXT] + TextBefore'[TextsEnd(k)'] = StreamEnd'
    <2>1. /\ i + 1 \in 0..Len(Languages') /\ Len(todo') = Len(Languages') - (i + 1)
          /\ \A j \in 1..Len(todo') : todo'[j] = Languages'[(i + 1) + j]
          /\ header'.data[TEXT] + TextBefore'[TextsEnd(i+1)'] = StreamEnd'
      BY <1>1, <1>14, <1>15, <1>16 DEF n
    <2> QED BY <2>1
  <1>19. TextLaid'
    BY <1>1, <1>4, <1>5, <1>15, <1>17, <1>18 DEF TextLaid, Apart
  <1>20. header'.llabel = rco'.labelsLen /\ header'.levent = rco'.eventsLen
    BY <1>1, LabelsKept DEF Unlabelled, SameLabels
  <1> QED BY <1>1, <1>19, <1>20 DEF LayoutInv, Unhashed, Early, Fixing

(* The length in the header is what was written.                           *)
LEMMA LabelsBegin ==
    ASSUME TypeInv, LayoutInv, Fallthrough("textBody", "labels")
    PROVE  LayoutInv'
  <1>1. /\ pc = "textBody" /\ pc' = "labels" /\ todo = <<>> /\ rco \in Archives
        /\ UNCHANGED <<rco, opts, file, tables, offset, header>>
    BY DEF Fallthrough, Goto, TypeInv
  <1>2. TextLaid
    BY <1>1 DEF LayoutInv
  <1>3. /\ header.data[TEXT] \in Int /\ header.ldata[TEXT] \in Nat /\ TEXT \in Kinds
        /\ StreamEnd \in Int /\ Spans(Inner)
    <2>1. header.data[TEXT] \in Int /\ header.ldata[TEXT] \in Nat /\ TEXT \in Kinds
      BY KindNames DEF TypeInv, Headers
    <2>2. StreamEnd \in Int
      BY EndsType
    <2> QED BY <2>1, <2>2, LaidTypes
  <1>4. InTables(Inner)
    <2>1. CASE header.ldata[TEXT] = 0 /\ Apart(Inner, StreamEnd)
      <3>1. Texts = {}
        BY <2>1 DEF Texts, Sections
      <3>2. Inner \cup Texts = Inner
        BY <3>1
      <3> QED BY <2>1, <3>2 DEF InTables
    <2>2. ASSUME ~ Buffered, Apart(Inner, header.data[TEXT]),
                 header.data[TEXT] >= HeaderWords,
                 header.ldata[TEXT] = TextBefore[N],
                 NEW i \in 0..Len(Languages), Len(todo) = Len(Languages) - i,
                 header.data[TEXT] + TextBefore[TextsEnd(i)] = StreamEnd
          PROVE  InTables(Inner)
      <3>1. TextsEnd(i) = N
        <4>1. Len(todo) = 0 /\ Len(Languages) \in Nat
          BY <1>1, LanguagesType
        <4>2. i = Len(Languages)
          BY <2>2, <4>1
        <4> QED BY <4>2 DEF TextsEnd
      <3> DEFINE p == header.data[TEXT]
                 n == header.ldata[TEXT]
      <3>2. p + n = StreamEnd
        BY <2>2, <3>1
      <3>3. Inner \cup Texts \subseteq Inner \cup {<<p, n>>}
        BY DEF Texts, Sections
      <3>4. p \in Int /\ n \in Nat /\ Apart(Inner, p) /\ HeaderWords <= p /\ p <= p
        BY <1>3, <2>2 DEF HeaderWords
      <3> HIDE DEF p, n
      <3>5. p + n <= StreamEnd
        BY <1>3, <3>2, <3>4
      <3>6. Apart(Inner \cup Texts, StreamEnd)
        BY <1>3, <3>3, <3>4, <3>5, ApartMore
      <3> QED BY <2>2, <3>6 DEF InTables
    <2> QED BY <1>2, <2>1, <2>2 DEF TextLaid
  <1>5. /\ StreamEnd' = StreamEnd /\ Inner' = Inner /\ Texts' = Texts
        /\ Buffered' = Buffered
    BY <1>1, EndsSame, LaidSame DEF Buffered
  <1>6. InTables(Inner)'
    BY <1>1, <1>4, <1>5 DEF InTables, Apart
  <1>7. header'.llabel = rco'.labelsLen /\ header'.levent = rco'.eventsLen
    BY <1>1, LabelsKept DEF Unlabelled, SameLabels
  <1> QED BY <1>1, <1>6, <1>7 DEF LayoutInv, Unhashed, Early, Fixing

-----------------------------------------------------------------------------
(* The labels and the events.                                              *)

BlankEvent == rco.eventsLen = 0 /\ (Table(OBJ) # Nil \/ Table(ANIM) # Nil)
EventWords == IF BlankEvent THEN 1 ELSE rco.eventsLen

LEMMA LabelsStep ==
    ASSUME TypeInv, pos = StreamEnd, WriteLabelsEvents
    PROVE  /\ EventWords \in Nat /\ rco.labelsLen \in Nat
           /\ StreamEnd' = StreamEnd + (rco.labelsLen + EventWords)
  <1> DEFINE ls == Data(LabelOwner, rco.labelsLen)
             es == IF BlankEvent THEN <<0>> ELSE Data(EventOwner, rco.eventsLen)
             ws == ls \o es
  <1>1. rco \in Archives /\ Fwrite(ws) /\ opts' = opts
    BY DEF WriteLabelsEvents, BlankEvent, TypeInv
  <1>2. /\ rco.labelsLen \in Nat /\ rco.eventsLen \in Nat
        /\ LabelOwner \in Nat /\ EventOwner \in Nat
    BY <1>1, ArchiveType DEF LabelOwner, EventOwner
  <1>3. ls \in Seq(Int) /\ Len(ls) = rco.labelsLen
    BY <1>2, DataType
  <1>4. es \in Seq(Int) /\ Len(es) = EventWords
    <2>1. /\ Data(EventOwner, rco.eventsLen) \in Seq(Int)
          /\ Len(Data(EventOwner, rco.eventsLen)) = rco.eventsLen
      BY <1>2, DataType
    <2>2. <<0>> \in Seq(Int) /\ Len(<<0>>) = 1
      OBVIOUS
    <2> QED BY <2>1, <2>2 DEF EventWords
  <1>5. EventWords \in Nat
    <2>1. 1 \in Nat /\ rco.eventsLen \in Nat
      BY <1>2
    <2> QED BY <2>1 DEF EventWords
  <1> HIDE DEF ls, es
  <1>6. ws \in Seq(Int) /\ Len(ws) = rco.labelsLen + EventWords
    BY <1>3, <1>4, ConcatProperties
  <1> HIDE DEF ws
  <1>7. StreamEnd' = StreamEnd + Len(ws)
    BY <1>1, <1>6, FwriteExtends, Zenon DEF TypeInv
  <1> QED BY <1>2, <1>5, <1>6, <1>7

LEMMA LabelsHeader ==
    ASSUME TypeInv, LayoutInv, pos = StreamEnd, WriteLabelsEvents
    PROVE  /\ header'.ptrs = header.ptrs /\ header'.lptrs = header.lptrs
           /\ header'.ldata = header.ldata
           /\ header'.label = StreamEnd /\ header'.llabel = rco.labelsLen
           /\ header'.event = StreamEnd + rco.labelsLen /\ header'.levent = EventWords
           /\ header.ldata[TEXT] # 0 => header'.data[TEXT] = header.data[TEXT]
  <1>1. header \in Headers /\ TEXT \in Kinds
    BY KindNames DEF TypeInv
  <1>2. header.llabel = rco.labelsLen /\ header.levent = rco.eventsLen
    BY DEF WriteLabelsEvents, LayoutInv, Unlabelled
  <1> DEFINE a == IF BlankEvent THEN 1 ELSE header.levent
             b == IF header.ldata[TEXT] # 0 THEN header.data[TEXT]
                  ELSE IF Buffered THEN NULL_PTR ELSE pos
  <1>3. header' = [header EXCEPT !.label = pos,
            !.event = pos + rco.labelsLen, !.levent = a, !.data[TEXT] = b]
    BY DEF WriteLabelsEvents, BlankEvent
  <1>4. a = EventWords
    BY <1>2 DEF EventWords
  <1>5. header.ldata[TEXT] # 0 => b = header.data[TEXT]
    OBVIOUS
  <1> HIDE DEF a, b
  <1>6. /\ header'.ptrs = header.ptrs /\ header'.lptrs = header.lptrs
        /\ header'.ldata = header.ldata
        /\ header'.label = pos /\ header'.llabel = header.llabel
        /\ header'.event = pos + rco.labelsLen /\ header'.levent = a
        /\ header'.data[TEXT] = b
    BY <1>1, <1>3 DEF Headers
  <1> QED BY <1>2, <1>4, <1>5, <1>6

LEMMA LabelsLaid ==
    ASSUME TypeInv, TreeInv, LayoutInv, WriteLabelsEvents
    PROVE  LayoutInv'
  <1>1. /\ pc = "labels" /\ pc' = "flush" /\ UNCHANGED <<rco, opts, offset>>
    BY DEF WriteLabelsEvents, Goto
  <1>2. pos = StreamEnd
    BY <1>1, LaterStart DEF Later
  <1>3. InTables(Inner)
    BY <1>1 DEF LayoutInv
  <1> DEFINE S == IF Buffered THEN Inner ELSE Inner \cup Texts
             p == StreamEnd
             l == rco.labelsLen
             n == EventWords
             T == S \cup {<<p, l>>}
  <1>4. /\ l \in Nat /\ n \in Nat /\ p \in Nat /\ p >= HeaderWords
        /\ StreamEnd' = p + (l + n) /\ Spans(S)
    BY <1>2, LabelsStep, EndsType, LaidTypes
  <1>5. /\ header'.ptrs = header.ptrs /\ header'.lptrs = header.lptrs
        /\ header'.ldata = header.ldata
        /\ header'.label = p /\ header'.llabel = l
        /\ header'.event = p + l /\ header'.levent = n
        /\ header.ldata[TEXT] # 0 => header'.data[TEXT] = header.data[TEXT]
    BY <1>2, LabelsHeader
  <1>6. Inner' = Inner /\ Texts' = Texts /\ Buffered' = Buffered
    <2>1. Inner' = Inner
      BY <1>1, <1>5, LaidSame
    <2>2. CASE header.ldata[TEXT] = 0
      <3>1. Texts = {} /\ Texts' = {}
        BY <1>5, <2>2 DEF Texts, Sections
      <3> QED BY <1>1, <2>1, <3>1 DEF Buffered
    <2>3. CASE header.ldata[TEXT] # 0
      <3>1. Texts' = Texts
        BY <1>5, <2>3 DEF Texts, Sections
      <3> QED BY <1>1, <2>1, <3>1 DEF Buffered
    <2> QED BY <2>2, <2>3
  <1>7. Full' = Inner \cup {<<p, l>>, <<p + l, n>>}
    BY <1>5, <1>6 DEF Full, LabelSections
  <1>8. Apart(S, p)
    BY <1>3 DEF InTables
  <1> DEFINE U == IF Buffered' THEN Full' ELSE Full' \cup Texts'
  <1>9. U \subseteq T \cup {<<p + l, n>>}
    BY <1>6, <1>7
  <1> HIDE DEF S, p, l, n, U
  <1>10. p + l \in Int /\ p \in Int /\ p <= p /\ HeaderWords <= p /\ p + l <= p + l
         /\ HeaderWords <= p + l /\ (p + l) + n <= StreamEnd' /\ StreamEnd' \in Int
    BY <1>4 DEF HeaderWords
  <1>11. T \subseteq S \cup {<<p, l>>}
    OBVIOUS
  <1>12. Spans(T)
    BY <1>4, <1>10, SpansMore
  <1>13. Apart(T, p + l)
    <2> HIDE DEF T
    <2> QED BY <1>4, <1>8, <1>10, <1>11, ApartMore
  <1>14. Apart(U, StreamEnd')
    <2> DEFINE q == p + l
    <2> HIDE DEF T
    <2>1. /\ q \in Int /\ q <= q /\ HeaderWords <= q /\ q + n <= StreamEnd'
          /\ Apart(T, q) /\ U \subseteq T \cup {<<q, n>>}
      BY <1>9, <1>10, <1>13
    <2> HIDE DEF q
    <2> QED BY <1>4, <1>10, <1>12, <2>1, ApartMore
  <1>15. InTables(Full)'
    <2>1. Buffered => header.ldata[TEXT] = 0
      BY <1>3 DEF InTables
    <2> QED BY <1>5, <1>6, <1>14, <2>1 DEF InTables, Apart, U
  <1> QED BY <1>1, <1>15 DEF LayoutInv, Unlabelled, Unhashed, Early, Fixing

-----------------------------------------------------------------------------
(* What is packed.                                                         *)

LEMMA FlushLaid ==
    ASSUME TypeInv, TreeInv, LayoutInv, Flush
    PROVE  LayoutInv'
  <1>1. /\ pc = "flush" /\ pc' = "packText" /\ UNCHANGED <<rco, opts, offset, header>>
    BY DEF Flush, Goto
  <1>2. pos = StreamEnd
    BY <1>1, LaterStart DEF Later
  <1>3. InTables(Full)
    BY <1>1 DEF LayoutInv
  <1>4. StreamEnd' = StreamEnd
    <2>1. CASE Buffered
      <3>1. tables' = tables
        BY <2>1 DEF Flush, FileWrite
      <3> QED BY <1>1, <2>1, <3>1 DEF StreamEnd, Stream, Buffered
    <2>2. CASE ~ Buffered
      <3>1. UNCHANGED <<file, tables>>
        BY <2>2 DEF Flush
      <3> QED BY <1>1, <3>1, EndsSame
    <2> QED BY <2>1, <2>2
  <1>5. Full' = Full /\ Texts' = Texts /\ Buffered' = Buffered
    BY <1>1, LaidSame DEF Buffered
  <1>6. InTables(Full)'
    BY <1>1, <1>3, <1>4, <1>5 DEF InTables, Apart
  <1> QED BY <1>1, <1>6 DEF LayoutInv, Unlabelled, Unhashed, Early, Fixing

LEMMA BeginPackLaid ==
    ASSUME TypeInv, TreeInv, LayoutInv, BeginPackText
    PROVE  LayoutInv'
  <1>1. /\ pc = "packText" /\ pc' = "packTextBody" /\ todo' = Work("packTextBody")
        /\ UNCHANGED <<rco, opts, offset, file, tables>>
    BY DEF BeginPackText, Goto
  <1>2. header \in Headers /\ TEXT \in Kinds
    BY <1>1, LaterStart DEF Later
  <1>3. InTables(Full)
    BY <1>1 DEF LayoutInv
  <1>4. /\ StreamEnd' = StreamEnd /\ FileEnd' = FileEnd /\ Buffered' = Buffered
        /\ FileEnd \in Nat /\ FileEnd >= HeaderWords
        /\ Buffered => FilePos = FileEnd
    BY <1>1, EndsSame, EndsType DEF Buffered
  <1>5. Work("packTextBody") # <<>> => Buffered
    <2>1. opts \in Options
      BY DEF TypeInv
    <2>2. opts.packText = opts.packHeader
      BY <2>1, OptionsAssumption DEF IsOptions
    <2> QED BY <2>2 DEF Work, Buffered
  <1>6. CASE Work("packTextBody") = <<>>
    <2>1. header' = header /\ todo' = <<>>
      BY <1>1, <1>6 DEF BeginPackText
    <2>2. Full' = Full /\ Texts' = Texts
      BY <1>1, <2>1, LaidSame
    <2>3. PackedLaid'
      BY <1>3, <1>4, <2>1, <2>2 DEF InTables, PackedLaid, Apart
    <2> QED BY <1>1, <2>3 DEF LayoutInv, Unlabelled, Unhashed, Early, Fixing
  <1>7. CASE Work("packTextBody") # <<>>
    <2>1. header' = [header EXCEPT !.data[TEXT] = FileEnd, !.ldata[TEXT] = 0]
      BY <1>4, <1>5, <1>7 DEF BeginPackText
    <2>2. /\ header'.data[TEXT] = FileEnd /\ header'.ldata[TEXT] = 0
          /\ header'.ptrs = header.ptrs /\ header'.lptrs = header.lptrs
          /\ header'.label = header.label /\ header'.llabel = header.llabel
          /\ header'.event = header.event /\ header'.levent = header.levent
      BY <1>2, <2>1 DEF Headers
    <2>3. Full' = Full
      <3>1. Inner' = Inner
        BY <1>1, <2>2, LaidSame
      <3> QED BY <2>2, <3>1 DEF Full, LabelSections
    <2>4. FileEnd + 0 = FileEnd
      BY <1>4
    <2>5. PackedLaid'
      BY <1>3, <1>4, <1>5, <1>7, <2>2, <2>3, <2>4 DEF InTables, PackedLaid, Apart
    <2> QED BY <1>1, <2>5 DEF LayoutInv, Unlabelled, Unhashed, Early, Fixing
  <1> QED BY <1>6, <1>7

LEMMA PackTextLaid ==
    ASSUME TypeInv, TreeInv, LayoutInv, PackText
    PROVE  LayoutInv'
  <1>1. /\ pc = "packTextBody" /\ pc' = pc /\ UNCHANGED <<rco, opts, offset>>
        /\ todo # <<>> /\ Head(todo) \in E
    <2>1. UNCHANGED <<rco, opts, offset>>
      BY DEF PackText
    <2> QED BY <2>1, PackStep
  <1>2. pos = StreamEnd /\ header \in Headers /\ TEXT \in Kinds
    BY <1>1, LaterStart DEF Later
  <1>3. PackedLaid
    BY <1>1 DEF LayoutInv
  <1>4. Buffered /\ Buffered'
    BY <1>1, <1>3 DEF PackedLaid, Buffered
  <1>5. PICK len \in Nat : Packs(len)
    BY PackStep
  <1> DEFINE ws == TextBlock(Head(todo), len, Tail(todo) = <<>>)
             n == BlockWords(len)
  <1>6. ws \in Seq(Int) /\ n \in Nat /\ Len(ws) = n
    BY <1>1, TextBlockType
  <1>7. FileWrite(ws) /\ header' = [header EXCEPT !.ldata[TEXT] = header.ldata[TEXT] + n]
    BY <1>5 DEF Packs
  <1> HIDE DEF ws, n
  <1>8. FileEnd' = FileEnd + n /\ StreamEnd' = StreamEnd
    BY <1>1, <1>2, <1>4, <1>6, <1>7, FileWriteEnds
  <1>9. /\ header'.data = header.data /\ header'.ldata[TEXT] = header.ldata[TEXT] + n
        /\ header'.ptrs = header.ptrs /\ header'.lptrs = header.lptrs
        /\ header'.label = header.label /\ header'.llabel = header.llabel
        /\ header'.event = header.event /\ header'.levent = header.levent
        /\ header.data[TEXT] \in Int /\ header.ldata[TEXT] \in Nat
    BY <1>2, <1>7 DEF Headers
  <1>10. Full' = Full
    <2>1. Inner' = Inner
      BY <1>1, <1>9, LaidSame
    <2> QED BY <1>9, <2>1 DEF Full, LabelSections
  <1>11. /\ header.data[TEXT] >= HeaderWords
         /\ header.data[TEXT] + header.ldata[TEXT] = FileEnd /\ Apart(Full, StreamEnd)
    BY <1>1, <1>3, <1>4 DEF PackedLaid
  <1>12. header.data[TEXT] + (header.ldata[TEXT] + n) = FileEnd + n
    BY <1>6, <1>9, <1>11
  <1>13. PackedLaid'
    BY <1>4, <1>8, <1>9, <1>10, <1>11, <1>12 DEF PackedLaid, Apart
  <1> QED BY <1>1, <1>13 DEF LayoutInv, Unlabelled, Unhashed, Early, Fixing

LEMMA ResourcesBegin ==
    ASSUME TypeInv, LayoutInv, Fallthrough("packTextBody", "resources")
    PROVE  LayoutInv'
  <1>1. /\ pc = "packTextBody" /\ pc' = "resources" /\ todo = <<>> /\ todo' = <<>>
        /\ UNCHANGED <<rco, opts, file, tables, offset, header>>
    BY DEF Fallthrough, Goto, Work
  <1>2. PackedLaid
    BY <1>1 DEF LayoutInv
  <1>3. /\ StreamEnd' = StreamEnd /\ FileEnd' = FileEnd
        /\ Full' = Full /\ Texts' = Texts /\ Buffered' = Buffered
    BY <1>1, EndsSame, LaidSame DEF Buffered
  <1>4. PackedLaid'
    BY <1>1, <1>2, <1>3 DEF PackedLaid, Apart
  <1> QED BY <1>1, <1>4 DEF LayoutInv, Unlabelled, Unhashed, Early, Fixing

(* The resources one behind the other, and the header they are found by.   *)
LEMMA ThreeMore ==
    ASSUME NEW S, Spans(S), NEW p \in Int, HeaderWords <= p, Apart(S, p),
           NEW a \in Nat, NEW b \in Nat, NEW c \in Nat, NEW end \in Int,
           p + (a + (b + c)) <= end,
           NEW T, T \subseteq S \cup {<<p, a>>, <<p + a, b>>, <<p + (a + b), c>>}
    PROVE  Apart(T, end)
  <1> DEFINE q == p + a
             r == p + (a + b)
             U == S \cup {<<p, a>>}
             V == U \cup {<<q, b>>}
  <1>1. /\ p <= p /\ q \in Int /\ HeaderWords <= q /\ q <= q /\ p + a <= q
        /\ r \in Int /\ HeaderWords <= r /\ r <= r /\ q + b <= r /\ r + c <= end
    BY DEF HeaderWords
  <1>2. U \subseteq S \cup {<<p, a>>} /\ V \subseteq U \cup {<<q, b>>}
        /\ T \subseteq V \cup {<<r, c>>}
    OBVIOUS
  <1>3. Spans(U)
    BY SpansMore
  <1> HIDE DEF q, r
  <1>4. Apart(U, q)
    <2> HIDE DEF U
    <2> QED BY <1>1, <1>2, ApartMore
  <1> HIDE DEF U
  <1>5. Spans(V)
    BY <1>1, <1>3, SpansMore
  <1> HIDE DEF V
  <1>6. Apart(V, r)
    BY <1>1, <1>2, <1>3, <1>4, ApartMore
  <1> QED BY <1>1, <1>2, <1>5, <1>6, ApartMore

Before(k) ==
    CASE k = IMG -> 0
      [] k = SOUND -> header.ldata[IMG]
      [] k = MODEL -> header.ldata[IMG] + header.ldata[SOUND]

LEMMA CopyHeader ==
    ASSUME TypeInv, StageInv, CopyResources
    PROVE  /\ header'.ptrs = header.ptrs /\ header'.lptrs = header.lptrs
           /\ header'.label = header.label /\ header'.llabel = header.llabel
           /\ header'.event = header.event /\ header'.levent = header.levent
           /\ header'.ldata = header.ldata /\ header'.data[TEXT] = header.data[TEXT]
           /\ \A k \in Staged : Has(k) => header'.data[k] = FilePos + Before(k)
           /\ \A k \in Staged : header.ldata[k] > 0 => header'.data[k] = FilePos + Before(k)
  <1>1. header \in Headers
    BY DEF TypeInv
  <1> DEFINE f == [k \in Kinds |-> IF k \in Staged /\ Has(k)
                                   THEN FilePos + Before(k) ELSE header.data[k]]
  <1>2. header' = [header EXCEPT !.data = f]
    <2> DEFINE before == [k \in {IMG, SOUND, MODEL} |->
                            CASE k = IMG -> 0
                              [] k = SOUND -> header.ldata[IMG]
                              [] k = MODEL -> header.ldata[IMG] + header.ldata[SOUND]]
               g == [k \in Kinds |-> IF k \in {IMG, SOUND, MODEL}
                                          /\ HasSubentries(rco, Table(k))
                                     THEN FilePos + before[k] ELSE header.data[k]]
    <2>1. header' = [header EXCEPT !.data = g]
      BY <1>1 DEF CopyResources, Headers
    <2>2. \A k \in {IMG, SOUND, MODEL} : before[k] = Before(k)
      BY DEF Before
    <2> HIDE DEF before
    <2>3. g = f
      BY <2>2 DEF Staged, Has
    <2> HIDE DEF f, g
    <2> QED BY <2>1, <2>3
  <1>3. /\ f[TEXT] = header.data[TEXT]
        /\ \A k \in Staged : Has(k) => f[k] = FilePos + Before(k)
    BY StagingNames
  <1>4. \A k \in Staged : header.ldata[k] > 0 => Has(k)
    BY DEF StageInv, Staged, Has
  <1> HIDE DEF f
  <1>5. /\ header'.ptrs = header.ptrs /\ header'.lptrs = header.lptrs
        /\ header'.label = header.label /\ header'.llabel = header.llabel
        /\ header'.event = header.event /\ header'.levent = header.levent
        /\ header'.ldata = header.ldata /\ header'.data = f
    BY <1>1, <1>2 DEF Headers
  <1> QED BY <1>3, <1>4, <1>5

LEMMA CopyWrites ==
    ASSUME TypeInv, CopyResources, pos = StreamEnd
    PROVE  LET n == header.ldata[IMG] + (header.ldata[SOUND] + header.ldata[MODEL])
           IN /\ n \in Nat /\ FileEnd' = FileEnd + n
              /\ Buffered => StreamEnd' = StreamEnd
  <1> DEFINE len == header.ldata[IMG] + header.ldata[SOUND] + header.ldata[MODEL]
             ws(g) == [i \in 1..len |-> IF i <= Len(tmp) THEN tmp[i] ELSE g]
             n == header.ldata[IMG] + (header.ldata[SOUND] + header.ldata[MODEL])
  <1>1. opts' = opts
    BY DEF CopyResources
  <1>2. PICK g \in Int : FileWrite(ws(g))
    <2>1. PICK g \in IF Len(tmp) < len THEN Garbage ELSE {0} : FileWrite(ws(g))
      BY DEF CopyResources
    <2>2. g \in Int
      BY GarbageAssumption
    <2> QED BY <2>1, <2>2
  <1>3. len \in Nat /\ len = n
    <2>1. header.ldata[IMG] \in Nat /\ header.ldata[SOUND] \in Nat
          /\ header.ldata[MODEL] \in Nat
      BY KindNames DEF TypeInv, Headers
    <2> QED BY <2>1
  <1> HIDE DEF len, n
  <1>4. ws(g) \in Seq(Int) /\ Len(ws(g)) = len
    <2>1. tmp \in Seq(Int)
      BY DEF TypeInv
    <2>2. ws(g) \in [1..len -> Int]
      BY <1>3, <2>1
    <2> HIDE DEF ws
    <2> QED BY <1>3, <2>2, FunctionIsSeq
  <1> HIDE DEF ws
  <1>5. FileEnd' = FileEnd + len /\ (Buffered => StreamEnd' = StreamEnd)
    BY <1>1, <1>2, <1>4, FileWriteEnds
  <1> QED BY <1>3, <1>5 DEF n

LEMMA CopiedTo ==
    ASSUME TypeInv, NEW p \in Int, header'.ldata = header.ldata,
           \A k \in Staged : header.ldata[k] > 0 => header'.data[k] = p + Before(k)
    PROVE  Resources' \subseteq {<<p, header.ldata[IMG]>>,
                                 <<p + header.ldata[IMG], header.ldata[SOUND]>>,
                                 <<p + (header.ldata[IMG] + header.ldata[SOUND]),
                                   header.ldata[MODEL]>>}
  <1>1. p + 0 = p
    OBVIOUS
  <1>2. /\ Before(IMG) = 0 /\ Before(SOUND) = header.ldata[IMG]
        /\ Before(MODEL) = header.ldata[IMG] + header.ldata[SOUND]
    BY DEF Before, IMG, SOUND, MODEL
  <1>3. ASSUME NEW k \in Staged, header'.ldata[k] > 0
        PROVE  <<header'.data[k], header'.ldata[k]>> \in
                 {<<p, header.ldata[IMG]>>,
                  <<p + header.ldata[IMG], header.ldata[SOUND]>>,
                  <<p + (header.ldata[IMG] + header.ldata[SOUND]), header.ldata[MODEL]>>}
    <2>1. header'.data[k] = p + Before(k) /\ header'.ldata[k] = header.ldata[k]
      BY <1>3
    <2>2. CASE k = IMG
      BY <1>1, <1>2, <2>1, <2>2
    <2>3. CASE k = SOUND
      BY <1>2, <2>1, <2>3
    <2>4. CASE k = MODEL
      BY <1>2, <2>1, <2>4
    <2> QED BY <2>2, <2>3, <2>4 DEF Staged
  <1> QED BY <1>3 DEF Resources, Sections, Staged

LEMMA CopyLaid ==
    ASSUME TypeInv, TreeInv, StageInv, LayoutInv, CopyResources
    PROVE  LayoutInv'
  <1>1. /\ pc = "resources" /\ pc' = "header" /\ UNCHANGED <<rco, opts, offset>>
    BY DEF CopyResources, Goto
  <1>2. /\ pos = StreamEnd /\ header \in Headers /\ TEXT \in Kinds
    BY <1>1, LaterStart DEF Later
  <1>3. PackedLaid
    BY <1>1 DEF LayoutInv
  <1> DEFINE a == header.ldata[IMG]
             b == header.ldata[SOUND]
             c == header.ldata[MODEL]
             p == FileEnd
  <1>4. /\ a \in Nat /\ b \in Nat /\ c \in Nat /\ p \in Int /\ HeaderWords <= p
        /\ FilePos = p
        /\ ~ Buffered => p = StreamEnd
    BY <1>2, EndsType, KindNames DEF Headers
  <1>5. /\ FileEnd' = p + (a + (b + c))
        /\ Buffered => StreamEnd' = StreamEnd
    BY <1>2, CopyWrites
  <1>6. /\ header'.ptrs = header.ptrs /\ header'.lptrs = header.lptrs
        /\ header'.label = header.label /\ header'.llabel = header.llabel
        /\ header'.event = header.event /\ header'.levent = header.levent
        /\ header'.ldata = header.ldata /\ header'.data[TEXT] = header.data[TEXT]
        /\ \A k \in Staged : header.ldata[k] > 0 => header'.data[k] = p + Before(k)
    BY <1>4, CopyHeader
  <1>7. Full' = Full /\ Texts' = Texts /\ Buffered' = Buffered
    <2>1. Inner' = Inner
      BY <1>1, <1>6, LaidSame
    <2>2. Full' = Full
      BY <1>6, <2>1 DEF Full, LabelSections
    <2>3. Texts' = Texts
      BY <1>6 DEF Texts, Sections
    <2> QED BY <1>1, <2>2, <2>3 DEF Buffered
  <1>8. Resources' \subseteq {<<p, a>>, <<p + a, b>>, <<p + (a + b), c>>}
    BY <1>4, <1>6, CopiedTo
  <1>9. FileEnd' \in Int /\ p + (a + (b + c)) <= FileEnd'
    BY <1>4, <1>5
  <1>10. ASSUME NEW S, Spans(S), Apart(S, p), NEW T, T \subseteq S \cup Resources'
         PROVE  Apart(T, FileEnd')
    <2>1. T \subseteq S \cup {<<p, a>>, <<p + a, b>>, <<p + (a + b), c>>}
      BY <1>8, <1>10
    <2> HIDE DEF a, b, c, p
    <2> QED BY <1>4, <1>9, <1>10, <2>1, ThreeMore
  <1>11. CASE Buffered
    <2>1. Apart(Full, StreamEnd)
      BY <1>3, <1>11 DEF PackedLaid
    <2>2. Apart(Texts, p)
      <3>1. CASE header.ldata[TEXT] = 0
        <4>1. Texts = {}
          BY <3>1 DEF Texts, Sections
        <4> QED BY <4>1 DEF Apart
      <3>2. CASE header.ldata[TEXT] # 0
        <4> DEFINE d == header.data[TEXT]
                   n == header.ldata[TEXT]
                   t == <<d, n>>
        <4>1. d >= HeaderWords /\ d + n <= p
          BY <1>2, <1>3, <1>4, <1>11, <3>2 DEF PackedLaid, Headers
        <4>2. Texts \subseteq {t} /\ t[1] = d /\ t[2] = n
          BY DEF Texts, Sections
        <4> HIDE DEF t, d, n, p
        <4> QED BY <4>1, <4>2 DEF Apart
      <3> QED BY <3>1, <3>2
    <2>3. Spans(Texts)
      BY LaidTypes
    <2>4. Apart(Resources' \cup Texts', FileEnd')
      <3>1. Resources' \cup Texts' \subseteq Texts \cup Resources'
        BY <1>7
      <3> HIDE DEF p
      <3> QED BY <1>10, <2>2, <2>3, <3>1
    <2>5. Apart(Full', StreamEnd')
      BY <1>5, <1>7, <1>11, <2>1
    <2>6. AllLaid'
      BY <1>7, <1>11, <2>4, <2>5 DEF AllLaid, Apart
    <2> QED BY <1>1, <2>6 DEF LayoutInv, Unlabelled, Unhashed, Early, Fixing
  <1>12. CASE ~ Buffered
    <2>1. Apart(Full \cup Texts, p)
      BY <1>3, <1>4, <1>12 DEF PackedLaid
    <2>2. Spans(Full \cup Texts)
      BY LaidTypes
    <2>3. Apart(Full' \cup Texts' \cup Resources', FileEnd')
      <3>1. Full' \cup Texts' \cup Resources' \subseteq (Full \cup Texts) \cup Resources'
        BY <1>7
      <3> HIDE DEF p
      <3> QED BY <1>10, <2>1, <2>2, <3>1
    <2>4. AllLaid'
      BY <1>7, <1>12, <2>3 DEF AllLaid, Apart
    <2> QED BY <1>1, <2>4 DEF LayoutInv, Unlabelled, Unhashed, Early, Fixing
  <1> QED BY <1>11, <1>12

LEMMA FixHeaderLaid ==
    ASSUME TypeInv, LayoutInv, FixHeader
    PROVE  LayoutInv'
  <1>1. /\ pc = "header" /\ pc' = "done" /\ UNCHANGED <<rco, opts, file, tables, offset>>
    BY DEF FixHeader, Goto
  <1>2. \E f : header' = [header EXCEPT !.table = f]
    BY DEF FixHeader
  <1>3. header \in Headers
    BY DEF TypeInv
  <1>4. /\ header'.ptrs = header.ptrs /\ header'.lptrs = header.lptrs
        /\ header'.label = header.label /\ header'.llabel = header.llabel
        /\ header'.event = header.event /\ header'.levent = header.levent
        /\ header'.data = header.data /\ header'.ldata = header.ldata
    BY <1>2, <1>3 DEF Headers
  <1>5. Inner' = Inner /\ Texts' = Texts /\ Resources' = Resources
    BY <1>1, <1>4, LaidSame
  <1>6. Full' = Full /\ Buffered' = Buffered
    BY <1>1, <1>4, <1>5 DEF Full, LabelSections, Buffered
  <1>7. StreamEnd' = StreamEnd /\ FileEnd' = FileEnd
    BY <1>1, EndsSame
  <1>8. AllLaid
    BY <1>1 DEF LayoutInv
  <1>9. AllLaid'
    BY <1>5, <1>6, <1>7, <1>8 DEF AllLaid, Apart
  <1> QED BY <1>1, <1>9 DEF LayoutInv, Unlabelled, Unhashed, Early, Fixing

-----------------------------------------------------------------------------
(* Every step.                                                             *)

LayoutAll == SizeInv /\ StageInv /\ LayoutInv

LEMMA NextLayout ==
    ASSUME TypeInv, TreeInv, LayoutAll, TextsKnown, Next
    PROVE  LayoutInv'
  <1>1. SizeInv /\ StageInv /\ LayoutInv
    BY DEF LayoutAll
  <1>2. CASE \/ EarlyStep \/ WritePlaceholderHeader
             \/ WriteMain \/ WriteChild \/ FinishEntry \/ FixEntry
             \/ Fallthrough("fixObj", "fixAnim") \/ Fallthrough("fixAnim", "hashText")
    BY <1>1, <1>2, UnhashedLaid
  <1>3. CASE HashText \/ HashLang \/ HashTree
    BY <1>1, <1>3, HashTextLaid, HashLangLaid, HashTreeLaid
  <1>4. CASE BeginText \/ WriteText \/ WriteLabelsEvents
    BY <1>1, <1>4, BeginTextLaid, WriteTextLaid, LabelsLaid
  <1>5. CASE Flush \/ BeginPackText \/ PackText
    BY <1>1, <1>5, FlushLaid, BeginPackLaid, PackTextLaid
  <1>6. CASE CopyResources \/ FixHeader
    BY <1>1, <1>6, CopyLaid, FixHeaderLaid
  <1>7. CASE \/ Fallthrough("hashLang", "hash") \/ Fallthrough("hash", "text")
             \/ Fallthrough("textBody", "labels")
             \/ Fallthrough("packTextBody", "resources")
    BY <1>1, <1>7, HashBegins, TextPhase, LabelsBegin, ResourcesBegin
  <1>8. CASE LaterStep
    BY <1>3, <1>4, <1>5, <1>6, <1>7, <1>8 DEF LaterStep
  <1> QED BY <1>2, <1>8, NextSteps

LEMMA StutterLayout ==
    ASSUME LayoutAll, UNCHANGED vars
    PROVE  LayoutAll'
  <1>1. UNCHANGED <<rco, opts, pc, todo, stack, file, tables, pos, offset, size, header>>
    BY DEF vars
  <1>2. SizeInv'
    <2>1. \A m : Counted(m) => Counted(m)'
      BY <1>1, CountedKept
    <2>2. N' = N
      BY <1>1 DEF N
    <2> QED BY <1>1, <2>1, <2>2, StutterParts DEF LayoutAll, SizeInv, TreeWritten
  <1>3. StageInv'
    BY <1>1 DEF LayoutAll, StageInv, HasSubentries, Table, Staging
  <1>4. /\ EntrySections' = EntrySections /\ Inner' = Inner /\ Full' = Full
        /\ Texts' = Texts /\ Resources' = Resources
        /\ StreamEnd' = StreamEnd /\ FileEnd' = FileEnd /\ Buffered' = Buffered
        /\ Table(TEXT)' = Table(TEXT)
    BY <1>1, LaidSame, EndsSame DEF Buffered, Table
  <1>5. /\ NoTables => NoTables'
        /\ LangLaid => LangLaid'
        /\ TablesLaid => TablesLaid'
    BY <1>1, <1>4 DEF NoTables, LangLaid, TablesLaid, Apart
  <1>6. TextLaid => TextLaid'
    BY <1>1, <1>4, TextsSame DEF TextLaid, Apart
  <1>7. /\ InTables(Inner) => InTables(Inner)'
        /\ InTables(Full) => InTables(Full)'
        /\ PackedLaid => PackedLaid'
        /\ AllLaid => AllLaid'
    BY <1>1, <1>4 DEF InTables, PackedLaid, AllLaid, Apart
  <1>8. LayoutInv'
    BY <1>1, <1>5, <1>6, <1>7 DEF LayoutAll, LayoutInv
  <1> QED BY <1>2, <1>3, <1>8 DEF LayoutAll

LEMMA InitLayout ==
    ASSUME Init
    PROVE  LayoutAll
  <1>1. rco \in Archives /\ pc = "open" /\ header = BlankHeader(rco, opts)
    BY DEF Init
  <1>2. TEXT \in Kinds /\ Staged \subseteq Kinds
    BY StagingNames
  <1>3. size[TEXT] = 0 /\ TextBefore[0] = 0
    BY <1>1, <1>2, TextBeforeType DEF Init
  <1>4. SizeInv
    BY <1>1, <1>3 DEF SizeInv, Counted, TreeWritten, Early
  <1>5. /\ \A k \in Kinds : header.lptrs[k] = 0 /\ header.ldata[k] = 0
        /\ header.llabel = rco.labelsLen /\ header.levent = rco.eventsLen
    BY <1>1 DEF BlankHeader
  <1>6. StageInv
    BY <1>1, <1>2, <1>5, StagingNames DEF StageInv, Staged
  <1>7. LayoutInv
    BY <1>1, <1>2, <1>5 DEF LayoutInv, NoTables, Unhashed, Unlabelled, Early, Fixing
  <1> QED BY <1>4, <1>6, <1>7 DEF LayoutAll

(* Every step leaves the archive and the options alone.                    *)
LEMMA OptionsKept ==
    ASSUME TypeInv, [Next]_vars
    PROVE  rco' = rco /\ opts' = opts
  <1>1. CASE UNCHANGED vars
    BY <1>1 DEF vars
  <1>2. CASE EarlyStep
    BY <1>2, EarlySize
  <1>3. CASE WritePlaceholderHeader
    BY <1>3 DEF WritePlaceholderHeader
  <1>4. CASE WriteMain \/ WriteChild \/ FinishEntry
    BY <1>4 DEF WriteMain, WriteChild, FinishEntry, Enter
  <1>5. CASE \/ FixEntry \/ Fallthrough("fixObj", "fixAnim")
             \/ Fallthrough("fixAnim", "hashText") \/ LaterStep
    BY <1>5, OtherSteps
  <1> QED BY <1>1, <1>2, <1>3, <1>4, <1>5, NextSteps

(* TextsKnown is a condition on the archive and the options.               *)
LEMMA TextsKnownKept ==
    ASSUME TypeInv, [Next]_vars, TextsKnown
    PROVE  TextsKnown'
  <1>1. rco' = rco /\ opts' = opts
    BY OptionsKept
  <1>2. Languages' = Languages /\ E' = E
    BY <1>1, TextsSame DEF E
  <1> QED BY <1>1, <1>2 DEF TextsKnown, TextsWhole, Buffered

(* What the invariant says of the finished file.                           *)
LEMMA LaidApart ==
    ASSUME LayoutInv
    PROVE  SectionsDisjoint
  <1>1. pc = "done" => AllLaid
    BY DEF LayoutInv
  <1>2. Full = (Sections(header.ptrs, header.lptrs, Kinds) \cup LabelSections)
                  \cup EntrySections
    BY DEF Full, Inner
  <1> QED BY <1>1, <1>2 DEF SectionsDisjoint, AllLaid, Sections, LabelSections,
                            EntrySections, Texts, Resources

(* For every archive whose last entry is patched last and whose languages  *)
(* can be read (or are packed), the finished file holds nothing twice: the *)
(* entries, the tables of the header, labels, events, texts and resources  *)
(* each lie where the header says, behind the header, inside the file (or, *)
(* when the header is packed, inside what is unpacked) and beside each     *)
(* other.                                                                  *)
THEOREM SectionsApart == Spec /\ PatchedLast /\ TextsKnown => []SectionsDisjoint
  <1> DEFINE All == TypeInv /\ PatchedLast /\ TreeInv /\ TextsKnown /\ LayoutAll
  <1>1. Init /\ PatchedLast /\ TextsKnown => All
    BY InitType, InitTree, InitLayout
  <1>2. All /\ [Next]_vars => All'
    <2> SUFFICES ASSUME TypeInv, PatchedLast, TreeInv, TextsKnown, LayoutAll, [Next]_vars
                 PROVE  All'
      OBVIOUS
    <2>1. PatchedLast' /\ TextsKnown'
      BY ArchiveKept, TextsKnownKept
    <2>2. CASE Next
      <3>1. TypeInv' /\ TreeInv'
        BY <2>2, NextType, NextTree
      <3>2. SizeInv' /\ StageInv'
        BY <2>2, <3>1, NextSize, NextStage DEF LayoutAll
      <3>3. LayoutInv'
        BY <2>2, NextLayout
      <3> QED BY <2>1, <3>1, <3>2, <3>3 DEF LayoutAll
    <2>3. CASE UNCHANGED vars
      <3>1. TypeInv'
        BY <2>3 DEF TypeInv, vars, E, Frames
      <3>2. TreeInv' /\ LayoutAll'
        BY <2>3, StutterTree, StutterLayout
      <3> QED BY <2>1, <3>1, <3>2
    <2> QED BY <2>2, <2>3
  <1>3. All => SectionsDisjoint
    BY LaidApart DEF LayoutAll
  <1> HIDE DEF All
  <1> QED BY <1>1, <1>2, <1>3, PTL DEF Spec

-----------------------------------------------------------------------------
(***************************************************************************)
(* Where the data of the resources are.                                    *)
(***************************************************************************)
Kids(k) == Children(Table(k))

(* The entries write_entry counts the data of.                             *)
Resource(k, e) ==
    rco.id[e] = k /\ IF k = SOUND THEN rco.type[e] # 0 ELSE rco.type[e] = 1

(* The loops over the resources come to the same entries as write_entry.   *)
Collected(k) ==
    \A e \in E : Resource(k, e) <=> \E i \in DOMAIN Kids(k) : Kids(k)[i] = e

(* The sounds can be read: an entry has the length the archive gives, and  *)
(* not the one that was copied.                                            *)
SoundsRead == \A e \in E : Resource(SOUND, e) => rco.readable[e]

AllCollected == \A k \in {IMG, SOUND, MODEL} : Collected(k)

Known(k) == AllCollected /\ (k = SOUND => SoundsRead)

(* The words of data of a resource: those that were packed.                *)
Amount(e) == Words(IF rco.id[e] = SOUND THEN rco.srcLenUnpacked[e] ELSE src.len[e])

(* The first n resources of kind k lie in the temporary file one behind    *)
(* the other, that of e at A[e] behind the kinds before.                   *)
EndOfData(k, A, i) == IF i = 0 THEN 0 ELSE A[Kids(k)[i]] + Amount(Kids(k)[i])

Laid(k, A, n) ==
    /\ A \in [E -> Nat]
    /\ header.ldata[k] = EndOfData(k, A, n)
    /\ \A i \in 1..n :
         LET e == Kids(k)[i]
         IN /\ A[e] = EndOfData(k, A, i - 1)
            /\ A[e] + Amount(e) <= header.ldata[k]
            /\ \A j \in 1..Amount(e) : tmp[Before(k) + A[e] + j] = DataWord(e, j)

(* The loop of the phase has come to resource n.                           *)
Left(k, n) ==
    /\ Len(todo) = Len(Kids(k)) - n
    /\ \A j \in 1..Len(todo) : todo[j] = Kids(k)[n + j]

ToCome ==
    CASE pc = "open"  -> Staged
      [] pc = "image" -> {SOUND, MODEL}
      [] pc = "sound" -> {MODEL}
      [] OTHER -> {}

Progress(k, n) ==
    IF pc \in DOMAIN Staging /\ Staging[pc] = k THEN Left(k, n)
    ELSE n = IF k \in ToCome THEN 0 ELSE Len(Kids(k))

(* The temporary file holds what the three lengths count.                  *)
TmpWhole == Len(tmp) = header.ldata[IMG] + header.ldata[SOUND] + header.ldata[MODEL]

(* The extra words ws of e are in the stream, in front of the next entry.  *)
Recorded(e, ws, m) ==
    /\ \A j \in 1..Len(ws) : WordAt(Stream, offset[e] + EntryWords + j - 1) = ws[j]
    /\ offset[e] + EntryWords + Len(ws) <= StreamEnd
    /\ \A g \in e+1..m : offset[e] + EntryWords + Len(ws) <= offset[g]

ChannelWords(e) == 2 * (IF Len(rco.channels[e]) < 2 THEN 2 ELSE Len(rco.channels[e]))

(* What is written of e when the data before it take a words.              *)
Record(e, a) ==
    LET ch == rco.channels[e]
    IN IF rco.id[e] = SOUND
       THEN <<rco.format[e] + 65536 * Len(ch), rco.srcLenUnpacked[e], a>>
            \o [w \in 1..ChannelWords(e) |->
                  LET c == (w + 1) \div 2
                  IN IF c > Len(ch) THEN IF w % 2 = 1 THEN 0 ELSE NULL_PTR
                     ELSE IF w % 2 = 1 THEN ch[c][1] ELSE ch[c][2] + a]
       ELSE <<rco.format[e] + 65536 * src.compr[e], src.len[e], a>>

(* The running total is where the next resource of the kind lies.          *)
Due(k, A, m) ==
    \A i \in 1..Len(Kids(k)) :
       Kids(k)[i] > m /\ (i = 1 \/ Kids(k)[i-1] <= m) => size[k] = A[Kids(k)[i]]

Located(k, A) ==
    \A i \in 1..Len(Kids(k)) : Holds(header.data[k] + A[Kids(k)[i]], Kids(k)[i], 0, Amount(Kids(k)[i]))

(* All are staged, and those that are written say where.                   *)
Traced(k, A, m) ==
    /\ Laid(k, A, Len(Kids(k))) /\ Due(k, A, m)
    /\ \A e \in 1..m : Resource(k, e) => Recorded(e, Record(e, A[e]), m)

Recs(m) ==
    \A k \in Staged : Known(k) =>
       \E A \in [E -> Nat] :
          Traced(k, A, m) /\ (pc \in {"header", "done"} => Located(k, A))

(* A length that is not known is 0.                                        *)
NoneUnknown == \A e \in E : rco.srcLenUnpacked[e] = 0 => src.len[e] = 0

StagedUpTo(k) ==
    \E n \in 0..Len(Kids(k)), A \in [E -> Nat] : Progress(k, n) /\ Laid(k, A, n)

EarlyData ==
    /\ \A k \in Staged : size[k] = 0
    /\ \A k \in ToCome : header.ldata[k] = 0
    /\ NoneUnknown
    /\ \A k \in Staged : Known(k) => StagedUpTo(k)

DataInv ==
    /\ pc # "failed" => TmpWhole
    /\ pc \in Early => EarlyData
    /\ pc = "entries" => \E m \in 0..N :
         Placed(m) /\ Linked(m) /\ AtEnd(m) /\ Calls(m) /\ Recs(m)
    /\ TreeWritten => Recs(N)

-----------------------------------------------------------------------------
(* The extra words of a resource stay where they are.                      *)

(* What is changed of the stream: nothing, the record of an entry, or what *)
(* is behind all.                                                          *)
ChangesRecord(m) ==
    \E lo \in Int, hi \in Int :
       /\ KeptBut(Stream, Stream', lo, hi)
       /\ \/ lo >= StreamEnd
          \/ \E g \in 1..m : offset[g] <= lo /\ hi <= offset[g] + Room(g)

LEMMA RecordKept ==
    ASSUME TypeInv, NEW m \in 0..N, NEW n \in Int, Placed(m), NEW e \in 1..m, NEW ws,
           Len(ws) \in Nat, Recorded(e, ws, m), rco.attrs[e] = <<>>,
           ChangesRecord(m), StreamEnd' \in Int, StreamEnd' >= StreamEnd,
           offset'[e] = offset[e],
           \A g \in e+1..n : offset'[g] \in Int /\
              ((g <= m /\ offset'[g] = offset[g]) \/ offset'[g] >= StreamEnd)
    PROVE  Recorded(e, ws, n)'
  <1>1. PICK lo \in Int, hi \in Int :
           /\ KeptBut(Stream, Stream', lo, hi)
           /\ \/ lo >= StreamEnd
              \/ \E g \in 1..m : offset[g] <= lo /\ hi <= offset[g] + Room(g)
    BY DEF ChangesRecord
  <1>2. /\ E = 1..N /\ N \in Nat /\ e \in E /\ offset[e] \in Nat
        /\ offset[e] >= HeaderWords /\ \A g \in 1..m : g \in E /\ offset[g] \in Nat
        /\ EntryWords \in Nat /\ HeaderWords \in Nat /\ m \in Int
    <2>1. rco \in Archives
      BY DEF TypeInv
    <2>2. E = 1..N /\ N \in Nat
      BY <2>1, ParentType
    <2>3. e \in E /\ m \in Int /\ \A g \in 1..m : g \in E
      BY <2>2
    <2>4. \A g \in E : offset[g] \in Nat
      BY DEF TypeInv
    <2> QED BY <2>2, <2>3, <2>4 DEF Placed, EntryWords, HeaderWords
  <1>3. StreamEnd \in Nat /\ EndOf(Stream) = StreamEnd
    BY StreamType
  <1>4. Room(e) = EntryWords
    <2>1. Len(rco.attrs[e]) = 0
      OBVIOUS
    <2> QED BY <1>2, <2>1 DEF Room
  <1> DEFINE p == offset[e] + EntryWords
             q == p + Len(ws)
  <1>5. /\ p \in Nat /\ q \in Nat /\ q <= StreamEnd /\ p >= HeaderWords
        /\ \A g \in e+1..m : q <= offset[g]
        /\ \A j \in 1..Len(ws) : WordAt(Stream, p + j - 1) = ws[j]
    <2>1. p \in Nat /\ q \in Nat /\ p >= HeaderWords
      BY <1>2
    <2> QED BY <2>1 DEF Recorded
  <1>6. hi <= p \/ q <= lo
    <2>1. CASE lo >= StreamEnd
      BY <1>3, <1>5, <2>1
    <2>2. ASSUME NEW g \in 1..m, offset[g] <= lo, hi <= offset[g] + Room(g)
          PROVE  hi <= p \/ q <= lo
      <3>1. Room(g) \in Nat
        BY <1>2, RoomType
      <3>2. CASE g = e
        BY <1>2, <1>4, <2>2, <3>2
      <3>3. CASE g < e
        <4>1. offset[g] + Room(g) <= offset[e]
          BY <3>3 DEF Placed
        <4> HIDE DEF q
        <4> QED BY <1>2, <2>2, <3>1, <4>1
      <3>4. CASE g > e
        <4>1. q <= offset[g]
          BY <1>2, <1>5, <3>4
        <4>2. offset[g] \in Int
          BY <1>2
        <4> HIDE DEF q, p
        <4> QED BY <1>5, <2>2, <4>1, <4>2
      <3>5. g = e \/ g < e \/ g > e
        BY <1>2
      <3> QED BY <3>2, <3>3, <3>4, <3>5
    <2> QED BY <1>1, <2>1, <2>2
  <1> HIDE DEF p, q
  <1>7. ASSUME NEW j \in 1..Len(ws)
        PROVE  WordAt(Stream', p + j - 1) = ws[j]
    <2> DEFINE r == p + j - 1
    <2>1. r \in Int /\ p <= r /\ r < q
      BY <1>5 DEF q
    <2>2. r \in HeaderWords..EndOf(Stream)-1 /\ ~ (lo <= r /\ r < hi)
      BY <1>2, <1>3, <1>5, <1>6, <2>1
    <2> HIDE DEF r
    <2>3. WordAt(Stream', r) = WordAt(Stream, r)
      BY <1>1, <2>2 DEF KeptBut
    <2>4. WordAt(Stream, r) = ws[j]
      BY <1>5 DEF r
    <2> QED BY <2>3, <2>4 DEF r
  <1>8. ASSUME NEW g \in e+1..n
        PROVE  q <= offset'[g]
    <2>1. CASE g <= m /\ offset'[g] = offset[g]
      BY <1>2, <1>5, <2>1
    <2>2. CASE offset'[g] >= StreamEnd
      BY <1>3, <1>5, <2>2
    <2> QED BY <2>1, <2>2
  <1>9. q <= StreamEnd'
    BY <1>3, <1>5
  <1> QED BY <1>7, <1>8, <1>9 DEF Recorded, p, q

LEMMA AppendedRecord ==
    ASSUME TypeInv, KeptBut(Stream, Stream', StreamEnd, StreamEnd'), StreamEnd' \in Int,
           NEW m
    PROVE  ChangesRecord(m)
  <1>1. StreamEnd \in Int /\ StreamEnd >= StreamEnd
    BY StreamType
  <1> QED BY <1>1 DEF ChangesRecord

LEMMA NextRecord ==
    ASSUME TypeInv, NEW m \in 0..N, Placed(m), Calls(m), stack # <<>>, PatchesNext
    PROVE  ChangesRecord(m)
  <1>1. 1 \in DOMAIN stack
    BY DEF TypeInv
  <1>2. PICK g : g = stack[1].e
    OBVIOUS
  <1>3. g \in 1..m /\ stack[1].at = offset[g]
    BY <1>1, <1>2 DEF Calls, Call
  <1>4. g \in E /\ offset[g] \in Nat
    <2>1. rco \in Archives
      BY DEF TypeInv
    <2>2. E = 1..N /\ N \in Nat
      BY <2>1, ParentType
    <2>3. g \in E
      BY <1>3, <2>2
    <2> QED BY <2>3 DEF TypeInv
  <1>5. Room(g) \in Nat /\ Room(g) >= EntryWords
    BY <1>4, RoomType
  <1>6. PICK lo : lo = offset[g] + NextField - 1
    OBVIOUS
  <1>7. KeptBut(Stream, Stream', lo, lo + 1)
    BY <1>3, <1>6 DEF PatchesNext
  <1>8. /\ lo \in Int /\ lo + 1 \in Int /\ offset[g] <= lo
        /\ lo + 1 <= offset[g] + Room(g)
    BY <1>4, <1>5, <1>6 DEF NextField, EntryWords
  <1> QED BY <1>3, <1>7, <1>8 DEF ChangesRecord

LEMMA AttrsRecord ==
    ASSUME TypeInv, pc \in Fixing, todo # <<>>, PatchesAttrs
    PROVE  ChangesRecord(N)
  <1>1. PICK g : g = Head(todo)
    OBVIOUS
  <1>2. g \in E /\ rco \in Archives
    <2>1. todo \in Seq(E) /\ rco \in Archives
      BY DEF TypeInv, Fixing
    <2> QED BY <1>1, <2>1, TailType
  <1>3. g \in 1..N /\ offset[g] \in Nat /\ Len(rco.attrs[g]) \in Nat
    BY <1>2, ParentType, EntryType DEF TypeInv
  <1>4. PICK lo : lo = AttrsAt(g)
    OBVIOUS
  <1>5. PICK hi : hi = lo + Len(rco.attrs[g])
    OBVIOUS
  <1>6. KeptBut(Stream, Stream', lo, hi)
    BY <1>1, <1>4, <1>5 DEF PatchesAttrs
  <1>7. lo \in Int /\ hi \in Int /\ offset[g] <= lo /\ hi <= offset[g] + Room(g)
    <2>1. PICK n : n = Len(rco.attrs[g])
      OBVIOUS
    <2>2. PICK at : at = offset[g]
      OBVIOUS
    <2>3. n \in Nat /\ at \in Nat /\ lo = at + EntryWords /\ hi = lo + n
          /\ Room(g) = EntryWords + n
      BY <1>3, <1>4, <1>5, <2>1, <2>2 DEF AttrsAt, Room
    <2>4. lo \in Int /\ hi \in Int /\ at <= lo /\ hi <= at + Room(g)
      BY <2>3 DEF EntryWords
    <2> QED BY <2>2, <2>4
  <1> QED BY <1>3, <1>6, <1>7 DEF ChangesRecord

(* A resource has no attributes.                                           *)
LEMMA ResourceType ==
    ASSUME rco \in Archives, NEW k \in Staged, NEW e \in E, Resource(k, e)
    PROVE  rco.attrs[e] = <<>> /\ k \in Kinds
  <1>1. rco.id[e] \notin {OBJ, ANIM}
    BY DEF Resource, Staged, IMG, SOUND, MODEL, OBJ, ANIM
  <1>2. IsArchive(rco) /\ E = EntriesOf(rco)
    BY ArchiveType DEF E
  <1> QED BY <1>1, <1>2, StagingNames DEF IsArchive

LEMMA RecordLen ==
    ASSUME TypeInv, NEW e \in E, NEW a \in Int
    PROVE  /\ Record(e, a) \in Seq(Int)
           /\ Len(Record(e, a)) = 3 + IF rco.id[e] = SOUND THEN ChannelWords(e) ELSE 0
           /\ ChannelWords(e) \in Nat
  <1>1. /\ rco.format[e] \in Int /\ src.compr[e] \in Int /\ src.len[e] \in Int
        /\ rco.srcLenUnpacked[e] \in Int /\ Len(rco.channels[e]) \in Nat
        /\ rco.channels[e] \in Seq(Nat \X Int)
    <2>1. src.compr[e] \in Compressions /\ src.len[e] \in Nat /\ rco \in Archives
      BY DEF TypeInv
    <2>2. src.compr[e] \in Int
      BY <2>1 DEF Compressions, NONE, RLZ
    <2> QED BY <2>1, <2>2, EntryType
  <1>2. ChannelWords(e) \in Nat
    BY <1>1 DEF ChannelWords
  <1>3. CASE rco.id[e] # SOUND
    BY <1>1, <1>2, <1>3 DEF Record
  <1>4. CASE rco.id[e] = SOUND
    <2> DEFINE ch == rco.channels[e]
               n == ChannelWords(e)
               word(w) == LET c == (w + 1) \div 2
                          IN IF c > Len(ch) THEN IF w % 2 = 1 THEN 0 ELSE NULL_PTR
                             ELSE IF w % 2 = 1 THEN ch[c][1] ELSE ch[c][2] + a
               head == <<rco.format[e] + 65536 * Len(ch), rco.srcLenUnpacked[e], a>>
               body == [w \in 1..n |-> word(w)]
    <2>1. \A c \in 1..Len(ch) : ch[c][1] \in Int /\ ch[c][2] \in Int
      <3> TAKE c \in 1..Len(ch)
      <3>1. ch[c] \in Nat \X Int
        BY <1>1
      <3> QED BY <3>1
    <2>2. \A w \in 1..n : word(w) \in Int
      <3> TAKE w \in 1..n
      <3> DEFINE c == (w + 1) \div 2
      <3>1. c \in Nat /\ c >= 1
        BY <1>2
      <3>2. c > Len(ch) \/ c \in 1..Len(ch)
        BY <1>1, <3>1
      <3> HIDE DEF c
      <3>3. c \in 1..Len(ch) => ch[c][1] \in Int /\ ch[c][2] + a \in Int
        BY <2>1
      <3>4. c \in 1..Len(ch) => ~ (c > Len(ch))
        BY <1>1
      <3>5. (IF c > Len(ch) THEN IF w % 2 = 1 THEN 0 ELSE NULL_PTR
             ELSE IF w % 2 = 1 THEN ch[c][1] ELSE ch[c][2] + a) \in Int
        BY <3>2, <3>3, <3>4 DEF NULL_PTR
      <3> QED BY <3>5 DEF c
    <2>3. head \in Seq(Int) /\ Len(head) = 3
      BY <1>1
    <2>4. Record(e, a) = head \o body
      BY <1>4 DEF Record
    <2> HIDE DEF word, head
    <2>5. body \in [1..n -> Int]
      BY <2>2
    <2> HIDE DEF body
    <2>6. body \in Seq(Int) /\ Len(body) = n
      BY <1>2, <2>5, FunctionIsSeq
    <2>7. head \o body \in Seq(Int) /\ Len(head \o body) = Len(head) + Len(body)
      BY <2>3, <2>6, ConcatProperties
    <2> QED BY <1>2, <1>4, <2>3, <2>4, <2>6, <2>7
  <1> QED BY <1>3, <1>4

LEMMA ConcatBegins ==
    ASSUME NEW s \in Seq(Int), NEW u \in Seq(Int)
    PROVE  /\ s \o u \in Seq(Int) /\ Len(s \o u) = Len(s) + Len(u)
           /\ \A j \in 1..Len(s) : (s \o u)[j] = s[j]
           /\ \A j \in 1..Len(u) : (s \o u)[Len(s) + j] = u[j]
  <1>1. Len(s) \in Nat /\ Len(u) \in Nat
    OBVIOUS
  <1>2. ASSUME NEW j \in 1..Len(s) PROVE (s \o u)[j] = s[j]
    BY <1>1, ConcatProperties
  <1>3. ASSUME NEW j \in 1..Len(u) PROVE (s \o u)[Len(s) + j] = u[j]
    <2>1. PICK i \in Int : i = Len(s) + j
      BY <1>1
    <2>2. i \in 1..Len(s)+Len(u) /\ ~ (i <= Len(s)) /\ i - Len(s) = j
      BY <1>1, <2>1
    <2>3. (s \o u)[i] = u[i - Len(s)]
      BY <2>2, ConcatProperties
    <2> QED BY <2>1, <2>2, <2>3
  <1> QED BY <1>2, <1>3, ConcatProperties

(* It begins what write_entry writes behind the header of the entry.       *)
LEMMA RecordWritten ==
    ASSUME TypeInv, NEW k \in Staged, NEW e \in E, Resource(k, e)
    PROVE  LET r == Record(e, size[k])
           IN /\ r \in Seq(Int) /\ Len(r) \in Nat /\ Len(r) <= Len(Extra(e))
              /\ \A j \in 1..Len(r) : Extra(e)[j] = r[j]
  <1>1. size[k] \in Int /\ rco \in Archives
    BY StagingNames DEF TypeInv
  <1> DEFINE r == Record(e, size[k])
  <1>2. /\ r \in Seq(Int) /\ ChannelWords(e) \in Nat
        /\ Len(r) = 3 + IF rco.id[e] = SOUND THEN ChannelWords(e) ELSE 0
    BY <1>1, RecordLen
  <1>3. Len(r) \in Nat
    BY <1>2
  <1>4. CASE k = SOUND
    <2>1. rco.id[e] = SOUND /\ rco.type[e] # 0
      BY <1>4 DEF Resource
    <2>2. Extra(e) = SoundExtra(e)
      BY <2>1 DEF Extra, VSMX, TEXT, IMG, MODEL, SOUND, FONT, OBJ, ANIM
    <2>3. SoundExtra(e) = Record(e, size[SOUND])
      BY <2>1 DEF SoundExtra, Record, ChannelWords
    <2> QED BY <1>2, <1>3, <1>4, <2>2, <2>3
  <1>5. CASE k # SOUND
    <2>1. rco.id[e] = k /\ k \in {IMG, MODEL} /\ rco.type[e] = 1
      BY <1>5 DEF Resource, Staged
    <2>2. Extra(e) = ResourceExtra(e)
      BY <2>1 DEF Extra, VSMX, TEXT, IMG, MODEL, SOUND, FONT, OBJ, ANIM
    <2>3. r = <<rco.format[e] + 65536 * src.compr[e], src.len[e], size[k]>>
      BY <1>5, <2>1 DEF Record
    <2> DEFINE a == IF rco.ps3 THEN <<1>> ELSE <<>>
               b == IF src.compr[e] # NONE THEN <<rco.srcLenUnpacked[e]>> ELSE <<>>
    <2>4. ResourceExtra(e) = r \o a \o b
      BY <2>1, <2>3 DEF ResourceExtra
    <2>5. a \in Seq(Int) /\ b \in Seq(Int)
      <3>1. rco.srcLenUnpacked[e] \in Int
        BY <1>1, EntryType
      <3> QED BY <3>1
    <2> HIDE DEF a, b, r
    <2>6. PICK ra : ra = r \o a
      OBVIOUS
    <2>7. /\ ra \in Seq(Int) /\ Len(ra) = Len(r) + Len(a)
          /\ \A j \in 1..Len(r) : ra[j] = r[j]
      BY <1>2, <2>5, <2>6, ConcatBegins
    <2>8. /\ Len(ra \o b) = Len(ra) + Len(b)
          /\ \A j \in 1..Len(ra) : (ra \o b)[j] = ra[j]
      BY <2>5, <2>7, ConcatBegins
    <2>9. Len(a) \in Nat /\ Len(b) \in Nat
      BY <2>5
    <2>10. Extra(e) = ra \o b
      BY <2>2, <2>4, <2>6
    <2>11. Len(r) <= Len(ra) /\ Len(ra) \in Nat /\ Len(r) <= Len(ra \o b)
      BY <1>3, <2>7, <2>8, <2>9
    <2>12. \A j \in 1..Len(r) : j \in 1..Len(ra)
      BY <1>3, <2>11
    <2>13. \A j \in 1..Len(r) : Extra(e)[j] = r[j]
      BY <2>7, <2>8, <2>10, <2>12
    <2> QED BY <1>2, <1>3, <2>10, <2>11, <2>13 DEF r
  <1> QED BY <1>4, <1>5

-----------------------------------------------------------------------------
(* A step of write_entry.                                                  *)

LEMMA KidsOf ==
    ASSUME rco \in Archives, NEW k \in Kinds
    PROVE  /\ Kids(k) \in Seq(E) /\ Len(Kids(k)) \in Nat
           /\ DOMAIN Kids(k) = 1..Len(Kids(k))
           /\ \A i \in 1..Len(Kids(k)) : Kids(k)[i] \in 1..N
           /\ \A i, j \in 1..Len(Kids(k)) : i < j => Kids(k)[i] < Kids(k)[j]
  <1>1. Table(k) \in E \cup {Nil} /\ N \in Nat /\ E = 1..N
    BY TableType, ParentType
  <1>2. Kids(k) \in Seq(E)
    BY <1>1, ChildrenType DEF Kids
  <1>3. ASSUME NEW i \in 1..Len(Kids(k)), NEW j \in 1..Len(Kids(k)), i < j
        PROVE  Kids(k)[i] < Kids(k)[j]
    <2>1. Table(k) # Nil
      <3>1. Len(Kids(k)) # 0
        BY <1>2, <1>3
      <3> QED BY <3>1 DEF Kids, Children
    <2>2. PICK t \in E : t = Table(k)
      BY <1>1, <2>1
    <2>3. Kids(k) = rco.kids[t]
      BY <2>1, <2>2 DEF Kids, Children
    <2>4. i \in 1..Len(rco.kids[t]) /\ j \in 1..Len(rco.kids[t])
      BY <2>3
    <2>5. rco.kids[t][i] < rco.kids[t][j]
      BY <1>3, <2>4, KidType
    <2> QED BY <2>3, <2>5
  <1> QED BY <1>1, <1>2, <1>3

(* What an entry adds to the running total is the data staged for it.      *)
LEMMA SizeStep ==
    ASSUME TypeInv, NEW k \in Staged, NEW c \in E, NEW parent, NEW prev,
           Enter(c, parent, prev)
    PROVE  size'[k] = size[k] + IF Resource(k, c) THEN Amount(c) ELSE 0
  <1>1. /\ size \in [Kinds -> Nat] /\ k \in Kinds /\ rco.id[c] \in Kinds
        /\ DataWords(c) \in Nat
    BY StagingNames, EntryType, DataWordsType DEF TypeInv
  <1>2. size' = [size EXCEPT ![rco.id[c]] = size[rco.id[c]] + DataWords(c)]
    BY DEF Enter
  <1>3. size'[k] = IF rco.id[c] = k THEN size[k] + DataWords(c) ELSE size[k]
    BY <1>1, <1>2
  <1>4. CASE Resource(k, c)
    <2>1. DataWords(c) = Amount(c) /\ rco.id[c] = k
      BY <1>4 DEF Resource, DataWords, Amount, Staged, IMG, SOUND, MODEL, TEXT
    <2> QED BY <1>3, <1>4, <2>1
  <1>5. CASE ~ Resource(k, c)
    <2>1. rco.id[c] = k => DataWords(c) = 0
      BY <1>5 DEF Resource, DataWords, Staged, IMG, SOUND, MODEL, TEXT
    <2> QED BY <1>1, <1>3, <1>5, <2>1
  <1> QED BY <1>4, <1>5

LEMMA DueKept ==
    ASSUME rco \in Archives, NEW k \in Staged, Collected(k), NEW m \in 0..N-1,
           NEW A, Due(k, A, m), size[k] \in Int, rco' = rco,
           size'[k] = size[k] + IF Resource(k, m + 1) THEN Amount(m + 1) ELSE 0,
           \A i \in 2..Len(Kids(k)) :
              A[Kids(k)[i]] = A[Kids(k)[i-1]] + Amount(Kids(k)[i-1])
    PROVE  Due(k, A, m + 1)'
  <1> DEFINE s == Kids(k)
             n == Len(s)
             c == m + 1
  <1>1. /\ n \in Nat /\ DOMAIN s = 1..n /\ N \in Nat /\ E = 1..N /\ c \in E
        /\ m \in Nat
        /\ \A i \in 1..n : s[i] \in 1..N
        /\ \A i, j \in 1..n : i < j => s[i] < s[j]
    BY KidsOf, StagingNames, ParentType
  <1>2. Kids(k)' = s
    BY DEF Kids, Children, Table
  <1>3. /\ Resource(k, c) <=> \E i \in 1..n : s[i] = c
        /\ \A i \in 1..n : s[i] > m /\ (i = 1 \/ s[i-1] <= m) => size[k] = A[s[i]]
        /\ \A i \in 2..n : A[s[i]] = A[s[i-1]] + Amount(s[i-1])
    BY <1>1 DEF Collected, Due
  <1> HIDE DEF s, n
  <1>4. SUFFICES ASSUME NEW i \in 1..n, s[i] > c, i = 1 \/ s[i-1] <= c
                 PROVE  size'[k] = A[s[i]]
    BY <1>2 DEF Due, s, n
  <1>5. s[i] > m /\ s[i] \in Int
    BY <1>1, <1>4
  <1>6. CASE Resource(k, c)
    <2>1. PICK j \in 1..n : s[j] = c
      BY <1>3, <1>6
    <2>2. j < i
      <3>1. i = j \/ i < j \/ j < i
        BY <1>1
      <3> QED BY <1>1, <1>4, <2>1, <3>1
    <2>3. j = i - 1 /\ i \in 2..n
      <3>1. i # 1 /\ i - 1 \in 1..n
        BY <1>1, <2>2
      <3>2. s[i-1] <= c
        BY <1>4, <3>1
      <3>3. j < i - 1 \/ j = i - 1
        BY <1>1, <2>2
      <3>4. ~ (j < i - 1)
        <4>1. j < i - 1 => s[j] < s[i-1]
          BY <1>1, <3>1
        <4>2. s[i-1] \in Int /\ c \in Int
          BY <1>1, <3>1
        <4> QED BY <2>1, <3>2, <4>1, <4>2
      <3> QED BY <1>1, <3>1, <3>3, <3>4
    <2>4. size[k] = A[c]
      <3>1. j = 1 \/ s[j-1] <= m
        <4>0. n \in Nat
          BY <1>1
        <4>1. j # 1 => j - 1 \in 1..n /\ j - 1 < j
          BY <4>0
        <4>2. j # 1 => s[j-1] \in Int /\ s[j-1] < s[j]
          BY <1>1, <4>1
        <4> QED BY <1>1, <2>1, <4>1, <4>2
      <3>2. s[j] > m
        BY <1>1, <2>1
      <3> QED BY <1>3, <2>1, <3>1, <3>2
    <2>5. A[s[i]] = A[c] + Amount(c)
      BY <1>3, <2>1, <2>3
    <2> QED BY <1>6, <2>4, <2>5
  <1>7. CASE ~ Resource(k, c)
    <2>1. i = 1 \/ s[i-1] <= m
      <3>1. i # 1 => i - 1 \in 1..n
        BY <1>1
      <3>2. i # 1 => s[i-1] # c /\ s[i-1] \in Int /\ s[i-1] <= c
        BY <1>1, <1>3, <1>4, <1>7, <3>1
      <3>3. \A x \in Int : x # c /\ x <= c => x <= m
        BY <1>1
      <3> HIDE DEF c
      <3> QED BY <3>2, <3>3
    <2> QED BY <1>3, <1>5, <1>7, <2>1
  <1> QED BY <1>6, <1>7

LEMMA RecordSame ==
    ASSUME rco' = rco, src' = src
    PROVE  /\ \A e, a : Record(e, a)' = Record(e, a)
           /\ \A e : Amount(e)' = Amount(e)
           /\ \A k : Kids(k)' = Kids(k) /\ (Known(k)' <=> Known(k))
           /\ \A k, e : Resource(k, e)' <=> Resource(k, e)
  <1>1. E' = E /\ N' = N /\ \A k : Kids(k)' = Kids(k)
    BY DEF E, N, Kids, Children, Table
  <1>2. \A k, e : Resource(k, e)' <=> Resource(k, e)
    BY DEF Resource
  <1>3. \A k : Known(k)' <=> Known(k)
    BY <1>1, <1>2 DEF Known, AllCollected, Collected, SoundsRead
  <1>4. \A e, a : Record(e, a)' = Record(e, a)
    BY DEF Record, ChannelWords
  <1>5. \A e : Amount(e)' = Amount(e)
    BY DEF Amount
  <1> QED BY <1>1, <1>2, <1>3, <1>4, <1>5

LEMMA LaidKept ==
    ASSUME UNCHANGED <<rco, src, tmp>>, SameStaged, NEW k \in Staged
    PROVE  \A A, n : Laid(k, A, n) => Laid(k, A, n)'
  <1>1. Before(k)' = Before(k) /\ header'.ldata[k] = header.ldata[k]
    BY DEF Before, SameStaged, Staged
  <1>2. /\ \A e : Amount(e)' = Amount(e)
        /\ Kids(k)' = Kids(k) /\ E' = E
    BY RecordSame DEF E
  <1>3. \A A, i : EndOfData(k, A, i)' = EndOfData(k, A, i)
    BY <1>2 DEF EndOfData
  <1> QED BY <1>1, <1>2, <1>3 DEF Laid

(* The data of resource i lie behind those of the one before.              *)
LEMMA LaidFollow ==
    ASSUME NEW k, NEW A, NEW n \in Nat, Laid(k, A, n)
    PROVE  \A i \in 2..n : A[Kids(k)[i]] = A[Kids(k)[i-1]] + Amount(Kids(k)[i-1])
  <1> TAKE i \in 2..n
  <1>1. i \in 1..n /\ i - 1 # 0
    OBVIOUS
  <1>2. A[Kids(k)[i]] = EndOfData(k, A, i - 1)
    BY <1>1 DEF Laid
  <1> QED BY <1>1, <1>2 DEF EndOfData

LEMMA EnterRecord ==
    ASSUME TypeInv, NEW m \in 0..N-1, pos = StreamEnd,
           NEW parent \in Int, NEW prev \in Int, Enter(m + 1, parent, prev),
           NEW k \in Staged, Resource(k, m + 1), NEW a, a = size[k]
    PROVE  Recorded(m + 1, Record(m + 1, a), m + 1)'
  <1> DEFINE c == m + 1
  <1>1. /\ rco \in Archives /\ UNCHANGED <<rco, src, opts>> /\ pos \in Int
        /\ c \in E /\ c \in Nat
        /\ offset'[c] = StreamEnd
    <2>1. rco \in Archives /\ UNCHANGED <<rco, src, opts>> /\ pos \in Int
          /\ offset \in [E -> Nat]
      BY DEF TypeInv, Enter
    <2>2. c \in E /\ c \in Nat
      BY <2>1, ParentType
    <2>3. offset' = [offset EXCEPT ![c] = pos]
      BY DEF Enter
    <2> HIDE DEF c
    <2> QED BY <2>1, <2>2, <2>3
  <1>2. Fwrite(EntryHeader(c, pos, parent, prev, 0) \o Extra(c)) /\ Resource(k, c)
    BY DEF Enter
  <1> HIDE DEF c
  <1>3. PICK at \in Int : at = pos
    BY <1>1
  <1>4. PICK h : h = EntryHeader(c, at, parent, prev, 0)
    OBVIOUS
  <1>5. PICK x : x = Extra(c)
    OBVIOUS
  <1>6. PICK r : r = Record(c, a)
    OBVIOUS
  <1>7. h \in Seq(Int) /\ Len(h) = EntryWords
    <2>1. \A nxt \in Int : /\ EntryHeader(c, at, parent, prev, nxt) \in Seq(Int)
                           /\ Len(EntryHeader(c, at, parent, prev, nxt)) = EntryWords
      BY <1>1, HeaderWordsType
    <2> QED BY <1>4, <2>1
  <1>8. /\ x \in Seq(Int) /\ Len(r) \in Nat /\ Len(r) <= Len(x)
        /\ \A j \in 1..Len(r) : x[j] = r[j]
    BY <1>1, <1>2, <1>5, <1>6, ExtraType, RecordWritten
  <1>9. PICK ws : ws = h \o x
    OBVIOUS
  <1>10. /\ ws \in Seq(Int) /\ Len(ws) = EntryWords + Len(x) /\ Len(x) \in Nat
         /\ \A j \in 1..Len(x) : ws[EntryWords + j] = x[j]
    <2>1. /\ ws \in Seq(Int) /\ Len(ws) = Len(h) + Len(x)
          /\ \A j \in 1..Len(x) : ws[Len(h) + j] = x[j]
      BY <1>7, <1>8, <1>9, ConcatBegins
    <2> QED BY <1>7, <1>8, <2>1
  <1>11. Fwrite(ws)
    BY <1>2, <1>3, <1>4, <1>5, <1>9
  <1>12. StreamEnd' = StreamEnd + Len(ws) /\ LiesAt(Stream', StreamEnd, ws)
    BY <1>1, <1>10, <1>11, FwriteExtends
  <1>13. StreamEnd \in Nat /\ EntryWords \in Nat
    BY StreamType DEF EntryWords
  <1>14. ASSUME NEW j \in 1..Len(r)
         PROVE  WordAt(Stream', offset'[c] + EntryWords + j - 1) = r[j]
    <2>1. j \in 1..Len(x) /\ x[j] = r[j]
      <3>1. Len(r) \in Nat /\ Len(x) \in Nat /\ Len(r) <= Len(x)
        BY <1>8, <1>10
      <3> QED BY <1>8, <3>1
    <2>2. EntryWords + j \in 1..Len(ws)
      BY <1>10, <1>13, <2>1
    <2>3. WordAt(Stream', StreamEnd + (EntryWords + j) - 1) = ws[EntryWords + j]
      BY <1>12, <2>2 DEF LiesAt
    <2>4. StreamEnd + (EntryWords + j) - 1 = offset'[c] + EntryWords + j - 1
      BY <1>1, <1>13
    <2> QED BY <1>10, <2>1, <2>3, <2>4
  <1>15. offset'[c] + EntryWords + Len(r) <= StreamEnd'
    BY <1>1, <1>8, <1>10, <1>12, <1>13
  <1>16. \A g \in c+1..c : FALSE
    BY <1>1
  <1>17. Recorded(c, r, c)'
    BY <1>14, <1>15, <1>16 DEF Recorded
  <1>18. Record(c, a)' = r
    BY <1>1, <1>6, RecordSame
  <1>19. Recorded(c, Record(c, a), c)'
    BY <1>17, <1>18
  <1> QED BY <1>19 DEF c

LEMMA EnterTraced ==
    ASSUME TypeInv, NEW m \in 0..N-1, Placed(m), pos = StreamEnd,
           NEW parent \in Int, NEW prev \in Int, Enter(m + 1, parent, prev),
           NEW k \in Staged, Collected(k), NEW A \in [E -> Nat], Traced(k, A, m)
    PROVE  Traced(k, A, m + 1)'
  <1> DEFINE c == m + 1
             n == Len(Kids(k))
  <1>1. /\ rco \in Archives /\ UNCHANGED <<rco, src, tmp, opts, header>> /\ k \in Kinds
        /\ c \in E /\ c \in Nat /\ m \in Nat /\ E = 1..N /\ N \in Nat
        /\ m \in 0..N /\ offset \in [E -> Nat] /\ size[k] \in Int
    <2>1. rco \in Archives /\ UNCHANGED <<rco, src, tmp, opts, header>> /\ k \in Kinds
          /\ offset \in [E -> Nat] /\ size[k] \in Int
      BY StagingNames DEF TypeInv, Enter
    <2>2. E = 1..N /\ N \in Nat
      BY <2>1, ParentType
    <2> QED BY <2>1, <2>2
  <1>2. n \in Nat
    BY <1>1, KidsOf
  <1>3. Laid(k, A, Len(Kids(k)))'
    <2>1. SameStaged
      BY <1>1 DEF SameStaged
    <2>2. PICK l : l = Len(Kids(k))
      OBVIOUS
    <2>3. Laid(k, A, l)'
      BY <1>1, <2>1, <2>2, LaidKept DEF Traced
    <2>4. Kids(k)' = Kids(k)
      BY <1>1, RecordSame
    <2> QED BY <2>2, <2>3, <2>4
  <1>4. Due(k, A, c)'
    <2>1. size'[k] = size[k] + IF Resource(k, c) THEN Amount(c) ELSE 0
      BY <1>1, SizeStep
    <2>2. \A i \in 2..n : A[Kids(k)[i]] = A[Kids(k)[i-1]] + Amount(Kids(k)[i-1])
      BY <1>2, LaidFollow DEF Traced
    <2>3. Due(k, A, m)
      BY DEF Traced
    <2> QED BY <1>1, <2>1, <2>2, <2>3, DueKept
  <1>5. Resource(k, c) => Recorded(c, Record(c, A[c]), c)'
    <2> SUFFICES ASSUME Resource(k, c) PROVE Recorded(c, Record(c, A[c]), c)'
      OBVIOUS
    <2>1. PICK i \in 1..n : Kids(k)[i] = c
      <3>1. DOMAIN Kids(k) = 1..n
        BY <1>1, KidsOf
      <3> QED BY <1>1, <3>1 DEF Collected
    <2>2. Kids(k)[i] > m /\ (i = 1 \/ Kids(k)[i-1] <= m)
      <3>1. i # 1 => i - 1 \in 1..n /\ i - 1 < i
        BY <1>2
      <3>2. \A a, b \in 1..n : a < b => Kids(k)[a] < Kids(k)[b]
        BY <1>1, KidsOf
      <3>3. i # 1 => Kids(k)[i-1] < c /\ Kids(k)[i-1] \in 1..N
        BY <1>1, <2>1, <3>1, <3>2, KidsOf
      <3>4. \A x \in Int : x < c => x <= m
        BY <1>1
      <3> QED BY <1>1, <2>1, <3>3, <3>4
    <2>3. size[k] = A[c]
      BY <2>1, <2>2 DEF Traced, Due
    <2>4. PICK a : a = A[c]
      OBVIOUS
    <2>5. Recorded(c, Record(c, a), c)'
      BY <2>3, <2>4, EnterRecord
    <2> QED BY <2>4, <2>5
  <1>6. offset'[c] = StreamEnd /\ \A b \in 1..m : offset'[b] = offset[b]
    <2>1. offset' = [offset EXCEPT ![c] = pos]
      BY DEF Enter
    <2>2. \A b \in 1..m : b \in E /\ b # c
      BY <1>1
    <2> HIDE DEF c
    <2> QED BY <1>1, <2>1, <2>2
  <1>7. Extended /\ StreamEnd' \in Int
    <2>1. PICK ws : ws = EntryHeader(c, pos, parent, prev, 0) \o Extra(c)
      OBVIOUS
    <2>2. Fwrite(ws)
      BY <2>1 DEF Enter
    <2>3. ws \in Seq(Int)
      <3>1. PICK at \in Int : at = pos
        BY DEF TypeInv
      <3>2. \A nxt \in Int : EntryHeader(c, at, parent, prev, nxt) \in Seq(Int)
        BY <1>1, HeaderWordsType
      <3>3. PICK h : h = EntryHeader(c, at, parent, prev, 0)
        OBVIOUS
      <3>4. PICK x : x = Extra(c)
        OBVIOUS
      <3>5. h \in Seq(Int) /\ x \in Seq(Int)
        BY <1>1, <3>2, <3>3, <3>4, ExtraType
      <3>6. ws = h \o x
        BY <2>1, <3>1, <3>3, <3>4
      <3> QED BY <3>5, <3>6, ConcatBegins
    <2>4. Extended /\ StreamEnd' = StreamEnd + Len(ws)
      BY <1>1, <2>2, <2>3, FwriteExtends
    <2> QED BY <2>3, <2>4, StreamType
  <1>8. ASSUME NEW e \in 1..m, Resource(k, e)
        PROVE  Recorded(e, Record(e, A[e]), c)'
    <2>1. Recorded(e, Record(e, A[e]), m)
      BY <1>8 DEF Traced
    <2>2. PICK r : r = Record(e, A[e])
      OBVIOUS
    <2>3. e \in E /\ A[e] \in Int
      BY <1>1
    <2>4. Len(r) \in Nat
      BY <2>2, <2>3, RecordLen
    <2>5. rco.attrs[e] = <<>>
      BY <1>1, <1>8, <2>3, ResourceType
    <2>6. ChangesRecord(m) /\ StreamEnd' >= StreamEnd
      BY <1>7, AppendedRecord DEF Extended
    <2>7. \A g \in e+1..c : offset'[g] \in Int /\
             ((g <= m /\ offset'[g] = offset[g]) \/ offset'[g] >= StreamEnd)
      <3> TAKE g \in e+1..c
      <3>1. StreamEnd \in Int /\ StreamEnd >= StreamEnd
        BY StreamType
      <3>2. g = c \/ g \in 1..m
        BY <1>1
      <3>3. CASE g = c
        <4>1. offset'[g] \in Int /\ offset'[g] >= StreamEnd
          BY <1>6, <3>1, <3>3
        <4> QED BY <4>1
      <3>4. CASE g \in 1..m
        <4>1. g \in E /\ g <= m
          BY <1>1, <3>4
        <4>2. offset'[g] = offset[g] /\ offset[g] \in Int
          BY <1>1, <1>6, <3>4, <4>1
        <4> QED BY <4>1, <4>2
      <3> QED BY <3>2, <3>3, <3>4
    <2>8. c \in Int /\ offset'[e] = offset[e] /\ Recorded(e, r, m)
      BY <1>1, <1>6, <2>1, <2>2
    <2>9. Recorded(e, r, c)'
      BY <1>1, <1>7, <2>4, <2>5, <2>6, <2>7, <2>8, RecordKept
    <2>10. Record(e, A[e])' = r
      BY <1>1, <2>2, RecordSame
    <2> QED BY <2>9, <2>10
  <1>9. \A e \in 1..c : Resource(k, e) => Recorded(e, Record(e, A[e]), c)'
    <2> TAKE e \in 1..c
    <2>1. e = c \/ e \in 1..m
      BY <1>1
    <2> QED BY <1>5, <1>8, <2>1
  <1>10. Kids(k)' = Kids(k) /\ \A e : Resource(k, e)' <=> Resource(k, e)
    BY <1>1, RecordSame
  <1> HIDE DEF c
  <1>11. Traced(k, A, c)'
    BY <1>3, <1>4, <1>9, <1>10 DEF Traced
  <1> QED BY <1>11 DEF c

LEMMA EnterRecs ==
    ASSUME TypeInv, NEW m \in 0..N-1, Placed(m), pos = StreamEnd, pc = "entries",
           NEW parent \in Int, NEW prev \in Int, Enter(m + 1, parent, prev), Recs(m)
    PROVE  Recs(m + 1)'
  <1>1. /\ UNCHANGED <<rco, src>> /\ pc' = "entries" /\ E' = E
    BY DEF Enter, E
  <1>2. ASSUME NEW k \in Staged, Known(k)'
        PROVE  \E A \in [E' -> Nat] : Traced(k, A, m + 1)'
    <2>1. Known(k) /\ Collected(k)
      BY <1>1, <1>2, RecordSame DEF Known, AllCollected, Staged
    <2>2. PICK A \in [E -> Nat] : Traced(k, A, m)
      BY <2>1 DEF Recs
    <2>3. Traced(k, A, m + 1)'
      BY <2>1, <2>2, EnterTraced
    <2> QED BY <1>1, <2>2, <2>3
  <1> QED BY <1>1, <1>2 DEF Recs, Staged

(* Nothing of the resources changes.                                       *)
LEMMA TracedKept ==
    ASSUME TypeInv, NEW m \in 0..N, Placed(m), UNCHANGED <<rco, src, tmp, size, offset>>,
           SameStaged, ChangesRecord(m), StreamEnd' \in Int, StreamEnd' >= StreamEnd,
           NEW k \in Staged, NEW A \in [E -> Nat], Traced(k, A, m)
    PROVE  Traced(k, A, m)'
  <1>1. /\ rco \in Archives /\ m \in Nat /\ E = 1..N /\ N \in Nat
        /\ offset \in [E -> Nat]
    <2>1. rco \in Archives /\ offset \in [E -> Nat]
      BY DEF TypeInv
    <2> QED BY <2>1, ParentType
  <1>2. Kids(k)' = Kids(k) /\ \A e : Resource(k, e)' <=> Resource(k, e)
    BY RecordSame
  <1>3. Laid(k, A, Len(Kids(k)))'
    <2>1. PICK n : n = Len(Kids(k))
      OBVIOUS
    <2>2. Laid(k, A, n)'
      BY <2>1, LaidKept DEF Traced
    <2> QED BY <1>2, <2>1, <2>2
  <1>4. Due(k, A, m)'
    BY <1>2 DEF Due, Traced
  <1>5. ASSUME NEW e \in 1..m, Resource(k, e)
        PROVE  Recorded(e, Record(e, A[e]), m)'
    <2>1. Recorded(e, Record(e, A[e]), m)
      BY <1>5 DEF Traced
    <2>2. PICK r : r = Record(e, A[e])
      OBVIOUS
    <2>3. e \in E /\ A[e] \in Int
      BY <1>1
    <2>4. Len(r) \in Nat
      BY <2>2, <2>3, RecordLen
    <2>5. rco.attrs[e] = <<>>
      BY <1>1, <1>5, <2>3, ResourceType
    <2>6. \A g \in e+1..m : offset'[g] \in Int /\
             ((g <= m /\ offset'[g] = offset[g]) \/ offset'[g] >= StreamEnd)
      <3> TAKE g \in e+1..m
      <3>1. g \in E /\ g <= m
        BY <1>1
      <3> QED BY <1>1, <3>1
    <2>7. m \in Int /\ offset'[e] = offset[e] /\ Recorded(e, r, m)
      BY <1>1, <2>1, <2>2
    <2>8. Recorded(e, r, m)'
      BY <2>4, <2>5, <2>6, <2>7, RecordKept
    <2>9. Record(e, A[e])' = r
      BY <2>2, RecordSame
    <2> QED BY <2>8, <2>9
  <1> QED BY <1>2, <1>3, <1>4, <1>5 DEF Traced

LEMMA RecsKept ==
    ASSUME TypeInv, NEW m \in 0..N, Placed(m), UNCHANGED <<rco, src, tmp, size, offset>>,
           SameStaged, ChangesRecord(m), StreamEnd' \in Int, StreamEnd' >= StreamEnd,
           pc' \notin {"header", "done"}, Recs(m)
    PROVE  Recs(m)'
  <1>1. E' = E
    BY DEF E
  <1>2. ASSUME NEW k \in Staged, Known(k)'
        PROVE  \E A \in [E' -> Nat] : Traced(k, A, m)'
    <2>1. Known(k)
      BY <1>2, RecordSame
    <2>2. PICK A \in [E -> Nat] : Traced(k, A, m)
      BY <2>1 DEF Recs
    <2>3. Traced(k, A, m)'
      BY <2>2, TracedKept
    <2> QED BY <1>1, <2>2, <2>3
  <1> QED BY <1>2 DEF Recs, Staged

-----------------------------------------------------------------------------
(* A step of the loops that pack the resources.                            *)

(* Laid of the data b, of the resources s that take amt words.             *)
EndIn(s, amt, A, i) == IF i = 0 THEN 0 ELSE A[s[i]] + amt[s[i]]

LaidIn(s, amt, A, n, l, data, b) ==
    /\ l = EndIn(s, amt, A, n)
    /\ \A i \in 1..n :
         /\ A[s[i]] = EndIn(s, amt, A, i - 1)
         /\ A[s[i]] + amt[s[i]] <= l
         /\ \A j \in 1..amt[s[i]] : data[b + A[s[i]] + j] = DataWord(s[i], j)

SameAmounts(s, S, amt, more, n) ==
    \A i \in 1..n : s[i] \in S /\ amt[s[i]] \in Nat /\ more[s[i]] = amt[s[i]]

Longer(data, ext) ==
    Len(data) \in Nat /\ \A i \in 1..Len(data) : ext[i] = data[i]

LEMMA LaidBefore ==
    ASSUME NEW n \in Nat, NEW S, NEW s, NEW A \in [S -> Nat], NEW amt, NEW more,
           SameAmounts(s, S, amt, more, n),
           NEW l \in Nat, NEW b \in Nat, NEW data, NEW ext, Longer(data, ext),
           b + l <= Len(data), LaidIn(s, amt, A, n, l, data, b)
    PROVE  LaidIn(s, more, A, n, l, ext, b)
  <1>s. \A i \in 1..n : s[i] \in S /\ amt[s[i]] \in Nat /\ more[s[i]] = amt[s[i]]
    BY DEF SameAmounts
  <1>l. Len(data) \in Nat /\ \A i \in 1..Len(data) : ext[i] = data[i]
    BY DEF Longer
  <1>1. \A i \in 0..n : EndIn(s, more, A, i) = EndIn(s, amt, A, i)
    BY <1>s DEF EndIn
  <1>2. l = EndIn(s, more, A, n)
    BY <1>1 DEF LaidIn
  <1>3. ASSUME NEW i \in 1..n
        PROVE  /\ A[s[i]] = EndIn(s, more, A, i - 1)
               /\ A[s[i]] + more[s[i]] <= l
               /\ \A j \in 1..more[s[i]] : ext[b + A[s[i]] + j] = DataWord(s[i], j)
    <2>1. i - 1 \in 0..n
      OBVIOUS
    <2>2. PICK a \in Nat : a = A[s[i]]
      BY <1>s
    <2>3. PICK w \in Nat : w = amt[s[i]]
      BY <1>s
    <2>4. /\ a = EndIn(s, amt, A, i - 1) /\ a + w <= l
          /\ \A j \in 1..w : data[b + a + j] = DataWord(s[i], j)
      BY <2>2, <2>3 DEF LaidIn
    <2>5. ASSUME NEW j \in 1..w PROVE ext[b + a + j] = DataWord(s[i], j)
      <3>1. PICK len \in Nat : len = Len(data)
        BY <1>l
      <3>2. b + l <= len /\ a + w <= l
        BY <2>4, <3>1
      <3>3. b + a + j \in 1..len
        BY <3>2
      <3> QED BY <1>l, <2>4, <3>1, <3>3
    <2> QED BY <1>s, <1>1, <2>1, <2>2, <2>3, <2>4, <2>5
  <1> QED BY <1>2, <1>3 DEF LaidIn

LEMMA LaidOneMore ==
    ASSUME NEW n \in Nat, NEW S, S \subseteq Nat, NEW s,
           s[n+1] \in S, \A i \in 1..n : s[i] < s[n+1],
           NEW A \in [S -> Nat], NEW amt, NEW more, SameAmounts(s, S, amt, more, n),
           NEW l \in Nat, NEW b \in Nat, NEW data \in Seq(Int), Len(data) = b + l,
           NEW w \in Nat, more[s[n+1]] = w,
           NEW ext, ext = data \o Data(s[n+1], w),
           LaidIn(s, amt, A, n, l, data, b)
    PROVE  LaidIn(s, more, [A EXCEPT ![s[n+1]] = l], n + 1, l + w, ext, b)
  <1>0. \A i \in 1..n : s[i] \in S /\ amt[s[i]] \in Nat /\ more[s[i]] = amt[s[i]]
    BY DEF SameAmounts
  <1>1. PICK e \in Nat : e = s[n+1]
    OBVIOUS
  <1>2. PICK B \in [S -> Nat] : B = [A EXCEPT ![e] = l]
    OBVIOUS
  <1>3. /\ B[e] = l /\ e \in S
        /\ \A i \in 1..n : s[i] # e /\ B[s[i]] = A[s[i]] /\ s[i] \in S
    <2>2. e \in S
      BY <1>1
    <2>3. ASSUME NEW i \in 1..n PROVE s[i] # e /\ s[i] \in S
      <3>2. s[i] \in S /\ s[i] < e
        BY <1>0, <1>1
      <3>3. s[i] \in Nat
        BY <3>2
      <3> QED BY <3>2, <3>3
    <2> QED BY <1>2, <2>2, <2>3
  <1>4. PICK d \in Seq(Int) : d = Data(e, w) /\ Len(d) = w /\ \A j \in 1..w : d[j] = DataWord(e, j)
    <2>1. Data(e, w) \in Seq(Int) /\ Len(Data(e, w)) = w
      BY DataType
    <2> QED BY <2>1 DEF Data
  <1>5. /\ \A j \in 1..Len(data) : ext[j] = data[j]
        /\ \A j \in 1..w : ext[Len(data) + j] = DataWord(e, j)
    <2>1. ext = data \o d
      BY <1>1, <1>4
    <2>2. /\ \A j \in 1..Len(data) : ext[j] = data[j]
          /\ \A j \in 1..Len(d) : ext[Len(data) + j] = d[j]
      BY <2>1, ConcatBegins
    <2> QED BY <1>4, <2>2
  <1>6. LaidIn(s, more, A, n, l, ext, b)
    <2>1. Len(data) \in Nat /\ b + l <= Len(data)
      OBVIOUS
    <2>2. Longer(data, ext)
      BY <1>5, <2>1 DEF Longer
    <2>3. /\ n \in Nat /\ A \in [S -> Nat] /\ l \in Nat /\ b \in Nat
          /\ SameAmounts(s, S, amt, more, n) /\ LaidIn(s, amt, A, n, l, data, b)
      OBVIOUS
    <2> QED BY ONLY <2>1, <2>2, <2>3, LaidBefore
  <1>7. \A i \in 0..n : EndIn(s, more, B, i) = EndIn(s, more, A, i)
    BY <1>3 DEF EndIn
  <1>8. EndIn(s, more, B, n + 1) = l + w
    <2>1. n + 1 # 0
      OBVIOUS
    <2> QED BY <1>1, <1>3, <2>1 DEF EndIn
  <1>9. ASSUME NEW i \in 1..n
        PROVE  /\ B[s[i]] = EndIn(s, more, B, i - 1)
               /\ B[s[i]] + more[s[i]] <= l + w
               /\ \A j \in 1..more[s[i]] : ext[b + B[s[i]] + j] = DataWord(s[i], j)
    <2>1. i - 1 \in 0..n
      OBVIOUS
    <2>2. B[s[i]] = A[s[i]]
      BY <1>3
    <2>3. /\ A[s[i]] = EndIn(s, more, A, i - 1)
          /\ A[s[i]] + more[s[i]] <= l
          /\ \A j \in 1..more[s[i]] : ext[b + A[s[i]] + j] = DataWord(s[i], j)
      BY <1>6 DEF LaidIn
    <2>4. A[s[i]] \in Nat /\ more[s[i]] \in Nat
      BY <1>0, <1>3
    <2>5. A[s[i]] + more[s[i]] <= l + w
      <3>1. \A x, y \in Nat : x + y <= l => x + y <= l + w
        OBVIOUS
      <3> QED BY <2>3, <2>4, <3>1
    <2> QED BY <1>7, <2>1, <2>2, <2>3, <2>5
  <1>10. /\ B[e] = EndIn(s, more, B, n) /\ B[e] + more[e] <= l + w
         /\ \A j \in 1..more[e] : ext[b + B[e] + j] = DataWord(e, j)
    <2>1. l = EndIn(s, more, A, n)
      BY <1>6 DEF LaidIn
    <2>2. n \in 0..n /\ more[e] = w
      BY <1>1
    <2>3. B[e] = EndIn(s, more, B, n)
      BY <1>3, <1>7, <2>1, <2>2
    <2>4. B[e] + more[e] <= l + w
      BY <1>3, <2>2
    <2>5. \A j \in 1..w : ext[b + B[e] + j] = DataWord(e, j)
      BY <1>3, <1>5
    <2> QED BY <2>2, <2>3, <2>4, <2>5
  <1>11. ASSUME NEW i \in 1..n+1
         PROVE  /\ B[s[i]] = EndIn(s, more, B, i - 1)
                /\ B[s[i]] + more[s[i]] <= l + w
                /\ \A j \in 1..more[s[i]] : ext[b + B[s[i]] + j] = DataWord(s[i], j)
    <2>1. CASE i = n + 1
      <3>1. s[i] = e /\ i - 1 = n
        BY <1>1, <2>1
      <3> QED BY <1>10, <3>1
    <2>2. CASE i # n + 1
      <3>1. i \in 1..n
        BY <2>2
      <3> QED BY <1>9, <3>1
    <2> QED BY <2>1, <2>2
  <1>12. LaidIn(s, more, B, n + 1, l + w, ext, b)
    BY <1>8, <1>11 DEF LaidIn
  <1> QED BY <1>1, <1>2, <1>12

LEMMA LaidMeans ==
    ASSUME NEW k, NEW n \in Nat, NEW A,
           NEW amt, \A i \in 1..n : amt[Kids(k)[i]] = Amount(Kids(k)[i])
    PROVE  Laid(k, A, n) <=> /\ A \in [E -> Nat]
                             /\ LaidIn(Kids(k), amt, A, n, header.ldata[k], tmp, Before(k))
  <1>1. \A i \in 0..n : EndIn(Kids(k), amt, A, i) = EndOfData(k, A, i)
    BY DEF EndIn, EndOfData
  <1>2. \A i \in 1..n : i - 1 \in 0..n
    OBVIOUS
  <1>3. EndIn(Kids(k), amt, A, n) = EndOfData(k, A, n)
    BY <1>1
  <1>4. ASSUME NEW i \in 1..n
        PROVE  /\ EndIn(Kids(k), amt, A, i - 1) = EndOfData(k, A, i - 1)
               /\ amt[Kids(k)[i]] = Amount(Kids(k)[i])
    BY <1>1, <1>2
  <1> QED BY <1>3, <1>4 DEF Laid, LaidIn

LEMMA LaidMeansNext ==
    ASSUME NEW k, NEW n \in Nat, NEW A,
           NEW amt, \A i \in 1..n : amt[Kids(k)'[i]] = Amount(Kids(k)[i])'
    PROVE  Laid(k, A, n)' <=> /\ A \in [E' -> Nat]
                              /\ LaidIn(Kids(k)', amt, A, n, header'.ldata[k], tmp', Before(k)')
  <1>1. \A i \in 0..n : EndIn(Kids(k)', amt, A, i) = EndOfData(k, A, i)'
    BY DEF EndIn, EndOfData
  <1>2. \A i \in 1..n : i - 1 \in 0..n
    OBVIOUS
  <1>3. EndIn(Kids(k)', amt, A, n) = EndOfData(k, A, n)'
    BY <1>1
  <1>4. ASSUME NEW i \in 1..n
        PROVE  /\ EndIn(Kids(k)', amt, A, i - 1) = EndOfData(k, A, i - 1)'
               /\ amt[Kids(k)'[i]] = Amount(Kids(k)[i])'
    BY <1>1, <1>2
  <1> QED BY <1>3, <1>4 DEF Laid, LaidIn

(* Resource e of kind k is packed to len bytes.                            *)
StagesOne(k, e, len) ==
    /\ todo # <<>> /\ e = Head(todo) /\ todo' = Tail(todo)
    /\ UNCHANGED <<pc, rco, size>>
    /\ tmp' = tmp \o Data(e, Words(len))
    /\ header'.ldata = [header.ldata EXCEPT ![k] = header.ldata[k] + Words(len)]
    /\ IF k = SOUND
       THEN src' = src /\ (rco.readable[e] => len = rco.srcLenUnpacked[e])
       ELSE src'.len = [src.len EXCEPT ![e] = len]

LEMMA NoData ==
    ASSUME NEW e, NEW s \in Seq(Int)
    PROVE  s \o Data(e, Words(0)) = s
  <1>1. Words(0) = 0
    BY DEF Words
  <1>2. Data(e, 0) = <<>>
    BY DEF Data
  <1> QED BY <1>1, <1>2

LEMMA StageStep ==
    ASSUME TypeInv, NoneUnknown, NEW k \in {IMG, MODEL}, pc # "hash", StageCompressed(k)
    PROVE  NoneUnknown' /\ \E e \in E, len \in Nat : StagesOne(k, e, len)
  <1>1. PICK e : e = Head(todo)
    OBVIOUS
  <1>2. /\ todo # <<>> /\ e \in E /\ todo' = Tail(todo) /\ UNCHANGED <<pc, rco, size>>
        /\ rco \in Archives /\ src.len \in [E -> Nat] /\ header \in Headers
        /\ tmp \in Seq(Int) /\ k \in Kinds /\ k # SOUND
    <2>1. todo \in Seq(E) /\ rco \in Archives /\ src.len \in [E -> Nat]
          /\ header \in Headers /\ tmp \in Seq(Int)
      BY DEF TypeInv
    <2>2. todo # <<>> /\ todo' = Tail(todo) /\ UNCHANGED <<pc, rco, size>>
      BY DEF StageCompressed
    <2>3. k \in Kinds /\ k # SOUND
      BY KindNames DEF IMG, MODEL, SOUND
    <2> QED BY <1>1, <2>1, <2>2, <2>3, TailType
  <1> DEFINE given == rco.srcLenUnpacked[e] # 0
  <1>3. PICK len \in IF given THEN PackedLensOf(e, Chosen(e)) ELSE {src.len[e]} :
          /\ src' = [len |-> [src.len EXCEPT ![e] = len],
                     compr |-> [src.compr EXCEPT ![e] = Chosen(e)],
                     addr |-> [src.addr EXCEPT ![e] = header.ldata[k]]]
          /\ tmp' = IF given THEN tmp \o Data(e, Words(len)) ELSE tmp
          /\ header' = [header EXCEPT !.ldata[k] = @ + Words(len)]
    BY <1>1 DEF StageCompressed
  <1>4. len \in Nat /\ (~ given => len = 0)
    <2>1. given => len \in PackedLensOf(e, Chosen(e))
      BY <1>3
    <2>2. ~ given => len = src.len[e] /\ src.len[e] = 0
      BY <1>2, <1>3 DEF NoneUnknown
    <2> QED BY <1>2, <2>1, <2>2, PackedLensType
  <1>5. tmp' = tmp \o Data(e, Words(len))
    <2>1. CASE given
      BY <1>3, <2>1
    <2>2. CASE ~ given
      <3>1. tmp' = tmp /\ len = 0
        BY <1>3, <1>4, <2>2
      <3> QED BY <1>2, <3>1, NoData
    <2> QED BY <2>1, <2>2
  <1>6. header'.ldata = [header.ldata EXCEPT ![k] = header.ldata[k] + Words(len)]
    BY <1>2, <1>3 DEF Headers
  <1>7. src'.len = [src.len EXCEPT ![e] = len]
    BY <1>3
  <1>8. NoneUnknown'
    <2>1. E' = E
      BY <1>2 DEF E
    <2>2. ASSUME NEW x \in E, rco.srcLenUnpacked[x] = 0 PROVE src'.len[x] = 0
      <3>1. src.len[x] = 0
        BY <2>2 DEF NoneUnknown
      <3>2. x = e => len = 0
        BY <1>4, <2>2
      <3> QED BY <1>2, <1>7, <3>1, <3>2
    <2> QED BY <1>2, <2>1, <2>2 DEF NoneUnknown
  <1>9. StagesOne(k, e, len)
    BY <1>1, <1>2, <1>5, <1>6, <1>7 DEF StagesOne
  <1> QED BY <1>2, <1>4, <1>8, <1>9

LEMMA SoundStep ==
    ASSUME TypeInv, NoneUnknown, StageSound
    PROVE  NoneUnknown' /\ \E e \in E, len \in Nat : StagesOne(SOUND, e, len)
  <1>1. PICK e : e = Head(todo)
    OBVIOUS
  <1>2. /\ todo # <<>> /\ e \in E /\ todo' = Tail(todo) /\ UNCHANGED <<pc, rco, src, size>>
        /\ rco \in Archives /\ header \in Headers /\ tmp \in Seq(Int) /\ SOUND \in Kinds
    <2>1. todo \in Seq(E) /\ rco \in Archives /\ header \in Headers /\ tmp \in Seq(Int)
      BY DEF TypeInv, StageSound
    <2>2. todo # <<>> /\ todo' = Tail(todo) /\ UNCHANGED <<pc, rco, src, size>>
      BY DEF StageSound
    <2> QED BY <1>1, <2>1, <2>2, TailType, KindNames
  <1>3. NoneUnknown'
    BY <1>2 DEF NoneUnknown, E
  <1>4. CASE rco.srcLenUnpacked[e] # 0
    <2>1. PICK len \in PackedLensOf(e, NONE) :
            /\ tmp' = tmp \o Data(e, Words(len))
            /\ header' = [header EXCEPT !.ldata[SOUND] = @ + Words(len)]
      BY <1>1, <1>4 DEF StageSound
    <2>2. len \in Nat
      BY <1>2, <2>1, PackedLensType
    <2>3. rco.readable[e] => len = rco.srcLenUnpacked[e]
      BY <2>1 DEF PackedLensOf
    <2>4. header'.ldata = [header.ldata EXCEPT ![SOUND] = header.ldata[SOUND] + Words(len)]
      BY <1>2, <2>1 DEF Headers
    <2>5. StagesOne(SOUND, e, len)
      BY <1>1, <1>2, <2>1, <2>3, <2>4 DEF StagesOne
    <2> QED BY <1>2, <1>3, <2>2, <2>5
  <1>5. CASE rco.srcLenUnpacked[e] = 0
    <2>1. tmp' = tmp /\ header' = header
      BY <1>1, <1>5 DEF StageSound
    <2>2. tmp' = tmp \o Data(e, Words(0))
      BY <1>2, <2>1, NoData
    <2>3. header'.ldata = [header.ldata EXCEPT ![SOUND] = header.ldata[SOUND] + Words(0)]
      <3>1. PICK l \in [Kinds -> Nat] : l = header.ldata
        BY <1>2 DEF Headers
      <3>2. Words(0) = 0
        BY DEF Words
      <3>3. l[SOUND] + Words(0) = l[SOUND]
        BY <1>2, <3>2
      <3>4. [l EXCEPT ![SOUND] = l[SOUND]] = l
        BY <1>2
      <3> QED BY <2>1, <3>1, <3>3, <3>4
    <2>4. StagesOne(SOUND, e, 0)
      BY <1>1, <1>2, <1>5, <2>2, <2>3 DEF StagesOne
    <2> QED BY <1>2, <1>3, <2>4
  <1> QED BY <1>4, <1>5

(* A kind that is not being packed: its data stay.                         *)
LEMMA StagedKept ==
    ASSUME TypeInv, NEW k \in Staged, NEW e \in E, NEW len \in Nat, StagesOne(k, e, len),
           NEW x \in Staged, x # k, NEW n \in 0..Len(Kids(x)),
           NEW A \in [E -> Nat], Laid(x, A, n), AllCollected,
           k # SOUND => \E i \in DOMAIN Kids(k) : Kids(k)[i] = e,
           Before(x)' = Before(x), Before(x) + header.ldata[x] <= Len(tmp)
    PROVE  Laid(x, A, n)'
  <1>1. /\ rco \in Archives /\ rco' = rco /\ x \in Kinds /\ k \in Kinds /\ tmp \in Seq(Int)
        /\ header \in Headers /\ E' = E /\ src.len \in [E -> Nat]
    BY StagingNames DEF TypeInv, StagesOne, E
  <1>2. PICK s : s = Kids(x)
    OBVIOUS
  <1>3. Kids(x)' = s /\ n \in Nat /\ n <= Len(s) /\ Len(s) \in Nat
    <2>1. Kids(x)' = Kids(x) /\ Len(s) \in Nat
      BY <1>1, <1>2, KidsOf DEF Kids, Children, Table
    <2> QED BY <1>2, <2>1
  <1>4. PICK amt : amt = [f \in E |-> Amount(f)]
    OBVIOUS
  <1>5. PICK more : more = [f \in E |-> Amount(f)']
    OBVIOUS
  <1>6. ASSUME NEW i \in 1..n
        PROVE  /\ s[i] \in E /\ amt[s[i]] = Amount(s[i]) /\ amt[s[i]] \in Nat
               /\ more[s[i]] = Amount(s[i])' /\ more[s[i]] = amt[s[i]]
    <2>1. PICK f : f = s[i]
      OBVIOUS
    <2>2. i \in DOMAIN s /\ f \in E
      <3>1. DOMAIN s = 1..Len(s) /\ s \in Seq(E)
        BY <1>1, <1>2, KidsOf
      <3>2. i \in 1..Len(s)
        BY <1>3
      <3> QED BY <2>1, <3>1, <3>2
    <2>3. Resource(x, f)
      BY <1>2, <2>1, <2>2 DEF AllCollected, Collected, Staged
    <2>4. Amount(f)' = Amount(f)
      <3>1. CASE x = SOUND
        BY <1>1, <2>3, <3>1 DEF Amount, Resource
      <3>2. CASE x # SOUND
        <4>1. src'.len[f] = src.len[f]
          <5>1. CASE k = SOUND
            BY <5>1 DEF StagesOne
          <5>2. CASE k # SOUND
            <6>1. Resource(k, e)
              BY <5>2 DEF AllCollected, Collected, Staged
            <6>2. e # f
              BY <2>3, <6>1 DEF Resource
            <6>3. src'.len = [src.len EXCEPT ![e] = len]
              BY <5>2 DEF StagesOne
            <6> QED BY <1>1, <2>2, <6>2, <6>3
          <5> QED BY <5>1, <5>2
        <4> QED BY <1>1, <2>3, <3>2, <4>1 DEF Amount, Resource
      <3> QED BY <3>1, <3>2
    <2>5. Amount(f) \in Nat
      <3>1. src.len[f] \in Nat /\ rco.srcLenUnpacked[f] \in Nat
        BY <1>1, <2>2, EntryType
      <3> QED BY <3>1, WordsType DEF Amount
    <2>6. amt[f] = Amount(f) /\ more[f] = Amount(f)'
      BY <1>4, <1>5, <2>2
    <2> QED BY <2>1, <2>2, <2>4, <2>5, <2>6
  <1>7. SameAmounts(s, E, amt, more, n)
    BY <1>6 DEF SameAmounts
  <1>b. PICK ext : ext = tmp'
    OBVIOUS
  <1>8. PICK l \in Nat, b \in Nat, data \in Seq(Int) :
           l = header.ldata[x] /\ b = Before(x) /\ data = tmp
    <2>1. header.ldata \in [Kinds -> Nat]
      BY <1>1 DEF Headers
    <2>2. header.ldata[IMG] \in Nat /\ header.ldata[SOUND] \in Nat
      BY <2>1, KindNames
    <2>3. Before(x) \in Nat
      BY <2>2 DEF Before, Staged, IMG, SOUND, MODEL
    <2> QED BY <1>1, <2>1, <2>3
  <1>9. LaidIn(s, amt, A, n, l, data, b)
    <2>1. \A i \in 1..n : amt[Kids(x)[i]] = Amount(Kids(x)[i])
      BY <1>2, <1>6
    <2>2. LaidIn(Kids(x), amt, A, n, header.ldata[x], tmp, Before(x))
      BY <1>3, <2>1, LaidMeans
    <2> QED BY <1>2, <1>8, <2>2
  <1>10. Longer(data, ext) /\ b + l <= Len(data)
    <2>1. PICK d \in Seq(Int) : d = Data(e, Words(len))
      <3>1. e \in Nat /\ Words(len) \in Nat
        BY <1>1, WordsType, EntryType
      <3> QED BY <3>1, DataType
    <2>2. ext = data \o d
      BY <1>8, <1>b, <2>1 DEF StagesOne
    <2>3. Len(data) \in Nat
      OBVIOUS
    <2>4. b + l <= Len(data)
      BY <1>8
    <2> QED BY <2>2, <2>3, <2>4, ConcatBegins DEF Longer
  <1>a. A \in [E -> Nat]
    OBVIOUS
  <1>11. LaidIn(s, more, A, n, l, ext, b)
    BY ONLY <1>3, <1>7, <1>8, <1>9, <1>10, <1>a, LaidBefore
  <1>12. header'.ldata[x] = l /\ Before(x)' = b /\ tmp' = ext
    <2>1. header.ldata \in [Kinds -> Nat]
      BY <1>1 DEF Headers
    <2>2. header'.ldata = [header.ldata EXCEPT ![k] = header.ldata[k] + Words(len)]
      BY DEF StagesOne
    <2> QED BY <1>1, <1>8, <1>b, <2>1, <2>2
  <1>13. ASSUME NEW i \in 1..n PROVE more[Kids(x)'[i]] = Amount(Kids(x)[i])'
    BY <1>3, <1>6
  <1>14. LaidIn(Kids(x)', more, A, n, header'.ldata[x], tmp', Before(x)')
    BY <1>3, <1>11, <1>12
  <1> QED BY <1>1, <1>3, <1>13, <1>14, LaidMeansNext

LEMMA BeforeType ==
    ASSUME TypeInv, NEW k \in Staged
    PROVE  Before(k) \in Nat /\ header.ldata[k] \in Nat
  <1>1. header.ldata \in [Kinds -> Nat] /\ k \in Kinds
    BY StagingNames DEF TypeInv, Headers
  <1>2. header.ldata[IMG] \in Nat /\ header.ldata[SOUND] \in Nat
    BY <1>1, KindNames
  <1>3. Before(k) \in Nat
    BY <1>2 DEF Before, Staged, IMG, SOUND, MODEL
  <1> QED BY <1>1, <1>3

(* The kind that is being packed: the data of e lie behind the others.     *)
LEMMA StagedMore ==
    ASSUME TypeInv, NEW k \in Staged, NEW e \in E, NEW len \in Nat, StagesOne(k, e, len),
           Known(k), NEW n \in Nat, n < Len(Kids(k)), Kids(k)[n+1] = e,
           NEW A \in [E -> Nat], Laid(k, A, n),
           Before(k)' = Before(k), Len(tmp) = Before(k) + header.ldata[k]
    PROVE  \E B \in [E -> Nat] : Laid(k, B, n + 1)'
  <1>1. /\ rco \in Archives /\ rco' = rco /\ k \in Kinds /\ tmp \in Seq(Int)
        /\ header \in Headers /\ E' = E /\ src.len \in [E -> Nat]
    BY StagingNames DEF TypeInv, StagesOne, E
  <1>2. PICK s : s = Kids(k)
    OBVIOUS
  <1>3. /\ Kids(k)' = s /\ Len(s) \in Nat /\ n < Len(s) /\ s[n+1] = e
        /\ DOMAIN s = 1..Len(s) /\ E = 1..N /\ N \in Nat
        /\ \A i \in 1..Len(s) : s[i] \in E
        /\ \A i, j \in 1..Len(s) : i < j => s[i] < s[j]
    <2>1. Kids(k)' = Kids(k)
      BY <1>1 DEF Kids, Children, Table
    <2>2. E = 1..N /\ N \in Nat
      BY <1>1, ParentType
    <2> QED BY <1>1, <1>2, <2>1, <2>2, KidsOf
  <1>4. PICK amt : amt = [f \in E |-> Amount(f)]
    OBVIOUS
  <1>5. PICK more : more = [f \in E |-> Amount(f)']
    OBVIOUS
  <1>6. Resource(k, e)
    <2>1. n + 1 \in DOMAIN s
      BY <1>3
    <2> QED BY <1>2, <1>3, <2>1 DEF Known, AllCollected, Collected, Staged
  <1>7. PICK w \in Nat : w = Words(len)
    BY WordsType
  <1>8. more[e] = w
    <2>1. more[e] = Amount(e)'
      BY <1>5
    <2>2. CASE k = SOUND
      <3>1. rco.readable[e] /\ rco.id[e] = SOUND
        BY <1>6, <2>2 DEF Known, SoundsRead, Resource
      <3>2. len = rco.srcLenUnpacked[e]
        BY <2>2, <3>1 DEF StagesOne
      <3> QED BY <1>1, <1>7, <2>1, <3>1, <3>2 DEF Amount
    <2>3. CASE k # SOUND
      <3>1. src'.len[e] = len
        BY <1>1, <2>3 DEF StagesOne
      <3>2. rco.id[e] # SOUND
        BY <1>6, <2>3 DEF Resource
      <3> QED BY <1>1, <1>7, <2>1, <3>1, <3>2 DEF Amount
    <2> QED BY <2>2, <2>3
  <1>9. ASSUME NEW i \in 1..n
        PROVE  /\ s[i] \in E /\ amt[s[i]] = Amount(s[i]) /\ amt[s[i]] \in Nat
               /\ more[s[i]] = Amount(s[i])' /\ more[s[i]] = amt[s[i]] /\ s[i] < e
    <2>1. PICK f : f = s[i]
      OBVIOUS
    <2>2. i \in 1..Len(s) /\ n + 1 \in 1..Len(s) /\ i < n + 1
      <3>1. PICK z \in Nat : z = Len(s)
        <4>1. Len(s) \in Nat
          BY <1>3
        <4> QED BY ONLY <4>1
      <3>2. n < z
        BY <1>3, <3>1
      <3>3. i \in 1..z /\ n + 1 \in 1..z /\ i < n + 1
        BY <3>2
      <3> QED BY <3>1, <3>3
    <2>3. f \in E /\ f < e /\ f # e
      <3>1. f \in E /\ f < e
        BY <1>3, <2>1, <2>2
      <3>2. f \in Nat /\ e \in Nat
        BY <1>3, <3>1
      <3> QED BY <3>1, <3>2
    <2>4. Amount(f)' = Amount(f)
      <3>1. src'.len[f] = src.len[f]
        BY <1>1, <2>3 DEF StagesOne
      <3> QED BY <1>1, <3>1 DEF Amount
    <2>5. Amount(f) \in Nat
      <3>1. src.len[f] \in Nat /\ rco.srcLenUnpacked[f] \in Nat
        BY <1>1, <2>3, EntryType
      <3> QED BY <3>1, WordsType DEF Amount
    <2>6. amt[f] = Amount(f) /\ more[f] = Amount(f)'
      BY <1>4, <1>5, <2>3
    <2> QED BY <2>1, <2>3, <2>4, <2>5, <2>6
  <1>10. SameAmounts(s, E, amt, more, n)
    BY <1>9 DEF SameAmounts
  <1>11. PICK l \in Nat, b \in Nat, data \in Seq(Int) :
           l = header.ldata[k] /\ b = Before(k) /\ data = tmp
    BY <1>1, BeforeType
  <1>12. PICK ext : ext = tmp'
    OBVIOUS
  <1>13. LaidIn(s, amt, A, n, l, data, b)
    <2>1. \A i \in 1..n : amt[Kids(k)[i]] = Amount(Kids(k)[i])
      BY <1>2, <1>9
    <2>2. LaidIn(Kids(k), amt, A, n, header.ldata[k], tmp, Before(k))
      BY <2>1, LaidMeans
    <2> QED BY <1>2, <1>11, <2>2
  <1>14. PICK B \in [E -> Nat] : B = [A EXCEPT ![s[n+1]] = l]
    OBVIOUS
  <1>15. LaidIn(s, more, B, n + 1, l + w, ext, b)
    <2>1. E \subseteq Nat /\ s[n+1] \in E /\ more[s[n+1]] = w
      BY <1>3, <1>8
    <2>2. \A i \in 1..n : s[i] < s[n+1]
      BY <1>3, <1>9
    <2>3. A \in [E -> Nat] /\ n \in Nat /\ w \in Nat /\ l \in Nat /\ b \in Nat
          /\ data \in Seq(Int)
      OBVIOUS
    <2>4. Len(data) = b + l
      BY <1>11
    <2>5. ext = data \o Data(s[n+1], w)
      BY <1>3, <1>7, <1>11, <1>12 DEF StagesOne
    <2>6. LaidIn(s, more, [A EXCEPT ![s[n+1]] = l], n + 1, l + w, ext, b)
      BY ONLY <1>10, <1>13, <2>1, <2>2, <2>3, <2>4, <2>5, LaidOneMore
    <2> QED BY <1>14, <2>6
  <1>16. header'.ldata[k] = l + w /\ Before(k)' = b /\ tmp' = ext
    <2>1. header.ldata \in [Kinds -> Nat]
      BY <1>1 DEF Headers
    <2>2. header'.ldata = [header.ldata EXCEPT ![k] = header.ldata[k] + Words(len)]
      BY DEF StagesOne
    <2> QED BY <1>1, <1>7, <1>11, <1>12, <2>1, <2>2
  <1>17. ASSUME NEW i \in 1..n+1 PROVE more[Kids(k)'[i]] = Amount(Kids(k)[i])'
    <2>1. CASE i \in 1..n
      BY <1>3, <1>9, <2>1
    <2>2. CASE i = n + 1
      <3>1. Kids(k)'[i] = e
        BY <1>3, <2>2
      <3>2. more[e] = Amount(e)'
        BY <1>5
      <3>3. Amount(Kids(k)[i])' = Amount(e)'
        BY <3>1 DEF Amount
      <3> QED BY <3>1, <3>2, <3>3
    <2> QED BY <2>1, <2>2
  <1>18. LaidIn(Kids(k)', more, B, n + 1, header'.ldata[k], tmp', Before(k)')
    BY <1>3, <1>15, <1>16
  <1>19. n + 1 \in Nat
    OBVIOUS
  <1>20. Laid(k, B, n + 1)'
    BY <1>1, <1>17, <1>18, <1>19, LaidMeansNext
  <1> QED BY <1>20

LEMMA KnownKept ==
    ASSUME rco' = rco
    PROVE  \A k : Kids(k)' = Kids(k) /\ (Known(k)' <=> Known(k))
  <1>1. E' = E /\ \A k : Kids(k)' = Kids(k)
    BY DEF E, Kids, Children, Table
  <1>2. \A k, e : Resource(k, e)' <=> Resource(k, e)
    BY DEF Resource
  <1>3. \A k : Known(k)' <=> Known(k)
    BY <1>1, <1>2 DEF Known, AllCollected, Collected, SoundsRead
  <1> QED BY <1>1, <1>3

(* An iteration takes the loop to the next resource.                       *)
LEMMA LeftOne ==
    ASSUME TypeInv, pc # "hash", NEW k \in Staged \cup {TEXT},
           todo # <<>>, todo' = Tail(todo), rco' = rco,
           NEW n \in 0..Len(Kids(k)), Left(k, n)
    PROVE  /\ n < Len(Kids(k)) /\ Kids(k)[n+1] = Head(todo)
           /\ Left(k, n + 1)'
  <1>1. PICK z \in Nat : z = Len(Kids(k))
    <2>1. Len(Kids(k)) \in Nat
      BY KidsOf, StagingNames DEF TypeInv
    <2> QED BY ONLY <2>1
  <1>2. todo \in Seq(E)
    <2>1. TypeInv /\ pc # "hash"
      OBVIOUS
    <2> QED BY ONLY <2>1 DEF TypeInv
  <1>3. /\ Len(todo) \in Nat \ {0} /\ Len(todo') = Len(todo) - 1
        /\ \A j \in 1..Len(todo)-1 : todo'[j] = todo[j+1]
    BY <1>2, Popped
  <1>4. PICK t \in Nat \ {0} : t = Len(todo)
    <2>1. Len(todo) \in Nat \ {0}
      BY <1>3
    <2> QED BY ONLY <2>1
  <1>5. n \in Nat /\ t = z - n /\ \A j \in 1..t : todo[j] = Kids(k)[n + j]
    BY <1>1, <1>4 DEF Left
  <1>6. n < z /\ Kids(k)[n+1] = todo[1]
    <2>1. 1 \in 1..t
      OBVIOUS
    <2> QED BY <1>1, <1>5, <2>1
  <1>7. todo[1] = Head(todo)
    BY <1>2
  <1>8. Kids(k)' = Kids(k)
    BY KnownKept
  <1>9. Len(todo') = z - (n + 1)
    BY <1>3, <1>4, <1>5
  <1>10. ASSUME NEW j \in 1..t-1 PROVE todo'[j] = Kids(k)[(n + 1) + j]
    <2>1. j + 1 \in 1..t /\ n + (j + 1) = (n + 1) + j
      BY <1>5
    <2>2. todo'[j] = todo[j+1] /\ todo[j+1] = Kids(k)[n + (j + 1)]
      BY <1>3, <1>4, <1>5, <2>1
    <2> QED BY <2>1, <2>2
  <1>11. Left(k, n + 1)'
    <2>1. Len(todo') = t - 1
      BY <1>3, <1>4
    <2> QED BY <1>1, <1>8, <1>9, <1>10, <2>1 DEF Left
  <1> QED BY <1>1, <1>6, <1>7, <1>11

LEMMA NothingLaid ==
    ASSUME NEW k, NEW A \in [E -> Nat], header.ldata[k] = 0
    PROVE  Laid(k, A, 0)
  BY DEF Laid, EndOfData

LEMMA NothingLaidNext ==
    ASSUME NEW k, NEW A \in [E' -> Nat], header'.ldata[k] = 0
    PROVE  Laid(k, A, 0)'
  BY DEF Laid, EndOfData

(* The kinds lie in the temporary file in the order of the phases.         *)
LEMMA StageOrder ==
    ASSUME TypeInv, NEW k \in Staged, pc \in DOMAIN Staging, Staging[pc] = k,
           TmpWhole, \A x \in ToCome : header.ldata[x] = 0
    PROVE  /\ k \notin ToCome
           /\ Len(tmp) = Before(k) + header.ldata[k]
           /\ \A x \in Staged \ {k} : x \notin ToCome =>
                 Before(x) + header.ldata[x] <= Len(tmp)
  <1>1. PICK a \in Nat, b \in Nat, c \in Nat :
           a = header.ldata[IMG] /\ b = header.ldata[SOUND] /\ c = header.ldata[MODEL]
    <2>1. header.ldata \in [Kinds -> Nat]
      BY DEF TypeInv, Headers
    <2> QED BY <2>1, KindNames
  <1>2. Len(tmp) = a + b + c
    BY <1>1 DEF TmpWhole
  <1>3. Before(IMG) = 0 /\ Before(SOUND) = a /\ Before(MODEL) = a + b
    BY <1>1 DEF Before, IMG, SOUND, MODEL
  <1>4. IMG # SOUND /\ IMG # MODEL /\ SOUND # MODEL
    BY DEF IMG, SOUND, MODEL
  <1>5. CASE pc = "image"
    <2>1. k = IMG /\ ToCome = {SOUND, MODEL}
      BY <1>5, StagingNames DEF ToCome
    <2>2. b = 0 /\ c = 0
      BY <1>1, <2>1
    <2> QED BY <1>1, <1>2, <1>3, <1>4, <2>1, <2>2 DEF Staged
  <1>6. CASE pc = "sound"
    <2>1. k = SOUND /\ ToCome = {MODEL}
      BY <1>6, StagingNames DEF ToCome
    <2>2. c = 0
      BY <1>1, <2>1
    <2> QED BY <1>1, <1>2, <1>3, <1>4, <2>1, <2>2 DEF Staged
  <1>7. CASE pc = "model"
    <2>1. k = MODEL /\ ToCome = {}
      BY <1>7, StagingNames DEF ToCome
    <2>2. Len(tmp) = (a + b) + c /\ 0 + a <= a + b + c /\ a + b <= a + b + c
      BY <1>2
    <2>3. Before(MODEL) + header.ldata[MODEL] = (a + b) + c
      BY <1>1, <1>3
    <2>4. Before(IMG) + header.ldata[IMG] <= Len(tmp)
      BY <1>1, <1>2, <1>3, <2>2
    <2>5. Before(SOUND) + header.ldata[SOUND] <= Len(tmp)
      BY <1>1, <1>2, <1>3, <2>2
    <2> QED BY <2>1, <2>2, <2>3, <2>4, <2>5 DEF Staged
  <1> QED BY <1>5, <1>6, <1>7, StagingNames

(* What is in front of the kinds that are packed does not move.            *)
LEMMA BeforeKept ==
    ASSUME TypeInv, NEW k \in Staged, pc \in DOMAIN Staging, Staging[pc] = k,
           \A x \in Staged \ {k} : header'.ldata[x] = header.ldata[x]
    PROVE  \A x \in Staged : x \notin ToCome => Before(x)' = Before(x)
  <1>1. Before(IMG)' = Before(IMG)
    BY DEF Before, IMG, SOUND, MODEL
  <1>2. SOUND \notin ToCome => Before(SOUND)' = Before(SOUND)
    <2> SUFFICES ASSUME SOUND \notin ToCome PROVE Before(SOUND)' = Before(SOUND)
      OBVIOUS
    <2>1. pc # "image"
      BY DEF ToCome
    <2>2. k # IMG
      BY <2>1, StagingNames DEF IMG, SOUND, MODEL
    <2>3. header'.ldata[IMG] = header.ldata[IMG]
      BY <2>2 DEF Staged
    <2> QED BY <2>3 DEF Before, IMG, SOUND, MODEL
  <1>3. MODEL \notin ToCome => Before(MODEL)' = Before(MODEL)
    <2> SUFFICES ASSUME MODEL \notin ToCome PROVE Before(MODEL)' = Before(MODEL)
      OBVIOUS
    <2>1. pc # "image" /\ pc # "sound"
      BY DEF ToCome
    <2>2. k # IMG /\ k # SOUND
      BY <2>1, StagingNames DEF IMG, SOUND, MODEL
    <2>3. header'.ldata[IMG] = header.ldata[IMG] /\ header'.ldata[SOUND] = header.ldata[SOUND]
      BY <2>2 DEF Staged
    <2> QED BY <2>3 DEF Before, IMG, SOUND, MODEL
  <1> QED BY <1>1, <1>2, <1>3 DEF Staged

LEMMA StageData ==
    ASSUME TypeInv, NEW k \in Staged, pc \in DOMAIN Staging, Staging[pc] = k,
           EarlyData, TmpWhole, NEW e \in E, NEW len \in Nat, StagesOne(k, e, len),
           NoneUnknown'
    PROVE  EarlyData' /\ TmpWhole'
  <1>1. /\ rco \in Archives /\ UNCHANGED <<pc, rco, size>> /\ E' = E /\ k \in Kinds
        /\ todo # <<>> /\ todo' = Tail(todo) /\ e = Head(todo)
    BY StagingNames DEF TypeInv, StagesOne, E
  <1>h. pc # "hash"
    BY StagingNames
  <1>2. PICK w \in Nat : w = Words(len)
    BY WordsType
  <1>3. /\ header'.ldata[k] = header.ldata[k] + w
        /\ \A x \in Staged \ {k} : header'.ldata[x] = header.ldata[x]
        /\ \A x \in Staged : header.ldata[x] \in Nat
    <2>1. header.ldata \in [Kinds -> Nat]
      BY DEF TypeInv, Headers
    <2>2. header'.ldata = [header.ldata EXCEPT ![k] = header.ldata[k] + w]
      BY <1>2 DEF StagesOne
    <2> QED BY <1>1, <2>1, <2>2, StagingNames
  <1>4. /\ ToCome' = ToCome
        /\ \A x \in ToCome : header.ldata[x] = 0
        /\ ToCome \subseteq Staged
    <2>1. ToCome \subseteq Staged
      BY DEF ToCome, Staged
    <2>2. ToCome' = ToCome
      BY <1>1 DEF ToCome, Staged
    <2> QED BY <2>1, <2>2 DEF EarlyData
  <1>5. /\ k \notin ToCome
        /\ Len(tmp) = Before(k) + header.ldata[k]
        /\ \A x \in Staged \ {k} : x \notin ToCome =>
              Before(x) + header.ldata[x] <= Len(tmp)
    BY <1>4, StageOrder
  <1>6. \A x \in Staged : x \notin ToCome => Before(x)' = Before(x)
    BY <1>3, BeforeKept
  <1>7. \A x \in ToCome : header'.ldata[x] = 0
    BY <1>3, <1>4, <1>5
  <1>8. TmpWhole'
    <2>1. PICK d \in Seq(Int) : d = Data(e, w) /\ Len(d) = w
      <3>1. e \in Nat
        BY <1>1, EntryType, ParentType
      <3> QED BY <3>1, DataType
    <2>2. tmp \in Seq(Int) /\ tmp' = tmp \o d
      BY <1>2, <2>1 DEF StagesOne, TypeInv
    <2>3. Len(tmp') = Len(tmp) + w
      BY <2>1, <2>2, ConcatBegins
    <2>4. k = IMG \/ k = SOUND \/ k = MODEL
      BY DEF Staged
    <2>5. IMG # SOUND /\ IMG # MODEL /\ SOUND # MODEL
      BY DEF IMG, SOUND, MODEL
    <2>6. PICK a \in Nat, b \in Nat, c \in Nat :
             a = header.ldata[IMG] /\ b = header.ldata[SOUND] /\ c = header.ldata[MODEL]
      BY <1>3 DEF Staged
    <2>7. Len(tmp') = a + b + c + w
      BY <2>3, <2>6 DEF TmpWhole
    <2>8. CASE k = IMG
      <3>1. /\ header'.ldata[IMG] = a + w
            /\ header'.ldata[SOUND] = b /\ header'.ldata[MODEL] = c
        BY <1>3, <2>5, <2>6, <2>8 DEF Staged
      <3>2. a + b + c + w = (a + w) + b + c
        OBVIOUS
      <3> QED BY <2>7, <3>1, <3>2 DEF TmpWhole
    <2>9. CASE k = SOUND
      <3>1. /\ header'.ldata[IMG] = a
            /\ header'.ldata[SOUND] = b + w /\ header'.ldata[MODEL] = c
        BY <1>3, <2>5, <2>6, <2>9 DEF Staged
      <3>2. a + b + c + w = a + (b + w) + c
        OBVIOUS
      <3> QED BY <2>7, <3>1, <3>2 DEF TmpWhole
    <2>10. CASE k = MODEL
      <3>1. /\ header'.ldata[IMG] = a
            /\ header'.ldata[SOUND] = b /\ header'.ldata[MODEL] = c + w
        BY <1>3, <2>5, <2>6, <2>10 DEF Staged
      <3>2. a + b + c + w = a + b + (c + w)
        OBVIOUS
      <3> QED BY <2>7, <3>1, <3>2 DEF TmpWhole
    <2> QED BY <2>4, <2>8, <2>9, <2>10
  <1>9. ASSUME NEW x \in Staged, Known(x)' PROVE StagedUpTo(x)'
    <2>1. Known(x) /\ Kids(x)' = Kids(x)
      BY <1>1, <1>9, KnownKept
    <2>2. PICK n \in 0..Len(Kids(x)), A \in [E -> Nat] : Progress(x, n) /\ Laid(x, A, n)
      BY <2>1 DEF EarlyData, StagedUpTo
    <2>3. CASE x = k
      <3>1. Left(k, n)
        BY <2>2, <2>3 DEF Progress
      <3>2. n < Len(Kids(k)) /\ Kids(k)[n+1] = e /\ Left(k, n + 1)'
        BY <1>1, <1>h, <2>2, <2>3, <3>1, LeftOne
      <3>3. n \in Nat /\ n + 1 \in 0..Len(Kids(k))
        <4>1. Len(Kids(k)) \in Nat
          BY <1>1, KidsOf
        <4> QED BY <2>3, <3>2, <4>1
      <3>4. Laid(k, A, n) /\ Known(k)
        BY <2>1, <2>2, <2>3
      <3>5. Before(k)' = Before(k)
        BY <1>5, <1>6
      <3>6. \E B \in [E -> Nat] : Laid(k, B, n + 1)'
        BY <1>5, <3>2, <3>3, <3>4, <3>5, StagedMore
      <3>7. PICK B \in [E -> Nat] : Laid(k, B, n + 1)'
        BY <3>6
      <3>8. Progress(k, n + 1)'
        BY <1>1, <3>2 DEF Progress
      <3> QED BY <1>1, <2>1, <2>3, <3>3, <3>7, <3>8 DEF StagedUpTo
    <2>4. CASE x # k
      <3>1. Progress(x, n)'
        BY <1>1, <1>4, <2>1, <2>2, <2>4 DEF Progress
      <3>2. CASE x \in ToCome
        <4>1. n = 0
          BY <2>2, <2>4, <3>2 DEF Progress
        <4>2. Laid(x, A, 0)'
          BY <1>1, <1>7, <3>2, NothingLaidNext
        <4> QED BY <1>1, <2>1, <3>1, <4>1, <4>2 DEF StagedUpTo
      <3>3. CASE x \notin ToCome
        <4>1. k # SOUND => \E i \in DOMAIN Kids(k) : Kids(k)[i] = e
          <5> SUFFICES ASSUME k # SOUND PROVE \E i \in DOMAIN Kids(k) : Kids(k)[i] = e
            OBVIOUS
          <5>1. Known(k)
            BY <2>1 DEF Known
          <5>2. PICK q \in 0..Len(Kids(k)) : Progress(k, q)
            BY <5>1 DEF EarlyData, StagedUpTo
          <5>3. Left(k, q)
            BY <5>2 DEF Progress
          <5>4. q < Len(Kids(k)) /\ Kids(k)[q+1] = e
            BY <1>1, <1>h, <5>2, <5>3, LeftOne
          <5>5. q + 1 \in DOMAIN Kids(k)
            <6>1. Len(Kids(k)) \in Nat /\ DOMAIN Kids(k) = 1..Len(Kids(k))
              BY <1>1, KidsOf
            <6> QED BY <5>4, <6>1
          <5> QED BY <5>4, <5>5
        <4>2. Before(x)' = Before(x) /\ Before(x) + header.ldata[x] <= Len(tmp)
          BY <1>5, <1>6, <2>4, <3>3
        <4>3. AllCollected
          BY <2>1 DEF Known
        <4>4. Laid(x, A, n)'
          BY <2>2, <2>4, <4>1, <4>2, <4>3, StagedKept
        <4> QED BY <1>1, <2>1, <2>2, <3>1, <4>4 DEF StagedUpTo
      <3> QED BY <3>2, <3>3
    <2> QED BY <2>3, <2>4
  <1>10. \A x \in Staged : size'[x] = 0
    BY <1>1 DEF EarlyData
  <1>11. Staged' = Staged
    BY DEF Staged
  <1>12. EarlyData'
    BY <1>4, <1>7, <1>9, <1>10, <1>11 DEF EarlyData
  <1> QED BY <1>8, <1>12

(* The steps between the iterations.                                       *)
SameData == UNCHANGED <<rco, src, tmp, size, header>>

LEMMA BetweenData ==
    ASSUME EarlyData, TmpWhole, SameData, ToCome' \subseteq ToCome,
           \A k \in Staged : \A n \in 0..Len(Kids(k)) : Progress(k, n) => Progress(k, n)'
    PROVE  EarlyData' /\ TmpWhole'
  <1>1. UNCHANGED <<rco, src, tmp, size, header>> /\ E' = E
    BY DEF SameData, E
  <1>2. NoneUnknown'
    BY <1>1 DEF EarlyData, NoneUnknown
  <1>3. ASSUME NEW k \in Staged, Known(k)' PROVE StagedUpTo(k)'
    <2>1. Known(k) /\ Kids(k)' = Kids(k)
      BY <1>1, <1>3, KnownKept
    <2>2. PICK n \in 0..Len(Kids(k)), A \in [E -> Nat] : Progress(k, n) /\ Laid(k, A, n)
      BY <2>1 DEF EarlyData, StagedUpTo
    <2>3. SameStaged
      BY <1>1 DEF SameStaged
    <2>4. Laid(k, A, n)'
      BY <1>1, <2>2, <2>3, LaidKept
    <2>5. Progress(k, n)'
      BY <2>2
    <2> QED BY <1>1, <2>1, <2>4, <2>5 DEF StagedUpTo
  <1>4. Staged' = Staged
    BY DEF Staged
  <1>5. \A k \in Staged : size'[k] = 0
    BY <1>1 DEF EarlyData
  <1>6. \A k \in ToCome' : header'.ldata[k] = 0
    BY <1>1 DEF EarlyData
  <1>7. EarlyData'
    BY <1>2, <1>3, <1>4, <1>5, <1>6 DEF EarlyData
  <1> QED BY <1>1, <1>7 DEF TmpWhole

(* A loop begins with its first resource, and ends behind the last.        *)
LEMMA LeftStart ==
    ASSUME rco \in Archives, rco' = rco, NEW k \in Staged \cup {TEXT}, todo' = Kids(k)
    PROVE  Left(k, 0)'
  <1>1. Kids(k)' = Kids(k) /\ Len(Kids(k)) \in Nat
    BY KnownKept, KidsOf, StagingNames
  <1>2. PICK s : s = Kids(k)
    OBVIOUS
  <1>3. Len(todo') = Len(s) - 0 /\ \A j \in 1..Len(s) : todo'[j] = s[0 + j]
    BY <1>1, <1>2
  <1> QED BY <1>1, <1>2, <1>3 DEF Left

LEMMA LeftEnd ==
    ASSUME rco \in Archives, NEW k \in Staged \cup {TEXT}, todo = <<>>,
           NEW n \in 0..Len(Kids(k)), Left(k, n)
    PROVE  n = Len(Kids(k))
  <1>1. Len(Kids(k)) \in Nat
    BY KidsOf, StagingNames
  <1>2. Len(todo) = 0
    OBVIOUS
  <1>3. Len(todo) = Len(Kids(k)) - n
    BY DEF Left
  <1> QED BY <1>1, <1>2, <1>3

LEMMA BetweenSteps ==
    ASSUME TypeInv, EarlyData, TmpWhole,
           \/ Open \/ Fallthrough("image", "sound") \/ Fallthrough("sound", "model")
           \/ Fallthrough("model", "placeholder")
    PROVE  EarlyData' /\ TmpWhole'
  <1>1. rco \in Archives /\ SameData /\ rco' = rco
    BY DEF TypeInv, SameData, Open, Fallthrough
  <1>2. \A k : Kids(k)' = Kids(k)
    BY <1>1, KnownKept
  <1>3. IMG # SOUND /\ IMG # MODEL /\ SOUND # MODEL
    BY DEF IMG, SOUND, MODEL
  <1>4. CASE Open
    <2>1. pc = "open" /\ pc' = "image" /\ todo' = Kids(IMG)
      BY <1>4 DEF Open, Goto, Work, Kids
    <2>2. ToCome = Staged /\ ToCome' = {SOUND, MODEL}
      BY <2>1 DEF ToCome, Staged
    <2>3. Left(IMG, 0)'
      BY <1>1, <2>1, LeftStart DEF Staged
    <2>4. ASSUME NEW k \in Staged, NEW n \in 0..Len(Kids(k)), Progress(k, n)
          PROVE  Progress(k, n)'
      <3>1. n = 0
        BY <2>1, <2>2, <2>4, StagingNames DEF Progress
      <3>2. CASE k = IMG
        BY <2>1, <2>3, <3>1, <3>2, StagingNames DEF Progress
      <3>3. CASE k # IMG
        <4>1. k \in {SOUND, MODEL}
          BY <3>3 DEF Staged
        <4> QED BY <2>1, <2>2, <3>1, <3>3, <4>1, StagingNames DEF Progress
      <3> QED BY <3>2, <3>3
    <2>5. ToCome' \subseteq ToCome
      BY <2>2 DEF Staged
    <2> QED BY <1>1, <2>4, <2>5, BetweenData
  <1>5. CASE Fallthrough("image", "sound")
    <2>1. pc = "image" /\ pc' = "sound" /\ todo = <<>> /\ todo' = Kids(SOUND)
      BY <1>5 DEF Fallthrough, Goto, Work, Kids
    <2>2. ToCome = {SOUND, MODEL} /\ ToCome' = {MODEL}
      BY <2>1 DEF ToCome
    <2>3. Left(SOUND, 0)'
      BY <1>1, <2>1, LeftStart DEF Staged
    <2>4. ASSUME NEW k \in Staged, NEW n \in 0..Len(Kids(k)), Progress(k, n)
          PROVE  Progress(k, n)'
      <3>1. CASE k = IMG
        <4>1. Left(IMG, n)
          BY <2>1, <2>4, <3>1, StagingNames DEF Progress
        <4>2. n = Len(Kids(IMG))
          BY <1>1, <2>1, <3>1, <4>1, LeftEnd
        <4> QED BY <1>2, <1>3, <2>1, <2>2, <3>1, <4>2, StagingNames DEF Progress
      <3>2. CASE k = SOUND
        <4>1. n = 0
          BY <1>3, <2>1, <2>2, <2>4, <3>2, StagingNames DEF Progress
        <4> QED BY <2>1, <2>3, <3>2, <4>1, StagingNames DEF Progress
      <3>3. CASE k = MODEL
        <4>1. n = 0
          BY <1>3, <2>1, <2>2, <2>4, <3>3, StagingNames DEF Progress
        <4> QED BY <1>3, <2>1, <2>2, <3>3, <4>1, StagingNames DEF Progress
      <3> QED BY <3>1, <3>2, <3>3 DEF Staged
    <2>5. ToCome' \subseteq ToCome
      BY <2>2
    <2> QED BY <1>1, <2>4, <2>5, BetweenData
  <1>6. CASE Fallthrough("sound", "model")
    <2>1. pc = "sound" /\ pc' = "model" /\ todo = <<>> /\ todo' = Kids(MODEL)
      BY <1>6 DEF Fallthrough, Goto, Work, Kids
    <2>2. ToCome = {MODEL} /\ ToCome' = {}
      BY <2>1 DEF ToCome
    <2>3. Left(MODEL, 0)'
      BY <1>1, <2>1, LeftStart DEF Staged
    <2>4. ASSUME NEW k \in Staged, NEW n \in 0..Len(Kids(k)), Progress(k, n)
          PROVE  Progress(k, n)'
      <3>1. CASE k = IMG
        <4>1. n = Len(Kids(IMG))
          BY <1>3, <2>1, <2>2, <2>4, <3>1, StagingNames DEF Progress
        <4> QED BY <1>2, <1>3, <2>1, <2>2, <3>1, <4>1, StagingNames DEF Progress
      <3>2. CASE k = SOUND
        <4>1. Left(SOUND, n)
          BY <2>1, <2>4, <3>2, StagingNames DEF Progress
        <4>2. n = Len(Kids(SOUND))
          BY <1>1, <2>1, <3>2, <4>1, LeftEnd
        <4> QED BY <1>2, <1>3, <2>1, <2>2, <3>2, <4>2, StagingNames DEF Progress
      <3>3. CASE k = MODEL
        <4>1. n = 0
          BY <1>3, <2>1, <2>2, <2>4, <3>3, StagingNames DEF Progress
        <4> QED BY <2>1, <2>3, <3>3, <4>1, StagingNames DEF Progress
      <3> QED BY <3>1, <3>2, <3>3 DEF Staged
    <2>5. ToCome' \subseteq ToCome
      BY <2>2
    <2> QED BY <1>1, <2>4, <2>5, BetweenData
  <1>7. CASE Fallthrough("model", "placeholder")
    <2>1. pc = "model" /\ pc' = "placeholder" /\ todo = <<>>
      BY <1>7 DEF Fallthrough, Goto
    <2>2. ToCome = {} /\ ToCome' = {}
      BY <2>1 DEF ToCome
    <2>4. ASSUME NEW k \in Staged, NEW n \in 0..Len(Kids(k)), Progress(k, n)
          PROVE  Progress(k, n)'
      <3>1. CASE k = MODEL
        <4>1. Left(MODEL, n)
          BY <2>1, <2>4, <3>1, StagingNames DEF Progress
        <4>2. n = Len(Kids(MODEL))
          BY <1>1, <2>1, <3>1, <4>1, LeftEnd
        <4> QED BY <1>2, <2>1, <2>2, <3>1, <4>2, StagingNames DEF Progress
      <3>2. CASE k # MODEL
        <4>1. n = Len(Kids(k))
          BY <2>1, <2>2, <2>4, <3>2, StagingNames DEF Progress
        <4> QED BY <1>2, <2>1, <2>2, <3>2, <4>1, StagingNames DEF Progress
      <3> QED BY <3>1, <3>2
    <2>5. ToCome' \subseteq ToCome
      BY <2>2
    <2> QED BY <1>1, <2>4, <2>5, BetweenData
  <1> QED BY <1>4, <1>5, <1>6, <1>7

LEMMA EarlyStepData ==
    ASSUME TypeInv, DataInv, EarlyStep
    PROVE  DataInv'
  <1>1. pc \in Early /\ pc' \in Early \cup {"failed"} /\ rco \in Archives
    BY EarlySteps DEF TypeInv
  <1>2. EarlyData /\ TmpWhole /\ NoneUnknown
    BY <1>1 DEF DataInv, Early, EarlyData
  <1>3. pc' = "failed" => DataInv'
    BY DEF DataInv, Early, TreeWritten
  <1>4. ASSUME EarlyData', TmpWhole' PROVE DataInv'
    <2>1. CASE pc' \in Early
      BY <1>4, <2>1 DEF DataInv, Early, TreeWritten
    <2> QED BY <1>1, <1>3, <2>1
  <1>5. CASE OpenFails
    BY <1>3, <1>5 DEF OpenFails, Goto
  <1>6. CASE \/ Open \/ Fallthrough("image", "sound") \/ Fallthrough("sound", "model")
             \/ Fallthrough("model", "placeholder")
    BY <1>2, <1>4, <1>6, BetweenSteps
  <1>7. ASSUME NEW k \in Staged, pc \in DOMAIN Staging, Staging[pc] = k,
               NoneUnknown', \E e \in E, len \in Nat : StagesOne(k, e, len)
        PROVE  DataInv'
    <2>1. PICK e \in E, len \in Nat : StagesOne(k, e, len)
      BY <1>7
    <2>2. EarlyData' /\ TmpWhole'
      BY <1>2, <1>7, <2>1, StageData
    <2> QED BY <1>4, <2>2
  <1>8. CASE StageImage
    <2>1. pc = "image" /\ StageCompressed(IMG) /\ IMG \in Staged /\ IMG \in {IMG, MODEL}
      BY <1>8 DEF StageImage, Staged
    <2>2. NoneUnknown' /\ \E e \in E, len \in Nat : StagesOne(IMG, e, len)
      BY <1>2, <2>1, StageStep
    <2> QED BY <1>7, <2>1, <2>2, StagingNames
  <1>9. CASE StageModel
    <2>1. pc = "model" /\ StageCompressed(MODEL) /\ MODEL \in Staged /\ MODEL \in {IMG, MODEL}
      BY <1>9 DEF StageModel, Staged
    <2>2. NoneUnknown' /\ \E e \in E, len \in Nat : StagesOne(MODEL, e, len)
      BY <1>2, <2>1, StageStep
    <2> QED BY <1>7, <2>1, <2>2, StagingNames
  <1>10. CASE StageSound
    <2>1. pc = "sound" /\ SOUND \in Staged
      BY <1>10 DEF StageSound, Staged
    <2>2. NoneUnknown' /\ \E e \in E, len \in Nat : StagesOne(SOUND, e, len)
      BY <1>2, <1>10, SoundStep
    <2> QED BY <1>7, <2>1, <2>2, StagingNames
  <1> QED BY <1>5, <1>6, <1>8, <1>9, <1>10 DEF EarlyStep

-----------------------------------------------------------------------------
(* The entries.                                                            *)

LEMMA RecsBegin ==
    ASSUME TypeInv, EarlyData, WritePlaceholderHeader
    PROVE  Recs(0)'
  <1>1. /\ rco \in Archives /\ UNCHANGED <<rco, src, tmp, size, header>>
        /\ pc = "placeholder" /\ pc' = "entries" /\ E' = E
    BY DEF TypeInv, WritePlaceholderHeader, Goto, E
  <1>2. ASSUME NEW k \in Staged, Known(k)'
        PROVE  \E A \in [E' -> Nat] : Traced(k, A, 0)'
    <2>1. Known(k) /\ Kids(k)' = Kids(k)
      BY <1>1, <1>2, KnownKept
    <2>2. PICK n \in 0..Len(Kids(k)), A \in [E -> Nat] : Progress(k, n) /\ Laid(k, A, n)
      BY <2>1 DEF EarlyData, StagedUpTo
    <2>3. n = Len(Kids(k))
      BY <1>1, <2>2, StagingNames DEF Progress, ToCome
    <2>4. Laid(k, A, n)'
      <3>1. SameStaged
        BY <1>1 DEF SameStaged
      <3> QED BY <1>1, <2>2, <3>1, LaidKept
    <2>5. Due(k, A, 0)'
      <3>1. SUFFICES ASSUME NEW i \in 1..Len(Kids(k)), i = 1 \/ Kids(k)[i-1] <= 0
                     PROVE  size'[k] = A[Kids(k)[i]]
        BY <2>1 DEF Due
      <3>2. i = 1
        <4>1. Len(Kids(k)) \in Nat
          BY <1>1, KidsOf, StagingNames
        <4>2. i # 1 => i - 1 \in 1..Len(Kids(k))
          BY <4>1
        <4>3. i # 1 => Kids(k)[i-1] \in 1..N
          BY <1>1, <4>2, KidsOf, StagingNames
        <4>4. i # 1 => ~ (Kids(k)[i-1] <= 0)
          BY <4>3
        <4> QED BY <3>1, <4>4
      <3>3. 1 \in 1..n
        BY <2>3, <3>1, <3>2
      <3>4. A[Kids(k)[1]] = EndOfData(k, A, 1 - 1)
        BY <2>2, <3>3 DEF Laid
      <3>5. EndOfData(k, A, 1 - 1) = 0
        BY DEF EndOfData
      <3>6. size'[k] = 0
        BY <1>1 DEF EarlyData
      <3> QED BY <3>2, <3>4, <3>5, <3>6
    <2>6. Laid(k, A, Len(Kids(k)))'
      BY <2>1, <2>3, <2>4
    <2>7. Traced(k, A, 0)'
      BY <2>5, <2>6 DEF Traced
    <2> QED BY <1>1, <2>7
  <1> QED BY <1>1, <1>2 DEF Recs, Staged

LEMMA PlaceholderData ==
    ASSUME TypeInv, TreeInv, TreeInv', DataInv, WritePlaceholderHeader
    PROVE  DataInv'
  <1>1. /\ pc = "placeholder" /\ pc' = "entries"
        /\ UNCHANGED <<rco, tmp, header, stack>>
    BY DEF WritePlaceholderHeader, Goto
  <1>2. EarlyData /\ TmpWhole /\ stack = <<>>
    BY <1>1 DEF DataInv, Early, TreeInv
  <1>3. Recs(0)'
    BY <1>2, RecsBegin
  <1>4. PICK m \in 0..N' : Placed(m)' /\ Linked(m)' /\ AtEnd(m)' /\ Calls(m)'
    BY <1>1 DEF TreeInv
  <1>5. m = 0
    BY <1>1, <1>2, <1>4 DEF Calls
  <1>6. TmpWhole'
    BY <1>1, <1>2 DEF TmpWhole
  <1> QED BY <1>1, <1>3, <1>4, <1>5, <1>6 DEF DataInv, Early, TreeWritten

LEMMA EntriesData ==
    ASSUME TypeInv, TypeInv', TreeInv, DataInv, WriteMain \/ WriteChild \/ FinishEntry
    PROVE  DataInv'
  <1>1. /\ pc = "entries" /\ rco \in Archives /\ rco' = rco /\ pos = StreamEnd
        /\ N' = N /\ N \in Nat \ {0} /\ E = 1..N
        /\ UNCHANGED <<rco, src, tmp, header>>
    <2>1. /\ pc = "entries" /\ rco \in Archives /\ rco' = rco /\ N' = N
          /\ UNCHANGED <<rco, src, tmp, header>>
      BY DEF TypeInv, WriteMain, WriteChild, FinishEntry, Enter, N
    <2> QED BY <2>1, ParentType DEF TreeInv
  <1>2. PICK m \in 0..N : Placed(m) /\ Linked(m) /\ AtEnd(m) /\ Calls(m) /\ Recs(m)
    BY <1>1 DEF DataInv
  <1>3. TmpWhole'
    BY <1>1 DEF DataInv, TmpWhole
  <1>4. ASSUME pc' = "entries", NEW n \in 0..N,
               Placed(n)', Linked(n)', AtEnd(n)', Calls(n)', Recs(n)'
        PROVE  DataInv'
    BY <1>1, <1>3, <1>4 DEF DataInv, Early, TreeWritten
  <1>5. CASE WriteMain
    <2>1. m = 0 /\ Placed(1)' /\ Linked(1)' /\ AtEnd(1)' /\ Calls(1)'
      BY <1>1, <1>2, <1>5, WriteMainTree
    <2>2. Recs(1)'
      <3>1. m \in 0..N-1 /\ m + 1 = 1 /\ HeaderWords \in Int /\ 0 \in Int
        BY <1>1, <2>1 DEF HeaderWords
      <3>2. Enter(m + 1, HeaderWords, 0)
        BY <1>5, <3>1 DEF WriteMain, Main
      <3>3. Recs(m + 1)'
        BY <1>1, <1>2, <3>1, <3>2, EnterRecs
      <3> QED BY <3>1, <3>3
    <2>3. pc' = "entries" /\ 1 \in 0..N
      BY <1>1, <1>5 DEF WriteMain, Enter
    <2> QED BY <1>4, <2>1, <2>2, <2>3
  <1>6. CASE WriteChild
    <2>1. m < N /\ Placed(m + 1)' /\ Linked(m + 1)' /\ AtEnd(m + 1)' /\ Calls(m + 1)'
      BY <1>1, <1>2, <1>6, WriteChildTree
    <2>2. Head(stack[1].left) = m + 1 /\ stack[1].at \in Int /\ stack[1].ret \in Int
      <3>1. stack # <<>> /\ stack[1].left # <<>> /\ 1 \in DOMAIN stack
        BY <1>6 DEF WriteChild, TypeInv
      <3>2. PICK d \in 0..Len(rco.kids[stack[1].e]) : Call(m, 1, d)
        BY <1>2, <3>1 DEF Calls
      <3>3. stack[1] \in Frames
        BY <3>1 DEF TypeInv
      <3> QED BY <1>2, <3>1, <3>2, <3>3, NextChild DEF Frames
    <2>3. m \in 0..N-1 /\ m + 1 \in 0..N
      BY <1>1, <2>1
    <2>4. Recs(m + 1)'
      <3>1. Enter(m + 1, stack[1].at, stack[1].ret)
        BY <1>6, <2>2 DEF WriteChild
      <3> QED BY <1>1, <1>2, <2>2, <2>3, <3>1, EnterRecs
    <2>5. pc' = "entries"
      BY <1>6 DEF WriteChild, Enter
    <2> QED BY <1>4, <2>1, <2>3, <2>4, <2>5
  <1>7. CASE FinishEntry
    <2>1. /\ Placed(m)' /\ Linked(m)' /\ AtEnd(m)' /\ pos' = StreamEnd'
          /\ stack' # <<>> => Calls(m)'
          /\ stack' = <<>> => m = N
          /\ Stream' = Stream \/ PatchesNext
      BY <1>1, <1>2, <1>7, FinishEntryTree
    <2>2. /\ UNCHANGED <<rco, src, tmp, size, offset>> /\ SameStaged
          /\ pos' = pos /\ stack # <<>> /\ pc' \in {"entries", "fixObj"}
      BY <1>1, <1>7 DEF FinishEntry, SameStaged, Goto
    <2>3. StreamEnd' = StreamEnd /\ StreamEnd \in Nat
      BY <1>1, <2>1, <2>2, StreamType
    <2>4. ChangesRecord(m)
      <3>1. CASE Stream' = Stream
        <4>1. KeptBut(Stream, Stream', StreamEnd, StreamEnd')
          BY <3>1 DEF KeptBut
        <4> QED BY <2>3, <4>1, AppendedRecord
      <3>2. CASE PatchesNext
        BY <1>2, <2>2, <3>2, NextRecord
      <3> QED BY <2>1, <3>1, <3>2
    <2>5. Recs(m)'
      <3>1. StreamEnd' \in Int /\ StreamEnd' >= StreamEnd
            /\ pc' \notin {"header", "done"}
        BY <2>2, <2>3
      <3> QED BY <1>2, <2>2, <2>4, <3>1, RecsKept
    <2>6. CASE Tail(stack) # <<>>
      <3>1. pc' = "entries" /\ stack' # <<>>
        <4> DEFINE x == [Tail(stack)[1] EXCEPT !.ret = NextOffset(stack[1])]
        <4>1. stack' = <<x>> \o Tail(Tail(stack)) /\ pc' = pc
          BY <1>7, <2>6 DEF FinishEntry
        <4>2. Tail(Tail(stack)) \in Seq(Frames)
          <5>1. stack \in Seq(Frames) /\ stack # <<>>
            BY <1>7 DEF TypeInv, FinishEntry
          <5>2. Tail(stack) \in Seq(Frames)
            BY <5>1, TailType
          <5> QED BY <2>6, <5>2, TailType
        <4>3. \A u \in Seq(Frames) : \A y : <<y>> \o u # <<>>
          OBVIOUS
        <4> HIDE DEF x
        <4> QED BY <1>1, <4>1, <4>2, <4>3
      <3> QED BY <1>4, <2>1, <2>5, <3>1
    <2>7. CASE Tail(stack) = <<>>
      <3>1. stack' = <<>> /\ pc' = "fixObj"
        BY <1>7, <2>7 DEF FinishEntry, Goto
      <3>2. m = N'
        BY <1>1, <2>1, <3>1
      <3> QED BY <1>3, <2>5, <3>1, <3>2 DEF DataInv, Early, TreeWritten
    <2> QED BY <2>6, <2>7
  <1> QED BY <1>5, <1>6, <1>7

-----------------------------------------------------------------------------
(* The steps behind the entries.                                           *)

LEMMA LaterKeeps ==
    ASSUME TypeInv, TypeInv', TreeInv, Changes, DataInv,
           \/ FixEntry \/ Fallthrough("fixObj", "fixAnim")
           \/ Fallthrough("fixAnim", "hashText") \/ LaterStep
    PROVE  /\ UNCHANGED <<rco, src, tmp, size, offset>> /\ SameStaged
           /\ TmpWhole /\ TmpWhole' /\ Recs(N)
           /\ pc \in Later \cup Fixing /\ pc' \in Later \cup Fixing
           /\ Placed(N) /\ N \in 0..N /\ ChangesRecord(N)
           /\ StreamEnd' \in Int /\ StreamEnd' >= StreamEnd
  <1>1. /\ UNCHANGED <<rco, opts, src, tmp, size, offset>>
        /\ pc \in Later \cup Fixing /\ pc' \in Later \cup Fixing
    BY OtherSteps
  <1>2. TreeWritten /\ pc \notin Early /\ pc # "entries" /\ pc # "failed"
    BY <1>1 DEF TreeWritten, Later, Fixing, Early
  <1>3. Placed(N) /\ N \in 0..N /\ TmpWhole /\ Recs(N)
    <2>1. rco \in Archives
      BY DEF TypeInv
    <2> QED BY <1>2, <2>1, ParentType DEF TreeInv, Whole, DataInv
  <1>4. SameStaged
    <2>1. CASE LaterStep
      BY <2>1, LaterStaged
    <2>2. CASE ~ LaterStep
      <3>1. header' = header
        BY <2>2 DEF FixEntry, Fallthrough
      <3> QED BY <3>1 DEF SameStaged
    <2> QED BY <2>1, <2>2
  <1>5. TmpWhole'
    <2>1. /\ header'.ldata[IMG] = header.ldata[IMG]
          /\ header'.ldata[SOUND] = header.ldata[SOUND]
          /\ header'.ldata[MODEL] = header.ldata[MODEL]
      BY <1>4 DEF SameStaged, Staged
    <2> QED BY <1>1, <1>3, <2>1 DEF TmpWhole
  <1>6. StreamEnd' \in Int /\ StreamEnd \in Int
    <2>1. Stream' \in Seq(Int)
      BY DEF TypeInv, Stream
    <2>2. StreamEnd' \in Int
      BY <2>1 DEF StreamEnd, HeaderWords
    <2> QED BY <2>2, StreamType
  <1>7. StreamEnd' >= StreamEnd
    <2>1. CASE LaterStep
      <3>1. Appends /\ pc \in Later
        BY <2>1, LaterAppends
      <3> QED BY <1>1, <3>1, AppendsExtend DEF Extended
    <2>2. CASE FixEntry
      <3>1. Whole
        BY <1>2 DEF TreeInv
      <3> QED BY <1>6, <2>2, <3>1, FixStream
    <2>3. CASE Fallthrough("fixObj", "fixAnim") \/ Fallthrough("fixAnim", "hashText")
      <3>1. UNCHANGED <<file, tables, opts>>
        BY <2>3 DEF Fallthrough
      <3> QED BY <1>6, <3>1, EndsSame
    <2> QED BY <2>1, <2>2, <2>3
  <1>8. ChangesRecord(N)
    <2>1. CASE KeptBut(Stream, Stream', StreamEnd, StreamEnd')
      BY <1>6, <2>1, AppendedRecord
    <2>2. CASE pc \in Fixing /\ todo # <<>> /\ PatchesAttrs
      BY <2>2, AttrsRecord
    <2> QED BY <1>2, <2>1, <2>2 DEF Changes
  <1> QED BY <1>1, <1>3, <1>4, <1>5, <1>6, <1>7, <1>8

(* The file after a write behind all that is in it.                        *)
LEMMA FileWriteWords ==
    ASSUME TypeInv, NEW ws \in Seq(Int), FileWrite(ws), opts' = opts, pos = StreamEnd,
           NEW p, p = FilePos
    PROVE  /\ p \in Int /\ FileEnd' = p + Len(ws)
           /\ \A j \in 1..Len(ws) : FileWord(p + j - 1)' = ws[j]
  <1>1. p = FileEnd /\ FileEnd \in Nat /\ FileEnd >= HeaderWords
    BY EndsType
  <1>2. FileEnd' = FileEnd + Len(ws)
    BY FileWriteEnds
  <1>3. p \in Int /\ p >= HeaderWords
    BY <1>1
  <1>4. PICK i \in Nat : i = p - HeaderWords
    BY <1>3 DEF HeaderWords
  <1>5. file' = PutAt(file, i, ws) /\ file \in Seq(Int)
    BY <1>4 DEF FileWrite, TypeInv
  <1>6. \A j \in 1..Len(ws) : file'[i + j] = ws[j]
    BY <1>5, PutAtWords
  <1>7. ASSUME NEW j \in 1..Len(ws)
        PROVE  FileWord(p + j - 1)' = ws[j]
    <2>1. PICK q \in Int : q = p + j - 1
      BY <1>3
    <2>2. PICK x \in Int : x = q - HeaderWords + 1
      BY DEF HeaderWords
    <2>3. x = i + j
      BY <1>3, <1>4, <2>1, <2>2 DEF HeaderWords
    <2>4. FileWord(q)' = file'[x]
      BY <2>2 DEF FileWord, HeaderWords
    <2>5. FileWord(q)' = ws[j]
      BY <1>6, <2>3, <2>4
    <2> QED BY <2>1, <2>5
  <1> QED BY <1>1, <1>2, <1>3, <1>7

(* The temporary file is copied whole.                                     *)
LEMMA CopyWhole ==
    ASSUME TypeInv, TmpWhole, CopyResources, pos = StreamEnd, NEW p, p = FilePos
    PROVE  /\ p \in Int /\ FileEnd' = p + Len(tmp)
           /\ \A j \in 1..Len(tmp) : FileWord(p + j - 1)' = tmp[j]
  <1> DEFINE ws(g) == [i \in 1..Len(tmp) |-> IF i <= Len(tmp) THEN tmp[i] ELSE g]
  <1>1. opts' = opts /\ tmp \in Seq(Int) /\ Len(tmp) \in Nat
    BY DEF CopyResources, TypeInv
  <1>2. \E g : FileWrite(ws(g))
    BY DEF CopyResources, TmpWhole
  <1>3. PICK g : FileWrite(ws(g))
    BY <1>2
  <1>4. PICK u : u = ws(g)
    OBVIOUS
  <1>5. /\ u \in Seq(Int) /\ Len(u) = Len(tmp)
        /\ \A j \in 1..Len(tmp) : u[j] = tmp[j]
    <2>1. PICK n \in Nat : n = Len(tmp)
      BY ONLY <1>1
    <2>2. u = [i \in 1..n |-> IF i <= n THEN tmp[i] ELSE g]
      BY <1>4, <2>1
    <2>3. \A i \in 1..n : tmp[i] \in Int /\ i <= n
      BY <1>1, <2>1
    <2>4. u \in [1..n -> Int] /\ \A j \in 1..n : u[j] = tmp[j]
      BY <2>2, <2>3
    <2>5. u \in Seq(Int) /\ Len(u) = n
      BY <2>4, FunctionIsSeq
    <2> QED BY <2>1, <2>4, <2>5
  <1>6. FileWrite(u)
    BY <1>3, <1>4
  <1>7. /\ p \in Int /\ FileEnd' = p + Len(u)
        /\ \A j \in 1..Len(u) : FileWord(p + j - 1)' = u[j]
    BY <1>1, <1>5, <1>6, FileWriteWords
  <1> QED BY <1>5, <1>7

LEMMA BeforeWhole ==
    ASSUME TypeInv, TmpWhole, NEW k \in Staged
    PROVE  Before(k) + header.ldata[k] <= Len(tmp)
  <1>1. PICK a \in Nat, b \in Nat, c \in Nat :
           a = header.ldata[IMG] /\ b = header.ldata[SOUND] /\ c = header.ldata[MODEL]
    <2>1. header.ldata \in [Kinds -> Nat]
      BY DEF TypeInv, Headers
    <2> QED BY <2>1, KindNames
  <1>2. Before(IMG) = 0 /\ Before(SOUND) = a /\ Before(MODEL) = a + b
    BY <1>1 DEF Before, IMG, SOUND, MODEL
  <1>3. Len(tmp) = (a + b) + c
    BY <1>1 DEF TmpWhole
  <1>4. PICK z \in Nat : z = (a + b) + c
    OBVIOUS
  <1>5. 0 + a <= z /\ a + b <= z /\ (a + b) + c <= z /\ Len(tmp) = z
    BY <1>3, <1>4
  <1>6. CASE k = IMG
    <2>1. Before(k) = 0 /\ header.ldata[k] = a
      BY <1>1, <1>2, <1>6
    <2> QED BY <1>5, <2>1
  <1>7. CASE k = SOUND
    <2>1. Before(k) = a /\ header.ldata[k] = b
      BY <1>1, <1>2, <1>7
    <2> QED BY <1>5, <2>1
  <1>8. CASE k = MODEL
    <2>1. Before(k) = a + b /\ header.ldata[k] = c
      BY <1>1, <1>2, <1>8
    <2> QED BY <1>5, <2>1
  <1> QED BY <1>6, <1>7, <1>8 DEF Staged

LEMMA CopyLocated ==
    ASSUME TypeInv, TmpWhole, StageInv, CopyResources, pos = StreamEnd,
           NEW k \in Staged, NEW A, Laid(k, A, Len(Kids(k)))
    PROVE  Located(k, A)'
  <1>1. /\ rco \in Archives /\ UNCHANGED <<rco, src>>
    BY DEF TypeInv, CopyResources
  <1>2. Kids(k)' = Kids(k) /\ \A e : Amount(e)' = Amount(e)
    BY <1>1, RecordSame
  <1>3. PICK n \in Nat : n = Len(Kids(k))
    <2>1. Len(Kids(k)) \in Nat
      BY <1>1, KidsOf, StagingNames
    <2> QED BY ONLY <2>1
  <1>4. PICK p \in Int : p = FilePos
    BY FilePosType
  <1>5. FileEnd' = p + Len(tmp) /\ \A j \in 1..Len(tmp) : FileWord(p + j - 1)' = tmp[j]
    BY <1>4, CopyWhole
  <1>6. PICK b \in Nat, l \in Nat : b = Before(k) /\ l = header.ldata[k]
    BY BeforeType
  <1>7. PICK t \in Nat : t = Len(tmp) /\ b + l <= t
    <2>1. Len(tmp) \in Nat
      BY DEF TypeInv
    <2> QED BY <1>6, <2>1, BeforeWhole
  <1>8. ASSUME NEW i \in 1..n
        PROVE  Holds(header.data[k] + A[Kids(k)[i]], Kids(k)[i], 0, Amount(Kids(k)[i]))'
    <2>1. PICK e \in E : e = Kids(k)[i]
      BY <1>1, <1>3, KidsOf, StagingNames, ParentType
    <2>2. PICK a \in Nat : a = A[e]
      BY DEF Laid
    <2>3. PICK w \in Nat : w = Amount(e)
      <3>1. src.len[e] \in Nat /\ rco.srcLenUnpacked[e] \in Nat
        BY <1>1, EntryType DEF TypeInv
      <3> QED BY <3>1, WordsType DEF Amount
    <2>4. a + w <= l /\ \A j \in 1..w : tmp[b + a + j] = DataWord(e, j)
      BY <1>3, <1>6, <2>1, <2>2, <2>3 DEF Laid
    <2>5. header'.data[k] = p + b
      <3>1. Has(k)
        <4>1. Kids(k) # <<>>
          BY <1>3
        <4> QED BY <1>1, <4>1, StagingNames, NoWork DEF Kids, Has
      <3> QED BY <1>4, <1>6, <3>1, CopyHeader
    <2>6. PICK q \in Int : q = p + b + a
      OBVIOUS
    <2>7. q + w <= FileEnd'
      BY <1>5, <1>7, <2>4, <2>6
    <2>8. ASSUME NEW j \in 1..w
          PROVE  FileWord(q + j - 1)' = DataWord(e, 0 + j)
      <3>1. PICK x \in Int : x = b + a + j
        OBVIOUS
      <3>2. x \in 1..t
        BY <1>7, <2>4, <3>1
      <3>3. FileWord(p + x - 1)' = tmp[x]
        BY <1>5, <1>7, <3>2
      <3>4. PICK y \in Int : y = p + x - 1
        OBVIOUS
      <3>5. y = q + j - 1 /\ 0 + j = j
        BY <2>6, <3>1, <3>4
      <3>6. FileWord(y)' = DataWord(e, j)
        BY <2>4, <3>1, <3>3, <3>4
      <3> QED BY <3>5, <3>6
    <2>9. Holds(q, e, 0, w)'
      BY <2>7, <2>8 DEF Holds
    <2>10. (header.data[k] + A[Kids(k)[i]])' = q
      <3>1. (p + b) + a = q
        BY <2>6
      <3> QED BY <1>2, <2>1, <2>2, <2>5, <3>1
    <2>11. Kids(k)[i]' = e /\ Amount(Kids(k)[i])' = w
      <3>1. Kids(k)[i]' = e
        BY <1>2, <2>1
      <3>2. Amount(e)' = w
        BY <1>2, <2>3
      <3>3. Amount(Kids(k)[i])' = Amount(e)'
        BY <3>1 DEF Amount
      <3> QED BY <3>1, <3>2, <3>3
    <2> QED BY <2>9, <2>10, <2>11 DEF Holds
  <1> QED BY <1>2, <1>3, <1>8 DEF Located

LEMMA LaterData ==
    ASSUME TypeInv, TypeInv', TreeInv, StageInv, Changes, DataInv,
           \/ FixEntry \/ Fallthrough("fixObj", "fixAnim")
           \/ Fallthrough("fixAnim", "hashText") \/ LaterStep
    PROVE  DataInv'
  <1>1. /\ UNCHANGED <<rco, src, tmp, size, offset>> /\ SameStaged
        /\ TmpWhole /\ TmpWhole' /\ Recs(N)
        /\ pc \in Later \cup Fixing /\ pc' \in Later \cup Fixing
        /\ Placed(N) /\ N \in 0..N /\ ChangesRecord(N)
        /\ StreamEnd' \in Int /\ StreamEnd' >= StreamEnd
    BY LaterKeeps
  <1>2. N' = N /\ E' = E /\ \A k : Kids(k)' = Kids(k) /\ (Known(k)' <=> Known(k))
    BY <1>1, KnownKept DEF N, E
  <1>3. ASSUME NEW k \in Staged, Known(k)', NEW A \in [E -> Nat], Traced(k, A, N)
        PROVE  Traced(k, A, N)'
    <2>1. PICK n : n = N
      OBVIOUS
    <2>2. Traced(k, A, n)'
      BY <1>1, <1>3, <2>1, TracedKept
    <2> QED BY <1>2, <2>1, <2>2
  <1>4. CASE pc' \notin {"header", "done"}
    <2>1. ASSUME NEW k \in Staged, Known(k)'
          PROVE  \E A \in [E' -> Nat] : Traced(k, A, N)'
      <3>1. PICK A \in [E -> Nat] : Traced(k, A, N)
        BY <1>1, <1>2, <2>1 DEF Recs
      <3>2. Traced(k, A, N)'
        BY <1>3, <2>1, <3>1
      <3> QED BY <1>2, <3>2
    <2>2. Recs(N)'
      BY <1>4, <2>1 DEF Recs, Staged
    <2> QED BY <1>1, <2>2 DEF DataInv, Later, Fixing, Early
  <1>5. ASSUME pc' \in {"header", "done"},
               \A k \in Staged : \A A \in [E -> Nat] :
                  Traced(k, A, N) /\ (pc = "header" => Located(k, A)) => Located(k, A)'
        PROVE  DataInv'
    <2>1. ASSUME NEW k \in Staged, Known(k)'
          PROVE  \E A \in [E' -> Nat] : Traced(k, A, N)' /\ Located(k, A)'
      <3>1. PICK A \in [E -> Nat] :
               Traced(k, A, N) /\ (pc \in {"header", "done"} => Located(k, A))
        BY <1>1, <1>2, <2>1 DEF Recs
      <3>2. Traced(k, A, N)'
        BY <1>3, <2>1, <3>1
      <3>3. Located(k, A)'
        BY <1>5, <3>1
      <3> QED BY <1>2, <3>2, <3>3
    <2>2. Recs(N)'
      BY <2>1 DEF Recs, Staged
    <2> QED BY <1>1, <2>2 DEF DataInv, Later, Fixing, Early
  <1>6. CASE CopyResources
    <2>1. pc' = "header" /\ pc = "resources"
      BY <1>6 DEF CopyResources, Goto
    <2>2. pos = StreamEnd
      BY <2>1, LaterStart DEF Later
    <2>3. \A k \in Staged : \A A \in [E -> Nat] : Traced(k, A, N) => Located(k, A)'
      BY <1>1, <1>6, <2>2, CopyLocated DEF Traced
    <2> QED BY <1>5, <2>1, <2>3
  <1>7. CASE FixHeader
    <2>1. /\ pc' = "done" /\ pc = "header" /\ file' = file
          /\ \E f : header' = [header EXCEPT !.table = f]
      BY <1>7 DEF FixHeader, Goto
    <2>2. header'.data = header.data
      <3>1. header \in Headers
        BY DEF TypeInv
      <3> QED BY <2>1, <3>1 DEF Headers
    <2>3. ASSUME NEW k \in Staged, NEW A, Located(k, A)
          PROVE  Located(k, A)'
      <3>1. \A e : Amount(e)' = Amount(e)
        BY <1>1, RecordSame
      <3>2. FileEnd' = FileEnd /\ \A q : FileWord(q)' = FileWord(q)
        BY <2>1 DEF FileEnd, FileWord
      <3> QED BY <1>2, <2>2, <2>3, <3>1, <3>2 DEF Located, Holds
    <2> QED BY <1>5, <2>1, <2>3
  <1>8. CASE ~ (CopyResources \/ FixHeader)
    <2>1. pc' \notin {"header", "done"}
      <3>1. CASE FixEntry
        BY <3>1 DEF FixEntry
      <3>2. CASE Fallthrough("fixObj", "fixAnim") \/ Fallthrough("fixAnim", "hashText")
        BY <3>2 DEF Fallthrough, Goto
      <3>3. CASE LaterStep
        BY <1>8, <3>3 DEF LaterStep, HashText, HashLang, HashTree, BeginText, WriteText,
               WriteLabelsEvents, Flush, BeginPackText, PackText, Fallthrough, Goto
      <3> QED BY <3>1, <3>2, <3>3
    <2> QED BY <1>4, <2>1
  <1> QED BY <1>6, <1>7, <1>8

LEMMA NextData ==
    ASSUME TypeInv, TypeInv', TreeInv, TreeInv', StageInv, Changes, DataInv, Next
    PROVE  DataInv'
  <1>1. CASE EarlyStep
    BY <1>1, EarlyStepData
  <1>2. CASE WritePlaceholderHeader
    BY <1>2, PlaceholderData
  <1>3. CASE WriteMain \/ WriteChild \/ FinishEntry
    BY <1>3, EntriesData
  <1>4. CASE \/ FixEntry \/ Fallthrough("fixObj", "fixAnim")
             \/ Fallthrough("fixAnim", "hashText") \/ LaterStep
    BY <1>4, LaterData
  <1> QED BY <1>1, <1>2, <1>3, <1>4, NextSteps

LEMMA StutterData ==
    ASSUME TypeInv, TreeInv, DataInv, UNCHANGED vars
    PROVE  DataInv'
  <1>1. /\ UNCHANGED <<pc, rco, src, tmp, size, header, opts, file, tables, offset, todo, pos, stack>>
        /\ E' = E /\ N' = N
    BY DEF vars, E, N
  <1>2. \A k : Kids(k)' = Kids(k) /\ (Known(k)' <=> Known(k))
    BY <1>1, KnownKept
  <1>3. pc # "failed" => TmpWhole'
    BY <1>1 DEF DataInv, TmpWhole
  <1>4. pc \in Early => EarlyData'
    <2> SUFFICES ASSUME pc \in Early PROVE EarlyData'
      OBVIOUS
    <2>1. EarlyData /\ TmpWhole
      BY DEF DataInv, Early
    <2>2. SameData
      BY <1>1 DEF SameData
    <2>3. ToCome' \subseteq ToCome /\ ToCome' = ToCome
      BY <1>1 DEF ToCome, Staged
    <2>4. ASSUME NEW k \in Staged, NEW n, Progress(k, n) PROVE Progress(k, n)'
      BY <1>1, <1>2, <2>3, <2>4 DEF Progress, Left
    <2> QED BY <2>1, <2>2, <2>3, <2>4, BetweenData
  <1>5. ASSUME NEW m \in 0..N, Placed(m), Recs(m) PROVE Recs(m)'
    <2>1. SameStaged /\ StreamEnd' = StreamEnd /\ StreamEnd \in Nat /\ Stream' = Stream
      BY <1>1, EndsSame, StreamType DEF SameStaged, Stream, Buffered
    <2>2. ChangesRecord(m)
      <3>1. KeptBut(Stream, Stream', StreamEnd, StreamEnd')
        BY <2>1 DEF KeptBut
      <3> QED BY <2>1, <3>1, AppendedRecord
    <2>3. ASSUME NEW k \in Staged, Known(k)'
          PROVE  \E A \in [E' -> Nat] :
                   Traced(k, A, m)' /\ (pc' \in {"header", "done"} => Located(k, A)')
      <3>1. PICK A \in [E -> Nat] :
               Traced(k, A, m) /\ (pc \in {"header", "done"} => Located(k, A))
        BY <1>2, <1>5, <2>3 DEF Recs
      <3>2. Traced(k, A, m)'
        <4>1. StreamEnd' \in Int /\ StreamEnd' >= StreamEnd
          BY <2>1
        <4> QED BY <1>1, <1>5, <2>1, <2>2, <3>1, <4>1, TracedKept
      <3>3. Located(k, A) => Located(k, A)'
        <4>1. \A e : Amount(e)' = Amount(e)
          BY <1>1, RecordSame
        <4>2. FileEnd' = FileEnd /\ \A q : FileWord(q)' = FileWord(q)
          BY <1>1 DEF FileEnd, FileWord
        <4> QED BY <1>1, <1>2, <4>1, <4>2 DEF Located, Holds
      <3> QED BY <1>1, <3>1, <3>2, <3>3
    <2> QED BY <2>3 DEF Recs, Staged
  <1>6. pc = "entries" => \E m \in 0..N' :
          Placed(m)' /\ Linked(m)' /\ AtEnd(m)' /\ Calls(m)' /\ Recs(m)'
    BY <1>1, <1>5, StutterParts DEF DataInv
  <1>7. TreeWritten => Recs(N)'
    <2>1. N \in 0..N
      BY ParentType DEF TypeInv
    <2>2. PICK m \in 0..N : m = N
      BY <2>1
    <2> SUFFICES ASSUME TreeWritten PROVE Recs(N)'
      OBVIOUS
    <2>3. Recs(m) /\ Placed(m)
      BY <2>2 DEF DataInv, TreeInv, Whole
    <2>4. Recs(m)'
      BY <1>5, <2>3
    <2> QED BY <1>1, <2>2, <2>4
  <1> QED BY <1>1, <1>3, <1>4, <1>6, <1>7 DEF DataInv, TreeWritten

(* The lengths are known: an entry whose unpacked length is not given has  *)
(* no packed length either.                                                *)
LengthsKnown == \A e \in E : rco.srcLenUnpacked[e] = 0 => rco.srcLen[e] = 0

LEMMA InitData ==
    ASSUME Init, LengthsKnown
    PROVE  DataInv
  <1>1. /\ rco \in Archives /\ pc = "open" /\ header = BlankHeader(rco, opts)
        /\ src.len = rco.srcLen /\ tmp = <<>> /\ size = [k \in Kinds |-> 0]
    BY DEF Init
  <1>2. Staged \subseteq Kinds /\ IMG \in Kinds /\ SOUND \in Kinds /\ MODEL \in Kinds
    BY StagingNames, KindNames
  <1>3. \A k \in Kinds : header.ldata[k] = 0
    BY <1>1 DEF BlankHeader
  <1>4. TmpWhole
    BY <1>1, <1>2, <1>3 DEF TmpWhole
  <1>5. NoneUnknown
    BY <1>1 DEF NoneUnknown, LengthsKnown
  <1>6. ToCome = Staged
    BY <1>1 DEF ToCome
  <1>7. ASSUME NEW k \in Staged PROVE StagedUpTo(k)
    <2>1. PICK A \in [E -> Nat] : A = [e \in E |-> 0]
      OBVIOUS
    <2>2. Laid(k, A, 0)
      BY <1>2, <1>3, NothingLaid
    <2>3. Progress(k, 0)
      BY <1>1, <1>6, StagingNames DEF Progress
    <2>4. 0 \in 0..Len(Kids(k))
      <3>1. Len(Kids(k)) \in Nat
        BY <1>1, <1>2, KidsOf
      <3> QED BY <3>1
    <2> QED BY <2>2, <2>3, <2>4 DEF StagedUpTo
  <1>8. EarlyData
    BY <1>1, <1>2, <1>3, <1>5, <1>6, <1>7 DEF EarlyData
  <1> QED BY <1>1, <1>4, <1>8 DEF DataInv, TreeWritten

(* The channels of a sound are within its data.                            *)
ChannelsWithin ==
    \A e \in E : Resource(SOUND, e) =>
       \A c \in DOMAIN rco.channels[e] :
          rco.channels[e][c][2] + Words(rco.channels[e][c][1])
             <= Words(rco.srcLenUnpacked[e])

(* These are conditions on the archive.                                    *)
LEMMA CollectedKept ==
    ASSUME [Next]_vars
    PROVE  /\ AllCollected => AllCollected'
           /\ SoundsRead => SoundsRead'
           /\ ChannelsWithin => ChannelsWithin'
  <1>1. rco' = rco
    BY ArchiveKept
  <1>2. E' = E /\ \A k : Kids(k)' = Kids(k)
    BY <1>1 DEF E, Kids, Children, Table
  <1>3. \A k, e : Resource(k, e)' <=> Resource(k, e)
    BY <1>1 DEF Resource
  <1>4. AllCollected => AllCollected'
    BY <1>2, <1>3 DEF AllCollected, Collected
  <1>5. SoundsRead => SoundsRead'
    BY <1>1, <1>2, <1>3 DEF SoundsRead
  <1>6. ChannelsWithin => ChannelsWithin'
    BY <1>1, <1>2, <1>3 DEF ChannelsWithin
  <1> QED BY <1>4, <1>5, <1>6

(* What the invariant says of a resource in the finished file.             *)
LEMMA Found ==
    ASSUME TypeInv, pc = "done", DataInv, NEW k \in Staged, Known(k)
    PROVE  \E A \in [E -> Nat] :
             \A e \in Range(Kids(k)) :
               /\ e \in E /\ Resource(k, e)
               /\ A[e] + Amount(e) <= header.ldata[k]
               /\ Holds(header.data[k] + A[e], e, 0, Amount(e))
               /\ \A j \in 1..Len(Record(e, A[e])) :
                     Word(offset[e] + EntryWords + j - 1) = Record(e, A[e])[j]
  <1>1. rco \in Archives
    BY DEF TypeInv
  <1>2. Recs(N)
    BY DEF DataInv, TreeWritten
  <1>3. PICK A \in [E -> Nat] : Traced(k, A, N) /\ Located(k, A)
    BY <1>2 DEF Recs
  <1>4. ASSUME NEW e \in Range(Kids(k))
        PROVE  /\ e \in E /\ Resource(k, e)
               /\ A[e] + Amount(e) <= header.ldata[k]
               /\ Holds(header.data[k] + A[e], e, 0, Amount(e))
               /\ \A j \in 1..Len(Record(e, A[e])) :
                     Word(offset[e] + EntryWords + j - 1) = Record(e, A[e])[j]
    <2>1. PICK i \in 1..Len(Kids(k)) : Kids(k)[i] = e
      <3>1. DOMAIN Kids(k) = 1..Len(Kids(k))
        BY <1>1, KidsOf, StagingNames
      <3> QED BY <3>1 DEF Range
    <2>2. e \in E /\ e \in 1..N /\ i \in DOMAIN Kids(k)
      <3>1. Kids(k)[i] \in 1..N /\ i \in DOMAIN Kids(k)
        BY <1>1, <2>1, KidsOf, StagingNames
      <3> QED BY <1>1, <2>1, <3>1, ParentType
    <2>3. Resource(k, e)
      BY <2>1, <2>2 DEF Known, AllCollected, Collected, Staged
    <2>4. A[e] + Amount(e) <= header.ldata[k]
      BY <1>3, <2>1 DEF Traced, Laid
    <2>5. Holds(header.data[k] + A[e], e, 0, Amount(e))
      BY <1>3, <2>1 DEF Located
    <2>6. Recorded(e, Record(e, A[e]), N)
      BY <1>3, <2>2, <2>3 DEF Traced
    <2>7. \A j \in 1..Len(Record(e, A[e])) :
             WordAt(Stream, offset[e] + EntryWords + j - 1) = Record(e, A[e])[j]
      BY <2>6 DEF Recorded
    <2>8. \A p : WordAt(Stream, p) = Word(p)
      BY DEF WordAt, Word
    <2> QED BY <2>2, <2>3, <2>4, <2>5, <2>7, <2>8
  <1> QED BY <1>4

LEMMA FoundResources ==
    ASSUME TypeInv, DataInv, AllCollected
    PROVE  ResourcesLocated
  <1> SUFFICES ASSUME pc = "done", NEW k \in {IMG, MODEL}, NEW e \in Range(Kids(k)),
                      Word(offset[e] + EntryWords + 1) # 0
               PROVE  LET len == Word(offset[e] + EntryWords + 1)
                          off == Word(offset[e] + EntryWords + 2)
                      IN /\ off + Words(len) <= header.ldata[k]
                         /\ Holds(header.data[k] + off, e, 0, Words(len))
    BY DEF ResourcesLocated, Kids
  <1>1. k \in Staged /\ k # SOUND /\ Known(k)
    BY DEF Staged, IMG, MODEL, SOUND, Known
  <1>2. PICK A \in [E -> Nat] :
           /\ e \in E /\ Resource(k, e)
           /\ A[e] + Amount(e) <= header.ldata[k]
           /\ Holds(header.data[k] + A[e], e, 0, Amount(e))
           /\ \A j \in 1..Len(Record(e, A[e])) :
                 Word(offset[e] + EntryWords + j - 1) = Record(e, A[e])[j]
    BY <1>1, Found
  <1>3. PICK a \in Nat : a = A[e]
    BY <1>2
  <1>4. PICK r : r = Record(e, a)
    OBVIOUS
  <1>5. rco.id[e] # SOUND /\ Amount(e) = Words(src.len[e])
    BY <1>1, <1>2 DEF Resource, Amount
  <1>6. r = <<rco.format[e] + 65536 * src.compr[e], src.len[e], a>>
    BY <1>4, <1>5 DEF Record
  <1>7. Len(r) = 3 /\ r[2] = src.len[e] /\ r[3] = a
    BY <1>6
  <1>8. PICK p \in Int : p = offset[e] + EntryWords
    BY <1>2 DEF TypeInv, EntryWords
  <1>9. \A j \in 1..3 : Word(p + j - 1) = r[j]
    BY <1>2, <1>3, <1>4, <1>7, <1>8
  <1>10. Word(p + 1) = src.len[e] /\ Word(p + 2) = a
    <2>1. 2 \in 1..3 /\ 3 \in 1..3 /\ p + 2 - 1 = p + 1 /\ p + 3 - 1 = p + 2
      OBVIOUS
    <2> QED BY <1>7, <1>9, <2>1
  <1> QED BY <1>2, <1>3, <1>5, <1>8, <1>10

LEMMA FoundSounds ==
    ASSUME TypeInv, DataInv, AllCollected, SoundsRead, ChannelsWithin
    PROVE  SoundsLocated
  <1> SUFFICES ASSUME pc = "done", NEW e \in Range(Kids(SOUND))
               PROVE  LET p == offset[e] + EntryWords
                          n == Words(Word(p + 1))
                      IN /\ Word(p + 2) + n <= header.ldata[SOUND]
                         /\ Holds(header.data[SOUND] + Word(p + 2), e, 0, n)
                         /\ \A c \in DOMAIN rco.channels[e] :
                              LET q == p + 3 + 2 * (c - 1)
                              IN Word(q + 1) + Words(Word(q)) <= Word(p + 2) + n
    BY DEF SoundsLocated, Kids
  <1>1. SOUND \in Staged /\ Known(SOUND) /\ rco \in Archives
    BY DEF Staged, Known, TypeInv
  <1>2. PICK A \in [E -> Nat] :
           /\ e \in E /\ Resource(SOUND, e)
           /\ A[e] + Amount(e) <= header.ldata[SOUND]
           /\ Holds(header.data[SOUND] + A[e], e, 0, Amount(e))
           /\ \A j \in 1..Len(Record(e, A[e])) :
                 Word(offset[e] + EntryWords + j - 1) = Record(e, A[e])[j]
    BY <1>1, Found
  <1>3. PICK a \in Nat : a = A[e]
    BY <1>2
  <1>4. PICK r : r = Record(e, a)
    OBVIOUS
  <1>5. PICK ch \in Seq(Nat \X Int) : ch = rco.channels[e]
    BY <1>1, <1>2, EntryType
  <1>6. PICK z \in Nat, n \in Nat : z = Len(ch) /\ n = Words(rco.srcLenUnpacked[e])
    <2>1. rco.srcLenUnpacked[e] \in Nat
      BY <1>1, <1>2, EntryType
    <2>2. PICK l \in Nat : l = rco.srcLenUnpacked[e]
      BY <2>1
    <2>3. Words(l) \in Nat
      BY ONLY WordsType
    <2>4. Len(ch) \in Nat
      OBVIOUS
    <2> QED BY ONLY <2>2, <2>3, <2>4
  <1>7. rco.id[e] = SOUND /\ Amount(e) = n
    BY <1>2, <1>6 DEF Resource, Amount
  <1>8. PICK w \in Nat : w = ChannelWords(e) /\ 2 * z <= w
    <2>1. ChannelWords(e) = 2 * (IF z < 2 THEN 2 ELSE z)
      BY <1>5, <1>6 DEF ChannelWords
    <2> QED BY <2>1
  <1> DEFINE x == <<rco.format[e] + 65536 * z, rco.srcLenUnpacked[e], a>>
             y == [i \in 1..w |->
                     LET c == (i + 1) \div 2
                     IN IF c > z THEN IF i % 2 = 1 THEN 0 ELSE NULL_PTR
                        ELSE IF i % 2 = 1 THEN ch[c][1] ELSE ch[c][2] + a]
  <1>9. r = x \o y
    BY <1>4, <1>5, <1>6, <1>7, <1>8 DEF Record
  <1>10. /\ x \in Seq(Int) /\ Len(x) = 3 /\ x[2] = rco.srcLenUnpacked[e] /\ x[3] = a
    <2>1. rco.format[e] \in Nat /\ rco.srcLenUnpacked[e] \in Nat
      BY <1>1, <1>2, EntryType
    <2>2. PICK u \in Int : u = rco.format[e] + 65536 * z
      BY <2>1
    <2> QED BY <2>1, <2>2
  <1>11. /\ y \in Seq(Int) /\ Len(y) = w
         /\ \A c \in 1..z : y[2 * c - 1] = ch[c][1] /\ y[2 * c] = ch[c][2] + a
    <2>1. ASSUME NEW i \in 1..w PROVE y[i] \in Int
      <3>1. PICK c \in Int : c = (i + 1) \div 2 /\ c >= 1
        BY Z3
      <3>2. c <= z => ch[c][1] \in Int /\ ch[c][2] + a \in Int
        <4> SUFFICES ASSUME c <= z PROVE ch[c][1] \in Int /\ ch[c][2] + a \in Int
          OBVIOUS
        <4>1. c \in 1..z
          BY <3>1
        <4>2. ch[c] \in Nat \X Int
          BY <1>6, <4>1
        <4>3. PICK u \in Nat, v \in Int : u = ch[c][1] /\ v = ch[c][2]
          BY ONLY <4>2
        <4>4. u \in Int /\ v + a \in Int
          OBVIOUS
        <4> QED BY ONLY <4>3, <4>4
      <3>3. y[i] = IF c > z THEN IF i % 2 = 1 THEN 0 ELSE NULL_PTR
                   ELSE IF i % 2 = 1 THEN ch[c][1] ELSE ch[c][2] + a
        BY <3>1
      <3> QED BY <3>1, <3>2, <3>3 DEF NULL_PTR
    <2>2. ASSUME NEW c \in 1..z
          PROVE  y[2 * c - 1] = ch[c][1] /\ y[2 * c] = ch[c][2] + a
      <3>1. /\ 2 * c - 1 \in 1..w /\ 2 * c \in 1..w
            /\ ((2 * c - 1) + 1) \div 2 = c /\ (2 * c + 1) \div 2 = c
            /\ (2 * c - 1) % 2 = 1 /\ (2 * c) % 2 # 1 /\ ~ (c > z)
        BY <1>8
      <3>2. PICK i \in 1..w : i = 2 * c - 1
        BY <3>1
      <3>3. PICK j \in 1..w : j = 2 * c
        BY <3>1
      <3> QED BY <3>1, <3>2, <3>3
    <2>3. y = [i \in 1..w |-> y[i]] /\ y \in [1..w -> Int]
      BY <2>1
    <2> HIDE DEF y
    <2> QED BY <2>2, <2>3, FunctionIsSeq
  <1> HIDE DEF x, y
  <1>12. /\ Len(r) = 3 + w /\ r[2] = rco.srcLenUnpacked[e] /\ r[3] = a
         /\ \A i \in 1..w : r[3 + i] = y[i]
    <2>1. /\ Len(r) = Len(x) + Len(y) /\ \A i \in 1..Len(x) : r[i] = x[i]
          /\ \A i \in 1..Len(y) : r[Len(x) + i] = y[i]
      BY <1>9, <1>10, <1>11, ConcatBegins, ConcatProperties
    <2> QED BY <1>10, <1>11, <2>1
  <1>13. PICK p \in Int : p = offset[e] + EntryWords
    BY <1>2 DEF TypeInv, EntryWords
  <1>14. \A j \in 1..3+w : Word(p + j - 1) = r[j]
    BY <1>2, <1>3, <1>4, <1>12, <1>13
  <1>15. Word(p + 1) = rco.srcLenUnpacked[e] /\ Word(p + 2) = a
    <2>1. 2 \in 1..3+w /\ 3 \in 1..3+w /\ p + 2 - 1 = p + 1 /\ p + 3 - 1 = p + 2
      OBVIOUS
    <2> QED BY <1>12, <1>14, <2>1
  <1>16. ASSUME NEW c \in DOMAIN rco.channels[e], NEW q, q = p + 3 + 2 * (c - 1)
         PROVE  Word(q + 1) + Words(Word(q)) <= a + n
    <2>1. c \in 1..z
      BY <1>5, <1>6
    <2>2. PICK i \in 1..w : i = 2 * c - 1
      BY <1>8, <2>1
    <2>3. PICK j \in 1..w : j = 2 * c
      BY <1>8, <2>1
    <2>4. /\ 3 + i \in 1..3+w /\ 3 + j \in 1..3+w
          /\ p + (3 + i) - 1 = q /\ p + (3 + j) - 1 = q + 1
      BY <1>16, <2>1, <2>2, <2>3
    <2>5. Word(q) = r[3 + i] /\ Word(q + 1) = r[3 + j]
      BY <1>14, <2>4
    <2>6. Word(q) = ch[c][1] /\ Word(q + 1) = ch[c][2] + a
      BY <1>11, <1>12, <2>1, <2>2, <2>3, <2>5
    <2>7. ch[c] \in Nat \X Int
      BY <1>6, <2>1
    <2>8. ch[c][2] + Words(ch[c][1]) <= n
      BY <1>2, <1>5, <1>6 DEF ChannelsWithin
    <2>9. ch[c][2] \in Int /\ Words(ch[c][1]) \in Nat
      BY <2>7, WordsType
    <2>10. (ch[c][2] + a) + Words(ch[c][1]) <= a + n
      <3>1. PICK u \in Int, v \in Nat : u = ch[c][2] /\ v = Words(ch[c][1])
        BY ONLY <2>9
      <3>2. u + v <= n
        BY ONLY <2>8, <3>1
      <3>3. (u + a) + v <= a + n
        BY <3>2
      <3> QED BY ONLY <3>1, <3>3
    <2> QED BY <2>6, <2>10
  <1> QED BY <1>2, <1>3, <1>6, <1>7, <1>13, <1>15, <1>16

LEMMA DataInvariant ==
    ASSUME TypeInv, PatchedLast, TreeInv, StageInv, DataInv, [Next]_vars
    PROVE  TypeInv' /\ PatchedLast' /\ TreeInv' /\ StageInv' /\ DataInv'
  <1>1. PatchedLast'
    BY ArchiveKept
  <1>2. CASE Next
    <2>1. TypeInv' /\ TreeInv' /\ Changes /\ StageInv'
      BY <1>2, NextType, NextTree, NextStage
    <2> QED BY <1>1, <1>2, <2>1, NextData
  <1>3. CASE UNCHANGED vars
    <2>1. TypeInv'
      BY <1>3 DEF TypeInv, vars, E, Frames
    <2>2. StageInv'
      BY <1>3 DEF vars, StageInv, HasSubentries, Table, Staging
    <2> QED BY <1>1, <1>3, <2>1, <2>2, StutterTree, StutterData
  <1> QED BY <1>2, <1>3

LEMMA DataBegins ==
    ASSUME Init, LengthsKnown
    PROVE  TypeInv /\ TreeInv /\ StageInv /\ DataInv
  BY InitType, InitTree, InitLayout, InitData DEF LayoutAll

(* For every archive whose last entry is patched last, whose lengths are   *)
(* known and whose loops over the images, sounds and models come to the    *)
(* entries that write_entry counts: the packed length and the offset in    *)
(* the entry of an image or a model of the finished file delimit, in the   *)
(* section of its kind, the data that were packed for it, also when others *)
(* could not be read or compressed.                                        *)
THEOREM ResourcesAreLocated ==
    Spec /\ PatchedLast /\ LengthsKnown /\ AllCollected => []ResourcesLocated
  <1> DEFINE All == TypeInv /\ PatchedLast /\ TreeInv /\ StageInv /\ DataInv /\ AllCollected
  <1>1. Init /\ PatchedLast /\ LengthsKnown /\ AllCollected => All
    BY DataBegins
  <1>2. All /\ [Next]_vars => All'
    BY DataInvariant, CollectedKept
  <1>3. All => ResourcesLocated
    BY FoundResources
  <1> HIDE DEF All
  <1> QED BY <1>1, <1>2, <1>3, PTL DEF Spec

(* When all the sounds can be read and their channels are within them, the *)
(* length and the offset of every sound delimit its data, and every        *)
(* channel lies within them.                                               *)
THEOREM SoundsAreLocated ==
    Spec /\ PatchedLast /\ LengthsKnown /\ AllCollected /\ SoundsRead /\ ChannelsWithin
       => []SoundsLocated
  <1> DEFINE All == /\ TypeInv /\ PatchedLast /\ TreeInv /\ StageInv /\ DataInv
                    /\ AllCollected /\ SoundsRead /\ ChannelsWithin
  <1>1. Init /\ PatchedLast /\ LengthsKnown /\ AllCollected /\ SoundsRead /\ ChannelsWithin
          => All
    BY DataBegins
  <1>2. All /\ [Next]_vars => All'
    BY DataInvariant, CollectedKept
  <1>3. All => SoundsLocated
    BY FoundSounds
  <1> HIDE DEF All
  <1> QED BY <1>1, <1>2, <1>3, PTL DEF Spec

(* What a step behind the entries does to the stream.                      *)
LEMMA LaterStream ==
    ASSUME TypeInv, TypeInv', TreeInv, Changes,
           \/ FixEntry \/ Fallthrough("fixObj", "fixAnim")
           \/ Fallthrough("fixAnim", "hashText") \/ LaterStep
    PROVE  /\ UNCHANGED <<rco, opts, src, tmp, size, offset>>
           /\ pc \in Later \cup Fixing /\ pc' \in Later \cup Fixing
           /\ Placed(N) /\ N \in 0..N /\ ChangesRecord(N)
           /\ StreamEnd' \in Int /\ StreamEnd' >= StreamEnd
  <1>1. /\ UNCHANGED <<rco, opts, src, tmp, size, offset>>
        /\ pc \in Later \cup Fixing /\ pc' \in Later \cup Fixing
    BY OtherSteps
  <1>2. TreeWritten /\ pc \notin Early /\ pc # "entries" /\ pc # "failed"
    BY <1>1 DEF TreeWritten, Later, Fixing, Early
  <1>3. Placed(N) /\ N \in 0..N
    <2>1. rco \in Archives
      BY DEF TypeInv
    <2> QED BY <1>2, <2>1, ParentType DEF TreeInv, Whole
  <1>6. StreamEnd' \in Int /\ StreamEnd \in Int
    <2>1. Stream' \in Seq(Int)
      BY DEF TypeInv, Stream
    <2>2. StreamEnd' \in Int
      BY <2>1 DEF StreamEnd, HeaderWords
    <2> QED BY <2>2, StreamType
  <1>7. StreamEnd' >= StreamEnd
    <2>1. CASE LaterStep
      <3>1. Appends /\ pc \in Later
        BY <2>1, LaterAppends
      <3> QED BY <1>1, <3>1, AppendsExtend DEF Extended
    <2>2. CASE FixEntry
      <3>1. Whole
        BY <1>2 DEF TreeInv
      <3> QED BY <1>6, <2>2, <3>1, FixStream
    <2>3. CASE Fallthrough("fixObj", "fixAnim") \/ Fallthrough("fixAnim", "hashText")
      <3>1. UNCHANGED <<file, tables, opts>>
        BY <2>3 DEF Fallthrough
      <3> QED BY <1>6, <3>1, EndsSame
    <2> QED BY <2>1, <2>2, <2>3
  <1>8. ChangesRecord(N)
    <2>1. CASE KeptBut(Stream, Stream', StreamEnd, StreamEnd')
      BY <1>6, <2>1, AppendedRecord
    <2>2. CASE pc \in Fixing /\ todo # <<>> /\ PatchesAttrs
      BY <2>2, AttrsRecord
    <2> QED BY <1>2, <2>1, <2>2 DEF Changes
  <1> QED BY <1>1, <1>3, <1>6, <1>7, <1>8
-----------------------------------------------------------------------------
(***************************************************************************)
(* Where the texts are.                                                    *)
(***************************************************************************)

(* The entries write_entry counts the texts of.                            *)
Language(e) == rco.id[e] = TEXT /\ rco.type[e] = 1

(* The words of the index of a language: each text that is there has its   *)
(* length, and for its offset the words in front of it.                    *)
IndexAt(j) == TextEntryWords + TextIndexWords * (j - 1)

TextPlace(e, j) == TextUsed(rco, e)[j-1] + IF Buffered THEN 0 ELSE TextBefore[e-1]

IsIndex(ws, e) ==
    /\ Len(ws) = TextEntryWords + TextIndexWords * Len(rco.indexes[e])
    /\ \A j \in 1..Len(rco.indexes[e]) :
         LET t == rco.indexes[e][j] IN
         /\ ws[IndexAt(j) + 2] = t.length
         /\ ~ t.null /\ t.length # 0 => ws[IndexAt(j) + 3] = 4 * TextPlace(e, j)

Indexed(e, m) == \E ws \in Seq(Int) : IsIndex(ws, e) /\ Recorded(e, ws, m)

AllIndexed(m) == \A e \in 1..m : Language(e) => Indexed(e, m)

(* The languages that are written say where their texts will lie.          *)
IndexInv ==
    /\ pc = "entries" => \E m \in 0..N :
         /\ Placed(m) /\ Linked(m) /\ AtEnd(m) /\ Calls(m)
         /\ Counted(m) /\ AllIndexed(m)
    /\ TreeWritten => AllIndexed(N)

LEMMA IndexSame ==
    ASSUME rco' = rco, opts' = opts
    PROVE  /\ \A e : Language(e)' <=> Language(e)
           /\ \A ws, e : IsIndex(ws, e)' <=> IsIndex(ws, e)
  <1>1. TextBefore' = TextBefore
    BY TextsSame
  <1>2. \A e, j : TextPlace(e, j)' = TextPlace(e, j)
    BY <1>1 DEF TextPlace, TextUsed, Buffered
  <1> QED BY <1>2 DEF Language, IsIndex

LEMMA LanguageAttrs ==
    ASSUME rco \in Archives, NEW e \in E, Language(e)
    PROVE  rco.attrs[e] = <<>>
  <1>1. IsArchive(rco) /\ E = EntriesOf(rco)
    BY ArchiveType DEF E
  <1>2. rco.id[e] \notin {OBJ, ANIM}
    BY DEF Language, TEXT, OBJ, ANIM
  <1> QED BY <1>1, <1>2 DEF IsArchive

(* The words write_entry computes from its running total.                  *)
LEMMA IndexWritten ==
    ASSUME TypeInv, NEW e \in E, Language(e), size[TEXT] = TextBefore[e-1]
    PROVE  Extra(e) \in Seq(Int) /\ IsIndex(Extra(e), e)
  <1> DEFINE t == rco.indexes[e]
             n == TextIndexWords * Len(t)
             word(w) == CASE w % 3 = 1 -> t[(w - 1) \div TextIndexWords + 1].label
                          [] w % 3 = 2 -> t[(w - 1) \div TextIndexWords + 1].length
                          [] OTHER     -> TextOffset(e, (w - 1) \div TextIndexWords + 1)
             body == [w \in 1..n |-> word(w)]
             head == <<rco.lang[e], Len(t)>>
  <1>1. Extra(e) = TextExtra(e) /\ TextExtra(e) = head \o body
    <2>1. Extra(e) = TextExtra(e)
      BY DEF Language, Extra, VSMX, TEXT, IMG, MODEL, SOUND, FONT, OBJ, ANIM
    <2>2. TextExtra(e) = head \o body
      BY Zenon DEF TextExtra
    <2> QED BY <2>1, <2>2
  <1>2. /\ TextExtra(e) \in Seq(Int)
        /\ Len(TextExtra(e)) = TextEntryWords + TextIndexWords * Len(t)
    BY TextExtraType
  <1>3. t \in Seq(TextIndex) /\ Len(t) \in Nat /\ rco.lang[e] \in Int
    BY EntryType DEF TypeInv
  <1>4. n \in Nat /\ head \in Seq(Int) /\ Len(head) = 2
    BY <1>3 DEF TextIndexWords
  <1>5. \A j \in 1..n : TextExtra(e)[2 + j] = word(j)
    <2>1. body \in [1..n -> {word(w) : w \in 1..n}]
      OBVIOUS
    <2>2. PICK S : S = {word(w) : w \in 1..n} \cup Int
      OBVIOUS
    <2>3. /\ body \in [1..n -> S] /\ \A j \in 1..n : body[j] = word(j)
          /\ head \in [1..2 -> S]
      <3>1. head \in [1..2 -> S]
        BY <1>3, <2>2
      <3>2. \A j \in 1..n : word(j) \in S
        <4> HIDE DEF word, n
        <4> QED BY <2>2
      <3>3. body = [w \in 1..n |-> word(w)]
        OBVIOUS
      <3> HIDE DEF body, word, n
      <3> QED BY <3>1, <3>2, <3>3
    <2> HIDE DEF body, head, n, word
    <2>4. body \in Seq(S) /\ Len(body) = n /\ head \in Seq(S)
      BY <1>4, <2>3, FunctionIsSeq
    <2>5. ASSUME NEW j \in 1..n PROVE (head \o body)[2 + j] = word(j)
      <3>1. 2 + j \in 1..Len(head)+Len(body) /\ 2 + j > Len(head) /\ 2 + j - Len(head) = j
        BY <1>4, <2>4
      <3>2. (head \o body)[2 + j] = body[j]
        BY <2>4, <3>1, ConcatProperties
      <3> QED BY <2>3, <3>2
    <2> QED BY <1>1, <2>5
  <1> HIDE DEF head, body
  <1>6. ASSUME NEW j \in 1..Len(t)
        PROVE  /\ TextExtra(e)[IndexAt(j) + 2] = t[j].length
               /\ ~ t[j].null /\ t[j].length # 0 =>
                     TextExtra(e)[IndexAt(j) + 3] = 4 * TextPlace(e, j)
    <2>1. PICK i \in Nat : j = i + 1 /\ i < Len(t)
      <3>1. j - 1 \in Nat /\ j = (j - 1) + 1 /\ j - 1 < Len(t)
        BY <1>3
      <3> QED BY <3>1
    <2>2. /\ 3 * i + 2 \in 1..n /\ 3 * i + 3 \in 1..n
          /\ IndexAt(j) + 2 = 2 + (3 * i + 2) /\ IndexAt(j) + 3 = 2 + (3 * i + 3)
      BY <1>3, <2>1 DEF IndexAt, TextEntryWords, TextIndexWords
    <2>3. /\ (3 * i + 2) % 3 = 2 /\ (3 * i + 3) % 3 = 0
          /\ (3 * i + 2 - 1) \div 3 + 1 = j /\ (3 * i + 3 - 1) \div 3 + 1 = j
      BY <2>1
    <2> HIDE DEF n, t
    <2>4. word(3 * i + 2) = t[j].length
      BY <2>3 DEF TextIndexWords
    <2>5. word(3 * i + 3) = TextOffset(e, j)
      BY <2>3 DEF TextIndexWords
    <2>6. ~ t[j].null /\ t[j].length # 0 => TextOffset(e, j) = 4 * TextPlace(e, j)
      BY DEF TextOffset, TextPlace, t
    <2> HIDE DEF word
    <2> QED BY <1>5, <2>2, <2>4, <2>5, <2>6
  <1>7. IsIndex(TextExtra(e), e)
    BY <1>2, <1>6 DEF IsIndex
  <1> QED BY <1>1, <1>2, <1>7

LEMMA EnterIndex ==
    ASSUME TypeInv, NEW m \in 0..N-1, Placed(m), pos = StreamEnd,
           NEW parent \in Int, NEW prev \in Int, Enter(m + 1, parent, prev),
           Counted(m), AllIndexed(m)
    PROVE  AllIndexed(m + 1)'
  <1> DEFINE c == m + 1
  <1>1. /\ rco \in Archives /\ UNCHANGED <<rco, opts>> /\ pos \in Int
        /\ c \in E /\ c \in Nat /\ m \in Nat /\ c - 1 = m /\ E = 1..N /\ N \in Nat
        /\ m \in 0..N /\ offset \in [E -> Nat] /\ 1..c = 1..m \cup {c}
        /\ StreamEnd \in Nat /\ EntryWords \in Nat
    <2>1. rco \in Archives /\ UNCHANGED <<rco, opts>> /\ pos \in Int
          /\ offset \in [E -> Nat]
      BY DEF TypeInv, Enter
    <2>2. E = 1..N /\ N \in Nat
      BY <2>1, ParentType
    <2> QED BY <2>1, <2>2, StreamType DEF EntryWords
  <1>2. /\ \A e : Language(e)' <=> Language(e)
        /\ \A ws, e : IsIndex(ws, e)' <=> IsIndex(ws, e)
    BY <1>1, IndexSame
  <1>3. offset'[c] = StreamEnd /\ \A b \in 1..m : offset'[b] = offset[b]
    <2>1. offset' = [offset EXCEPT ![c] = pos]
      BY DEF Enter
    <2>2. \A b \in 1..m : b \in E /\ b # c
      BY <1>1
    <2> HIDE DEF c
    <2> QED BY <1>1, <2>1, <2>2
  <1>4. Fwrite(EntryHeader(c, pos, parent, prev, 0) \o Extra(c))
    BY DEF Enter
  <1> HIDE DEF c
  <1>5. PICK at \in Int : at = pos
    BY <1>1
  <1>6. PICK h : h = EntryHeader(c, at, parent, prev, 0)
    OBVIOUS
  <1>7. PICK x : x = Extra(c)
    OBVIOUS
  <1>8. h \in Seq(Int) /\ Len(h) = EntryWords
    <2>1. \A nxt \in Int : /\ EntryHeader(c, at, parent, prev, nxt) \in Seq(Int)
                           /\ Len(EntryHeader(c, at, parent, prev, nxt)) = EntryWords
      BY <1>1, HeaderWordsType
    <2> QED BY <1>6, <2>1
  <1>9. x \in Seq(Int) /\ Len(x) \in Nat
    BY <1>1, <1>7, ExtraType
  <1>10. PICK ws : ws = h \o x
    OBVIOUS
  <1>11. /\ ws \in Seq(Int) /\ Len(ws) = EntryWords + Len(x)
         /\ \A j \in 1..Len(x) : ws[EntryWords + j] = x[j]
    <2>1. /\ ws \in Seq(Int) /\ Len(ws) = Len(h) + Len(x)
          /\ \A j \in 1..Len(x) : ws[Len(h) + j] = x[j]
      BY <1>8, <1>9, <1>10, ConcatBegins
    <2> QED BY <1>8, <1>9, <2>1
  <1>12. Fwrite(ws)
    BY <1>4, <1>5, <1>6, <1>7, <1>10
  <1>13. Extended /\ StreamEnd' = StreamEnd + Len(ws) /\ LiesAt(Stream', StreamEnd, ws)
    BY <1>1, <1>11, <1>12, FwriteExtends
  <1>14. StreamEnd' \in Int /\ StreamEnd' >= StreamEnd
    BY <1>1, <1>9, <1>11, <1>13
  <1>15. Recorded(c, x, c)'
    <2>1. ASSUME NEW j \in 1..Len(x)
          PROVE  WordAt(Stream', offset'[c] + EntryWords + j - 1) = x[j]
      <3>1. EntryWords + j \in 1..Len(ws)
        BY <1>1, <1>9, <1>11
      <3>2. WordAt(Stream', StreamEnd + (EntryWords + j) - 1) = ws[EntryWords + j]
        BY <1>13, <3>1 DEF LiesAt
      <3>3. StreamEnd + (EntryWords + j) - 1 = offset'[c] + EntryWords + j - 1
        BY <1>1, <1>3
      <3> QED BY <1>11, <3>2, <3>3
    <2>2. offset'[c] + EntryWords + Len(x) <= StreamEnd'
      BY <1>1, <1>3, <1>9, <1>11, <1>13
    <2>3. \A g \in c+1..c : FALSE
      BY <1>1
    <2> QED BY <2>1, <2>2, <2>3 DEF Recorded
  <1>16. Language(c) => Indexed(c, c)'
    <2> SUFFICES ASSUME Language(c) PROVE Indexed(c, c)'
      OBVIOUS
    <2>1. size[TEXT] = TextBefore[c-1]
      BY <1>1 DEF Counted
    <2>2. IsIndex(x, c)
      BY <1>1, <1>7, <2>1, IndexWritten
    <2>3. IsIndex(x, c)'
      BY <1>2, <2>2
    <2> QED BY <1>9, <1>15, <2>3 DEF Indexed
  <1>17. ASSUME NEW e \in 1..m, Language(e)
         PROVE  Indexed(e, c)'
    <2>1. PICK t \in Seq(Int) : IsIndex(t, e) /\ Recorded(e, t, m)
      BY <1>17 DEF AllIndexed, Indexed
    <2>2. rco.attrs[e] = <<>>
      <3>1. e \in E
        BY <1>1
      <3> QED BY <1>1, <1>17, <3>1, LanguageAttrs
    <2>3. ChangesRecord(m)
      BY <1>13, <1>14, AppendedRecord DEF Extended
    <2>4. \A g \in e+1..c : offset'[g] \in Int /\
             ((g <= m /\ offset'[g] = offset[g]) \/ offset'[g] >= StreamEnd)
      <3> TAKE g \in e+1..c
      <3>1. g = c \/ g \in 1..m
        BY <1>1
      <3>2. CASE g = c
        <4>1. offset'[g] \in Int /\ offset'[g] >= StreamEnd
          BY <1>1, <1>3, <3>2
        <4> QED BY <4>1
      <3>3. CASE g \in 1..m
        <4>1. g \in E /\ g <= m
          BY <1>1, <3>3
        <4>2. offset'[g] = offset[g] /\ offset[g] \in Int
          BY <1>1, <1>3, <3>3, <4>1
        <4> QED BY <4>1, <4>2
      <3> QED BY <3>1, <3>2, <3>3
    <2>5. c \in Int /\ offset'[e] = offset[e] /\ Len(t) \in Nat
      BY <1>1, <1>3
    <2>6. Recorded(e, t, c)'
      BY <1>1, <1>14, <2>1, <2>2, <2>3, <2>4, <2>5, RecordKept
    <2>7. IsIndex(t, e)'
      BY <1>2, <2>1
    <2> QED BY <2>6, <2>7 DEF Indexed
  <1>18. AllIndexed(c)'
    <2>1. \A e \in 1..c : Language(e) => Indexed(e, c)'
      BY <1>1, <1>16, <1>17
    <2> QED BY <1>2, <2>1 DEF AllIndexed
  <1> QED BY <1>18 DEF c

LEMMA IndexKept ==
    ASSUME TypeInv, NEW m \in 0..N, Placed(m), UNCHANGED <<rco, opts, offset>>,
           ChangesRecord(m), StreamEnd' \in Int, StreamEnd' >= StreamEnd,
           AllIndexed(m)
    PROVE  AllIndexed(m)'
  <1>1. /\ E = 1..N /\ N \in Nat /\ m \in Nat /\ offset \in [E -> Nat]
        /\ rco \in Archives
    BY ParentType DEF TypeInv
  <1>2. /\ \A e : Language(e)' <=> Language(e)
        /\ \A ws, e : IsIndex(ws, e)' <=> IsIndex(ws, e)
    BY IndexSame
  <1>3. ASSUME NEW e \in 1..m, Language(e)
        PROVE  Indexed(e, m)'
    <2>1. PICK t \in Seq(Int) : IsIndex(t, e) /\ Recorded(e, t, m)
      BY <1>3 DEF AllIndexed, Indexed
    <2>2. e \in E /\ rco.attrs[e] = <<>>
      BY <1>1, <1>3, LanguageAttrs
    <2>3. \A g \in e+1..m : offset'[g] \in Int /\
             ((g <= m /\ offset'[g] = offset[g]) \/ offset'[g] >= StreamEnd)
      <3> TAKE g \in e+1..m
      <3>1. g \in E /\ g <= m
        BY <1>1
      <3> QED BY <1>1, <3>1
    <2>4. m \in Int /\ offset'[e] = offset[e] /\ Len(t) \in Nat
      BY <1>1
    <2>5. Recorded(e, t, m)'
      BY <2>1, <2>2, <2>3, <2>4, RecordKept
    <2>6. IsIndex(t, e)'
      BY <1>2, <2>1
    <2> QED BY <2>5, <2>6 DEF Indexed
  <1> QED BY <1>2, <1>3 DEF AllIndexed

LEMMA EntriesIndex ==
    ASSUME TypeInv, TypeInv', TreeInv, IndexInv, WriteMain \/ WriteChild \/ FinishEntry
    PROVE  IndexInv'
  <1>1. /\ pc = "entries" /\ rco \in Archives /\ UNCHANGED <<rco, opts>>
        /\ pos = StreamEnd /\ N' = N /\ N \in Nat \ {0} /\ E = 1..N
    <2>1. /\ pc = "entries" /\ rco \in Archives /\ UNCHANGED <<rco, opts>> /\ N' = N
      BY DEF TypeInv, WriteMain, WriteChild, FinishEntry, Enter, N
    <2> QED BY <2>1, ParentType DEF TreeInv
  <1>2. PICK m \in 0..N :
           /\ Placed(m) /\ Linked(m) /\ AtEnd(m) /\ Calls(m)
           /\ Counted(m) /\ AllIndexed(m)
    BY <1>1 DEF IndexInv
  <1>3. ASSUME pc' = "entries", NEW n \in 0..N,
               Placed(n)', Linked(n)', AtEnd(n)', Calls(n)',
               Counted(n)', AllIndexed(n)'
        PROVE  IndexInv'
    BY <1>1, <1>3 DEF IndexInv, TreeWritten
  <1>4. CASE WriteMain
    <2>1. m = 0 /\ Placed(1)' /\ Linked(1)' /\ AtEnd(1)' /\ Calls(1)'
      BY <1>1, <1>2, <1>4, WriteMainTree
    <2>2. Counted(1)' /\ AllIndexed(1)'
      <3>1. m \in 0..N-1 /\ m + 1 = 1 /\ HeaderWords \in Int /\ 0 \in Int
        BY <1>1, <2>1 DEF HeaderWords
      <3>2. Enter(m + 1, HeaderWords, 0)
        BY <1>4, <3>1 DEF WriteMain, Main
      <3>3. Counted(m + 1)' /\ AllIndexed(m + 1)'
        BY <1>1, <1>2, <3>1, <3>2, EnterIndex, EnterCounts
      <3> QED BY <3>1, <3>3
    <2>3. pc' = "entries" /\ 1 \in 0..N
      BY <1>1, <1>4 DEF WriteMain, Enter
    <2> QED BY <1>3, <2>1, <2>2, <2>3
  <1>5. CASE WriteChild
    <2>1. m < N /\ Placed(m + 1)' /\ Linked(m + 1)' /\ AtEnd(m + 1)' /\ Calls(m + 1)'
      BY <1>1, <1>2, <1>5, WriteChildTree
    <2>2. Head(stack[1].left) = m + 1 /\ stack[1].at \in Int /\ stack[1].ret \in Int
      <3>1. stack # <<>> /\ stack[1].left # <<>> /\ 1 \in DOMAIN stack
        BY <1>5 DEF WriteChild, TypeInv
      <3>2. PICK d \in 0..Len(rco.kids[stack[1].e]) : Call(m, 1, d)
        BY <1>2, <3>1 DEF Calls
      <3>3. stack[1] \in Frames
        BY <3>1 DEF TypeInv
      <3> QED BY <1>2, <3>1, <3>2, <3>3, NextChild DEF Frames
    <2>3. m \in 0..N-1 /\ m + 1 \in 0..N
      BY <1>1, <2>1
    <2>4. Counted(m + 1)' /\ AllIndexed(m + 1)'
      <3>1. Enter(m + 1, stack[1].at, stack[1].ret)
        BY <1>5, <2>2 DEF WriteChild
      <3> QED BY <1>1, <1>2, <2>2, <2>3, <3>1, EnterIndex, EnterCounts
    <2>5. pc' = "entries"
      BY <1>5 DEF WriteChild, Enter
    <2> QED BY <1>3, <2>1, <2>3, <2>4, <2>5
  <1>6. CASE FinishEntry
    <2>1. /\ Placed(m)' /\ Linked(m)' /\ AtEnd(m)' /\ pos' = StreamEnd'
          /\ stack' # <<>> => Calls(m)'
          /\ stack' = <<>> => m = N
          /\ Stream' = Stream \/ PatchesNext
      BY <1>1, <1>2, <1>6, FinishEntryTree
    <2>2. /\ UNCHANGED <<rco, opts, size, offset>>
          /\ pos' = pos /\ stack # <<>> /\ pc' \in {"entries", "fixObj"}
      BY <1>1, <1>6 DEF FinishEntry, Goto
    <2>3. StreamEnd' = StreamEnd /\ StreamEnd \in Nat
      BY <1>1, <2>1, <2>2, StreamType
    <2>4. ChangesRecord(m)
      <3>1. CASE Stream' = Stream
        <4>1. KeptBut(Stream, Stream', StreamEnd, StreamEnd')
          BY <3>1 DEF KeptBut
        <4> QED BY <2>3, <4>1, AppendedRecord
      <3>2. CASE PatchesNext
        BY <1>2, <2>2, <3>2, NextRecord
      <3> QED BY <2>1, <3>1, <3>2
    <2>5. Counted(m)' /\ AllIndexed(m)'
      <3>1. StreamEnd' \in Int /\ StreamEnd' >= StreamEnd
        BY <2>3
      <3> QED BY <1>2, <2>2, <2>3, <2>4, <3>1, IndexKept, CountedKept
    <2>6. CASE Tail(stack) # <<>>
      <3>1. pc' = "entries" /\ stack' # <<>>
        <4> DEFINE x == [Tail(stack)[1] EXCEPT !.ret = NextOffset(stack[1])]
        <4>1. stack' = <<x>> \o Tail(Tail(stack)) /\ pc' = pc
          BY <1>6, <2>6 DEF FinishEntry
        <4>2. Tail(Tail(stack)) \in Seq(Frames)
          <5>1. stack \in Seq(Frames) /\ stack # <<>>
            BY <1>6 DEF TypeInv, FinishEntry
          <5>2. Tail(stack) \in Seq(Frames)
            BY <5>1, TailType
          <5> QED BY <2>6, <5>2, TailType
        <4>3. \A u \in Seq(Frames) : \A y : <<y>> \o u # <<>>
          OBVIOUS
        <4> HIDE DEF x
        <4> QED BY <1>1, <4>1, <4>2, <4>3
      <3> QED BY <1>3, <2>1, <2>5, <3>1
    <2>7. CASE Tail(stack) = <<>>
      <3>1. stack' = <<>> /\ pc' = "fixObj"
        BY <1>6, <2>7 DEF FinishEntry, Goto
      <3>2. m = N'
        BY <1>1, <2>1, <3>1
      <3> QED BY <2>5, <3>1, <3>2 DEF IndexInv
    <2> QED BY <2>6, <2>7
  <1> QED BY <1>4, <1>5, <1>6

LEMMA NextIndex ==
    ASSUME TypeInv, TypeInv', TreeInv, TreeInv', SizeInv, Changes, IndexInv, Next
    PROVE  IndexInv'
  <1>1. CASE EarlyStep
    <2>1. pc' # "entries" /\ ~ TreeWritten'
      BY <1>1, EarlySteps DEF TreeWritten, Early
    <2> QED BY <2>1 DEF IndexInv
  <1>2. CASE WritePlaceholderHeader
    <2>1. pc' = "entries" /\ UNCHANGED <<rco, size, stack>> /\ pc = "placeholder"
      BY <1>2 DEF WritePlaceholderHeader, Goto
    <2>2. PICK m \in 0..N' : Placed(m)' /\ Linked(m)' /\ AtEnd(m)' /\ Calls(m)'
      BY <2>1 DEF TreeInv
    <2>3. Counted(0)' /\ stack = <<>>
      BY <2>1, CountedKept DEF SizeInv, TreeInv, Early
    <2>4. m = 0
      BY <2>1, <2>2, <2>3 DEF Calls
    <2>5. AllIndexed(0)'
      <3>1. \A e \in 1..0 : FALSE
        OBVIOUS
      <3> QED BY <3>1 DEF AllIndexed
    <2> QED BY <2>1, <2>2, <2>3, <2>4, <2>5 DEF IndexInv, TreeWritten
  <1>3. CASE WriteMain \/ WriteChild \/ FinishEntry
    BY <1>3, EntriesIndex
  <1>4. CASE \/ FixEntry \/ Fallthrough("fixObj", "fixAnim")
             \/ Fallthrough("fixAnim", "hashText") \/ LaterStep
    <2>1. /\ UNCHANGED <<rco, opts, offset>>
          /\ pc \in Later \cup Fixing /\ pc' \in Later \cup Fixing
          /\ Placed(N) /\ N \in 0..N /\ ChangesRecord(N)
          /\ StreamEnd' \in Int /\ StreamEnd' >= StreamEnd
      BY <1>4, LaterStream
    <2>2. PICK n : n = N
      OBVIOUS
    <2>3. AllIndexed(n) /\ N' = n
      BY <2>1, <2>2 DEF IndexInv, TreeWritten, Later, Fixing, N
    <2>4. AllIndexed(n)'
      BY <2>1, <2>2, <2>3, IndexKept
    <2> QED BY <2>1, <2>3, <2>4 DEF IndexInv, Later, Fixing
  <1> QED BY <1>1, <1>2, <1>3, <1>4, NextSteps

LEMMA StutterIndex ==
    ASSUME TypeInv, TreeInv, IndexInv, UNCHANGED vars
    PROVE  IndexInv'
  <1>1. /\ UNCHANGED <<pc, rco, src, opts, file, tables, offset, pos, stack, size>>
        /\ N' = N
    BY DEF vars, N
  <1>2. StreamEnd' = StreamEnd /\ StreamEnd \in Nat /\ Stream' = Stream
    BY <1>1, EndsSame, StreamType DEF Stream, Buffered
  <1>3. \A m : ChangesRecord(m)
    <2>1. KeptBut(Stream, Stream', StreamEnd, StreamEnd')
      BY <1>2 DEF KeptBut
    <2> QED BY <1>2, <2>1, AppendedRecord
  <1>4. ASSUME NEW m \in 0..N, Placed(m), AllIndexed(m)
        PROVE  AllIndexed(m)'
    BY <1>1, <1>2, <1>3, <1>4, IndexKept
  <1>5. pc = "entries" => \E m \in 0..N' :
          /\ Placed(m)' /\ Linked(m)' /\ AtEnd(m)' /\ Calls(m)'
          /\ Counted(m)' /\ AllIndexed(m)'
    <2> SUFFICES ASSUME pc = "entries"
                 PROVE  \E m \in 0..N' :
                          /\ Placed(m)' /\ Linked(m)' /\ AtEnd(m)' /\ Calls(m)'
                          /\ Counted(m)' /\ AllIndexed(m)'
      OBVIOUS
    <2>1. PICK m \in 0..N :
             /\ Placed(m) /\ Linked(m) /\ AtEnd(m) /\ Calls(m)
             /\ Counted(m) /\ AllIndexed(m)
      BY DEF IndexInv
    <2>2. Placed(m)' /\ Linked(m)' /\ AtEnd(m)' /\ Calls(m)'
      BY <1>1, <2>1, StutterParts
    <2>3. Counted(m)'
      BY <1>1, <2>1, CountedKept
    <2> QED BY <1>1, <1>4, <2>1, <2>2, <2>3
  <1>6. TreeWritten => AllIndexed(N)'
    <2> SUFFICES ASSUME TreeWritten PROVE AllIndexed(N)'
      OBVIOUS
    <2>1. PICK n : n = N
      OBVIOUS
    <2>2. n \in 0..N /\ Placed(n) /\ AllIndexed(n) /\ N' = n
      BY <1>1, <2>1, ParentType DEF TypeInv, TreeInv, Whole, IndexInv
    <2> QED BY <1>4, <2>2
  <1> QED BY <1>1, <1>5, <1>6 DEF IndexInv, TreeWritten

LEMMA InitIndex == ASSUME Init PROVE IndexInv
  BY DEF Init, IndexInv, TreeWritten
-----------------------------------------------------------------------------
(***************************************************************************)
(* The texts themselves.  Texts that are not packed lie in the stream in   *)
(* the order of the languages, each language where write_entry counted it  *)
(* to; packed ones lie in the file, a block for each language.             *)
(***************************************************************************)

(* All texts are written: the languages can be read and are those the      *)
(* writer counts, or the compressor does not fail; and what has no string  *)
(* has no length.                                                          *)
TextsSure ==
    IF Buffered
    THEN /\ 0 \notin PackedLens
         /\ \A i \in DOMAIN Languages : rco.readable[Languages[i]]
    ELSE /\ TextsWhole
         /\ \A e \in E : \A j \in DOMAIN rco.indexes[e] :
              rco.indexes[e][j].null => rco.indexes[e][j].length = 0

TextAt(e) ==
    \A k \in 1..TextTotal(rco, e) :
       LET p == header.data[TEXT] + TextBefore[e-1] + k - 1
       IN p \in HeaderWords..StreamEnd-1 /\ WordAt(Stream, p) = DataWord(e, k)

TextsAt(n) == \A i \in 1..n : TextAt(Languages[i])

(* A length of 0 in the header is that of languages without texts.         *)
NoneSilent ==
    header.ldata[TEXT] = 0 => \A i \in 1..Len(Languages) : TextTotal(rco, Languages[i]) = 0

(* The block of a language lies in the file from b to c.                   *)
BlockAt(e, b, c, last) ==
    \E len \in PackedLens \ {0} :
       /\ b \in Int /\ b >= HeaderWords /\ c = b + BlockWords(len) /\ c <= FileEnd
       /\ \A w \in 1..BlockWords(len) : FileWord(b + w - 1) = TextBlock(e, len, last)[w]

BlocksAt(at, n) ==
    /\ at \in [1..Len(Languages)+1 -> Int] /\ at[1] = header.data[TEXT]
    /\ \A i \in 1..n : BlockAt(Languages[i], at[i], at[i+1], i = Len(Languages))

PlainInv ==
    /\ pc = "textBody" => NoneSilent /\ TextsAt(Len(Languages) - Len(todo))
    /\ pc = "labels" => NoneSilent /\ TextsAt(Len(Languages))
    /\ pc \in {"flush", "packText", "packTextBody", "resources", "header", "done"}
          => TextsAt(Len(Languages))

PackedInv ==
    /\ pc = "packTextBody" =>
          \E n \in 0..Len(Languages) : \E at : Left(TEXT, n) /\ BlocksAt(at, n) /\ at[n+1] = FileEnd
    /\ pc \in {"resources", "header", "done"} => \E at : BlocksAt(at, Len(Languages))

TextInv ==
    /\ ~ Buffered => PlainInv
    /\ Buffered /\ Languages # <<>> => PackedInv

LEMMA TextBeforeGrows ==
    ASSUME rco \in Archives, NEW a \in 0..N, NEW b \in a..N
    PROVE  TextBefore[a] <= TextBefore[b]
  <1> DEFINE T == {i \in 0..b-a : TextBefore[a] <= TextBefore[a+i]}
  <1>1. /\ N \in Nat /\ a \in Nat /\ b \in Nat /\ b - a \in Nat /\ a + (b - a) = b
        /\ a + 0 = a
    <2>1. N \in Nat
      BY ParentType
    <2> QED BY <2>1
  <1>2. TextBefore[a] \in Nat
    BY TextBeforeType
  <1>3. 0 \in T
    BY <1>1, <1>2
  <1>4. ASSUME NEW i \in 1..b-a, i - 1 \in T PROVE i \in T
    <2> DEFINE m == a + i
    <2>1. m \in 1..N /\ m \in E /\ m - 1 = a + (i - 1) /\ m - 1 \in 0..N /\ i \in 0..b-a
      BY <1>1, ParentType
    <2>2. TextBefore[a] <= TextBefore[a+(i-1)]
      BY <1>4
    <2> HIDE DEF m
    <2>3. TextBefore[m] = TextBefore[m-1] + TextShare(m) /\ TextBefore[m-1] \in Nat
          /\ TextShare(m) \in Nat
      BY <2>1, TextBeforeType
    <2>4. TextBefore[a] <= TextBefore[m]
      <3>1. PICK x \in Nat : x = TextBefore[m-1]
        BY <2>3
      <3>2. PICK y \in Nat : y = TextShare(m)
        BY <2>3
      <3>3. PICK z \in Nat : z = TextBefore[a]
        BY <1>2
      <3>4. z <= x /\ TextBefore[m] = x + y
        BY <2>1, <2>2, <2>3, <3>1, <3>2, <3>3
      <3> QED BY <3>3, <3>4
    <2> QED BY <2>1, <2>4 DEF m
  <1>5. 0..b-a \subseteq T
    <2> HIDE DEF T
    <2> QED BY <1>1, <1>3, <1>4, UpTo
  <1>6. b - a \in T
    BY <1>1, <1>5
  <1> QED BY <1>1, <1>6

(* A text lies within the texts of its language.                           *)
LEMMA TextWithin ==
    ASSUME rco \in Archives, NEW e \in E, NEW j \in 1..Len(rco.indexes[e])
    PROVE  /\ TextUsed(rco, e)[j-1] \in Nat /\ Words(rco.indexes[e][j].length) \in Nat
           /\ TextUsed(rco, e)[j-1] + Words(rco.indexes[e][j].length) <= TextTotal(rco, e)
  <1>1. PICK t : t = rco.indexes[e]
    OBVIOUS
  <1>2. PICK u : u = TextUsed(rco, e)
    OBVIOUS
  <1>3. /\ Len(t) \in Nat /\ u \in [0..Len(t) -> Nat]
        /\ \A i \in 1..Len(t) : u[i] = u[i-1] + Words(t[i].length)
    <2>1. IsArchive(rco) /\ e \in EntriesOf(rco)
      BY ArchiveType DEF E
    <2> QED BY <1>1, <1>2, <2>1, TextUsedType
  <1>4. \A i \in 1..Len(t) : Words(t[i].length) \in Nat
    <2>1. t \in Seq(TextIndex)
      BY <1>1, EntryType
    <2>2. \A i \in 1..Len(t) : t[i] \in TextIndex
      BY <2>1
    <2>3. \A i \in 1..Len(t) : t[i].length \in Nat
      BY <2>2 DEF TextIndex
    <2> QED BY <2>3, WordsType
  <1>5. PICK n \in Nat : n = Len(t)
    BY <1>3
  <1>6. j \in 1..n
    BY <1>1, <1>5
  <1> DEFINE T == {i \in 0..n-j : u[j] <= u[j+i]}
  <1>7. 0 \in T
    <2>1. j + 0 = j /\ j \in 0..n /\ 0 \in 0..n-j
      BY <1>6
    <2>2. u[j] \in Nat
      BY <1>3, <1>5, <2>1
    <2> QED BY <2>1, <2>2
  <1>8. ASSUME NEW i \in 1..n-j, i - 1 \in T PROVE i \in T
    <2>1. j + i \in 1..n /\ (j + i) - 1 = j + (i - 1) /\ j + (i - 1) \in 0..n
          /\ i \in 0..n-j /\ j \in 0..n
      BY <1>6
    <2>2. PICK x \in Nat : x = u[j+(i-1)]
      BY <1>3, <1>5, <2>1
    <2>3. PICK y \in Nat : y = Words(t[j+i].length)
      BY <1>4, <1>5, <2>1
    <2>4. PICK z \in Nat : z = u[j]
      BY <1>3, <1>5, <2>1
    <2>5. z <= x
      BY <1>8, <2>2, <2>4
    <2>6. u[j+i] = x + y
      BY <1>3, <1>5, <2>1, <2>2, <2>3
    <2>7. u[j] <= u[j+i]
      BY <2>4, <2>5, <2>6
    <2> QED BY <2>1, <2>7
  <1>9. 0..n-j \subseteq T
    <2>1. n - j \in Nat
      BY <1>6
    <2> HIDE DEF T
    <2> QED BY <1>7, <1>8, <2>1, UpTo
  <1>10. u[j] <= u[n]
    <2>1. n - j \in 0..n-j /\ j + (n - j) = n
      BY <1>6
    <2> QED BY <1>9, <2>1
  <1>11. u[j-1] \in Nat /\ u[j] = u[j-1] + Words(t[j].length) /\ Words(t[j].length) \in Nat
    <2>1. j - 1 \in 0..n
      BY <1>6
    <2> QED BY <1>3, <1>4, <1>5, <1>6, <2>1
  <1>12. TextTotal(rco, e) = u[n]
    BY <1>1, <1>2, <1>5 DEF TextTotal
  <1> QED BY <1>1, <1>2, <1>10, <1>11, <1>12

(* Writing behind all that is there leaves the texts where they are.       *)
LEMMA TextsKept ==
    ASSUME UNCHANGED <<rco, opts>>, header'.data[TEXT] = header.data[TEXT],
           KeptBut(Stream, Stream', StreamEnd, StreamEnd'),
           StreamEnd \in Int, StreamEnd' \in Int, StreamEnd' >= StreamEnd
    PROVE  /\ \A e : TextAt(e) => TextAt(e)'
           /\ \A n : TextsAt(n) => TextsAt(n)'
  <1>1. ASSUME NEW e, TextAt(e) PROVE TextAt(e)'
    <2>1. TextTotal(rco, e)' = TextTotal(rco, e) /\ TextBefore' = TextBefore
      BY TextsSame DEF TextTotal, TextUsed
    <2>2. PICK d : d = header.data[TEXT] + TextBefore[e-1]
      OBVIOUS
    <2>3. ASSUME NEW k \in 1..TextTotal(rco, e)
          PROVE  /\ d + k - 1 \in HeaderWords..StreamEnd'-1
                 /\ WordAt(Stream', d + k - 1) = DataWord(e, k)
      <3>1. PICK p : p = d + k - 1
        OBVIOUS
      <3>2. p \in HeaderWords..StreamEnd-1 /\ WordAt(Stream, p) = DataWord(e, k)
        BY <1>1, <2>2, <2>3, <3>1 DEF TextAt
      <3>3. p \in HeaderWords..StreamEnd'-1 /\ ~ (StreamEnd <= p /\ p < StreamEnd')
        <4>1. PICK a \in Int : a = StreamEnd
          OBVIOUS
        <4>2. PICK b \in Int : b = StreamEnd'
          OBVIOUS
        <4>3. p \in HeaderWords..a-1 /\ a <= b
          BY <3>2, <4>1, <4>2
        <4>4. p \in HeaderWords..b-1 /\ ~ (a <= p /\ p < b)
          BY ONLY <4>3, a \in Int, b \in Int DEF HeaderWords
        <4> QED BY <4>1, <4>2, <4>4
      <3>4. p \in HeaderWords..EndOf(Stream)-1
        BY <3>2 DEF StreamEnd, EndOf
      <3>5. WordAt(Stream', p) = WordAt(Stream, p)
        BY <3>3, <3>4 DEF KeptBut
      <3> QED BY <3>1, <3>2, <3>3, <3>5
    <2>4. header'.data[TEXT] + TextBefore'[e-1] = d
      BY <2>1, <2>2
    <2> QED BY <2>1, <2>3, <2>4 DEF TextAt, DataWord
  <1>2. ASSUME NEW n, TextsAt(n) PROVE TextsAt(n)'
    <2>1. Languages' = Languages
      BY TextsSame
    <2>2. ASSUME NEW i \in 1..n PROVE TextAt(Languages[i])'
      <3>1. PICK e : e = Languages[i]
        OBVIOUS
      <3>2. TextAt(e)'
        BY <1>1, <1>2, <3>1 DEF TextsAt
      <3> QED BY <2>1, <3>1, <3>2
    <2> QED BY <2>2 DEF TextsAt
  <1> QED BY <1>1, <1>2

(* The header counts the texts of every language.                          *)
LEMMA NothingCounted ==
    ASSUME rco \in Archives, TextsWhole, TextBefore[N] = 0, NEW i \in 1..Len(Languages)
    PROVE  TextTotal(rco, Languages[i]) = 0
  <1>1. PICK e : e = Languages[i]
    OBVIOUS
  <1>2. e \in 1..N /\ i \in DOMAIN Languages
    BY <1>1, LanguagesType
  <1>3. e \in E /\ N \in Nat /\ e \in e..N /\ e - 1 \in 0..N /\ e \in 0..N /\ N \in e..N
    BY <1>2, ParentType
  <1>4. rco.id[e] = TEXT /\ rco.type[e] = 1
    BY <1>1, <1>2, <1>3 DEF TextsWhole
  <1>5. TextShare(e) = TextTotal(rco, e)
    BY <1>4 DEF TextShare
  <1>6. /\ TextBefore[e] = TextBefore[e-1] + TextShare(e)
        /\ TextBefore[e] \in Nat /\ TextBefore[e-1] \in Nat /\ TextShare(e) \in Nat
    BY <1>2, <1>3, TextBeforeType
  <1>7. TextBefore[e] <= TextBefore[N]
    BY <1>3, TextBeforeGrows
  <1>8. TextShare(e) = 0
    <2>1. PICK x \in Nat : x = TextBefore[e]
      BY <1>6
    <2>2. PICK y \in Nat : y = TextBefore[e-1]
      BY <1>6
    <2>3. PICK z \in Nat : z = TextShare(e)
      BY <1>6
    <2>4. x = y + z /\ x <= 0
      BY <1>6, <1>7, <2>1, <2>2, <2>3
    <2>5. z = 0
      BY <2>4
    <2> QED BY <2>3, <2>5
  <1> QED BY <1>1, <1>5, <1>8

LEMMA BeginTexts ==
    ASSUME TypeInv, TreeInv, SizeInv, TextsWhole, ~ Buffered, BeginText
    PROVE  PlainInv'
  <1>1. /\ pc = "text" /\ pc' = "textBody" /\ todo' = Work("textBody")
        /\ UNCHANGED <<rco, opts, file, tables>>
    BY DEF BeginText, Goto
  <1>2. rco \in Archives /\ header \in Headers /\ TEXT \in Kinds
    BY <1>1, LaterStart DEF Later
  <1>3. Work("textBody") = Languages
    <2>1. opts.packText = NONE
      <3>1. opts \in Options
        BY DEF TypeInv
      <3> QED BY <3>1, OptionsAssumption DEF IsOptions, Buffered
    <2> QED BY <2>1 DEF Work, Languages
  <1>4. /\ Languages' = Languages /\ \A e : TextTotal(rco, e)' = TextTotal(rco, e)
        /\ Len(Languages) \in Nat
    BY <1>1, <1>2, TextsSame, LanguagesType DEF TextTotal, TextUsed
  <1>5. NoneSilent'
    <2>1. CASE Languages = <<>>
      <3>1. \A i \in 1..Len(Languages) : FALSE
        BY <2>1
      <3> QED BY <1>4, <3>1 DEF NoneSilent
    <2>2. CASE Languages # <<>>
      <3>1. header' = [header EXCEPT !.data[TEXT] = pos, !.ldata[TEXT] = size[TEXT]]
        BY <1>3, <2>2 DEF BeginText
      <3>2. header'.ldata[TEXT] = size[TEXT]
        BY <1>2, <3>1 DEF Headers
      <3>3. size[TEXT] = TextBefore[N]
        BY <1>1 DEF SizeInv, Counted, TreeWritten
      <3>4. TextBefore[N] = 0 =>
               \A i \in 1..Len(Languages) : TextTotal(rco, Languages[i]) = 0
        BY <1>2, NothingCounted
      <3> QED BY <1>4, <3>2, <3>3, <3>4 DEF NoneSilent
    <2> QED BY <2>1, <2>2
  <1>6. TextsAt(Len(Languages) - Len(todo))'
    <2>1. Len(Languages') - Len(todo') = 0
      BY <1>1, <1>3, <1>4
    <2>2. \A i \in 1..0 : FALSE
      OBVIOUS
    <2> QED BY <2>1, <2>2 DEF TextsAt
  <1> QED BY <1>1, <1>5, <1>6 DEF PlainInv

(* The texts of a language are written where they were counted to.         *)
LEMMA WriteTexts ==
    ASSUME TypeInv, TypeInv', TreeInv, LayoutInv, TextsWhole, ~ Buffered, PlainInv, WriteText
    PROVE  PlainInv'
  <1>1. /\ pc = "textBody" /\ pc' = pc /\ UNCHANGED <<rco, opts, header>>
        /\ todo # <<>> /\ todo' = Tail(todo) /\ Buffered' = Buffered
    BY DEF WriteText, Buffered
  <1>2. /\ pos = StreamEnd /\ rco \in Archives /\ header \in Headers /\ TEXT \in Kinds
        /\ todo \in Seq(E)
    BY <1>1, LaterStart DEF Later, TypeInv
  <1>3. PICK i \in 0..Len(Languages) :
             /\ Len(todo) = Len(Languages) - i
             /\ \A j \in 1..Len(todo) : todo[j] = Languages[i + j]
             /\ header.data[TEXT] + TextBefore[TextsEnd(i)] = StreamEnd
    BY <1>1 DEF LayoutInv, TextLaid
  <1>4. /\ Len(todo) \in Nat \ {0} /\ Head(todo) = todo[1] /\ Len(todo') = Len(todo) - 1
    BY <1>1, <1>2, Popped
  <1>5. Len(Languages) \in Nat /\ \A j \in 1..Len(Languages) : Languages[j] \in 1..N
    BY <1>2, LanguagesType
  <1>6. /\ i \in Nat /\ i + 1 \in 1..Len(Languages) /\ i # Len(Languages)
        /\ Len(Languages) - Len(todo) = i /\ Len(Languages) - Len(todo') = i + 1
    <2>1. PICK n \in Nat : n = Len(Languages)
      BY <1>5
    <2>2. PICK t \in Nat : t = Len(todo)
      BY <1>4
    <2>3. PICK v \in Int : v = Len(todo')
      BY <1>4
    <2>4. i \in 0..n /\ t = n - i /\ t # 0 /\ v = t - 1
      BY <1>3, <1>4, <2>1, <2>2, <2>3
    <2>5. i \in Nat /\ i + 1 \in 1..n /\ i # n /\ n - t = i /\ n - v = i + 1
      BY <2>4
    <2> QED BY <2>1, <2>2, <2>3, <2>5
  <1>7. PICK e : e = Languages[i + 1]
    OBVIOUS
  <1>8. e \in 1..N /\ e \in E /\ e \in Nat /\ N \in Nat /\ Head(todo) = e
    <2>1. 1 \in 1..Len(todo)
      BY <1>4
    <2>2. e \in 1..N
      BY <1>5, <1>6, <1>7
    <2>3. e \in E /\ N \in Nat
      BY <1>2, <2>2, ParentType
    <2>4. todo[1] = e
      BY <1>3, <1>7, <2>1
    <2>5. e \in Nat
      BY <2>2, <2>3
    <2> QED BY <1>4, <2>2, <2>3, <2>4, <2>5
  <1>9. rco.readable[e]
    <2>1. i + 1 \in DOMAIN Languages
      BY <1>2, <1>6, LanguagesType
    <2> QED BY <1>7, <1>8, <2>1 DEF TextsWhole
  <1>10. StreamEnd = header.data[TEXT] + TextBefore[e-1]
    BY <1>3, <1>6, <1>7 DEF TextsEnd
  <1>11. PICK t \in Nat : t = TextTotal(rco, e)
    <2>1. IsArchive(rco) /\ e \in EntriesOf(rco)
      BY <1>2, <1>8, ArchiveType DEF E
    <2> QED BY <2>1, TextUsedType
  <1>12. PICK ws : ws = Data(e, t)
    OBVIOUS
  <1>13. /\ ws \in Seq(Int) /\ Len(ws) = t
         /\ \A k \in 1..t : ws[k] = DataWord(e, k)
    BY <1>8, <1>12, DataType DEF Data
  <1>14. Fwrite(ws)
    BY <1>8, <1>9, <1>11, <1>12 DEF WriteText
  <1>15. Extended /\ StreamEnd' = StreamEnd + t /\ LiesAt(Stream', StreamEnd, ws)
    BY <1>1, <1>2, <1>13, <1>14, FwriteExtends
  <1>16. StreamEnd \in Nat /\ StreamEnd >= HeaderWords /\ StreamEnd' \in Int
    BY <1>15, EndsType
  <1>17. TextAt(e)'
    <2>1. TextTotal(rco, e)' = t /\ TextBefore' = TextBefore
      BY <1>1, <1>11, TextsSame DEF TextTotal, TextUsed
    <2>2. PICK b \in Nat : b = StreamEnd
      BY <1>16
    <2>3. header'.data[TEXT] + TextBefore'[e-1] = b
      BY <1>1, <1>10, <2>1, <2>2
    <2>4. ASSUME NEW k \in 1..t
          PROVE  /\ b + k - 1 \in HeaderWords..StreamEnd'-1
                 /\ WordAt(Stream', b + k - 1) = DataWord(e, k)
      <3>1. StreamEnd' = b + t /\ b >= HeaderWords
        BY <1>15, <1>16, <2>2
      <3>2. b + k - 1 \in HeaderWords..(b + t)-1
        BY <3>1 DEF HeaderWords
      <3>3. WordAt(Stream', b + k - 1) = DataWord(e, k)
        BY <1>13, <1>15, <2>2 DEF LiesAt
      <3> QED BY <3>1, <3>2, <3>3
    <2> QED BY <2>1, <2>3, <2>4 DEF TextAt, DataWord
  <1>18. /\ \A f : TextAt(f) => TextAt(f)'
         /\ NoneSilent => NoneSilent'
    <2>1. \A f : TextAt(f) => TextAt(f)'
      BY <1>1, <1>15, <1>16, TextsKept DEF Extended
    <2>2. Languages' = Languages /\ \A f : TextTotal(rco, f)' = TextTotal(rco, f)
      BY <1>1, TextsSame DEF TextTotal, TextUsed
    <2> QED BY <1>1, <2>1, <2>2 DEF NoneSilent
  <1>19. NoneSilent /\ TextsAt(i)
    BY <1>1, <1>6 DEF PlainInv
  <1>20. TextsAt(Len(Languages) - Len(todo))'
    <2>1. Languages' = Languages
      BY <1>1, TextsSame
    <2>2. ASSUME NEW j \in 1..i+1 PROVE TextAt(Languages[j])'
      <3>1. PICK f : f = Languages[j]
        OBVIOUS
      <3>2. j = i + 1 \/ j \in 1..i
        BY <1>6
      <3>3. TextAt(f)'
        <4>1. CASE j = i + 1
          BY <1>7, <1>17, <3>1, <4>1
        <4>2. CASE j \in 1..i
          BY <1>18, <1>19, <3>1, <4>2 DEF TextsAt
        <4> QED BY <3>2, <4>1, <4>2
      <3> QED BY <2>1, <3>1, <3>3
    <2>3. Len(Languages') - Len(todo') = i + 1
      BY <1>6, <2>1
    <2> QED BY <2>2, <2>3 DEF TextsAt
  <1> QED BY <1>1, <1>18, <1>19, <1>20 DEF PlainInv

(* The phases behind the texts write behind them, and leave the header's   *)
(* pointer to them alone unless there is no text at all.                   *)
LEMMA PlainLater ==
    ASSUME TypeInv, TypeInv', TreeInv, StageInv, LayoutInv, ~ Buffered, PlainInv,
           \/ Fallthrough("textBody", "labels") \/ WriteLabelsEvents \/ Flush
           \/ BeginPackText \/ CopyResources \/ FixHeader
           \/ Fallthrough("packTextBody", "resources")
    PROVE  PlainInv'
  <1>1. LaterStep
    BY DEF LaterStep
  <1>2. Extended /\ pc \in Later /\ UNCHANGED <<rco, opts>>
    BY <1>1, LaterAppends, AppendsExtend
  <1>3. /\ pos = StreamEnd /\ rco \in Archives /\ header \in Headers /\ TEXT \in Kinds
        /\ StreamEnd \in Int /\ StreamEnd' \in Int
    <2>1. StreamEnd' \in Int
      <3>1. Stream' \in Seq(Int)
        BY DEF TypeInv, Stream
      <3> QED BY <3>1 DEF StreamEnd, HeaderWords
    <2> QED BY <1>2, <2>1, LaterStart, EndsType
  <1>4. /\ Languages' = Languages /\ \A e : TextTotal(rco, e)' = TextTotal(rco, e)
        /\ Len(Languages) \in Nat
    BY <1>2, <1>3, TextsSame, LanguagesType DEF TextTotal, TextUsed
  <1>5. ASSUME header'.data[TEXT] = header.data[TEXT]
        PROVE  TextsAt(Len(Languages)) => TextsAt(Len(Languages))'
    <2>1. PICK n : n = Len(Languages)
      OBVIOUS
    <2>2. TextsAt(n) => TextsAt(n)'
      BY <1>2, <1>3, <1>5, TextsKept DEF Extended
    <2>3. n = Len(Languages)'
      BY <1>4, <2>1
    <2> QED BY <2>1, <2>2, <2>3
  <1>6. CASE Fallthrough("textBody", "labels")
    <2>1. /\ pc = "textBody" /\ pc' = "labels" /\ todo = <<>> /\ header' = header
      BY <1>6 DEF Fallthrough, Goto
    <2>2. Len(Languages) - Len(todo) = Len(Languages)
      BY <1>4, <2>1
    <2>3. NoneSilent /\ TextsAt(Len(Languages))
      BY <2>1, <2>2 DEF PlainInv
    <2>4. NoneSilent'
      BY <1>4, <2>1, <2>3 DEF NoneSilent
    <2> QED BY <1>5, <2>1, <2>3, <2>4 DEF PlainInv
  <1>7. CASE WriteLabelsEvents
    <2>1. pc = "labels" /\ pc' = "flush"
      BY <1>7 DEF WriteLabelsEvents, Goto
    <2>2. NoneSilent /\ TextsAt(Len(Languages))
      BY <2>1 DEF PlainInv
    <2>3. TextsAt(Len(Languages))'
      <3>1. CASE header.ldata[TEXT] # 0
        <4>1. header'.data[TEXT] = header.data[TEXT]
          BY <1>3, <1>7, <3>1, LabelsHeader
        <4> QED BY <1>5, <2>2, <4>1
      <3>2. CASE header.ldata[TEXT] = 0
        <4>1. \A i \in 1..Len(Languages) : TextTotal(rco, Languages[i]) = 0
          BY <2>2, <3>2 DEF NoneSilent
        <4>2. ASSUME NEW i \in 1..Len(Languages) PROVE TextAt(Languages[i])'
          <5>1. PICK e : e = Languages[i]
            OBVIOUS
          <5>2. TextTotal(rco, e)' = 0
            BY <1>4, <4>1, <5>1
          <5>3. \A k \in 1..0 : FALSE
            OBVIOUS
          <5>4. TextAt(e)'
            BY <5>2, <5>3 DEF TextAt
          <5> QED BY <1>4, <5>1, <5>4
        <4> QED BY <1>4, <4>2 DEF TextsAt
      <3> QED BY <3>1, <3>2
    <2> QED BY <2>1, <2>3 DEF PlainInv
  <1>8. CASE \/ Flush \/ BeginPackText \/ CopyResources \/ FixHeader
             \/ Fallthrough("packTextBody", "resources")
    <2>1. /\ pc \in {"flush", "packText", "packTextBody", "resources", "header"}
          /\ pc' \in {"packText", "packTextBody", "resources", "header", "done"}
      BY <1>8 DEF Flush, BeginPackText, CopyResources, FixHeader, Fallthrough, Goto
    <2>2. header'.data[TEXT] = header.data[TEXT]
      <3>1. CASE Flush \/ Fallthrough("packTextBody", "resources")
        BY <3>1 DEF Flush, Fallthrough
      <3>2. CASE BeginPackText
        <4>1. opts.packText = NONE
          <5>1. opts \in Options
            BY DEF TypeInv
          <5> QED BY <5>1, OptionsAssumption DEF IsOptions, Buffered
        <4>2. Work("packTextBody") = <<>>
          BY <4>1 DEF Work
        <4> QED BY <3>2, <4>2 DEF BeginPackText
      <3>3. CASE CopyResources
        BY <3>3, CopyHeader
      <3>4. CASE FixHeader
        <4>1. \E f : header' = [header EXCEPT !.table = f]
          BY <3>4 DEF FixHeader
        <4> QED BY <1>3, <4>1 DEF Headers
      <3> QED BY <1>8, <3>1, <3>2, <3>3, <3>4
    <2>3. TextsAt(Len(Languages))
      BY <2>1 DEF PlainInv
    <2>4. TextsAt(Len(Languages))'
      BY <1>5, <2>2, <2>3
    <2> QED BY <2>1, <2>4 DEF PlainInv
  <1> QED BY <1>6, <1>7, <1>8

(* The same for packed texts.                                              *)
LEMMA BlocksKept ==
    ASSUME UNCHANGED <<rco, opts>>, header'.data[TEXT] = header.data[TEXT],
           FileEnd \in Int, FileEnd' \in Int, FileEnd' >= FileEnd,
           \A p \in HeaderWords..FileEnd-1 : FileWord(p)' = FileWord(p)
    PROVE  \A at, n : BlocksAt(at, n) => BlocksAt(at, n)'
  <1>1. /\ Languages' = Languages /\ \A e : TextTotal(rco, e)' = TextTotal(rco, e)
    BY TextsSame DEF TextTotal, TextUsed
  <1>2. ASSUME NEW e, NEW b, NEW c, NEW last, BlockAt(e, b, c, last)
        PROVE  BlockAt(e, b, c, last)'
    <2>1. PICK len \in PackedLens \ {0} :
             /\ b \in Int /\ b >= HeaderWords /\ c = b + BlockWords(len) /\ c <= FileEnd
             /\ \A w \in 1..BlockWords(len) : FileWord(b + w - 1) = TextBlock(e, len, last)[w]
      BY <1>2 DEF BlockAt
    <2>2. BlockWords(len) \in Nat
      <3>1. len \in Nat
        BY PackedLensAssumption
      <3> QED BY <3>1, WordsType DEF BlockWords, TextComprWords
    <2>3. PICK z \in Nat : z = BlockWords(len)
      BY <2>2
    <2>4. TextBlock(e, len, last)' = TextBlock(e, len, last)
      BY <1>1 DEF TextBlock, Data, DataWord
    <2>5. ASSUME NEW w \in 1..z PROVE FileWord(b + w - 1)' = TextBlock(e, len, last)[w]
      <3>1. PICK p \in Int : p = b + w - 1
        BY <2>1
      <3>2. p \in HeaderWords..FileEnd-1
        <4>1. PICK f \in Int : f = FileEnd
          OBVIOUS
        <4>2. b \in Int /\ b >= HeaderWords /\ b + z <= f
          BY <2>1, <2>3, <4>1
        <4>3. p \in HeaderWords..f-1
          BY <3>1, <4>2 DEF HeaderWords
        <4> QED BY <4>1, <4>3
      <3>3. FileWord(p) = TextBlock(e, len, last)[w]
        BY <2>1, <2>3, <3>1
      <3>4. FileWord(p)' = TextBlock(e, len, last)[w]
        BY <3>2, <3>3
      <3> QED BY <3>1, <3>4
    <2>6. c <= FileEnd'
      <3>1. PICK f \in Int : f = FileEnd
        OBVIOUS
      <3>2. PICK g \in Int : g = FileEnd'
        OBVIOUS
      <3>3. c = b + z /\ c <= f /\ f <= g /\ b \in Int
        BY <2>1, <2>3, <3>1, <3>2
      <3>4. c <= g
        BY <3>3
      <3> QED BY <3>2, <3>4
    <2> QED BY <2>1, <2>3, <2>4, <2>5, <2>6 DEF BlockAt, BlockWords
  <1>3. ASSUME NEW at, NEW n, BlocksAt(at, n) PROVE BlocksAt(at, n)'
    <2>1. ASSUME NEW i \in 1..n
          PROVE  BlockAt(Languages[i], at[i], at[i+1], i = Len(Languages))'
      <3>1. PICK e : e = Languages[i]
        OBVIOUS
      <3>2. PICK last : last = (i = Len(Languages))
        OBVIOUS
      <3>3. BlockAt(e, at[i], at[i+1], last)
        BY <1>3, <3>1, <3>2 DEF BlocksAt
      <3>4. BlockAt(e, at[i], at[i+1], last)'
        BY <1>2, <3>3
      <3> QED BY <1>1, <3>1, <3>2, <3>4
    <2> QED BY <1>1, <1>3, <2>1 DEF BlocksAt
  <1> QED BY <1>3

(* Behind a packed header the file only grows.                             *)
LEMMA FileGrows ==
    ASSUME TypeInv, TypeInv', pos = StreamEnd, Buffered, Appends, opts' = opts
    PROVE  /\ FileEnd \in Int /\ FileEnd' \in Int /\ FileEnd' >= FileEnd
           /\ \A p \in HeaderWords..FileEnd-1 : FileWord(p)' = FileWord(p)
  <1>1. FileEnd \in Nat /\ FileEnd' \in Int
    <2>1. FileEnd' \in Int
      <3>1. file' \in Seq(Int)
        BY DEF TypeInv
      <3> QED BY <3>1 DEF FileEnd, HeaderWords
    <2> QED BY <2>1, EndsType
  <1>2. CASE file' = file
    <2>1. FileEnd' = FileEnd /\ \A p : FileWord(p)' = FileWord(p)
      BY <1>2 DEF FileEnd, FileWord
    <2> QED BY <1>1, <2>1
  <1>3. ASSUME NEW ws \in Seq(Int), FileWrite(ws)
        PROVE  /\ FileEnd' >= FileEnd
               /\ \A p \in HeaderWords..FileEnd-1 : FileWord(p)' = FileWord(p)
    <2>1. FileEnd' = FileEnd + Len(ws)
      BY <1>3, FileWriteEnds
    <2>2. Len(ws) \in Nat
      OBVIOUS
    <2>3. PICK n \in Nat : n = Len(file)
      BY DEF TypeInv
    <2>4. file' = PutAt(file, n, ws) /\ file \in Seq(Int)
      <3>1. FilePos - HeaderWords = n
        BY <2>3 DEF FilePos, HeaderWords
      <3> QED BY <1>3, <3>1 DEF FileWrite, TypeInv
    <2>5. \A k \in 1..n : file'[k] = file[k]
      <3>1. \A k \in 1..Len(file) : ~ (n < k /\ k <= n + Len(ws)) => file'[k] = file[k]
        BY <2>4, PutAtWords
      <3> QED BY <2>3, <3>1
    <2>6. ASSUME NEW p \in HeaderWords..FileEnd-1 PROVE FileWord(p)' = FileWord(p)
      <3>1. PICK x \in Int : x = p - HeaderWords + 1
        BY DEF HeaderWords
      <3>2. x \in 1..n
        BY <1>1, <2>3, <3>1 DEF FileEnd, HeaderWords
      <3> QED BY <2>5, <3>1, <3>2 DEF FileWord, HeaderWords
    <2> QED BY <1>1, <2>1, <2>2, <2>6
  <1>4. CASE \E ws \in Seq(Int) : Fwrite(ws)
    BY <1>2, <1>4 DEF Fwrite, WriteAt
  <1>5. CASE \E ws \in Seq(Int) : FileWrite(ws)
    BY <1>1, <1>3, <1>5
  <1> QED BY <1>2, <1>4, <1>5 DEF Appends

LEMMA BeginBlocks ==
    ASSUME TypeInv, TreeInv, Buffered, Languages # <<>>, BeginPackText
    PROVE  PackedInv'
  <1>1. /\ pc = "packText" /\ pc' = "packTextBody" /\ todo' = Work("packTextBody")
        /\ UNCHANGED <<rco, opts, file, tables>>
    BY DEF BeginPackText, Goto
  <1>2. rco \in Archives /\ header \in Headers /\ TEXT \in Kinds
    BY <1>1, LaterStart DEF Later
  <1>3. Work("packTextBody") = Languages /\ Kids(TEXT) = Languages
    <2>1. opts.packText # NONE
      <3>1. opts \in Options
        BY DEF TypeInv
      <3> QED BY <3>1, OptionsAssumption DEF IsOptions, Buffered
    <2> QED BY <2>1 DEF Work, Languages, Kids
  <1>4. FilePos = FileEnd /\ FileEnd \in Nat /\ FileEnd' = FileEnd
    BY <1>1, EndsType, EndsSame
  <1>5. Languages' = Languages /\ Len(Languages) \in Nat
    BY <1>1, <1>2, TextsSame, LanguagesType
  <1>6. header'.data[TEXT] = FileEnd
    <2>1. header' = [header EXCEPT !.data[TEXT] = FilePos, !.ldata[TEXT] = 0]
      BY <1>3 DEF BeginPackText
    <2> QED BY <1>2, <1>4, <2>1 DEF Headers
  <1>7. PICK at : at = [x \in 1..Len(Languages)+1 |-> FileEnd]
    OBVIOUS
  <1>8. BlocksAt(at, 0)'
    <2>1. at \in [1..Len(Languages)+1 -> Int] /\ at[1] = FileEnd
      BY <1>4, <1>5, <1>7
    <2>2. \A i \in 1..0 : FALSE
      OBVIOUS
    <2> QED BY <1>5, <1>6, <2>1, <2>2 DEF BlocksAt
  <1>9. at[0+1] = FileEnd'
    BY <1>4, <1>5, <1>7
  <1>10. Left(TEXT, 0)'
    BY <1>1, <1>2, <1>3, LeftStart
  <1>11. 0 \in 0..Len(Languages')
    BY <1>5
  <1> QED BY <1>1, <1>8, <1>9, <1>10, <1>11 DEF PackedInv

(* A block is written behind those of the languages before.                *)
LEMMA WriteBlock ==
    ASSUME TypeInv, TypeInv', TreeInv, Buffered, Languages # <<>>, TextsSure,
           PackedInv, PackText
    PROVE  PackedInv'
  <1>1. /\ pc = "packTextBody" /\ pc' = pc /\ todo # <<>> /\ todo' = Tail(todo)
        /\ todo \in Seq(E) /\ Head(todo) \in E
    BY PackStep
  <1>2. UNCHANGED <<rco, opts>>
    BY DEF PackText
  <1>3. /\ pos = StreamEnd /\ rco \in Archives /\ header \in Headers /\ TEXT \in Kinds
    BY <1>1, LaterStart DEF Later
  <1>4. Kids(TEXT) = Languages /\ Len(Languages) \in Nat /\ DOMAIN Languages = 1..Len(Languages)
    BY <1>3, LanguagesType DEF Kids, Languages
  <1>5. PICK n \in 0..Len(Languages) : \E at :
           Left(TEXT, n) /\ BlocksAt(at, n) /\ at[n+1] = FileEnd
    BY <1>1 DEF PackedInv
  <1>6. PICK at : Left(TEXT, n) /\ BlocksAt(at, n) /\ at[n+1] = FileEnd
    BY <1>5
  <1>7. n < Len(Languages) /\ Languages[n+1] = Head(todo) /\ Left(TEXT, n + 1)'
    <2>1. n \in 0..Len(Kids(TEXT)) /\ pc # "hash"
      BY <1>1, <1>4
    <2> QED BY <1>1, <1>2, <1>4, <1>6, <2>1, LeftOne
  <1>8. PICK e \in E : e = Head(todo)
    BY <1>1
  <1>9. n \in Nat /\ n + 1 \in 1..Len(Languages) /\ n + 1 \in 0..Len(Languages)
        /\ n + 1 \in 1..Len(Languages)+1 /\ n + 2 \in 1..Len(Languages)+1
    BY <1>4, <1>7
  <1>10. rco.readable[e]
    <2>1. n + 1 \in DOMAIN Languages
      BY <1>4, <1>9
    <2> QED BY <1>7, <1>8, <2>1 DEF TextsSure
  <1>11. PICK len \in PackedLens :
            /\ FileWrite(TextBlock(e, len, Tail(todo) = <<>>))
            /\ header' = [header EXCEPT !.ldata[TEXT] = header.ldata[TEXT] + BlockWords(len)]
    BY <1>8, <1>10 DEF PackText
  <1>12. len \in Nat /\ len # 0
    BY PackedLensAssumption DEF TextsSure
  <1>13. PICK last : last = (n + 1 = Len(Languages))
    OBVIOUS
  <1>14. (Tail(todo) = <<>>) = last
    <2>1. Tail(todo) = <<>> <=> Len(todo) = 1
      BY <1>1, Popped
    <2>2. Len(todo) = Len(Languages) - n
      BY <1>4, <1>6 DEF Left
    <2>3. Len(todo) = 1 <=> n + 1 = Len(Languages)
      <3>1. PICK z \in Nat : z = Len(Languages)
        BY <1>4
      <3>2. PICK t : t = Len(todo)
        OBVIOUS
      <3>3. t = z - n
        BY <2>2, <3>1, <3>2
      <3>4. t = 1 <=> n + 1 = z
        BY <1>9, <3>3
      <3> QED BY <3>1, <3>2, <3>4
    <2> QED BY <1>13, <2>1, <2>3
  <1>15. PICK ws : ws = TextBlock(e, len, last)
    OBVIOUS
  <1>16. ws \in Seq(Int) /\ Len(ws) = BlockWords(len) /\ BlockWords(len) \in Nat
    BY <1>12, <1>15, TextBlockType
  <1>17. FileWrite(ws)
    BY <1>11, <1>14, <1>15
  <1>18. PICK p : p = FileEnd
    OBVIOUS
  <1>19. /\ p \in Int /\ p >= HeaderWords /\ FileEnd' = p + BlockWords(len)
         /\ \A j \in 1..BlockWords(len) : FileWord(p + j - 1)' = ws[j]
    <2>1. p = FilePos /\ p \in Int /\ p >= HeaderWords
      BY <1>18, EndsType
    <2> QED BY <1>2, <1>3, <1>16, <1>17, <2>1, FileWriteWords
  <1>20. header'.data[TEXT] = header.data[TEXT]
    BY <1>3, <1>11 DEF Headers
  <1>21. BlocksAt(at, n)'
    <2>1. Appends
      BY PackTextAppends
    <2>2. /\ FileEnd \in Int /\ FileEnd' \in Int /\ FileEnd' >= FileEnd
          /\ \A q \in HeaderWords..FileEnd-1 : FileWord(q)' = FileWord(q)
      BY <1>2, <1>3, <2>1, FileGrows
    <2> QED BY <1>2, <1>6, <1>20, <2>2, BlocksKept
  <1>30. PICK end : end = FileEnd'
    OBVIOUS
  <1>22. PICK at2 : at2 = [at EXCEPT ![n+2] = end]
    OBVIOUS
  <1>23. /\ at \in [1..Len(Languages)+1 -> Int] /\ at[1] = header.data[TEXT]
    BY <1>6 DEF BlocksAt
  <1>24. /\ at2 \in [1..Len(Languages)+1 -> Int] /\ at2[n+2] = end
         /\ \A i \in 1..n+1 : at2[i] = at[i]
    <2>1. end \in Int
      BY <1>16, <1>19, <1>30
    <2>2. \A i \in 1..n+1 : i \in 1..Len(Languages)+1 /\ i # n + 2
      BY <1>4, <1>9
    <2> QED BY <1>9, <1>22, <1>23, <2>1, <2>2
  <1>25. BlockAt(e, p, end, last)'
    <2>1. TextBlock(e, len, last)' = ws
      <3>1. TextTotal(rco, e)' = TextTotal(rco, e)
        BY <1>2 DEF TextTotal, TextUsed
      <3> QED BY <1>2, <1>15, <3>1 DEF TextBlock, Data, DataWord
    <2>2. BlockWords(len)' = BlockWords(len)
      BY DEF BlockWords
    <2>3. end <= FileEnd' /\ end = p + BlockWords(len)
      BY <1>16, <1>19, <1>30
    <2>4. /\ len \in PackedLens \ {0}
          /\ p \in Int /\ p >= HeaderWords
          /\ \A w \in 1..BlockWords(len) : FileWord(p + w - 1)' = TextBlock(e, len, last)'[w]
      BY <1>12, <1>19, <2>1
    <2> QED BY <2>2, <2>3, <2>4 DEF BlockAt
  <1>26. Languages' = Languages
    BY <1>2, TextsSame
  <1>27. BlocksAt(at2, n + 1)'
    <2>1. ASSUME NEW i \in 1..n+1
          PROVE  BlockAt(Languages[i], at2[i], at2[i+1], i = Len(Languages))'
      <3>1. CASE i = n + 1
        <4>2. at2[i] = p /\ at2[i+1] = end /\ Languages[i] = e
              /\ (i = Len(Languages)) = last
          <5>1. i + 1 = n + 2 /\ i \in 1..n+1
            BY <1>9, <3>1
          <5> QED BY <1>6, <1>7, <1>8, <1>13, <1>18, <1>24, <3>1, <5>1
        <4>3. BlockAt(e, p, end, last)'
          BY <1>25
        <4> QED BY <1>26, <4>2, <4>3
      <3>2. CASE i # n + 1
        <4>1. i \in 1..n /\ i + 1 \in 1..n+1
          BY <1>9, <3>2
        <4>2. at2[i] = at[i] /\ at2[i+1] = at[i+1]
          BY <1>24, <4>1
        <4>3. BlockAt(Languages[i], at[i], at[i+1], i = Len(Languages))'
          BY <1>21, <4>1 DEF BlocksAt
        <4> QED BY <4>2, <4>3
      <3> QED BY <3>1, <3>2
    <2>2. at2[1] = header'.data[TEXT]
      <3>1. 1 \in 1..n+1
        BY <1>9
      <3> QED BY <1>20, <1>23, <1>24, <3>1
    <2> QED BY <1>24, <1>26, <2>1, <2>2 DEF BlocksAt
  <1>28. at2[(n+1)+1] = FileEnd' /\ n + 1 \in 0..Len(Languages')
    <2>1. (n + 1) + 1 = n + 2
      BY <1>9
    <2> QED BY <1>9, <1>24, <1>26, <1>30, <2>1
  <1> QED BY <1>1, <1>7, <1>27, <1>28 DEF PackedInv

LEMMA PackedLater ==
    ASSUME TypeInv, TypeInv', TreeInv, StageInv, Buffered, PackedInv,
           Fallthrough("packTextBody", "resources") \/ CopyResources \/ FixHeader
    PROVE  PackedInv'
  <1>1. LaterStep
    BY DEF LaterStep
  <1>2. Appends /\ pc \in Later /\ UNCHANGED <<rco, opts>>
    BY <1>1, LaterAppends
  <1>3. pos = StreamEnd /\ rco \in Archives /\ header \in Headers /\ TEXT \in Kinds
    BY <1>2, LaterStart
  <1>4. /\ pc \in {"packTextBody", "resources", "header"}
        /\ pc' \in {"resources", "header", "done"}
    BY DEF CopyResources, FixHeader, Fallthrough, Goto
  <1>5. \E at : BlocksAt(at, Len(Languages))
    <2>1. CASE Fallthrough("packTextBody", "resources")
      <3>1. pc = "packTextBody" /\ todo = <<>>
        BY <2>1 DEF Fallthrough
      <3>2. PICK n \in 0..Len(Languages) : \E at :
               Left(TEXT, n) /\ BlocksAt(at, n) /\ at[n+1] = FileEnd
        BY <3>1 DEF PackedInv
      <3>3. n = Len(Languages)
        <4>1. Kids(TEXT) = Languages
          BY DEF Kids, Languages
        <4> QED BY <1>3, <3>1, <3>2, <4>1, LeftEnd
      <3> QED BY <3>2, <3>3
    <2>2. CASE CopyResources \/ FixHeader
      <3>1. pc \in {"resources", "header"}
        BY <2>2 DEF CopyResources, FixHeader
      <3> QED BY <3>1 DEF PackedInv
    <2> QED BY <2>1, <2>2
  <1>6. header'.data[TEXT] = header.data[TEXT]
    <2>1. CASE Fallthrough("packTextBody", "resources")
      BY <2>1 DEF Fallthrough
    <2>2. CASE CopyResources
      BY <2>2, CopyHeader
    <2>3. CASE FixHeader
      <3>1. \E f : header' = [header EXCEPT !.table = f]
        BY <2>3 DEF FixHeader
      <3> QED BY <1>3, <3>1 DEF Headers
    <2> QED BY <2>1, <2>2, <2>3
  <1>7. /\ FileEnd \in Int /\ FileEnd' \in Int /\ FileEnd' >= FileEnd
        /\ \A p \in HeaderWords..FileEnd-1 : FileWord(p)' = FileWord(p)
    BY <1>2, <1>3, FileGrows
  <1>8. PICK n : n = Len(Languages)
    OBVIOUS
  <1>9. PICK at : BlocksAt(at, n)
    BY <1>5, <1>8
  <1>10. BlocksAt(at, n)'
    BY <1>2, <1>6, <1>7, <1>9, BlocksKept
  <1>11. n = Len(Languages)'
    BY <1>2, <1>8, TextsSame
  <1>12. \E b : BlocksAt(b, Len(Languages))'
    BY <1>10, <1>11
  <1> QED BY <1>4, <1>12 DEF PackedInv

TextPhases == {"textBody", "labels", "flush", "packText", "packTextBody",
               "resources", "header", "done"}
PackedPhases == {"packTextBody", "resources", "header", "done"}

LEMMA NextTexts ==
    ASSUME TypeInv, TypeInv', TreeInv, SizeInv, StageInv, LayoutInv, TextsSure, TextInv, Next
    PROVE  TextInv'
  <1>1. /\ pc' \notin TextPhases => PlainInv'
        /\ pc' \notin PackedPhases => PackedInv'
    BY DEF PlainInv, PackedInv, TextPhases, PackedPhases
  <1>2. CASE \/ EarlyStep \/ WritePlaceholderHeader
             \/ WriteMain \/ WriteChild \/ FinishEntry \/ FixEntry
             \/ Fallthrough("fixObj", "fixAnim") \/ Fallthrough("fixAnim", "hashText")
             \/ HashText \/ HashLang \/ HashTree
             \/ Fallthrough("hashLang", "hash") \/ Fallthrough("hash", "text")
    <2>1. pc' \notin TextPhases /\ pc' \notin PackedPhases
      <3>1. CASE EarlyStep
        BY <3>1, EarlySteps DEF Early, TextPhases, PackedPhases
      <3>2. CASE WritePlaceholderHeader \/ WriteMain \/ WriteChild \/ FinishEntry
        BY <3>2 DEF WritePlaceholderHeader, WriteMain, WriteChild, FinishEntry, Enter,
                    Goto, TextPhases, PackedPhases
      <3>3. CASE \/ FixEntry \/ Fallthrough("fixObj", "fixAnim")
                 \/ Fallthrough("fixAnim", "hashText")
        BY <3>3 DEF FixEntry, Fallthrough, Goto, TextPhases, PackedPhases
      <3>4. CASE \/ HashText \/ HashLang \/ HashTree
                 \/ Fallthrough("hashLang", "hash") \/ Fallthrough("hash", "text")
        BY <3>4 DEF HashText, HashLang, HashTree, Fallthrough, Goto, TextPhases, PackedPhases
      <3> QED BY <1>2, <3>1, <3>2, <3>3, <3>4
    <2> QED BY <1>1, <2>1 DEF TextInv
  <1>3. CASE LaterStep
    <2>1. UNCHANGED <<rco, opts>>
      BY <1>3, LaterAppends
    <2>2. Languages' = Languages /\ Buffered' = Buffered
      BY <2>1, TextsSame DEF Buffered
    <2>3. /\ ~ Buffered => PlainInv /\ TextsWhole
          /\ Buffered /\ Languages # <<>> => PackedInv
      BY DEF TextInv, TextsSure
    <2>4. CASE BeginText \/ WriteText
      <3>1. pc' \notin PackedPhases
        BY <2>4 DEF BeginText, WriteText, Goto, PackedPhases
      <3>2. ~ Buffered => PlainInv'
        BY <2>3, <2>4, BeginTexts, WriteTexts
      <3> QED BY <1>1, <2>2, <3>1, <3>2 DEF TextInv
    <2>5. CASE Fallthrough("textBody", "labels") \/ WriteLabelsEvents \/ Flush
      <3>1. pc' \notin PackedPhases
        BY <2>5 DEF Fallthrough, WriteLabelsEvents, Flush, Goto, PackedPhases
      <3>2. ~ Buffered => PlainInv'
        BY <2>3, <2>5, PlainLater
      <3> QED BY <1>1, <2>2, <3>1, <3>2 DEF TextInv
    <2>6. CASE BeginPackText
      <3>1. ~ Buffered => PlainInv'
        BY <2>3, <2>6, PlainLater
      <3>2. Buffered /\ Languages # <<>> => PackedInv'
        BY <2>6, BeginBlocks
      <3> QED BY <2>2, <3>1, <3>2 DEF TextInv
    <2>7. CASE PackText
      <3>1. Buffered
        BY <2>7 DEF LayoutInv, PackedLaid, PackText
      <3>2. Languages # <<>> => PackedInv'
        BY <2>3, <2>7, <3>1, WriteBlock
      <3> QED BY <2>2, <3>1, <3>2 DEF TextInv
    <2>8. CASE \/ Fallthrough("packTextBody", "resources")
               \/ CopyResources \/ FixHeader
      <3>1. ~ Buffered => PlainInv'
        BY <2>3, <2>8, PlainLater
      <3>2. Buffered /\ Languages # <<>> => PackedInv'
        BY <2>3, <2>8, PackedLater
      <3> QED BY <2>2, <3>1, <3>2 DEF TextInv
    <2> QED BY <1>2, <1>3, <2>4, <2>5, <2>6, <2>7, <2>8 DEF LaterStep
  <1> QED BY <1>2, <1>3, NextSteps

LEMMA StutterTexts ==
    ASSUME TextInv, UNCHANGED vars
    PROVE  TextInv'
  <1>1. UNCHANGED <<rco, opts, pc, todo, file, tables, header>>
    BY DEF vars
  <1>2. /\ Languages' = Languages /\ Buffered' = Buffered /\ TextBefore' = TextBefore
        /\ Stream' = Stream /\ StreamEnd' = StreamEnd /\ FileEnd' = FileEnd
        /\ \A p : FileWord(p)' = FileWord(p)
        /\ \A e : TextTotal(rco, e)' = TextTotal(rco, e)
    BY <1>1, TextsSame, EndsSame DEF Buffered, Stream, FileWord, TextTotal, TextUsed
  <1>3. /\ \A e : TextAt(e)' <=> TextAt(e)
        /\ \A e, b, c, last : BlockAt(e, b, c, last)' <=> BlockAt(e, b, c, last)
    <2>1. \A e, len, last : TextBlock(e, len, last)' = TextBlock(e, len, last)
      BY <1>1, <1>2 DEF TextBlock, Data, DataWord
    <2>2. \A e : TextAt(e)' <=> TextAt(e)
      BY <1>1, <1>2 DEF TextAt, WordAt
    <2>3. \A e, b, c, last : BlockAt(e, b, c, last)' <=> BlockAt(e, b, c, last)
      BY <1>1, <1>2, <2>1 DEF BlockAt, BlockWords
    <2> QED BY <2>2, <2>3
  <1>4. /\ \A n : TextsAt(n)' <=> TextsAt(n)
        /\ \A at, n : BlocksAt(at, n)' <=> BlocksAt(at, n)
        /\ \A n : Left(TEXT, n)' <=> Left(TEXT, n)
        /\ NoneSilent' <=> NoneSilent
    <2>1. \A n : TextsAt(n)' <=> TextsAt(n)
      BY <1>2, <1>3 DEF TextsAt
    <2>2. \A at, n : BlocksAt(at, n)' <=> BlocksAt(at, n)
      BY <1>1, <1>2, <1>3 DEF BlocksAt
    <2>3. \A n : Left(TEXT, n)' <=> Left(TEXT, n)
      BY <1>1 DEF Left, Kids, Children, Table
    <2>4. NoneSilent' <=> NoneSilent
      BY <1>1, <1>2 DEF NoneSilent
    <2> QED BY <2>1, <2>2, <2>3, <2>4
  <1>5. PlainInv => PlainInv'
    <2>1. /\ TextsAt(Len(Languages))' <=> TextsAt(Len(Languages))
          /\ TextsAt(Len(Languages) - Len(todo))' <=> TextsAt(Len(Languages) - Len(todo))
      <3>1. PICK n : n = Len(Languages)
        OBVIOUS
      <3>2. PICK m : m = Len(Languages) - Len(todo)
        OBVIOUS
      <3>3. n = Len(Languages)' /\ m = (Len(Languages) - Len(todo))'
        BY <1>1, <1>2, <3>1, <3>2
      <3>4. (TextsAt(n)' <=> TextsAt(n)) /\ (TextsAt(m)' <=> TextsAt(m))
        BY <1>4
      <3> QED BY <3>1, <3>2, <3>3, <3>4
    <2> QED BY <1>1, <1>4, <2>1 DEF PlainInv
  <1>6. PackedInv => PackedInv'
    <2> SUFFICES ASSUME PackedInv PROVE PackedInv'
      OBVIOUS
    <2>1. ASSUME pc = "packTextBody"
          PROVE  \E n \in 0..Len(Languages') : \E at :
                    Left(TEXT, n)' /\ BlocksAt(at, n)' /\ at[n+1] = FileEnd'
      <3>1. PICK n \in 0..Len(Languages) : \E at :
               Left(TEXT, n) /\ BlocksAt(at, n) /\ at[n+1] = FileEnd
        BY <2>1 DEF PackedInv
      <3> QED BY <1>2, <1>4, <3>1
    <2>2. ASSUME pc \in {"resources", "header", "done"}
          PROVE  \E at : BlocksAt(at, Len(Languages))'
      <3>1. PICK n : n = Len(Languages)
        OBVIOUS
      <3>2. PICK at : BlocksAt(at, n)
        BY <2>2, <3>1 DEF PackedInv
      <3>3. BlocksAt(at, n)' /\ n = Len(Languages)'
        BY <1>2, <1>4, <3>1, <3>2
      <3> QED BY <3>3
    <2> QED BY <1>1, <2>1, <2>2 DEF PackedInv
  <1> QED BY <1>2, <1>5, <1>6 DEF TextInv

LEMMA InitTexts == ASSUME Init PROVE TextInv
  BY DEF Init, TextInv, PlainInv, PackedInv

(* What a reader finds in the block of a language.                         *)
LEMMA BlockRead ==
    ASSUME TypeInv, NEW e \in E, NEW b, NEW c, NEW last \in BOOLEAN, BlockAt(e, b, c, last)
    PROVE  /\ FileWord(b) = rco.lang[e] + 65536
           /\ (FileWord(b + 1) = 0) = last
           /\ ~ last => c = b + FileWord(b + 1)
           /\ FileWord(b + 2) \in PackedLens \ {0} /\ c = b + BlockWords(FileWord(b + 2))
           /\ Holds(b + TextComprWords, e, 0, Words(FileWord(b + 2)))
           /\ FileWord(b + 3) = TextTotal(rco, e)
  <1>1. PICK len \in PackedLens \ {0} :
           /\ b \in Int /\ b >= HeaderWords /\ c = b + BlockWords(len) /\ c <= FileEnd
           /\ \A w \in 1..BlockWords(len) : FileWord(b + w - 1) = TextBlock(e, len, last)[w]
    BY DEF BlockAt
  <1>2. len \in Nat /\ len # 0 /\ e \in Nat
    <2>1. rco \in Archives
      BY DEF TypeInv
    <2> QED BY <2>1, EntryType, PackedLensAssumption
  <1>3. PICK n \in Nat : n = Words(len)
    BY <1>2, WordsType
  <1>4. BlockWords(len) = 4 + n
    BY <1>2, <1>3 DEF BlockWords, TextComprWords
  <1>4a. PICK x \in Int : x = IF last THEN 0 ELSE 4 + n
    BY <1>3
  <1>4b. PICK g : g = rco.lang[e] + 65536
    OBVIOUS
  <1>4c. PICK t : t = TextTotal(rco, e)
    OBVIOUS
  <1>5. PICK head : head = <<g, x, len, t>>
    OBVIOUS
  <1>6. PICK d : d = Data(e, n)
    OBVIOUS
  <1>7. TextBlock(e, len, last) = head \o d
    BY <1>2, <1>3, <1>4, <1>4a, <1>4b, <1>4c, <1>5, <1>6 DEF TextBlock
  <1>8. head \in Seq(Int) /\ Len(head) = 4
    <2>1. rco.lang[e] \in Nat /\ TextTotal(rco, e) \in Nat
      BY ArchiveType, EntryType, TextUsedType DEF TypeInv, E
    <2>2. g \in Int /\ t \in Int /\ len \in Int
      BY <1>2, <1>4b, <1>4c, <2>1
    <2> QED BY <1>5, <2>2
  <1>9. d \in Seq(Int) /\ Len(d) = n /\ \A k \in 1..n : d[k] = DataWord(e, k)
    BY <1>2, <1>3, <1>6, DataType DEF Data
  <1>10. /\ \A k \in 1..4 : TextBlock(e, len, last)[k] = head[k]
         /\ \A k \in 1..n : TextBlock(e, len, last)[4 + k] = d[k]
    <2>1. /\ \A k \in 1..Len(head) : (head \o d)[k] = head[k]
          /\ \A k \in 1..Len(d) : (head \o d)[Len(head) + k] = d[k]
      <3>1. head \in Seq(Int) /\ d \in Seq(Int)
        BY <1>8, <1>9
      <3> QED BY <3>1, ConcatBegins
    <2> QED BY <1>7, <1>8, <1>9, <2>1
  <1>11. \A w \in 1..4+n : FileWord(b + w - 1) = TextBlock(e, len, last)[w]
    BY <1>1, <1>4
  <1>12. /\ FileWord(b) = head[1] /\ FileWord(b + 1) = head[2]
         /\ FileWord(b + 2) = head[3] /\ FileWord(b + 3) = head[4]
    <2>1. /\ 1 \in 1..4 /\ 2 \in 1..4 /\ 3 \in 1..4 /\ 4 \in 1..4
          /\ 1 \in 1..4+n /\ 2 \in 1..4+n /\ 3 \in 1..4+n /\ 4 \in 1..4+n
          /\ b + 1 - 1 = b /\ b + 2 - 1 = b + 1 /\ b + 3 - 1 = b + 2 /\ b + 4 - 1 = b + 3
      BY <1>1
    <2>2. \A w \in 1..4 : w \in 1..4+n /\ FileWord(b + w - 1) = head[w]
      <3>1. \A w \in 1..4 : w \in 1..4+n
        OBVIOUS
      <3> QED BY <1>10, <1>11, <3>1
    <2> QED BY <2>1, <2>2
  <1>13. /\ head[1] = rco.lang[e] + 65536 /\ head[2] = IF last THEN 0 ELSE 4 + n
         /\ head[3] = len /\ head[4] = TextTotal(rco, e)
    BY <1>4a, <1>4b, <1>4c, <1>5
  <1>14. \A k \in 1..n : FileWord((b + 4) + k - 1) = DataWord(e, 0 + k)
    <2> TAKE k \in 1..n
    <2>1. 4 + k \in 1..4+n /\ b + (4 + k) - 1 = (b + 4) + k - 1 /\ 0 + k = k
      BY <1>1
    <2>2. FileWord(b + (4 + k) - 1) = d[k]
      BY <1>10, <1>11, <2>1
    <2> QED BY <1>9, <2>1, <2>2
  <1>15. (b + 4) + n <= FileEnd
    BY <1>1, <1>4
  <1>16. Words(FileWord(b + 2)) = n
    BY <1>3, <1>12, <1>13
  <1>17. Holds(b + TextComprWords, e, 0, Words(FileWord(b + 2)))
    BY <1>14, <1>15, <1>16 DEF Holds, TextComprWords
  <1>18. (FileWord(b + 1) = 0) = last /\ (~ last => c = b + FileWord(b + 1))
    BY <1>1, <1>4, <1>12, <1>13
  <1>19. FileWord(b + 2) \in PackedLens \ {0} /\ c = b + BlockWords(FileWord(b + 2))
    BY <1>1, <1>12, <1>13
  <1> QED BY <1>12, <1>13, <1>17, <1>18, <1>19

(* nextOffset leads from one block to the next.                            *)
Following(block) ==
    [i \in 1..Len(Languages) |-> IF i = 1 THEN header.data[TEXT]
                                 ELSE block[i-1] + FileWord(block[i-1] + 1)]

LEMMA BlocksChained ==
    ASSUME TypeInv, NEW at, BlocksAt(at, Len(Languages))
    PROVE  /\ \E f : f = Following(f)
           /\ \A f : f = Following(f) => \A i \in 1..Len(Languages) : f[i] = at[i]
  <1>1. /\ Len(Languages) \in Nat /\ \A i \in 1..Len(Languages) : Languages[i] \in E
    <2>1. rco \in Archives
      BY DEF TypeInv
    <2> QED BY <2>1, LanguagesType, ParentType
  <1>2. PICK n \in Nat : n = Len(Languages)
    BY <1>1
  <1>3. at \in [1..n+1 -> Int] /\ at[1] = header.data[TEXT]
    BY <1>2 DEF BlocksAt
  <1>4. ASSUME NEW i \in 1..n, i # n
        PROVE  at[i+1] = at[i] + FileWord(at[i] + 1)
    <2>1. PICK e \in E : e = Languages[i]
      BY <1>1, <1>2
    <2>2. PICK last \in BOOLEAN : last = (i = n)
      OBVIOUS
    <2>3. BlockAt(e, at[i], at[i+1], last) /\ ~ last
      BY <1>2, <1>4, <2>1, <2>2 DEF BlocksAt
    <2> QED BY <2>3, BlockRead
  <1>5. \E f : f = Following(f)
    <2>1. PICK f : f = [i \in 1..n |-> at[i]]
      OBVIOUS
    <2>2. ASSUME NEW i \in 1..n
          PROVE  f[i] = IF i = 1 THEN header.data[TEXT] ELSE f[i-1] + FileWord(f[i-1] + 1)
      <3>1. CASE i = 1
        BY <1>3, <2>1, <3>1
      <3>2. CASE i # 1
        <4>1. PICK j \in 1..n : i = j + 1 /\ j # n /\ i - 1 = j
          <5>1. i - 1 \in 1..n /\ i = (i - 1) + 1 /\ i - 1 # n
            BY <3>2
          <5> QED BY <5>1
        <4> QED BY <1>4, <2>1, <3>2, <4>1
      <3> QED BY <3>1, <3>2
    <2>3. f = Following(f)
      BY <1>2, <2>1, <2>2 DEF Following
    <2> QED BY <2>3
  <1>6. ASSUME NEW f, f = Following(f)
        PROVE  \A i \in 1..Len(Languages) : f[i] = at[i]
    <2>1. \A i \in 1..n : f[i] = IF i = 1 THEN header.data[TEXT]
                                 ELSE f[i-1] + FileWord(f[i-1] + 1)
      BY <1>2, <1>6 DEF Following
    <2> DEFINE T == {i \in 0..n : i # 0 => f[i] = at[i]}
    <2>2. 0 \in T
      OBVIOUS
    <2>3. ASSUME NEW i \in 1..n, i - 1 \in T PROVE i \in T
      <3>1. CASE i = 1
        BY <1>3, <2>1, <3>1
      <3>2. CASE i # 1
        <4>1. PICK j \in 1..n : i = j + 1 /\ j # n /\ i - 1 = j
          <5>1. i - 1 \in 1..n /\ i = (i - 1) + 1 /\ i - 1 # n
            BY <3>2
          <5> QED BY <5>1
        <4>2. f[j] = at[j]
          BY <2>3, <4>1
        <4>3. f[i] = f[j] + FileWord(f[j] + 1)
          BY <2>1, <3>2, <4>1
        <4>4. f[i] = at[i] /\ i \in 0..n
          BY <1>4, <4>1, <4>2, <4>3
        <4> QED BY <4>4
      <3> QED BY <3>1, <3>2
    <2>4. 0..n \subseteq T
      <3> HIDE DEF T
      <3> QED BY <2>2, <2>3, UpTo
    <2>5. \A i \in 1..n : f[i] = at[i]
      BY <2>4
    <2> QED BY <1>2, <2>5
  <1> QED BY <1>5, <1>6

(* What a reader finds from the index of a text.                           *)
LEMMA TextRead ==
    ASSUME TypeInv, ~ Buffered, NEW e \in E, Indexed(e, N), TextAt(e),
           NEW j \in DOMAIN rco.indexes[e],
           rco.indexes[e][j].null => rco.indexes[e][j].length = 0
    PROVE  LET q == offset[e] + EntryWords + TextEntryWords + TextIndexWords * (j - 1)
               n == Words(Word(q + 1))
           IN n > 0 => Holds(header.data[TEXT] + Word(q + 2) \div 4, e,
                             TextUsed(rco, e)[j-1], n)
  <1>1. /\ rco \in Archives /\ E = 1..N /\ N \in Nat /\ e \in Nat
        /\ offset \in [E -> Nat] /\ header \in Headers /\ TEXT \in Kinds
    BY ParentType, KindNames, EntryType DEF TypeInv
  <1>2. PICK t : t = rco.indexes[e][j]
    OBVIOUS
  <1>3. j \in 1..Len(rco.indexes[e]) /\ t.length \in Nat /\ (t.null => t.length = 0)
    <2>1. rco.indexes[e] \in Seq(TextIndex)
      BY <1>1, EntryType
    <2>2. j \in 1..Len(rco.indexes[e]) /\ t \in TextIndex
      BY <1>2, <2>1
    <2> QED BY <1>2, <2>2 DEF TextIndex
  <1>4. PICK ws \in Seq(Int) : IsIndex(ws, e) /\ Recorded(e, ws, N)
    BY DEF Indexed
  <1>5. PICK o \in Nat : o = offset[e]
    BY <1>1
  <1>6. PICK m \in Nat : m = Len(rco.indexes[e])
    <2>1. rco.indexes[e] \in Seq(TextIndex)
      BY <1>1, EntryType
    <2> QED BY <2>1
  <1>7. j \in 1..m /\ Len(ws) = 2 + 3 * m
    BY <1>3, <1>4, <1>6 DEF IsIndex, TextEntryWords, TextIndexWords
  <1>8. PICK q \in Int : q = o + 12 + 3 * (j - 1)
    BY <1>7
  <1>9. /\ ws[IndexAt(j) + 2] = t.length
        /\ ~ t.null /\ t.length # 0 => ws[IndexAt(j) + 3] = 4 * TextPlace(e, j)
    BY <1>2, <1>3, <1>4 DEF IsIndex
  <1>10. /\ Word(q + 1) = ws[IndexAt(j) + 2] /\ Word(q + 2) = ws[IndexAt(j) + 3]
    <2>1. IndexAt(j) = 2 + 3 * (j - 1)
      BY DEF IndexAt, TextEntryWords, TextIndexWords
    <2>2. PICK i \in Nat : i = IndexAt(j) /\ i = 2 + 3 * (j - 1)
      <3>1. 2 + 3 * (j - 1) \in Nat
        BY <1>7
      <3> QED BY <2>1, <3>1
    <2>3. i + 2 \in 1..Len(ws) /\ i + 3 \in 1..Len(ws)
      BY <1>7, <2>2
    <2>4. \A k \in 1..Len(ws) : WordAt(Stream, o + 10 + k - 1) = ws[k]
      BY <1>4, <1>5 DEF Recorded, EntryWords
    <2>5. o + 10 + (i + 2) - 1 = q + 1 /\ o + 10 + (i + 3) - 1 = q + 2
      <3>1. PICK r \in Nat : r = j - 1
        BY <1>7
      <3>2. i = 2 + 3 * r
        BY <2>2, <3>1
      <3>3. q = o + 12 + 3 * r
        BY <1>8, <3>1
      <3>4. PICK r3 \in Nat : r3 = 3 * r
        OBVIOUS
      <3> QED BY <3>2, <3>3, <3>4
    <2>6. WordAt(Stream, q + 1) = ws[i + 2] /\ WordAt(Stream, q + 2) = ws[i + 3]
      BY <2>3, <2>4, <2>5
    <2> QED BY <2>2, <2>6 DEF Word, WordAt
  <1>11. PICK n \in Nat : n = Words(t.length)
    BY <1>3, WordsType
  <1>12. Words(Word(q + 1)) = n
    BY <1>9, <1>10, <1>11
  <1>13. ASSUME n > 0
         PROVE  Holds(header.data[TEXT] + Word(q + 2) \div 4, e, TextUsed(rco, e)[j-1], n)
    <2>1. t.length # 0
      <3>1. Words(0) = 0
        BY DEF Words
      <3> QED BY <1>11, <1>13, <3>1
    <2>2. Word(q + 2) = 4 * TextPlace(e, j)
      BY <1>3, <1>9, <1>10, <2>1
    <2>3. PICK u \in Nat : u = TextUsed(rco, e)[j-1]
      BY <1>1, <1>3, TextWithin
    <2>4. PICK tt \in Nat : tt = TextTotal(rco, e)
      <3>1. IsArchive(rco) /\ e \in EntriesOf(rco)
        BY <1>1, ArchiveType DEF E
      <3> QED BY <3>1, TextUsedType
    <2>5. u + n <= tt
      BY <1>1, <1>2, <1>3, <1>11, <2>3, <2>4, TextWithin
    <2>6. PICK a \in Nat : a = TextBefore[e-1]
      <3>1. e - 1 \in 0..N
        BY <1>1
      <3> QED BY <1>1, <3>1, TextBeforeType
    <2>7. TextPlace(e, j) = u + a
      BY <2>3, <2>6 DEF TextPlace
    <2>8. Word(q + 2) \div 4 = u + a
      <3>1. \A x \in Nat : (4 * x) \div 4 = x
        OBVIOUS
      <3>2. u + a \in Nat
        OBVIOUS
      <3> QED BY <2>2, <2>7, <3>1, <3>2
    <2>9. PICK b \in Int : b = header.data[TEXT]
      BY <1>1 DEF Headers
    <2>10. ASSUME NEW k \in 1..n
           PROVE  /\ b + (u + a) + k - 1 \in HeaderWords..StreamEnd-1
                  /\ FileWord(b + (u + a) + k - 1) = DataWord(e, u + k)
      <3>1. u + k \in 1..tt
        BY <2>5
      <3>2. PICK p : p = b + a + (u + k) - 1
        OBVIOUS
      <3>3. p \in HeaderWords..StreamEnd-1 /\ WordAt(Stream, p) = DataWord(e, u + k)
        BY <2>4, <2>6, <2>9, <3>1, <3>2 DEF TextAt
      <3>4. b + (u + a) + k - 1 = p
        BY <3>2
      <3>5. WordAt(Stream, p) = FileWord(p)
        BY DEF WordAt, FileWord, Stream
      <3> QED BY <3>3, <3>4, <3>5
    <2>11. b + (u + a) + n <= FileEnd
      <3>1. n \in 1..n
        BY <1>13
      <3>2. PICK s \in Nat : s = StreamEnd
        BY EndsType
      <3>3. b + (u + a) + n - 1 \in HeaderWords..s-1
        BY <2>10, <3>1, <3>2
      <3>4. b + (u + a) + n <= s
        BY <3>3 DEF HeaderWords
      <3>5. FileEnd = s
        BY <3>2, EndsType
      <3> QED BY <3>4, <3>5
    <2>12. Holds(b + (u + a), e, u, n)
      BY <2>10, <2>11 DEF Holds
    <2> QED BY <2>3, <2>8, <2>9, <2>12
  <1>14. offset[e] + EntryWords + TextEntryWords + TextIndexWords * (j - 1) = q
    BY <1>5, <1>8 DEF EntryWords, TextEntryWords, TextIndexWords
  <1> QED BY <1>12, <1>13, <1>14

(* What a reader of the finished file finds of the texts.                  *)
LEMMA FoundPacked ==
    ASSUME TypeInv, Buffered, TextInv, pc = "done",
           NEW block, block = Following(block), NEW i \in DOMAIN Languages
    PROVE  /\ FileWord(block[i]) = rco.lang[Languages[i]] + 65536
           /\ (FileWord(block[i] + 1) = 0) = (i = Len(Languages))
           /\ Holds(block[i] + TextComprWords, Languages[i], 0, Words(FileWord(block[i] + 2)))
           /\ FileWord(block[i] + 3) = TextTotal(rco, Languages[i])
  <1>1. /\ Languages \in Seq(E) /\ i \in 1..Len(Languages) /\ Languages # <<>>
    <2>1. rco \in Archives
      BY DEF TypeInv
    <2>2. Languages \in Seq(E)
      BY <2>1, LanguagesType
    <2> QED BY <2>2
  <1>2. PICK at : BlocksAt(at, Len(Languages))
    BY <1>1 DEF TextInv, PackedInv
  <1>3. block[i] = at[i]
    BY <1>1, <1>2, BlocksChained
  <1>4. PICK e \in E : e = Languages[i]
    BY <1>1
  <1>5. PICK last \in BOOLEAN : last = (i = Len(Languages))
    OBVIOUS
  <1>6. PICK b, c : b = at[i] /\ c = at[i+1]
    OBVIOUS
  <1>7. BlockAt(e, b, c, last)
    BY <1>1, <1>2, <1>4, <1>5, <1>6 DEF BlocksAt
  <1>8. /\ FileWord(b) = rco.lang[e] + 65536 /\ (FileWord(b + 1) = 0) = last
        /\ Holds(b + TextComprWords, e, 0, Words(FileWord(b + 2)))
        /\ FileWord(b + 3) = TextTotal(rco, e)
    BY <1>7, BlockRead
  <1>9. block[i] = b
    BY <1>3, <1>6
  <1> QED BY <1>4, <1>5, <1>8, <1>9

LEMMA FoundPlain ==
    ASSUME TypeInv, ~ Buffered, TextsSure, IndexInv, TextInv, pc = "done",
           NEW i \in DOMAIN Languages, NEW j \in DOMAIN rco.indexes[Languages[i]]
    PROVE  LET e == Languages[i]
               q == offset[e] + EntryWords + TextEntryWords + TextIndexWords * (j - 1)
               n == Words(Word(q + 1))
           IN n > 0 => Holds(header.data[TEXT] + Word(q + 2) \div 4, e,
                             TextUsed(rco, e)[j-1], n)
  <1>1. i \in 1..Len(Languages) /\ Languages[i] \in 1..N /\ E = 1..N
    <2>1. rco \in Archives
      BY DEF TypeInv
    <2> QED BY <2>1, LanguagesType, ParentType
  <1>2. PICK e \in E : e = Languages[i]
    <2>1. Languages[i] \in E
      BY <1>1
    <2> QED BY <2>1
  <1>3. Indexed(e, N)
    <2>1. Language(e)
      BY <1>1, <1>2 DEF TextsSure, TextsWhole, Language
    <2>2. AllIndexed(N)
      BY DEF IndexInv, TreeWritten
    <2> QED BY <1>1, <2>1, <2>2 DEF AllIndexed
  <1>4. TextAt(e)
    <2>1. TextsAt(Len(Languages))
      BY DEF TextInv, PlainInv
    <2> QED BY <1>1, <1>2, <2>1 DEF TextsAt
  <1>5. /\ j \in DOMAIN rco.indexes[e]
        /\ rco.indexes[e][j].null => rco.indexes[e][j].length = 0
    BY <1>2 DEF TextsSure
  <1> QED BY <1>2, <1>3, <1>4, <1>5, TextRead

LEMMA FoundTexts ==
    ASSUME TypeInv, TextsSure, IndexInv, TextInv
    PROVE  TextLocated
  <1> SUFFICES ASSUME pc = "done" PROVE TextLocated
    BY DEF TextLocated
  <1>1. CASE Buffered
    <2>1. \A block : block = Following(block) =>
            \A i \in DOMAIN Languages :
               /\ FileWord(block[i]) = rco.lang[Languages[i]] + 65536
               /\ (FileWord(block[i] + 1) = 0) = (i = Len(Languages))
               /\ Holds(block[i] + TextComprWords, Languages[i], 0,
                        Words(FileWord(block[i] + 2)))
               /\ FileWord(block[i] + 3) = TextTotal(rco, Languages[i])
      BY <1>1, FoundPacked
    <2>2. (\E f : f = Following(f)) \/ Languages = <<>>
      <3>1. ASSUME Languages # <<>> PROVE \E f : f = Following(f)
        <4>1. PICK at : BlocksAt(at, Len(Languages))
          BY <1>1, <3>1 DEF TextInv, PackedInv
        <4> QED BY <4>1, BlocksChained
      <3> QED BY <3>1
    <2>3. PICK block : block = CHOOSE f : f = Following(f)
      OBVIOUS
    <2>4. block = Following(block) \/ Languages = <<>>
      <3>1. (\E f : f = Following(f)) => block = Following(block)
        BY <2>3
      <3> QED BY <2>2, <3>1
    <2>5. \A i \in DOMAIN Languages :
               /\ FileWord(block[i]) = rco.lang[Languages[i]] + 65536
               /\ (FileWord(block[i] + 1) = 0) = (i = Len(Languages))
               /\ Holds(block[i] + TextComprWords, Languages[i], 0,
                        Words(FileWord(block[i] + 2)))
               /\ FileWord(block[i] + 3) = TextTotal(rco, Languages[i])
      BY <2>1, <2>4
    <2> QED BY <1>1, <2>3, <2>5 DEF TextLocated, Following, Languages
  <1>2. CASE ~ Buffered
    <2>1. \A i \in DOMAIN Languages : \A j \in DOMAIN rco.indexes[Languages[i]] :
            LET e == Languages[i]
                q == offset[e] + EntryWords + TextEntryWords + TextIndexWords * (j - 1)
                n == Words(Word(q + 1))
            IN n > 0 => Holds(header.data[TEXT] + Word(q + 2) \div 4, e,
                              TextUsed(rco, e)[j-1], n)
      BY <1>2, FoundPlain
    <2> QED BY <1>2, <2>1 DEF TextLocated, Languages
  <1> QED BY <1>1, <1>2

(* TextsSure is a condition on the archive and the options, and includes   *)
(* what the layout needs.                                                  *)
LEMMA TextsSureKept ==
    ASSUME TypeInv, [Next]_vars, TextsSure
    PROVE  TextsSure' /\ TextsKnown
  <1>1. rco' = rco /\ opts' = opts
    BY OptionsKept
  <1>2. Languages' = Languages /\ E' = E
    BY <1>1, TextsSame DEF E
  <1>3. TextsSure'
    BY <1>1, <1>2 DEF TextsSure, TextsWhole, Buffered
  <1>4. TextsKnown
    BY DEF TextsSure, TextsKnown
  <1> QED BY <1>3, <1>4

LEMMA TextInvariant ==
    ASSUME TypeInv, PatchedLast, TreeInv, TextsSure, LayoutAll, IndexInv, TextInv, [Next]_vars
    PROVE  /\ TypeInv' /\ PatchedLast' /\ TreeInv' /\ TextsSure' /\ LayoutAll'
           /\ IndexInv' /\ TextInv'
  <1>1. PatchedLast' /\ TextsSure' /\ TextsKnown
    BY ArchiveKept, TextsSureKept
  <1>2. SizeInv /\ StageInv /\ LayoutInv
    BY DEF LayoutAll
  <1>3. CASE Next
    <2>1. TypeInv' /\ TreeInv' /\ Changes
      BY <1>3, NextType, NextTree
    <2>2. SizeInv' /\ StageInv'
      BY <1>2, <1>3, <2>1, NextSize, NextStage
    <2>3. LayoutInv'
      BY <1>1, <1>3, NextLayout
    <2>4. IndexInv'
      BY <1>2, <1>3, <2>1, NextIndex
    <2>5. TextInv'
      BY <1>2, <1>3, <2>1, NextTexts
    <2> QED BY <1>1, <2>1, <2>2, <2>3, <2>4, <2>5 DEF LayoutAll
  <1>4. CASE UNCHANGED vars
    <2>1. TypeInv'
      BY <1>4 DEF TypeInv, vars, E, Frames
    <2>2. TreeInv' /\ LayoutAll'
      BY <1>4, StutterTree, StutterLayout
    <2>3. IndexInv' /\ TextInv'
      BY <1>4, StutterIndex, StutterTexts
    <2> QED BY <1>1, <2>1, <2>2, <2>3
  <1> QED BY <1>3, <1>4

(* For every archive whose last entry is patched last and whose texts are  *)
(* all written (the languages can be read and are those write_entry        *)
(* counts, or the compressor does not fail): a reader of the finished file *)
(* finds every text.  Of texts that are not packed, the index of the       *)
(* language holds the offset and the length of each; of packed ones, the   *)
(* blocks follow each other as nextOffset says, in the order of the        *)
(* languages, each with its language and its length, and only the last one *)
(* has no nextOffset.                                                      *)
THEOREM TextsAreLocated == Spec /\ PatchedLast /\ TextsSure => []TextLocated
  <1> DEFINE All == /\ TypeInv /\ PatchedLast /\ TreeInv /\ TextsSure /\ LayoutAll
                    /\ IndexInv /\ TextInv
  <1>1. Init /\ PatchedLast /\ TextsSure => All
    BY InitType, InitTree, InitLayout, InitIndex, InitTexts
  <1>2. All /\ [Next]_vars => All'
    BY TextInvariant
  <1>3. All => TextLocated
    BY FoundTexts
  <1> HIDE DEF All
  <1> QED BY <1>1, <1>2, <1>3, PTL DEF Spec

(* The data of resources, sounds and texts together: whatever was packed   *)
(* for an entry lies where the finished file says.                         *)
THEOREM DataIsLocated ==
    Spec /\ PatchedLast /\ LengthsKnown /\ AllCollected /\ SoundsRead /\ ChannelsWithin
         /\ TextsSure
       => []DataLocated
  <1>1. ResourcesLocated /\ SoundsLocated /\ TextLocated => DataLocated
    BY DEF DataLocated
  <1> QED BY <1>1, ResourcesAreLocated, SoundsAreLocated, TextsAreLocated, PTL

-----------------------------------------------------------------------------
(***************************************************************************)
(* The hash tables in the file.                                            *)
(***************************************************************************)

Langs == Range(Languages)
Trees == {IMG, MODEL, SOUND, OBJ, ANIM}

(* The n words from p on are the slots of t.                               *)
Stands(p, t, n) ==
    /\ p >= HeaderWords /\ p + n <= StreamEnd
    /\ \A s \in 0..n-1 : Word(p + s) = t[s]

(* The slots of the languages of a set, counted entry by entry.            *)
SlotsTo(a, S) ==
    LET total[m \in 0..a.n] ==
          IF m = 0 THEN 0
          ELSE total[m-1] + IF m \in S THEN Len(a.indexes[m]) ELSE 0
    IN total

SlotsOf(a, S) == SlotsTo(a, S)[a.n]

(* The languages hashed before e.                                         *)
Lower(e) == {x \in Langs : rco.lang[x] < rco.lang[e]}

(* The part of a language, and the table of a kind, as they stay.          *)
LangDone(e) ==
    LET n == Len(rco.indexes[e])
    IN Stands(header.ptrs[TEXT] + SlotsOf(rco, Lower(e)), Filled(TextItems(e), n), n)

TreeDone(k) ==
    /\ header.lptrs[k] = HashSize(k)
    /\ Stands(header.ptrs[k], Filled(EntryItems(Hashed(k)), HashSize(k)), HashSize(k))

(* Those that are done are those with the lower numbers, and their parts   *)
(* of the table come first.                                                *)
LangsHashed ==
    LET left == Range(todo) IN
    /\ \A i, j \in DOMAIN todo : i # j => todo[i] # todo[j]
    /\ left \subseteq Langs
    /\ \A x \in Langs \ left : LangDone(x) /\ \A y \in left : rco.lang[x] < rco.lang[y]
    /\ header.lptrs[TEXT] = SlotsOf(rco, Langs \ left)
    /\ Langs # {} => header.ptrs[TEXT] + header.lptrs[TEXT] = StreamEnd

(* The phases that find all tables written.                                *)
Tabled == {"text", "textBody", "labels", "flush", "packText", "packTextBody",
           "resources", "header", "done"}

(* A table stands in the stream from the step that writes it to the end.   *)
HashInv ==
    /\ pc \in Unhashed => header.lptrs[TEXT] = 0
    /\ pc = "hashLang" => LangsHashed
    /\ pc \in Tabled \cup {"hash"} => \A e \in Langs : LangDone(e)
    /\ pc = "hash" => /\ Range(todo) \subseteq Trees
                      /\ \A i, j \in DOMAIN todo : i # j => todo[i] # todo[j]
    /\ pc \in Tabled \cup {"hash"} =>
          \A k \in Trees : /\ pc # "hash" \/ k \notin Range(todo)
                           /\ Table(k) # Nil
                           => TreeDone(k)

(* No two languages have the same number; the labels have their sums.      *)
LangsDiffer ==
    \A i, j \in DOMAIN Languages :
       i # j => rco.lang[Languages[i]] # rco.lang[Languages[j]]

Summed(label) == label # NULL_PTR => label \in DOMAIN LabelSum

NamesSure ==
    /\ LangsDiffer
    /\ \A e \in E : /\ Summed(rco.label[e])
                    /\ \A i \in DOMAIN rco.indexes[e] : Summed(rco.indexes[e][i].label)

-----------------------------------------------------------------------------
LEMMA SlotsToType ==
    ASSUME rco \in Archives, NEW S
    PROVE  /\ N \in Nat
           /\ \A m \in 0..N : SlotsTo(rco, S)[m] \in Nat
           /\ SlotsTo(rco, S)[0] = 0
           /\ \A m \in 1..N : SlotsTo(rco, S)[m] =
                 SlotsTo(rco, S)[m-1] + IF m \in S THEN Len(rco.indexes[m]) ELSE 0
  <1> DEFINE w(m) == IF m \in S THEN Len(rco.indexes[m]) ELSE 0
             body(f) == [m \in 0..N |-> IF m = 0 THEN 0 ELSE f[m-1] + w(m)]
             total == SlotsTo(rco, S)
  <1>1. N \in Nat /\ E = 1..N
    BY ParentType
  <1>2. \A m \in 1..N : w(m) \in Nat
    BY <1>1, EntryType
  <1>3. \E f : f = body(f)
    <2> DEFINE next == [m \in 1..N |-> [k \in Nat |-> k + w(m)]]
    <2> HIDE DEF w
    <2>1. next \in StepFunctions(N, Nat) /\ 0 \in Nat
      BY <1>2 DEF StepFunctions
    <2>2. \A m \in 1..N, k \in Nat : next[m][k] = k + w(m)
      OBVIOUS
    <2> HIDE DEF next
    <2>3. PICK f : Recursive(f, N, Nat, 0, next)
      BY <1>1, <2>1, Recursion
    <2>4. \A m \in 1..N : m - 1 \in 0..N
      BY <1>1
    <2>5. \A m \in 1..N : f[m] = f[m-1] + w(m)
      BY <2>2, <2>3, <2>4 DEF Recursive
    <2>6. f = body(f)
      BY <1>1, <2>3, <2>5 DEF Recursive
    <2> QED BY <2>6
  <1>4. total = body(total)
    BY <1>3 DEF SlotsTo, N
  <1> HIDE DEF total, w
  <1>5. total[0] = 0 /\ \A m \in 1..N : total[m] = total[m-1] + w(m)
    BY <1>1, <1>4
  <1>6. 0..N \subseteq {m \in 0..N : total[m] \in Nat}
    <2> DEFINE T == {m \in 0..N : total[m] \in Nat}
    <2>1. 0 \in T
      BY <1>1, <1>5
    <2>2. ASSUME NEW m \in 1..N, m - 1 \in T PROVE m \in T
      BY <1>1, <1>2, <1>5, <2>2
    <2> HIDE DEF T
    <2>3. 0..N \subseteq T
      BY <1>1, <2>1, <2>2, UpTo
    <2> QED BY <2>3 DEF T
  <1> QED BY <1>1, <1>5, <1>6 DEF total, w

LEMMA SlotsOfNone ==
    ASSUME rco \in Archives
    PROVE  SlotsOf(rco, {}) = 0
  <1> DEFINE T == {m \in 0..N : SlotsTo(rco, {})[m] = 0}
  <1>1. N \in Nat /\ 0 \in T
    BY SlotsToType
  <1>2. ASSUME NEW m \in 1..N, m - 1 \in T PROVE m \in T
    <2>1. SlotsTo(rco, {})[m] = SlotsTo(rco, {})[m-1] + 0
      BY SlotsToType
    <2> QED BY <1>1, <1>2, <2>1
  <1>3. 0..N \subseteq T
    <2> HIDE DEF T
    <2> QED BY <1>1, <1>2, UpTo
  <1> QED BY <1>1, <1>3 DEF SlotsOf, N

(* One language less, whichever it is.                                     *)
LEMMA SlotsOfLess ==
    ASSUME rco \in Archives, NEW S, NEW e \in S, e \in E
    PROVE  SlotsOf(rco, S) = SlotsOf(rco, S \ {e}) + Len(rco.indexes[e])
  <1> DEFINE n == Len(rco.indexes[e])
             more(m) == IF m >= e THEN n ELSE 0
             R == S \ {e}
             T == {m \in 0..N : SlotsTo(rco, S)[m] = SlotsTo(rco, R)[m] + more(m)}
  <1>1. N \in Nat /\ e \in 1..N /\ n \in Nat
    BY ParentType, EntryType
  <1>2. /\ SlotsTo(rco, S)[0] = 0 /\ SlotsTo(rco, R)[0] = 0
        /\ \A m \in 0..N : SlotsTo(rco, S)[m] \in Nat /\ SlotsTo(rco, R)[m] \in Nat
    BY SlotsToType
  <1>3. 0 \in T
    BY <1>1, <1>2
  <1>4. ASSUME NEW m \in 1..N, m - 1 \in T PROVE m \in T
    <2>1. /\ m - 1 \in 0..N /\ m \in 0..N
          /\ SlotsTo(rco, S)[m-1] = SlotsTo(rco, R)[m-1] + more(m - 1)
      BY <1>1, <1>4
    <2> DEFINE w == Len(rco.indexes[m])
    <2>2. w \in Nat
      BY <1>1, ParentType, EntryType
    <2>3. /\ SlotsTo(rco, S)[m] = SlotsTo(rco, S)[m-1] + IF m \in S THEN w ELSE 0
          /\ SlotsTo(rco, R)[m] = SlotsTo(rco, R)[m-1] + IF m \in R THEN w ELSE 0
      BY SlotsToType
    <2>4. CASE m = e
      <3>1. m \in S /\ m \notin R /\ w = n /\ more(m) = n /\ more(m - 1) = 0
        BY <1>1, <2>4
      <3> HIDE DEF n, w, more, R
      <3> QED BY <1>1, <1>2, <2>1, <2>3, <3>1
    <2>5. CASE m # e
      <3>1. (m \in S <=> m \in R) /\ more(m) = more(m - 1) /\ more(m) \in Nat
        BY <1>1, <2>5
      <3> HIDE DEF n, w, more, R
      <3> QED BY <1>1, <1>2, <2>1, <2>2, <2>3, <3>1
    <2> QED BY <2>4, <2>5
  <1>5. N \in T
    <2> HIDE DEF T
    <2>1. 0..N \subseteq T
      BY <1>1, <1>3, <1>4, UpTo
    <2> QED BY <1>1, <2>1
  <1>6. more(N) = n
    BY <1>1
  <1> QED BY <1>5, <1>6 DEF SlotsOf, N

(* What the fold over a set of languages gives.                            *)
LEMMA FoldIsSlots ==
    ASSUME rco \in Archives, NEW S, S \subseteq E
    PROVE  FoldSet(LAMBDA x, n : n + Len(rco.indexes[x]), 0, S) = SlotsOf(rco, S)
  <1> DEFINE any(s) == CHOOSE x \in s : TRUE
             body(f) == [s \in SUBSET S |->
                           IF s = {} THEN 0
                           ELSE f[s \ {any(s)}] + Len(rco.indexes[any(s)])]
             iter == CHOOSE f : f = body(f)
  <1>1. FoldSet(LAMBDA x, n : n + Len(rco.indexes[x]), 0, S) = iter[S]
    BY DEF FoldSet, MapThenFoldSet
  <1>2. E = 1..N /\ N \in Nat /\ \A s \in SUBSET S : s # {} => any(s) \in s /\ any(s) \in E
    BY ParentType
  <1>3. \E f : f = body(f)
    <2> DEFINE f == [s \in SUBSET S |-> SlotsOf(rco, s)]
    <2> HIDE DEF any
    <2>1. \A s \in SUBSET S : s # {} =>
             SlotsOf(rco, s) = SlotsOf(rco, s \ {any(s)}) + Len(rco.indexes[any(s)])
      BY <1>2, SlotsOfLess
    <2>2. \A s \in SUBSET S : s \ {any(s)} \in SUBSET S
      OBVIOUS
    <2>3. f = body(f)
      BY <2>1, <2>2, SlotsOfNone
    <2> QED BY <2>3
  <1>4. iter = body(iter)
    BY <1>3
  <1> HIDE DEF iter, any
  <1>5. \A s \in SUBSET S :
          iter[s] = IF s = {} THEN 0 ELSE iter[s \ {any(s)}] + Len(rco.indexes[any(s)])
    BY <1>4
  <1> DEFINE M == Cardinality(S)
             T == {c \in 0..M : \A s \in SUBSET S : Cardinality(s) = c => iter[s] = SlotsOf(rco, s)}
  <1>6. IsFiniteSet(S) /\ M \in Nat
    <2>1. IsFiniteSet(1..N)
      BY <1>2, FS_Interval
    <2> QED BY <1>2, <2>1, FS_Subset, FS_CardinalityType
  <1>7. \A s \in SUBSET S : IsFiniteSet(s) /\ Cardinality(s) \in Nat
    BY <1>6, FS_Subset, FS_CardinalityType
  <1>8. 0 \in T
    <2>1. ASSUME NEW s \in SUBSET S, Cardinality(s) = 0
          PROVE  iter[s] = SlotsOf(rco, s)
      <3>1. s = {}
        BY <1>7, <2>1, FS_EmptySet
      <3> QED BY <1>5, <3>1, SlotsOfNone
    <2> HIDE DEF M
    <2>2. 0 \in 0..M
      BY <1>6
    <2> QED BY <2>1, <2>2
  <1>9. ASSUME NEW c \in 1..M, c - 1 \in T PROVE c \in T
    <2> SUFFICES ASSUME NEW s \in SUBSET S, Cardinality(s) = c
                 PROVE  iter[s] = SlotsOf(rco, s)
      BY <1>6
    <2>1. s # {}
      BY <1>6, FS_EmptySet
    <2>2. PICK x \in s : x = any(s) /\ x \in E
      BY <1>2, <2>1
    <2>3. Cardinality(s \ {x}) = c - 1
      BY <1>6, <1>7, FS_RemoveElement
    <2>4. iter[s \ {x}] = SlotsOf(rco, s \ {x})
      BY <1>9, <2>3
    <2>5. SlotsOf(rco, s) = SlotsOf(rco, s \ {x}) + Len(rco.indexes[x])
      BY <2>2, SlotsOfLess
    <2>6. iter[s] = iter[s \ {x}] + Len(rco.indexes[x])
      BY <1>5, <2>1, <2>2
    <2> QED BY <2>4, <2>5, <2>6
  <1>10. M \in T
    <2> HIDE DEF T, M
    <2>1. 0..M \subseteq T
      BY <1>6, <1>8, <1>9, UpTo
    <2> QED BY <1>6, <2>1
  <1> QED BY <1>1, <1>10

-----------------------------------------------------------------------------
LEMMA StandsStill ==
    ASSUME TypeInv, TypeInv', Extended, NEW p \in Int, NEW n \in Nat, NEW t, Stands(p, t, n)
    PROVE  Stands(p, t, n)'
  <1>1. StreamEnd \in Nat /\ StreamEnd = EndOf(Stream) /\ StreamEnd' \in Nat
        /\ StreamEnd' >= StreamEnd
    <2>1. Stream' \in Seq(Int)
      BY DEF TypeInv, Stream
    <2>2. StreamEnd' \in Nat
      BY <2>1 DEF StreamEnd, HeaderWords
    <2> QED BY <2>2, StreamType DEF Extended
  <1>2. ASSUME NEW s \in 0..n-1
        PROVE  Word(p + s)' = t[s]
    <2> DEFINE q == p + s
    <2>1. q \in HeaderWords..EndOf(Stream)-1 /\ q < StreamEnd
      BY <1>1 DEF Stands, HeaderWords
    <2>2. Word(q) = t[s]
      BY DEF Stands
    <2> HIDE DEF q
    <2>3. WordAt(Stream', q) = WordAt(Stream, q)
      BY <1>1, <2>1 DEF Extended, KeptBut
    <2>4. Word(q)' = t[s]
      BY <2>2, <2>3 DEF Word, WordAt
    <2> QED BY <2>4 DEF q
  <1>3. p >= HeaderWords /\ p + n <= StreamEnd'
    BY <1>1 DEF Stands, HeaderWords
  <1> QED BY <1>2, <1>3 DEF Stands

(* What is written at the end of the stream stands there.                  *)
LEMMA StandsNew ==
    ASSUME TypeInv, TypeInv', pos = StreamEnd, opts' = opts, NEW n \in Nat, NEW t,
           NEW ws \in Seq(Int), ws = SlotWords(t, n), Fwrite(ws)
    PROVE  \A p : p = StreamEnd => Stands(p, t, n)'
  <1> SUFFICES ASSUME NEW p, p = StreamEnd PROVE Stands(p, t, n)'
    OBVIOUS
  <1>1. Len(ws) = n /\ \A i \in 1..n : ws[i] = t[i - 1]
    <2>1. DOMAIN ws = 1..n
      BY DEF SlotWords
    <2> QED BY <2>1 DEF SlotWords
  <1>2. StreamEnd' = StreamEnd + n /\ LiesAt(Stream', StreamEnd, ws)
    BY <1>1, FwriteExtends
  <1>3. p \in Nat /\ p >= HeaderWords
    BY StreamType DEF EndOf, HeaderWords
  <1>4. ASSUME NEW s \in 0..n-1
        PROVE  Word(p + s)' = t[s]
    <2>1. s + 1 \in 1..Len(ws) /\ p + (s + 1) - 1 = p + s /\ (s + 1) - 1 = s
      BY <1>1, <1>3
    <2>2. WordAt(Stream', p + (s + 1) - 1) = ws[s + 1]
      BY <1>2, <2>1 DEF LiesAt
    <2>3. ws[s + 1] = t[s]
      BY <1>1, <2>1
    <2> QED BY <2>1, <2>2, <2>3 DEF Word, WordAt
  <1>5. p + n <= StreamEnd'
    BY <1>2, <1>3
  <1> QED BY <1>3, <1>4, <1>5 DEF Stands

(* The tables themselves depend on the archive and the offsets.            *)
LEMMA TablesSame ==
    ASSUME rco' = rco, offset' = offset
    PROVE  /\ Langs' = Langs /\ Languages' = Languages
           /\ \A k : Table(k)' = Table(k) /\ Hashed(k)' = Hashed(k)
                     /\ HashSize(k)' = HashSize(k)
           /\ \A es : EntryItems(es)' = EntryItems(es)
           /\ \A e : TextItems(e)' = TextItems(e)
           /\ \A e : Lower(e)' = Lower(e)
           /\ \A S : SlotsOf(rco, S)' = SlotsOf(rco, S)
  <1>1. Languages' = Languages /\ Langs' = Langs
    BY TextsSame DEF Langs
  <1>2. ASSUME NEW k
        PROVE  Table(k)' = Table(k) /\ Hashed(k)' = Hashed(k) /\ HashSize(k)' = HashSize(k)
    <2>1. Table(k)' = Table(k)
      BY DEF Table
    <2>2. Hashed(k)' = Hashed(k)
      BY <2>1 DEF Hashed, Preorder, Children, Table
    <2> QED BY <2>1, <2>2 DEF HashSize
  <1>3. \A es : EntryItems(es)' = EntryItems(es)
    BY DEF EntryItems
  <1>4. \A e : TextItems(e)' = TextItems(e)
    BY DEF TextItems
  <1>5. \A e : Lower(e)' = Lower(e)
    BY <1>1 DEF Lower
  <1>6. \A S : SlotsOf(rco, S)' = SlotsOf(rco, S)
    OBVIOUS
  <1> QED BY <1>1, <1>2, <1>3, <1>4, <1>5, <1>6

LEMMA LangsType ==
    ASSUME rco \in Archives
    PROVE  /\ Langs \subseteq E /\ IsFiniteSet(Langs)
           /\ \A e \in Langs : \E i \in DOMAIN Languages : Languages[i] = e
           /\ \A i \in DOMAIN Languages : Languages[i] \in Langs
           /\ \A S \in SUBSET E : SlotsOf(rco, S) \in Nat
  <1>1. Languages \in Seq(E) /\ E = 1..N /\ N \in Nat
    BY LanguagesType, ParentType
  <1>2. \A i \in DOMAIN Languages : Languages[i] \in E
    BY <1>1
  <1>3. \A e \in Langs : \E i \in DOMAIN Languages : Languages[i] = e
    BY DEF Langs, Range
  <1>4. IsFiniteSet(Langs)
    <2>1. Langs \subseteq 1..N /\ IsFiniteSet(1..N)
      BY <1>1, <1>2, <1>3, FS_Interval
    <2> QED BY <2>1, FS_Subset
  <1>5. \A S \in SUBSET E : SlotsOf(rco, S) \in Nat
    BY <1>1, SlotsToType DEF SlotsOf, N
  <1> QED BY <1>2, <1>3, <1>4, <1>5 DEF Langs, Range

(* What is done stays so while the stream grows.                           *)
LEMMA DoneKept ==
    ASSUME TypeInv, TypeInv', Extended, UNCHANGED <<rco, offset>>
    PROVE  /\ header'.ptrs[TEXT] = header.ptrs[TEXT] =>
                \A e \in Langs : LangDone(e) => LangDone(e)'
           /\ \A k \in Trees : /\ header'.ptrs[k] = header.ptrs[k]
                               /\ header'.lptrs[k] = header.lptrs[k]
                               /\ Table(k) # Nil /\ TreeDone(k)
                               => TreeDone(k)'
  <1>1. rco \in Archives /\ header \in Headers /\ Trees \subseteq Kinds /\ TEXT \in Kinds
    BY KindNames DEF TypeInv, Trees
  <1>2. ASSUME header'.ptrs[TEXT] = header.ptrs[TEXT], NEW e \in Langs, LangDone(e)
        PROVE  LangDone(e)'
    <2>1. PICK n \in Nat : n = Len(rco.indexes[e])
      BY <1>1, LangsType, EntryType
    <2>2. PICK p \in Int : p = header.ptrs[TEXT] + SlotsOf(rco, Lower(e))
      <3>1. header.ptrs[TEXT] \in Int
        BY <1>1 DEF Headers
      <3>2. Lower(e) \in SUBSET E
        BY <1>1, LangsType DEF Lower
      <3>3. SlotsOf(rco, Lower(e)) \in Nat
        BY <1>1, <3>2, LangsType
      <3> QED BY <3>1, <3>3
    <2>3. PICK t : t = Filled(TextItems(e), n)
      OBVIOUS
    <2>4. Stands(p, t, n)
      BY <1>2, <2>1, <2>2, <2>3 DEF LangDone
    <2>5. Stands(p, t, n)'
      BY <2>4, StandsStill
    <2>6. /\ n = Len(rco'.indexes[e]) /\ t = Filled(TextItems(e)', n)
          /\ p = header'.ptrs[TEXT] + SlotsOf(rco, Lower(e))'
      <3>1. TextItems(e)' = TextItems(e) /\ Lower(e)' = Lower(e)
        BY TablesSame
      <3>2. SlotsOf(rco, Lower(e))' = SlotsOf(rco, Lower(e))
        BY <3>1
      <3> QED BY <1>2, <2>1, <2>2, <2>3, <3>1, <3>2
    <2> QED BY <2>5, <2>6 DEF LangDone
  <1>3. ASSUME NEW k \in Trees, header'.ptrs[k] = header.ptrs[k],
               header'.lptrs[k] = header.lptrs[k], Table(k) # Nil, TreeDone(k)
        PROVE  TreeDone(k)'
    <2>1. PICK n \in Nat : n = HashSize(k)
      BY <1>1, <1>3, HashedType
    <2>2. PICK p \in Int : p = header.ptrs[k]
      BY <1>1 DEF Headers
    <2>3. PICK t : t = Filled(EntryItems(Hashed(k)), n)
      OBVIOUS
    <2>4. Stands(p, t, n) /\ header.lptrs[k] = n
      BY <1>3, <2>1, <2>2, <2>3 DEF TreeDone
    <2>5. Stands(p, t, n)'
      BY <2>4, StandsStill
    <2>6. /\ n = HashSize(k)' /\ t = Filled(EntryItems(Hashed(k))', n)
          /\ p = header'.ptrs[k] /\ header'.lptrs[k] = n
      <3>1. HashSize(k)' = HashSize(k) /\ Hashed(k)' = Hashed(k)
        BY TablesSame
      <3>2. EntryItems(Hashed(k))' = EntryItems(Hashed(k))
        BY <3>1 DEF EntryItems
      <3> QED BY <1>3, <2>1, <2>2, <2>3, <2>4, <3>1, <3>2
    <2> QED BY <2>5, <2>6 DEF TreeDone
  <1> QED BY <1>2, <1>3

(* What is behind the tables leaves the header's record of them.           *)
LEMMA TablesKept ==
    ASSUME TypeInv, LaterStep, pc \in Tabled
    PROVE  header'.ptrs = header.ptrs /\ header'.lptrs = header.lptrs /\ pc' \in Tabled
  <1>1. header \in Headers
    BY DEF TypeInv
  <1>2. CASE BeginText
    BY <1>1, <1>2 DEF BeginText, Headers, Goto, Tabled
  <1>3. CASE WriteText
    BY <1>3 DEF WriteText, Tabled
  <1>4. CASE WriteLabelsEvents
    BY <1>1, <1>4 DEF WriteLabelsEvents, Headers, Goto, Tabled
  <1>5. CASE Flush \/ FixHeader
    BY <1>1, <1>5 DEF Flush, FixHeader, Headers, Goto, Tabled
  <1>6. CASE BeginPackText
    BY <1>1, <1>6 DEF BeginPackText, Headers, Goto, Tabled
  <1>7. CASE PackText
    BY <1>1, <1>7 DEF PackText, Headers, Tabled
  <1>8. CASE CopyResources
    BY <1>1, <1>8 DEF CopyResources, Headers, Goto, Tabled
  <1>9. CASE Fallthrough("textBody", "labels") \/ Fallthrough("packTextBody", "resources")
    BY <1>9 DEF Fallthrough, Goto, Tabled
  <1>10. ~ (HashText \/ HashLang \/ HashTree
            \/ Fallthrough("hashLang", "hash") \/ Fallthrough("hash", "text"))
    BY DEF HashText, HashLang, HashTree, Fallthrough, Tabled
  <1> QED BY <1>2, <1>3, <1>4, <1>5, <1>6, <1>7, <1>8, <1>9, <1>10 DEF LaterStep

LEMMA TabledKept ==
    ASSUME TypeInv, TypeInv', TreeInv, HashInv, LaterStep, pc \in Tabled
    PROVE  HashInv'
  <1>1. /\ header'.ptrs = header.ptrs /\ header'.lptrs = header.lptrs /\ pc' \in Tabled
        /\ UNCHANGED <<rco, offset>> /\ Extended
    <2>1. header'.ptrs = header.ptrs /\ header'.lptrs = header.lptrs /\ pc' \in Tabled
      BY TablesKept
    <2>2. Appends /\ pc \in Later /\ UNCHANGED <<rco, opts, offset>>
      BY LaterAppends
    <2>3. Extended
      BY <2>2, AppendsExtend
    <2> QED BY <2>1, <2>2, <2>3
  <1>2. Langs' = Langs /\ \A k : Table(k)' = Table(k)
    BY <1>1, TablesSame
  <1>3. pc # "hash" /\ pc' # "hash" /\ pc' # "hashLang" /\ pc' \notin Unhashed
    BY <1>1 DEF Tabled, Unhashed, Early, Fixing
  <1>4. \A e \in Langs : LangDone(e)'
    BY <1>1, DoneKept DEF HashInv
  <1>5. \A k \in Trees : Table(k) # Nil => TreeDone(k)'
    BY <1>1, <1>3, DoneKept DEF HashInv
  <1> QED BY <1>2, <1>3, <1>4, <1>5 DEF HashInv

LEMMA UnhashedKept ==
    ASSUME TypeInv, HashInv,
           \/ EarlyStep \/ WritePlaceholderHeader
           \/ WriteMain \/ WriteChild \/ FinishEntry \/ FixEntry
           \/ Fallthrough("fixObj", "fixAnim") \/ Fallthrough("fixAnim", "hashText")
    PROVE  HashInv'
  <1>1. pc \in Unhashed /\ pc' \in Unhashed \cup {"failed"} /\ header'.lptrs = header.lptrs
    <2>1. CASE EarlyStep
      BY <2>1, EarlySteps, EarlyBlank DEF Unhashed, SameBlank
    <2>2. CASE WritePlaceholderHeader
      BY <2>2 DEF WritePlaceholderHeader, Goto, Unhashed, Early
    <2>3. CASE WriteMain \/ WriteChild \/ FinishEntry
      BY <2>3 DEF WriteMain, WriteChild, FinishEntry, Enter, Goto, Unhashed, Fixing
    <2>4. CASE FixEntry
      BY <2>4 DEF FixEntry, Unhashed, Fixing
    <2>5. CASE Fallthrough("fixObj", "fixAnim") \/ Fallthrough("fixAnim", "hashText")
      BY <2>5 DEF Fallthrough, Goto, Unhashed, Fixing
    <2> QED BY <2>1, <2>2, <2>3, <2>4, <2>5
  <1>2. pc' \notin Tabled \cup {"hash", "hashLang"}
    BY <1>1 DEF Tabled, Unhashed, Early, Fixing
  <1> QED BY <1>1, <1>2 DEF HashInv

(* Of different elements, those that are not removed remain.               *)
LEMMA RemoveDistinct ==
    ASSUME NEW S, NEW s \in Seq(S), NEW i \in DOMAIN s,
           \A j, k \in DOMAIN s : j # k => s[j] # s[k]
    PROVE  LET t == RemoveAt(s, i)
           IN /\ Range(t) = Range(s) \ {s[i]}
              /\ \A j, k \in DOMAIN t : j # k => t[j] # t[k]
  <1> DEFINE t == RemoveAt(s, i)
             n == Len(s)
             from(j) == IF j < i THEN j ELSE j + 1
  <1>1. n \in Nat \ {0} /\ DOMAIN s = 1..n /\ i \in 1..n
    OBVIOUS
  <1>2. DOMAIN t = 1..n-1 /\ \A j \in 1..n-1 : t[j] = s[from(j)]
    <2> DEFINE a == SubSeq(s, 1, i - 1)
               b == SubSeq(s, i + 1, Len(s))
    <2>1. /\ a \in Seq(S) /\ Len(a) = i - 1 /\ \A j \in 1..i-1 : a[j] = s[j]
          /\ b \in Seq(S) /\ Len(b) = n - i /\ \A j \in 1..n-i : b[j] = s[i + j]
      <3>1. \A j \in 1..n : s[j] \in S
        BY <1>1
      <3>2. (\A j \in 1..i-1 : s[j] \in S) /\ \A j \in i+1..n : s[j] \in S
        BY <1>1, <3>1
      <3>3. a \in Seq(S) /\ Len(a) = i - 1 /\ \A j \in 1..i-1 : a[j] = s[j]
        <4>1. 1 \in Int /\ i - 1 \in Int
          BY <1>1
        <4> HIDE DEF n
        <4>2. /\ SubSeq(s, 1, i - 1) \in Seq(S)
              /\ Len(SubSeq(s, 1, i - 1)) = IF 1 <= i - 1 THEN i - 1 - 1 + 1 ELSE 0
              /\ \A j \in 1..i - 1 - 1 + 1 : SubSeq(s, 1, i - 1)[j] = s[1 + j - 1]
          BY <3>2, <4>1, SubSeqProperties
        <4> HIDE DEF a
        <4>3. /\ a \in Seq(S) /\ Len(a) = IF 1 <= i - 1 THEN i - 1 - 1 + 1 ELSE 0
              /\ \A j \in 1..i - 1 - 1 + 1 : a[j] = s[1 + j - 1]
          BY <4>2 DEF a
        <4>4. \A j \in 1..i-1 : j \in 1..i - 1 - 1 + 1 /\ 1 + j - 1 = j
          BY <1>1
        <4> QED BY <1>1, <4>3, <4>4
      <3>4. b \in Seq(S) /\ Len(b) = n - i /\ \A j \in 1..n-i : b[j] = s[i + j]
        <4>1. i + 1 \in Int /\ n \in Int
          BY <1>1
        <4>2. b = SubSeq(s, i + 1, n)
          OBVIOUS
        <4> HIDE DEF n, b
        <4>3. /\ b \in Seq(S) /\ Len(b) = IF i + 1 <= n THEN n - (i + 1) + 1 ELSE 0
              /\ \A j \in 1..n - (i + 1) + 1 : b[j] = s[i + 1 + j - 1]
          BY <3>2, <4>1, <4>2, SubSeqProperties
        <4>4. \A j \in 1..n-i : j \in 1..n - (i + 1) + 1 /\ i + 1 + j - 1 = i + j
          BY <1>1
        <4> QED BY <1>1, <4>3, <4>4
      <3> QED BY <3>3, <3>4
    <2>2. t = a \o b
      BY DEF RemoveAt
    <2> HIDE DEF a, b, t, n
    <2>3. /\ t \in Seq(S) /\ Len(t) = n - 1
          /\ \A j \in 1..n-1 : t[j] = IF j <= i - 1 THEN a[j] ELSE b[j - (i - 1)]
      <3>1. /\ Len(a \o b) = Len(a) + Len(b) /\ a \o b \in Seq(S)
            /\ \A j \in 1..Len(a)+Len(b) :
                  (a \o b)[j] = IF j <= Len(a) THEN a[j] ELSE b[j - Len(a)]
        BY <2>1, ConcatProperties
      <3>2. i - 1 + (n - i) = n - 1
        BY <1>1
      <3> QED BY <2>1, <2>2, <3>1, <3>2
    <2>4. ASSUME NEW j \in 1..n-1 PROVE t[j] = s[from(j)]
      <3>1. CASE j < i
        <4>1. j \in 1..i-1 /\ t[j] = a[j]
          BY <1>1, <2>3, <3>1
        <4> QED BY <2>1, <3>1, <4>1
      <3>2. CASE j >= i
        <4>1. j - (i - 1) \in 1..n-i /\ i + (j - (i - 1)) = j + 1
          BY <1>1, <3>2
        <4>2. t[j] = b[j - (i - 1)]
          BY <1>1, <2>3, <3>2
        <4>3. b[j - (i - 1)] = s[i + (j - (i - 1))]
          BY <2>1, <4>1
        <4> QED BY <1>1, <3>2, <4>1, <4>2, <4>3
      <3> QED BY <1>1, <3>1, <3>2
    <2> QED BY <1>1, <2>3, <2>4
  <1> HIDE DEF t, n
  <1>3. /\ \A j \in 1..n-1 : from(j) \in 1..n /\ from(j) # i
        /\ \A j, k \in 1..n-1 : j # k => from(j) # from(k)
        /\ \A k \in 1..n : k # i => \E j \in 1..n-1 : from(j) = k
    <2>1. ASSUME NEW k \in 1..n, k # i PROVE \E j \in 1..n-1 : from(j) = k
      <3>1. CASE k < i
        BY <1>1, <3>1
      <3>2. CASE k > i
        <4>1. k - 1 \in 1..n-1 /\ from(k - 1) = k
          BY <1>1, <3>2
        <4> QED BY <4>1
      <3> QED BY <1>1, <2>1, <3>1, <3>2
    <2> QED BY <1>1, <2>1
  <1> HIDE DEF from
  <1>4. \A j, k \in DOMAIN t : j # k => t[j] # t[k]
    BY <1>1, <1>2, <1>3
  <1>5. \A j \in 1..n-1 : t[j] \in Range(s) \ {s[i]}
    BY <1>1, <1>2, <1>3 DEF Range
  <1>6. \A x \in Range(s) \ {s[i]} : \E j \in 1..n-1 : t[j] = x
    <2> SUFFICES ASSUME NEW k \in 1..n, s[k] # s[i] PROVE \E j \in 1..n-1 : t[j] = s[k]
      BY <1>1 DEF Range
    <2>1. PICK j \in 1..n-1 : from(j) = k
      BY <1>3
    <2> QED BY <1>2, <2>1
  <1>7. Range(t) = Range(s) \ {s[i]}
    <2>1. Range(t) = {t[j] : j \in 1..n-1}
      BY <1>2 DEF Range
    <2> DEFINE R == Range(s) \ {s[i]}
    <2> HIDE DEF R
    <2>2. (\A j \in 1..n-1 : t[j] \in R) /\ \A x \in R : \E j \in 1..n-1 : t[j] = x
      BY <1>5, <1>6 DEF R
    <2>3. {t[j] : j \in 1..n-1} = R
      BY <2>2
    <2> QED BY <2>1, <2>3 DEF R
  <1> QED BY <1>4, <1>7 DEF t

-----------------------------------------------------------------------------
(* The parts of the text table.                                            *)

LEMMA LangsBegin ==
    ASSUME TypeInv, TreeInv, HashInv, HashText
    PROVE  HashInv'
  <1>1. /\ pc = "hashText" /\ pc' = "hashLang" /\ todo' = Languages
        /\ UNCHANGED <<rco, opts, file, tables, offset>>
    BY DEF HashText, Goto, Work, Languages
  <1>2. pos = StreamEnd /\ rco \in Archives /\ header \in Headers /\ TEXT \in Kinds
        /\ StreamEnd \in Nat
    BY <1>1, LaterStart, EndsType DEF Later
  <1>3. StreamEnd' = StreamEnd /\ Langs' = Langs
    BY <1>1, EndsSame, TablesSame
  <1>4. header.lptrs[TEXT] = 0
    BY <1>1 DEF HashInv, Unhashed
  <1>5. /\ header'.lptrs[TEXT] = 0
        /\ Table(TEXT) # Nil => header'.ptrs[TEXT] = StreamEnd
    <2>1. CASE Table(TEXT) = Nil
      BY <1>4, <2>1 DEF HashText
    <2>2. CASE Table(TEXT) # Nil
      <3>1. header' = [header EXCEPT !.ptrs[TEXT] = StreamEnd]
        BY <1>2, <2>2 DEF HashText
      <3> QED BY <1>2, <1>4, <3>1 DEF Headers
    <2> QED BY <2>1, <2>2
  <1>6. Langs # {} => Table(TEXT) # Nil
    BY DEF Langs, Range, Languages, Children
  <1>7. /\ \A i, j \in DOMAIN todo' : i # j => todo'[i] # todo'[j]
        /\ Range(todo') = Langs
    <2>1. Range(todo') = Langs
      BY <1>1 DEF Langs
    <2>2. ASSUME NEW i \in DOMAIN Languages, NEW j \in DOMAIN Languages, i # j
          PROVE  Languages[i] # Languages[j]
      <3>1. /\ DOMAIN Languages = 1..Len(Languages)
            /\ Languages[i] \in Nat /\ Languages[j] \in Nat
            /\ i < j => Languages[i] < Languages[j]
            /\ j < i => Languages[j] < Languages[i]
        BY <1>2, LanguagesType
      <3>2. i < j \/ j < i
        BY <2>2, <3>1
      <3> QED BY <3>1, <3>2
    <2> QED BY <1>1, <2>1, <2>2
  <1>8. SlotsOf(rco, {})' = 0
    <2>1. SlotsOf(rco, {})' = SlotsOf(rco, {})
      BY <1>1, TablesSame
    <2> QED BY <1>2, <2>1, SlotsOfNone
  <1>9. LangsHashed'
    <2>1. Langs' \ Range(todo') = {} /\ Range(todo') \subseteq Langs'
      BY <1>3, <1>7
    <2>2. header'.lptrs[TEXT] = SlotsOf(rco, Langs \ Range(todo))'
      BY <1>5, <1>8, <2>1
    <2>3. Langs' # {} => header'.ptrs[TEXT] + header'.lptrs[TEXT] = StreamEnd'
      BY <1>2, <1>3, <1>5, <1>6
    <2> QED BY <1>7, <2>1, <2>2, <2>3 DEF LangsHashed
  <1> QED BY <1>1, <1>9 DEF HashInv, Tabled, Unhashed, Early, Fixing

(* What an iteration over the languages does.                              *)
LangWrites(i, e, n, ws) ==
    /\ e = todo[i] /\ n = Len(rco.indexes[e])
    /\ ws = SlotWords(Filled(TextItems(e), n), n)
    /\ Earliest(e) /\ Fwrite(ws)
    /\ header' = [header EXCEPT !.lptrs[TEXT] = header.lptrs[TEXT] + n]
    /\ todo' = RemoveAt(todo, i)

LEMMA LangWritten ==
    ASSUME TypeInv, HashLang
    PROVE  \E i \in DOMAIN todo, e \in E, n \in Nat, ws \in Seq(Int) :
              LangWrites(i, e, n, ws) /\ Len(ws) = n
  <1>1. PICK i \in DOMAIN todo :
          LET e == todo[i]
              n == Len(rco.indexes[e])
          IN /\ Earliest(e)
             /\ Fwrite(SlotWords(Filled(TextItems(e), n), n))
             /\ header' = [header EXCEPT !.lptrs[TEXT] = @ + n]
             /\ todo' = RemoveAt(todo, i)
    BY DEF HashLang
  <1>2. PICK e \in E : e = todo[i]
    BY DEF HashLang, TypeInv
  <1>3. PICK n \in Nat : n = Len(rco.indexes[e])
    BY EntryType DEF TypeInv
  <1>4. PICK t : t = Filled(TextItems(e), n)
    OBVIOUS
  <1>5. PICK ws \in Seq(Int) : ws = SlotWords(t, n) /\ Len(ws) = n
    <2>1. /\ Len(TextItems(e)) = n
          /\ \A j \in 1..Len(TextItems(e)) : TextItems(e)[j].at \in Int
      BY <1>3, TextItemsType
    <2>2. SlotWords(t, n) \in Seq(Int) /\ Len(SlotWords(t, n)) = n
      BY <1>4, <2>1, SlotsType
    <2> QED BY <2>2
  <1>6. LangWrites(i, e, n, ws)
    BY <1>1, <1>2, <1>3, <1>4, <1>5 DEF LangWrites
  <1> QED BY <1>5, <1>6

(* Two languages have different numbers.                                   *)
LEMMA LangsApart ==
    ASSUME rco \in Archives, LangsDiffer, NEW x \in Langs, NEW y \in Langs, x # y
    PROVE  rco.lang[x] # rco.lang[y]
  <1>1. PICK i \in DOMAIN Languages : Languages[i] = x
    BY LangsType
  <1>2. PICK j \in DOMAIN Languages : Languages[j] = y
    BY LangsType
  <1> QED BY <1>1, <1>2 DEF LangsDiffer

LEMMA LangsMore ==
    ASSUME TypeInv, TypeInv', TreeInv, LangsDiffer, HashInv, HashLang
    PROVE  HashInv'
  <1>1. pc = "hashLang" /\ pc' = pc /\ UNCHANGED <<rco, opts, offset>>
    BY DEF HashLang
  <1>2. pos = StreamEnd /\ header \in Headers /\ TEXT \in Kinds /\ rco \in Archives
        /\ StreamEnd \in Nat
    BY <1>1, LaterStart, EndsType DEF Later
  <1>3. PICK i \in DOMAIN todo, e \in E, n \in Nat, ws \in Seq(Int) :
            LangWrites(i, e, n, ws) /\ Len(ws) = n
    BY LangWritten
  <1>4. PICK left : left = Range(todo)
    OBVIOUS
  <1>5. PICK done : done = Langs \ left
    OBVIOUS
  <1>6. /\ \A j, k \in DOMAIN todo : j # k => todo[j] # todo[k]
        /\ left \subseteq Langs
        /\ \A x \in done : LangDone(x) /\ \A y \in left : rco.lang[x] < rco.lang[y]
        /\ header.lptrs[TEXT] = SlotsOf(rco, done)
        /\ Langs # {} => header.ptrs[TEXT] + header.lptrs[TEXT] = StreamEnd
    BY <1>1, <1>4, <1>5 DEF HashInv, LangsHashed
  <1>7. e \in left /\ e \in Langs /\ Langs \subseteq E
    <2>1. e = todo[i]
      BY <1>3 DEF LangWrites
    <2> QED BY <1>2, <1>4, <1>6, <2>1, LangsType DEF Range
  <1>8. \A x \in E : rco.lang[x] \in Int
    BY <1>2, EntryType
  <1>9. \A y \in left : rco.lang[e] <= rco.lang[y]
    BY <1>3, <1>4 DEF LangWrites, Earliest, Range
  <1>10. \A y \in left \ {e} : rco.lang[e] < rco.lang[y]
    <2> SUFFICES ASSUME NEW y \in left, y # e PROVE rco.lang[e] < rco.lang[y]
      OBVIOUS
    <2>1. rco.lang[e] <= rco.lang[y] /\ rco.lang[e] # rco.lang[y]
      BY <1>2, <1>6, <1>7, <1>9, LangsApart
    <2> QED BY <1>6, <1>7, <1>8, <2>1
  <1>11. done = Lower(e)
    <2>1. \A x \in done : x \in Lower(e)
      BY <1>5, <1>6, <1>7 DEF Lower
    <2>2. \A x \in Lower(e) : x \in done
      <3> SUFFICES ASSUME NEW x \in Langs, rco.lang[x] < rco.lang[e], x \in left PROVE FALSE
        BY <1>5 DEF Lower
      <3> QED BY <1>7, <1>8, <1>9
    <2> QED BY <2>1, <2>2
  <1>12. /\ header'.ptrs = header.ptrs
         /\ header'.lptrs[TEXT] = header.lptrs[TEXT] + n
         /\ header.lptrs[TEXT] \in Nat /\ header.ptrs[TEXT] \in Int
    BY <1>2, <1>3 DEF LangWrites, Headers
  <1>13. Extended /\ StreamEnd' = StreamEnd + n
    BY <1>1, <1>2, <1>3, FwriteExtends DEF LangWrites
  <1>14. LangDone(e)'
    <2>1. PICK p \in Int : p = StreamEnd
      BY <1>2
    <2> DEFINE t == Filled(TextItems(e), n)
    <2>0. ws = SlotWords(t, n) /\ Fwrite(ws)
      BY <1>3 DEF LangWrites
    <2>6. PICK u : u = t
      OBVIOUS
    <2>2. Stands(p, u, n)'
      BY <2>0, <2>6, <1>1, <1>2, <1>3, <2>1, StandsNew DEF LangWrites
    <2>3. p = header'.ptrs[TEXT] + SlotsOf(rco, Lower(e))
      BY <1>6, <1>7, <1>11, <1>12, <2>1
    <2>4. TextItems(e)' = TextItems(e) /\ Lower(e)' = Lower(e)
      BY <1>1, TablesSame
    <2>5. /\ n = Len(rco'.indexes[e]) /\ u = Filled(TextItems(e)', n)
          /\ p = header'.ptrs[TEXT] + SlotsOf(rco', Lower(e)')
      BY <1>1, <1>3, <2>3, <2>4, <2>6 DEF LangWrites
    <2> QED BY <2>2, <2>5 DEF LangDone
  <1>15. \A x \in done : LangDone(x)'
    BY <1>1, <1>5, <1>6, <1>12, <1>13, DoneKept
  <1>16. /\ Range(todo') = left \ {e}
         /\ \A j, k \in DOMAIN todo' : j # k => todo'[j] # todo'[k]
    <2>1. todo \in Seq(E)
      BY <1>1 DEF TypeInv
    <2>2. todo' = RemoveAt(todo, i) /\ e = todo[i]
      BY <1>3 DEF LangWrites
    <2> QED BY <1>4, <1>6, <2>1, <2>2, RemoveDistinct
  <1>17. SlotsOf(rco, done \cup {e}) = SlotsOf(rco, done) + n
    <2>1. (done \cup {e}) \ {e} = done /\ n = Len(rco.indexes[e])
      BY <1>3, <1>5, <1>7 DEF LangWrites
    <2>2. SlotsOf(rco, done \cup {e})
            = SlotsOf(rco, (done \cup {e}) \ {e}) + Len(rco.indexes[e])
      <3>1. e \in done \cup {e}
        OBVIOUS
      <3> QED BY <1>2, <3>1, SlotsOfLess
    <2> QED BY <2>1, <2>2
  <1>18. Langs' = Langs /\ Langs \ (left \ {e}) = done \cup {e}
    BY <1>1, <1>5, <1>7, TablesSame
  <1>19. LangsHashed'
    <2>1. Range(todo') \subseteq Langs' /\ Langs' \ Range(todo') = done \cup {e}
      BY <1>6, <1>16, <1>18
    <2>2. \A x \in done \cup {e} :
             LangDone(x)' /\ \A y \in Range(todo') : rco'.lang[x] < rco'.lang[y]
      BY <1>1, <1>6, <1>10, <1>14, <1>15, <1>16
    <2>3. header'.lptrs[TEXT] = SlotsOf(rco', done \cup {e})
      BY <1>1, <1>6, <1>12, <1>17
    <2>4. header'.ptrs[TEXT] + header'.lptrs[TEXT] = StreamEnd'
      BY <1>2, <1>6, <1>7, <1>12, <1>13
    <2> QED BY <1>16, <2>1, <2>2, <2>3, <2>4 DEF LangsHashed
  <1> QED BY <1>1, <1>19 DEF HashInv, Tabled, Unhashed, Early, Fixing

(* The steps between the loops change nothing that is there.               *)
LEMMA StillDone ==
    ASSUME TypeInv, TypeInv', TreeInv, pc \in Later,
           UNCHANGED <<rco, opts, file, tables, pos, offset, header>>
    PROVE  /\ Langs' = Langs /\ \A k : Table(k)' = Table(k)
           /\ \A e \in Langs : LangDone(e) => LangDone(e)'
           /\ \A k \in Trees : Table(k) # Nil /\ TreeDone(k) => TreeDone(k)'
  <1>1. pos = StreamEnd
    BY LaterStart
  <1>2. Extended
    BY <1>1, UnchangedExtends
  <1> QED BY <1>2, DoneKept, TablesSame

LEMMA TreesBegin ==
    ASSUME TypeInv, TypeInv', TreeInv, HashInv, Fallthrough("hashLang", "hash")
    PROVE  HashInv'
  <1>1. /\ pc = "hashLang" /\ todo = <<>> /\ pc' = "hash"
        /\ todo' = <<IMG, MODEL, SOUND, OBJ, ANIM>>
        /\ UNCHANGED <<rco, opts, file, tables, pos, offset, header>>
    BY DEF Fallthrough, Goto, Work
  <1>2. /\ Langs' = Langs
        /\ \A e \in Langs : LangDone(e) => LangDone(e)'
    BY <1>1, StillDone DEF Later
  <1>3. \A e \in Langs : LangDone(e)
    <2>1. Range(todo) = {}
      BY <1>1 DEF Range
    <2> QED BY <1>1, <2>1 DEF HashInv, LangsHashed
  <1>4. Range(todo') = Trees
    <2>1. DOMAIN todo' = 1..5
      BY <1>1
    <2>2. Range(todo') = {todo'[i] : i \in 1..5}
      BY <2>1 DEF Range
    <2>3. todo'[1] = IMG /\ todo'[2] = MODEL /\ todo'[3] = SOUND /\ todo'[4] = OBJ
          /\ todo'[5] = ANIM
      BY <1>1
    <2>4. 1..5 = {1, 2, 3, 4, 5}
      OBVIOUS
    <2> QED BY <2>2, <2>3, <2>4 DEF Trees
  <1>5. \A i, j \in DOMAIN todo' : i # j => todo'[i] # todo'[j]
    BY <1>1 DEF IMG, MODEL, SOUND, OBJ, ANIM
  <1>6. Range(todo') \subseteq Trees /\ \A k \in Trees : k \in Range(todo')
    BY <1>4
  <1> QED BY <1>1, <1>2, <1>3, <1>5, <1>6 DEF HashInv, Tabled, Unhashed, Early, Fixing

LEMMA TreesMore ==
    ASSUME TypeInv, TypeInv', TreeInv, HashInv, HashTree
    PROVE  HashInv'
  <1>1. /\ pc = "hash" /\ pc' = pc /\ UNCHANGED <<rco, opts, offset>>
        /\ todo # <<>> /\ todo' = Tail(todo)
    BY DEF HashTree
  <1>2. /\ pos = StreamEnd /\ header \in Headers /\ TEXT \in Kinds /\ rco \in Archives
        /\ todo \in Seq(Kinds) /\ StreamEnd \in Nat
    BY <1>1, LaterStart, EndsType DEF Later, TypeInv
  <1>3. PICK k \in Kinds : k = Head(todo)
    BY <1>1, <1>2, TailType
  <1>4. /\ Range(todo) \subseteq Trees
        /\ \A i, j \in DOMAIN todo : i # j => todo[i] # todo[j]
        /\ \A e \in Langs : LangDone(e)
        /\ \A x \in Trees : x \notin Range(todo) /\ Table(x) # Nil => TreeDone(x)
    BY <1>1 DEF HashInv
  <1>5. /\ \A i, j \in DOMAIN todo' : i # j => todo'[i] # todo'[j]
        /\ \A x \in Range(todo) : x = k \/ x \in Range(todo')
        /\ Range(todo') \subseteq Trees /\ k \in Trees
    <2>1. \A i, j \in DOMAIN todo' : i # j => todo'[i] # todo'[j]
      BY <1>1, <1>2, <1>4, TailDistinct
    <2>2. ASSUME NEW i \in DOMAIN todo, i # 1
          PROVE  i - 1 \in DOMAIN Tail(todo) /\ Tail(todo)[i-1] = todo[i]
      BY <1>1, <1>2, <2>2
    <2>3. \A i \in DOMAIN todo : todo[i] = k \/ todo[i] \in Range(todo')
      <3> TAKE i \in DOMAIN todo
      <3>1. CASE i = 1
        BY <1>2, <1>3, <3>1
      <3>2. CASE i # 1
        BY <1>1, <2>2, <3>2 DEF Range
      <3> QED BY <3>1, <3>2
    <2>4. \A i \in DOMAIN Tail(todo) : i + 1 \in DOMAIN todo /\ Tail(todo)[i] = todo[i+1]
      BY <1>1, <1>2
    <2>5. Range(todo') \subseteq Range(todo)
      BY <1>1, <2>4 DEF Range
    <2>6. 1 \in DOMAIN todo /\ todo[1] = k
      BY <1>1, <1>2, <1>3
    <2>7. k \in Range(todo)
      BY <2>6 DEF Range
    <2>8. \A x \in Range(todo) : x = k \/ x \in Range(todo')
      BY <2>3 DEF Range
    <2> QED BY <1>4, <2>1, <2>5, <2>7, <2>8
  <1>6. Langs' = Langs /\ \A x : Table(x)' = Table(x)
    BY <1>1, TablesSame
  <1>7. Appends /\ Extended
    <2>1. Appends
      BY HashTreeAppends
    <2> QED BY <1>1, <2>1, AppendsExtend DEF Later
  <1>8. ASSUME \A x \in Kinds \ {k} : /\ header'.ptrs[x] = header.ptrs[x]
                                      /\ header'.lptrs[x] = header.lptrs[x],
               header'.ptrs[TEXT] = header.ptrs[TEXT],
               k \in Trees /\ Table(k) # Nil => TreeDone(k)'
        PROVE  HashInv'
    <2>1. \A e \in Langs : LangDone(e)'
      BY <1>1, <1>4, <1>7, <1>8, DoneKept
    <2>2. ASSUME NEW x \in Trees, x \notin Range(todo'), Table(x) # Nil
          PROVE  TreeDone(x)'
      <3>1. CASE x = k
        BY <1>8, <2>2, <3>1
      <3>2. CASE x # k
        <4>1. x \notin Range(todo) /\ x \in Kinds
          BY <1>5, <2>2, <3>2, KindNames DEF Trees
        <4>2. header'.ptrs[x] = header.ptrs[x] /\ header'.lptrs[x] = header.lptrs[x]
          BY <1>8, <3>2, <4>1
        <4> QED BY <1>1, <1>4, <1>7, <2>2, <4>1, <4>2, DoneKept
      <3> QED BY <3>1, <3>2
    <2> QED BY <1>1, <1>5, <1>6, <2>1, <2>2
            DEF HashInv, Tabled, Unhashed, Early, Fixing
  <1>9. CASE Table(k) = Nil
    <2>1. header' = header
      BY <1>3, <1>9 DEF HashTree
    <2> QED BY <1>8, <1>9, <2>1
  <1>10. CASE Table(k) # Nil
    <2>1. PICK n \in Nat : n = HashSize(k) /\ Hashed(k) \in Seq(E)
      BY <1>2, <1>10, HashedType
    <2>2. PICK t : t = Filled(EntryItems(Hashed(k)), n)
      OBVIOUS
    <2>3. PICK ws \in Seq(Int) : ws = SlotWords(t, n)
      <3> DEFINE items == EntryItems(Hashed(k))
      <3>1. Len(items) \in Nat /\ \A j \in 1..Len(items) : items[j].at \in Int
        BY <2>1, EntryItemsType
      <3> HIDE DEF items
      <3>2. SlotWords(Filled(items, n), n) \in Seq(Int)
        BY <3>1, SlotsType
      <3> QED BY <2>2, <3>2 DEF items
    <2>4. Fwrite(ws) /\ header' = [header EXCEPT !.ptrs[k] = StreamEnd, !.lptrs[k] = n]
      BY <1>2, <1>3, <1>10, <2>1, <2>2, <2>3 DEF HashTree
    <2>5. /\ \A x \in Kinds \ {k} : /\ header'.ptrs[x] = header.ptrs[x]
                                    /\ header'.lptrs[x] = header.lptrs[x]
          /\ header'.ptrs[k] = StreamEnd /\ header'.lptrs[k] = n
      BY <1>2, <2>4 DEF Headers
    <2>6. ASSUME k \in Trees
          PROVE  header'.ptrs[TEXT] = header.ptrs[TEXT] /\ TreeDone(k)'
      <3>1. k # TEXT
        BY <2>6 DEF Trees, TEXT, IMG, MODEL, SOUND, OBJ, ANIM
      <3>2. PICK p \in Int : p = StreamEnd
        BY <1>2
      <3>3. Stands(p, t, n)'
        BY <1>1, <1>2, <2>3, <2>4, <3>2, StandsNew
      <3>4. HashSize(k)' = HashSize(k) /\ Hashed(k)' = Hashed(k)
        BY <1>1, TablesSame
      <3>5. EntryItems(Hashed(k))' = EntryItems(Hashed(k))
        BY <1>1, <3>4 DEF EntryItems
      <3>6. /\ n = HashSize(k)' /\ t = Filled(EntryItems(Hashed(k))', n)
            /\ p = header'.ptrs[k] /\ header'.lptrs[k] = n
        BY <2>1, <2>2, <2>5, <3>2, <3>4, <3>5
      <3> QED BY <1>2, <2>5, <3>1, <3>3, <3>6 DEF TreeDone
    <2> QED BY <1>5, <1>8, <2>5, <2>6
  <1> QED BY <1>9, <1>10

LEMMA TreesEnd ==
    ASSUME TypeInv, TypeInv', TreeInv, HashInv, Fallthrough("hash", "text")
    PROVE  HashInv'
  <1>1. /\ pc = "hash" /\ todo = <<>> /\ pc' = "text"
        /\ UNCHANGED <<rco, opts, file, tables, pos, offset, header>>
    BY DEF Fallthrough, Goto
  <1>2. /\ Langs' = Langs /\ \A k : Table(k)' = Table(k)
        /\ \A e \in Langs : LangDone(e) => LangDone(e)'
        /\ \A k \in Trees : Table(k) # Nil /\ TreeDone(k) => TreeDone(k)'
    BY <1>1, StillDone DEF Later
  <1>3. \A k : k \notin Range(todo)
    BY <1>1 DEF Range
  <1>4. /\ \A e \in Langs : LangDone(e)
        /\ \A k \in Trees : Table(k) # Nil => TreeDone(k)
    BY <1>1, <1>3 DEF HashInv
  <1> QED BY <1>1, <1>2, <1>4 DEF HashInv, Tabled, Unhashed, Early, Fixing

LEMMA NextHash ==
    ASSUME TypeInv, TypeInv', TreeInv, NamesSure, HashInv, Next
    PROVE  HashInv'
  <1>1. CASE \/ EarlyStep \/ WritePlaceholderHeader
             \/ WriteMain \/ WriteChild \/ FinishEntry \/ FixEntry
             \/ Fallthrough("fixObj", "fixAnim") \/ Fallthrough("fixAnim", "hashText")
    BY <1>1, UnhashedKept
  <1>2. CASE LaterStep
    <2>1. CASE HashText
      BY <2>1, LangsBegin
    <2>2. CASE HashLang
      BY <2>2, LangsMore DEF NamesSure
    <2>3. CASE Fallthrough("hashLang", "hash")
      BY <2>3, TreesBegin
    <2>4. CASE HashTree
      BY <2>4, TreesMore
    <2>5. CASE Fallthrough("hash", "text")
      BY <2>5, TreesEnd
    <2>6. CASE \/ BeginText \/ WriteText \/ WriteLabelsEvents
               \/ Flush \/ BeginPackText \/ PackText
               \/ CopyResources \/ FixHeader
               \/ Fallthrough("textBody", "labels")
               \/ Fallthrough("packTextBody", "resources")
      <3>1. pc \in Tabled
        BY <2>6 DEF BeginText, WriteText, WriteLabelsEvents, Flush, BeginPackText,
           PackText, CopyResources, FixHeader, Fallthrough, Tabled
      <3> QED BY <1>2, <3>1, TabledKept
    <2> QED BY <1>2, <2>1, <2>2, <2>3, <2>4, <2>5, <2>6 DEF LaterStep
  <1> QED BY <1>1, <1>2, NextSteps

LEMMA StutterHash ==
    ASSUME TypeInv, TypeInv', HashInv, UNCHANGED vars
    PROVE  HashInv'
  <1>1. UNCHANGED <<pc, todo, rco, opts, file, tables, offset, header>>
    BY DEF vars
  <1>2. /\ Langs' = Langs /\ \A k : Table(k)' = Table(k) /\ Hashed(k)' = Hashed(k)
                                   /\ HashSize(k)' = HashSize(k)
        /\ \A e : TextItems(e)' = TextItems(e) /\ Lower(e)' = Lower(e)
        /\ StreamEnd' = StreamEnd
    BY <1>1, TablesSame, EndsSame
  <1>3. \A p, t, n : Stands(p, t, n)' <=> Stands(p, t, n)
    BY <1>1, <1>2 DEF Stands, Word, Stream, Buffered
  <1>4. ASSUME NEW e PROVE LangDone(e)' <=> LangDone(e)
    <2>1. PICK p : p = header.ptrs[TEXT] + SlotsOf(rco, Lower(e))
      OBVIOUS
    <2>2. PICK n : n = Len(rco.indexes[e])
      OBVIOUS
    <2>3. PICK t : t = Filled(TextItems(e), n)
      OBVIOUS
    <2>4. LangDone(e) <=> Stands(p, t, n)
      BY <2>1, <2>2, <2>3 DEF LangDone
    <2>5. TextItems(e)' = TextItems(e) /\ Lower(e)' = Lower(e)
      BY <1>2
    <2>6. /\ p = header'.ptrs[TEXT] + SlotsOf(rco', Lower(e)')
          /\ n = Len(rco'.indexes[e]) /\ t = Filled(TextItems(e)', n)
      BY <1>1, <2>1, <2>2, <2>3, <2>5
    <2>7. LangDone(e)' <=> Stands(p, t, n)'
      BY <2>6 DEF LangDone
    <2> QED BY <1>3, <2>4, <2>7
  <1>5. ASSUME NEW k PROVE TreeDone(k)' <=> TreeDone(k)
    <2>1. PICK p : p = header.ptrs[k]
      OBVIOUS
    <2>2. PICK n : n = HashSize(k)
      OBVIOUS
    <2>3. PICK t : t = Filled(EntryItems(Hashed(k)), n)
      OBVIOUS
    <2>4. TreeDone(k) <=> header.lptrs[k] = n /\ Stands(p, t, n)
      BY <2>1, <2>2, <2>3 DEF TreeDone
    <2>5. HashSize(k)' = HashSize(k) /\ Hashed(k)' = Hashed(k)
      BY <1>2
    <2>6. EntryItems(Hashed(k))' = EntryItems(Hashed(k))
      BY <1>1, <2>5 DEF EntryItems
    <2>7. /\ p = header'.ptrs[k] /\ n = HashSize(k)'
          /\ t = Filled(EntryItems(Hashed(k))', n)
      BY <1>1, <2>1, <2>2, <2>3, <2>5, <2>6
    <2>8. TreeDone(k)' <=> header'.lptrs[k] = n /\ Stands(p, t, n)'
      BY <2>7 DEF TreeDone
    <2> QED BY <1>1, <1>3, <2>4, <2>8
  <1>6. SlotsOf(rco, Langs \ Range(todo))' = SlotsOf(rco, Langs \ Range(todo))
        /\ Range(todo)' = Range(todo)
    BY <1>1, <1>2
  <1>7. LangsHashed <=> LangsHashed'
    BY <1>1, <1>2, <1>4, <1>6 DEF LangsHashed
  <1> QED BY <1>1, <1>2, <1>4, <1>5, <1>7 DEF HashInv

LEMMA InitHash == ASSUME Init PROVE HashInv
  <1>1. header.lptrs[TEXT] = 0 /\ pc = "open"
    BY KindNames DEF Init, BlankHeader
  <1> QED BY <1>1 DEF HashInv, Tabled

(* NamesSure is a condition on the archive.                                *)
LEMMA NamesSureKept ==
    ASSUME [Next]_vars, NamesSure
    PROVE  NamesSure'
  <1>1. rco' = rco
    BY ArchiveKept
  <1>2. Languages' = Languages /\ E' = E
    BY <1>1, TextsSame DEF E
  <1> QED BY <1>1, <1>2 DEF NamesSure, LangsDiffer, Summed

-----------------------------------------------------------------------------
(* Searching.                                                              *)

(* What is found in a table is found where its slots stand in the file.    *)
LEMMA FoundThere ==
    ASSUME NEW n \in Nat \ {0}, NEW p, NEW u, Stands(p, u, n), NEW h \in 0..n-1, NEW at,
           Reachable(u, n, h, at)
    PROVE  Reachable(SlotsAt(p, n), n, h, at)
  <1> DEFINE t == SlotsAt(p, n)
  <1>1. \A r \in 0..n-1 : t[r] = u[r]
    BY DEF SlotsAt, Stands
  <1> HIDE DEF t
  <1>2. PICK k \in 0..n-1 : u[Around(n, h, k)] = at /\ Taken(u, n, h, k)
    BY DEF Reachable
  <1>3. Around(n, h, k) \in 0..n-1
    BY DEF Around
  <1>4. Taken(t, n, h, k)
    BY <1>1, <1>2, StaysTaken
  <1> QED BY <1>1, <1>2, <1>3, <1>4 DEF Reachable, t

(* A labelled item can be hashed when its label has a sum.                 *)
LEMMA ItemFits ==
    ASSUME NEW label, Summed(label), NEW at \in Int, at # 0
    PROVE  IsItem(Item(label, at))
  <1>1. label # NULL_PTR => LabelSum[label] \in Nat
    BY LabelSumAssumption DEF Summed
  <1> QED BY <1>1 DEF IsItem, Item, Free

(* The place of a label in a filled table.                                 *)
LEMMA FoundLabel ==
    ASSUME NEW n \in Nat, NEW items, Len(items) \in 0..n,
           \A i \in 1..Len(items) : IsItem(items[i]),
           NEW p, Stands(p, Filled(items, n), n),
           NEW i \in 1..Len(items), NEW label, NEW at, items[i] = Item(label, at),
           label # NULL_PTR
    PROVE  Reachable(SlotsAt(p, n), n, LabelSum[label] % n, at)
  <1>1. FoundIn(Filled(items, n), n, items[i])
    BY FilledFound
  <1>2. items[i].named /\ items[i].sum = LabelSum[label] /\ items[i].at = at
    <2>1. items[i] = [named |-> TRUE, at |-> at, sum |-> LabelSum[label]]
      <3>1. (label # NULL_PTR) = TRUE
        OBVIOUS
      <3> QED BY <3>1, Zenon DEF Item
    <2> QED BY <2>1
  <1>3. Reachable(Filled(items, n), n, LabelSum[label] % n, at)
    BY <1>1, <1>2 DEF FoundIn
  <1>4. LabelSum[label] % n \in 0..n-1 /\ n \in Nat \ {0}
    <2>1. LabelSum[label] \in Nat /\ n \in Nat \ {0}
      BY <1>2 DEF IsItem
    <2> QED BY <2>1
  <1> QED BY <1>3, <1>4, FoundThere

LEMMA OffsetsType ==
    ASSUME TypeInv, Placed(N), NEW e \in E
    PROVE  offset[e] \in Int /\ offset[e] >= HeaderWords /\ HeaderWords \in Nat /\ HeaderWords > 0
  <1>1. E = 1..N
    BY ParentType DEF TypeInv
  <1>2. offset[e] \in Int
    BY DEF TypeInv
  <1>3. offset[e] >= HeaderWords
    BY <1>1 DEF Placed
  <1>4. HeaderWords \in Nat /\ HeaderWords > 0
    BY DEF HeaderWords
  <1> QED BY <1>2, <1>3, <1>4

LEMMA FoundEntries ==
    ASSUME TypeInv, TreeInv, NamesSure, HashInv
    PROVE  EntriesHashed
  <1> SUFFICES ASSUME pc = "done", NEW k \in {IMG, MODEL, SOUND, OBJ, ANIM}, Table(k) # Nil,
                      NEW e \in Range(Hashed(k)), rco.label[e] # NULL_PTR
               PROVE  Reachable(SlotsAt(header.ptrs[k], header.lptrs[k]), header.lptrs[k],
                                LabelSum[rco.label[e]] % header.lptrs[k], offset[e])
    BY DEF EntriesHashed
  <1>1. rco \in Archives /\ k \in Kinds /\ k \in Trees /\ Placed(N)
    BY KindNames, LaterStart DEF Later, Trees
  <1>2. TreeDone(k)
    BY <1>1 DEF HashInv, Tabled
  <1>3. PICK n \in Nat : n = HashSize(k) /\ n = header.lptrs[k]
    BY <1>1, <1>2, HashedType DEF TreeDone
  <1>4. PICK es \in Seq(E) : es = Hashed(k) /\ Len(es) \in Nat /\ Len(es) <= n
    <2>1. Hashed(k) \in Seq(E) /\ HashSize(k) >= Len(Hashed(k))
      BY <1>1, HashedType
    <2> QED BY <1>3, <2>1
  <1>5. PICK i \in 1..Len(es) : es[i] = e
    BY <1>4 DEF Range
  <1>6. Len(EntryItems(es)) = Len(es)
    BY EntryItemsType
  <1>7. \A j \in 1..Len(es) : /\ EntryItems(es)[j] = Item(rco.label[es[j]], offset[es[j]])
                              /\ IsItem(EntryItems(es)[j])
    <2> TAKE j \in 1..Len(es)
    <2>1. es[j] \in E /\ EntryItems(es)[j] = Item(rco.label[es[j]], offset[es[j]])
      BY DEF EntryItems
    <2>2. offset[es[j]] \in Int /\ offset[es[j]] # 0 /\ Summed(rco.label[es[j]])
      BY <1>1, <2>1, OffsetsType DEF NamesSure
    <2> QED BY <2>1, <2>2, ItemFits
  <1>8. Stands(header.ptrs[k], Filled(EntryItems(es), n), n)
    BY <1>2, <1>3, <1>4 DEF TreeDone
  <1>9. PICK items : items = EntryItems(es)
    OBVIOUS
  <1>10. /\ Len(items) \in 0..n /\ \A j \in 1..Len(items) : IsItem(items[j])
         /\ i \in 1..Len(items) /\ items[i] = Item(rco.label[e], offset[e])
         /\ Stands(header.ptrs[k], Filled(items, n), n)
    BY <1>4, <1>5, <1>6, <1>7, <1>8, <1>9
  <1>11. Reachable(SlotsAt(header.ptrs[k], n), n, LabelSum[rco.label[e]] % n, offset[e])
    BY <1>10, FoundLabel
  <1> QED BY <1>3, <1>11

LEMMA FoundInLangs ==
    ASSUME TypeInv, TreeInv, NamesSure, HashInv, pc = "done", NEW e \in Langs,
           NEW i \in 1..Len(rco.indexes[e]), rco.indexes[e][i].label # NULL_PTR
    PROVE  LET n == Len(rco.indexes[e])
               t == SlotsAt(header.ptrs[TEXT] + SlotsOf(rco, Lower(e)), n)
           IN Reachable(t, n, LabelSum[rco.indexes[e][i].label] % n,
                        offset[e] + EntryWords + TextEntryWords + TextIndexWords * (i - 1))
  <1>1. rco \in Archives /\ e \in E /\ Placed(N)
    BY LaterStart, LangsType DEF Later
  <1>2. PICK p : p = header.ptrs[TEXT] + SlotsOf(rco, Lower(e))
    OBVIOUS
  <1>3. PICK n \in Nat : n = Len(rco.indexes[e]) /\ DOMAIN rco.indexes[e] = 1..n
    <2>1. rco.indexes[e] \in Seq(TextIndex)
      BY <1>1, EntryType
    <2> QED BY <2>1
  <1> DEFINE label(j) == rco.indexes[e][j].label
             at(j) == offset[e] + EntryWords + TextEntryWords + TextIndexWords * (j - 1)
  <1>4. PICK items : items = TextItems(e)
    OBVIOUS
  <1>5. Len(items) = n
    BY <1>1, <1>3, <1>4, TextItemsType
  <1>6. \A j \in 1..n : /\ items[j] = Item(label(j), at(j)) /\ Summed(label(j))
                        /\ at(j) \in Int /\ at(j) # 0
    <2> TAKE j \in 1..n
    <2>1. items[j] = Item(label(j), at(j))
      BY <1>3, <1>4 DEF TextItems
    <2>2. Summed(label(j))
      BY <1>1, <1>3 DEF NamesSure
    <2>3. offset[e] \in Int /\ offset[e] >= HeaderWords
      BY <1>1, OffsetsType
    <2>4. at(j) \in Int /\ at(j) # 0
      BY <2>3 DEF HeaderWords, EntryWords, TextEntryWords, TextIndexWords
    <2> QED BY <2>1, <2>2, <2>4
  <1>7. LangDone(e)
    BY DEF HashInv, Tabled
  <1>8. Stands(p, Filled(items, n), n)
    BY <1>2, <1>3, <1>4, <1>7 DEF LangDone
  <1> HIDE DEF label, at
  <1>9. \A j \in 1..n : IsItem(items[j])
    BY <1>6, ItemFits
  <1>10. Reachable(SlotsAt(p, n), n, LabelSum[label(i)] % n, at(i))
    <2>1. Len(items) \in 0..n /\ \A j \in 1..Len(items) : IsItem(items[j])
      BY <1>5, <1>9
    <2>2. i \in 1..Len(items) /\ items[i] = Item(label(i), at(i)) /\ label(i) # NULL_PTR
      BY <1>3, <1>5, <1>6 DEF label
    <2> QED BY <1>8, <2>1, <2>2, FoundLabel
  <1> QED BY <1>2, <1>3, <1>10 DEF label, at

LEMMA FoundTextNames ==
    ASSUME TypeInv, TreeInv, NamesSure, HashInv
    PROVE  TextsHashed
  <1> SUFFICES ASSUME pc = "done" PROVE TextsHashed
    BY DEF TextsHashed
  <1> DEFINE below(e) == FoldSet(LAMBDA x, n : n + Len(rco.indexes[x]), 0, Lower(e))
  <1>1. ASSUME NEW e \in Langs
        PROVE  below(e) = SlotsOf(rco, Lower(e))
    <2>1. rco \in Archives /\ Lower(e) \subseteq E
      BY LangsType DEF TypeInv, Lower
    <2> QED BY <2>1, FoldIsSlots
  <1>2. \A e \in Langs :
           LET n == Len(rco.indexes[e])
               t == SlotsAt(header.ptrs[TEXT] + below(e), n)
           IN \A i \in 1..n : rco.indexes[e][i].label # NULL_PTR =>
                Reachable(t, n, LabelSum[rco.indexes[e][i].label] % n,
                          offset[e] + EntryWords + TextEntryWords
                            + TextIndexWords * (i - 1))
    <2> HIDE DEF below
    <2> QED BY <1>1, FoundInLangs
  <1> QED BY <1>2 DEF TextsHashed, Lower, Langs, Languages

(* For every archive whose last entry is patched last, whose languages     *)
(* have different numbers and whose labels have their sums: whoever hashes *)
(* a label as calc_hash does finds the entry or the text of that label in  *)
(* the finished file, by looking from the slot of the hash on, slot after  *)
(* slot, until a free one.  The table of a kind is as long as              *)
(* find_larger_prime says; the text table has a part for each language, in *)
(* the order of their numbers.                                             *)
THEOREM NamesAreHashed == Spec /\ PatchedLast /\ NamesSure => []NamesHashed
  <1> DEFINE All == TypeInv /\ PatchedLast /\ TreeInv /\ NamesSure /\ HashInv
  <1>1. Init /\ PatchedLast /\ NamesSure => All
    BY InitType, InitTree, InitHash
  <1>2. All /\ [Next]_vars => All'
    <2> SUFFICES ASSUME TypeInv, PatchedLast, TreeInv, NamesSure, HashInv, [Next]_vars
                 PROVE  All'
      OBVIOUS
    <2>1. PatchedLast' /\ NamesSure'
      BY ArchiveKept, NamesSureKept
    <2>2. CASE Next
      <3>1. TypeInv' /\ TreeInv'
        BY <2>2, NextType, NextTree
      <3> QED BY <2>1, <2>2, <3>1, NextHash
    <2>3. CASE UNCHANGED vars
      <3>1. TypeInv' /\ TreeInv'
        BY <2>3, StutterTree DEF TypeInv, vars, E, Frames
      <3> QED BY <2>1, <2>3, <3>1, StutterHash
    <2> QED BY <2>2, <2>3
  <1>3. All => NamesHashed
    BY FoundEntries, FoundTextNames DEF NamesHashed
  <1> HIDE DEF All
  <1> QED BY <1>1, <1>2, <1>3, PTL DEF Spec
=============================================================================
