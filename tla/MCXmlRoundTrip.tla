--------------------------- MODULE MCXmlRoundTrip ---------------------------
(***************************************************************************)
(* Archives and command lines for XmlRoundTrip.  An archive is a list of   *)
(* entries in document order, each with the number of its parent and the   *)
(* bytes that are stored for it; the RCO file is these bytes in a row.     *)
(***************************************************************************)
EXTENDS XmlRoundTrip

Bytes(owner, n) == [k \in 1..n |-> 1000 * owner + k]
PackedBytes(owner) == <<1000 * owner + 901, 1000 * owner + 902>>

Entry(parent, id, type, name) ==
    [parent |-> parent, stored |-> <<>>, unpacked |-> 0, compr |-> NONE,
     ent |-> [BlankEntry EXCEPT !.id = id, !.type = type, !.name = name]]
Tree(id) == Entry(1, id, 0, <<>>)

Stored(x, bytes) == [x EXCEPT !.stored = bytes, !.unpacked = Len(bytes)]
Zipped(x, owner, n) ==
    [x EXCEPT !.stored = PackedBytes(owner), !.unpacked = n, !.compr = ZLIB]

Image(parent, name, format) ==
    [Entry(parent, IMG, 1, <<name>>) EXCEPT !.ent.format = format]
Sound(parent, name, channels, bytes) ==
    Stored([Entry(parent, SOUND, 1, <<name>>) EXCEPT
              !.ent.format = VAG, !.ent.channels = channels], bytes)
With(parent, id, type, name, words) ==
    [Entry(parent, id, type, name) EXCEPT !.ent.words = words]

(* A language with the texts named, laid out as write_rco does.            *)
Language(parent, lang, format, names, texts) ==
    LET w == CharWidth(format)
        bytes(i) == IF texts[i] = <<>> THEN <<>> ELSE Encode(Append(texts[i], 0), w)
        at[i \in 1..Len(texts)+1] ==
          IF i = 1 THEN 0 ELSE at[i-1] + ALIGN_TO_4(Len(bytes(i-1)))
        padded(b) == b \o [k \in 1..ALIGN_TO_4(Len(b)) - Len(b) |-> 0]
        x == [Entry(parent, TEXT, 1, <<>>) EXCEPT
                !.ent.lang = lang, !.ent.format = format,
                !.ent.texts = [i \in DOMAIN texts |->
                                 TextOf(names[i], Len(bytes(i)), at[i])]]
    IN Stored(x, FlattenSeq([i \in DOMAIN texts |-> padded(bytes(i))]))

(* The archive read from a file of the bytes stored, behind one other.     *)
Archive(file, list, verId, ps3) ==
    LET at[i \in 1..Len(list)+1] ==
          IF i = 1 THEN 1 ELSE at[i-1] + Len(list[i-1].stored)
        all == [i \in DOMAIN list |-> i]
        src(i) == IF list[i].compr = RCO
                  THEN FromFile(<<file>>, HeaderSize + 1, list[i].unpacked,
                                list[i].unpacked, RCO)
                  ELSE IF list[i].stored = <<>> /\ list[i].ent.id # IMG
                  THEN BlankEntry.src
                  ELSE FromFile(<<file>>, at[i], Len(list[i].stored),
                                list[i].unpacked, list[i].compr)
    IN [rco |->
          [ents |-> [i \in DOMAIN list |->
             [list[i].ent EXCEPT
                !.kids = SelectSeq(all, LAMBDA j : list[j].parent = i),
                !.src = src(i)]],
           tbl |-> [k \in Kinds |->
             LET trees == {i \in DOMAIN list : list[i].parent = 1 /\ list[i].ent.id = k}
             IN IF k = MAIN \/ trees = {} THEN Nil
                ELSE CHOOSE i \in trees : \A j \in trees : i <= j],
           verId |-> verId, umdFlag |-> 1, ps3 |-> ps3],
        disk |-> (<<file>> :>
             FoldLeft(LAMBDA bs, x : bs \o x.stored, <<7>>, list))]

-----------------------------------------------------------------------------
Main == Entry(0, MAIN, 1, <<"m">>)

(* Resources of every kind; names shared across kinds and with the main    *)
(* table, an image that is empty, packed and plain ones, two channels.     *)
ResourceList ==
    << Main,
       Tree(IMG),                                                  \* 2
         Stored(Image(2, "a", 5), Bytes(3, 5)),
         Zipped(Image(2, "b", 0), 4, 6),
         Image(2, "c", 5),                                         \* 5
         Stored(Image(2, "m", 5), Bytes(6, 3)),
       Tree(MODEL),                                                \* 7
         Zipped(Entry(7, MODEL, 1, <<"a">>), 8, 7),
       Tree(SOUND),                                                \* 9
         Sound(9, "a", << <<5, 0>> >>, Bytes(10, 5)),
         Sound(9, "s", << <<5, 0>>, <<6, 8>> >>, Bytes(11, 16)),
       Tree(FONT), With(12, FONT, 1, <<"f">>, <<AttrValue(1), AttrValue(2)>>),
       Tree(OBJ),                                                  \* 14
         With(14, OBJ, 5, <<"o">>, <<AttrValue(9), To("image", 4), Nothing,
                                     To("font", 13)>>),
           With(15, OBJ, 16, <<"p">>, <<To("image", 3), EventNamed("e")>>) >>

(* Texts with an empty one, in two languages, and a VSMX file in a packed  *)
(* header.  Objects refer to texts, to each other and to animations.       *)
TextNames == <<"t", "u", "w">>

TextList(format, packed, named) ==
    LET l(lang, cs) == Language(3, lang, format, TextNames, cs)
        texts == << << <<5, 6>>, <<>>, <<7, 8, 9>> >>,
                    << <<10, 11>>, <<12, 13, 14>>, <<>> >> >>
    IN << [Main EXCEPT !.ent.name = named],
          [Entry(1, VSMX, 1, <<"v">>) EXCEPT
             !.compr = IF packed THEN RCO ELSE NONE, !.unpacked = 3,
             !.stored = IF packed THEN <<>> ELSE Bytes(2, 3)],
          Tree(TEXT),
            IF packed THEN [l(1, texts[1]) EXCEPT !.stored = PackedBytes(20),
                                                  !.compr = ZLIB]
            ELSE l(1, texts[1]),
            l(0, texts[2]),
          Tree(OBJ),                                               \* 6
            With(6, OBJ, 5, <<"o">>, <<To("text", 2), To("object", 8)>>),
            With(6, OBJ, 24, <<"p">>, <<To("anim", 10), To("text", 0)>>),
          Tree(ANIM),                                              \* 9
            Entry(9, ANIM, 1, <<"n">>),
              With(10, ANIM, 8, <<>>, <<EventNamed("e")>>),
              With(10, ANIM, 6, <<>>, <<To("object2", 7), AttrFloat(30)>>) >>

(* Two images of one name.                                                 *)
TwinList ==
    << Main,
       Tree(IMG),
         Stored(Image(2, "a", 5), Bytes(3, 5)),
         Stored(Image(2, "a", 5), Bytes(4, 6)) >>

(* An image, and a language, that zlib refuses.                            *)
BrokenImageList ==
    << Main, Tree(IMG), Zipped(Image(2, "a", 5), 30, 6), Stored(Image(2, "b", 5), Bytes(4, 5)) >>

BrokenTextList ==
    LET l == Language(2, 1, UTF8, <<"t">>, << <<5, 6>> >>)
    IN << Main, Tree(TEXT), [l EXCEPT !.stored = PackedBytes(31), !.compr = ZLIB] >>

(* Two texts of one name.                                                  *)
TwinTextList ==
    << Main, Tree(TEXT),
         Language(2, 1, UTF8, <<"t", "t">>, << <<5, 6>>, <<7, 8, 9>> >>) >>

MCJunk == {0, 4 * 40}

MCInflated ==
    (PackedBytes(4) :> Bytes(4, 6)) @@ (PackedBytes(8) :> Bytes(8, 7))
    @@ (PackedBytes(20) :> Language(3, 1, UTF16, TextNames,
                                    << <<5, 6>>, <<>>, <<7, 8, 9>> >>).stored)

MCPackedTables == <<"packed">> :> <<7>> \o Bytes(2, 3)

Resources == Archive("rco", ResourceList, 256, FALSE)
TextsPacked == Archive("packed", TextList(UTF16, TRUE, <<"m">>), 144, FALSE)
TextsPlain == Archive("rco", TextList(UTF32, FALSE, <<"v">>), 0, FALSE)
TextsPs3 == Archive("rco", TextList(UTF8, FALSE, <<"m">>), 263, TRUE)
Twins == Archive("rco", TwinList, 113, FALSE)
TwinTexts == Archive("rco", TwinTextList, 113, TRUE)
BrokenImage == Archive("rco", BrokenImageList, 113, FALSE)
BrokenText == Archive("rco", BrokenTextList, 113, TRUE)

-----------------------------------------------------------------------------
(* Command lines: where resources go, or "-"; texts as text files or XML.  *)
Given(dir, img, snd, txt, vsmx, txtOut) ==
    [dir |-> dir, img |-> img, snd |-> snd, mdl |-> DEFAULT, txt |-> txt,
     vsmx |-> vsmx, txtOut |-> txtOut]

PlainCommand == Given(DEFAULT, DEFAULT, DEFAULT, DEFAULT, DEFAULT, FALSE)

XmlCommands ==
    {PlainCommand,
     Given("d", "i", SKIP, "x", SKIP, FALSE),
     Given("d", SKIP, "s", SKIP, DEFAULT, TRUE),
     Given(SKIP, DEFAULT, DEFAULT, DEFAULT, DEFAULT, FALSE)}

TxtCommand == Given("d", DEFAULT, DEFAULT, DEFAULT, DEFAULT, TRUE)

JobBeside(a, o, files, documents) ==
    [rco |-> a.rco, disk |-> files @@ a.disk, docs |-> documents, opts |-> o]
Job(a, o) == JobBeside(a, o, <<>>, <<>>)

(* Files and documents of the names that dump will use.                    *)
OldTexts == << "d", "English", "t", "txt" >> :> <<9>>
OldDocument == <<"English", "xml">> :> <<[name |-> "t", chars |-> <<9>>]>>
OldResources == (<<"a", "gim">> :> <<9>>) @@ (<<"s", "ch", "1", "vag">> :> <<9, 9>>)

GoodJobs ==
    {Job(a, o) : a \in {Resources, TextsPacked, TextsPlain, TextsPs3, Twins,
                        TwinTexts, BrokenImage, BrokenText},
                 o \in XmlCommands}
    \cup {Job(a, TxtCommand) : a \in {TextsPs3, TwinTexts, BrokenText}}
    \cup {JobBeside(TextsPs3, TxtCommand, OldTexts, <<>>),
          JobBeside(TextsPs3, PlainCommand, <<>>, OldDocument),
          JobBeside(Resources, PlainCommand, OldResources, <<>>)}

(* Texts of two bytes a character, one file for each.                      *)
TxtJobs == {Job(TextsPacked, TxtCommand)}
=============================================================================
